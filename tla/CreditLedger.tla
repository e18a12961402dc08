----------------------------- MODULE CreditLedger -----------------------------
(***************************************************************************)
(* Customer credit: chargeCredit() inside a checkout, collectPayment()     *)
(* behind POST /admin/credits/:id/collect-payment, and the reversal of a   *)
(* bill's charge inside cancelBill().                                      *)
(*                                                                         *)
(* One step per SQL statement that reads the balance or waits for a lock,  *)
(* READ COMMITTED as in StockLedger.  chargeCredit and collectPayment read *)
(* the balance, then write an absolute value computed from what they read; *)
(* the reversal is one conditional decrement.  Amounts are whole paise.    *)
(* Stock is left to StockLedger; all customers are of one branch, whose    *)
(* bill counter row serialises its checkouts.                              *)
(***************************************************************************)
EXTENDS Integers, Sequences

CONSTANTS
  Customers, Bills, Txs,
  Amounts,          \* the amounts of a credit payment or a collection
  Workload,         \* the kinds of request the clients make
  MaxPayments,      \* bound: credit payments of one bill
  MaxCollections,   \* bound: collections requested in all
  None

ASSUME CreditAssumption ==
  /\ Amounts \subseteq Nat \ {0}
  /\ Workload \subseteq {"charge", "collect", "cancel"}
  /\ MaxPayments \in Nat /\ MaxCollections \in Nat
  /\ None \notin Customers \cup Bills \cup Txs

PaymentSeqs == UNION {[1..n -> Amounts] : n \in 0..MaxPayments}

VARIABLES
  balance,     \* Customer.creditBalance
  bill,        \* bills with the sum of their CHARGE rows
  reversed,    \* sum of the REVERSAL rows of a bill
  ledger,      \* sum of a customer's CreditTransaction rows: charges less collections and reversals
  custLock, billLock,
  counterLock, \* the bill_counters row, taken by nextBillNumber()
  pc, req, payment, seen, next,
  entries,     \* sum of the CreditTransaction rows a transaction has inserted
  missed,      \* history: what others committed between a transaction's reads and its writes
  lost,        \* history: what the committed writes to a customer had missed
  collections  \* collections requested so far (for the bound)

rowsOf == <<balance, bill, reversed, ledger, lost>>
vars == <<balance, bill, reversed, ledger, custLock, billLock, counterLock,
          pc, req, payment, seen, next, entries, missed, lost, collections>>

NoReq == [kind |-> "none", customer |-> None, bill |-> None, amounts |-> <<>>]

Init ==
  /\ balance = [c \in Customers |-> 0]
  /\ bill = [b \in Bills |-> [status |-> "none", customer |-> None, charged |-> 0]]
  /\ reversed = [b \in Bills |-> 0]
  /\ ledger = [c \in Customers |-> 0]
  /\ custLock = [c \in Customers |-> None]
  /\ billLock = [b \in Bills |-> None]
  /\ counterLock = None
  /\ pc = [t \in Txs |-> "idle"]
  /\ req = [t \in Txs |-> NoReq]
  /\ payment = [t \in Txs |-> 1]
  /\ seen = [t \in Txs |-> 0]
  /\ next = [t \in Txs |-> 0]
  /\ entries = [t \in Txs |-> 0]
  /\ missed = [t \in Txs |-> 0]
  /\ lost = [c \in Customers |-> 0]
  /\ collections = 0

-----------------------------------------------------------------------------
Begin(t, r, firstPc) ==
  /\ pc[t] = "idle"
  /\ r.kind \in Workload
  /\ pc' = [pc EXCEPT ![t] = firstPc]
  /\ req' = [req EXCEPT ![t] = r]
  /\ UNCHANGED <<rowsOf, custLock, billLock, counterLock, payment, seen, next, entries, missed>>

\* checkoutBill() for a customer, with none, one or several credit payments.
BeginCharge(t, b, c, amounts) ==
  /\ bill[b].status = "none" /\ \A u \in Txs : req[u].bill # b
  /\ Begin(t, [kind |-> "charge", customer |-> c, bill |-> b, amounts |-> amounts], "counter")
  /\ UNCHANGED collections

BeginCollect(t, c, amount) ==
  /\ collections < MaxCollections
  /\ collections' = collections + 1
  /\ Begin(t, [kind |-> "collect", customer |-> c, bill |-> None, amounts |-> <<amount>>], "read")

BeginCancel(t, b) ==
  /\ bill[b].status = "PAID"
  /\ Begin(t, [kind |-> "cancel", customer |-> bill[b].customer, bill |-> b, amounts |-> <<>>], "claim")
  /\ UNCHANGED collections

-----------------------------------------------------------------------------
NoWait(lock, t) == TRUE   \* mutant: a plain read instead of the locking UPDATE

Free(lock, t) == lock \in {None, t}

\* COMMIT and ROLLBACK: t's locks go and its request is over.
End(t) ==
  /\ pc' = [pc EXCEPT ![t] = "idle"]
  /\ req' = [req EXCEPT ![t] = NoReq]
  /\ payment' = [payment EXCEPT ![t] = 1]
  /\ seen' = [seen EXCEPT ![t] = 0]
  /\ next' = [next EXCEPT ![t] = 0]
  /\ entries' = [entries EXCEPT ![t] = 0]
  /\ missed' = [missed EXCEPT ![t] = 0]
  /\ custLock' = [c \in Customers |-> IF custLock[c] = t THEN None ELSE custLock[c]]
  /\ billLock' = [b \in Bills |-> IF billLock[b] = t THEN None ELSE billLock[b]]
  /\ counterLock' = IF counterLock = t THEN None ELSE counterLock
  /\ UNCHANGED collections

Rollback(t) == End(t) /\ UNCHANGED rowsOf

\* mutant: one read before the loop over the payments serves them all
CommittedBalance(t) == balance[req[t].customer]

\* What t reads: its own write if it has made one, else the committed row.
Visible(t) ==
  IF custLock[req[t].customer] = t THEN next[t] ELSE balance[req[t].customer]

\* nextBillNumber(): the counter row stays locked until the checkout ends.
TakeCounter(t) == Free(counterLock, t) /\ counterLock' = t

NextBillNumber(t) ==
  /\ pc[t] = "counter"
  /\ TakeCounter(t)
  /\ pc' = [pc EXCEPT ![t] = IF req[t].amounts = <<>> THEN "commit" ELSE "read"]
  /\ UNCHANGED <<rowsOf, custLock, billLock, req, payment, seen, next, entries, missed, collections>>

Amount(t) == req[t].amounts[payment[t]]

\* AMOUNT_EXCEEDS_BALANCE
Collectable(t) == req[t].kind = "collect" => Amount(t) <= Visible(t)

\* chargeCredit() and collectPayment(): findUnique of the customer, the
\* refusal of an excessive collection, the CreditTransaction row.
ReadBalance(t) ==
  /\ pc[t] = "read"
  /\ \/ /\ Collectable(t)
        /\ seen' = [seen EXCEPT ![t] = Visible(t)]
        /\ entries' = [entries EXCEPT ![t] = @ + Amount(t)]
        /\ pc' = [pc EXCEPT ![t] = "write"]
        /\ UNCHANGED <<rowsOf, custLock, billLock, counterLock, req, payment, next, missed, collections>>
     \/ ~Collectable(t) /\ Rollback(t)

\* ... and the UPDATE to the value computed from what was read.
NewBalance(t) == IF req[t].kind = "charge" THEN seen[t] + Amount(t) ELSE seen[t] - Amount(t)

WriteBalance(t) ==
  /\ pc[t] = "write"
  /\ Free(custLock[req[t].customer], t)
  /\ custLock' = [custLock EXCEPT ![req[t].customer] = t]
  /\ next' = [next EXCEPT ![t] = NewBalance(t)]
  /\ missed' = [missed EXCEPT ![t] = @ + Visible(t) - seen[t]]
  /\ IF payment[t] < Len(req[t].amounts)
     THEN payment' = [payment EXCEPT ![t] = @ + 1] /\ pc' = [pc EXCEPT ![t] = "read"]
     ELSE pc' = [pc EXCEPT ![t] = "commit"] /\ UNCHANGED payment
  /\ UNCHANGED <<rowsOf, billLock, counterLock, req, seen, entries, collections>>

\* UPDATE bills SET status = CANCELLED WHERE status = PAID
Claimable(t) == bill[req[t].bill].status = "PAID"

ClaimBill(t) ==
  /\ pc[t] = "claim"
  /\ Free(billLock[req[t].bill], t)
  /\ \/ /\ Claimable(t)
        /\ billLock' = [billLock EXCEPT ![req[t].bill] = t]
        /\ pc' = [pc EXCEPT ![t] = IF bill[req[t].bill].charged = 0 THEN "commit" ELSE "reverse"]
        /\ UNCHANGED <<rowsOf, custLock, counterLock, req, payment, seen, next, entries, missed, collections>>
     \/ ~Claimable(t) /\ Rollback(t)

\* The conditional decrement waits for the row and is evaluated on its
\* current value; a second REVERSAL row would violate its unique index.
Reversible(t) ==
  balance[req[t].customer] >= bill[req[t].bill].charged /\ reversed[req[t].bill] = 0

ReverseCredit(t) ==
  /\ pc[t] = "reverse"
  /\ Free(custLock[req[t].customer], t)
  /\ \/ /\ Reversible(t)
        /\ custLock' = [custLock EXCEPT ![req[t].customer] = t]
        /\ next' = [next EXCEPT ![t] = balance[req[t].customer] - bill[req[t].bill].charged]
        /\ entries' = [entries EXCEPT ![t] = bill[req[t].bill].charged]
        /\ pc' = [pc EXCEPT ![t] = "commit"]
        /\ UNCHANGED <<rowsOf, billLock, counterLock, req, payment, seen, missed, collections>>
     \/ ~Reversible(t) /\ Rollback(t)

CommitCharge(t) ==
  /\ bill' = [bill EXCEPT ![req[t].bill] =
                [status |-> "PAID", customer |-> req[t].customer, charged |-> entries[t]]]
  /\ ledger' = [ledger EXCEPT ![req[t].customer] = @ + entries[t]]
  /\ UNCHANGED reversed

CommitCollect(t) ==
  /\ ledger' = [ledger EXCEPT ![req[t].customer] = @ - entries[t]]
  /\ UNCHANGED <<bill, reversed>>

\* mutant: a cancellation writes no REVERSAL row
CommitCancelNoEntry(t) ==
  /\ bill' = [bill EXCEPT ![req[t].bill].status = "CANCELLED"]
  /\ UNCHANGED <<reversed, ledger>>

\* mutant: the REVERSAL row has the wrong sign
CommitCancelNegative(t) ==
  /\ bill' = [bill EXCEPT ![req[t].bill].status = "CANCELLED"]
  /\ reversed' = [reversed EXCEPT ![req[t].bill] = @ - entries[t]]
  /\ ledger' = [ledger EXCEPT ![req[t].customer] = @ + entries[t]]

CommitCancel(t) ==
  /\ bill' = [bill EXCEPT ![req[t].bill].status = "CANCELLED"]
  /\ reversed' = [reversed EXCEPT ![req[t].bill] = @ + entries[t]]
  /\ ledger' = [ledger EXCEPT ![req[t].customer] = @ - entries[t]]

Commit(t) ==
  /\ pc[t] = "commit"
  /\ balance' = [c \in Customers |-> IF custLock[c] = t THEN next[t] ELSE balance[c]]
  /\ \/ req[t].kind = "charge" /\ CommitCharge(t)
     \/ req[t].kind = "collect" /\ CommitCollect(t)
     \/ req[t].kind = "cancel" /\ CommitCancel(t)
  /\ lost' = [lost EXCEPT ![req[t].customer] = @ + missed[t]]
  /\ End(t)

\* The 15 s timeout, a lost connection or a crash.
Fail(t) == pc[t] # "idle" /\ Rollback(t)

-----------------------------------------------------------------------------
Step(t) ==
  NextBillNumber(t) \/ ReadBalance(t) \/ WriteBalance(t) \/ ClaimBill(t) \/ ReverseCredit(t) \/ Commit(t)

Request(t) ==
  \/ \E b \in Bills, c \in Customers, amounts \in PaymentSeqs : BeginCharge(t, b, c, amounts)
  \/ \E c \in Customers, amount \in Amounts : BeginCollect(t, c, amount)
  \/ \E b \in Bills : BeginCancel(t, b)

Next == \E t \in Txs : Request(t) \/ Step(t) \/ Fail(t)

Spec == Init /\ [][Next]_vars

-----------------------------------------------------------------------------
(* Properties.                                                             *)

Stages == {"idle", "counter", "read", "write", "claim", "reverse", "commit"}
BillType == [status : {"none", "PAID", "CANCELLED"}, customer : Customers \cup {None}, charged : Nat]
ReqType == [kind : {"none", "charge", "collect", "cancel"}, customer : Customers \cup {None},
            bill : Bills \cup {None}, amounts : Seq(Amounts)]

\* The type invariant.
TypeOK ==
  /\ balance \in [Customers -> Int]
  /\ bill \in [Bills -> BillType]
  /\ reversed \in [Bills -> Nat] /\ ledger \in [Customers -> Int]
  /\ custLock \in [Customers -> Txs \cup {None}]
  /\ billLock \in [Bills -> Txs \cup {None}]
  /\ counterLock \in Txs \cup {None}
  /\ pc \in [Txs -> Stages]
  /\ req \in [Txs -> ReqType]
  /\ payment \in [Txs -> Nat \ {0}]
  /\ seen \in [Txs -> Int] /\ next \in [Txs -> Int] /\ entries \in [Txs -> Nat]
  /\ missed \in [Txs -> Int] /\ lost \in [Customers -> Int]
  /\ collections \in Nat

\* A customer's balance differs from the sum of the ledger rows by exactly
\* what was committed between the read and the row lock of a charge or a
\* collection: such a write undoes that and nothing else, and no cancellation
\* and no write that overlapped nothing adds to the difference.
DriftIsOverwritten == \A c \in Customers : balance[c] = ledger[c] - lost[c]

\* A charge is reversed exactly once and in full: by the one cancellation
\* that claimed the bill, together with its status.
ReversedOnce ==
  \A b \in Bills : reversed[b] = IF bill[b].status = "CANCELLED" THEN bill[b].charged ELSE 0

\* A cancellation takes its charge off the balance as it is at that moment,
\* whatever charges and collections ran meanwhile.
CancelDecrementsCurrent ==
  [][\A b \in Bills : bill[b].status = "PAID" /\ bill'[b].status = "CANCELLED" =>
       balance'[bill[b].customer] = balance[bill[b].customer] - bill[b].charged]_vars

\* "Always the sum of CreditTransaction rows for this customer" (Customer in
\* schema.prisma): charges, less collections, less reversals.
BalanceIsLedgerSum == \A c \in Customers : balance[c] = ledger[c]
===============================================================================

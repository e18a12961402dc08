-------------------------- MODULE CreditLedgerProofs --------------------------
(***************************************************************************)
(* Proofs about CreditLedger for any customers, bills, transactions and    *)
(* amounts.                                                                *)
(***************************************************************************)
EXTENDS CreditLedger, TLAPS

\* A bill that exists has a customer.
BillOK == \A b \in Bills : bill[b].status # "none" => bill[b].customer \in Customers

\* A running transaction is at a stage of its own kind of request.
StageOK ==
  \A t \in Txs : pc[t] # "idle" =>
    /\ req[t].customer \in Customers
    /\ req[t].kind \in {"charge", "collect", "cancel"}
    /\ pc[t] = "counter" => req[t].kind = "charge"
    /\ pc[t] \in {"read", "write"} => req[t].kind # "cancel" /\ payment[t] \in 1..Len(req[t].amounts)
    /\ pc[t] \in {"claim", "reverse"} => req[t].kind = "cancel"
    /\ req[t].kind # "collect" => req[t].bill \in Bills
    /\ pc[t] = "counter" => payment[t] = 1

\* A bill being created is nobody else's yet; a bill being cancelled exists,
\* and past the claim it is PAID and locked.
DocumentOK ==
  \A t \in Txs : pc[t] # "idle" =>
    /\ req[t].kind = "charge" => /\ bill[req[t].bill].status = "none"
                                 /\ \A u \in Txs \ {t} : req[u].bill # req[t].bill
    /\ req[t].kind = "cancel" => /\ bill[req[t].bill].status # "none"
                                 /\ req[t].customer = bill[req[t].bill].customer
    /\ req[t].kind = "cancel" /\ pc[t] \in {"reverse", "commit"} =>
         bill[req[t].bill].status = "PAID" /\ billLock[req[t].bill] = t

\* What was read is not negative and covers a collection; what is written
\* is not negative either.
ReadOK ==
  \A t \in Txs : pc[t] = "write" => seen[t] >= 0 /\ (req[t].kind = "collect" => Amount(t) <= seen[t])

LockOK ==
  \A c \in Customers, t \in Txs : custLock[c] = t => pc[t] # "idle" /\ c = req[t].customer /\ next[t] >= 0

\* A cancellation's decrement is relative to the committed balance until it
\* commits, because it holds the row.
ReversalOK ==
  \A t \in Txs : req[t].kind = "cancel" =>
    /\ pc[t] \in {"claim", "reverse"} => entries[t] = 0 /\ \A c \in Customers : custLock[c] # t
    /\ pc[t] = "reverse" => bill[req[t].bill].charged # 0
    /\ pc[t] = "commit" =>
         LET c == req[t].customer  amount == bill[req[t].bill].charged
         IN  /\ entries[t] = amount
             /\ IF amount = 0 THEN custLock[c] # t
                              ELSE custLock[c] = t /\ next[t] = balance[c] - amount

IdleOK == \A t \in Txs : pc[t] = "idle" => req[t] = NoReq /\ entries[t] = 0 /\ payment[t] = 1

\* A stored balance is never negative.  This bounds the column only: two
\* collections that both read the same balance may together take more than
\* was owed (BalanceIsLedgerSum).
BalanceNonNegative == \A c \in Customers : balance[c] >= 0

IInv == TypeOK /\ BillOK /\ StageOK /\ DocumentOK /\ ReadOK /\ LockOK /\ ReversalOK /\ IdleOK
        /\ BalanceNonNegative /\ ReversedOnce

\* The ledger rows of t whose amount its write of the balance has followed.
Applied(t) == IF pc[t] = "write" THEN entries[t] - Amount(t) ELSE entries[t]
Signed(t, n) == IF req[t].kind = "charge" THEN n ELSE 0 - n

\* The value t is to write is the committed balance with t's own ledger rows
\* and without what t missed, for as long as t holds the row.
WriteOK ==
  \A t \in Txs :
    /\ pc[t] = "idle" => missed[t] = 0
    /\ pc[t] # "idle" =>
         IF custLock[req[t].customer] = t
         THEN next[t] = balance[req[t].customer] + Signed(t, Applied(t)) - missed[t]
         ELSE Applied(t) = 0 /\ missed[t] = 0

DriftInv == WriteOK /\ DriftIsOverwritten

-----------------------------------------------------------------------------
LEMMA PaymentSeqsFacts ==
  ASSUME NEW amounts \in PaymentSeqs
  PROVE  amounts \in Seq(Amounts) /\ Len(amounts) \in Nat
  <1>1. PICK n \in 0..MaxPayments : amounts \in [1..n -> Amounts]
    BY DEF PaymentSeqs
  <1>2. n \in Nat
    BY <1>1, CreditAssumption
  <1> QED BY <1>1, <1>2

\* The amount of the payment being applied.
LEMMA AmountFact ==
  ASSUME TypeOK, StageOK, NEW t \in Txs, pc[t] \in {"read", "write"}
  PROVE  Amount(t) \in Nat \ {0} /\ Len(req[t].amounts) \in Nat
  <1>1. req[t].amounts \in Seq(Amounts) /\ payment[t] \in 1..Len(req[t].amounts)
    BY DEF TypeOK, StageOK, ReqType
  <1>2. Len(req[t].amounts) \in Nat /\ req[t].amounts[payment[t]] \in Amounts
    BY <1>1
  <1> QED BY <1>2, CreditAssumption DEF Amount

LEMMA InitIInv == Init => IInv
  <1> SUFFICES ASSUME Init PROVE IInv
    OBVIOUS
  <1>1. NoReq \in ReqType
    BY DEF NoReq, ReqType
  <1>2. TypeOK
    BY <1>1 DEF Init, TypeOK, BillType, Stages
  <1>3. BillOK /\ StageOK /\ DocumentOK /\ ReadOK /\ ReversalOK /\ IdleOK /\ BalanceNonNegative /\ ReversedOnce
    BY DEF Init, BillOK, StageOK, DocumentOK, ReadOK, ReversalOK, IdleOK, BalanceNonNegative, ReversedOnce, NoReq
  <1>4. LockOK
    BY CreditAssumption DEF Init, LockOK
  <1> QED BY <1>2, <1>3, <1>4 DEF IInv

\* Beginning a well-formed request.
LEMMA BeginIInv ==
  ASSUME IInv, NEW t \in Txs, NEW r \in ReqType, NEW first \in {"counter", "read", "claim"},
         Begin(t, r, first), collections' \in Nat,
         r.customer \in Customers,
         first = "counter" => r.kind = "charge",
         first = "read" => r.kind = "collect" /\ 1 \in 1..Len(r.amounts),
         first = "claim" => r.kind = "cancel",
         r.kind = "charge" => r.bill \in Bills /\ bill[r.bill].status = "none" /\ \A u \in Txs : req[u].bill # r.bill,
         r.kind = "collect" => r.bill = None,
         r.kind = "cancel" => r.bill \in Bills /\ bill[r.bill].status # "none" /\ r.customer = bill[r.bill].customer
  PROVE  IInv'
  <1> USE DEF IInv
  <1>1. /\ pc[t] = "idle" /\ req[t] = NoReq /\ entries[t] = 0 /\ payment[t] = 1
        /\ \A c \in Customers : custLock[c] # t
    BY DEF Begin, IdleOK, LockOK
  <1>2. /\ pc' = [pc EXCEPT ![t] = first] /\ req' = [req EXCEPT ![t] = r]
        /\ UNCHANGED <<balance, bill, reversed, ledger, lost, custLock, billLock, counterLock, payment, seen, next, entries, missed>>
    BY DEF Begin, rowsOf
  <1>3. TypeOK'
    BY <1>2 DEF TypeOK, Stages
  <1>4. BillOK' /\ BalanceNonNegative' /\ ReversedOnce'
    BY <1>2 DEF BillOK, BalanceNonNegative, ReversedOnce
  <1>5. StageOK'
    <2> SUFFICES ASSUME NEW u \in Txs, pc'[u] # "idle" PROVE StageOK!(u)!2'
      BY DEF StageOK
    <2>1. CASE u = t
      <3>1. pc'[u] = first /\ req'[u] = r /\ payment'[u] = 1
        BY <1>1, <1>2, <2>1 DEF TypeOK
      <3>2. r.kind \in {"charge", "collect", "cancel"} /\ (r.kind # "collect" => r.bill \in Bills)
        OBVIOUS
      <3> QED BY <3>1, <3>2
    <2>2. CASE u # t
      <3>1. pc'[u] = pc[u] /\ req'[u] = req[u] /\ payment'[u] = payment[u]
        BY <1>2, <2>2 DEF TypeOK
      <3> QED BY <3>1 DEF StageOK
    <2> QED BY <2>1, <2>2
  <1>6. DocumentOK'
    <2> SUFFICES ASSUME NEW u \in Txs, pc'[u] # "idle" PROVE DocumentOK!(u)!2'
      BY DEF DocumentOK
    <2>1. CASE u = t
      BY <1>1, <1>2, <2>1 DEF TypeOK, DocumentOK
    <2>2. CASE u # t
      <3>1. pc'[u] = pc[u] /\ req'[u] = req[u] /\ pc[u] # "idle"
        BY <1>2, <2>2 DEF TypeOK
      <3>2. ASSUME req[u].kind = "charge" PROVE req[u].bill # r.bill
        BY <3>1, <3>2, CreditAssumption DEF DocumentOK, StageOK, ReqType
      <3> QED BY <1>2, <2>2, <3>1, <3>2 DEF TypeOK, DocumentOK
    <2> QED BY <2>1, <2>2
  <1>7. ReadOK' /\ IdleOK'
    BY <1>1, <1>2 DEF TypeOK, ReadOK, IdleOK, Amount
  <1>8. LockOK'
    BY <1>1, <1>2 DEF TypeOK, LockOK
  <1>9. ReversalOK'
    BY <1>1, <1>2 DEF TypeOK, ReversalOK
  <1> QED BY <1>3, <1>4, <1>5, <1>6, <1>7, <1>8, <1>9

LEMMA RequestIInv ==
  ASSUME IInv, NEW t \in Txs, Request(t)
  PROVE  IInv'
  <1> USE DEF IInv
  <1>1. ASSUME NEW b \in Bills, NEW c \in Customers, NEW amounts \in PaymentSeqs, BeginCharge(t, b, c, amounts)
        PROVE  IInv'
    <2> DEFINE r == [kind |-> "charge", customer |-> c, bill |-> b, amounts |-> amounts]
    <2>1. r \in ReqType /\ r.kind = "charge" /\ r.customer = c /\ r.bill = b
      BY PaymentSeqsFacts DEF ReqType
    <2>2. Begin(t, r, "counter") /\ bill[b].status = "none" /\ \A u \in Txs : req[u].bill # b
      BY <1>1 DEF BeginCharge
    <2>3. collections' \in Nat
      BY <1>1 DEF BeginCharge, TypeOK
    <2> HIDE DEF r
    <2> QED BY <2>1, <2>2, <2>3, BeginIInv
  <1>2. ASSUME NEW c \in Customers, NEW amount \in Amounts, BeginCollect(t, c, amount)
        PROVE  IInv'
    <2> DEFINE r == [kind |-> "collect", customer |-> c, bill |-> None, amounts |-> <<amount>>]
    <2>0. Len(<<amount>>) = 1
      OBVIOUS
    <2>1. r \in ReqType /\ r.kind = "collect" /\ r.customer = c /\ r.bill = None /\ 1 \in 1..Len(r.amounts)
      BY <2>0 DEF ReqType
    <2>2. Begin(t, r, "read")
      BY <1>2 DEF BeginCollect
    <2>3. collections' \in Nat
      BY <1>2 DEF BeginCollect, TypeOK
    <2> HIDE DEF r
    <2> QED BY <2>1, <2>2, <2>3, BeginIInv
  <1>3. ASSUME NEW b \in Bills, BeginCancel(t, b)
        PROVE  IInv'
    <2> DEFINE r == [kind |-> "cancel", customer |-> bill[b].customer, bill |-> b, amounts |-> <<>>]
    <2>1. bill[b].status = "PAID" /\ bill[b].customer \in Customers
      BY <1>3 DEF BeginCancel, BillOK
    <2>2. r \in ReqType /\ r.kind = "cancel" /\ r.customer = bill[b].customer /\ r.bill = b
      BY <2>1 DEF ReqType
    <2>3. Begin(t, r, "claim")
      BY <1>3 DEF BeginCancel
    <2>4. collections' \in Nat
      BY <1>3 DEF BeginCancel, TypeOK
    <2> HIDE DEF r
    <2> QED BY <2>1, <2>2, <2>3, <2>4, BeginIInv
  <1> QED BY <1>1, <1>2, <1>3 DEF Request

\* What the end of t leaves to the other transactions.
LEMMA EndFacts ==
  ASSUME TypeOK, NEW t \in Txs, End(t)
  PROVE  /\ \A u \in Txs : IF u = t THEN pc'[u] = "idle" /\ req'[u] = NoReq /\ entries'[u] = 0 /\ payment'[u] = 1 /\ missed'[u] = 0
                           ELSE /\ pc'[u] = pc[u] /\ req'[u] = req[u] /\ entries'[u] = entries[u]
                                /\ payment'[u] = payment[u] /\ seen'[u] = seen[u] /\ next'[u] = next[u] /\ missed'[u] = missed[u]
         /\ \A c \in Customers, u \in Txs : custLock'[c] = u <=> u # t /\ custLock[c] = u
         /\ \A b \in Bills, u \in Txs : billLock'[b] = u <=> u # t /\ billLock[b] = u
         /\ pc' \in [Txs -> Stages] /\ req' \in [Txs -> ReqType] /\ payment' \in [Txs -> Nat \ {0}]
         /\ seen' \in [Txs -> Int] /\ next' \in [Txs -> Int] /\ entries' \in [Txs -> Nat] /\ missed' \in [Txs -> Int]
         /\ custLock' \in [Customers -> Txs \cup {None}] /\ billLock' \in [Bills -> Txs \cup {None}]
         /\ counterLock' \in Txs \cup {None} /\ collections' \in Nat
  <1>1. NoReq \in ReqType
    BY DEF NoReq, ReqType
  <1>2. /\ pc' \in [Txs -> Stages] /\ req' \in [Txs -> ReqType] /\ payment' \in [Txs -> Nat \ {0}]
        /\ seen' \in [Txs -> Int] /\ next' \in [Txs -> Int] /\ entries' \in [Txs -> Nat] /\ missed' \in [Txs -> Int]
    BY <1>1 DEF End, TypeOK, Stages
  <1>3. /\ custLock' \in [Customers -> Txs \cup {None}] /\ billLock' \in [Bills -> Txs \cup {None}]
        /\ counterLock' \in Txs \cup {None} /\ collections' \in Nat
    BY DEF End, TypeOK
  <1>4. \A u \in Txs : IF u = t THEN pc'[u] = "idle" /\ req'[u] = NoReq /\ entries'[u] = 0 /\ payment'[u] = 1 /\ missed'[u] = 0
                       ELSE /\ pc'[u] = pc[u] /\ req'[u] = req[u] /\ entries'[u] = entries[u]
                            /\ payment'[u] = payment[u] /\ seen'[u] = seen[u] /\ next'[u] = next[u] /\ missed'[u] = missed[u]
    BY DEF End, TypeOK
  <1>5. None \notin Txs
    BY CreditAssumption
  <1>6. /\ \A c \in Customers, u \in Txs : custLock'[c] = u <=> u # t /\ custLock[c] = u
        /\ \A b \in Bills, u \in Txs : billLock'[b] = u <=> u # t /\ billLock[b] = u
    BY <1>5 DEF End, TypeOK
  <1> QED BY <1>2, <1>3, <1>4, <1>6

LEMMA RollbackIInv ==
  ASSUME IInv, NEW t \in Txs, Rollback(t)
  PROVE  IInv'
  <1> USE DEF IInv
  <1>1. End(t) /\ UNCHANGED <<balance, bill, reversed, ledger, lost>>
    BY DEF Rollback, rowsOf
  <1>2. TypeOK'
    BY <1>1, EndFacts DEF TypeOK
  <1>3. BillOK' /\ BalanceNonNegative' /\ ReversedOnce'
    BY <1>1 DEF BillOK, BalanceNonNegative, ReversedOnce
  <1>0. \A u \in Txs : pc'[u] # "idle" => /\ u # t /\ pc'[u] = pc[u] /\ req'[u] = req[u]
                                          /\ payment'[u] = payment[u] /\ entries'[u] = entries[u]
    BY <1>1, EndFacts
  <1>4. StageOK'
    BY <1>0 DEF StageOK
  <1>8. IdleOK'
    BY <1>1, EndFacts DEF IdleOK
  <1>5. DocumentOK'
    <2> SUFFICES ASSUME NEW u \in Txs, pc'[u] # "idle" PROVE DocumentOK!(u)!2'
      BY DEF DocumentOK
    <2>1. u # t /\ pc'[u] = pc[u] /\ req'[u] = req[u] /\ pc[u] # "idle"
      BY <1>0
    <2>2. req[u].bill \in Bills /\ billLock[req[u].bill] = u => billLock'[req[u].bill] = u
      BY <1>1, <2>1, EndFacts
    <2>3. ASSUME req[u].kind = "charge" PROVE \A v \in Txs \ {u} : req'[v].bill # req[u].bill
      <3>1. req[u].bill # None /\ NoReq.bill = None
        BY <2>1, <2>3, CreditAssumption DEF StageOK, NoReq
      <3>2. \A v \in Txs : req'[v] = req[v] \/ req'[v] = NoReq
        BY <1>1, EndFacts
      <3> QED BY <2>1, <2>3, <3>1, <3>2 DEF DocumentOK
    <2> QED BY <1>1, <2>1, <2>2, <2>3 DEF DocumentOK, StageOK
  <1>6. ReadOK' /\ LockOK'
    BY <1>1, EndFacts DEF ReadOK, LockOK, Amount
  <1>7. ReversalOK'
    <2>1. NoReq.kind = "none"
      BY DEF NoReq
    <2> SUFFICES ASSUME NEW u \in Txs, req'[u].kind = "cancel" PROVE ReversalOK!(u)!2'
      BY DEF ReversalOK
    <2>2. /\ u # t /\ pc'[u] = pc[u] /\ req'[u] = req[u] /\ entries'[u] = entries[u] /\ next'[u] = next[u]
          /\ \A c \in Customers : custLock'[c] = u <=> custLock[c] = u
      BY <1>1, <2>1, EndFacts
    <2>3. pc[u] = "commit" => req[u].customer \in Customers
      BY DEF StageOK
    <2> QED BY <1>1, <2>2, <2>3 DEF ReversalOK
  <1> QED BY <1>2, <1>3, <1>4, <1>5, <1>6, <1>7, <1>8

\* What is read is never negative: it is the transaction's own write or a
\* committed balance.
LEMMA ReadBalanceIInv ==
  ASSUME IInv, NEW t \in Txs, ReadBalance(t)
  PROVE  IInv'
  <1> USE DEF IInv
  <1>1. CASE Rollback(t)
    BY <1>1, RollbackIInv
  <1>2. CASE /\ Collectable(t)
             /\ seen' = [seen EXCEPT ![t] = Visible(t)]
             /\ entries' = [entries EXCEPT ![t] = @ + Amount(t)]
             /\ pc' = [pc EXCEPT ![t] = "write"]
             /\ UNCHANGED <<rowsOf, custLock, billLock, counterLock, req, payment, next, missed, collections>>
    <2>1. pc[t] = "read" /\ Amount(t) \in Nat \ {0} /\ req[t].customer \in Customers /\ req[t].kind # "cancel"
      BY AmountFact DEF ReadBalance, StageOK
    <2>2. Visible(t) \in Nat
      BY <2>1 DEF Visible, LockOK, BalanceNonNegative, TypeOK
    <2>3. /\ seen' \in [Txs -> Int] /\ entries' \in [Txs -> Nat] /\ pc' \in [Txs -> Stages]
          /\ seen'[t] = Visible(t) /\ pc'[t] = "write"
          /\ \A u \in Txs \ {t} : seen'[u] = seen[u] /\ entries'[u] = entries[u] /\ pc'[u] = pc[u]
      BY <1>2, <2>1, <2>2 DEF TypeOK, Stages
    <2>4. UNCHANGED <<balance, bill, reversed, ledger, lost, custLock, billLock, counterLock, req, payment, next, missed, collections>>
      BY <1>2 DEF rowsOf
    <2>5. TypeOK'
      BY <2>3, <2>4 DEF TypeOK
    <2>6. BillOK' /\ BalanceNonNegative' /\ ReversedOnce'
      BY <2>4 DEF BillOK, BalanceNonNegative, ReversedOnce
    <2>7. StageOK'
      BY <2>1, <2>3, <2>4 DEF StageOK
    <2>8. DocumentOK'
      BY <2>1, <2>3, <2>4 DEF DocumentOK
    <2>9. ReadOK'
      <3>1. req[t].kind = "collect" => Amount(t) <= Visible(t)
        BY <1>2 DEF Collectable
      <3>2. \A u \in Txs : Amount(u)' = Amount(u)
        BY <2>4 DEF Amount
      <3> QED BY <2>2, <2>3, <2>4, <3>1, <3>2 DEF ReadOK
    <2>10. LockOK' /\ IdleOK' /\ ReversalOK'
      BY <2>1, <2>3, <2>4 DEF LockOK, IdleOK, ReversalOK
    <2> QED BY <2>5, <2>6, <2>7, <2>8, <2>9, <2>10
  <1> QED BY <1>1, <1>2 DEF ReadBalance

LEMMA NextBillNumberIInv ==
  ASSUME IInv, NEW t \in Txs, NextBillNumber(t)
  PROVE  IInv'
  <1> USE DEF IInv
  <1>1. /\ pc[t] = "counter" /\ req[t].kind = "charge" /\ payment[t] = 1
        /\ counterLock' = t
        /\ UNCHANGED <<balance, bill, reversed, ledger, lost, custLock, billLock, req, payment, seen, next, entries, missed, collections>>
    BY DEF NextBillNumber, TakeCounter, StageOK, rowsOf
  <1>2. /\ pc'[t] \in {"read", "commit"}
        /\ \A u \in Txs \ {t} : pc'[u] = pc[u]
        /\ pc' \in [Txs -> Stages]
    BY DEF NextBillNumber, TypeOK, Stages
  <1>3. pc'[t] = "read" => payment[t] \in 1..Len(req[t].amounts)
    <2>1. req[t].amounts \in Seq(Amounts)
      BY DEF TypeOK, ReqType
    <2>2. pc'[t] = "read" => req[t].amounts # <<>>
      BY DEF NextBillNumber, TypeOK
    <2>3. req[t].amounts # <<>> => 1 \in 1..Len(req[t].amounts)
      BY <2>1
    <2> QED BY <1>1, <2>2, <2>3
  <1>4. TypeOK'
    BY <1>1, <1>2 DEF TypeOK
  <1>5. BillOK' /\ BalanceNonNegative' /\ ReversedOnce'
    BY <1>1 DEF BillOK, BalanceNonNegative, ReversedOnce
  <1>6. StageOK' /\ DocumentOK'
    BY <1>1, <1>2, <1>3 DEF StageOK, DocumentOK
  <1>7. ReadOK' /\ LockOK' /\ IdleOK' /\ ReversalOK'
    BY <1>1, <1>2 DEF ReadOK, LockOK, IdleOK, ReversalOK, Amount
  <1> QED BY <1>4, <1>5, <1>6, <1>7

LEMMA WriteBalanceIInv ==
  ASSUME IInv, NEW t \in Txs, WriteBalance(t)
  PROVE  IInv'
  <1> USE DEF IInv
  <1> DEFINE k == req[t].customer
  <1>1. /\ pc[t] = "write" /\ Amount(t) \in Nat \ {0} /\ Len(req[t].amounts) \in Nat
        /\ k \in Customers /\ req[t].kind # "cancel" /\ payment[t] \in 1..Len(req[t].amounts)
      BY AmountFact DEF WriteBalance, StageOK
  <1>2. NewBalance(t) \in Nat
    <2>1. seen[t] \in Nat /\ (req[t].kind = "collect" => Amount(t) <= seen[t]) /\ req[t].kind \in {"charge", "collect"}
      BY <1>1 DEF ReadOK, TypeOK, StageOK
    <2> QED BY <1>1, <2>1 DEF NewBalance
  <1>3. /\ custLock[k] \in {None, t} /\ custLock' = [custLock EXCEPT ![k] = t]
        /\ next' = [next EXCEPT ![t] = NewBalance(t)]
        /\ UNCHANGED <<balance, bill, reversed, ledger, lost, billLock, counterLock, req, seen, entries, collections>>
    BY DEF WriteBalance, Free, rowsOf
  <1>4. \/ payment' = [payment EXCEPT ![t] = payment[t] + 1] /\ payment[t] < Len(req[t].amounts) /\ pc' = [pc EXCEPT ![t] = "read"]
        \/ payment' = payment /\ pc' = [pc EXCEPT ![t] = "commit"]
    BY DEF WriteBalance
  <1>5. /\ payment' \in [Txs -> Nat \ {0}] /\ pc' \in [Txs -> Stages]
        /\ pc'[t] \in {"read", "commit"} /\ (pc'[t] = "read" => payment'[t] \in 1..Len(req[t].amounts))
        /\ \A u \in Txs \ {t} : pc'[u] = pc[u] /\ payment'[u] = payment[u]
    <2>1. payment[t] + 1 \in Nat \ {0}
      BY DEF TypeOK
    <2>2. CASE payment' = payment /\ pc' = [pc EXCEPT ![t] = "commit"]
      BY <2>2 DEF TypeOK, Stages
    <2>3. CASE payment' = [payment EXCEPT ![t] = payment[t] + 1] /\ payment[t] < Len(req[t].amounts) /\ pc' = [pc EXCEPT ![t] = "read"]
      <3>1. payment[t] + 1 \in 1..Len(req[t].amounts)
        BY <1>1, <2>3
      <3> QED BY <2>1, <2>3, <3>1 DEF TypeOK, Stages
    <2> QED BY <1>4, <2>2, <2>3
  <1>6. /\ custLock' \in [Customers -> Txs \cup {None}] /\ next' \in [Txs -> Int] /\ next'[t] >= 0
        /\ \A u \in Txs \ {t} : next'[u] = next[u] /\ \A c \in Customers : custLock'[c] = u <=> custLock[c] = u
        /\ \A c \in Customers : custLock'[c] = t => c = k \/ custLock[c] = t
    <2>1. None \notin Txs /\ NewBalance(t) \in Int /\ NewBalance(t) >= 0
      BY <1>2, CreditAssumption
    <2>2. /\ custLock' \in [Customers -> Txs \cup {None}] /\ next' \in [Txs -> Int] /\ next'[t] = NewBalance(t)
          /\ \A u \in Txs \ {t} : next'[u] = next[u]
      BY <1>1, <1>3, <2>1 DEF TypeOK
    <2>3. /\ \A u \in Txs \ {t}, c \in Customers : custLock'[c] = u <=> custLock[c] = u
          /\ \A c \in Customers : custLock'[c] = t => c = k \/ custLock[c] = t
      BY <1>1, <1>3, <2>1 DEF TypeOK
    <2> QED BY <2>1, <2>2, <2>3
  <1> HIDE DEF k
  <1>7. TypeOK'
    <2>1. Visible(t) \in Int /\ seen[t] \in Int /\ missed[t] \in Int
      BY <1>1 DEF Visible, TypeOK, k
    <2>2. missed' = [missed EXCEPT ![t] = missed[t] + Visible(t) - seen[t]]
      BY DEF WriteBalance
    <2>3. missed' \in [Txs -> Int]
      <3>1. missed[t] + Visible(t) - seen[t] \in Int
        BY <2>1
      <3> QED BY <2>2, <3>1 DEF TypeOK
    <2> QED BY <1>3, <1>5, <1>6, <2>3 DEF TypeOK
  <1>8. BillOK' /\ BalanceNonNegative' /\ ReversedOnce'
    BY <1>3 DEF BillOK, BalanceNonNegative, ReversedOnce
  <1>9. StageOK'
    BY <1>1, <1>3, <1>5 DEF StageOK
  <1>10. DocumentOK'
    BY <1>1, <1>3, <1>5 DEF DocumentOK
  <1>11. ReadOK' /\ IdleOK'
    BY <1>1, <1>3, <1>5 DEF ReadOK, IdleOK, Amount
  <1>12. LockOK'
    BY <1>1, <1>3, <1>5, <1>6 DEF LockOK, k
  <1>13. ReversalOK'
    <2> SUFFICES ASSUME NEW u \in Txs, req'[u].kind = "cancel" PROVE ReversalOK!(u)!2'
      BY DEF ReversalOK
    <2>1. u # t
      BY <1>1, <1>3
    <2>2. pc[u] = "commit" => req[u].customer \in Customers
      BY DEF StageOK
    <2> QED BY <1>3, <1>5, <1>6, <2>1, <2>2 DEF ReversalOK
  <1> QED BY <1>7, <1>8, <1>9, <1>10, <1>11, <1>12, <1>13

LEMMA ClaimBillIInv ==
  ASSUME IInv, NEW t \in Txs, ClaimBill(t)
  PROVE  IInv'
  <1> USE DEF IInv
  <1>1. CASE Rollback(t)
    BY <1>1, RollbackIInv
  <1>2. CASE /\ Claimable(t)
             /\ billLock' = [billLock EXCEPT ![req[t].bill] = t]
             /\ pc' = [pc EXCEPT ![t] = IF bill[req[t].bill].charged = 0 THEN "commit" ELSE "reverse"]
             /\ UNCHANGED <<rowsOf, custLock, counterLock, req, payment, seen, next, entries, missed, collections>>
    <2> DEFINE b == req[t].bill
    <2>1. /\ pc[t] = "claim" /\ req[t].kind = "cancel" /\ b \in Bills /\ req[t].customer \in Customers
          /\ bill[b].status = "PAID" /\ billLock[b] \in {None, t}
      BY <1>2 DEF ClaimBill, StageOK, Claimable, Free
    <2>2. UNCHANGED <<balance, bill, reversed, ledger, lost, custLock, counterLock, req, payment, seen, next, entries, missed, collections>>
      BY <1>2 DEF rowsOf
    <2>3. /\ pc' \in [Txs -> Stages] /\ billLock' \in [Bills -> Txs \cup {None}]
          /\ pc'[t] = IF bill[b].charged = 0 THEN "commit" ELSE "reverse"
          /\ \A u \in Txs \ {t} : pc'[u] = pc[u]
          /\ billLock'[b] = t
          /\ \A d \in Bills, u \in Txs \ {t} : billLock[d] = u => billLock'[d] = u
      BY <1>2, <2>1, CreditAssumption DEF TypeOK, Stages
    <2> HIDE DEF b
    <2>4. TypeOK'
      BY <2>2, <2>3 DEF TypeOK
    <2>5. BillOK' /\ BalanceNonNegative' /\ ReversedOnce'
      BY <2>2 DEF BillOK, BalanceNonNegative, ReversedOnce
    <2>6. StageOK'
      BY <2>1, <2>2, <2>3 DEF StageOK, b
    <2>7. DocumentOK'
      <3> SUFFICES ASSUME NEW u \in Txs, pc'[u] # "idle" PROVE DocumentOK!(u)!2'
        BY DEF DocumentOK
      <3>1. CASE u = t
        BY <2>1, <2>2, <2>3, <3>1 DEF DocumentOK, b
      <3>2. CASE u # t
        <4>1. req[u].kind = "cancel" => req[u].bill \in Bills
          BY <2>3, <3>2 DEF StageOK
        <4> QED BY <2>2, <2>3, <3>2, <4>1 DEF DocumentOK
      <3> QED BY <3>1, <3>2
    <2>8. ReadOK' /\ LockOK' /\ IdleOK'
      BY <2>1, <2>2, <2>3 DEF ReadOK, LockOK, IdleOK, Amount
    <2>9. ReversalOK'
      BY <2>1, <2>2, <2>3 DEF ReversalOK, b
    <2> QED BY <2>4, <2>5, <2>6, <2>7, <2>8, <2>9
  <1> QED BY <1>1, <1>2 DEF ClaimBill

LEMMA ReverseCreditIInv ==
  ASSUME IInv, NEW t \in Txs, ReverseCredit(t)
  PROVE  IInv'
  <1> USE DEF IInv
  <1>1. CASE Rollback(t)
    BY <1>1, RollbackIInv
  <1>2. CASE /\ Reversible(t)
             /\ custLock' = [custLock EXCEPT ![req[t].customer] = t]
             /\ next' = [next EXCEPT ![t] = balance[req[t].customer] - bill[req[t].bill].charged]
             /\ entries' = [entries EXCEPT ![t] = bill[req[t].bill].charged]
             /\ pc' = [pc EXCEPT ![t] = "commit"]
             /\ UNCHANGED <<rowsOf, billLock, counterLock, req, payment, seen, missed, collections>>
    <2> DEFINE k == req[t].customer  amount == bill[req[t].bill].charged
    <2>1. /\ pc[t] = "reverse" /\ req[t].kind = "cancel" /\ req[t].bill \in Bills /\ k \in Customers
          /\ custLock[k] \in {None, t} /\ balance[k] >= amount
          /\ amount \in Nat /\ balance[k] \in Int
      BY <1>2 DEF ReverseCredit, StageOK, Reversible, Free, TypeOK, BillType
    <2>2. UNCHANGED <<balance, bill, reversed, ledger, lost, billLock, counterLock, req, payment, seen, missed, collections>>
      BY <1>2 DEF rowsOf
    <2>3. balance[k] - amount \in Int /\ balance[k] - amount >= 0
      BY <2>1
    <2>4. /\ pc' \in [Txs -> Stages] /\ custLock' \in [Customers -> Txs \cup {None}]
          /\ next' \in [Txs -> Int] /\ entries' \in [Txs -> Nat]
          /\ pc'[t] = "commit" /\ next'[t] = balance[k] - amount /\ entries'[t] = amount /\ custLock'[k] = t
          /\ \A u \in Txs \ {t} : /\ pc'[u] = pc[u] /\ next'[u] = next[u] /\ entries'[u] = entries[u]
                                  /\ \A c \in Customers : custLock'[c] = u <=> custLock[c] = u
          /\ \A c \in Customers : custLock'[c] = t => c = k
      BY <1>2, <2>1, <2>3, CreditAssumption DEF TypeOK, Stages, ReversalOK
    <2>5. TypeOK'
      BY <2>2, <2>4 DEF TypeOK
    <2>6. BillOK' /\ BalanceNonNegative' /\ ReversedOnce'
      BY <2>2 DEF BillOK, BalanceNonNegative, ReversedOnce
    <2>7. StageOK'
      BY <2>1, <2>2, <2>4 DEF StageOK
    <2>11. DocumentOK'
      BY <2>1, <2>2, <2>4 DEF DocumentOK
    <2>8. ReadOK' /\ IdleOK'
      BY <2>1, <2>2, <2>4 DEF ReadOK, IdleOK, Amount
    <2>9. LockOK'
      BY <2>1, <2>2, <2>3, <2>4 DEF LockOK
    <2>10. ReversalOK'
      <3> SUFFICES ASSUME NEW u \in Txs, req'[u].kind = "cancel" PROVE ReversalOK!(u)!2'
        BY DEF ReversalOK
      <3>1. CASE u = t
        <4>1. amount # 0
          BY <2>1 DEF ReversalOK
        <4> QED BY <2>1, <2>2, <2>4, <3>1, <4>1 DEF ReversalOK
      <3>2. CASE u # t
        <4>1. pc[u] = "commit" => req[u].customer \in Customers
          BY DEF StageOK
        <4> QED BY <2>2, <2>4, <3>2, <4>1 DEF ReversalOK
      <3> QED BY <3>1, <3>2
    <2> QED BY <2>5, <2>6, <2>7, <2>8, <2>9, <2>10, <2>11
  <1> QED BY <1>1, <1>2 DEF ReverseCredit

\* What a commit adds to the ledger and to what was lost.
CommitEffect(t) ==
  /\ ledger' = [ledger EXCEPT ![req[t].customer] = ledger[req[t].customer] + Signed(t, entries[t])]
  /\ lost' = [lost EXCEPT ![req[t].customer] = lost[req[t].customer] + missed[t]]

LEMMA CommitFacts ==
  ASSUME IInv, NEW t \in Txs, Commit(t)
  PROVE  CommitEffect(t)
  <1>1. req[t].customer \in Customers /\ entries[t] \in Int /\ ledger \in [Customers -> Int]
    BY DEF IInv, TypeOK, StageOK, Commit
  <1>2. \A n, m \in Int : m + (0 - n) = m - n
    OBVIOUS
  <1>3. \/ req[t].kind = "charge" /\ ledger' = [ledger EXCEPT ![req[t].customer] = ledger[req[t].customer] + entries[t]]
        \/ req[t].kind # "charge" /\ ledger' = [ledger EXCEPT ![req[t].customer] = ledger[req[t].customer] - entries[t]]
    BY DEF Commit, CommitCharge, CommitCollect, CommitCancel
  <1>4. ledger' = [ledger EXCEPT ![req[t].customer] = ledger[req[t].customer] + Signed(t, entries[t])]
    BY <1>1, <1>2, <1>3 DEF Signed
  <1> QED BY <1>4 DEF CommitEffect, Commit

LEMMA CommitIInv ==
  ASSUME IInv, NEW t \in Txs, Commit(t)
  PROVE  IInv'
  <1> USE DEF IInv
  <1> DEFINE k == req[t].customer  b == req[t].bill
  <1>1. /\ pc[t] = "commit" /\ End(t) /\ k \in Customers
        /\ req[t].kind \in {"charge", "collect", "cancel"} /\ (req[t].kind # "collect" => b \in Bills)
        /\ entries[t] \in Nat
    BY DEF Commit, StageOK, TypeOK
  <1>2. \A c \in Customers : balance'[c] = IF custLock[c] = t THEN next[t] ELSE balance[c]
    BY DEF Commit
  <1>3. balance' \in [Customers -> Int] /\ BalanceNonNegative'
    BY <1>2 DEF Commit, TypeOK, LockOK, BalanceNonNegative
  <1>4. \A u \in Txs : pc'[u] # "idle" => /\ u # t /\ pc'[u] = pc[u] /\ req'[u] = req[u] /\ pc[u] # "idle"
                                          /\ payment'[u] = payment[u] /\ entries'[u] = entries[u]
    BY <1>1, EndFacts
  \* the bill written, if any, and its rows
  <1>5. /\ bill' \in [Bills -> BillType] /\ reversed' \in [Bills -> Nat]
        /\ \A d \in Bills : d # b => bill'[d] = bill[d] /\ reversed'[d] = reversed[d]
        /\ BillOK' /\ ReversedOnce'
        /\ \A d \in Bills : bill[d].status # "none" =>
             /\ bill'[d].status # "none" /\ bill'[d].customer = bill[d].customer /\ bill'[d].charged = bill[d].charged
    <2>1. CASE req[t].kind = "charge"
      <3> DEFINE new == [status |-> "PAID", customer |-> k, charged |-> entries[t]]
      <3>1. bill' = [bill EXCEPT ![b] = new] /\ reversed' = reversed /\ b \in Bills
        BY <1>1, <2>1 DEF Commit, CommitCharge
      <3>2. new \in BillType /\ new.status = "PAID" /\ new.customer \in Customers
        BY <1>1 DEF BillType
      <3>3. bill[b].status = "none" /\ reversed[b] = 0
        BY <1>1, <2>1 DEF DocumentOK, ReversedOnce
      <3> HIDE DEF new
      <3>4. /\ bill' \in [Bills -> BillType] /\ bill'[b] = new
            /\ \A d \in Bills : d # b => bill'[d] = bill[d] /\ reversed'[d] = reversed[d]
        BY <3>1, <3>2 DEF TypeOK
      <3>5. BillOK'
        BY <3>2, <3>4 DEF BillOK
      <3>6. ReversedOnce'
        BY <3>1, <3>2, <3>3, <3>4 DEF ReversedOnce
      <3>7. \A d \in Bills : bill[d].status # "none" => bill'[d] = bill[d]
        BY <3>3, <3>4
      <3> QED BY <3>1, <3>4, <3>5, <3>6, <3>7 DEF TypeOK
    <2>2. CASE req[t].kind = "collect"
      <3>1. bill' = bill /\ reversed' = reversed
        BY <2>2 DEF Commit, CommitCollect
      <3> QED BY <3>1 DEF TypeOK, BillOK, ReversedOnce
    <2>3. CASE req[t].kind = "cancel"
      <3> DEFINE new == [bill[b] EXCEPT !.status = "CANCELLED"]
      <3>1. /\ bill' = [bill EXCEPT ![b] = new] /\ b \in Bills
            /\ reversed' = [reversed EXCEPT ![b] = reversed[b] + entries[t]]
        BY <1>1, <2>3 DEF Commit, CommitCancel
      <3>2. bill[b] \in BillType /\ bill[b].status = "PAID" /\ reversed[b] = 0 /\ entries[t] = bill[b].charged
        BY <1>1, <2>3 DEF DocumentOK, ReversedOnce, ReversalOK, TypeOK
      <3>3. /\ new \in BillType /\ new.status = "CANCELLED"
            /\ new.customer = bill[b].customer /\ new.charged = bill[b].charged
        BY <3>2 DEF BillType
      <3> HIDE DEF new
      <3>4. /\ bill' \in [Bills -> BillType] /\ bill'[b] = new
            /\ \A d \in Bills : d # b => bill'[d] = bill[d] /\ reversed'[d] = reversed[d]
            /\ reversed' \in [Bills -> Nat] /\ reversed'[b] = bill[b].charged
        <4>1. reversed[b] + entries[t] = bill[b].charged /\ bill[b].charged \in Nat
          BY <1>1, <3>2
        <4> QED BY <3>1, <3>3, <4>1 DEF TypeOK
      <3>5. BillOK'
        BY <3>2, <3>3, <3>4 DEF BillOK
      <3>6. ReversedOnce'
        BY <3>3, <3>4 DEF ReversedOnce
      <3>7. \A d \in Bills : bill[d].status # "none" =>
              /\ bill'[d].status # "none" /\ bill'[d].customer = bill[d].customer /\ bill'[d].charged = bill[d].charged
        BY <3>3, <3>4
      <3> QED BY <3>1, <3>4, <3>5, <3>6, <3>7 DEF TypeOK
    <2> QED BY <1>1, <2>1, <2>2, <2>3
  <1>11. ledger' \in [Customers -> Int] /\ lost' \in [Customers -> Int]
    <2>1. CommitEffect(t)
      BY CommitFacts
    <2> QED BY <1>1, <2>1 DEF CommitEffect, TypeOK, Signed
  <1>6. TypeOK'
    BY <1>1, <1>3, <1>5, <1>11, EndFacts DEF TypeOK
  <1>7. StageOK'
    BY <1>4 DEF StageOK
  <1>8. IdleOK' /\ ReadOK' /\ LockOK'
    <2>1. IdleOK'
      BY <1>1, EndFacts DEF IdleOK
    <2>2. LockOK'
      BY <1>1, EndFacts DEF LockOK
    <2>3. \A u \in Txs : pc'[u] = "write" => u # t /\ pc[u] = "write" /\ seen'[u] = seen[u] /\ Amount(u)' = Amount(u) /\ req'[u] = req[u]
      BY <1>1, EndFacts DEF Amount
    <2>4. ReadOK'
      BY <2>3 DEF ReadOK
    <2> QED BY <2>1, <2>2, <2>4
  <1>9. DocumentOK'
    <2> SUFFICES ASSUME NEW u \in Txs, pc'[u] # "idle" PROVE DocumentOK!(u)!2'
      BY DEF DocumentOK
    <2>1. u # t /\ pc'[u] = pc[u] /\ req'[u] = req[u] /\ pc[u] # "idle"
      BY <1>4
    <2>2. ASSUME req[u].kind = "charge"
          PROVE  bill'[req[u].bill].status = "none" /\ \A v \in Txs \ {u} : req'[v].bill # req[u].bill
      <3>1. req[u].bill \in Bills /\ NoReq.bill = None /\ None \notin Bills
        BY <2>1, <2>2, CreditAssumption DEF StageOK, NoReq
      <3>2. \A v \in Txs : req'[v] = req[v] \/ req'[v] = NoReq
        BY <1>1, EndFacts
      <3>3. b # req[u].bill /\ bill[req[u].bill].status = "none"
        BY <2>1, <2>2 DEF DocumentOK
      <3>4. \A v \in Txs \ {u} : req[v].bill # req[u].bill
        BY <2>1, <2>2 DEF DocumentOK
      <3> QED BY <1>5, <3>1, <3>2, <3>3, <3>4
    <2>3. ASSUME req[u].kind = "cancel"
          PROVE  /\ bill'[req[u].bill].status # "none" /\ req[u].customer = bill'[req[u].bill].customer
                 /\ pc[u] \in {"reverse", "commit"} => bill'[req[u].bill].status = "PAID" /\ billLock'[req[u].bill] = u
      <3>1. req[u].bill \in Bills /\ bill[req[u].bill].status # "none" /\ req[u].customer = bill[req[u].bill].customer
        BY <2>1, <2>3 DEF StageOK, DocumentOK
      <3>2. ASSUME pc[u] \in {"reverse", "commit"}
            PROVE  bill'[req[u].bill].status = "PAID" /\ billLock'[req[u].bill] = u
        <4>1. bill[req[u].bill].status = "PAID" /\ billLock[req[u].bill] = u
          BY <2>1, <2>3, <3>2 DEF DocumentOK
        <4>2. billLock'[req[u].bill] = u
          BY <1>1, <2>1, <3>1, <4>1, EndFacts
        <4>3. CASE req[u].bill # b
          BY <1>5, <3>1, <4>1, <4>2, <4>3
        <4>4. CASE req[u].bill = b /\ req[t].kind = "collect"
          BY <4>1, <4>2, <4>4 DEF Commit, CommitCollect
        <4>5. ASSUME req[u].bill = b, req[t].kind # "collect" PROVE FALSE
          BY <1>1, <2>1, <4>1, <4>5 DEF DocumentOK
        <4> QED BY <4>2, <4>3, <4>4, <4>5
      <3> QED BY <1>5, <3>1, <3>2
    <2> QED BY <2>1, <2>2, <2>3
  <1>10. ReversalOK'
    <2> SUFFICES ASSUME NEW u \in Txs, req'[u].kind = "cancel" PROVE ReversalOK!(u)!2'
      BY DEF ReversalOK
    <2>1. /\ u # t /\ pc'[u] = pc[u] /\ req'[u] = req[u] /\ entries'[u] = entries[u] /\ next'[u] = next[u]
          /\ \A c \in Customers : custLock'[c] = u <=> custLock[c] = u
      BY <1>1, EndFacts DEF NoReq
    <2>2. pc[u] \in {"reverse", "commit"} =>
            /\ req[u].customer \in Customers /\ req[u].bill \in Bills /\ bill[req[u].bill].status = "PAID"
      BY <2>1 DEF StageOK, DocumentOK
    <2>3. pc[u] \in {"reverse", "commit"} => bill'[req[u].bill].charged = bill[req[u].bill].charged
      BY <1>5, <2>2
    <2>4. \A c \in Customers : custLock[c] = u => balance'[c] = balance[c]
      BY <1>2, <2>1
    <2> QED BY <2>1, <2>2, <2>3, <2>4 DEF ReversalOK
  <1> QED BY <1>3, <1>5, <1>6, <1>7, <1>8, <1>9, <1>10

-----------------------------------------------------------------------------
LEMMA NextIInv ==
  ASSUME IInv, [Next]_vars
  PROVE  IInv'
  <1>1. ASSUME NEW t \in Txs, Step(t) PROVE IInv'
    BY <1>1, NextBillNumberIInv, ReadBalanceIInv, WriteBalanceIInv, ClaimBillIInv, ReverseCreditIInv, CommitIInv DEF Step
  <1>2. ASSUME NEW t \in Txs, Fail(t) PROVE IInv'
    BY <1>2, RollbackIInv DEF Fail
  <1>3. CASE UNCHANGED vars
    BY <1>3 DEF IInv, TypeOK, BillOK, StageOK, DocumentOK, ReadOK, LockOK, ReversalOK, IdleOK,
                BalanceNonNegative, ReversedOnce, Amount, vars
  <1> QED BY <1>1, <1>2, <1>3, RequestIInv DEF Next

\* The inductive invariant holds in every reachable state.
THEOREM Invariance == Spec => []IInv
  BY InitIInv, NextIInv, PTL DEF Spec

\* The ledger and its transactions keep their types.
THEOREM TypeCorrect == Spec => []TypeOK
  <1>1. IInv => TypeOK
    BY DEF IInv
  <1> QED BY <1>1, Invariance, PTL

\* A step that leaves u and the customer row it holds alone keeps WriteOK of u.
LEMMA OthersWriteOK ==
  ASSUME IInv, WriteOK, NEW u \in Txs,
         pc[u] # "idle" /\ custLock[req[u].customer] = u => balance'[req[u].customer] = balance[req[u].customer],
         req'[u] = req[u], pc'[u] = pc[u], payment'[u] = payment[u],
         entries'[u] = entries[u], next'[u] = next[u], missed'[u] = missed[u],
         \A c \in Customers : custLock'[c] = u <=> custLock[c] = u
  PROVE  WriteOK!(u)'
  <1>1. Amount(u)' = Amount(u)
    BY DEF Amount
  <1>2. Applied(u)' = Applied(u)
    BY <1>1 DEF Applied
  <1>3. \A n \in Int : Signed(u, n)' = Signed(u, n)
    BY DEF Signed
  <1>4. pc[u] # "idle" => req[u].customer \in Customers
    BY DEF IInv, StageOK
  <1> QED BY <1>1, <1>2, <1>4 DEF WriteOK, Signed

\* The rows are not touched before the commit.
LEMMA RequestDrift ==
  ASSUME IInv, DriftInv, NEW t \in Txs, Request(t)
  PROVE  DriftInv'
  <1>1. PICK r, first : /\ Begin(t, r, first) /\ first \in {"counter", "read", "claim"}
                        /\ first # "idle"
    BY DEF Request, BeginCharge, BeginCollect, BeginCancel
  <1>2. /\ pc[t] = "idle" /\ entries[t] = 0 /\ missed[t] = 0 /\ \A c \in Customers : custLock[c] # t
    BY <1>1 DEF Begin, IInv, IdleOK, LockOK, DriftInv, WriteOK
  <1>3. /\ pc' = [pc EXCEPT ![t] = first] /\ req' = [req EXCEPT ![t] = r]
        /\ UNCHANGED <<balance, bill, reversed, ledger, lost, custLock, payment, next, entries, missed>>
    BY <1>1 DEF Begin, rowsOf
  <1>4. DriftIsOverwritten'
    BY <1>3 DEF DriftInv, DriftIsOverwritten
  <1>5. IInv'
    BY RequestIInv
  <1>6. WriteOK'
    <2> SUFFICES ASSUME NEW u \in Txs PROVE WriteOK!(u)'
      BY DEF WriteOK
    <2>1. CASE u = t
      <3>1. pc'[t] = first /\ entries'[t] = 0 /\ missed'[t] = 0
        BY <1>2, <1>3 DEF IInv, TypeOK
      <3>2. req'[t].customer \in Customers
        BY <1>1, <1>5, <3>1 DEF IInv, StageOK
      <3>3. custLock'[req'[t].customer] # t
        BY <1>2, <1>3, <3>2
      <3>4. Applied(t)' = 0
        BY <1>1, <3>1 DEF Applied
      <3> QED BY <1>1, <2>1, <3>1, <3>3, <3>4
    <2>2. CASE u # t
      BY <1>3, <2>2, OthersWriteOK DEF IInv, TypeOK, DriftInv
    <2> QED BY <2>1, <2>2
  <1> QED BY <1>4, <1>6 DEF DriftInv

\* A rollback forgets what was missed, and writes nothing.
LEMMA RollbackDrift ==
  ASSUME IInv, DriftInv, NEW t \in Txs, Rollback(t)
  PROVE  DriftInv'
  <1>1. End(t) /\ UNCHANGED <<balance, ledger, lost>> /\ TypeOK
    BY DEF Rollback, rowsOf, IInv
  <1>2. ASSUME NEW u \in Txs PROVE WriteOK!(u)'
    <2>1. CASE u = t
      BY <1>1, <2>1, EndFacts
    <2>2. CASE u # t
      <3>1. /\ pc'[u] = pc[u] /\ req'[u] = req[u] /\ payment'[u] = payment[u] /\ entries'[u] = entries[u]
            /\ next'[u] = next[u] /\ missed'[u] = missed[u] /\ \A c \in Customers : custLock'[c] = u <=> custLock[c] = u
        BY <1>1, <2>2, EndFacts
      <3> QED BY <1>1, <3>1, OthersWriteOK DEF DriftInv
    <2> QED BY <2>1, <2>2
  <1> QED BY <1>1, <1>2 DEF DriftInv, WriteOK, DriftIsOverwritten

\* Before the commit nothing changes the rows: it is enough that the step
\* keeps WriteOK of its own transaction.
LEMMA OwnStepDrift ==
  ASSUME IInv, DriftInv, NEW t \in Txs, UNCHANGED <<balance, ledger, lost>>, WriteOK!(t)',
         \A u \in Txs \ {t} : /\ req'[u] = req[u] /\ pc'[u] = pc[u] /\ payment'[u] = payment[u]
                              /\ entries'[u] = entries[u] /\ next'[u] = next[u] /\ missed'[u] = missed[u]
                              /\ \A c \in Customers : custLock'[c] = u <=> custLock[c] = u
  PROVE  DriftInv'
  <1>1. ASSUME NEW u \in Txs PROVE WriteOK!(u)'
    <2>1. CASE u = t
      BY <2>1
    <2>2. CASE u # t
      BY <2>2, OthersWriteOK DEF DriftInv
    <2> QED BY <2>1, <2>2
  <1> QED BY <1>1 DEF DriftInv, WriteOK, DriftIsOverwritten

LEMMA NextBillNumberDrift ==
  ASSUME IInv, DriftInv, NEW t \in Txs, NextBillNumber(t)
  PROVE  DriftInv'
  <1>1. /\ pc[t] = "counter" /\ pc'[t] \in {"read", "commit"} /\ \A u \in Txs \ {t} : pc'[u] = pc[u]
        /\ UNCHANGED <<balance, ledger, lost, custLock, req, payment, next, entries, missed>>
    BY DEF NextBillNumber, rowsOf, IInv, TypeOK
  <1>2. Applied(t) = entries[t] /\ Applied(t)' = entries[t]
    BY <1>1 DEF Applied
  <1>3. WriteOK!(t)'
    BY <1>1, <1>2 DEF DriftInv, WriteOK, Signed
  <1> QED BY <1>1, <1>3, OwnStepDrift

LEMMA ReadBalanceDrift ==
  ASSUME IInv, DriftInv, NEW t \in Txs, ReadBalance(t)
  PROVE  DriftInv'
  <1>1. CASE Rollback(t)
    BY <1>1, RollbackDrift
  <1>2. CASE /\ entries' = [entries EXCEPT ![t] = @ + Amount(t)]
             /\ pc' = [pc EXCEPT ![t] = "write"]
             /\ UNCHANGED <<rowsOf, custLock, req, payment, next, missed>>
    <2>1. pc[t] = "read" /\ Amount(t) \in Nat /\ entries[t] \in Nat
      BY AmountFact DEF ReadBalance, IInv, TypeOK
    <2>2. /\ pc'[t] = "write" /\ entries'[t] = entries[t] + Amount(t)
          /\ \A u \in Txs \ {t} : pc'[u] = pc[u] /\ entries'[u] = entries[u]
          /\ UNCHANGED <<balance, ledger, lost, custLock, req, payment, next, missed>>
      BY <1>2 DEF rowsOf, IInv, TypeOK
    <2>3. Amount(t)' = Amount(t)
      BY <2>2 DEF Amount
    <2>4. Applied(t) = entries[t] /\ Applied(t)' = entries[t]
      BY <2>1, <2>2, <2>3 DEF Applied
    <2>5. WriteOK!(t)'
      BY <2>1, <2>2, <2>4 DEF DriftInv, WriteOK, Signed
    <2> QED BY <2>2, <2>5, OwnStepDrift
  <1> QED BY <1>1, <1>2 DEF ReadBalance

\* The write misses exactly the difference between what it read and the row
\* as it stands when the lock is granted.
LEMMA WriteBalanceDrift ==
  ASSUME IInv, DriftInv, NEW t \in Txs, WriteBalance(t)
  PROVE  DriftInv'
  <1> DEFINE k == req[t].customer
  <1>1. /\ pc[t] = "write" /\ k \in Customers /\ Amount(t) \in Nat /\ custLock[k] \in {None, t}
        /\ req[t].kind \in {"charge", "collect"} /\ None \notin Txs
    BY AmountFact, CreditAssumption DEF WriteBalance, IInv, StageOK, Free
  <1>2. /\ custLock' = [custLock EXCEPT ![k] = t]
        /\ next' = [next EXCEPT ![t] = NewBalance(t)]
        /\ missed' = [missed EXCEPT ![t] = missed[t] + Visible(t) - seen[t]]
        /\ UNCHANGED <<balance, ledger, lost, req, seen, entries>>
        /\ pc'[t] \in {"read", "commit"}
        /\ \A u \in Txs \ {t} : pc'[u] = pc[u] /\ payment'[u] = payment[u]
    BY DEF WriteBalance, rowsOf, IInv, TypeOK
  <1>3. /\ custLock'[k] = t /\ next'[t] = NewBalance(t) /\ missed'[t] = missed[t] + Visible(t) - seen[t]
        /\ \A u \in Txs \ {t} : next'[u] = next[u] /\ missed'[u] = missed[u]
                                /\ \A c \in Customers : custLock'[c] = u <=> custLock[c] = u
    BY <1>1, <1>2 DEF IInv, TypeOK
  <1>4. /\ balance[k] \in Int /\ seen[t] \in Int /\ next[t] \in Int /\ missed[t] \in Int /\ entries[t] \in Int
    BY <1>1 DEF IInv, TypeOK
  <1>5. Applied(t) = entries[t] - Amount(t) /\ Applied(t)' = entries[t]
    BY <1>1, <1>2 DEF Applied
  <1>6. NewBalance(t) = balance[k] + Signed(t, entries[t]) - (missed[t] + Visible(t) - seen[t])
    <2>1. CASE custLock[k] = t
      <3>1. next[t] = balance[k] + Signed(t, entries[t] - Amount(t)) - missed[t] /\ Visible(t) = next[t]
        BY <1>1, <1>5, <2>1 DEF DriftInv, WriteOK, Visible
      <3> QED BY <1>1, <1>4, <3>1 DEF NewBalance, Signed
    <2>2. CASE custLock[k] # t
      <3>1. entries[t] - Amount(t) = 0 /\ missed[t] = 0 /\ Visible(t) = balance[k]
        BY <1>1, <1>5, <2>2 DEF DriftInv, WriteOK, Visible
      <3>2. entries[t] = Amount(t)
        BY <1>1, <1>4, <3>1
      <3> QED BY <1>1, <1>4, <3>1, <3>2 DEF NewBalance, Signed
    <2> QED BY <2>1, <2>2
  <1>7. WriteOK!(t)'
    <2>1. Signed(t, entries[t])' = Signed(t, entries[t])
      BY <1>2 DEF Signed
    <2> QED BY <1>2, <1>3, <1>5, <1>6, <2>1
  <1> QED BY <1>2, <1>3, <1>7, OwnStepDrift

LEMMA ClaimBillDrift ==
  ASSUME IInv, DriftInv, NEW t \in Txs, ClaimBill(t)
  PROVE  DriftInv'
  <1>1. CASE Rollback(t)
    BY <1>1, RollbackDrift
  <1>2. CASE /\ pc' = [pc EXCEPT ![t] = IF bill[req[t].bill].charged = 0 THEN "commit" ELSE "reverse"]
             /\ UNCHANGED <<rowsOf, custLock, req, payment, next, entries, missed>>
    <2>1. /\ pc[t] = "claim" /\ pc'[t] \in {"commit", "reverse"} /\ \A u \in Txs \ {t} : pc'[u] = pc[u]
          /\ UNCHANGED <<balance, ledger, lost, custLock, req, payment, next, entries, missed>>
      BY <1>2 DEF ClaimBill, rowsOf, IInv, TypeOK
    <2>2. Applied(t) = entries[t] /\ Applied(t)' = entries[t]
      BY <2>1 DEF Applied
    <2>3. WriteOK!(t)'
      BY <2>1, <2>2 DEF DriftInv, WriteOK, Signed
    <2> QED BY <2>1, <2>3, OwnStepDrift
  <1> QED BY <1>1, <1>2 DEF ClaimBill

\* A cancellation's decrement misses nothing.
LEMMA ReverseCreditDrift ==
  ASSUME IInv, DriftInv, NEW t \in Txs, ReverseCredit(t)
  PROVE  DriftInv'
  <1> DEFINE k == req[t].customer  amount == bill[req[t].bill].charged
  <1>1. CASE Rollback(t)
    BY <1>1, RollbackDrift
  <1>2. CASE /\ custLock' = [custLock EXCEPT ![k] = t]
             /\ next' = [next EXCEPT ![t] = balance[k] - amount]
             /\ entries' = [entries EXCEPT ![t] = amount]
             /\ pc' = [pc EXCEPT ![t] = "commit"]
             /\ UNCHANGED <<rowsOf, req, payment, missed>>
    <2>1. /\ pc[t] = "reverse" /\ req[t].kind = "cancel" /\ req[t].bill \in Bills /\ k \in Customers
          /\ custLock[k] \in {None, t} /\ None \notin Txs
      BY CreditAssumption DEF ReverseCredit, IInv, StageOK, Free
    <2>2. amount \in Int /\ balance[k] \in Int
      BY <2>1 DEF IInv, TypeOK, BillType
    <2>3. /\ custLock'[k] = t /\ next'[t] = balance[k] - amount /\ entries'[t] = amount /\ pc'[t] = "commit"
          /\ UNCHANGED <<balance, ledger, lost, req, payment, missed>>
      BY <1>2, <2>1 DEF rowsOf, IInv, TypeOK
    <2>4. \A u \in Txs \ {t} : /\ pc'[u] = pc[u] /\ next'[u] = next[u] /\ entries'[u] = entries[u]
                               /\ \A c \in Customers : custLock'[c] = u <=> custLock[c] = u
      BY <1>2, <2>1 DEF IInv, TypeOK
    <2>5. missed[t] = 0
      BY <2>1 DEF DriftInv, WriteOK, IInv, ReversalOK
    <2>6. Applied(t)' = entries'[t] /\ entries'[t] = amount
      BY <2>3 DEF Applied
    <2>7. WriteOK!(t)'
      <3>1. balance[k] - amount = balance[k] + (0 - amount) - 0
        BY <2>2
      <3>2. Signed(t, Applied(t))' = 0 - amount
        BY <2>1, <2>3, <2>6 DEF Signed
      <3> QED BY <2>3, <2>5, <3>1, <3>2
    <2> QED BY <2>3, <2>4, <2>7, OwnStepDrift
  <1> QED BY <1>1, <1>2 DEF ReverseCredit

\* A commit writes the held balance, its ledger rows and what it lost
\* together; a customer whose row it does not hold gets none of the three.
LEMMA CommitDrift ==
  ASSUME IInv, DriftInv, NEW t \in Txs, Commit(t)
  PROVE  DriftInv'
  <1> DEFINE k == req[t].customer
  <1>1. pc[t] = "commit" /\ End(t) /\ TypeOK /\ k \in Customers
    BY DEF Commit, IInv, StageOK
  <1>2. \A c \in Customers : balance'[c] = IF custLock[c] = t THEN next[t] ELSE balance[c]
    BY DEF Commit
  <1>3. /\ ledger' = [ledger EXCEPT ![k] = ledger[k] + Signed(t, entries[t])]
        /\ lost' = [lost EXCEPT ![k] = lost[k] + missed[t]]
    BY CommitFacts DEF CommitEffect
  <1>4. Applied(t) = entries[t] /\ entries[t] \in Int /\ missed[t] \in Int /\ Signed(t, entries[t]) \in Int
    BY <1>1 DEF Applied, TypeOK, Signed
  <1>5. ASSUME NEW c \in Customers PROVE balance'[c] = ledger'[c] - lost'[c]
    <2>1. balance[c] \in Int /\ ledger[c] \in Int /\ lost[c] \in Int /\ balance[c] = ledger[c] - lost[c]
      BY DEF IInv, TypeOK, DriftInv, DriftIsOverwritten
    <2>2. CASE c # k
      <3>1. custLock[c] # t
        BY <2>2 DEF IInv, LockOK
      <3>2. ledger'[c] = ledger[c] /\ lost'[c] = lost[c]
        BY <1>3, <2>2 DEF IInv, TypeOK
      <3> QED BY <1>2, <2>1, <3>1, <3>2
    <2>3. CASE c = k
      <3>1. ledger'[c] = ledger[c] + Signed(t, entries[t]) /\ lost'[c] = lost[c] + missed[t]
        BY <1>1, <1>3, <2>3 DEF TypeOK
      <3>2. CASE custLock[k] = t
        <4>1. next[t] = balance[k] + Signed(t, entries[t]) - missed[t]
          BY <1>1, <1>4, <3>2 DEF DriftInv, WriteOK
        <4>2. balance'[c] = next[t]
          BY <1>2, <2>3, <3>2
        <4> QED BY <1>4, <2>1, <2>3, <3>1, <4>1, <4>2
      <3>3. CASE custLock[k] # t
        <4>1. entries[t] = 0 /\ missed[t] = 0
          BY <1>1, <1>4, <3>3 DEF DriftInv, WriteOK
        <4>2. Signed(t, entries[t]) = 0
          BY <4>1 DEF Signed
        <4>3. balance'[c] = balance[c]
          BY <1>2, <2>3, <3>3
        <4> QED BY <2>1, <3>1, <4>1, <4>2, <4>3
      <3> QED BY <3>2, <3>3
    <2> QED BY <2>2, <2>3
  <1>6. ASSUME NEW u \in Txs PROVE WriteOK!(u)'
    <2>1. CASE u = t
      BY <1>1, <2>1, EndFacts
    <2>2. CASE u # t
      <3>1. /\ pc'[u] = pc[u] /\ req'[u] = req[u] /\ payment'[u] = payment[u] /\ entries'[u] = entries[u]
            /\ next'[u] = next[u] /\ missed'[u] = missed[u] /\ \A c \in Customers : custLock'[c] = u <=> custLock[c] = u
        BY <1>1, <2>2, EndFacts
      <3>2. pc[u] # "idle" => req[u].customer \in Customers
        BY DEF IInv, StageOK
      <3>3. pc[u] # "idle" /\ custLock[req[u].customer] = u => balance'[req[u].customer] = balance[req[u].customer]
        BY <1>2, <2>2, <3>2
      <3> QED BY <3>1, <3>3, OthersWriteOK DEF DriftInv
    <2> QED BY <2>1, <2>2
  <1> QED BY <1>5, <1>6 DEF DriftInv, WriteOK, DriftIsOverwritten

LEMMA NextDrift ==
  ASSUME IInv, DriftInv, [Next]_vars
  PROVE  DriftInv'
  <1>1. ASSUME NEW t \in Txs, Step(t) PROVE DriftInv'
    BY <1>1, NextBillNumberDrift, ReadBalanceDrift, WriteBalanceDrift, ClaimBillDrift, ReverseCreditDrift, CommitDrift DEF Step
  <1>2. ASSUME NEW t \in Txs, Fail(t) PROVE DriftInv'
    BY <1>2, RollbackDrift DEF Fail
  <1>3. CASE UNCHANGED vars
    BY <1>3 DEF DriftInv, WriteOK, DriftIsOverwritten, Signed, Applied, Amount, vars
  <1> QED BY <1>1, <1>2, <1>3, RequestDrift DEF Next

\* What a customer's balance and the ledger differ by is exactly what charges
\* and collections wrote over: the damage of the overlapping absolute writes
\* is no more than what was committed between their reads and their locks.
THEOREM OnlyOverlapsLose == Spec => []DriftIsOverwritten
  <1>1. Init => DriftInv
    BY DEF Init, DriftInv, WriteOK, DriftIsOverwritten
  <1>2. DriftInv => DriftIsOverwritten
    BY DEF DriftInv
  <1> QED BY <1>1, <1>2, NextDrift, Invariance, PTL DEF Spec

\* A bill's charge is reversed exactly when the bill is cancelled, in full
\* and once.
THEOREM ExactlyOneReversal == Spec => []ReversedOnce
  <1>1. IInv => ReversedOnce
    BY DEF IInv
  <1> QED BY <1>1, Invariance, PTL

\* A cancellation lowers the balance of the moment by its charge.
THEOREM CancelIsRelative == Spec => CancelDecrementsCurrent
  <1> DEFINE Relative == \A b \in Bills : bill[b].status = "PAID" /\ bill'[b].status = "CANCELLED" =>
                           balance'[bill[b].customer] = balance[bill[b].customer] - bill[b].charged
  <1>1. ASSUME IInv, [Next]_vars PROVE Relative
    <2> SUFFICES ASSUME NEW b \in Bills, bill[b].status = "PAID", bill'[b].status = "CANCELLED"
                 PROVE  balance'[bill[b].customer] = balance[bill[b].customer] - bill[b].charged
      OBVIOUS
    <2>1. bill' # bill
      OBVIOUS
    <2>2. PICK t \in Txs : Commit(t)
      <3>1. ASSUME NEW t \in Txs, Rollback(t) PROVE bill' = bill
        BY <3>1 DEF Rollback, rowsOf
      <3>2. ASSUME NEW t \in Txs, Request(t) PROVE bill' = bill
        BY <3>2 DEF Request, BeginCharge, BeginCollect, BeginCancel, Begin, rowsOf
      <3>3. ASSUME NEW t \in Txs, NextBillNumber(t) \/ ReadBalance(t) \/ WriteBalance(t) \/ ClaimBill(t) \/ ReverseCredit(t)
            PROVE  bill' = bill
        BY <3>1, <3>3 DEF NextBillNumber, ReadBalance, WriteBalance, ClaimBill, ReverseCredit, rowsOf
      <3>4. UNCHANGED vars => bill' = bill
        BY DEF vars
      <3> QED BY <1>1, <2>1, <3>1, <3>2, <3>3, <3>4 DEF Next, Step, Fail
    <2>3. req[t].kind = "cancel" /\ req[t].bill = b
      <3>1. pc[t] = "commit" /\ (req[t].kind = "charge" => req[t].bill \in Bills)
        BY <1>1, <2>2 DEF IInv, StageOK, Commit
      <3>2. req[t].kind # "collect"
        BY <2>1, <2>2 DEF Commit, CommitCollect
      <3>3. req[t].kind # "charge"
        BY <1>1, <2>2, <3>1 DEF Commit, CommitCharge, IInv, TypeOK, DocumentOK
      <3>4. req[t].kind = "cancel" /\ CommitCancel(t)
        BY <2>2, <3>2, <3>3 DEF Commit
      <3>5. req[t].bill = b
        BY <1>1, <3>4 DEF CommitCancel, IInv, TypeOK
      <3> QED BY <3>4, <3>5
    <2>4. /\ pc[t] = "commit" /\ req[t].customer = bill[b].customer /\ bill[b].customer \in Customers
          /\ bill[b].charged \in Nat /\ balance[bill[b].customer] \in Int
      BY <1>1, <2>2, <2>3 DEF Commit, IInv, StageOK, DocumentOK, TypeOK, BillType
    <2>5. balance'[bill[b].customer] = IF custLock[bill[b].customer] = t THEN next[t] ELSE balance[bill[b].customer]
      BY <2>2, <2>4 DEF Commit
    <2> QED BY <1>1, <2>3, <2>4, <2>5 DEF IInv, ReversalOK
  <1> QED BY <1>1, Invariance, PTL DEF Spec, CancelDecrementsCurrent
===============================================================================

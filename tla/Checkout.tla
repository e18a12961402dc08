------------------------------- MODULE Checkout -------------------------------
(***************************************************************************)
(* checkoutBill() of services/billingService.ts as a client sees it: the   *)
(* idempotency key, the cashier session, the price and the bill number, at *)
(* one branch, against retries of the same request, price changes, session *)
(* start and close (routes/sessions.ts) and cancellations.                 *)
(*                                                                         *)
(* Every sale is of one unit of one product; the stock transaction in full *)
(* is StockLedger, the credit ledger CreditLedger.  A request makes its    *)
(* reads outside any transaction, one step each; inside the transaction    *)
(* (from "recheck") one step per statement that waits for or tests a row.  *)
(* A request that creates a bill gives the bill its identity.              *)
(***************************************************************************)
EXTENDS Integers, FiniteSets

CONSTANTS
  Cashiers, Sessions,    \* cashiers, and sessions that may come to exist
  Keys,                  \* idempotency keys
  Reqs,                  \* checkout requests, retries included
  Closers,               \* requests to close a session
  Prices, InitialPrice,
  InitialStock,
  Workload,              \* what else happens: "cancel", "common", "override", "session"
  None

ASSUME CheckoutAssumption ==
  /\ Prices \subseteq Nat /\ InitialPrice \in Prices
  /\ InitialStock \in Nat
  /\ Workload \subseteq {"cancel", "common", "override", "session"}
  /\ None \notin Cashiers \cup Sessions \cup Keys \cup Reqs \cup Prices
  /\ {"refused", "failed", "held"} \cap Reqs = {}   \* an answer without a bill names none

VARIABLES
  session,             \* cashier_sessions
  common, override,    \* Product.sellingPrice, BranchProduct.priceOverride
  stock, counter,      \* the stock row, bill_counters.seq
  bill,                \* bills
  stockLock, counterLock,
  pc, req, ses, product, price, number, reply,
  closer               \* the session each close request found OPEN

db    == <<session, common, override, stock, counter, bill>>
locks == <<stockLock, counterLock>>
local == <<req, ses, product, price, number>>
vars  == <<session, common, override, stock, counter, bill, stockLock, counterLock,
           pc, req, ses, product, price, number, reply, closer>>

NoBill == [status |-> "none", key |-> None, session |-> None, price |-> None, number |-> 0]
NoReq == [cashier |-> None, key |-> None, paid |-> None]
NoSession == [status |-> "none", cashier |-> None]

Init ==
  /\ session = [s \in Sessions |-> NoSession]
  /\ common = InitialPrice /\ override = None
  /\ stock = InitialStock /\ counter = 0
  /\ bill = [r \in Reqs |-> NoBill]
  /\ stockLock = None /\ counterLock = None
  /\ pc = [r \in Reqs |-> "idle"]
  /\ req = [r \in Reqs |-> NoReq]
  /\ ses = [r \in Reqs |-> None]
  /\ product = [r \in Reqs |-> None]
  /\ price = [r \in Reqs |-> None]
  /\ number = [r \in Reqs |-> 0]
  /\ reply = [r \in Reqs |-> None]
  /\ closer = [h \in Closers |-> None]

-----------------------------------------------------------------------------
(* The request.                                                            *)

\* POST /bills/checkout.  A client sends a key again when it has no answer;
\* a key is never shared by two cashiers.
Send(r, c, k, p) ==
  /\ pc[r] = "idle"
  /\ \A q \in Reqs : k # None /\ req[q].key = k => req[q].cashier = c
  /\ pc' = [pc EXCEPT ![r] = "fast"]
  /\ req' = [req EXCEPT ![r] = [cashier |-> c, key |-> k, paid |-> p]]
  /\ UNCHANGED <<db, locks, ses, product, price, number, reply, closer>>

Goto(r, stage) == pc' = [pc EXCEPT ![r] = stage] /\ UNCHANGED reply

Answer(r, a) ==
  /\ pc' = [pc EXCEPT ![r] = "done"]
  /\ reply' = [reply EXCEPT ![r] = a]

\* mutant: the counter row stays locked after a failed request
AbandonKeepingCounter(r, a) ==
  /\ Answer(r, a)
  /\ stockLock' = IF stockLock = r THEN None ELSE stockLock
  /\ UNCHANGED <<db, counterLock, local, closer>>

\* The request ends without a bill of its own, before or inside its
\* transaction, whose locks go with the ROLLBACK.
Abandon(r, a) ==
  /\ Answer(r, a)
  /\ stockLock' = IF stockLock = r THEN None ELSE stockLock
  /\ counterLock' = IF counterLock = r THEN None ELSE counterLock
  /\ UNCHANGED <<db, local, closer>>

\* Bills found by the unique index on (shopId, idempotencyKey).
Existing(r) == {b \in Reqs : bill[b].status # "none" /\ req[r].key # None /\ bill[b].key = req[r].key}

FastPath(r) ==
  /\ pc[r] = "fast"
  /\ \/ \E b \in Existing(r) : Abandon(r, b)
     \/ /\ Existing(r) = {}
        /\ Goto(r, "session")
        /\ UNCHANGED <<db, locks, local, closer>>

OpenSessions(c) == {s \in Sessions : session[s].status = "OPEN" /\ session[s].cashier = c}

FindActiveSession(r) ==
  /\ pc[r] = "session"
  /\ \/ \E s \in OpenSessions(req[r].cashier) :
          /\ ses' = [ses EXCEPT ![r] = s]
          /\ Goto(r, "products")
          /\ UNCHANGED <<db, locks, req, product, price, number, closer>>
     \/ OpenSessions(req[r].cashier) = {} /\ Abandon(r, "refused")

\* The product rows with their common price, then assertStockAvailable().
ReadProducts(r) ==
  /\ pc[r] = "products"
  /\ \/ /\ stock >= 1
        /\ product' = [product EXCEPT ![r] = common]
        /\ Goto(r, "prices")
        /\ UNCHANGED <<db, locks, req, ses, price, number, closer>>
     \/ stock < 1 /\ Abandon(r, "refused")

\* getEffectivePrices(): the override as it is now, else the common price
\* of the product rows handed to it.
EffectivePrice(r) == IF override # None THEN override ELSE product[r]

ResolvePrices(r) ==
  /\ pc[r] = "prices"
  /\ \/ /\ req[r].paid = EffectivePrice(r)
        /\ price' = [price EXCEPT ![r] = EffectivePrice(r)]
        /\ Goto(r, "recheck")
        /\ UNCHANGED <<db, locks, req, ses, product, number, closer>>
     \/ req[r].paid # EffectivePrice(r) /\ Abandon(r, "refused")

-----------------------------------------------------------------------------
(* Its transaction.                                                        *)

RecheckPrices(r) ==
  /\ pc[r] = "recheck"
  /\ \/ price[r] = EffectivePrice(r) /\ Goto(r, "deduct") /\ UNCHANGED <<db, locks, local, closer>>
     \/ price[r] # EffectivePrice(r) /\ Abandon(r, "refused")

Free(lock, r) == lock \in {None, r}

\* mutant: the deduction relies on assertStockAvailable()
DeductUnchecked(r) ==
  /\ pc[r] = "deduct"
  /\ Free(stockLock, r)
  /\ stockLock' = r
  /\ Goto(r, "number")
  /\ UNCHANGED <<db, counterLock, local, closer>>

DeductStock(r) ==
  /\ pc[r] = "deduct"
  /\ Free(stockLock, r)
  /\ \/ /\ stock >= 1
        /\ stockLock' = r
        /\ Goto(r, "number")
        /\ UNCHANGED <<db, counterLock, local, closer>>
     \/ stock < 1 /\ Abandon(r, "refused")

\* mutant: the number is drawn in a transaction of its own
NumberDrawnApart(r) ==
  /\ pc[r] = "number"
  /\ Free(counterLock, r)
  /\ counter' = counter + 1
  /\ number' = [number EXCEPT ![r] = counter + 1]
  /\ Goto(r, "insert")
  /\ UNCHANGED <<session, common, override, stock, bill, locks, req, ses, product, price, closer>>

\* nextBillNumber(): the upsert locks the counter row until the transaction
\* ends, and its increment is part of the transaction.
NextBillNumber(r) ==
  /\ pc[r] = "number"
  /\ Free(counterLock, r)
  /\ counterLock' = r
  /\ number' = [number EXCEPT ![r] = counter + 1]
  /\ Goto(r, "insert")
  /\ UNCHANGED <<db, stockLock, req, ses, product, price, closer>>

\* INSERT of the bill: waits for an uncommitted bill with the same key; a
\* committed one raises P2002, and the handler returns that bill.
SameKeyPending(r) ==
  \E q \in Reqs \ {r} : pc[q] = "commit" /\ req[r].key # None /\ req[q].key = req[r].key

\* mutant: no unique index on the key
InsertUnkeyed(r) == pc[r] = "insert" /\ Goto(r, "commit") /\ UNCHANGED <<db, locks, local, closer>>

InsertBill(r) ==
  /\ pc[r] = "insert"
  /\ ~SameKeyPending(r)
  /\ \/ \E b \in Existing(r) : Abandon(r, b)
     \/ Existing(r) = {} /\ Goto(r, "commit") /\ UNCHANGED <<db, locks, local, closer>>

\* COMMIT.  The answer may still be lost: the audit rows are written
\* afterwards and a failure there is thrown to the client.
Commit(r) ==
  /\ pc[r] = "commit"
  /\ bill' = [bill EXCEPT ![r] = [status |-> "PAID", key |-> req[r].key, session |-> ses[r],
                                  price |-> price[r], number |-> number[r]]]
  /\ stock' = stock - 1
  /\ counter' = number[r]
  /\ stockLock' = None /\ counterLock' = None
  /\ \E a \in {r, "failed"} : Answer(r, a)
  /\ UNCHANGED <<session, common, override, local, closer>>

\* A timeout, a lost connection or a crash before COMMIT.
Fail(r) == pc[r] \notin {"idle", "done"} /\ Abandon(r, "failed")

-----------------------------------------------------------------------------
(* The rest of the system.                                                 *)

Quiet == UNCHANGED <<locks, pc, local, reply>>

\* PUT /admin/products/:id
SetCommonPrice(p) ==
  /\ "common" \in Workload /\ common # p
  /\ common' = p
  /\ UNCHANGED <<session, override, stock, counter, bill, closer>> /\ Quiet

\* PUT /admin/branch-products/:productId/:shopId/price, null clears
SetOverride(p) ==
  /\ "override" \in Workload /\ override # p
  /\ override' = p
  /\ UNCHANGED <<session, common, stock, counter, bill, closer>> /\ Quiet

\* mutant: a bill can be cancelled again
CancelAgain(b) ==
  /\ "cancel" \in Workload /\ bill[b].status \in {"PAID", "CANCELLED"}
  /\ stockLock = None
  /\ bill' = [bill EXCEPT ![b].status = "CANCELLED"]
  /\ stock' = stock + 1
  /\ UNCHANGED <<session, common, override, counter, closer>> /\ Quiet

\* cancelBill() in one step; the bill keeps its key.
CancelBill(b) ==
  /\ "cancel" \in Workload /\ bill[b].status = "PAID"
  /\ stockLock = None
  /\ bill' = [bill EXCEPT ![b].status = "CANCELLED"]
  /\ stock' = stock + 1
  /\ UNCHANGED <<session, common, override, counter, closer>> /\ Quiet

\* POST /bills/hold by a cashier, with or without a session: any stock at all
\* will do, none is taken, and no key or number is given.  What it reads goes
\* into no other row, so it is one step.
HoldBill(r, c) ==
  /\ pc[r] = "idle" /\ stock >= 1
  /\ bill' = [bill EXCEPT ![r] = [NoBill EXCEPT !.status = "HELD", !.price = IF override # None THEN override ELSE common]]
  /\ req' = [req EXCEPT ![r].cashier = c]
  /\ Answer(r, "held")
  /\ UNCHANGED <<session, common, override, stock, counter, locks, ses, product, price, number, closer>>

\* DELETE /bills/held/:id by the cashier who holds it
DeleteHeldBill(b) ==
  /\ bill[b].status = "HELD"
  /\ bill' = [bill EXCEPT ![b] = NoBill]
  /\ UNCHANGED <<session, common, override, stock, counter, closer>> /\ Quiet

\* POST /sessions/start: findFirst of an OPEN session, then create.
StartSession(s, c) ==
  /\ session[s].status = "none"
  /\ OpenSessions(c) = {}
  /\ session' = [session EXCEPT ![s] = [NoSession EXCEPT !.status = "starting", !.cashier = c]]
  /\ UNCHANGED <<common, override, stock, counter, bill, closer>> /\ Quiet

CreateSession(s) ==
  /\ session[s].status = "starting"
  /\ session' = [session EXCEPT ![s].status = "OPEN"]
  /\ UNCHANGED <<common, override, stock, counter, bill, closer>> /\ Quiet

\* POST /sessions/close: the row is read and tested and its bills are summed
\* (which changes nothing); then it is updated by id.
CloseSession(h, s) ==
  /\ "session" \in Workload /\ closer[h] = None
  /\ session[s].status = "OPEN"
  /\ closer' = [closer EXCEPT ![h] = s]
  /\ UNCHANGED db /\ Quiet

UpdateSession(h) ==
  /\ closer[h] \in Sessions
  /\ session' = [session EXCEPT ![closer[h]].status = "CLOSED"]
  /\ closer' = [closer EXCEPT ![h] = "done"]
  /\ UNCHANGED <<common, override, stock, counter, bill>> /\ Quiet

-----------------------------------------------------------------------------
Step(r) ==
  \/ FastPath(r) \/ FindActiveSession(r) \/ ReadProducts(r) \/ ResolvePrices(r)
  \/ RecheckPrices(r) \/ DeductStock(r) \/ NextBillNumber(r) \/ InsertBill(r) \/ Commit(r)

Environment ==
  \/ \E p \in Prices : SetCommonPrice(p)
  \/ \E p \in Prices \cup {None} : SetOverride(p)
  \/ \E b \in Reqs : CancelBill(b) \/ DeleteHeldBill(b) \/ \E c \in Cashiers : HoldBill(b, c)
  \/ \E s \in Sessions, c \in Cashiers : StartSession(s, c)
  \/ \E s \in Sessions : CreateSession(s)
  \/ \E h \in Closers, s \in Sessions : CloseSession(h, s)
  \/ \E h \in Closers : UpdateSession(h)

Next ==
  \/ \E r \in Reqs, c \in Cashiers, k \in Keys \cup {None}, p \in Prices : Send(r, c, k, p)
  \/ \E r \in Reqs : Step(r) \/ Fail(r)
  \/ Environment

Spec == Init /\ [][Next]_vars

\* The database serves the waiters of a row in turn and the handlers run to
\* their answer; nobody has to send a request or to lose one.
LiveSpec == Spec /\ \A r \in Reqs : SF_vars(Step(r))

-----------------------------------------------------------------------------
(* Properties.                                                             *)

\* The type invariant.
TypeOK ==
  /\ session \in [Sessions -> [status : {"none", "starting", "OPEN", "CLOSED"}, cashier : Cashiers \cup {None}]]
  /\ common \in Prices /\ override \in Prices \cup {None}
  /\ stock \in Nat /\ counter \in Nat
  /\ bill \in [Reqs -> [status : {"none", "HELD", "PAID", "CANCELLED"}, key : Keys \cup {None},
                        session : Sessions \cup {None}, price : Prices \cup {None}, number : Nat]]
  /\ stockLock \in Reqs \cup {None} /\ counterLock \in Reqs \cup {None}
  /\ pc \in [Reqs -> {"idle", "fast", "session", "products", "prices", "recheck", "deduct", "number",
                      "insert", "commit", "done"}]
  /\ req \in [Reqs -> [cashier : Cashiers \cup {None}, key : Keys \cup {None}, paid : Prices \cup {None}]]
  /\ ses \in [Reqs -> Sessions \cup {None}]
  /\ product \in [Reqs -> Prices \cup {None}] /\ price \in [Reqs -> Prices \cup {None}]
  /\ number \in [Reqs -> Nat]
  /\ reply \in [Reqs -> Reqs \cup {None, "refused", "failed", "held"}]
  /\ closer \in [Closers -> Sessions \cup {None, "done"}]

\* The bills that drew a number; a held one does not.
Billed == {b \in Reqs : bill[b].status \notin {"none", "HELD"}}

\* A key sells once: however a request is retried, overlapped or lost, and
\* even after a cancellation, all its attempts make at most one bill, and an
\* attempt answered with a bill is answered with that one.
OneBillPerKey ==
  /\ \A a, b \in Billed : bill[a].key # None /\ bill[a].key = bill[b].key => a = b
  /\ \A r \in Reqs : reply[r] \in Reqs => reply[r] \in Billed /\ bill[reply[r]].key = req[r].key

\* A unit leaves the shelf exactly when a bill that stands says so: no
\* abandoned attempt keeps one, no retry takes a second, no held bill one.
StockMatchesBills == stock = InitialStock - Cardinality({b \in Billed : bill[b].status = "PAID"})

\* Bill numbers run 1, 2, 3 ... without a gap or a repetition, whatever is
\* refused, lost, held or cancelled in between.
NumbersGapless ==
  /\ {bill[b].number : b \in Billed} = 1..Cardinality(Billed)
  /\ counter = Cardinality(Billed)

\* "abort (nothing written) if an admin changed a price after the totals
\* were validated above" (checkoutBill): a transaction that goes on past the
\* re-check bills the price the branch has at that moment.
PriceChangeAborts ==
  [][\A r \in Reqs : pc[r] = "recheck" /\ pc'[r] = "deduct" =>
       price[r] = IF override # None THEN override ELSE common]_vars

\* Every checkout request is answered: no lock is leaked by a refused, lost
\* or replayed one.
EveryRequestAnswered == \A r \in Reqs : pc[r] = "fast" ~> reply[r] # None
===============================================================================

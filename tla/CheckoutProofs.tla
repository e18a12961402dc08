--------------------------- MODULE CheckoutProofs ---------------------------
(***************************************************************************)
(* Proofs about Checkout for any cashiers, sessions, keys, requests,       *)
(* prices, stock and workload.                                             *)
(***************************************************************************)
EXTENDS Checkout, FiniteSetTheorems, TLAPS

\* A transaction holds the stock row from its deduction to its end, and the
\* counter row from its number to its end.
LocksOK ==
  \A r \in Reqs :
    /\ stockLock = r <=> pc[r] \in {"number", "insert", "commit"}
    /\ counterLock = r <=> pc[r] \in {"insert", "commit"}

\* What a transaction saw under its locks is still so: there is a unit to
\* take, its number is the next one, and its key has made no bill.
HoldersOK ==
  \A r \in Reqs :
    /\ pc[r] \in {"number", "insert", "commit"} => stock >= 1
    /\ pc[r] \in {"insert", "commit"} => number[r] = counter + 1
    /\ pc[r] = "commit" => Existing(r) = {}

\* A bill has the key of the request that made it, a held one has none; and
\* a request is answered once.
BillsOK ==
  \A r \in Reqs :
    /\ bill[r].status # "none" => pc[r] = "done"
    /\ bill[r].status = "HELD" => bill[r].key = None
    /\ r \in Billed => bill[r].key = req[r].key
    /\ pc[r] # "done" => reply[r] = None

IInv ==
  /\ TypeOK /\ LocksOK /\ HoldersOK /\ BillsOK
  /\ IsFiniteSet(Billed) /\ OneBillPerKey /\ StockMatchesBills /\ NumbersGapless

-----------------------------------------------------------------------------
SessionType == [status : {"none", "starting", "OPEN", "CLOSED"}, cashier : Cashiers \cup {None}]
BillType == [status : {"none", "HELD", "PAID", "CANCELLED"}, key : Keys \cup {None},
             session : Sessions \cup {None}, price : Prices \cup {None}, number : Nat]
ReqType == [cashier : Cashiers \cup {None}, key : Keys \cup {None}, paid : Prices \cup {None}]
Stages == {"idle", "fast", "session", "products", "prices", "recheck", "deduct", "number",
           "insert", "commit", "done"}
Replies == Reqs \cup {None, "refused", "failed", "held"}

LEMMA TypeFacts ==
  ASSUME TypeOK
  PROVE  /\ session \in [Sessions -> SessionType] /\ common \in Prices /\ override \in Prices \cup {None}
         /\ stock \in Nat /\ counter \in Nat /\ bill \in [Reqs -> BillType]
         /\ pc \in [Reqs -> Stages] /\ req \in [Reqs -> ReqType] /\ number \in [Reqs -> Nat]
         /\ reply \in [Reqs -> Replies]
  BY DEF TypeOK, SessionType, BillType, Stages, ReqType, Replies

LEMMA InitIInv == Init => IInv
  <1> SUFFICES ASSUME Init PROVE IInv
    OBVIOUS
  <1>1. TypeOK
    BY CheckoutAssumption DEF Init, TypeOK, NoBill, NoReq, NoSession
  <1>2. LocksOK /\ HoldersOK
    BY CheckoutAssumption DEF Init, LocksOK, HoldersOK
  <1>3. Billed = {}
    BY DEF Init, Billed, NoBill
  <1>4. BillsOK
    BY <1>3 DEF Init, BillsOK, NoBill
  <1>5. IsFiniteSet(Billed) /\ Cardinality(Billed) = 0
    BY <1>3, FS_EmptySet
  <1>6. OneBillPerKey
    BY <1>3, CheckoutAssumption DEF Init, OneBillPerKey
  <1>7. StockMatchesBills
    <2>1. {b \in Billed : bill[b].status = "PAID"} = {}
      BY <1>3
    <2>2. Cardinality({b \in Billed : bill[b].status = "PAID"}) = 0
      BY <2>1, FS_EmptySet
    <2> QED BY <2>2, CheckoutAssumption DEF Init, StockMatchesBills
  <1>8. NumbersGapless
    <2>1. {bill[b].number : b \in Billed} = {}
      BY <1>3
    <2> QED BY <2>1, <1>5 DEF Init, NumbersGapless
  <1> QED BY <1>1, <1>2, <1>4, <1>5, <1>6, <1>7, <1>8 DEF IInv

-----------------------------------------------------------------------------
(* Steps that leave the bills alone.                                       *)

LEMMA BillsKept ==
  ASSUME IInv, UNCHANGED <<bill, stock, counter>>
  PROVE  Billed' = Billed /\ IsFiniteSet(Billed)' /\ StockMatchesBills' /\ NumbersGapless'
  <1>1. Billed' = Billed
    BY DEF Billed
  <1>2. IsFiniteSet(Billed)'
    BY <1>1 DEF IInv
  <1>3. StockMatchesBills'
    BY <1>1 DEF IInv, StockMatchesBills
  <1>4. NumbersGapless'
    BY <1>1 DEF IInv, NumbersGapless
  <1> QED BY <1>1, <1>2, <1>3, <1>4

\* Nothing about the other requests changes.
OthersKept(r) ==
  \A q \in Reqs \ {r} :
    /\ pc'[q] = pc[q] /\ number'[q] = number[q] /\ req'[q] = req[q] /\ reply'[q] = reply[q]
    /\ stockLock' = q <=> stockLock = q
    /\ counterLock' = q <=> counterLock = q

\* The invariants of request r itself, where it makes no bill.
OwnOK(r) ==
  /\ stockLock = r <=> pc[r] \in {"number", "insert", "commit"}
  /\ counterLock = r <=> pc[r] \in {"insert", "commit"}
  /\ pc[r] \in {"number", "insert", "commit"} => stock >= 1
  /\ pc[r] \in {"insert", "commit"} => number[r] = counter + 1
  /\ pc[r] = "commit" => Existing(r) = {}
  /\ pc[r] # "done" => reply[r] = None
  /\ reply[r] \in Reqs => reply[r] \in Billed /\ bill[reply[r]].key = req[r].key

LEMMA RequestStep ==
  ASSUME IInv, TypeOK', NEW r \in Reqs, pc[r] # "done", UNCHANGED <<bill, stock, counter>>,
         OthersKept(r), OwnOK(r)'
  PROVE  IInv'
  <1>1. Billed' = Billed /\ IsFiniteSet(Billed)' /\ StockMatchesBills' /\ NumbersGapless'
    BY BillsKept
  <1>2. bill[r].status = "none" /\ r \notin Billed
    BY DEF IInv, BillsOK, Billed
  <1>3. LocksOK'
    BY DEF IInv, LocksOK, OthersKept, OwnOK
  <1>4. HoldersOK'
    <2> SUFFICES ASSUME NEW q \in Reqs PROVE HoldersOK!(q)'
      BY DEF HoldersOK
    <2>1. CASE q = r
      BY <2>1 DEF OwnOK
    <2>2. CASE q # r
      BY <2>2 DEF IInv, HoldersOK, OthersKept, Existing
    <2> QED BY <2>1, <2>2
  <1>5. BillsOK'
    BY <1>1, <1>2 DEF IInv, BillsOK, OthersKept, OwnOK
  <1>6. OneBillPerKey'
    BY <1>1 DEF IInv, OneBillPerKey, OthersKept, OwnOK
  <1> QED BY <1>1, <1>3, <1>4, <1>5, <1>6 DEF IInv

\* Before its transaction touches a row a request changes only itself.
EarlyStages == {"fast", "session", "products", "prices", "recheck", "deduct"}

LEMMA EarlyStep ==
  ASSUME IInv, TypeOK', NEW r \in Reqs, pc[r] \in EarlyStages \cup {"idle"}, NEW s \in EarlyStages,
         Goto(r, s), UNCHANGED <<bill, stock, counter, locks, number>>,
         \A q \in Reqs \ {r} : req'[q] = req[q]
  PROVE  IInv'
  <1>1. pc'[r] = s /\ \A q \in Reqs \ {r} : pc'[q] = pc[q]
    BY TypeFacts DEF IInv, Goto
  <1>2. OthersKept(r)
    BY <1>1 DEF OthersKept, Goto, locks
  <1>3. stockLock # r /\ counterLock # r /\ reply[r] = None
    BY DEF IInv, LocksOK, BillsOK, EarlyStages
  <1>4. OwnOK(r)'
    BY <1>1, <1>3, CheckoutAssumption DEF OwnOK, EarlyStages, Goto, locks
  <1> QED BY <1>2, <1>4, RequestStep DEF EarlyStages

LEMMA AbandonStep ==
  ASSUME IInv, NEW r \in Reqs, pc[r] \notin {"idle", "done"},
         NEW a \in {"refused", "failed"} \cup Existing(r), Abandon(r, a)
  PROVE  IInv'
  <1>1. /\ pc'[r] = "done" /\ \A q \in Reqs \ {r} : pc'[q] = pc[q]
        /\ reply'[r] = a /\ \A q \in Reqs \ {r} : reply'[q] = reply[q]
        /\ UNCHANGED <<bill, stock, counter, req, number>>
    BY TypeFacts DEF IInv, Abandon, Answer, db, local
  <1>2. a \in Reqs => a \in Billed /\ bill[a].key = req[r].key
    BY CheckoutAssumption DEF Existing, IInv, BillsOK, Billed
  <1>3. TypeOK'
    <2>1. pc' \in [Reqs -> Stages] /\ reply' \in [Reqs -> Replies]
      BY TypeFacts DEF IInv, Abandon, Answer, Stages, Replies, Existing
    <2>2. stockLock' \in Reqs \cup {None} /\ counterLock' \in Reqs \cup {None}
      BY DEF IInv, TypeOK, Abandon
    <2> QED BY <2>1, <2>2 DEF IInv, TypeOK, Stages, Replies, Abandon, db, local
  <1>4. stockLock' # r /\ counterLock' # r /\ OthersKept(r)
    BY <1>1, CheckoutAssumption DEF Abandon, OthersKept
  <1>5. Billed' = Billed
    BY <1>1 DEF Billed
  <1>6. OwnOK(r)'
    BY <1>1, <1>2, <1>4, <1>5 DEF OwnOK
  <1> QED BY <1>1, <1>3, <1>4, <1>6, RequestStep

-----------------------------------------------------------------------------
(* The steps of a request.                                                 *)

LEMMA SendStep ==
  ASSUME IInv, NEW r \in Reqs, NEW c \in Cashiers, NEW k \in Keys \cup {None}, NEW p \in Prices, Send(r, c, k, p)
  PROVE  IInv'
  <1>1. TypeOK'
    BY DEF IInv, TypeOK, Send, db, locks
  <1>2. Goto(r, "fast") /\ \A q \in Reqs \ {r} : req'[q] = req[q]
    BY TypeFacts DEF IInv, Send, Goto
  <1> QED BY <1>1, <1>2, EarlyStep DEF Send, EarlyStages, db

LEMMA FastPathStep ==
  ASSUME IInv, NEW r \in Reqs, FastPath(r)
  PROVE  IInv'
  <1>1. CASE \E b \in Existing(r) : Abandon(r, b)
    BY <1>1, AbandonStep DEF FastPath
  <1>2. CASE Goto(r, "session") /\ UNCHANGED <<db, locks, local, closer>>
    <2>1. TypeOK'
      BY <1>2 DEF IInv, TypeOK, Goto, db, locks, local
    <2> QED BY <1>2, <2>1, EarlyStep DEF FastPath, EarlyStages, db, local
  <1> QED BY <1>1, <1>2 DEF FastPath

LEMMA FindActiveSessionStep ==
  ASSUME IInv, NEW r \in Reqs, FindActiveSession(r)
  PROVE  IInv'
  <1>1. CASE Abandon(r, "refused")
    BY <1>1, AbandonStep DEF FindActiveSession
  <1>2. ASSUME NEW s \in OpenSessions(req[r].cashier), ses' = [ses EXCEPT ![r] = s], Goto(r, "products"),
               UNCHANGED <<db, locks, req, product, price, number, closer>>
        PROVE  IInv'
    <2>1. TypeOK'
      BY <1>2 DEF IInv, TypeOK, Goto, db, locks, OpenSessions
    <2> QED BY <1>2, <2>1, EarlyStep DEF FindActiveSession, EarlyStages, db
  <1> QED BY <1>1, <1>2 DEF FindActiveSession

LEMMA ReadProductsStep ==
  ASSUME IInv, NEW r \in Reqs, ReadProducts(r)
  PROVE  IInv'
  <1>1. CASE Abandon(r, "refused")
    BY <1>1, AbandonStep DEF ReadProducts
  <1>2. CASE /\ product' = [product EXCEPT ![r] = common] /\ Goto(r, "prices")
             /\ UNCHANGED <<db, locks, req, ses, price, number, closer>>
    <2>1. TypeOK'
      BY <1>2 DEF IInv, TypeOK, Goto, db, locks
    <2> QED BY <1>2, <2>1, EarlyStep DEF ReadProducts, EarlyStages, db
  <1> QED BY <1>1, <1>2 DEF ReadProducts

LEMMA ResolvePricesStep ==
  ASSUME IInv, NEW r \in Reqs, ResolvePrices(r)
  PROVE  IInv'
  <1>1. CASE Abandon(r, "refused")
    BY <1>1, AbandonStep DEF ResolvePrices
  <1>2. CASE /\ price' = [price EXCEPT ![r] = EffectivePrice(r)] /\ Goto(r, "recheck")
             /\ UNCHANGED <<db, locks, req, ses, product, number, closer>>
    <2>1. TypeOK'
      BY <1>2 DEF IInv, TypeOK, Goto, db, locks, EffectivePrice
    <2> QED BY <1>2, <2>1, EarlyStep DEF ResolvePrices, EarlyStages, db
  <1> QED BY <1>1, <1>2 DEF ResolvePrices

LEMMA RecheckPricesStep ==
  ASSUME IInv, NEW r \in Reqs, RecheckPrices(r)
  PROVE  IInv'
  <1>1. CASE Abandon(r, "refused")
    BY <1>1, AbandonStep DEF RecheckPrices
  <1>2. CASE Goto(r, "deduct") /\ UNCHANGED <<db, locks, local, closer>>
    <2>1. TypeOK'
      BY <1>2 DEF IInv, TypeOK, Goto, db, locks, local
    <2> QED BY <1>2, <2>1, EarlyStep DEF RecheckPrices, EarlyStages, db, local
  <1> QED BY <1>1, <1>2 DEF RecheckPrices

LEMMA DeductStockStep ==
  ASSUME IInv, NEW r \in Reqs, DeductStock(r)
  PROVE  IInv'
  <1>1. CASE Abandon(r, "refused")
    BY <1>1, AbandonStep DEF DeductStock
  <1>2. CASE /\ stock >= 1 /\ stockLock' = r /\ Goto(r, "number")
             /\ UNCHANGED <<db, counterLock, local, closer>>
    <2>1. TypeOK'
      BY <1>2 DEF IInv, TypeOK, Goto, db, local
    <2>2. pc[r] = "deduct" /\ pc'[r] = "number" /\ \A q \in Reqs \ {r} : pc'[q] = pc[q]
      BY <1>2, TypeFacts DEF IInv, DeductStock, Goto
    <2>3. stockLock = None /\ counterLock # r /\ reply[r] = None
      BY <2>2 DEF DeductStock, Free, IInv, LocksOK, BillsOK
    <2>4. OthersKept(r)
      BY <1>2, <2>2, <2>3, CheckoutAssumption DEF OthersKept, Goto, local
    <2>5. OwnOK(r)'
      BY <1>2, <2>2, <2>3, CheckoutAssumption DEF OwnOK, Goto, db
    <2> QED BY <1>2, <2>1, <2>2, <2>4, <2>5, RequestStep DEF db
  <1> QED BY <1>1, <1>2 DEF DeductStock

LEMMA NextBillNumberStep ==
  ASSUME IInv, NEW r \in Reqs, NextBillNumber(r)
  PROVE  IInv'
  <1>1. TypeOK'
    BY DEF IInv, TypeOK, NextBillNumber, Goto, db
  <1>2. /\ pc[r] = "number" /\ pc'[r] = "insert" /\ \A q \in Reqs \ {r} : pc'[q] = pc[q]
        /\ number'[r] = counter + 1 /\ \A q \in Reqs \ {r} : number'[q] = number[q]
    BY TypeFacts DEF IInv, NextBillNumber, Goto
  <1>3. stockLock = r /\ counterLock = None /\ stock >= 1 /\ reply[r] = None
    BY <1>2 DEF NextBillNumber, Free, IInv, LocksOK, HoldersOK, BillsOK
  <1>4. OthersKept(r)
    BY <1>2, <1>3, CheckoutAssumption DEF OthersKept, NextBillNumber, Goto
  <1>5. OwnOK(r)'
    BY <1>2, <1>3, CheckoutAssumption DEF OwnOK, NextBillNumber, Goto, db
  <1> QED BY <1>1, <1>2, <1>4, <1>5, RequestStep DEF NextBillNumber, db

LEMMA InsertBillStep ==
  ASSUME IInv, NEW r \in Reqs, InsertBill(r)
  PROVE  IInv'
  <1>1. CASE \E b \in Existing(r) : Abandon(r, b)
    BY <1>1, AbandonStep DEF InsertBill
  <1>2. CASE Existing(r) = {} /\ Goto(r, "commit") /\ UNCHANGED <<db, locks, local, closer>>
    <2>1. TypeOK'
      BY <1>2 DEF IInv, TypeOK, Goto, db, locks, local
    <2>2. pc[r] = "insert" /\ pc'[r] = "commit" /\ \A q \in Reqs \ {r} : pc'[q] = pc[q]
      BY <1>2, TypeFacts DEF IInv, InsertBill, Goto
    <2>3. stockLock = r /\ counterLock = r /\ stock >= 1 /\ number[r] = counter + 1 /\ reply[r] = None
      BY <2>2 DEF IInv, LocksOK, HoldersOK, BillsOK
    <2>4. OthersKept(r)
      BY <1>2, <2>2 DEF OthersKept, Goto, locks, local
    <2>5. OwnOK(r)'
      BY <1>2, <2>2, <2>3, CheckoutAssumption DEF OwnOK, Goto, db, locks, local, Existing
    <2> QED BY <1>2, <2>1, <2>2, <2>4, <2>5, RequestStep DEF db
  <1> QED BY <1>1, <1>2 DEF InsertBill

-----------------------------------------------------------------------------
(* Steps that change bills.                                                *)

\* The bills that stand.
Paid == {b \in Billed : bill[b].status = "PAID"}

LEMMA BilledReqs == Billed \subseteq Reqs
  BY DEF Billed

LEMMA PaidFacts ==
  ASSUME IInv
  PROVE  /\ IsFiniteSet(Billed) /\ Cardinality(Billed) \in Nat
         /\ IsFiniteSet(Paid) /\ Cardinality(Paid) \in Nat
         /\ stock = InitialStock - Cardinality(Paid)
  <1>1. IsFiniteSet(Billed)
    BY DEF IInv
  <1>2. Paid \subseteq Billed
    BY DEF Paid
  <1>3. stock = InitialStock - Cardinality(Paid)
    BY DEF IInv, StockMatchesBills, Paid
  <1> QED BY <1>1, <1>2, <1>3, FS_Subset, FS_CardinalityType

LEMMA CommitEffect ==
  ASSUME IInv, NEW r \in Reqs, Commit(r)
  PROVE  /\ pc[r] = "commit" /\ pc'[r] = "done" /\ \A q \in Reqs \ {r} : pc'[q] = pc[q]
         /\ bill'[r].status = "PAID" /\ bill'[r].key = req[r].key /\ bill'[r].number = counter + 1
         /\ \A q \in Reqs \ {r} : bill'[q] = bill[q]
         /\ reply'[r] \in {r, "failed"} /\ \A q \in Reqs \ {r} : reply'[q] = reply[q]
         /\ stock' = stock - 1 /\ counter' = counter + 1
         /\ stockLock' = None /\ counterLock' = None
         /\ stock >= 1 /\ r \notin Billed /\ Existing(r) = {}
         /\ \A q \in Reqs \ {r} : pc[q] \notin {"number", "insert", "commit"}
         /\ TypeOK' /\ UNCHANGED <<req, number>>
  <1>1. pc[r] = "commit" /\ number[r] = counter + 1 /\ stock >= 1 /\ Existing(r) = {}
    BY DEF Commit, IInv, HoldersOK
  <1>2. bill[r].status = "none"
    BY <1>1 DEF IInv, BillsOK
  <1>3. stockLock = r /\ \A q \in Reqs \ {r} : pc[q] \notin {"number", "insert", "commit"}
    BY <1>1 DEF IInv, LocksOK
  <1>4. PICK a \in {r, "failed"} : Answer(r, a)
    BY DEF Commit
  <1>5. /\ pc'[r] = "done" /\ \A q \in Reqs \ {r} : pc'[q] = pc[q]
        /\ reply'[r] = a /\ \A q \in Reqs \ {r} : reply'[q] = reply[q]
        /\ pc' \in [Reqs -> Stages] /\ reply' \in [Reqs -> Replies]
    BY <1>4, TypeFacts DEF IInv, Answer, Stages, Replies
  <1>6. PICK new : new = [status |-> "PAID", key |-> req[r].key, session |-> ses[r],
                          price |-> price[r], number |-> number[r]]
    OBVIOUS
  <1>7. new \in BillType /\ new.status = "PAID" /\ new.key = req[r].key /\ new.number = number[r]
    BY <1>6 DEF IInv, TypeOK, BillType
  <1>8. bill' = [bill EXCEPT ![r] = new]
    BY <1>6 DEF Commit
  <1>9. bill' \in [Reqs -> BillType] /\ bill'[r] = new /\ \A q \in Reqs \ {r} : bill'[q] = bill[q]
    BY <1>7, <1>8, TypeFacts DEF IInv
  <1>10. UNCHANGED <<session, common, override, req, ses, product, price, number, closer>>
    BY DEF Commit, local
  <1>11. stock' = stock - 1 /\ counter' = number[r] /\ stockLock' = None /\ counterLock' = None
    BY DEF Commit
  <1>12. stock' \in Nat /\ counter' \in Nat
    BY <1>1, <1>11, TypeFacts DEF IInv
  <1>13. TypeOK'
    BY <1>5, <1>9, <1>10, <1>11, <1>12 DEF IInv, TypeOK, BillType, Stages, Replies
  <1> QED BY <1>1, <1>2, <1>3, <1>5, <1>7, <1>9, <1>10, <1>11, <1>13 DEF Billed

LEMMA CommitStep ==
  ASSUME IInv, NEW r \in Reqs, Commit(r)
  PROVE  IInv'
  <1>1. Billed' = Billed \cup {r} /\ r \notin Billed
    BY CommitEffect DEF Billed
  <1>2. Paid' = Paid \cup {r} /\ r \notin Paid
    BY <1>1, CommitEffect, BilledReqs DEF Paid
  <1>3. IsFiniteSet(Billed)' /\ Cardinality(Billed') = Cardinality(Billed) + 1
    BY <1>1, PaidFacts, FS_AddElement
  <1>4. Cardinality(Paid') = Cardinality(Paid) + 1
    BY <1>2, PaidFacts, FS_AddElement
  <1>5. StockMatchesBills'
    <2>1. stock' = InitialStock - Cardinality(Paid')
      BY <1>4, CommitEffect, PaidFacts, CheckoutAssumption
    <2> QED BY <2>1 DEF StockMatchesBills, Paid
  <1>6. NumbersGapless'
    <2>1. counter = Cardinality(Billed) /\ counter \in Nat /\ {bill[b].number : b \in Billed} = 1..counter
      BY TypeFacts DEF IInv, NumbersGapless
    <2>2. counter' = Cardinality(Billed')
      BY <1>3, <2>1, CommitEffect
    <2>3. {bill'[b].number : b \in Billed'} = {bill[b].number : b \in Billed} \cup {counter + 1}
      BY <1>1, CommitEffect DEF Billed
    <2>4. 1..(counter + 1) = (1..counter) \cup {counter + 1}
      BY <2>1
    <2> QED BY <2>1, <2>2, <2>3, <2>4, CommitEffect DEF NumbersGapless
  <1>7. LocksOK'
    BY CommitEffect, CheckoutAssumption DEF LocksOK
  <1>8. HoldersOK'
    BY CommitEffect DEF HoldersOK
  <1>9. BillsOK'
    BY <1>1, CommitEffect DEF IInv, BillsOK, Billed
  <1>10. OneBillPerKey'
    <2>1. ASSUME NEW a \in Billed', NEW b \in Billed', bill'[a].key # None, bill'[a].key = bill'[b].key
          PROVE  a = b
      <3>1. ASSUME NEW q \in Billed PROVE bill'[q] = bill[q] /\ (req[r].key # None => bill[q].key # req[r].key)
        BY <1>1, CommitEffect DEF Existing, Billed
      <3>2. CASE a \in Billed /\ b \in Billed
        BY <2>1, <3>1, <3>2 DEF IInv, OneBillPerKey
      <3> QED BY <1>1, <2>1, <3>1, <3>2, CommitEffect
    <2>2. ASSUME NEW q \in Reqs, reply'[q] \in Reqs
          PROVE  reply'[q] \in Billed' /\ bill'[reply'[q]].key = req'[q].key
      <3>1. CASE q = r
        BY <1>1, <2>2, <3>1, CommitEffect, CheckoutAssumption
      <3>2. CASE q # r
        BY <1>1, <2>2, <3>2, CommitEffect DEF IInv, OneBillPerKey, Billed
      <3> QED BY <3>1, <3>2
    <2> QED BY <2>1, <2>2 DEF OneBillPerKey
  <1> QED BY <1>3, <1>5, <1>6, <1>7, <1>8, <1>9, <1>10, CommitEffect DEF IInv

LEMMA CancelBillStep ==
  ASSUME IInv, NEW b \in Reqs, CancelBill(b)
  PROVE  IInv'
  <1>1. /\ stockLock = None /\ stock' = stock + 1 /\ bill[b].status = "PAID"
        /\ UNCHANGED <<session, common, override, counter, closer, stockLock, counterLock, pc, req, ses, product,
                       price, number, reply>>
    BY DEF CancelBill, Quiet, locks, local
  <1>2. /\ bill' \in [Reqs -> BillType] /\ bill'[b].status = "CANCELLED"
        /\ \A q \in Reqs : bill'[q].key = bill[q].key /\ bill'[q].number = bill[q].number
        /\ \A q \in Reqs \ {b} : bill'[q] = bill[q]
    BY TypeFacts DEF IInv, CancelBill, BillType
  <1>3. TypeOK'
    <2>1. stock' \in Nat
      BY <1>1, TypeFacts DEF IInv
    <2> QED BY <1>1, <1>2, <2>1 DEF IInv, TypeOK, BillType
  <1>4. Billed' = Billed /\ b \in Billed
    BY <1>1, <1>2 DEF Billed
  <1>5. Paid' = Paid \ {b} /\ b \in Paid
    BY <1>1, <1>2, <1>4, BilledReqs DEF Paid
  <1>6. Cardinality(Paid') = Cardinality(Paid) - 1
    BY <1>5, PaidFacts, FS_RemoveElement
  <1>7. StockMatchesBills'
    <2>1. stock' = InitialStock - Cardinality(Paid')
      BY <1>1, <1>6, PaidFacts, CheckoutAssumption
    <2> QED BY <2>1 DEF StockMatchesBills, Paid
  <1>8. NumbersGapless' /\ IsFiniteSet(Billed)'
    <2>1. {bill'[q].number : q \in Billed'} = {bill[q].number : q \in Billed}
      BY <1>2, <1>4 DEF Billed
    <2> QED BY <1>1, <1>4, <2>1 DEF IInv, NumbersGapless
  <1>9. LocksOK'
    BY <1>1 DEF IInv, LocksOK
  <1>10. HoldersOK'
    BY <1>1, CheckoutAssumption DEF IInv, LocksOK, HoldersOK
  <1>11. BillsOK' /\ OneBillPerKey'
    BY <1>1, <1>2, <1>4 DEF IInv, BillsOK, OneBillPerKey, Billed
  <1> QED BY <1>3, <1>7, <1>8, <1>9, <1>10, <1>11 DEF IInv

\* A held bill comes or goes: the bills with a number, and the stock, stay.
LEMMA HeldStep ==
  ASSUME IInv, TypeOK', NEW r \in Reqs, bill[r].status \in {"none", "HELD"},
         bill'[r].status \in {"none", "HELD"}, bill'[r].key = None,
         \A q \in Reqs \ {r} : bill'[q] = bill[q],
         pc[r] \in {"idle", "done"}, pc'[r] = "done", \A q \in Reqs \ {r} : pc'[q] = pc[q],
         reply'[r] \in {reply[r], "held"}, \A q \in Reqs \ {r} : reply'[q] = reply[q],
         \A q \in Reqs \ {r} : req'[q] = req[q], req'[r].key = req[r].key,
         UNCHANGED <<stock, counter, locks, number>>
  PROVE  IInv'
  <1>1. Billed' = Billed /\ r \notin Billed
    BY DEF Billed
  <1>2. Paid' = Paid
    BY <1>1, BilledReqs DEF Paid
  <1>3. StockMatchesBills'
    <2>1. stock' = InitialStock - Cardinality(Paid')
      BY <1>2, PaidFacts
    <2> QED BY <2>1 DEF StockMatchesBills, Paid
  <1>4. NumbersGapless' /\ IsFiniteSet(Billed)'
    <2>1. {bill'[q].number : q \in Billed'} = {bill[q].number : q \in Billed}
      BY <1>1 DEF Billed
    <2> QED BY <1>1, <2>1 DEF IInv, NumbersGapless
  <1>5. LocksOK'
    BY DEF IInv, LocksOK, locks
  <1>6. HoldersOK'
    <2>1. ASSUME NEW q \in Reqs \ {r}, pc[q] = "commit" PROVE Existing(q)' = {}
      BY <2>1 DEF IInv, HoldersOK, Existing
    <2> QED BY <2>1 DEF IInv, HoldersOK
  <1>7. BillsOK'
    BY <1>1 DEF IInv, BillsOK, Billed
  <1>8. OneBillPerKey'
    BY <1>1, CheckoutAssumption DEF IInv, OneBillPerKey, Billed
  <1> QED BY <1>3, <1>4, <1>5, <1>6, <1>7, <1>8 DEF IInv

LEMMA HoldBillStep ==
  ASSUME IInv, NEW r \in Reqs, NEW c \in Cashiers, HoldBill(r, c)
  PROVE  IInv'
  <1>1. PICK new : new = [NoBill EXCEPT !.status = "HELD", !.price = IF override # None THEN override ELSE common]
    OBVIOUS
  <1>2. new \in BillType /\ new.status = "HELD" /\ new.key = None
    BY <1>1, TypeFacts DEF IInv, NoBill, BillType
  <1>3. bill' = [bill EXCEPT ![r] = new]
    BY <1>1 DEF HoldBill
  <1>4. bill' \in [Reqs -> BillType] /\ bill'[r] = new /\ \A q \in Reqs \ {r} : bill'[q] = bill[q]
    BY <1>2, <1>3, TypeFacts DEF IInv
  <1>5. req' \in [Reqs -> ReqType] /\ req'[r].key = req[r].key /\ \A q \in Reqs \ {r} : req'[q] = req[q]
    BY TypeFacts DEF IInv, HoldBill, ReqType
  <1>6. /\ pc[r] = "idle" /\ pc'[r] = "done" /\ \A q \in Reqs \ {r} : pc'[q] = pc[q]
        /\ reply'[r] = "held" /\ \A q \in Reqs \ {r} : reply'[q] = reply[q]
        /\ pc' \in [Reqs -> Stages] /\ reply' \in [Reqs -> Replies]
    BY TypeFacts DEF IInv, HoldBill, Answer, Stages, Replies
  <1>7. UNCHANGED <<session, common, override, stock, counter, locks, ses, product, price, number, closer>>
    BY DEF HoldBill
  <1>8. TypeOK'
    BY <1>4, <1>5, <1>6, <1>7 DEF IInv, TypeOK, BillType, ReqType, Stages, Replies, locks
  <1>9. bill[r].status = "none"
    BY <1>6 DEF IInv, BillsOK
  <1> QED BY <1>2, <1>4, <1>5, <1>6, <1>7, <1>8, <1>9, HeldStep

LEMMA DeleteHeldBillStep ==
  ASSUME IInv, NEW b \in Reqs, DeleteHeldBill(b)
  PROVE  IInv'
  <1>1. NoBill \in BillType /\ NoBill.status = "none" /\ NoBill.key = None
    BY DEF NoBill, BillType
  <1>2. bill' \in [Reqs -> BillType] /\ bill'[b] = NoBill /\ \A q \in Reqs \ {b} : bill'[q] = bill[q]
    BY <1>1, TypeFacts DEF IInv, DeleteHeldBill
  <1>3. /\ bill[b].status = "HELD"
        /\ UNCHANGED <<session, common, override, stock, counter, closer, locks, pc, req, ses, product, price, number, reply>>
    BY DEF DeleteHeldBill, Quiet, local
  <1>4. pc[b] = "done"
    BY <1>3 DEF IInv, BillsOK
  <1>5. TypeOK'
    BY <1>2, <1>3 DEF IInv, TypeOK, BillType, locks
  <1> QED BY <1>1, <1>2, <1>3, <1>4, <1>5, HeldStep

-----------------------------------------------------------------------------
(* Steps about prices and sessions.                                        *)

LEMMA QuietStep ==
  ASSUME IInv, TypeOK', UNCHANGED <<stock, counter, bill>>, Quiet
  PROVE  IInv'
  <1>1. Billed' = Billed /\ IsFiniteSet(Billed)' /\ StockMatchesBills' /\ NumbersGapless'
    BY BillsKept
  <1>2. UNCHANGED <<stockLock, counterLock, pc, req, ses, product, price, number, reply>>
    BY DEF Quiet, locks, local
  <1>3. LocksOK' /\ HoldersOK' /\ BillsOK' /\ OneBillPerKey'
    BY <1>1, <1>2 DEF IInv, LocksOK, HoldersOK, BillsOK, OneBillPerKey, Existing
  <1> QED BY <1>1, <1>3 DEF IInv

LEMMA PriceStep ==
  ASSUME IInv,
         \/ \E p \in Prices : SetCommonPrice(p)
         \/ \E p \in Prices \cup {None} : SetOverride(p)
  PROVE  IInv'
  <1>1. UNCHANGED <<session, stock, counter, bill, closer>> /\ Quiet
    BY DEF SetCommonPrice, SetOverride
  <1>2. common' \in Prices /\ override' \in Prices \cup {None}
    BY TypeFacts DEF IInv, SetCommonPrice, SetOverride
  <1>3. TypeOK'
    BY <1>1, <1>2 DEF IInv, TypeOK, Quiet, locks, local
  <1> QED BY <1>1, <1>3, QuietStep

\* Only session rows and the requests to close them change.
LEMMA SessionRowStep ==
  ASSUME IInv, session' \in [Sessions -> SessionType], closer' \in [Closers -> Sessions \cup {None, "done"}],
         UNCHANGED <<common, override, stock, counter, bill>>, Quiet
  PROVE  IInv'
  <1>1. TypeOK'
    BY DEF IInv, TypeOK, SessionType, Quiet, locks, local
  <1> QED BY <1>1, QuietStep

LEMMA StartSessionStep ==
  ASSUME IInv, NEW s \in Sessions, NEW c \in Cashiers, StartSession(s, c)
  PROVE  IInv'
  <1>1. PICK new : new = [NoSession EXCEPT !.status = "starting", !.cashier = c]
    OBVIOUS
  <1>2. new \in SessionType
    BY <1>1 DEF NoSession, SessionType
  <1>3. session' = [session EXCEPT ![s] = new]
    BY <1>1 DEF StartSession
  <1>4. session' \in [Sessions -> SessionType]
    BY <1>2, <1>3, TypeFacts DEF IInv
  <1> QED BY <1>4, SessionRowStep DEF StartSession, IInv, TypeOK

LEMMA SessionStep ==
  ASSUME IInv,
         \/ \E s \in Sessions, c \in Cashiers : StartSession(s, c)
         \/ \E s \in Sessions : CreateSession(s)
         \/ \E h \in Closers, s \in Sessions : CloseSession(h, s)
         \/ \E h \in Closers : UpdateSession(h)
  PROVE  IInv'
  <1>1. session \in [Sessions -> SessionType] /\ closer \in [Closers -> Sessions \cup {None, "done"}]
    BY DEF IInv, TypeOK, SessionType
  <1>2. ASSUME NEW s \in Sessions, CreateSession(s) PROVE IInv'
    <2>1. session' \in [Sessions -> SessionType]
      BY <1>1, <1>2 DEF CreateSession, SessionType
    <2> QED BY <1>1, <1>2, <2>1, SessionRowStep DEF CreateSession
  <1>3. ASSUME NEW h \in Closers, NEW s \in Sessions, CloseSession(h, s) PROVE IInv'
    <2>1. closer' \in [Closers -> Sessions \cup {None, "done"}]
      BY <1>1, <1>3 DEF CloseSession
    <2> QED BY <1>1, <1>3, <2>1, SessionRowStep DEF CloseSession, db
  <1>4. ASSUME NEW h \in Closers, UpdateSession(h) PROVE IInv'
    <2>1. session' \in [Sessions -> SessionType]
      BY <1>1, <1>4 DEF UpdateSession, SessionType
    <2>2. closer' \in [Closers -> Sessions \cup {None, "done"}]
      BY <1>1, <1>4 DEF UpdateSession
    <2> QED BY <1>4, <2>1, <2>2, SessionRowStep DEF UpdateSession
  <1> QED BY <1>2, <1>3, <1>4, StartSessionStep

LEMMA NextIInv == IInv /\ [Next]_vars => IInv'
  <1> SUFFICES ASSUME IInv, [Next]_vars PROVE IInv'
    OBVIOUS
  <1>1. ASSUME NEW r \in Reqs, Step(r) PROVE IInv'
    BY <1>1, FastPathStep, FindActiveSessionStep, ReadProductsStep, ResolvePricesStep, RecheckPricesStep,
       DeductStockStep, NextBillNumberStep, InsertBillStep, CommitStep DEF Step
  <1>2. ASSUME NEW r \in Reqs, Fail(r) PROVE IInv'
    BY <1>2, AbandonStep DEF Fail
  <1>3. CASE Environment
    BY <1>3, PriceStep, SessionStep, CancelBillStep, HoldBillStep, DeleteHeldBillStep DEF Environment
  <1>4. CASE UNCHANGED vars
    <2>1. UNCHANGED <<stock, counter, bill>> /\ Quiet
      BY <1>4 DEF vars, Quiet, locks, local
    <2>2. TypeOK'
      BY <1>4 DEF IInv, TypeOK, vars
    <2> QED BY <2>1, <2>2, QuietStep
  <1> QED BY <1>1, <1>2, <1>3, <1>4, SendStep DEF Next

-----------------------------------------------------------------------------
\* The inductive invariant: under its locks a transaction's unit, number and
\* key stay as it found them until it commits.
THEOREM Invariant == Spec => []IInv
  <1> QED BY InitIInv, NextIInv, PTL DEF Spec

\* The tables and handlers keep their types; in particular no checkout,
\* whatever it overlaps with, takes the stock below zero.
THEOREM TypeCorrect == Spec => []TypeOK
  <1>1. IInv => TypeOK
    BY DEF IInv
  <1> QED BY <1>1, Invariant, PTL

\* However many attempts carry a key, at whatever point each fails, and even
\* after a cancellation, the key makes one bill, and the attempts that are
\* answered with a bill are answered with that one.
THEOREM KeysSellOnce == Spec => []OneBillPerKey
  <1>1. IInv => OneBillPerKey
    BY DEF IInv
  <1> QED BY <1>1, Invariant, PTL

\* The units off the shelf are those of the bills that stand.
THEOREM StockIsBilled == Spec => []StockMatchesBills
  <1>1. IInv => StockMatchesBills
    BY DEF IInv
  <1> QED BY <1>1, Invariant, PTL

\* The numbers of the bills that were paid, cancelled later or not, are exactly
\* 1 to the counter, whatever fails in between; a held bill draws none.
THEOREM NumbersRun == Spec => []NumbersGapless
  <1>1. IInv => NumbersGapless
    BY DEF IInv
  <1> QED BY <1>1, Invariant, PTL
=============================================================================

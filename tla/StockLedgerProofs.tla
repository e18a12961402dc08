-------------------------- MODULE StockLedgerProofs --------------------------
(***************************************************************************)
(* Proofs about StockLedger for any branches, cashiers, products,          *)
(* documents, transactions and bounds.  The totals (StockConserved,        *)
(* AggregateInStep) are in StockTotalsProofs.                              *)
(***************************************************************************)
EXTENDS StockLedger, FiniteSetTheorems, WellFoundedInduction, TLAPS

\* A running transaction carries a complete request, and once it has chosen
\* its stock table it has the cashier that table needs.
ReqOK ==
  \A t \in Txs : pc[t] # "idle" =>
    /\ req[t].shop \in Shops
    /\ req[t].lines \in LineSeqs
    /\ line[t] \in 1..Len(req[t].lines)
    /\ pc[t] = "claim" => req[t].doc \in Docs
    /\ req[t].doc # None /\ req[t].kind \notin {"sale", "purchase"} => doc[req[t].doc].status # "none"
    /\ pc[t] \in {"row", "aggregate"} => flag = "BRANCH" \/ req[t].cashier \in Cashiers

\* A document that exists names its branch and its lines.
DocOK ==
  \A d \in Docs : doc[d].status # "none" => doc[d].shop \in Shops /\ doc[d].lines \in LineSeqs

\* A buffered change belongs to the holder of the row's lock, who also holds
\* the flag; a row locked in BRANCH mode is a branch's.
RowLockOK ==
  /\ \A t \in Txs, r \in Rows : pend[t][r] # 0 => rowLock[r] = t
  /\ \A r \in Rows : rowLock[r] # None => rowLock[r] \in share /\ (flag = "BRANCH" => r[1] \in Shops)

IInv == TypeOK /\ ReqOK /\ DocOK /\ FlagLockHeld /\ RowLockOK /\ NoOversell

\* A nonempty family of subsets of a finite set has a smallest member.
LEMMA SmallestSubset ==
  ASSUME NEW S, IsFiniteSet(S), NEW F \in SUBSET SUBSET S, F # {}
  PROVE  \E T \in F : \A U \in F : U \subseteq T => U = T
  <1>1. IsWellFoundedOn(StrictSubsetOrdering(S), FiniteSubsetsOf(S))
    BY FS_StrictSubsetOrderingWellFounded
  <1>2. F \subseteq FiniteSubsetsOf(S)
    BY FS_FiniteSubsetsOfFinite
  <1>3. \E T \in F : \A U \in F : ~ (<<U, T>> \in StrictSubsetOrdering(S))
    BY <1>1, <1>2, WFMin
  <1> QED BY <1>3 DEF StrictSubsetOrdering

\* A document line list is a sequence whose elements are lines.
LEMMA LineSeqsFacts ==
  ASSUME NEW lines \in LineSeqs
  PROVE  /\ lines \in Seq(Line)
         /\ Len(lines) \in Nat \ {0}
         /\ \A n \in 1..Len(lines) : lines[n] \in Line
  <1>1. PICK n \in 1..MaxLines : lines \in [1..n -> Line]
    BY DEF LineSeqs
  <1>2. n \in Nat \ {0}
    BY <1>1, ConstantsAssumption
  <1>3. lines \in Seq(Line) /\ Len(lines) = n
    BY <1>1, <1>2
  <1> QED BY <1>1, <1>2, <1>3

LEMMA OneLine ==
  ASSUME NEW l \in Line
  PROVE  <<l>> \in LineSeqs /\ Len(<<l>>) = 1
  <1>1. <<l>> \in [1..1 -> Line]
    OBVIOUS
  <1>2. 1 \in 1..MaxLines
    BY ConstantsAssumption
  <1> QED BY <1>1, <1>2 DEF LineSeqs

\* The row, the product and the signed quantity of the line being applied.
LEMMA LineFacts ==
  ASSUME TypeOK, ReqOK, NEW t \in Txs, pc[t] # "idle"
  PROVE  /\ Product(t) \in Products
         /\ Delta(t) \in Int
         /\ pc[t] \in {"row", "aggregate"} => Row(t) \in Rows
  <1>1. req[t].lines \in LineSeqs /\ line[t] \in 1..Len(req[t].lines) /\ req[t].shop \in Shops
    BY DEF ReqOK
  <1>2. req[t].lines[line[t]] \in Line
    BY <1>1, LineSeqsFacts
  <1>3. Product(t) \in Products
    BY <1>2 DEF Product, Line
  <1>4. req[t].lines[line[t]].qty \in Int
    BY <1>2, ConstantsAssumption DEF Line
  <1>5. Delta(t) \in Int
    BY <1>4 DEF Delta
  <1>6. pc[t] \in {"row", "aggregate"} => Row(t) \in Rows
    BY <1>1, <1>3 DEF Row, Rows, ReqOK
  <1> QED BY <1>3, <1>5, <1>6

-----------------------------------------------------------------------------
LEMMA EmptyRequest ==
  /\ NoReq \in ReqType
  /\ NoPend \in [Rows -> Int] /\ \A r \in Rows : NoPend[r] = 0
  /\ NoAgg \in [Products -> Int]
  /\ NoDoc \in DocType
  BY DEF NoReq, NoPend, NoAgg, NoDoc, ReqType, DocType

\* The program starts in a state of the invariant.
LEMMA InitIInv == Init => IInv
  <1> SUFFICES ASSUME Init PROVE IInv
    OBVIOUS
  <1>1. InitialStock * Cardinality(Cashiers \ NewCashiers) \in Int
    <2>1. IsFiniteSet(Cashiers \ NewCashiers)
      BY FS_Subset, ConstantsAssumption
    <2>2. Cardinality(Cashiers \ NewCashiers) \in Nat
      BY <2>1, FS_CardinalityType
    <2> QED BY <2>2, ConstantsAssumption
  <1>2. qty \in [Rows -> Nat]
    BY ConstantsAssumption DEF Init
  <1>3. ReqOK /\ DocOK /\ FlagLockHeld /\ RowLockOK /\ NoOversell
    BY <1>2, EmptyRequest, ConstantsAssumption DEF Init, ReqOK, DocOK, FlagLockHeld, RowLockOK, NoOversell, NoDoc
  <1>4. TypeOK
    <2> DEFINE k == InitialStock * Cardinality(Cashiers \ NewCashiers)
    <2>1. stock \in [Products -> Int]
      <3>1. k \in Int /\ stock = [p \in Products |-> k]
        BY <1>1 DEF Init
      <3> HIDE DEF k
      <3> QED BY <3>1
    <2>2. rows \subseteq Rows
      BY DEF Init, Rows
    <2>3. moves \in [Txs -> Seq(Move)]
      BY DEF Init
    <2>6. late \in BOOLEAN
      BY DEF Init
    <2>7. account \in [Cashiers -> Modes \cup {"none", "pending", "checked", "active", "suspended"}]
      BY DEF Init, Modes
    <2>4. /\ flag \in Modes
          /\ share \subseteq Txs /\ script \in {None, "cutover", "rollback"}
          /\ early \subseteq Txs
          /\ catalog \in [Shops \X Products -> {"none", "assigned", "unassigned"}]
          /\ doc \in [Docs -> DocType]
          /\ adjusted \in [Shops \X Products -> Int]
      BY EmptyRequest DEF Init, Modes
    <2>5. /\ rowLock \in [Rows -> Txs \cup {None}]
          /\ prodLock \in [Products -> Txs \cup {None}]
          /\ docLock \in [Docs -> Txs \cup {None}]
          /\ pc \in [Txs -> {"idle", "claim", "adjust", "row", "aggregate", "commit"}]
          /\ req \in [Txs -> ReqType]
          /\ line \in [Txs -> Nat]
          /\ pend \in [Txs -> [Rows -> Int]] /\ agg \in [Txs -> [Products -> Int]]
      BY EmptyRequest DEF Init
    <2> QED BY <1>2, <2>1, <2>2, <2>3, <2>4, <2>5, <2>6, <2>7 DEF TypeOK
  <1> QED BY <1>3, <1>4 DEF IInv

\* Ending a transaction without its writes.
LEMMA RollbackIInv ==
  ASSUME IInv, NEW t \in Txs, Rollback(t)
  PROVE  IInv'
  <1> USE DEF IInv
  <1>1. TypeOK'
    BY EmptyRequest DEF TypeOK, Rollback, db
  <1>2. ReqOK'
    BY DEF TypeOK, ReqOK, Rollback, db
  <1>3. DocOK' /\ FlagLockHeld'
    BY DEF TypeOK, DocOK, FlagLockHeld, Rollback, db
  <1>4. RowLockOK'
    BY EmptyRequest DEF TypeOK, RowLockOK, Rollback, db
  <1>5. NoOversell'
    BY EmptyRequest DEF TypeOK, NoOversell, Rollback, db
  <1> QED BY <1>1, <1>2, <1>3, <1>4, <1>5

\* Beginning a transaction with a well-formed request.
LEMMA BeginIInv ==
  ASSUME IInv, NEW t \in Txs, NEW r \in ReqType, NEW first \in {"claim", "adjust"},
         r.shop \in Shops, r.lines \in LineSeqs, first = "claim" => r.doc \in Docs,
         r.doc # None /\ r.kind \notin {"sale", "purchase"} => doc[r.doc].status # "none",
         Begin(t, r, first)
  PROVE  IInv'
  <1> USE DEF IInv
  <1>0. 1 \in 1..Len(r.lines)
    BY LineSeqsFacts
  <1>1. TypeOK'
    BY DEF TypeOK, Begin, db, locks
  <1>2. ReqOK'
    BY <1>0 DEF TypeOK, ReqOK, Begin, db
  <1>3. DocOK' /\ FlagLockHeld' /\ RowLockOK' /\ NoOversell'
    BY DEF TypeOK, DocOK, FlagLockHeld, RowLockOK, NoOversell, Begin, db, locks
  <1> QED BY <1>1, <1>2, <1>3

-----------------------------------------------------------------------------
(* One lemma per action.                                                   *)

LEMMA RequestIInv ==
  ASSUME IInv, NEW t \in Txs, Request(t)
  PROVE  IInv'
  <1> USE DEF IInv
  <1>1. ASSUME NEW b \in Bills, NEW c \in Cashiers, NEW lines \in LineSeqs, BeginSale(t, b, c, lines)
        PROVE  IInv'
    <2> DEFINE r == [kind |-> "sale", shop |-> CashierShop[c], cashier |-> c, doc |-> b, lines |-> lines]
    <2>1. r \in ReqType /\ r.shop \in Shops /\ r.lines \in LineSeqs /\ r.kind = "sale"
      BY ConstantsAssumption DEF ReqType, Docs
    <2>2. Begin(t, r, "adjust")
      BY <1>1 DEF BeginSale
    <2> HIDE DEF r
    <2> QED BY <2>1, <2>2, BeginIInv
  <1>2. ASSUME NEW b \in Bills, NEW merged \in LineSeqs, BeginCancel(t, b, merged)
        PROVE  IInv'
    <2> DEFINE r == [kind |-> "cancel", shop |-> doc[b].shop, cashier |-> doc[b].cashier, doc |-> b, lines |-> merged]
    <2>0. b \in Docs /\ doc[b].status = "PAID" /\ doc[b] \in DocType
      BY <1>2 DEF BeginCancel, TypeOK, Docs
    <2>1. r \in ReqType /\ r.shop \in Shops /\ r.lines \in LineSeqs /\ r.doc = b
      BY <2>0 DEF ReqType, DocType, DocOK
    <2>2. Begin(t, r, "claim")
      BY <1>2 DEF BeginCancel
    <2> HIDE DEF r
    <2> QED BY <2>0, <2>1, <2>2, BeginIInv
  <1>3. ASSUME NEW d \in Purchases, NEW s \in Shops, NEW c \in Cashiers \cup {None}, NEW lines \in LineSeqs,
               BeginPurchase(t, d, s, c, lines)
        PROVE  IInv'
    <2> DEFINE r == [kind |-> "purchase", shop |-> s, cashier |-> c, doc |-> d, lines |-> lines]
    <2>1. r \in ReqType /\ r.shop \in Shops /\ r.lines \in LineSeqs /\ r.kind = "purchase"
      BY DEF ReqType, Docs
    <2>2. Begin(t, r, "adjust")
      BY <1>3 DEF BeginPurchase
    <2> HIDE DEF r
    <2> QED BY <2>1, <2>2, BeginIInv
  <1>4. ASSUME NEW d \in Purchases, NEW c \in Cashiers \cup {None}, BeginReverse(t, d, c)
        PROVE  IInv'
    <2> DEFINE r == [kind |-> "reverse", shop |-> doc[d].shop, cashier |-> c, doc |-> d, lines |-> doc[d].lines]
    <2>0. d \in Docs /\ doc[d].status = "RECEIVED" /\ doc[d] \in DocType
      BY <1>4 DEF BeginReverse, TypeOK, Docs
    <2>1. r \in ReqType /\ r.shop \in Shops /\ r.lines \in LineSeqs /\ r.doc = d
      BY <2>0 DEF ReqType, DocType, DocOK
    <2>2. Begin(t, r, "claim")
      BY <1>4 DEF BeginReverse
    <2> HIDE DEF r
    <2> QED BY <2>0, <2>1, <2>2, BeginIInv
  <1>5. ASSUME NEW s \in Shops, NEW c \in Cashiers \cup {None}, NEW l \in Line, NEW k \in {"add", "remove"},
               BeginAdjustment(t, s, c, l, k)
        PROVE  IInv'
    <2> DEFINE r == [kind |-> k, shop |-> s, cashier |-> c, doc |-> None, lines |-> <<l>>]
    <2>1. r \in ReqType /\ r.shop \in Shops /\ r.lines \in LineSeqs /\ r.doc = None
      BY OneLine DEF ReqType
    <2>2. Begin(t, r, "adjust")
      BY <1>5 DEF BeginAdjustment
    <2> HIDE DEF r
    <2> QED BY <2>1, <2>2, BeginIInv
  <1> QED BY <1>1, <1>2, <1>3, <1>4, <1>5 DEF Request

LEMMA ClaimDocIInv ==
  ASSUME IInv, NEW t \in Txs, ClaimDoc(t)
  PROVE  IInv'
  <1> USE DEF IInv
  <1>1. CASE Claimable(t) /\ docLock' = [docLock EXCEPT ![req[t].doc] = t]
    <2>1. /\ pc' = [pc EXCEPT ![t] = "adjust"]
          /\ UNCHANGED <<flag, qty, rows, stock, catalog, doc, late, share, script, rowLock, prodLock,
                         req, line, pend, agg, moves, early, account, adjusted>>
      BY <1>1 DEF ClaimDoc, db, Rollback
    <2>2. pc[t] = "claim" /\ req[t].doc \in Docs
      BY DEF ClaimDoc, ReqOK
    <2>3. TypeOK'
      BY <1>1, <2>1, <2>2 DEF TypeOK
    <2>4. ReqOK' /\ DocOK' /\ FlagLockHeld' /\ RowLockOK' /\ NoOversell'
      BY <2>1, <2>2 DEF TypeOK, ReqOK, DocOK, FlagLockHeld, RowLockOK, NoOversell
    <2> QED BY <2>3, <2>4
  <1>2. CASE Rollback(t)
    BY <1>2, RollbackIInv
  <1> QED BY <1>1, <1>2 DEF ClaimDoc

LEMMA AdjustStockIInv ==
  ASSUME IInv, NEW t \in Txs, AdjustStock(t)
  PROVE  IInv'
  <1> USE DEF IInv
  <1>1. CASE /\ flag = "CASHIER" => req[t].cashier # None
             /\ share' = share \cup {t}
             /\ pc' = [pc EXCEPT ![t] = "row"]
             /\ UNCHANGED <<db, script, rowLock, prodLock, docLock, req, line, pend, agg, moves, early, account, adjusted>>
    <2>1. TypeOK'
      BY <1>1 DEF TypeOK, db
    <2>2. req[t].cashier \in Cashiers \cup {None}
      BY DEF TypeOK, ReqType
    <2>3. ReqOK'
      BY <1>1, <2>2 DEF AdjustStock, TypeOK, ReqOK, Modes, db
    <2>4. DocOK' /\ FlagLockHeld' /\ RowLockOK' /\ NoOversell'
      BY <1>1 DEF AdjustStock, TypeOK, DocOK, FlagLockHeld, RowLockOK, NoOversell, db
    <2> QED BY <2>1, <2>3, <2>4
  <1>2. CASE Rollback(t)
    BY <1>2, RollbackIInv
  <1> QED BY <1>1, <1>2 DEF AdjustStock

\* The guard of the conditional UPDATE and the row lock keep a row that is
\* about to change non-negative.
LEMMA UpdateRowIInv ==
  ASSUME IInv, NEW t \in Txs, UpdateRow(t)
  PROVE  IInv'
  <1> USE DEF IInv
  <1>1. CASE /\ Enough(t)
             /\ rowLock' = [rowLock EXCEPT ![Row(t)] = t]
             /\ pend' = [pend EXCEPT ![t][Row(t)] = @ + Delta(t)]
             /\ pc' = [pc EXCEPT ![t] = "aggregate"]
             /\ UNCHANGED <<db, share, script, prodLock, docLock, req, line, agg, moves, early, account, adjusted>>
    <2>1. /\ pc[t] = "row" /\ rowLock[Row(t)] \in {None, t}
          /\ Row(t) \in Rows /\ Delta(t) \in Int
      BY LineFacts DEF UpdateRow, Free
    <2>2. t \in share /\ (flag = "BRANCH" => Row(t)[1] \in Shops)
      BY <2>1 DEF FlagLockHeld, Row, ReqOK
    <2> DEFINE row == Row(t)  d == Delta(t)
    <2>3. Enough(t) => d > 0 \/ qty[row] + pend[t][row] >= -d
      BY DEF Enough
    <2> HIDE DEF row, d
    <2>4. /\ rowLock' = [rowLock EXCEPT ![row] = t]
          /\ pend' = [pend EXCEPT ![t] = [pend[t] EXCEPT ![row] = pend[t][row] + d]]
          /\ row \in Rows /\ d \in Int /\ rowLock[row] \in {None, t}
          /\ flag = "BRANCH" => row[1] \in Shops
      BY <1>1, <2>1, <2>2 DEF row, d
    <2>5. pend[t] \in [Rows -> Int] /\ pend \in [Txs -> [Rows -> Int]]
      BY DEF TypeOK
    <2>6. pend' \in [Txs -> [Rows -> Int]] /\ rowLock' \in [Rows -> Txs \cup {None}]
      BY <2>4, <2>5 DEF TypeOK
    <2>7. TypeOK'
      BY <1>1, <2>6 DEF TypeOK, db
    <2>8. ReqOK' /\ DocOK' /\ FlagLockHeld'
      BY <1>1, <2>1 DEF TypeOK, ReqOK, DocOK, FlagLockHeld, db
    <2>9. \A u \in Txs, r \in Rows : pend'[u][r] = IF u = t /\ r = row THEN pend[t][row] + d ELSE pend[u][r]
      BY <2>4, <2>5
    <2>10. RowLockOK'
      <3>1. None \notin Txs
        BY ConstantsAssumption
      <3>2. \A u \in Txs, r \in Rows : pend'[u][r] # 0 => rowLock'[r] = u
        BY <2>4, <2>9, <3>1 DEF RowLockOK, TypeOK
      <3>3. \A r \in Rows : rowLock'[r] # None => rowLock'[r] \in share' /\ (flag' = "BRANCH" => r[1] \in Shops)
        BY <1>1, <2>2, <2>4 DEF RowLockOK, TypeOK, db
      <3> QED BY <3>2, <3>3 DEF RowLockOK
    <2>11. NoOversell'
      <3>1. qty' = qty /\ \A r \in Rows : qty[r] \in Int /\ \A u \in Txs : pend[u][r] \in Int
        BY <1>1 DEF TypeOK, db
      <3>2. qty[row] + (pend[t][row] + d) >= 0
        BY <1>1, <2>3, <2>4, <3>1 DEF NoOversell
      <3> QED BY <2>9, <3>1, <3>2 DEF NoOversell
    <2> QED BY <2>7, <2>8, <2>10, <2>11
  <1>2. CASE Rollback(t)
    BY <1>2, RollbackIInv
  <1> QED BY <1>1, <1>2 DEF UpdateRow

LEMMA UpdateAggregateIInv ==
  ASSUME IInv, NEW t \in Txs, UpdateAggregate(t)
  PROVE  IInv'
  <1> USE DEF IInv
  <1> DEFINE row == Row(t)  d == Delta(t)  p == Product(t)  new == qty[row] + pend[t][row]
             move == [row |-> row, previousStock |-> new - d, newStock |-> new]
  <1>1. pc[t] = "aggregate" /\ row \in Rows /\ d \in Int /\ p \in Products
    BY LineFacts DEF UpdateAggregate
  <1>2. new \in Int
    BY <1>1 DEF TypeOK
  <1>3. move \in Move
    BY <1>1, <1>2 DEF Move
  <1>4. /\ prodLock' = [prodLock EXCEPT ![p] = t]
        /\ agg' = [agg EXCEPT ![t] = [agg[t] EXCEPT ![p] = agg[t][p] + d]]
        /\ moves' = [moves EXCEPT ![t] = Append(moves[t], move)]
        /\ UNCHANGED <<flag, qty, rows, stock, catalog, doc, late, share, script, rowLock, docLock, req, pend, early, account, adjusted>>
    BY DEF UpdateAggregate, db
  <1>5. \/ line[t] < Len(req[t].lines) /\ line' = [line EXCEPT ![t] = line[t] + 1] /\ pc' = [pc EXCEPT ![t] = "adjust"]
        \/ pc' = [pc EXCEPT ![t] = "commit"] /\ line' = line
    BY DEF UpdateAggregate
  <1> HIDE DEF row, d, p, new, move
  <1>6. agg' \in [Txs -> [Products -> Int]]
    BY <1>1, <1>4 DEF TypeOK
  <1>7. moves' \in [Txs -> Seq(Move)]
    BY <1>3, <1>4 DEF TypeOK
  <1>12. /\ line' \in [Txs -> Nat]
         /\ pc' \in [Txs -> {"idle", "claim", "adjust", "row", "aggregate", "commit"}]
    <2>1. line \in [Txs -> Nat] /\ line[t] + 1 \in Nat
      BY DEF TypeOK
    <2>2. line' \in [Txs -> Nat]
      BY <1>5, <2>1
    <2> QED BY <1>5, <2>2 DEF TypeOK
  <1>13. prodLock' \in [Products -> Txs \cup {None}]
    BY <1>1, <1>4 DEF TypeOK
  <1>8. TypeOK'
    BY <1>4, <1>6, <1>7, <1>12, <1>13 DEF TypeOK
  <1>9. ReqOK'
    <2>1. Len(req[t].lines) \in Nat
      BY <1>1, LineSeqsFacts DEF ReqOK
    <2> QED BY <1>1, <1>4, <1>5, <2>1, SMTT(30) DEF TypeOK, ReqOK
  <1>10. FlagLockHeld'
    BY <1>1, <1>4, <1>5 DEF TypeOK, FlagLockHeld
  <1>11. DocOK' /\ RowLockOK' /\ NoOversell'
    BY <1>4 DEF DocOK, RowLockOK, NoOversell
  <1> QED BY <1>8, <1>9, <1>10, <1>11

\* Two transactions never have a change of one row buffered, so what one
\* commits cannot invalidate what the other has tested.
LEMMA CommitIInv ==
  ASSUME IInv, NEW t \in Txs, Commit(t)
  PROVE  IInv'
  <1> USE DEF IInv
  <1>1. pc[t] = "commit" /\ req[t].shop \in Shops /\ req[t].lines \in LineSeqs /\ req[t] \in ReqType
    BY DEF Commit, ReqOK, TypeOK
  <1>2. \A r \in Rows : qty[r] \in Int /\ \A u \in Txs : pend[u][r] \in Int
    BY DEF TypeOK
  <1>3. /\ qty' = [r \in Rows |-> qty[r] + pend[t][r]]
        /\ \A u \in Txs, r \in Rows : pend'[u][r] = IF u = t THEN 0 ELSE pend[u][r]
    BY EmptyRequest DEF Commit, TypeOK
  <1>4. doc' \in [Docs -> DocType] /\ DocOK' /\ \A d \in Docs : doc[d].status # "none" => doc'[d].status # "none"
    <2>1. CASE req[t].doc = None
      BY <2>1 DEF Commit, TypeOK, DocOK
    <2>2. CASE req[t].doc # None
      <3> DEFINE new == CommittedDoc(t)
      <3>1. req[t].doc \in Docs /\ doc[req[t].doc] \in DocType
        BY <1>1, <2>2 DEF ReqType, TypeOK
      <3>2. new \in DocType /\ new.shop \in Shops /\ new.lines \in LineSeqs /\ new.status # "none"
        <4>1. CASE req[t].kind \in {"sale", "purchase"}
          BY <1>1, <4>1 DEF CommittedDoc, DocType, ReqType
        <4>2. CASE req[t].kind \notin {"sale", "purchase"}
          <5>1. doc[req[t].doc].lines \in LineSeqs /\ doc[req[t].doc].cashier \in Cashiers \cup {None}
            BY <1>1, <2>2, <3>1, <4>2 DEF ReqOK, DocOK, DocType
          <5> QED BY <1>1, <4>2, <5>1 DEF CommittedDoc, DocType, ReqType
        <4> QED BY <4>1, <4>2
      <3>3. doc' = [doc EXCEPT ![req[t].doc] = new]
        BY <2>2 DEF Commit
      <3> HIDE DEF new
      <3> QED BY <3>1, <3>2, <3>3 DEF TypeOK, DocOK
    <2> QED BY <2>1, <2>2
  <1>5. TypeOK'
    <2>1. Product(t) \in Products /\ Delta(t) \in Int
      BY <1>1, LineFacts
    <2>2. adjusted' \in [Shops \X Products -> Int]
      BY <1>1, <2>1 DEF Commit, TypeOK
    <2>3. qty' \in [Rows -> Int] /\ rows' \subseteq Rows
      BY <1>2, <1>3 DEF Commit, TypeOK
    <2>4. stock' \in [Products -> Int]
      BY DEF Commit, TypeOK
    <2>5. late' \in BOOLEAN
      BY DEF Commit, TypeOK
    <2>6. /\ pc' \in [Txs -> {"idle", "claim", "adjust", "row", "aggregate", "commit"}]
          /\ req' \in [Txs -> ReqType] /\ line' \in [Txs -> Nat]
          /\ pend' \in [Txs -> [Rows -> Int]] /\ agg' \in [Txs -> [Products -> Int]]
          /\ moves' \in [Txs -> Seq(Move)]
      BY EmptyRequest DEF Commit, TypeOK
    <2>7. /\ share' \subseteq Txs
          /\ rowLock' \in [Rows -> Txs \cup {None}]
          /\ prodLock' \in [Products -> Txs \cup {None}]
          /\ docLock' \in [Docs -> Txs \cup {None}]
      BY DEF Commit, TypeOK
    <2>8. UNCHANGED <<flag, catalog, script, early, account>>
      BY DEF Commit
    <2> QED BY <1>4, <2>2, <2>3, <2>4, <2>5, <2>6, <2>7, <2>8 DEF TypeOK
  <1>6. ReqOK'
    <2> SUFFICES ASSUME NEW u \in Txs, pc'[u] # "idle" PROVE ReqOK!(u)!2'
      BY DEF ReqOK
    <2>1. u # t /\ pc'[u] = pc[u] /\ req'[u] = req[u] /\ line'[u] = line[u] /\ flag' = flag
      BY DEF Commit, TypeOK
    <2>2. req[u].doc \in Docs \cup {None}
      BY DEF TypeOK, ReqType
    <2> QED BY <1>4, <2>1, <2>2 DEF ReqOK
  <1>7. FlagLockHeld'
    BY DEF Commit, TypeOK, FlagLockHeld
  <1>8. RowLockOK'
    BY <1>3, SMTT(30) DEF Commit, TypeOK, RowLockOK
  <1>9. NoOversell'
    <2> SUFFICES ASSUME NEW r \in Rows PROVE qty'[r] >= 0 /\ \A u \in Txs : qty'[r] + pend'[u][r] >= 0
      BY DEF NoOversell
    <2>1. qty'[r] = qty[r] + pend[t][r] /\ qty'[r] >= 0
      BY <1>2, <1>3 DEF NoOversell
    <2>2. ASSUME NEW u \in Txs, u # t PROVE pend[t][r] = 0 \/ pend[u][r] = 0
      BY <2>2 DEF RowLockOK
    <2> QED BY <1>2, <1>3, <2>1, <2>2 DEF NoOversell
  <1> QED BY <1>4, <1>5, <1>6, <1>7, <1>8, <1>9

\* While a script holds the flag no row is locked and nothing is buffered.
LEMMA ScriptExcludes ==
  ASSUME IInv, script # None
  PROVE  /\ share = {}
         /\ \A r \in Rows : rowLock[r] = None
         /\ \A t \in Txs, r \in Rows : pend[t][r] = 0
         /\ \A t \in Txs : pc[t] \notin {"row", "aggregate", "commit"}
  BY ConstantsAssumption DEF IInv, FlagLockHeld, RowLockOK

LEMMA CutoverIInv ==
  ASSUME IInv, Cutover
  PROVE  IInv'
  <1> USE DEF IInv
  <1>0. script # None /\ script' = None
        /\ UNCHANGED <<share, rowLock, prodLock, docLock, pc, req, line, pend, agg, moves, account, adjusted>>
    BY ConstantsAssumption DEF Cutover, txs, RequestKinds
  <1>1. CASE UNCHANGED <<db, early>>
    BY <1>0, <1>1 DEF TypeOK, ReqOK, DocOK, FlagLockHeld, RowLockOK, NoOversell, db
  <1>2. CASE /\ BackfillFits
             /\ qty' = [r \in Rows |-> IF r[1] \in Shops THEN CashierSum(r[1], r[2]) ELSE qty[r]]
             /\ rows' = rows \cup {x \in Shops \X Products : catalog[x] # "none"}
                             \cup {<<CashierShop[r[1]], r[2]>> : r \in rows \cap (Cashiers \X Products)}
             /\ flag' = "BRANCH"
             /\ late' = FALSE
             /\ early' = {t \in Txs : pc[t] # "idle"}
             /\ UNCHANGED <<stock, catalog, doc>>
    <2>1. \A s \in Shops, p \in Products : CashierSum(s, p) \in Nat
      BY <1>2 DEF BackfillFits
    <2>2. \A r \in Rows : qty[r] \in Nat
      BY DEF TypeOK, NoOversell
    <2>3. qty' \in [Rows -> Nat]
      BY <1>2, <2>1, <2>2 DEF Rows
    <2>4. rows' \subseteq Rows
      BY <1>2, ConstantsAssumption DEF TypeOK, Rows
    <2>5. late' \in BOOLEAN
      BY <1>2
    <2>6. flag' \in Modes /\ early' \subseteq Txs /\ script' = None
      BY <1>0, <1>2 DEF Modes
    <2>7. TypeOK'
      BY <1>0, <1>2, <2>3, <2>4, <2>5, <2>6 DEF TypeOK
    <2>8. ReqOK' /\ DocOK' /\ FlagLockHeld' /\ RowLockOK'
      BY <1>0, <1>2, ScriptExcludes DEF ReqOK, DocOK, FlagLockHeld, RowLockOK
    <2>9. NoOversell'
      BY <1>0, <2>3, ScriptExcludes DEF NoOversell
    <2> QED BY <2>7, <2>8, <2>9
  <1> QED BY <1>1, <1>2 DEF Cutover

LEMMA CutoverRollbackIInv ==
  ASSUME IInv, CutoverRollback
  PROVE  IInv'
  <1> USE DEF IInv
  <1>0. script # None /\ script' = None
        /\ UNCHANGED <<share, rowLock, prodLock, docLock, pc, req, line, pend, agg, moves, account, adjusted>>
    BY ConstantsAssumption DEF CutoverRollback, txs, RequestKinds
  <1>1. CASE UNCHANGED <<db, early>>
    BY <1>0, <1>1 DEF TypeOK, ReqOK, DocOK, FlagLockHeld, RowLockOK, NoOversell, db
  <1>2. CASE /\ qty' = [r \in Rows |-> IF r[1] \in Shops THEN 0 ELSE qty[r]]
             /\ rows' = rows \ (Shops \X Products)
             /\ flag' = "CASHIER"
             /\ UNCHANGED <<stock, catalog, doc, late, early>>
    <2>1. \A r \in Rows : qty[r] \in Nat
      BY DEF TypeOK, NoOversell
    <2>2. qty' \in [Rows -> Nat]
      BY <1>2, <2>1
    <2>3. TypeOK'
      BY <1>0, <1>2, <2>2 DEF TypeOK, Modes
    <2>4. ReqOK' /\ DocOK' /\ FlagLockHeld' /\ RowLockOK'
      BY <1>0, <1>2, ScriptExcludes DEF ReqOK, DocOK, FlagLockHeld, RowLockOK
    <2>5. NoOversell'
      BY <1>0, <2>2, ScriptExcludes DEF NoOversell
    <2> QED BY <2>3, <2>4, <2>5
  <1> QED BY <1>1, <1>2 DEF CutoverRollback

LEMMA OtherIInv ==
  ASSUME IInv,
         \/ \E s \in Shops, p \in Products, to \in {"assigned", "unassigned"} : SetBranchAssignment(s, p, to)
         \/ \E name \in {"cutover", "rollback"} : ScriptLock(name)
         \/ \E c \in Cashiers : SignUp(c) \/ Approval(c) \/ SuspendCashier(c) \/ ActivateCashier(c)
  PROVE  IInv'
  <1> USE DEF IInv
  <1>1. ASSUME NEW s \in Shops, NEW p \in Products, NEW to \in {"assigned", "unassigned"}, SetBranchAssignment(s, p, to)
        PROVE  IInv'
    <2>1. TypeOK'
      BY <1>1 DEF SetBranchAssignment, TypeOK, locks, txs
    <2>2. ReqOK' /\ DocOK' /\ FlagLockHeld' /\ RowLockOK' /\ NoOversell'
      BY <1>1 DEF SetBranchAssignment, ReqOK, DocOK, FlagLockHeld, RowLockOK, NoOversell, locks, txs
    <2> QED BY <2>1, <2>2
  <1>2. ASSUME NEW name \in {"cutover", "rollback"}, ScriptLock(name)
        PROVE  IInv'
    BY <1>2 DEF ScriptLock, TypeOK, ReqOK, DocOK, FlagLockHeld, RowLockOK, NoOversell, db, txs
  <1>3. ASSUME NEW c \in Cashiers, NEW from, NEW to, SetAccount(c, from, to),
               to \in Modes \cup {"none", "pending", "checked", "active", "suspended"}
        PROVE  IInv'
    <2>1. TypeOK'
      BY <1>3 DEF SetAccount, TypeOK, db, locks, txs
    <2>2. ReqOK' /\ DocOK' /\ FlagLockHeld' /\ RowLockOK' /\ NoOversell'
      BY <1>3 DEF SetAccount, ReqOK, DocOK, FlagLockHeld, RowLockOK, NoOversell, db, locks, txs
    <2> QED BY <2>1, <2>2
  <1>4. ASSUME NEW c \in Cashiers, InitializeCashierInventory(c)
        PROVE  IInv'
    <2>1. rows' \subseteq Rows
      <3>1. \A q \in Products : <<c, q>> \in Rows
        BY DEF Rows
      <3>2. rows \subseteq Rows
        BY DEF TypeOK
      <3> QED BY <1>4, <3>1, <3>2 DEF InitializeCashierInventory
    <2>2. TypeOK'
      BY <1>4, <2>1 DEF InitializeCashierInventory, TypeOK, locks, txs
    <2>3. ReqOK' /\ DocOK' /\ FlagLockHeld' /\ RowLockOK' /\ NoOversell'
      BY <1>4 DEF InitializeCashierInventory, ReqOK, DocOK, FlagLockHeld, RowLockOK, NoOversell, locks, txs
    <2> QED BY <2>2, <2>3
  <1>5. flag \in Modes
    BY DEF TypeOK
  <1>6. ASSUME NEW c \in Cashiers,
               \/ SignUp(c) \/ AssertNoStrandedCashierStock(c) \/ ReadModeForApproval(c)
               \/ ApprovalFails(c) \/ SuspendCashier(c) \/ ActivateCashier(c)
        PROVE  IInv'
    BY <1>3, <1>5, <1>6, Zenon
       DEF SignUp, AssertNoStrandedCashierStock, ReadModeForApproval, ApprovalFails, SuspendCashier, ActivateCashier
  <1> QED BY <1>1, <1>2, <1>4, <1>6, Zenon DEF Approval

-----------------------------------------------------------------------------
LEMMA NextIInv ==
  ASSUME IInv, [Next]_vars
  PROVE  IInv'
  <1>1. ASSUME NEW t \in Txs, Step(t) PROVE IInv'
    BY <1>1, ClaimDocIInv, AdjustStockIInv, UpdateRowIInv, UpdateAggregateIInv, CommitIInv DEF Step
  <1>2. ASSUME NEW t \in Txs, Fail(t) \/ DeadlockVictim(t) PROVE IInv'
    BY <1>2, RollbackIInv DEF Fail, DeadlockVictim
  <1>3. CASE Environment
    BY <1>3, CutoverIInv, CutoverRollbackIInv, OtherIInv DEF Environment
  <1>4. CASE UNCHANGED vars
    BY <1>4 DEF IInv, TypeOK, ReqOK, DocOK, FlagLockHeld, RowLockOK, NoOversell, vars
  <1> QED BY <1>1, <1>2, <1>3, <1>4, RequestIInv DEF Next

\* The inductive invariant holds in every reachable state.
THEOREM Invariance == Spec => []IInv
  BY InitIInv, NextIInv, PTL DEF Spec

\* Every table, lock and transaction buffer keeps its type.
THEOREM TypeCorrect == Spec => []TypeOK
  <1>1. IInv => TypeOK
    BY DEF IInv
  <1> QED BY <1>1, Invariance, PTL

\* No stock row is ever sold below zero, whatever transactions race for it.
THEOREM NeverOversold == Spec => []NoOversell
  <1>1. IInv => NoOversell
    BY DEF IInv
  <1> QED BY <1>1, Invariance, PTL

\* A transaction that has chosen its stock table keeps the cutover out.
THEOREM FlagLock == Spec => []FlagLockHeld
  <1>1. IInv => FlagLockHeld
    BY DEF IInv
  <1> QED BY <1>1, Invariance, PTL

\* Once stock is kept per branch, no cashier row's quantity changes.
THEOREM CashierStockStaysFrozen == Spec => CashierStockFrozen
  <1> DEFINE Frozen == flag = "BRANCH" /\ flag' = "BRANCH" => \A r \in Cashiers \X Products : qty'[r] = qty[r]
  <1>1. ASSUME IInv, [Next]_vars PROVE Frozen
    <2> SUFFICES ASSUME flag = "BRANCH", flag' = "BRANCH", NEW r \in Cashiers \X Products
                 PROVE  qty'[r] = qty[r]
      OBVIOUS
    <2>0. r \in Rows /\ r[1] \notin Shops
      BY ConstantsAssumption DEF Rows
    <2>1. ASSUME NEW t \in Txs, Commit(t) PROVE qty'[r] = qty[r]
      <3>1. t # None /\ qty[r] \in Int /\ pend[t][r] \in Int
        BY <1>1, <2>0, ConstantsAssumption DEF IInv, TypeOK
      <3>2. pend[t][r] = 0
        BY <2>0, <3>1, <1>1 DEF IInv, RowLockOK
      <3> QED BY <2>0, <2>1, <3>1, <3>2 DEF Commit
    <2>2. CASE Cutover
      BY <2>0, <2>2, ConstantsAssumption DEF Cutover, db
    <2>3. CASE CutoverRollback
      BY <2>3 DEF CutoverRollback, db
    <2>4. ASSUME NEW t \in Txs, Rollback(t) PROVE qty' = qty
      BY <2>4 DEF Rollback, db
    <2>5. ASSUME NEW t \in Txs, Request(t) PROVE qty' = qty
      BY <2>5 DEF Request, BeginSale, BeginCancel, BeginPurchase, BeginReverse, BeginAdjustment, Begin, db
    <2>6. ASSUME NEW t \in Txs, Step(t) \/ Fail(t) \/ DeadlockVictim(t) PROVE qty'[r] = qty[r]
      BY <2>1, <2>4, <2>6, Zenon DEF Step, Fail, DeadlockVictim, ClaimDoc, AdjustStock, UpdateRow, UpdateAggregate, db
    <2>7. CASE Environment
      BY <2>2, <2>3, <2>7 DEF Environment, SetBranchAssignment, ScriptLock, Approval, InitializeCashierInventory, SignUp,
           AssertNoStrandedCashierStock, ReadModeForApproval, ApprovalFails, SuspendCashier, ActivateCashier, SetAccount, db
    <2>8. CASE UNCHANGED vars
      BY <2>8 DEF vars
    <2> QED BY <1>1, <2>5, <2>6, <2>7, <2>8 DEF Next
  <1>2. [Frozen]_vars <=> (Frozen \/ UNCHANGED vars)
    OBVIOUS
  <1> QED BY <1>1, Invariance, PTL DEF Spec, CashierStockFrozen

-----------------------------------------------------------------------------
(* The order of the locks.                                                 *)

\* How many lines t has locked the stock row, and the product, of; and whose
\* rows it works on.
RowsDone(t) == IF pc[t] \in {"aggregate", "commit"} THEN line[t] ELSE line[t] - 1
SumsDone(t) == IF pc[t] = "commit" THEN line[t] ELSE line[t] - 1
Holder(t) == IF flag = "BRANCH" THEN req[t].shop ELSE req[t].cashier

Running == {t \in Txs : pc[t] # "idle"}

\* A running transaction has locked exactly the rows and the products of the
\* lines it has been through; requests other than purchases and reversals
\* take their lines in product order.
LocksOf(t) ==
  /\ RowsDone(t) > 0 => t \in share
  /\ pc[t] = "claim" => line[t] = 1
  /\ req[t].kind \notin {"purchase", "reverse"} => InDeductionOrder(req[t].lines)
  /\ \A r \in Rows : rowLock[r] = t <=> \E n \in 1..RowsDone(t) : r = <<Holder(t), req[t].lines[n].product>>
  /\ \A p \in Products : prodLock[p] = t <=> \E n \in 1..SumsDone(t) : p = req[t].lines[n].product
  /\ \A d \in Docs : docLock[d] = t => pc[t] # "claim"

NoLocks(t) ==
  /\ \A r \in Rows : rowLock[r] # t
  /\ \A p \in Products : prodLock[p] # t
  /\ \A d \in Docs : docLock[d] # t

LocksOK == \A t \in Txs : IF pc[t] = "idle" THEN NoLocks(t) ELSE LocksOf(t)

\* No product is ever taken out of a branch's catalogue.
CatalogKept == \A x \in Shops \X Products : catalog[x] # "none"

OInv == IInv /\ LocksOK /\ CatalogKept /\ IsFiniteSet(Running)

\* Transaction u keeps its place and its locks.
SameLocks(u) ==
  /\ pc'[u] = pc[u] /\ req'[u] = req[u] /\ line'[u] = line[u]
  /\ u \in share => u \in share'
  /\ \A r \in Rows : rowLock'[r] = u <=> rowLock[r] = u
  /\ \A p \in Products : prodLock'[p] = u <=> prodLock[p] = u
  /\ \A d \in Docs : docLock'[d] = u <=> docLock[d] = u

LEMMA SameLocksOK ==
  ASSUME OInv, NEW u \in Txs, SameLocks(u), flag' = flag
  PROVE  LocksOK!(u)'
  <1>1. RowsDone(u)' = RowsDone(u) /\ SumsDone(u)' = SumsDone(u) /\ Holder(u)' = Holder(u)
    BY DEF SameLocks, RowsDone, SumsDone, Holder
  <1>2. CASE pc[u] = "idle"
    BY <1>2 DEF OInv, LocksOK, NoLocks, SameLocks
  <1>3. CASE pc[u] # "idle"
    <2>1. LocksOf(u)
      BY <1>3 DEF OInv, LocksOK
    <2>2. LocksOf(u)'
      BY <1>1, <2>1 DEF LocksOf, SameLocks
    <2> QED BY <1>3, <2>2 DEF SameLocks
  <1> QED BY <1>2, <1>3

LEMMA LocksStep ==
  ASSUME OInv, IInv', NEW t \in Txs, flag' = flag, catalog' = catalog, \A u \in Txs \ {t} : SameLocks(u),
         IF pc'[t] = "idle" THEN NoLocks(t)' ELSE LocksOf(t)'
  PROVE  OInv'
  <1>1. LocksOK'
    BY SameLocksOK DEF LocksOK
  <1>2. CatalogKept'
    BY DEF OInv, CatalogKept
  <1>3. IsFiniteSet(Running)'
    <2>1. IsFiniteSet(Running \cup {t})
      BY FS_AddElement DEF OInv
    <2>2. Running' \subseteq Running \cup {t}
      BY DEF Running, SameLocks
    <2> QED BY <2>1, <2>2, FS_Subset
  <1> QED BY <1>1, <1>2, <1>3 DEF OInv

\* The end of a transaction, with or without its writes.
LEMMA EndOInv ==
  ASSUME OInv, IInv', NEW t \in Txs, Rollback(t) \/ Commit(t)
  PROVE  OInv'
  <1>1. TypeOK /\ flag' = flag /\ catalog' = catalog
    BY DEF OInv, IInv, Rollback, Commit, db
  <1>2. /\ pc' = [pc EXCEPT ![t] = "idle"] /\ req' = [req EXCEPT ![t] = NoReq] /\ line' = [line EXCEPT ![t] = 1]
        /\ share' = share \ {t}
        /\ rowLock' = [r \in Rows |-> IF rowLock[r] = t THEN None ELSE rowLock[r]]
        /\ prodLock' = [p \in Products |-> IF prodLock[p] = t THEN None ELSE prodLock[p]]
        /\ docLock' = [d \in Docs |-> IF docLock[d] = t THEN None ELSE docLock[d]]
    BY DEF Rollback, Commit
  <1>3. None \notin Txs
    BY ConstantsAssumption
  <1>4. \A u \in Txs \ {t} : SameLocks(u)
    BY <1>1, <1>2, <1>3 DEF TypeOK, SameLocks
  <1>5. pc'[t] = "idle" /\ NoLocks(t)'
    BY <1>1, <1>2, <1>3 DEF TypeOK, NoLocks
  <1> QED BY <1>1, <1>4, <1>5, LocksStep

LEMMA RollbackOInv ==
  ASSUME OInv, NEW t \in Txs, Rollback(t)
  PROVE  OInv'
  BY RollbackIInv, EndOInv DEF OInv

LEMMA BeginOInv ==
  ASSUME OInv, IInv', NEW t \in Txs, NEW r \in ReqType, NEW first \in {"claim", "adjust"},
         r.kind \notin {"purchase", "reverse"} => InDeductionOrder(r.lines), Begin(t, r, first)
  PROVE  OInv'
  <1>1. TypeOK /\ flag' = flag /\ catalog' = catalog /\ locks' = locks
    BY DEF OInv, IInv, Begin, db
  <1>2. pc[t] = "idle" /\ pc'[t] = first /\ req'[t] = r /\ line'[t] = 1
    BY <1>1 DEF TypeOK, Begin
  <1>3. \A u \in Txs \ {t} : SameLocks(u)
    BY <1>1 DEF TypeOK, Begin, locks, SameLocks
  <1>4. NoLocks(t)
    BY <1>2 DEF OInv, LocksOK
  <1>5. RowsDone(t)' = 0 /\ SumsDone(t)' = 0
    BY <1>2 DEF RowsDone, SumsDone
  <1>6. LocksOf(t)'
    BY <1>1, <1>2, <1>4, <1>5 DEF LocksOf, NoLocks, locks
  <1> QED BY <1>1, <1>2, <1>3, <1>6, LocksStep

LEMMA RequestOInv ==
  ASSUME OInv, NEW t \in Txs, Request(t)
  PROVE  OInv'
  <1>0. IInv' /\ TypeOK /\ DocOK
    BY RequestIInv DEF OInv, IInv
  <1>1. ASSUME NEW b \in Bills, NEW c \in Cashiers, NEW lines \in LineSeqs, BeginSale(t, b, c, lines)
        PROVE  OInv'
    <2> DEFINE r == [kind |-> "sale", shop |-> CashierShop[c], cashier |-> c, doc |-> b, lines |-> lines]
    <2>1. r \in ReqType /\ InDeductionOrder(r.lines) /\ Begin(t, r, "adjust")
      BY <1>1, ConstantsAssumption DEF ReqType, Docs, BeginSale
    <2> HIDE DEF r
    <2> QED BY <1>0, <2>1, BeginOInv
  <1>2. ASSUME NEW b \in Bills, NEW merged \in LineSeqs, BeginCancel(t, b, merged)
        PROVE  OInv'
    <2> DEFINE r == [kind |-> "cancel", shop |-> doc[b].shop, cashier |-> doc[b].cashier, doc |-> b, lines |-> merged]
    <2>1. doc[b] \in DocType
      BY <1>0 DEF TypeOK, Docs
    <2>2. r \in ReqType /\ Begin(t, r, "claim")
      BY <1>2, <2>1 DEF ReqType, DocType, Docs, BeginCancel
    <2>3. InDeductionOrder(merged)
      <3>1. \A m, n \in 1..Len(merged) : m < n => merged[m].product < merged[n].product
        BY <1>2 DEF BeginCancel, MergedLines
      <3>2. \A n \in 1..Len(merged) : merged[n].product \in Int
        BY LineSeqsFacts, ConstantsAssumption DEF Line
      <3> QED BY <3>1, <3>2 DEF InDeductionOrder
    <2>4. r.lines = merged
      OBVIOUS
    <2> HIDE DEF r
    <2> QED BY <1>0, <2>2, <2>3, <2>4, BeginOInv
  <1>3. ASSUME NEW d \in Purchases, NEW s \in Shops, NEW c \in Cashiers \cup {None}, NEW lines \in LineSeqs,
               BeginPurchase(t, d, s, c, lines)
        PROVE  OInv'
    <2> DEFINE r == [kind |-> "purchase", shop |-> s, cashier |-> c, doc |-> d, lines |-> lines]
    <2>1. r \in ReqType /\ r.kind = "purchase" /\ Begin(t, r, "adjust")
      BY <1>3 DEF ReqType, Docs, BeginPurchase
    <2> HIDE DEF r
    <2> QED BY <1>0, <2>1, BeginOInv
  <1>4. ASSUME NEW d \in Purchases, NEW c \in Cashiers \cup {None}, BeginReverse(t, d, c)
        PROVE  OInv'
    <2> DEFINE r == [kind |-> "reverse", shop |-> doc[d].shop, cashier |-> c, doc |-> d, lines |-> doc[d].lines]
    <2>1. doc[d] \in DocType
      BY <1>0 DEF TypeOK, Docs
    <2>2. r \in ReqType /\ r.kind = "reverse" /\ Begin(t, r, "claim")
      BY <1>4, <2>1 DEF ReqType, DocType, Docs, BeginReverse
    <2> HIDE DEF r
    <2> QED BY <1>0, <2>2, BeginOInv
  <1>5. ASSUME NEW s \in Shops, NEW c \in Cashiers \cup {None}, NEW l \in Line, NEW k \in {"add", "remove"},
               BeginAdjustment(t, s, c, l, k)
        PROVE  OInv'
    <2> DEFINE r == [kind |-> k, shop |-> s, cashier |-> c, doc |-> None, lines |-> <<l>>]
    <2>1. r \in ReqType /\ Begin(t, r, "adjust")
      BY <1>5, OneLine DEF ReqType, BeginAdjustment
    <2>2. Len(r.lines) = 1
      OBVIOUS
    <2> HIDE DEF r
    <2>3. InDeductionOrder(r.lines)
      BY <2>2 DEF InDeductionOrder
    <2> QED BY <1>0, <2>1, <2>3, BeginOInv
  <1> QED BY <1>1, <1>2, <1>3, <1>4, <1>5 DEF Request

LEMMA ClaimDocOInv ==
  ASSUME OInv, NEW t \in Txs, ClaimDoc(t)
  PROVE  OInv'
  <1>0. IInv' /\ TypeOK /\ pc[t] = "claim" /\ LocksOf(t) /\ req[t].doc \in Docs
    BY ClaimDocIInv DEF OInv, IInv, ClaimDoc, LocksOK, ReqOK
  <1>1. CASE Rollback(t)
    BY <1>1, RollbackOInv
  <1>2. CASE /\ docLock' = [docLock EXCEPT ![req[t].doc] = t] /\ pc' = [pc EXCEPT ![t] = "adjust"]
             /\ UNCHANGED <<db, share, script, rowLock, prodLock, req, line, pend, agg, moves, early, account, adjusted>>
    <2>1. docLock[req[t].doc] \in {None, t} /\ None \notin Txs
      BY ConstantsAssumption DEF ClaimDoc, Free
    <2>2. pc'[t] = "adjust" /\ \A u \in Txs \ {t} : SameLocks(u)
      BY <1>0, <1>2, <2>1 DEF TypeOK, SameLocks
    <2>3. RowsDone(t)' = RowsDone(t) /\ SumsDone(t)' = SumsDone(t) /\ Holder(t)' = Holder(t)
      BY <1>0, <1>2, <2>2 DEF RowsDone, SumsDone, Holder, db
    <2>4. LocksOf(t)'
      BY <1>0, <1>2, <2>2, <2>3 DEF LocksOf
    <2> QED BY <1>0, <1>2, <2>2, <2>4, LocksStep DEF db
  <1> QED BY <1>1, <1>2 DEF ClaimDoc

LEMMA AdjustStockOInv ==
  ASSUME OInv, NEW t \in Txs, AdjustStock(t)
  PROVE  OInv'
  <1>0. IInv' /\ TypeOK /\ pc[t] = "adjust" /\ LocksOf(t)
    BY AdjustStockIInv DEF OInv, IInv, AdjustStock, LocksOK
  <1>1. CASE Rollback(t)
    BY <1>1, RollbackOInv
  <1>2. CASE /\ share' = share \cup {t} /\ pc' = [pc EXCEPT ![t] = "row"]
             /\ UNCHANGED <<db, script, rowLock, prodLock, docLock, req, line, pend, agg, moves, early, account, adjusted>>
    <2>1. pc'[t] = "row" /\ \A u \in Txs \ {t} : SameLocks(u)
      BY <1>0, <1>2 DEF TypeOK, SameLocks
    <2>2. RowsDone(t)' = RowsDone(t) /\ SumsDone(t)' = SumsDone(t) /\ Holder(t)' = Holder(t)
      BY <1>0, <1>2, <2>1 DEF RowsDone, SumsDone, Holder, db
    <2>3. LocksOf(t)'
      BY <1>0, <1>2, <2>1, <2>2 DEF LocksOf
    <2> QED BY <1>0, <1>2, <2>1, <2>3, LocksStep DEF db
  <1> QED BY <1>1, <1>2 DEF AdjustStock

\* The line t is at.
LEMMA LineAt ==
  ASSUME IInv, NEW t \in Txs, pc[t] # "idle"
  PROVE  /\ req[t].lines \in LineSeqs /\ line[t] \in 1..Len(req[t].lines) /\ Len(req[t].lines) \in Nat
         /\ line[t] - 1 \in 0..Len(req[t].lines) /\ line[t] \in 0..Len(req[t].lines)
         /\ req[t].lines[line[t]].qty \in Int /\ Delta(t) \in Int
         /\ Product(t) = req[t].lines[line[t]].product /\ Product(t) \in Products
  <1>1. req[t].lines \in LineSeqs /\ line[t] \in 1..Len(req[t].lines)
    BY DEF IInv, ReqOK
  <1>2. Len(req[t].lines) \in Nat /\ req[t].lines[line[t]] \in Line
    BY <1>1, LineSeqsFacts
  <1>3. req[t].lines[line[t]].qty \in Int
    BY <1>2, ConstantsAssumption DEF Line
  <1>4. Delta(t) \in Int /\ Product(t) \in Products
    BY LineFacts DEF IInv
  <1> QED BY <1>1, <1>2, <1>3, <1>4 DEF Product

LEMMA UpdateRowOInv ==
  ASSUME OInv, NEW t \in Txs, UpdateRow(t)
  PROVE  OInv'
  <1>0. IInv' /\ IInv /\ TypeOK /\ pc[t] = "row" /\ LocksOf(t)
    BY UpdateRowIInv DEF OInv, IInv, UpdateRow, LocksOK
  <1>1. CASE Rollback(t)
    BY <1>1, RollbackOInv
  <1>2. CASE /\ rowLock' = [rowLock EXCEPT ![Row(t)] = t] /\ pc' = [pc EXCEPT ![t] = "aggregate"]
             /\ UNCHANGED <<db, share, script, prodLock, docLock, req, line, agg, moves, early, account, adjusted>>
    <2>1. Row(t) \in Rows /\ Row(t) = <<Holder(t), req[t].lines[line[t]].product>> /\ rowLock[Row(t)] \in {None, t}
          /\ None \notin Txs
      BY <1>0, LineFacts, ConstantsAssumption DEF IInv, UpdateRow, Free, Row, Holder, Product
    <2>2. \A r \in Rows : rowLock'[r] = IF r = Row(t) THEN t ELSE rowLock[r]
      BY <1>0, <1>2, <2>1 DEF TypeOK
    <2>3. pc'[t] = "aggregate" /\ \A u \in Txs \ {t} : SameLocks(u)
      BY <1>0, <1>2, <2>1, <2>2 DEF TypeOK, SameLocks
    <2>4. RowsDone(t)' = line[t] /\ RowsDone(t) = line[t] - 1 /\ SumsDone(t)' = SumsDone(t) /\ Holder(t)' = Holder(t)
      BY <1>0, <1>2, <2>3 DEF RowsDone, SumsDone, Holder, db
    <2>5. line[t] \in Nat /\ line[t] >= 1 /\ t \in share
      BY <1>0, LineAt DEF IInv, FlagLockHeld
    <2>6. ASSUME NEW r \in Rows
          PROVE  rowLock'[r] = t <=> \E n \in 1..line[t] : r = <<Holder(t), req[t].lines[n].product>>
      <3>1. rowLock[r] = t <=> \E n \in 1..(line[t] - 1) : r = <<Holder(t), req[t].lines[n].product>>
        BY <1>0, <2>4 DEF LocksOf
      <3>2. \A n : n \in 1..line[t] <=> n \in 1..(line[t] - 1) \/ n = line[t]
        BY <2>5
      <3> QED BY <2>1, <2>2, <3>1, <3>2
    <2>7. LocksOf(t)'
      BY <1>0, <1>2, <2>3, <2>4, <2>5, <2>6 DEF LocksOf
    <2> QED BY <1>0, <1>2, <2>3, <2>7, LocksStep DEF db
  <1> QED BY <1>1, <1>2 DEF UpdateRow

LEMMA UpdateAggregateOInv ==
  ASSUME OInv, NEW t \in Txs, UpdateAggregate(t)
  PROVE  OInv'
  <1>0. IInv' /\ IInv /\ TypeOK /\ pc[t] = "aggregate" /\ LocksOf(t)
    BY UpdateAggregateIInv DEF OInv, IInv, UpdateAggregate, LocksOK
  <1>1. /\ prodLock' = [prodLock EXCEPT ![Product(t)] = t] /\ prodLock[Product(t)] \in {None, t} /\ None \notin Txs
        /\ UNCHANGED <<db, share, script, rowLock, docLock, req, pend, early, account, adjusted>>
    BY ConstantsAssumption DEF UpdateAggregate, Free
  <1>2. \/ pc'[t] = "adjust" /\ line'[t] = line[t] + 1
        \/ pc'[t] = "commit" /\ line'[t] = line[t]
    BY <1>0 DEF UpdateAggregate, TypeOK
  <1>3. Product(t) \in Products /\ Product(t) = req[t].lines[line[t]].product /\ line[t] \in Nat /\ line[t] >= 1
    BY <1>0, LineAt
  <1>4. \A p \in Products : prodLock'[p] = IF p = Product(t) THEN t ELSE prodLock[p]
    BY <1>0, <1>1, <1>3 DEF TypeOK
  <1>5. \A u \in Txs \ {t} : pc'[u] = pc[u] /\ line'[u] = line[u]
    BY <1>0 DEF UpdateAggregate, TypeOK
  <1>6. \A u \in Txs \ {t} : SameLocks(u)
    BY <1>1, <1>4, <1>5 DEF SameLocks
  <1>7. RowsDone(t)' = line[t] /\ RowsDone(t) = line[t] /\ SumsDone(t)' = line[t] /\ SumsDone(t) = line[t] - 1
        /\ Holder(t)' = Holder(t)
    BY <1>0, <1>1, <1>2, <1>3 DEF RowsDone, SumsDone, Holder, db
  <1>8. ASSUME NEW p \in Products
        PROVE  prodLock'[p] = t <=> \E n \in 1..line[t] : p = req[t].lines[n].product
    <2>1. prodLock[p] = t <=> \E n \in 1..(line[t] - 1) : p = req[t].lines[n].product
      BY <1>0, <1>7 DEF LocksOf
    <2>2. \A n : n \in 1..line[t] <=> n \in 1..(line[t] - 1) \/ n = line[t]
      BY <1>3
    <2> QED BY <1>3, <1>4, <2>1, <2>2
  <1>9. LocksOf(t)'
    BY <1>0, <1>1, <1>2, <1>7, <1>8 DEF LocksOf
  <1>10. pc'[t] # "idle"
    BY <1>2
  <1> QED BY <1>0, <1>1, <1>6, <1>9, <1>10, LocksStep DEF db

\* A script holds the flag, so nobody has locked a row of either table.
LEMMA ScriptOInv ==
  ASSUME OInv, IInv', script # None, catalog' = catalog,
         UNCHANGED <<share, rowLock, prodLock, docLock, pc, req, line>>
  PROVE  OInv'
  <1>1. ASSUME NEW t \in Txs PROVE LocksOK!(t)'
    <2>1. CASE pc[t] = "idle"
      BY <2>1 DEF OInv, LocksOK, NoLocks
    <2>2. CASE pc[t] # "idle"
      <3>1. IInv /\ LocksOf(t)
        BY <2>2 DEF OInv, LocksOK
      <3>2. share = {} /\ pc[t] \notin {"row", "aggregate", "commit"} /\ line[t] \in Nat /\ line[t] >= 1
        BY <2>2, <3>1, ScriptExcludes, LineAt
      <3>3. RowsDone(t) = 0 /\ RowsDone(t)' = 0 /\ SumsDone(t)' = SumsDone(t)
        BY <3>1, <3>2 DEF LocksOf, RowsDone, SumsDone
      <3>4. LocksOf(t)'
        BY <3>1, <3>2, <3>3 DEF LocksOf
      <3> QED BY <2>2, <3>4
    <2> QED BY <2>1, <2>2
  <1>2. LocksOK'
    BY <1>1 DEF LocksOK
  <1> QED BY <1>2 DEF OInv, CatalogKept, Running

\* Steps of nobody's transaction.
LEMMA QuietOInv ==
  ASSUME OInv, IInv', UNCHANGED <<flag, share, rowLock, prodLock, docLock, pc, req, line>>, CatalogKept'
  PROVE  OInv'
  <1>1. \A u \in Txs : SameLocks(u)
    BY DEF SameLocks
  <1>2. LocksOK'
    BY <1>1, SameLocksOK DEF LocksOK
  <1> QED BY <1>2 DEF OInv, Running

LEMMA EnvironmentOInv ==
  ASSUME OInv, Environment
  PROVE  OInv'
  <1>0. IInv'
    BY NextIInv DEF OInv, Next
  <1>1. CASE Cutover \/ CutoverRollback
    <2>1. script # None /\ catalog' = catalog /\ UNCHANGED <<share, rowLock, prodLock, docLock, pc, req, line>>
      BY <1>1, ConstantsAssumption DEF Cutover, CutoverRollback, txs, db, RequestKinds
    <2> QED BY <1>0, <2>1, ScriptOInv
  <1>2. ASSUME NEW s \in Shops, NEW p \in Products, NEW to \in {"assigned", "unassigned"}, SetBranchAssignment(s, p, to)
        PROVE  OInv'
    <2>1. CatalogKept'
      BY <1>2 DEF SetBranchAssignment, OInv, CatalogKept, IInv, TypeOK
    <2> QED BY <1>0, <1>2, <2>1, QuietOInv DEF SetBranchAssignment, locks, txs
  <1>3. ASSUME \/ \E name \in {"cutover", "rollback"} : ScriptLock(name)
               \/ \E c \in Cashiers : SignUp(c) \/ Approval(c) \/ SuspendCashier(c) \/ ActivateCashier(c)
        PROVE  OInv'
    <2>1. UNCHANGED <<flag, catalog, share, rowLock, prodLock, docLock, pc, req, line>>
      BY <1>3 DEF ScriptLock, SignUp, Approval, SuspendCashier, ActivateCashier, SetAccount,
           AssertNoStrandedCashierStock, ReadModeForApproval, InitializeCashierInventory, ApprovalFails, db, locks, txs
    <2>2. CatalogKept'
      BY <2>1 DEF OInv, CatalogKept
    <2> QED BY <1>0, <2>1, <2>2, QuietOInv
  <1> QED BY <1>1, <1>2, <1>3 DEF Environment

LEMMA InitOInv == Init => OInv
  <1> SUFFICES ASSUME Init PROVE OInv
    OBVIOUS
  <1>1. IInv /\ CatalogKept
    BY InitIInv DEF Init, CatalogKept
  <1>2. LocksOK
    BY ConstantsAssumption DEF Init, LocksOK, NoLocks
  <1>3. Running = {}
    BY DEF Init, Running
  <1> QED BY <1>1, <1>2, <1>3, FS_EmptySet DEF OInv

LEMMA NextOInv ==
  ASSUME OInv, [Next]_vars
  PROVE  OInv'
  <1>0. IInv'
    BY NextIInv DEF OInv
  <1>1. ASSUME NEW t \in Txs, Step(t) PROVE OInv'
    BY <1>0, <1>1, ClaimDocOInv, AdjustStockOInv, UpdateRowOInv, UpdateAggregateOInv, EndOInv DEF Step
  <1>2. ASSUME NEW t \in Txs, Fail(t) \/ DeadlockVictim(t) PROVE OInv'
    BY <1>2, RollbackOInv DEF Fail, DeadlockVictim
  <1>3. CASE UNCHANGED vars
    <2>1. CatalogKept'
      BY <1>3 DEF OInv, CatalogKept, vars
    <2> QED BY <1>0, <1>3, <2>1, QuietOInv DEF vars
  <1> QED BY <1>1, <1>2, <1>3, RequestOInv, EnvironmentOInv DEF Next

\* Who holds which lock, in every reachable state.
THEOREM LocksInvariant == Spec => []OInv
  BY InitOInv, NextOInv, PTL DEF Spec

\* A cancellation is never refused because its product is hidden at the
\* branch: adjustStock() finds every product a branch ever had.
THEOREM CancelNeverRefused == Spec => []CancelCanRestore
  <1>1. ASSUME OInv PROVE CancelCanRestore
    <2> SUFFICES ASSUME NEW t \in Txs, req[t].kind = "cancel", pc[t] = "adjust" PROVE ProductFound(t)
      BY DEF CancelCanRestore
    <2>1. IInv /\ CatalogKept
      BY <1>1 DEF OInv
    <2>2. req[t].shop \in Shops /\ Product(t) \in Products
      BY <2>1, LineAt DEF IInv, ReqOK
    <2> QED BY <2>1, <2>2 DEF CatalogKept, ProductFound
  <1> QED BY <1>1, LocksInvariant, PTL

-----------------------------------------------------------------------------
(* The deadlocks.                                                          *)

\* u is at a later lock than t: claims come first, then products in order, a
\* product's stock rows before its aggregate.
Later(t, u) ==
  \/ pc[t] = "claim" /\ pc[u] \in {"row", "aggregate"}
  \/ /\ pc[t] \in {"row", "aggregate"} /\ pc[u] \in {"row", "aggregate"}
     /\ \/ Product(t) < Product(u)
        \/ Product(t) = Product(u) /\ pc[t] = "row" /\ pc[u] = "aggregate"

\* Where requests take their products in order, everybody waits for somebody
\* at a later lock.
LEMMA WaitsForLater ==
  ASSUME OInv, NEW t \in Txs, NEW u \in Txs, NEW w \in Txs, WaitsFor(t, u), WaitsFor(u, w),
         req[u].kind \notin {"purchase", "reverse"}
  PROVE  Later(t, u)
  <1>1. /\ t # u /\ u # w /\ pc[t] \in {"claim", "row", "aggregate"} /\ pc[u] \in {"claim", "row", "aggregate"}
        /\ IInv /\ LocksOf(u)
    BY DEF WaitsFor, OInv, LocksOK
  <1>2. /\ InDeductionOrder(req[u].lines) /\ line[u] \in 1..Len(req[u].lines)
        /\ Product(u) = req[u].lines[line[u]].product /\ req[u].lines \in LineSeqs
    BY <1>1, LineAt DEF LocksOf
  <1>3. line[u] \in Nat /\ line[u] >= 1 /\ Len(req[u].lines) \in Nat /\ line[u] <= Len(req[u].lines)
        /\ Products \subseteq Int
    BY <1>2, LineSeqsFacts, ConstantsAssumption
  \* u has been through line n, of the product t waits for
  <1>4. ASSUME NEW n \in 1..line[u] PROVE req[u].lines[n].product \in Int /\ req[u].lines[n].product <= Product(u)
    <2>1. n \in 1..Len(req[u].lines)
      BY <1>3
    <2>2. req[u].lines[n].product \in Int /\ Product(u) \in Int
      BY <1>2, <1>3, <2>1, LineSeqsFacts DEF Line
    <2>3. CASE n = line[u]
      BY <1>2, <2>2, <2>3
    <2>4. CASE n < line[u]
      BY <1>2, <2>1, <2>2, <2>4 DEF InDeductionOrder
    <2> QED BY <1>3, <2>3, <2>4
  <1>5. CASE pc[t] = "claim"
    <2>1. req[t].doc \in Docs /\ docLock[req[t].doc] = u
      BY <1>1, <1>5 DEF WaitsFor, IInv, ReqOK
    <2> QED BY <1>1, <1>5, <2>1 DEF LocksOf, Later
  <1>6. CASE pc[t] = "row"
    <2>1. Row(t) \in Rows /\ rowLock[Row(t)] = u /\ Row(t)[2] = Product(t)
      BY <1>1, <1>6, LineFacts DEF WaitsFor, IInv, Row
    <2>2. PICK n \in 1..RowsDone(u) : Row(t) = <<Holder(u), req[u].lines[n].product>>
      BY <1>1, <2>1 DEF LocksOf
    <2>3. pc[u] # "claim" /\ n \in 1..line[u] /\ Product(t) = req[u].lines[n].product
      BY <1>1, <1>3, <2>1, <2>2 DEF LocksOf, RowsDone
    <2>4. Product(t) \in Int /\ Product(u) \in Int /\ Product(t) <= Product(u)
      BY <1>1, <1>3, <1>4, <2>3, LineAt
    <2>5. ASSUME pc[u] = "row", Product(t) = Product(u) PROVE FALSE
      <3>1. Row(u) = Row(t)
        BY <2>2, <2>3, <2>5 DEF Row, Holder
      <3> QED BY <1>1, <2>1, <2>5, <3>1 DEF WaitsFor
    <2> QED BY <1>1, <1>6, <2>3, <2>4, <2>5 DEF Later
  <1>7. CASE pc[t] = "aggregate"
    <2>1. Product(t) \in Products /\ prodLock[Product(t)] = u
      BY <1>1, <1>7, LineAt DEF WaitsFor
    <2>2. PICK n \in 1..SumsDone(u) : Product(t) = req[u].lines[n].product
      BY <1>1, <2>1 DEF LocksOf
    <2>3. pc[u] # "claim" /\ n \in 1..line[u] /\ n \in 1..RowsDone(u)
      BY <1>1, <1>3, <2>2 DEF LocksOf, RowsDone, SumsDone
    <2>4. Product(t) \in Int /\ Product(u) \in Int /\ Product(t) <= Product(u)
      BY <1>1, <1>3, <1>4, <2>2, <2>3, LineAt
    <2>5. ASSUME Product(t) = Product(u) PROVE FALSE
      <3>1. CASE pc[u] = "aggregate"
        BY <1>1, <2>1, <2>5, <3>1 DEF WaitsFor
      <3>2. CASE pc[u] = "row"
        <4>1. Row(u) = <<Holder(u), req[u].lines[n].product>> /\ Row(u) \in Rows
          BY <1>1, <2>2, <2>5, <3>2, LineFacts DEF Row, Holder, IInv
        <4>2. rowLock[Row(u)] = u
          BY <1>1, <2>3, <4>1 DEF LocksOf
        <4> QED BY <1>1, <3>2, <4>2 DEF WaitsFor
      <3> QED BY <1>1, <2>3, <3>1, <3>2
    <2> QED BY <1>1, <1>7, <2>3, <2>4, <2>5 DEF Later
  <1> QED BY <1>1, <1>5, <1>6, <1>7

\* Only purchases and reversals, which lock in document order, can close a
\* ring of waiters: in any other a transaction at the latest lock would wait
\* for one at a later lock still.
THEOREM DeadlocksAreUnsorted == Spec => []OnlyUnsortedDeadlock
  <1>1. ASSUME OInv PROVE OnlyUnsortedDeadlock
    <2> SUFFICES ASSUME NEW D \in SUBSET Txs, Deadlocked(D), \A t \in D : req[t].kind \notin {"purchase", "reverse"}
                 PROVE  FALSE
      BY DEF OnlyUnsortedDeadlock
    <2>1. D # {} /\ \A t \in D : \E u \in D : WaitsFor(t, u)
      BY DEF Deadlocked
    <2>2. \A t \in D : \E u \in D : Later(t, u)
      <3> TAKE t \in D
      <3>1. PICK u \in D : WaitsFor(t, u)
        BY <2>1
      <3>2. PICK w \in D : WaitsFor(u, w)
        BY <2>1
      <3>3. Later(t, u)
        BY <1>1, <3>1, <3>2, WaitsForLater
      <3> QED BY <3>3
    <2>3. IsFiniteSet(D)
      <3>1. D \subseteq Running
        BY <2>1 DEF Running, WaitsFor
      <3> QED BY <1>1, <3>1, FS_Subset DEF OInv
    <2>4. \A t \in D : pc[t] \in {"row", "aggregate"} => Product(t) \in Int
      BY <1>1, LineAt, ConstantsAssumption DEF OInv
    <2>5. \A t, u, w \in D : Later(t, u) /\ Later(u, w) => Later(t, w)
      BY <2>4 DEF Later
    <2>6. \A t \in D : ~Later(t, t)
      BY <2>4 DEF Later
    <2> DEFINE above(t) == {u \in D : Later(t, u)}
               F == {above(t) : t \in D}
    <2>7. F \in SUBSET SUBSET D /\ F # {}
      BY <2>1
    <2>8. PICK T \in F : \A U \in F : U \subseteq T => U = T
      <3> HIDE DEF F
      <3> QED BY <2>3, <2>7, SmallestSubset
    <2>9. PICK t \in D : T = above(t)
      OBVIOUS
    <2>10. PICK u \in D : Later(t, u)
      BY <2>2
    <2>11. above(u) \subseteq above(t) /\ u \in above(t) /\ u \notin above(u) /\ above(u) \in F
      BY <2>5, <2>6, <2>10
    <2> QED BY <2>8, <2>9, <2>11
  <1> QED BY <1>1, LocksInvariant, PTL

-----------------------------------------------------------------------------
(* The journal.                                                            *)

\* By how much t has changed row r without having recorded it yet.
Unrecorded(t, r) == IF pc[t] = "aggregate" /\ r = Row(t) THEN Delta(t) ELSE 0

\* The movements of t chain and end at the rows as t would leave them, up to
\* the change it is recording; they are about rows that t has locked.
JournalOK(t) ==
  /\ pc[t] = "idle" => moves[t] = <<>>
  /\ \A n \in 1..Len(moves[t]) :
       /\ rowLock[moves[t][n].row] = t
       /\ moves[t][n].previousStock = StockAfter(t, moves[t][n].row, n - 1)
  /\ \A r \in Rows : StockAfter(t, r, Len(moves[t])) + Unrecorded(t, r) = qty[r] + pend[t][r]

JInv == OInv /\ \A t \in Txs : JournalOK(t)

LEMMA MoveFacts ==
  ASSUME TypeOK, NEW t \in Txs
  PROVE  /\ moves[t] \in Seq(Move) /\ Len(moves[t]) \in Nat
         /\ \A n \in 1..Len(moves[t]) : moves[t][n].row \in Rows /\ moves[t][n].newStock \in Int
  <1>1. moves[t] \in Seq(Move)
    BY DEF TypeOK
  <1>2. Len(moves[t]) \in Nat /\ \A n \in 1..Len(moves[t]) : moves[t][n] \in Move
    BY <1>1
  <1> QED BY <1>1, <1>2 DEF Move

LEMMA RowUnderway ==
  ASSUME OInv, NEW t \in Txs, pc[t] = "aggregate"
  PROVE  Row(t) \in Rows /\ rowLock[Row(t)] = t
  <1>1. TypeOK /\ ReqOK /\ LocksOf(t)
    BY DEF OInv, IInv, LocksOK
  <1>2. Row(t) \in Rows
    BY <1>1, LineFacts
  <1>3. line[t] \in 1..RowsDone(t) /\ Row(t) = <<Holder(t), req[t].lines[line[t]].product>>
    BY <1>1 DEF ReqOK, RowsDone, Row, Holder, Product
  <1> QED BY <1>1, <1>2, <1>3 DEF LocksOf

\* Before its first movement a row stands as committed.
LEMMA StockAtFirst == \A t \in Txs, r \in Rows : StockAfter(t, r, 0) = qty[r]
  <1>1. \A t : {m \in 1..0 : moves[t][m].row = t} = {}
    OBVIOUS
  <1>2. 1..0 = {}
    OBVIOUS
  <1> QED BY <1>2 DEF StockAfter

\* The last movement of a row is one of its movements.
LEMMA LastOf ==
  ASSUME NEW S, IsFiniteSet(S), \A n \in S : n \in Nat, S # {}
  PROVE  Max(S) \in S
  <1> DEFINE F == {T \in SUBSET S : \E n \in S : T = {m \in S : m > n}}
  <1>1. \A n \in S : {m \in S : m > n} \in F
    OBVIOUS
  <1>2. F # {}
    BY <1>1
  <1>3. PICK T \in F : \A U \in F : U \subseteq T => U = T
    <2>1. F \in SUBSET SUBSET S
      OBVIOUS
    <2> HIDE DEF F
    <2> QED BY <1>2, <2>1, SmallestSubset
  <1>4. PICK n \in S : T = {m \in S : m > n}
    OBVIOUS
  <1>5. ASSUME NEW k \in S, k > n PROVE FALSE
    <2>1. {m \in S : m > k} \subseteq T
      BY <1>4, <1>5
    <2>2. {m \in S : m > k} = T
      BY <1>1, <1>3, <2>1
    <2>3. k \in T /\ k \notin {m \in S : m > k}
      BY <1>4, <1>5
    <2> QED BY <2>2, <2>3
  <1>6. \A k \in S : n >= k
    BY <1>5
  <1> QED BY <1>6 DEF Max

LEMMA AfterType ==
  ASSUME TypeOK, NEW t \in Txs, NEW r \in Rows, NEW n \in 0..Len(moves[t])
  PROVE  StockAfter(t, r, n) \in Int
  <1> DEFINE ns == {m \in 1..n : moves[t][m].row = r}
  <1>1. Len(moves[t]) \in Nat /\ \A m \in 1..Len(moves[t]) : moves[t][m].newStock \in Int
    BY MoveFacts
  <1>2. n \in Nat /\ ns \subseteq 1..n /\ 1..n \subseteq 1..Len(moves[t])
    BY <1>1
  <1>3. CASE ns = {}
    BY <1>3 DEF StockAfter, TypeOK
  <1>4. CASE ns # {}
    <2>1. Max(ns) \in ns
      <3> HIDE DEF ns
      <3>1. IsFiniteSet(1..n)
        BY <1>2, FS_Interval
      <3>2. IsFiniteSet(ns)
        BY <1>2, <3>1, FS_Subset
      <3>3. \A m \in ns : m \in Nat
        BY <1>2
      <3> QED BY <1>4, <3>2, <3>3, LastOf
    <2>2. StockAfter(t, r, n) = moves[t][Max(ns)].newStock
      BY <1>4 DEF StockAfter
    <2>3. Max(ns) \in 1..Len(moves[t])
      BY <1>2, <2>1
    <2> QED BY <1>1, <2>2, <2>3
  <1> QED BY <1>3, <1>4

\* The rows t has moved are locked, so nobody else's step changes what its
\* movements build on.
LEMMA SameJournal ==
  ASSUME OInv, TypeOK', NEW t \in Txs, JournalOK(t),
         pc'[t] = "idle" => pc[t] = "idle",
         moves'[t] = moves[t], pend'[t] = pend[t],
         \A r \in Rows : Unrecorded(t, r)' = Unrecorded(t, r),
         \A r \in Rows : rowLock[r] = t => rowLock'[r] = t /\ qty'[r] = qty[r]
  PROVE  JournalOK(t)'
  <1> DEFINE about(r, n) == {m \in 1..n : moves[t][m].row = r}
  <1>0. TypeOK
    BY DEF OInv, IInv
  <1>1. Len(moves[t]) \in Nat /\ \A n \in 1..Len(moves[t]) : moves[t][n].row \in Rows
    BY <1>0, MoveFacts
  <1>2. ASSUME NEW r \in Rows, NEW n \in Nat, qty'[r] = qty[r] \/ about(r, n) # {}
        PROVE  StockAfter(t, r, n)' = StockAfter(t, r, n)
    BY <1>2 DEF StockAfter
  <1>3. ASSUME NEW n \in 1..Len(moves[t])
        PROVE  rowLock'[moves[t][n].row] = t /\ moves[t][n].previousStock = StockAfter(t, moves[t][n].row, n - 1)'
    <2> DEFINE r == moves[t][n].row
    <2>1. rowLock[r] = t /\ r \in Rows /\ n - 1 \in Nat /\ moves[t][n].previousStock = StockAfter(t, r, n - 1)
      BY <1>1 DEF JournalOK
    <2>2. rowLock'[r] = t /\ qty'[r] = qty[r]
      BY <2>1
    <2> QED BY <1>2, <2>1, <2>2
  <1>4. ASSUME NEW r \in Rows
        PROVE  StockAfter(t, r, Len(moves[t]))' + Unrecorded(t, r)' = qty'[r] + pend'[t][r]
    <2>1. StockAfter(t, r, Len(moves[t])) + Unrecorded(t, r) = qty[r] + pend[t][r]
      BY DEF JournalOK
    <2>2. CASE qty'[r] = qty[r]
      BY <1>1, <1>2, <2>1, <2>2
    <2>3. CASE qty'[r] # qty[r]
      <3>1. about(r, Len(moves[t])) = {}
        BY <2>3 DEF JournalOK
      <3>2. StockAfter(t, r, Len(moves[t])) = qty[r] /\ StockAfter(t, r, Len(moves[t]))' = qty'[r]
        BY <3>1 DEF StockAfter
      <3>3. Unrecorded(t, r) = 0
        BY <2>3, RowUnderway DEF Unrecorded
      <3>4. qty[r] \in Int /\ qty'[r] \in Int /\ pend[t][r] \in Int
        BY <1>0 DEF TypeOK
      <3> QED BY <2>1, <3>2, <3>3, <3>4
    <2> QED BY <2>2, <2>3
  <1> QED BY <1>3, <1>4 DEF JournalOK

\* Whose step it is does not matter: a transaction whose place, lines and
\* table stay has as much left to record.
LEMMA SameUnrecorded ==
  ASSUME NEW u \in Txs, pc'[u] = pc[u], req'[u] = req[u], line'[u] = line[u], flag' = flag
  PROVE  \A r \in Rows : Unrecorded(u, r)' = Unrecorded(u, r)
  BY DEF Unrecorded, Row, Product, Delta

\* A step of t that commits nothing leaves the other journals alone.
LEMMA OthersJournals ==
  ASSUME JInv, TypeOK', NEW t \in Txs, flag' = flag, qty' = qty,
         \A u \in Txs \ {t} : /\ pc'[u] = pc[u] /\ req'[u] = req[u] /\ line'[u] = line[u]
                              /\ moves'[u] = moves[u] /\ pend'[u] = pend[u]
                              /\ \A r \in Rows : rowLock[r] = u => rowLock'[r] = u
  PROVE  \A u \in Txs \ {t} : JournalOK(u)'
  BY SameUnrecorded, SameJournal DEF JInv

\* The end of t, with or without its writes.
LEMMA EndJournals ==
  ASSUME JInv, TypeOK', NEW t \in Txs, Rollback(t) \/ Commit(t)
  PROVE  \A u \in Txs : JournalOK(u)'
  <1>0. TypeOK /\ RowLockOK /\ None \notin Txs
    BY ConstantsAssumption DEF JInv, OInv, IInv
  <1>1. /\ flag' = flag
        /\ pc' = [pc EXCEPT ![t] = "idle"] /\ req' = [req EXCEPT ![t] = NoReq] /\ line' = [line EXCEPT ![t] = 1]
        /\ moves' = [moves EXCEPT ![t] = <<>>] /\ pend' = [pend EXCEPT ![t] = NoPend]
        /\ rowLock' = [r \in Rows |-> IF rowLock[r] = t THEN None ELSE rowLock[r]]
    BY DEF Rollback, Commit, db
  <1>2. ASSUME NEW r \in Rows, rowLock[r] # t PROVE qty'[r] = qty[r]
    <2>1. qty[r] \in Int /\ pend[t][r] = 0
      BY <1>0, <1>2 DEF TypeOK, RowLockOK
    <2>2. CASE Commit(t)
      <3>1. qty'[r] = qty[r] + pend[t][r]
        BY <2>2 DEF Commit
      <3> QED BY <2>1, <3>1
    <2> QED BY <2>2 DEF Rollback, db
  <1>3. ASSUME NEW u \in Txs \ {t} PROVE JournalOK(u)'
    <2>1. /\ pc'[u] = pc[u] /\ req'[u] = req[u] /\ line'[u] = line[u]
          /\ moves'[u] = moves[u] /\ pend'[u] = pend[u]
      BY <1>0, <1>1 DEF TypeOK
    <2>2. \A r \in Rows : rowLock[r] = u => rowLock'[r] = u /\ qty'[r] = qty[r]
      BY <1>1, <1>2
    <2> QED BY <1>1, <2>1, <2>2, SameUnrecorded, SameJournal DEF JInv
  <1>4. JournalOK(t)'
    <2>1. pc'[t] = "idle" /\ moves'[t] = <<>> /\ pend'[t] = NoPend
      BY <1>0, <1>1 DEF TypeOK
    <2>2. ASSUME NEW r \in Rows
          PROVE  StockAfter(t, r, Len(moves[t]))' + Unrecorded(t, r)' = qty'[r] + pend'[t][r]
      <3>1. Unrecorded(t, r)' = 0 /\ pend'[t][r] = 0 /\ Len(moves[t])' = 0
        BY <2>1, EmptyRequest DEF Unrecorded
      <3>2. StockAfter(t, r, 0)' = qty'[r]
        BY 1..0 = {} DEF StockAfter
      <3> QED BY <3>1, <3>2
    <2> QED BY <2>1, <2>2 DEF JournalOK
  <1> QED BY <1>3, <1>4

\* t goes on without moving stock.
LEMMA QuietJournals ==
  ASSUME JInv, TypeOK', NEW t \in Txs, UNCHANGED <<flag, qty, rowLock, moves, pend>>,
         \A u \in Txs \ {t} : pc'[u] = pc[u] /\ req'[u] = req[u] /\ line'[u] = line[u],
         {pc[t], pc'[t]} \cap {"aggregate"} = {}, pc'[t] # "idle"
  PROVE  \A u \in Txs : JournalOK(u)'
  <1>1. \A u \in Txs \ {t} : JournalOK(u)'
    BY OthersJournals
  <1>2. \A r \in Rows : Unrecorded(t, r)' = Unrecorded(t, r)
    BY DEF Unrecorded
  <1>3. JournalOK(t)'
    BY <1>2, SameJournal DEF JInv
  <1> QED BY <1>1, <1>3

LEMMA UpdateRowJournals ==
  ASSUME JInv, TypeOK', NEW t \in Txs, UpdateRow(t)
  PROVE  \A u \in Txs : JournalOK(u)'
  <1>0. IInv /\ TypeOK /\ ReqOK
    BY DEF JInv, OInv, IInv
  <1>1. CASE Rollback(t)
    BY <1>1, EndJournals
  <1>2. CASE /\ rowLock' = [rowLock EXCEPT ![Row(t)] = t]
             /\ pend' = [pend EXCEPT ![t][Row(t)] = @ + Delta(t)]
             /\ pc' = [pc EXCEPT ![t] = "aggregate"]
             /\ UNCHANGED <<db, share, script, prodLock, docLock, req, line, agg, moves, early, account, adjusted>>
    <2>1. pc[t] = "row" /\ Row(t) \in Rows /\ Delta(t) \in Int /\ rowLock[Row(t)] \in {None, t} /\ None \notin Txs
      BY <1>0, LineFacts, ConstantsAssumption DEF UpdateRow, Free
    <2>2. /\ \A r \in Rows : rowLock'[r] = IF r = Row(t) THEN t ELSE rowLock[r]
          /\ \A u \in Txs, r \in Rows : pend'[u][r] = IF u = t /\ r = Row(t) THEN pend[t][r] + Delta(t) ELSE pend[u][r]
          /\ \A u \in Txs \ {t} : pend'[u] = pend[u] /\ pc'[u] = pc[u]
          /\ pc'[t] = "aggregate" /\ UNCHANGED <<flag, qty, req, line, moves>>
      BY <1>0, <1>2, <2>1 DEF TypeOK, db
    <2>3. \A u \in Txs \ {t} : JournalOK(u)'
      <3>1. \A u \in Txs \ {t}, r \in Rows : rowLock[r] = u => rowLock'[r] = u
        BY <2>1, <2>2
      <3> QED BY <2>2, <3>1, OthersJournals
    <2>4. \A r \in Rows, n \in Nat : StockAfter(t, r, n)' = StockAfter(t, r, n)
      BY <2>2 DEF StockAfter
    <2>5. Len(moves[t]) \in Nat /\ \A n \in 1..Len(moves[t]) : moves[t][n].row \in Rows /\ n - 1 \in Nat
      BY <1>0, MoveFacts
    <2>6. ASSUME NEW n \in 1..Len(moves[t])
          PROVE  rowLock'[moves[t][n].row] = t /\ moves[t][n].previousStock = StockAfter(t, moves[t][n].row, n - 1)'
      <3>1. rowLock[moves[t][n].row] = t /\ moves[t][n].previousStock = StockAfter(t, moves[t][n].row, n - 1)
        BY DEF JInv, JournalOK
      <3> QED BY <2>2, <2>4, <2>5, <3>1
    <2>7. ASSUME NEW r \in Rows
          PROVE  StockAfter(t, r, Len(moves[t]))' + Unrecorded(t, r)' = qty'[r] + pend'[t][r]
      <3>1. StockAfter(t, r, Len(moves[t])) + Unrecorded(t, r) = qty[r] + pend[t][r]
        BY DEF JInv, JournalOK
      <3>2. Unrecorded(t, r) = 0
        BY <2>1 DEF Unrecorded
      <3>3. Unrecorded(t, r)' = IF r = Row(t) THEN Delta(t) ELSE 0
        BY <2>2 DEF Unrecorded, Row, Product, Delta
      <3>4. StockAfter(t, r, Len(moves[t]))' = StockAfter(t, r, Len(moves[t]))
        BY <2>2, <2>4, <2>5
      <3>5. StockAfter(t, r, Len(moves[t])) \in Int /\ qty[r] \in Int /\ pend[t][r] \in Int
        BY <1>0, AfterType, <2>5 DEF TypeOK
      <3> QED BY <2>1, <2>2, <3>1, <3>2, <3>3, <3>4, <3>5
    <2>8. JournalOK(t)'
      <3>1. moves'[t] = moves[t] /\ pc'[t] # "idle"
        BY <2>2
      <3> QED BY <2>6, <2>7, <3>1 DEF JournalOK
    <2> QED BY <2>3, <2>8
  <1> QED BY <1>1, <1>2 DEF UpdateRow

\* The movement recorded last is about its row, and no other row.
LEMMA NextMovement ==
  ASSUME TypeOK, NEW t \in Txs, NEW m \in Move, NEW N, N = Len(moves[t]),
         moves'[t] = Append(moves[t], m), qty' = qty
  PROVE  /\ Len(moves'[t]) = N + 1 /\ moves'[t][N + 1] = m
         /\ \A n \in 1..N : moves'[t][n] = moves[t][n]
         /\ \A r \in Rows, n \in 0..N : StockAfter(t, r, n)' = StockAfter(t, r, n)
         /\ StockAfter(t, m.row, N + 1)' = m.newStock
         /\ \A r \in Rows \ {m.row} : StockAfter(t, r, N + 1)' = StockAfter(t, r, N)
  <1>1. moves[t] \in Seq(Move) /\ N \in Nat
    BY MoveFacts
  <1>2. Len(moves'[t]) = N + 1 /\ moves'[t][N + 1] = m /\ \A n \in 1..N : moves'[t][n] = moves[t][n]
    BY <1>1
  <1>3. ASSUME NEW r \in Rows, NEW n \in 0..N
        PROVE  StockAfter(t, r, n)' = StockAfter(t, r, n)
    <2> DEFINE ns == {k \in 1..n : moves[t][k].row = r}
    <2>1. {k \in 1..n : moves'[t][k].row = r} = ns
      BY <1>1, <1>2
    <2>2. CASE ns = {}
      BY <2>1, <2>2 DEF StockAfter
    <2>3. CASE ns # {}
      <3>1. Max(ns) \in 1..N
        <4>1. IsFiniteSet(1..n)
          BY <1>1, FS_Interval
        <4>2. IsFiniteSet(ns)
          BY <4>1, FS_Subset
        <4>3. \A k \in ns : k \in Nat /\ k \in 1..N
          BY <1>1
        <4> HIDE DEF ns
        <4> QED BY <2>3, <4>2, <4>3, LastOf
      <3> QED BY <1>2, <2>1, <2>3, <3>1 DEF StockAfter
    <2> QED BY <2>2, <2>3
  <1>4. StockAfter(t, m.row, N + 1)' = m.newStock
    <2> DEFINE ns == {k \in 1..(N + 1) : moves'[t][k].row = m.row}
    <2>1. N + 1 \in ns /\ \A k \in ns : k \in Int /\ N + 1 >= k
      BY <1>1, <1>2
    <2>2. Max(ns) = N + 1
      <3> HIDE DEF ns
      <3>1. \A k \in ns : (\A l \in ns : k >= l) => k = N + 1
        BY <1>1, <2>1
      <3> QED BY <2>1, <3>1 DEF Max
    <2> QED BY <1>2, <2>1, <2>2 DEF StockAfter
  <1>5. ASSUME NEW r \in Rows \ {m.row}
        PROVE  StockAfter(t, r, N + 1)' = StockAfter(t, r, N)
    <2>1. {k \in 1..(N + 1) : moves'[t][k].row = r} = {k \in 1..N : moves'[t][k].row = r}
      BY <1>1, <1>2
    <2>2. StockAfter(t, r, N + 1)' = StockAfter(t, r, N)'
      BY <2>1 DEF StockAfter
    <2> QED BY <1>1, <1>3, <2>2
  <1> QED BY <1>2, <1>3, <1>4, <1>5

LEMMA UpdateAggregateJournals ==
  ASSUME JInv, TypeOK', NEW t \in Txs, UpdateAggregate(t)
  PROVE  \A u \in Txs : JournalOK(u)'
  <1>0. TypeOK /\ ReqOK /\ pc[t] = "aggregate"
    BY DEF JInv, OInv, IInv, UpdateAggregate
  <1>1. Row(t) \in Rows /\ rowLock[Row(t)] = t /\ Delta(t) \in Int
    BY <1>0, RowUnderway, LineFacts DEF JInv
  <1> PICK new : new = qty[Row(t)] + pend[t][Row(t)]
    OBVIOUS
  <1> PICK row : row = Row(t)
    OBVIOUS
  <1> PICK m : m = [row |-> row, previousStock |-> new - Delta(t), newStock |-> new]
    OBVIOUS
  <1> PICK N : N = Len(moves[t])
    OBVIOUS
  <1>2. new \in Int /\ m \in Move /\ m.row = row /\ m.newStock = new /\ m.previousStock = new - Delta(t)
    BY <1>0, <1>1 DEF TypeOK, Move
  <1>3. moves' = [moves EXCEPT ![t] = Append(moves[t], m)]
    BY DEF UpdateAggregate
  <1>4. N \in Nat /\ \A n \in 1..N : moves[t][n].row \in Rows
    BY <1>0, MoveFacts
  <1>5. UNCHANGED <<flag, qty, rowLock, req, pend>>
    BY DEF UpdateAggregate, db
  <1>6. pc'[t] \in {"adjust", "commit"} /\ \A u \in Txs \ {t} : pc'[u] = pc[u] /\ line'[u] = line[u]
    BY <1>0 DEF UpdateAggregate, TypeOK
  <1>7. moves'[t] = Append(moves[t], m) /\ \A u \in Txs \ {t} : moves'[u] = moves[u]
    BY <1>0, <1>3 DEF TypeOK
  <1>8. \A u \in Txs \ {t} : JournalOK(u)'
    BY <1>5, <1>6, <1>7, OthersJournals
  <1>9. JournalOK(t)'
    <2>1. /\ Len(moves'[t]) = N + 1 /\ moves'[t][N + 1] = m
          /\ \A n \in 1..N : moves'[t][n] = moves[t][n]
          /\ \A r \in Rows, n \in 0..N : StockAfter(t, r, n)' = StockAfter(t, r, n)
      BY <1>0, <1>2, <1>5, <1>7, NextMovement
    <2>2. /\ StockAfter(t, row, N + 1)' = m.newStock
          /\ \A r \in Rows \ {row} : StockAfter(t, r, N + 1)' = StockAfter(t, r, N)
      BY <1>0, <1>2, <1>5, <1>7, NextMovement
    <2>3. \A r \in Rows : StockAfter(t, r, N) + Unrecorded(t, r) = qty[r] + pend[t][r] /\ StockAfter(t, r, N) \in Int
      BY <1>0, <1>4, AfterType DEF JInv, JournalOK
    <2>4. \A r \in Rows : Unrecorded(t, r) = (IF r = Row(t) THEN Delta(t) ELSE 0) /\ Unrecorded(t, r)' = 0
      BY <1>0, <1>6 DEF Unrecorded
    <2>5. ASSUME NEW n \in 1..(N + 1), NEW r, r = moves'[t][n].row
          PROVE  rowLock'[r] = t /\ moves'[t][n].previousStock = StockAfter(t, r, n - 1)'
      <3>1. CASE n = N + 1
        <4>1. StockAfter(t, row, N)' = StockAfter(t, row, N)
          BY <1>1, <1>2, <1>4, <2>1
        <4>2. m.previousStock = StockAfter(t, row, N)
          BY <1>1, <1>2, <2>3, <2>4
        <4>3. n - 1 = N /\ moves'[t][n] = m
          BY <1>4, <2>1, <3>1
        <4> QED BY <1>1, <1>2, <1>5, <2>5, <4>1, <4>2, <4>3
      <3>2. CASE n # N + 1
        <4>1. n \in 1..N /\ n - 1 \in 0..N
          BY <1>4, <3>2
        <4>2. moves'[t][n] = moves[t][n] /\ r = moves[t][n].row /\ r \in Rows
          BY <1>4, <2>1, <2>5, <4>1
        <4>3. rowLock[r] = t /\ moves[t][n].previousStock = StockAfter(t, r, n - 1)
          BY <4>1, <4>2 DEF JInv, JournalOK
        <4>4. StockAfter(t, r, n - 1)' = StockAfter(t, r, n - 1)
          BY <2>1, <4>1, <4>2
        <4> QED BY <1>5, <4>2, <4>3, <4>4
      <3> QED BY <3>1, <3>2
    <2>6. ASSUME NEW r \in Rows
          PROVE  StockAfter(t, r, N + 1)' + Unrecorded(t, r)' = qty'[r] + pend'[t][r]
      <3>1. qty[r] \in Int /\ pend[t][r] \in Int
        BY <1>0 DEF TypeOK
      <3>2. CASE r = Row(t)
        <4>1. StockAfter(t, r, N + 1)' = qty[r] + pend[t][r]
          BY <1>2, <2>2, <3>2
        <4> QED BY <1>5, <2>4, <3>1, <4>1
      <3>3. CASE r # Row(t)
        <4>1. StockAfter(t, r, N + 1)' = StockAfter(t, r, N)
          BY <1>2, <2>2, <3>3
        <4> QED BY <1>5, <2>3, <2>4, <3>1, <3>3, <4>1
      <3> QED BY <3>2, <3>3
    <2>7. pc'[t] # "idle"
      BY <1>6
    <2> QED BY <2>1, <2>5, <2>6, <2>7 DEF JournalOK
  <1> QED BY <1>8, <1>9

\* A script holds the flag, so no row is locked and no journal is begun.
LEMMA ScriptJournals ==
  ASSUME JInv, TypeOK', script # None, UNCHANGED <<rowLock, pc, moves, pend>>
  PROVE  \A u \in Txs : JournalOK(u)'
  <1> TAKE u \in Txs
  <1>0. IInv /\ TypeOK /\ None \notin Txs
    BY ConstantsAssumption DEF JInv, OInv, IInv
  <1>1. (\A r \in Rows : rowLock[r] = None) /\ pc[u] # "aggregate"
    BY <1>0, ScriptExcludes DEF IInv, RowLockOK, FlagLockHeld
  <1>2. \A r \in Rows : Unrecorded(u, r)' = Unrecorded(u, r)
    BY <1>1 DEF Unrecorded
  <1> QED BY <1>0, <1>1, <1>2, SameJournal DEF JInv

LEMMA UnchangedJournals ==
  ASSUME JInv, TypeOK', UNCHANGED <<flag, qty, rowLock, pc, req, line, moves, pend>>
  PROVE  \A u \in Txs : JournalOK(u)'
  BY SameUnrecorded, SameJournal DEF JInv

LEMMA EnvironmentJournals ==
  ASSUME JInv, TypeOK', Environment
  PROVE  \A u \in Txs : JournalOK(u)'
  <1>1. CASE Cutover \/ CutoverRollback
    <2>1. script # None /\ UNCHANGED <<rowLock, pc, moves, pend>>
      BY <1>1, ConstantsAssumption DEF Cutover, CutoverRollback, txs, db, RequestKinds
    <2> QED BY <2>1, ScriptJournals
  <1>2. ASSUME \/ \E s \in Shops, p \in Products, to \in {"assigned", "unassigned"} : SetBranchAssignment(s, p, to)
               \/ \E name \in {"cutover", "rollback"} : ScriptLock(name)
               \/ \E c \in Cashiers : SignUp(c) \/ Approval(c) \/ SuspendCashier(c) \/ ActivateCashier(c)
        PROVE  \A u \in Txs : JournalOK(u)'
    <2>1. UNCHANGED <<flag, qty, rowLock, pc, req, line, moves, pend>>
      BY <1>2 DEF SetBranchAssignment, ScriptLock, SignUp, Approval, SuspendCashier, ActivateCashier, SetAccount,
           AssertNoStrandedCashierStock, ReadModeForApproval, InitializeCashierInventory, ApprovalFails, db, locks, txs
    <2> QED BY <2>1, UnchangedJournals
  <1> QED BY <1>1, <1>2 DEF Environment

LEMMA InitJInv == Init => JInv
  <1> SUFFICES ASSUME Init PROVE \A t \in Txs : JournalOK(t)
    BY InitOInv DEF JInv
  <1> TAKE t \in Txs
  <1>1. moves[t] = <<>> /\ pc[t] = "idle" /\ pend[t] = NoPend /\ Len(moves[t]) = 0
    BY DEF Init
  <1>2. \A r \in Rows : StockAfter(t, r, 0) = qty[r] /\ Unrecorded(t, r) = 0 /\ pend[t][r] = 0
    BY <1>1, StockAtFirst, EmptyRequest DEF Unrecorded
  <1> QED BY <1>1, <1>2 DEF JournalOK

LEMMA NextJInv ==
  ASSUME JInv, [Next]_vars
  PROVE  JInv'
  <1>0. OInv' /\ TypeOK' /\ TypeOK
    BY NextOInv DEF JInv, OInv, IInv
  <1>1. ASSUME NEW t \in Txs, Rollback(t) \/ Commit(t) PROVE JInv'
    BY <1>0, <1>1, EndJournals DEF JInv
  <1>2. ASSUME NEW t \in Txs, NEW r, NEW first \in {"claim", "adjust"}, Begin(t, r, first) PROVE JInv'
    <2>1. /\ UNCHANGED <<flag, qty, rowLock, moves, pend>>
          /\ \A u \in Txs \ {t} : pc'[u] = pc[u] /\ req'[u] = req[u] /\ line'[u] = line[u]
          /\ pc[t] = "idle" /\ pc'[t] = first
      BY <1>0, <1>2 DEF Begin, TypeOK, db, locks
    <2> QED BY <1>0, <2>1, QuietJournals DEF JInv
  <1>3. ASSUME NEW t \in Txs, Request(t) PROVE JInv'
    BY <1>2, <1>3 DEF Request, BeginSale, BeginCancel, BeginPurchase, BeginReverse, BeginAdjustment
  <1>4. ASSUME NEW t \in Txs, ClaimDoc(t) \/ AdjustStock(t) PROVE JInv'
    <2>1. CASE ~Rollback(t)
      <3>1. /\ UNCHANGED <<flag, qty, rowLock, moves, pend, req, line>>
            /\ \A u \in Txs \ {t} : pc'[u] = pc[u]
            /\ pc[t] \in {"claim", "adjust"} /\ pc'[t] \in {"adjust", "row"}
        BY <1>0, <1>4, <2>1 DEF ClaimDoc, AdjustStock, TypeOK, db
      <3> QED BY <1>0, <3>1, QuietJournals DEF JInv
    <2> QED BY <1>1, <2>1
  <1>5. ASSUME NEW t \in Txs, UpdateRow(t) \/ UpdateAggregate(t) PROVE JInv'
    BY <1>0, <1>5, UpdateRowJournals, UpdateAggregateJournals DEF JInv
  <1>6. CASE Environment
    BY <1>0, <1>6, EnvironmentJournals DEF JInv
  <1>7. CASE UNCHANGED vars
    BY <1>0, <1>7, UnchangedJournals DEF JInv, vars
  <1> QED BY <1>1, <1>3, <1>4, <1>5, <1>6, <1>7 DEF Next, Step, Fail, DeadlockVictim

\* Each open transaction's journal follows the rows it has locked.
THEOREM JournalInvariant == Spec => []JInv
  BY InitJInv, NextJInv, PTL DEF Spec

\* What a transaction commits to the journal chains from each row's committed
\* quantity, movement by movement, to the quantity it commits.
THEOREM JournalsChain == Spec => JournalChains
  <1> DEFINE Chained == \A t \in Txs : pc[t] = "commit" /\ pc'[t] = "idle" /\ qty' # qty =>
               /\ \A n \in 1..Len(moves[t]) : moves[t][n].previousStock = StockAfter(t, moves[t][n].row, n - 1)
               /\ \A r \in Rows : qty'[r] = StockAfter(t, r, Len(moves[t]))
  <1>1. ASSUME JInv, [Next]_vars PROVE Chained
    <2> SUFFICES ASSUME NEW t \in Txs, pc[t] = "commit", pc'[t] = "idle", qty' # qty
                 PROVE  /\ \A n \in 1..Len(moves[t]) : moves[t][n].previousStock = StockAfter(t, moves[t][n].row, n - 1)
                        /\ \A r \in Rows : qty'[r] = StockAfter(t, r, Len(moves[t]))
      OBVIOUS
    <2>0. TypeOK
      BY <1>1 DEF JInv, OInv, IInv
    <2>1. Commit(t)
      <3>1. ASSUME NEW u \in Txs, Request(u) PROVE FALSE
        BY <3>1 DEF Request, BeginSale, BeginCancel, BeginPurchase, BeginReverse, BeginAdjustment, Begin, db
      <3>2. ASSUME NEW u \in Txs, Rollback(u) PROVE FALSE
        BY <3>2 DEF Rollback, db
      <3>3. ASSUME NEW u \in Txs, ClaimDoc(u) \/ AdjustStock(u) \/ UpdateRow(u) \/ UpdateAggregate(u) PROVE FALSE
        BY <3>2, <3>3 DEF ClaimDoc, AdjustStock, UpdateRow, UpdateAggregate, db
      <3>4. ASSUME NEW u \in Txs, Commit(u) PROVE u = t
        BY <2>0, <3>4 DEF Commit, TypeOK
      <3>5. ASSUME Environment PROVE FALSE
        <4>1. pc' = pc
          BY <3>5 DEF Environment, SetBranchAssignment, ScriptLock, Cutover, CutoverRollback, SignUp, Approval,
               SuspendCashier, ActivateCashier, SetAccount, AssertNoStrandedCashierStock, ReadModeForApproval,
               InitializeCashierInventory, ApprovalFails, txs
        <4> QED BY <4>1
      <3> QED BY <1>1, <3>1, <3>2, <3>3, <3>4, <3>5 DEF Next, Step, Fail, DeadlockVictim, vars
    <2>2. ASSUME NEW r \in Rows PROVE qty'[r] = StockAfter(t, r, Len(moves[t]))
      <3>1. StockAfter(t, r, Len(moves[t])) \in Int
        BY <2>0, MoveFacts, AfterType
      <3>2. Unrecorded(t, r) = 0 /\ StockAfter(t, r, Len(moves[t])) + Unrecorded(t, r) = qty[r] + pend[t][r]
        BY <1>1 DEF Unrecorded, JInv, JournalOK
      <3> QED BY <2>1, <3>1, <3>2 DEF Commit
    <2> QED BY <1>1, <2>2 DEF JInv, JournalOK
  <1>2. [Chained]_vars <=> (Chained \/ UNCHANGED vars)
    OBVIOUS
  <1> QED BY <1>1, JournalInvariant, PTL DEF Spec, JournalChains
=============================================================================

------------------------- MODULE StockTotalsProofs -------------------------
(***************************************************************************)
(* Proofs about the totals of StockLedger: what a branch holds is what its *)
(* documents and adjustments say, and Product.stock is the sum over the    *)
(* branches.                                                               *)
(***************************************************************************)
EXTENDS StockLedgerProofs

\* What the first k lines say of product p.
LinesUpTo(lines, k, p) ==
  SumFunctionOnSet([n \in 1..Len(lines) |-> lines[n].qty], {n \in 1..k : lines[n].product = p})

\* What t has buffered: its quantities come in or go out, at the holder it
\* works on, for the lines it has been through.
Signed(t, n) == IF req[t].kind \in {"cancel", "purchase", "add"} THEN n ELSE 0 - n

BufferOK(t) ==
  /\ \A r \in Rows : pend[t][r] = IF r[1] = Holder(t) THEN Signed(t, LinesUpTo(req[t].lines, RowsDone(t), r[2])) ELSE 0
  /\ \A p \in Products : agg[t][p] = Signed(t, LinesUpTo(req[t].lines, SumsDone(t), p))
  /\ RowsDone(t) > 0 => t \in share /\ (flag = "CASHIER" => req[t].cashier \in Cashiers)
  /\ pc[t] = "commit" => line[t] = Len(req[t].lines)

BuffersOK ==
  \A t \in Txs : IF pc[t] = "idle" THEN req[t].doc = None /\ pend[t] = NoPend /\ agg[t] = NoAgg ELSE BufferOK(t)

\* A request names a cashier of its branch.  A document being created is
\* nobody else's; one being undone is of the request's branch and has its
\* quantities, and past the claim it still stands and is locked.
RequestOK(t) ==
  LET r == req[t]  d == req[t].doc
  IN  /\ r.kind \in {"sale", "cancel", "purchase", "reverse", "add", "remove"}
      /\ r.cashier # None => CashierShop[r.cashier] = r.shop
      /\ r.kind \in {"sale", "cancel"} => d \in Bills
      /\ r.kind \in {"purchase", "reverse"} => d \in Purchases
      /\ r.kind \in {"add", "remove"} => d = None /\ Len(r.lines) = 1
      /\ r.kind \in {"sale", "purchase"} => doc[d].status = "none" /\ \A u \in Txs \ {t} : req[u].doc # d
      /\ r.kind \in {"cancel", "reverse"} =>
           /\ doc[d].status # "none" /\ r.shop = doc[d].shop
           /\ \A p \in Products : LineTotal(r.lines, p) = LineTotal(doc[d].lines, p)
           /\ pc[t] # "claim" => docLock[d] = t /\ doc[d].status = IF r.kind = "cancel" THEN "PAID" ELSE "RECEIVED"

RequestsOK == \A t \in Txs : pc[t] # "idle" => RequestOK(t)

\* A document names a cashier of its branch and has a status of its kind.
DocumentsOK ==
  /\ \A d \in Docs : doc[d].status # "none" =>
       /\ doc[d].cashier # None => CashierShop[doc[d].cashier] = doc[d].shop
       /\ doc[d].status \in IF d \in Bills THEN {"PAID", "CANCELLED"} ELSE {"RECEIVED", "REVERSED"}
  /\ IsFiniteSet({d \in Docs : doc[d].status # "none"})

TInv == IInv /\ BuffersOK /\ RequestsOK /\ DocumentsOK /\ StockConserved /\ AggregateInStep

-----------------------------------------------------------------------------
(* Sums of integer functions over finite sets.  The sum is a recursive     *)
(* function over subsets; each fact looks at a smallest subset for which   *)
(* it would fail.                                                          *)

Pick(s) == CHOOSE x \in s : TRUE

\* g is the recursive function behind the sum of f over S.
Sums(f, S, g) == g = [s \in SUBSET S |-> IF s = {} THEN 0 ELSE f[Pick(s)] + g[s \ {Pick(s)}]]

LEMMA SumUnfolded ==
  ASSUME NEW f, NEW S
  PROVE  SumFunctionOnSet(f, S) = (CHOOSE g : Sums(f, S, g))[S]
  BY DEF SumFunctionOnSet, FoldFunctionOnSet, MapThenFoldSet, Sums, Pick

LEMMA PickFact == \A s : s # {} => Pick(s) \in s
  BY DEF Pick

LEMMA SumsAgree ==
  ASSUME NEW f, NEW A, IsFiniteSet(A), NEW B \in SUBSET A, NEW g, Sums(f, A, g), NEW h, Sums(f, B, h)
  PROVE  \A s \in SUBSET B : g[s] = h[s]
  <1> DEFINE F == {s \in SUBSET B : g[s] # h[s]}
  <1> SUFFICES ASSUME F # {} PROVE FALSE
    OBVIOUS
  <1>0. IsFiniteSet(B) /\ F \in SUBSET SUBSET B
    BY FS_Subset
  <1>1. PICK s \in F : \A U \in F : U \subseteq s => U = s
    <2> HIDE DEF F
    <2> QED BY <1>0, SmallestSubset
  <1>2. s # {}
    BY DEF Sums
  <1>3. Pick(s) \in s
    BY <1>2, PickFact
  <1>4. g[s] = f[Pick(s)] + g[s \ {Pick(s)}] /\ h[s] = f[Pick(s)] + h[s \ {Pick(s)}]
    BY <1>2 DEF Sums
  <1>5. g[s \ {Pick(s)}] = h[s \ {Pick(s)}]
    BY <1>1, <1>3
  <1> QED BY <1>4, <1>5

LEMMA SumsAgreeAt ==
  ASSUME NEW f, NEW A, IsFiniteSet(A), NEW B, B \subseteq A, NEW g, NEW h, Sums(f, A, g), Sums(f, B, h)
  PROVE  g[B] = h[B]
  BY SumsAgree

LEMMA SumsExist ==
  ASSUME NEW f, NEW S, IsFiniteSet(S)
  PROVE  \E g : Sums(f, S, g)
  <1> DEFINE F == {T \in SUBSET S : ~ \E g : Sums(f, T, g)}
  <1> SUFFICES ASSUME F # {} PROVE FALSE
    OBVIOUS
  <1>0. F \in SUBSET SUBSET S
    OBVIOUS
  <1>1. PICK T \in F : \A U \in F : U \subseteq T => U = T
    <2> HIDE DEF F
    <2> QED BY <1>0, SmallestSubset
  <1> DEFINE G(U) == CHOOSE g : Sums(f, U, g)
  <1>2. \A U \in SUBSET T : U # T => Sums(f, U, G(U))
    BY <1>1
  <1> DEFINE h == [s \in SUBSET T |-> IF s = {} THEN 0 ELSE f[Pick(s)] + G(s \ {Pick(s)})[s \ {Pick(s)}]]
  <1>3. ASSUME NEW s \in SUBSET T, s # {}
        PROVE  h[s \ {Pick(s)}] = G(s \ {Pick(s)})[s \ {Pick(s)}]
    <2> DEFINE r == s \ {Pick(s)}
    <2>1. r \in SUBSET T /\ r # T
      BY <1>3, PickFact
    <2>2. Sums(f, r, G(r))
      BY <1>2, <2>1
    <2>3. CASE r = {}
      BY <2>2, <2>3 DEF Sums
    <2>4. CASE r # {}
      <3> DEFINE q == r \ {Pick(r)}
      <3>1. q \in SUBSET T /\ q # T /\ q \in SUBSET r
        BY <2>1, <2>4, PickFact
      <3>2. Sums(f, q, G(q))
        BY <1>2, <3>1
      <3>3. IsFiniteSet(r)
        BY <2>1, FS_Subset
      <3>4. G(r)[q] = G(q)[q]
        BY <2>2, <3>1, <3>2, <3>3, SumsAgree
      <3>5. h[r] = f[Pick(r)] + G(q)[q]
        BY <2>1, <2>4
      <3>6. G(r)[r] = f[Pick(r)] + G(r)[q]
        BY <2>2, <2>4 DEF Sums
      <3> QED BY <3>4, <3>5, <3>6
    <2> QED BY <2>3, <2>4
  <1>4. Sums(f, T, h)
    <2>1. ASSUME NEW s \in SUBSET T
          PROVE  h[s] = IF s = {} THEN 0 ELSE f[Pick(s)] + h[s \ {Pick(s)}]
      <3>1. CASE s = {}
        BY <3>1
      <3>2. CASE s # {}
        <4>1. h[s] = f[Pick(s)] + G(s \ {Pick(s)})[s \ {Pick(s)}]
          BY <3>2
        <4> HIDE DEF h, G
        <4> QED BY <1>3, <3>2, <4>1
      <3> QED BY <3>1, <3>2
    <2>2. h = [s \in SUBSET T |-> h[s]]
      OBVIOUS
    <2> HIDE DEF h
    <2>3. [s \in SUBSET T |-> h[s]] = [s \in SUBSET T |-> IF s = {} THEN 0 ELSE f[Pick(s)] + h[s \ {Pick(s)}]]
      BY <2>1
    <2> QED BY <2>2, <2>3 DEF Sums
  <1> QED BY <1>1, <1>4

-----------------------------------------------------------------------------
(* The recursion, one element at a time.                                   *)

LEMMA SumEmpty ==
  ASSUME NEW f
  PROVE  SumFunctionOnSet(f, {}) = 0
  <1>1. PICK g : Sums(f, {}, g)
    BY SumsExist, FS_EmptySet
  <1>2. Sums(f, {}, CHOOSE h : Sums(f, {}, h))
    BY <1>1
  <1> QED BY <1>2, SumUnfolded DEF Sums

LEMMA SumPick ==
  ASSUME NEW f, NEW S, IsFiniteSet(S), S # {}
  PROVE  SumFunctionOnSet(f, S) = f[Pick(S)] + SumFunctionOnSet(f, S \ {Pick(S)})
  <1> DEFINE R == S \ {Pick(S)}
  <1>1. IsFiniteSet(R) /\ R \in SUBSET S
    BY FS_Subset
  <1>2. PICK g : g = CHOOSE h : Sums(f, S, h)
    OBVIOUS
  <1>3. PICK q : q = CHOOSE h : Sums(f, R, h)
    OBVIOUS
  <1>4. Sums(f, S, g)
    BY <1>2, SumsExist
  <1>5. Sums(f, R, q)
    BY <1>1, <1>3, SumsExist
  <1>6. g[R] = q[R]
    BY <1>1, <1>4, <1>5, SumsAgreeAt
  <1>7. g[S] = f[Pick(S)] + g[R]
    <2>1. S \in SUBSET S
      OBVIOUS
    <2>2. g = [s \in SUBSET S |-> IF s = {} THEN 0 ELSE f[Pick(s)] + g[s \ {Pick(s)}]]
      BY <1>4 DEF Sums
    <2> QED BY <2>1, <2>2
  <1>8. SumFunctionOnSet(f, S) = g[S]
    BY <1>2, SumUnfolded
  <1>9. SumFunctionOnSet(f, R) = q[R]
    BY <1>3, SumUnfolded
  <1> QED BY <1>6, <1>7, <1>8, <1>9

\* A sum of integers is an integer.
LEMMA SumType ==
  ASSUME NEW f, NEW S, IsFiniteSet(S), \A x \in S : f[x] \in Int
  PROVE  SumFunctionOnSet(f, S) \in Int
  <1> DEFINE F == {T \in SUBSET S : SumFunctionOnSet(f, T) \notin Int}
  <1> SUFFICES ASSUME F # {} PROVE FALSE
    OBVIOUS
  <1>1. PICK T \in F : \A U \in F : U \subseteq T => U = T
    <2> F \in SUBSET SUBSET S
      OBVIOUS
    <2> HIDE DEF F
    <2> QED BY SmallestSubset
  <1>2. T # {}
    BY SumEmpty
  <1>3. Pick(T) \in T /\ T \ {Pick(T)} \in SUBSET S /\ T \ {Pick(T)} \notin F
    BY <1>1, <1>2, PickFact
  <1>4. SumFunctionOnSet(f, T) = f[Pick(T)] + SumFunctionOnSet(f, T \ {Pick(T)})
    BY <1>2, SumPick, FS_Subset
  <1> QED BY <1>3, <1>4

\* The order of the elements does not matter.
LEMMA SumRemove ==
  ASSUME NEW f, NEW S, IsFiniteSet(S), \A y \in S : f[y] \in Int, NEW x \in S
  PROVE  SumFunctionOnSet(f, S) = f[x] + SumFunctionOnSet(f, S \ {x})
  <1> DEFINE F == {T \in SUBSET S : \E y \in T : SumFunctionOnSet(f, T) # f[y] + SumFunctionOnSet(f, T \ {y})}
  <1> SUFFICES ASSUME F # {} PROVE FALSE
    OBVIOUS
  <1>1. PICK T \in F : \A U \in F : U \subseteq T => U = T
    <2> F \in SUBSET SUBSET S
      OBVIOUS
    <2> HIDE DEF F
    <2> QED BY SmallestSubset
  <1>2. PICK y \in T : SumFunctionOnSet(f, T) # f[y] + SumFunctionOnSet(f, T \ {y})
    OBVIOUS
  <1>3. PICK p : p = Pick(T)
    OBVIOUS
  <1>4. p \in T /\ SumFunctionOnSet(f, T) = f[p] + SumFunctionOnSet(f, T \ {p})
    BY <1>2, <1>3, PickFact, SumPick, FS_Subset
  <1>5. p # y
    BY <1>2, <1>4
  <1> DEFINE R == T \ {p, y}
  <1>6. SumFunctionOnSet(f, T \ {p}) = f[y] + SumFunctionOnSet(f, R)
    <2>1. T \ {p} \in SUBSET S /\ T \ {p} # T /\ y \in T \ {p} /\ (T \ {p}) \ {y} = R
      BY <1>4, <1>5
    <2>2. T \ {p} \notin F
      BY <1>1, <2>1
    <2> QED BY <2>1, <2>2
  <1>7. SumFunctionOnSet(f, T \ {y}) = f[p] + SumFunctionOnSet(f, R)
    <2>1. T \ {y} \in SUBSET S /\ T \ {y} # T /\ p \in T \ {y} /\ (T \ {y}) \ {p} = R
      BY <1>4, <1>5
    <2>2. T \ {y} \notin F
      BY <1>1, <2>1
    <2> QED BY <2>1, <2>2
  <1>8. SumFunctionOnSet(f, R) \in Int /\ f[p] \in Int /\ f[y] \in Int
    BY <1>4, SumType, FS_Subset
  <1> QED BY <1>2, <1>4, <1>6, <1>7, <1>8

LEMMA SumAdd ==
  ASSUME NEW f, NEW S, IsFiniteSet(S), NEW x, x \notin S, \A y \in S \cup {x} : f[y] \in Int
  PROVE  SumFunctionOnSet(f, S \cup {x}) = SumFunctionOnSet(f, S) + f[x]
  <1>1. IsFiniteSet(S \cup {x}) /\ (S \cup {x}) \ {x} = S
    BY FS_AddElement
  <1>2. SumFunctionOnSet(f, S \cup {x}) = f[x] + SumFunctionOnSet(f, S)
    BY <1>1, SumRemove
  <1>3. SumFunctionOnSet(f, S) \in Int
    BY SumType
  <1> QED BY <1>2, <1>3

\* The sum depends on the values only.
LEMMA SumEqual ==
  ASSUME NEW f, NEW g, NEW S, IsFiniteSet(S), \A x \in S : f[x] = g[x]
  PROVE  SumFunctionOnSet(f, S) = SumFunctionOnSet(g, S)
  <1> DEFINE F == {T \in SUBSET S : SumFunctionOnSet(f, T) # SumFunctionOnSet(g, T)}
  <1> SUFFICES ASSUME F # {} PROVE FALSE
    OBVIOUS
  <1>1. PICK T \in F : \A U \in F : U \subseteq T => U = T
    <2> F \in SUBSET SUBSET S
      OBVIOUS
    <2> HIDE DEF F
    <2> QED BY SmallestSubset
  <1>2. T # {}
    BY SumEmpty
  <1>3. Pick(T) \in T /\ T \ {Pick(T)} \in SUBSET S /\ T \ {Pick(T)} \notin F /\ IsFiniteSet(T)
    BY <1>1, <1>2, PickFact, FS_Subset
  <1>4. SumFunctionOnSet(f, T) = f[Pick(T)] + SumFunctionOnSet(f, T \ {Pick(T)})
    BY <1>2, <1>3, SumPick
  <1>5. SumFunctionOnSet(g, T) = g[Pick(T)] + SumFunctionOnSet(g, T \ {Pick(T)})
    BY <1>2, <1>3, SumPick
  <1> QED BY <1>3, <1>4, <1>5

\* One value changes: the sum changes by as much.
LEMMA SumPoint ==
  ASSUME NEW f, NEW g, NEW S, IsFiniteSet(S), \A y \in S : f[y] \in Int,
         NEW x \in S, g[x] \in Int, \A y \in S \ {x} : g[y] = f[y]
  PROVE  SumFunctionOnSet(g, S) = SumFunctionOnSet(f, S) + (g[x] - f[x])
  <1>1. IsFiniteSet(S \ {x}) /\ SumFunctionOnSet(f, S \ {x}) \in Int
    BY SumType, FS_Subset
  <1>2. SumFunctionOnSet(g, S \ {x}) = SumFunctionOnSet(f, S \ {x})
    BY <1>1, SumEqual
  <1>3. SumFunctionOnSet(f, S) = f[x] + SumFunctionOnSet(f, S \ {x})
    BY SumRemove
  <1>4. SumFunctionOnSet(g, S) = g[x] + SumFunctionOnSet(g, S \ {x})
    <2>1. \A y \in S : g[y] \in Int
      OBVIOUS
    <2> QED BY <2>1, SumRemove
  <1>5. f[x] \in Int /\ g[x] \in Int
    OBVIOUS
  <1> QED BY <1>1, <1>2, <1>3, <1>4, <1>5

LEMMA SumOfZeros ==
  ASSUME NEW f, NEW S, IsFiniteSet(S), \A x \in S : f[x] = 0
  PROVE  SumFunctionOnSet(f, S) = 0
  <1> DEFINE F == {T \in SUBSET S : SumFunctionOnSet(f, T) # 0}
  <1> SUFFICES ASSUME F # {} PROVE FALSE
    OBVIOUS
  <1>1. PICK T \in F : \A U \in F : U \subseteq T => U = T
    <2> F \in SUBSET SUBSET S
      OBVIOUS
    <2> HIDE DEF F
    <2> QED BY SmallestSubset
  <1>2. T # {}
    BY SumEmpty
  <1>3. Pick(T) \in T /\ T \ {Pick(T)} \in SUBSET S /\ T \ {Pick(T)} \notin F /\ IsFiniteSet(T)
    BY <1>1, <1>2, PickFact, FS_Subset
  <1>4. SumFunctionOnSet(f, T) = f[Pick(T)] + SumFunctionOnSet(f, T \ {Pick(T)})
    BY <1>2, <1>3, SumPick
  <1> QED BY <1>3, <1>4

\* Nothing is added outside T.
LEMMA SumOnSubset ==
  ASSUME NEW f, NEW S, IsFiniteSet(S), \A x \in S : f[x] \in Int, NEW T, T \subseteq S, \A x \in S \ T : f[x] = 0
  PROVE  SumFunctionOnSet(f, S) = SumFunctionOnSet(f, T)
  <1> DEFINE F == {U \in SUBSET S : T \subseteq U /\ SumFunctionOnSet(f, U) # SumFunctionOnSet(f, T)}
  <1> SUFFICES ASSUME F # {} PROVE FALSE
    OBVIOUS
  <1>1. PICK U \in F : \A V \in F : V \subseteq U => V = U
    <2> F \in SUBSET SUBSET S
      OBVIOUS
    <2> HIDE DEF F
    <2> QED BY SmallestSubset
  <1>2. PICK x \in U : x \notin T
    <2>1. U # T
      OBVIOUS
    <2> QED BY <2>1
  <1>3. U \ {x} \in SUBSET S /\ T \subseteq U \ {x} /\ U \ {x} # U
    BY <1>2
  <1>4. SumFunctionOnSet(f, U \ {x}) = SumFunctionOnSet(f, T)
    BY <1>1, <1>3
  <1>5. IsFiniteSet(U) /\ IsFiniteSet(U \ {x}) /\ \A y \in U : f[y] \in Int
    BY <1>3, FS_Subset
  <1>6. SumFunctionOnSet(f, U) = f[x] + SumFunctionOnSet(f, U \ {x}) /\ SumFunctionOnSet(f, U \ {x}) \in Int
    <2>1. \A y \in U \ {x} : f[y] \in Int
      BY <1>5
    <2> QED BY <1>2, <1>5, <2>1, SumRemove, SumType
  <1>7. f[x] = 0
    BY <1>2
  <1> QED BY <1>4, <1>6, <1>7

\* A sum of equal terms.
LEMMA SumOfEquals ==
  ASSUME NEW f, NEW S, IsFiniteSet(S), NEW k \in Int, \A x \in S : f[x] = k
  PROVE  SumFunctionOnSet(f, S) = k * Cardinality(S)
  <1> DEFINE F == {T \in SUBSET S : SumFunctionOnSet(f, T) # k * Cardinality(T)}
  <1> SUFFICES ASSUME F # {} PROVE FALSE
    OBVIOUS
  <1>1. PICK T \in F : \A U \in F : U \subseteq T => U = T
    <2> F \in SUBSET SUBSET S
      OBVIOUS
    <2> HIDE DEF F
    <2> QED BY SmallestSubset
  <1>2. T # {}
    <2>1. k * 0 = 0
      OBVIOUS
    <2> QED BY <2>1, SumEmpty, FS_EmptySet
  <1>3. PICK x \in T : TRUE
    BY <1>2
  <1>4. T \ {x} \in SUBSET S /\ T \ {x} \notin F /\ IsFiniteSet(T) /\ \A y \in T : f[y] \in Int
    BY <1>1, <1>3, FS_Subset
  <1>5. SumFunctionOnSet(f, T) = f[x] + SumFunctionOnSet(f, T \ {x})
    BY <1>3, <1>4, SumRemove
  <1>6. Cardinality(T \ {x}) = Cardinality(T) - 1 /\ Cardinality(T) \in Nat
    BY <1>3, <1>4, FS_RemoveElement, FS_CardinalityType
  <1>7. SumFunctionOnSet(f, T) = k + k * (Cardinality(T) - 1)
    BY <1>4, <1>5, <1>6
  <1>8. \A c \in Nat : k + k * (c - 1) = k * c
    OBVIOUS
  <1> QED BY <1>6, <1>7, <1>8

-----------------------------------------------------------------------------
(* Lines.                                                                  *)

LEMMA LinesUpToFacts ==
  ASSUME NEW lines \in LineSeqs, NEW k \in 0..Len(lines), NEW p
  PROVE  LinesUpTo(lines, k, p) \in Int
  <1> DEFINE S == {n \in 1..k : lines[n].product = p}
             f == [n \in 1..Len(lines) |-> lines[n].qty]
  <1>1. k \in Nat /\ Len(lines) \in Nat /\ k <= Len(lines)
    BY LineSeqsFacts
  <1>2. IsFiniteSet(1..k) /\ S \subseteq 1..k
    BY <1>1, FS_Interval
  <1>3. IsFiniteSet(S)
    BY <1>2, FS_Subset
  <1>4. \A n \in S : f[n] \in Int
    BY <1>1, LineSeqsFacts, ConstantsAssumption DEF Line
  <1>5. LinesUpTo(lines, k, p) = SumFunctionOnSet(f, S)
    BY DEF LinesUpTo
  <1> HIDE DEF f, S
  <1> QED BY <1>3, <1>4, <1>5, SumType

LEMMA NoLines ==
  ASSUME NEW lines \in LineSeqs, NEW p
  PROVE  LinesUpTo(lines, 0, p) = 0
  <1>1. {n \in 1..0 : lines[n].product = p} = {}
    OBVIOUS
  <1> QED BY <1>1, SumEmpty DEF LinesUpTo

LEMMA NextLine ==
  ASSUME NEW lines \in LineSeqs, NEW k \in 1..Len(lines), NEW p
  PROVE  LinesUpTo(lines, k, p) =
           IF lines[k].product = p THEN LinesUpTo(lines, k - 1, p) + lines[k].qty ELSE LinesUpTo(lines, k - 1, p)
  <1> DEFINE S == {n \in 1..(k - 1) : lines[n].product = p}
             T == {n \in 1..k : lines[n].product = p}
             f == [n \in 1..Len(lines) |-> lines[n].qty]
  <1>1. k \in Nat /\ k - 1 \in Nat /\ Len(lines) \in Nat /\ k <= Len(lines)
    BY LineSeqsFacts
  <1>2. LinesUpTo(lines, k, p) = SumFunctionOnSet(f, T) /\ LinesUpTo(lines, k - 1, p) = SumFunctionOnSet(f, S)
    BY DEF LinesUpTo
  <1>3. CASE lines[k].product # p
    <2>1. T = S
      BY <1>1, <1>3
    <2> HIDE DEF f, S, T
    <2> QED BY <1>2, <1>3, <2>1
  <1>4. CASE lines[k].product = p
    <2>1. T = S \cup {k} /\ k \notin S
      <3>1. ASSUME NEW n \in 1..k PROVE n \in 1..(k - 1) \/ n = k
        BY <1>1
      <3>2. k \notin 1..(k - 1) /\ k \in 1..k /\ 1..(k - 1) \subseteq 1..k
        BY <1>1
      <3>3. T \subseteq S \cup {k}
        BY <3>1
      <3>4. S \subseteq T /\ k \in T /\ k \notin S
        BY <1>4, <3>2
      <3> HIDE DEF S, T
      <3> QED BY <3>3, <3>4
    <2>2. \A n \in S \cup {k} : f[n] \in Int
      BY <1>1, LineSeqsFacts, ConstantsAssumption DEF Line
    <2>3. IsFiniteSet(1..(k - 1))
      BY <1>1, FS_Interval
    <2>4. IsFiniteSet(S)
      <3> S \subseteq 1..(k - 1)
        OBVIOUS
      <3> HIDE DEF S
      <3> QED BY <2>3, FS_Subset
    <2>5. f[k] = lines[k].qty
      BY <1>1
    <2> HIDE DEF f, S, T
    <2>6. SumFunctionOnSet(f, S \cup {k}) = SumFunctionOnSet(f, S) + f[k]
      BY <2>1, <2>2, <2>4, SumAdd
    <2> QED BY <1>2, <1>4, <2>1, <2>5, <2>6
  <1> QED BY <1>3, <1>4

LEMMA AllLines ==
  ASSUME NEW lines \in LineSeqs, NEW p
  PROVE  LinesUpTo(lines, Len(lines), p) = LineTotal(lines, p) /\ LineTotal(lines, p) \in Int
  <1>1. Len(lines) \in 0..Len(lines)
    BY LineSeqsFacts
  <1>2. LinesUpTo(lines, Len(lines), p) = LineTotal(lines, p)
    BY DEF LinesUpTo, LineTotal
  <1> QED BY <1>1, <1>2, LinesUpToFacts

-----------------------------------------------------------------------------
(* Steps that leave the totals alone.                                      *)

LEMMA TotalsKept ==
  ASSUME TInv, UNCHANGED <<flag, qty, stock, doc, adjusted>>
  PROVE  StockConserved' /\ AggregateInStep'
  <1>1. \A s, p : OnHand(s, p)' = OnHand(s, p)
    BY DEF OnHand, CashierSum
  <1>2. \A S, x, s, p : DocTotal(S, x, s, p)' = DocTotal(S, x, s, p)
    BY DEF DocTotal
  <1>3. StockConserved'
    BY <1>1, <1>2 DEF TInv, StockConserved
  <1>4. AggregateInStep'
    BY <1>1 DEF TInv, AggregateInStep
  <1> QED BY <1>3, <1>4

\* Transaction u keeps what it has.
SameFor(u) ==
  /\ pc'[u] = pc[u] /\ req'[u] = req[u] /\ line'[u] = line[u] /\ pend'[u] = pend[u] /\ agg'[u] = agg[u]
  /\ u \in share => u \in share'
  /\ \A d \in Docs : docLock[d] = u => docLock'[d] = u

\* The invariants of transaction t itself.
OwnOK(t) ==
  IF pc[t] = "idle" THEN req[t].doc = None /\ pend[t] = NoPend /\ agg[t] = NoAgg
  ELSE BufferOK(t) /\ RequestOK(t)

LEMMA SameBuffer ==
  ASSUME NEW u \in Txs, BufferOK(u), SameFor(u), flag' = flag
  PROVE  BufferOK(u)'
  <1>1. RowsDone(u)' = RowsDone(u) /\ SumsDone(u)' = SumsDone(u) /\ Holder(u)' = Holder(u)
    BY DEF SameFor, RowsDone, SumsDone, Holder
  <1>2. \A n : Signed(u, n)' = Signed(u, n)
    BY DEF SameFor, Signed
  <1> QED BY <1>1, <1>2 DEF BufferOK, SameFor

LEMMA StayStep ==
  ASSUME TInv, IInv', NEW t \in Txs, UNCHANGED <<flag, qty, stock, doc, adjusted>>,
         \A u \in Txs \ {t} : SameFor(u), OwnOK(t)',
         \A u \in Txs \ {t} : pc[u] # "idle" /\ req[u].kind \in {"sale", "purchase"} => req'[t].doc # req[u].doc
  PROVE  TInv'
  <1>1. StockConserved' /\ AggregateInStep'
    BY TotalsKept
  <1>2. DocumentsOK'
    BY DEF TInv, DocumentsOK
  <1>3. BuffersOK'
    <2> SUFFICES ASSUME NEW u \in Txs, u # t PROVE BuffersOK!(u)'
      BY DEF BuffersOK, OwnOK
    <2>1. SameFor(u) /\ BuffersOK!(u)
      BY DEF TInv, BuffersOK
    <2>2. CASE pc[u] = "idle"
      BY <2>1, <2>2 DEF SameFor
    <2>3. CASE pc[u] # "idle"
      BY <2>1, <2>3, SameBuffer DEF SameFor
    <2> QED BY <2>2, <2>3
  <1>4. RequestsOK'
    <2> SUFFICES ASSUME NEW u \in Txs, u # t, pc'[u] # "idle" PROVE RequestOK(u)'
      BY DEF RequestsOK, OwnOK
    <2>1. SameFor(u) /\ pc[u] # "idle" /\ RequestOK(u)
      BY DEF TInv, RequestsOK, SameFor
    <2>2. \A w \in Txs \ {u, t} : req'[w] = req[w]
      BY DEF SameFor
    <2>3. req[u].kind \in {"sale", "purchase"} => \A w \in Txs \ {u} : req'[w].doc # req'[u].doc
      BY <2>1, <2>2 DEF RequestOK, SameFor
    <2>4. req[u].kind \in {"cancel", "reverse"} => req[u].doc \in Docs
      BY <2>1 DEF RequestOK, Docs
    <2> QED BY <2>1, <2>3, <2>4 DEF RequestOK, SameFor
  <1> QED BY <1>1, <1>2, <1>3, <1>4 DEF TInv

LEMMA RollbackTInv ==
  ASSUME TInv, NEW t \in Txs, Rollback(t)
  PROVE  TInv'
  <1>1. IInv' /\ TypeOK
    BY RollbackIInv DEF TInv, IInv
  <1>2. \A u \in Txs \ {t} : SameFor(u)
    BY <1>1 DEF TypeOK, Rollback, SameFor
  <1>3. pc'[t] = "idle" /\ req'[t] = NoReq /\ pend'[t] = NoPend /\ agg'[t] = NoAgg
    BY <1>1 DEF TypeOK, Rollback
  <1>4. OwnOK(t)' /\ req'[t].doc = None
    BY <1>3 DEF OwnOK, NoReq, NoPend, NoAgg
  <1>5. \A u \in Txs \ {t} : pc[u] # "idle" /\ req[u].kind \in {"sale", "purchase"} => req[u].doc # None
    BY ConstantsAssumption DEF TInv, RequestsOK, RequestOK
  <1> QED BY <1>1, <1>2, <1>4, <1>5, StayStep DEF Rollback, db

\* A request as it may begin.
Sound(t, r, first) ==
  /\ r.kind \in {"sale", "cancel", "purchase", "reverse", "add", "remove"}
  /\ r.cashier # None => CashierShop[r.cashier] = r.shop
  /\ r.kind \in {"sale", "cancel"} => r.doc \in Bills
  /\ r.kind \in {"purchase", "reverse"} => r.doc \in Purchases
  /\ r.kind \in {"add", "remove"} => r.doc = None /\ Len(r.lines) = 1
  /\ r.kind \in {"sale", "purchase"} => doc[r.doc].status = "none" /\ \A u \in Txs : req[u].doc # r.doc
  /\ r.kind \in {"cancel", "reverse"} =>
       /\ first = "claim" /\ doc[r.doc].status # "none" /\ r.shop = doc[r.doc].shop
       /\ \A p \in Products : LineTotal(r.lines, p) = LineTotal(doc[r.doc].lines, p)

LEMMA BeginTInv ==
  ASSUME TInv, IInv', NEW t \in Txs, NEW r \in ReqType, NEW first \in {"claim", "adjust"},
         r.lines \in LineSeqs, Sound(t, r, first), Begin(t, r, first)
  PROVE  TInv'
  <1>1. TypeOK
    BY DEF TInv, IInv
  <1>2. \A u \in Txs \ {t} : SameFor(u)
    BY <1>1 DEF TypeOK, Begin, SameFor, locks
  <1>3. /\ pc[t] = "idle" /\ pc'[t] = first /\ req'[t] = r /\ line'[t] = 1
        /\ pend'[t] = NoPend /\ agg'[t] = NoAgg
        /\ UNCHANGED <<flag, qty, stock, doc, adjusted, share, docLock>>
    BY <1>1 DEF TypeOK, Begin, TInv, BuffersOK, db, locks
  <1>4. BufferOK(t)'
    <2>1. RowsDone(t)' = 0 /\ SumsDone(t)' = 0
      BY <1>3 DEF RowsDone, SumsDone
    <2>2. \A p : LinesUpTo(req'[t].lines, 0, p) = 0
      BY <1>3, NoLines
    <2>3. Signed(t, 0)' = 0
      <3>1. Signed(t, 0)' \in {0, 0 - 0}
        BY DEF Signed
      <3> QED BY <3>1
    <2> QED BY <1>3, <2>1, <2>2, <2>3, EmptyRequest DEF BufferOK, NoAgg
  <1>5. RequestOK(t)'
    <2>1. \A u \in Txs \ {t} : req'[u] = req[u]
      BY <1>2 DEF SameFor
    <2> QED BY <1>3, <2>1 DEF RequestOK, Sound
  <1>6. ASSUME NEW u \in Txs \ {t}, pc[u] # "idle", req[u].kind \in {"sale", "purchase"}
        PROVE  req'[t].doc # req[u].doc
    <2>1. req[u].doc \in Docs /\ doc[req[u].doc].status = "none"
      BY <1>6 DEF TInv, RequestsOK, RequestOK, Docs
    <2> QED BY <1>3, <2>1, ConstantsAssumption DEF Sound, Docs
  <1> QED BY <1>2, <1>3, <1>4, <1>5, <1>6, StayStep DEF OwnOK

LEMMA RequestTInv ==
  ASSUME TInv, NEW t \in Txs, Request(t)
  PROVE  TInv'
  <1>0. IInv /\ IInv' /\ TypeOK /\ DocOK
    BY RequestIInv DEF TInv, IInv
  <1>1. ASSUME NEW b \in Bills, NEW c \in Cashiers, NEW lines \in LineSeqs, BeginSale(t, b, c, lines)
        PROVE  TInv'
    <2> DEFINE r == [kind |-> "sale", shop |-> CashierShop[c], cashier |-> c, doc |-> b, lines |-> lines]
    <2>1. r \in ReqType /\ r.lines \in LineSeqs
      BY ConstantsAssumption DEF ReqType, Docs
    <2>2. Begin(t, r, "adjust")
      BY <1>1 DEF BeginSale
    <2>3. Sound(t, r, "adjust")
      BY <1>1 DEF BeginSale, Unused, NoDoc, Sound
    <2> HIDE DEF r
    <2> QED BY <1>0, <2>1, <2>2, <2>3, BeginTInv
  <1>2. ASSUME NEW b \in Bills, NEW merged \in LineSeqs, BeginCancel(t, b, merged)
        PROVE  TInv'
    <2> DEFINE r == [kind |-> "cancel", shop |-> doc[b].shop, cashier |-> doc[b].cashier, doc |-> b, lines |-> merged]
    <2>1. b \in Docs /\ doc[b].status = "PAID" /\ doc[b] \in DocType
      BY <1>0, <1>2 DEF BeginCancel, TypeOK, Docs
    <2>2. r \in ReqType /\ r.lines \in LineSeqs
      BY <2>1 DEF ReqType, DocType
    <2>3. Begin(t, r, "claim")
      BY <1>2 DEF BeginCancel
    <2>4. Sound(t, r, "claim")
      BY <1>2, <2>1 DEF BeginCancel, MergedLines, Sound, TInv, DocumentsOK
    <2> HIDE DEF r
    <2> QED BY <1>0, <2>2, <2>3, <2>4, BeginTInv
  <1>3. ASSUME NEW d \in Purchases, NEW s \in Shops, NEW c \in Cashiers \cup {None}, NEW lines \in LineSeqs,
               BeginPurchase(t, d, s, c, lines)
        PROVE  TInv'
    <2> DEFINE r == [kind |-> "purchase", shop |-> s, cashier |-> c, doc |-> d, lines |-> lines]
    <2>1. r \in ReqType /\ r.lines \in LineSeqs
      BY DEF ReqType, Docs
    <2>2. Begin(t, r, "adjust")
      BY <1>3 DEF BeginPurchase
    <2>3. Sound(t, r, "adjust")
      BY <1>3 DEF BeginPurchase, StockCashier, Unused, NoDoc, Sound
    <2> HIDE DEF r
    <2> QED BY <1>0, <2>1, <2>2, <2>3, BeginTInv
  <1>4. ASSUME NEW d \in Purchases, NEW c \in Cashiers \cup {None}, BeginReverse(t, d, c)
        PROVE  TInv'
    <2> DEFINE r == [kind |-> "reverse", shop |-> doc[d].shop, cashier |-> c, doc |-> d, lines |-> doc[d].lines]
    <2>1. d \in Docs /\ doc[d].status = "RECEIVED" /\ doc[d] \in DocType
      BY <1>0, <1>4 DEF BeginReverse, TypeOK, Docs
    <2>2. r \in ReqType /\ r.lines \in LineSeqs
      BY <1>0, <2>1 DEF ReqType, DocType, DocOK
    <2>3. Begin(t, r, "claim")
      BY <1>4 DEF BeginReverse
    <2>4. Sound(t, r, "claim")
      BY <1>4, <2>1 DEF BeginReverse, StockCashier, Sound
    <2> HIDE DEF r
    <2> QED BY <1>0, <2>2, <2>3, <2>4, BeginTInv
  <1>5. ASSUME NEW s \in Shops, NEW c \in Cashiers \cup {None}, NEW l \in Line, NEW k \in {"add", "remove"},
               BeginAdjustment(t, s, c, l, k)
        PROVE  TInv'
    <2> DEFINE r == [kind |-> k, shop |-> s, cashier |-> c, doc |-> None, lines |-> <<l>>]
    <2>1. r \in ReqType /\ r.lines \in LineSeqs /\ Len(r.lines) = 1
      BY OneLine DEF ReqType
    <2>2. Begin(t, r, "adjust")
      BY <1>5 DEF BeginAdjustment
    <2>3. Sound(t, r, "adjust")
      BY <1>5, <2>1 DEF BeginAdjustment, StockCashier, Sound
    <2> HIDE DEF r
    <2> QED BY <1>0, <2>1, <2>2, <2>3, BeginTInv
  <1> QED BY <1>1, <1>2, <1>3, <1>4, <1>5 DEF Request

LEMMA ClaimDocTInv ==
  ASSUME TInv, NEW t \in Txs, ClaimDoc(t)
  PROVE  TInv'
  <1>0. IInv /\ IInv' /\ TypeOK /\ BufferOK(t) /\ RequestOK(t) /\ req[t].doc \in Docs
    BY ClaimDocIInv DEF TInv, IInv, ClaimDoc, BuffersOK, RequestsOK, ReqOK
  <1>1. CASE Rollback(t)
    BY <1>1, RollbackTInv
  <1>2. CASE /\ Claimable(t) /\ docLock' = [docLock EXCEPT ![req[t].doc] = t] /\ pc' = [pc EXCEPT ![t] = "adjust"]
             /\ UNCHANGED <<db, share, script, rowLock, prodLock, req, line, pend, agg, moves, early, account, adjusted>>
    <2>1. pc[t] = "claim" /\ pc'[t] = "adjust" /\ \A u \in Txs \ {t} : pc'[u] = pc[u]
      BY <1>0, <1>2 DEF TypeOK, ClaimDoc
    <2>2. docLock'[req[t].doc] = t /\ \A d \in Docs \ {req[t].doc} : docLock'[d] = docLock[d]
      BY <1>0, <1>2 DEF TypeOK
    <2>3. docLock[req[t].doc] \in {None, t}
      BY DEF ClaimDoc, Free
    <2>4. \A u \in Txs \ {t} : SameFor(u)
      BY <1>2, <2>1, <2>2, <2>3, ConstantsAssumption DEF SameFor
    <2>5. RowsDone(t)' = RowsDone(t) /\ SumsDone(t)' = SumsDone(t) /\ Holder(t)' = Holder(t)
          /\ \A n : Signed(t, n)' = Signed(t, n)
      BY <1>2, <2>1 DEF RowsDone, SumsDone, Holder, Signed, db
    <2>6. BufferOK(t)'
      BY <1>0, <1>2, <2>1, <2>5 DEF BufferOK, db
    <2>7. req' = req /\ doc' = doc
      BY <1>2 DEF db
    <2>8. RequestOK(t)'
      BY <1>0, <1>2, <2>2, <2>7 DEF RequestOK, Claimable
    <2>9. \A u \in Txs \ {t} : pc[u] # "idle" /\ req[u].kind \in {"sale", "purchase"} => req'[t].doc # req[u].doc
      BY <2>7 DEF TInv, RequestsOK, RequestOK
    <2> QED BY <1>0, <1>2, <2>1, <2>4, <2>6, <2>8, <2>9, StayStep DEF OwnOK, db
  <1> QED BY <1>1, <1>2 DEF ClaimDoc

\* A step of t that keeps its request.
LEMMA WorkStep ==
  ASSUME TInv, IInv', NEW t \in Txs, pc[t] \notin {"idle", "claim"}, pc'[t] \notin {"idle", "claim"},
         UNCHANGED <<flag, qty, stock, doc, adjusted, req, docLock>>,
         \A u \in Txs \ {t} : SameFor(u), BufferOK(t)'
  PROVE  TInv'
  <1>1. RequestOK(t)'
    BY DEF TInv, RequestsOK, RequestOK
  <1>2. \A u \in Txs \ {t} : pc[u] # "idle" /\ req[u].kind \in {"sale", "purchase"} => req'[t].doc # req[u].doc
    BY DEF TInv, RequestsOK, RequestOK
  <1> QED BY <1>1, <1>2, StayStep DEF OwnOK

LEMMA AdjustStockTInv ==
  ASSUME TInv, NEW t \in Txs, AdjustStock(t)
  PROVE  TInv'
  <1>0. IInv /\ IInv' /\ TypeOK /\ BufferOK(t)
    BY AdjustStockIInv DEF TInv, IInv, AdjustStock, BuffersOK
  <1>1. CASE Rollback(t)
    BY <1>1, RollbackTInv
  <1>2. CASE /\ share' = share \cup {t} /\ pc' = [pc EXCEPT ![t] = "row"]
             /\ UNCHANGED <<db, script, rowLock, prodLock, docLock, req, line, pend, agg, moves, early, account, adjusted>>
    <2>1. pc[t] = "adjust" /\ pc'[t] = "row" /\ \A u \in Txs \ {t} : pc'[u] = pc[u]
      BY <1>0, <1>2 DEF TypeOK, AdjustStock
    <2>2. \A u \in Txs \ {t} : SameFor(u)
      BY <1>2, <2>1 DEF SameFor
    <2>3. RowsDone(t)' = RowsDone(t) /\ SumsDone(t)' = SumsDone(t) /\ Holder(t)' = Holder(t)
          /\ \A n : Signed(t, n)' = Signed(t, n)
      BY <1>2, <2>1 DEF RowsDone, SumsDone, Holder, Signed, db
    <2>4. BufferOK(t)'
      BY <1>0, <1>2, <2>1, <2>3 DEF BufferOK, db
    <2> QED BY <1>0, <1>2, <2>1, <2>2, <2>4, WorkStep DEF db
  <1> QED BY <1>1, <1>2 DEF AdjustStock

LEMMA SignedFacts ==
  ASSUME NEW t \in Txs, NEW n \in Int, Delta(t) \in Int, req[t].lines[line[t]].qty \in Int
  PROVE  Signed(t, n + req[t].lines[line[t]].qty) = Signed(t, n) + Delta(t) /\ Signed(t, n) \in Int
  BY DEF Signed, Delta

LEMMA UpdateRowTInv ==
  ASSUME TInv, NEW t \in Txs, UpdateRow(t)
  PROVE  TInv'
  <1>0. IInv /\ IInv' /\ TypeOK /\ BufferOK(t) /\ pc[t] = "row"
    BY UpdateRowIInv DEF TInv, IInv, UpdateRow, BuffersOK
  <1>1. CASE Rollback(t)
    BY <1>1, RollbackTInv
  <1>2. CASE /\ pend' = [pend EXCEPT ![t][Row(t)] = @ + Delta(t)] /\ pc' = [pc EXCEPT ![t] = "aggregate"]
             /\ UNCHANGED <<db, share, script, prodLock, docLock, req, line, agg, moves, early, account, adjusted>>
    <2>1. pc'[t] = "aggregate" /\ \A u \in Txs \ {t} : pc'[u] = pc[u] /\ pend'[u] = pend[u]
      BY <1>0, <1>2 DEF TypeOK
    <2>2. \A u \in Txs \ {t} : SameFor(u)
      BY <1>2, <2>1 DEF SameFor
    <2>3. Row(t) \in Rows /\ Row(t) = <<Holder(t), Product(t)>>
      BY <1>0, LineFacts DEF IInv, Row, Holder
    <2>4. \A r \in Rows : pend'[t][r] = IF r = Row(t) THEN pend[t][r] + Delta(t) ELSE pend[t][r]
      BY <1>0, <1>2, <2>3 DEF TypeOK
    <2>5. RowsDone(t)' = line[t] /\ RowsDone(t) = line[t] - 1 /\ SumsDone(t)' = SumsDone(t) /\ Holder(t)' = Holder(t)
          /\ \A n : Signed(t, n)' = Signed(t, n)
      BY <1>0, <1>2, <2>1 DEF RowsDone, SumsDone, Holder, Signed, db
    <2>6. ASSUME NEW r \in Rows
          PROVE  pend'[t][r] = IF r[1] = Holder(t) THEN Signed(t, LinesUpTo(req[t].lines, line[t], r[2])) ELSE 0
      <3>1. pend[t][r] = IF r[1] = Holder(t) THEN Signed(t, LinesUpTo(req[t].lines, line[t] - 1, r[2])) ELSE 0
        BY <1>0, <2>5 DEF BufferOK
      <3>2. r = Row(t) <=> r[1] = Holder(t) /\ r[2] = Product(t)
        BY <2>3 DEF Rows
      <3>3. LinesUpTo(req[t].lines, line[t], r[2]) =
              IF Product(t) = r[2] THEN LinesUpTo(req[t].lines, line[t] - 1, r[2]) + req[t].lines[line[t]].qty
              ELSE LinesUpTo(req[t].lines, line[t] - 1, r[2])
        BY <1>0, LineAt, NextLine
      <3>4. LinesUpTo(req[t].lines, line[t] - 1, r[2]) \in Int
        BY <1>0, LineAt, LinesUpToFacts
      <3>5. Signed(t, LinesUpTo(req[t].lines, line[t] - 1, r[2]) + req[t].lines[line[t]].qty)
              = Signed(t, LinesUpTo(req[t].lines, line[t] - 1, r[2])) + Delta(t)
        BY <1>0, <3>4, LineAt, SignedFacts
      <3> QED BY <2>4, <3>1, <3>2, <3>3, <3>5
    <2>7. t \in share /\ (flag = "CASHIER" => req[t].cashier \in Cashiers)
      BY <1>0 DEF IInv, FlagLockHeld, ReqOK
    <2>8. BufferOK(t)'
      BY <1>0, <1>2, <2>1, <2>5, <2>6, <2>7 DEF BufferOK, db
    <2> QED BY <1>0, <1>2, <2>1, <2>2, <2>8, WorkStep DEF db
  <1> QED BY <1>1, <1>2 DEF UpdateRow

LEMMA UpdateAggregateTInv ==
  ASSUME TInv, NEW t \in Txs, UpdateAggregate(t)
  PROVE  TInv'
  <1>0. IInv /\ IInv' /\ TypeOK /\ BufferOK(t) /\ pc[t] = "aggregate"
    BY UpdateAggregateIInv DEF TInv, IInv, UpdateAggregate, BuffersOK
  <1>1. UNCHANGED <<db, share, script, rowLock, docLock, req, pend, early, account, adjusted>>
    BY DEF UpdateAggregate
  <1>2. \A u \in Txs \ {t} : pc'[u] = pc[u] /\ agg'[u] = agg[u] /\ line'[u] = line[u]
    BY <1>0 DEF UpdateAggregate, TypeOK
  <1>3. \A u \in Txs \ {t} : SameFor(u)
    BY <1>1, <1>2 DEF SameFor
  <1>4. \/ pc'[t] = "adjust" /\ line'[t] = line[t] + 1
        \/ pc'[t] = "commit" /\ line'[t] = line[t] /\ line[t] = Len(req[t].lines)
    BY <1>0, LineAt DEF UpdateAggregate, TypeOK
  <1>5. Product(t) \in Products /\ \A p \in Products : agg'[t][p] = IF p = Product(t) THEN agg[t][p] + Delta(t) ELSE agg[t][p]
    BY <1>0, LineAt DEF UpdateAggregate, TypeOK
  <1>6. RowsDone(t)' = line[t] /\ RowsDone(t) = line[t] /\ SumsDone(t)' = line[t] /\ SumsDone(t) = line[t] - 1
        /\ Holder(t)' = Holder(t) /\ \A n : Signed(t, n)' = Signed(t, n)
    BY <1>0, <1>1, <1>4, LineAt DEF RowsDone, SumsDone, Holder, Signed, db
  <1>7. ASSUME NEW p \in Products
        PROVE  agg'[t][p] = Signed(t, LinesUpTo(req[t].lines, line[t], p))
    <2>1. agg[t][p] = Signed(t, LinesUpTo(req[t].lines, line[t] - 1, p))
      BY <1>0, <1>6 DEF BufferOK
    <2>2. LinesUpTo(req[t].lines, line[t], p) =
            IF Product(t) = p THEN LinesUpTo(req[t].lines, line[t] - 1, p) + req[t].lines[line[t]].qty
            ELSE LinesUpTo(req[t].lines, line[t] - 1, p)
      BY <1>0, LineAt, NextLine
    <2>3. LinesUpTo(req[t].lines, line[t] - 1, p) \in Int
      BY <1>0, LineAt, LinesUpToFacts
    <2>4. Signed(t, LinesUpTo(req[t].lines, line[t] - 1, p) + req[t].lines[line[t]].qty)
            = Signed(t, LinesUpTo(req[t].lines, line[t] - 1, p)) + Delta(t)
      BY <1>0, <2>3, LineAt, SignedFacts
    <2> QED BY <1>5, <2>1, <2>2, <2>4
  <1>8. BufferOK(t)'
    BY <1>0, <1>1, <1>4, <1>6, <1>7 DEF BufferOK, db
  <1>9. pc'[t] \notin {"idle", "claim"}
    BY <1>4
  <1> QED BY <1>0, <1>1, <1>3, <1>8, <1>9, WorkStep DEF db

-----------------------------------------------------------------------------
(* COMMIT: what t has buffered is what its request says, for its branch.   *)

Total(t, p) == Signed(t, LineTotal(req[t].lines, p))

LEMMA CommitBuffers ==
  ASSUME TInv, NEW t \in Txs, Commit(t)
  PROVE  /\ IInv /\ TypeOK /\ RequestOK(t) /\ pc[t] = "commit" /\ req[t].shop \in Shops /\ req[t].lines \in LineSeqs
         /\ \A p : LineTotal(req[t].lines, p) \in Int /\ Total(t, p) \in Int
         /\ \A r \in Rows : pend[t][r] = IF r[1] = Holder(t) THEN Total(t, r[2]) ELSE 0
         /\ \A p \in Products : agg[t][p] = Total(t, p)
         /\ flag = "CASHIER" => req[t].cashier \in Cashiers /\ CashierShop[req[t].cashier] = req[t].shop
  <1>1. IInv /\ TypeOK /\ RequestOK(t) /\ BufferOK(t) /\ pc[t] = "commit"
    BY DEF TInv, IInv, Commit, BuffersOK, RequestsOK
  <1>2. req[t].shop \in Shops /\ req[t].lines \in LineSeqs /\ line[t] \in Nat /\ line[t] > 0
    BY <1>1, LineAt DEF IInv, ReqOK
  <1>3. RowsDone(t) = Len(req[t].lines) /\ SumsDone(t) = Len(req[t].lines) /\ RowsDone(t) > 0
    BY <1>1, <1>2 DEF RowsDone, SumsDone, BufferOK
  <1>4. \A p : LinesUpTo(req[t].lines, Len(req[t].lines), p) = LineTotal(req[t].lines, p)
              /\ LineTotal(req[t].lines, p) \in Int
    BY <1>2, AllLines
  <1>5. \A p : Total(t, p) \in Int
    BY <1>4 DEF Total, Signed
  <1>6. flag = "CASHIER" => req[t].cashier \in Cashiers /\ CashierShop[req[t].cashier] = req[t].shop
    BY <1>1, <1>3, ConstantsAssumption DEF BufferOK, RequestOK
  <1> QED BY <1>1, <1>2, <1>3, <1>4, <1>5, <1>6 DEF BufferOK, Total

LEMMA CommitOnHand ==
  ASSUME TInv, NEW t \in Txs, Commit(t), NEW s \in Shops, NEW p \in Products
  PROVE  /\ OnHand(s, p) \in Int
         /\ OnHand(s, p)' = IF s = req[t].shop THEN OnHand(s, p) + Total(t, p) ELSE OnHand(s, p)
  <1>1. /\ TypeOK /\ req[t].shop \in Shops /\ Total(t, p) \in Int
        /\ \A r \in Rows : pend[t][r] = IF r[1] = Holder(t) THEN Total(t, r[2]) ELSE 0
        /\ flag = "CASHIER" => req[t].cashier \in Cashiers /\ CashierShop[req[t].cashier] = req[t].shop
    BY CommitBuffers
  <1>2. flag \in Modes /\ flag' = flag /\ qty \in [Rows -> Int] /\ \A r \in Rows : qty'[r] = qty[r] + pend[t][r]
    BY <1>1 DEF Commit, TypeOK
  <1>3. CASE flag = "BRANCH"
    <2>1. <<s, p>> \in Rows
      BY DEF Rows
    <2> QED BY <1>1, <1>2, <1>3, <2>1 DEF OnHand, Holder
  <1>4. CASE flag = "CASHIER"
    <2> DEFINE S == {c \in Cashiers : CashierShop[c] = s}
               f == [c \in Cashiers |-> qty[<<c, p>>]]
               g == [c \in Cashiers |-> qty'[<<c, p>>]]
               k == req[t].cashier
    <2>1. OnHand(s, p) = SumFunctionOnSet(f, S) /\ OnHand(s, p)' = SumFunctionOnSet(g, S)
      BY <1>2, <1>4 DEF OnHand, CashierSum
    <2>2. IsFiniteSet(S)
      BY FS_Subset, ConstantsAssumption
    <2>3. ASSUME NEW c \in Cashiers PROVE f[c] \in Int /\ g[c] = IF c = k THEN f[c] + Total(t, p) ELSE f[c]
      <3>1. <<c, p>> \in Rows
        BY DEF Rows
      <3>2. pend[t][<<c, p>>] = IF c = k THEN Total(t, p) ELSE 0
        BY <1>1, <1>4, <3>1 DEF Holder
      <3> QED BY <1>1, <1>2, <3>1, <3>2
    <2>4. k \in Cashiers /\ (k \in S <=> s = req[t].shop) /\ S \subseteq Cashiers
      BY <1>1, <1>4
    <2> HIDE DEF S, f, g, k
    <2>5. SumFunctionOnSet(f, S) \in Int
      BY <2>2, <2>3, <2>4, SumType
    <2>6. CASE s = req[t].shop
      <3>1. SumFunctionOnSet(g, S) = SumFunctionOnSet(f, S) + (g[k] - f[k])
        <4>1. \A y \in S : f[y] \in Int
          BY <2>3, <2>4
        <4>2. k \in S /\ g[k] \in Int /\ \A y \in S \ {k} : g[y] = f[y]
          BY <1>1, <2>3, <2>4, <2>6
        <4> QED BY <2>2, <4>1, <4>2, SumPoint
      <3> QED BY <1>1, <2>1, <2>3, <2>4, <2>5, <2>6, <3>1
    <2>7. CASE s # req[t].shop
      <3>1. \A y \in S : g[y] = f[y]
        BY <2>3, <2>4, <2>7
      <3>2. SumFunctionOnSet(f, S) = SumFunctionOnSet(g, S)
        BY <2>2, <3>1, SumEqual
      <3> QED BY <2>1, <2>5, <2>7, <3>2
    <2> QED BY <2>6, <2>7
  <1> QED BY <1>2, <1>3, <1>4 DEF Modes

LEMMA CommitAggregate ==
  ASSUME TInv, NEW t \in Txs, Commit(t)
  PROVE  AggregateInStep'
  <1> SUFFICES ASSUME NEW p \in Products
               PROVE  stock'[p] = SumFunction([s \in Shops |-> OnHand(s, p)'])
    BY DEF AggregateInStep
  <1> DEFINE f == [s \in Shops |-> OnHand(s, p)]
             g == [s \in Shops |-> OnHand(s, p)']
             k == req[t].shop
  <1>1. k \in Shops /\ Total(t, p) \in Int /\ agg[t][p] = Total(t, p)
    BY CommitBuffers
  <1>2. stock[p] = SumFunctionOnSet(f, Shops) /\ SumFunction(g) = SumFunctionOnSet(g, Shops)
    BY DEF TInv, AggregateInStep, SumFunction
  <1>3. stock'[p] = stock[p] + Total(t, p)
    BY <1>1 DEF Commit
  <1>4. \A s \in Shops : f[s] \in Int /\ g[s] = IF s = k THEN f[s] + Total(t, p) ELSE f[s]
    BY CommitOnHand
  <1>5. IsFiniteSet(Shops)
    BY ConstantsAssumption
  <1> HIDE DEF f, g, k
  <1>6. SumFunctionOnSet(g, Shops) = SumFunctionOnSet(f, Shops) + (g[k] - f[k])
    <2>1. g[k] \in Int /\ \A s \in Shops \ {k} : g[s] = f[s]
      BY <1>1, <1>4
    <2> QED BY <1>1, <1>4, <1>5, <2>1, SumPoint
  <1>7. SumFunction(g) = stock'[p]
    <2>1. g[k] - f[k] = Total(t, p)
      BY <1>1, <1>4
    <2> QED BY <1>2, <1>3, <1>6, <2>1
  <1> QED BY <1>7 DEF g

\* What document d counts for among the documents S with this status.
Weight(S, x, s, p, d) ==
  IF d \in S /\ doc[d].status = x /\ doc[d].shop = s THEN LineTotal(doc[d].lines, p) ELSE 0

LEMMA DocTotalType ==
  ASSUME IInv, DocumentsOK, NEW S, S \subseteq Docs, NEW x, x # "none", NEW s, NEW p
  PROVE  DocTotal(S, x, s, p) \in Int
  <1> DEFINE all == {e \in Docs : doc[e].status # "none"}
             old == {e \in S : doc[e].status = x /\ doc[e].shop = s}
             f == [e \in S |-> LineTotal(doc[e].lines, p)]
  <1>1. IsFiniteSet(all) /\ old \subseteq all
    BY DEF DocumentsOK
  <1>2. \A e \in old : f[e] \in Int
    <2> SUFFICES ASSUME NEW e \in old PROVE f[e] \in Int
      OBVIOUS
    <2>1. doc[e].lines \in LineSeqs
      BY DEF IInv, DocOK
    <2> QED BY <2>1, AllLines
  <1>3. DocTotal(S, x, s, p) = SumFunctionOnSet(f, old)
    BY DEF DocTotal
  <1> HIDE DEF all, old, f
  <1> QED BY <1>1, <1>2, <1>3, FS_Subset, SumType

\* Writing one document changes a total by the document's old and new weight.
LEMMA OneDocument ==
  ASSUME IInv, DocumentsOK, NEW d \in Docs, \A e \in Docs \ {d} : doc'[e] = doc[e], doc'[d].lines \in LineSeqs,
         NEW S, S \subseteq Docs, NEW x, x # "none", NEW s, NEW p
  PROVE  /\ DocTotal(S, x, s, p) \in Int /\ Weight(S, x, s, p, d) \in Int /\ Weight(S, x, s, p, d)' \in Int
         /\ DocTotal(S, x, s, p)' = DocTotal(S, x, s, p) - Weight(S, x, s, p, d) + Weight(S, x, s, p, d)'
  <1> DEFINE old == {e \in S : doc[e].status = x /\ doc[e].shop = s}
             new == {e \in S : doc'[e].status = x /\ doc'[e].shop = s}
             rest == old \ {d}
             f == [e \in S |-> LineTotal(doc[e].lines, p)]
             g == [e \in S |-> LineTotal(doc'[e].lines, p)]
  <1>1. DocTotal(S, x, s, p) = SumFunctionOnSet(f, old) /\ DocTotal(S, x, s, p)' = SumFunctionOnSet(g, new)
    BY DEF DocTotal
  <1>2. rest = new \ {d} /\ old \subseteq S /\ new \subseteq S
    OBVIOUS
  <1>3. IsFiniteSet(old) /\ IsFiniteSet(rest)
    <2> DEFINE all == {e \in Docs : doc[e].status # "none"}
    <2>1. IsFiniteSet(all)
      BY DEF DocumentsOK
    <2>2. old \subseteq all /\ rest \subseteq all
      OBVIOUS
    <2> HIDE DEF all, old, rest
    <2> QED BY <2>1, <2>2, FS_Subset
  <1>4. \A e \in old : f[e] \in Int
    <2> SUFFICES ASSUME NEW e \in old PROVE f[e] \in Int
      OBVIOUS
    <2>1. doc[e].lines \in LineSeqs
      BY DEF IInv, DocOK
    <2> QED BY <2>1, AllLines
  <1>5. \A e \in rest : g[e] = f[e]
    OBVIOUS
  <1>6. d \in S => g[d] = LineTotal(doc'[d].lines, p) /\ g[d] \in Int /\ f[d] = LineTotal(doc[d].lines, p)
    BY AllLines
  <1>7. Weight(S, x, s, p, d) = IF d \in old THEN f[d] ELSE 0
    BY DEF Weight
  <1>8. Weight(S, x, s, p, d)' = IF d \in new THEN g[d] ELSE 0
    BY DEF Weight
  <1> HIDE DEF old, new, f, g
  <1>9. SumFunctionOnSet(g, rest) = SumFunctionOnSet(f, rest) /\ SumFunctionOnSet(f, rest) \in Int
    <2>1. \A e \in rest : f[e] \in Int
      BY <1>4
    <2> HIDE DEF rest
    <2> QED BY <1>3, <1>5, <2>1, SumEqual, SumType
  <1>10. SumFunctionOnSet(f, old) = SumFunctionOnSet(f, rest) + Weight(S, x, s, p, d) /\ Weight(S, x, s, p, d) \in Int
    <2>1. CASE d \in old
      <3>1. SumFunctionOnSet(f, old) = f[d] + SumFunctionOnSet(f, old \ {d}) /\ f[d] \in Int
        BY <1>3, <1>4, <2>1, SumRemove
      <3> QED BY <1>7, <1>9, <2>1, <3>1
    <2>2. CASE d \notin old
      <3>1. rest = old
        BY <2>2
      <3> HIDE DEF rest
      <3> QED BY <1>7, <1>9, <2>2, <3>1
    <2> QED BY <2>1, <2>2
  <1>11. SumFunctionOnSet(g, new) = SumFunctionOnSet(g, rest) + Weight(S, x, s, p, d)' /\ Weight(S, x, s, p, d)' \in Int
    <2>1. CASE d \in new
      <3>1. new = rest \cup {d} /\ d \notin rest
        BY <1>2, <2>1
      <3>2. \A e \in rest \cup {d} : g[e] \in Int
        BY <1>2, <1>4, <1>5, <1>6, <2>1
      <3> HIDE DEF rest
      <3>3. SumFunctionOnSet(g, rest \cup {d}) = SumFunctionOnSet(g, rest) + g[d]
        BY <1>3, <3>1, <3>2, SumAdd
      <3> QED BY <1>8, <2>1, <3>1, <3>2, <3>3
    <2>2. CASE d \notin new
      <3>1. rest = new
        BY <1>2, <2>2
      <3> HIDE DEF rest
      <3> QED BY <1>8, <1>9, <2>2, <3>1
    <2> QED BY <2>1, <2>2
  <1> QED BY <1>1, <1>9, <1>10, <1>11

\* The document t writes.
LEMMA CommitDoc ==
  ASSUME TInv, NEW t \in Txs, Commit(t), req[t].doc # None
  PROVE  LET k == req[t].kind  d == req[t].doc
         IN  /\ d \in Docs /\ k \in {"sale", "cancel", "purchase", "reverse"}
             /\ \A e \in Docs \ {d} : doc'[e] = doc[e]
             /\ k = "sale" => doc[d].status = "none" /\ doc'[d].status = "PAID" /\ d \in Bills
             /\ k = "cancel" => doc[d].status = "PAID" /\ doc'[d].status = "CANCELLED" /\ d \in Bills
             /\ k = "purchase" => doc[d].status = "none" /\ doc'[d].status = "RECEIVED" /\ d \in Purchases
             /\ k = "reverse" => doc[d].status = "RECEIVED" /\ doc'[d].status = "REVERSED" /\ d \in Purchases
             /\ doc'[d].shop = req[t].shop
             /\ doc'[d].lines \in LineSeqs
             /\ \A p \in Products : LineTotal(doc'[d].lines, p) = LineTotal(req[t].lines, p)
             /\ k \in {"cancel", "reverse"} =>
                  /\ doc'[d].cashier = doc[d].cashier /\ doc[d].shop = req[t].shop /\ doc'[d].lines = doc[d].lines
                  /\ docLock[d] = t
             /\ k \in {"sale", "purchase"} => doc'[d].cashier = req[t].cashier
  <1> DEFINE k == req[t].kind  d == req[t].doc  new == CommittedDoc(t)
  <1>1. IInv /\ TypeOK /\ RequestOK(t) /\ pc[t] = "commit" /\ req[t].shop \in Shops /\ req[t].lines \in LineSeqs
    BY CommitBuffers
  <1>2. d \in Docs /\ k \in {"sale", "cancel", "purchase", "reverse"}
    BY <1>1 DEF RequestOK, Docs
  <1>3. doc'[d] = new /\ \A e \in Docs \ {d} : doc'[e] = doc[e]
    BY <1>1, <1>2 DEF Commit, TypeOK
  <1>4. doc[d].status # "none" => doc[d].lines \in LineSeqs
    BY <1>1, <1>2 DEF IInv, DocOK
  <1>5. new.shop = req[t].shop
    BY DEF CommittedDoc
  <1>6. CASE k \in {"sale", "purchase"}
    <2>1. new.lines = req[t].lines /\ new.cashier = req[t].cashier
          /\ new.status = IF k = "sale" THEN "PAID" ELSE "RECEIVED"
      BY <1>6 DEF CommittedDoc
    <2>2. doc[d].status = "none" /\ (k = "sale" => d \in Bills) /\ (k = "purchase" => d \in Purchases)
      BY <1>1, <1>6 DEF RequestOK
    <2> HIDE DEF new
    <2> QED BY <1>1, <1>2, <1>3, <1>5, <1>6, <2>1, <2>2
  <1>7. CASE k \in {"cancel", "reverse"}
    <2>1. new.lines = doc[d].lines /\ new.cashier = doc[d].cashier
          /\ new.status = IF k = "cancel" THEN "CANCELLED" ELSE "REVERSED"
      BY <1>7 DEF CommittedDoc
    <2>2. /\ doc[d].status = IF k = "cancel" THEN "PAID" ELSE "RECEIVED"
          /\ (k = "cancel" => d \in Bills) /\ (k = "reverse" => d \in Purchases)
          /\ docLock[d] = t /\ doc[d].shop = req[t].shop
          /\ \A p \in Products : LineTotal(req[t].lines, p) = LineTotal(doc[d].lines, p)
      BY <1>1, <1>7 DEF RequestOK
    <2> HIDE DEF new
    <2> QED BY <1>1, <1>2, <1>3, <1>4, <1>5, <1>7, <2>1, <2>2
  <1> QED BY <1>2, <1>6, <1>7

\* What that does to the totals of a branch.
LEMMA CommitDocTotals ==
  ASSUME TInv, NEW t \in Txs, Commit(t), req[t].doc # None, NEW d, d = req[t].doc,
         NEW s \in Shops, NEW p \in Products, NEW m, m = IF s = req[t].shop THEN LineTotal(req[t].lines, p) ELSE 0
  PROVE  /\ req[t].kind \in {"sale", "cancel", "purchase", "reverse"} /\ m \in Int
         /\ DocTotal(Bills, "PAID", s, p) \in Int /\ DocTotal(Purchases, "RECEIVED", s, p) \in Int
         /\ DocTotal(Bills, "PAID", s, p)' = DocTotal(Bills, "PAID", s, p)
               + CASE req[t].kind = "sale" -> m [] req[t].kind = "cancel" -> 0 - m [] OTHER -> 0
         /\ DocTotal(Purchases, "RECEIVED", s, p)' = DocTotal(Purchases, "RECEIVED", s, p)
               + CASE req[t].kind = "purchase" -> m [] req[t].kind = "reverse" -> 0 - m [] OTHER -> 0
  <1> DEFINE k == req[t].kind
             wr == Weight(Purchases, "RECEIVED", s, p, d)  wp == Weight(Bills, "PAID", s, p, d)
             bought == DocTotal(Purchases, "RECEIVED", s, p)  sold == DocTotal(Bills, "PAID", s, p)
  <1>1. IInv /\ m \in Int
    BY CommitBuffers
  <1>2. /\ d \in Docs /\ k \in {"sale", "cancel", "purchase", "reverse"}
        /\ \A e \in Docs \ {d} : doc'[e] = doc[e]
        /\ doc'[d].lines \in LineSeqs
    BY CommitDoc
  <1>3. DocumentsOK /\ Bills \subseteq Docs /\ Purchases \subseteq Docs /\ Bills \cap Purchases = {}
    BY ConstantsAssumption DEF TInv, Docs
  <1>4. /\ bought \in Int /\ wr \in Int /\ wr' \in Int
        /\ bought' = bought - wr + wr'
    BY <1>1, <1>2, <1>3, OneDocument
  <1>5. /\ sold \in Int /\ wp \in Int /\ wp' \in Int
        /\ sold' = sold - wp + wp'
    BY <1>1, <1>2, <1>3, OneDocument
  <1>6. /\ doc'[d].shop = req[t].shop /\ LineTotal(doc'[d].lines, p) = LineTotal(req[t].lines, p)
        /\ k \in {"cancel", "reverse"} =>
             doc[d].shop = req[t].shop /\ LineTotal(doc[d].lines, p) = LineTotal(req[t].lines, p)
    BY CommitDoc
  <1>7. /\ k = "sale" => doc[d].status = "none" /\ doc'[d].status = "PAID" /\ d \in Bills
        /\ k = "cancel" => doc[d].status = "PAID" /\ doc'[d].status = "CANCELLED" /\ d \in Bills
        /\ k = "purchase" => doc[d].status = "none" /\ doc'[d].status = "RECEIVED" /\ d \in Purchases
        /\ k = "reverse" => doc[d].status = "RECEIVED" /\ doc'[d].status = "REVERSED" /\ d \in Purchases
    BY CommitDoc
  <1>8. /\ k = "sale" => wp = 0 /\ wp' = m
        /\ k = "cancel" => wp = m /\ wp' = 0
        /\ k \in {"purchase", "reverse"} => wp = 0 /\ wp' = 0
    BY <1>3, <1>6, <1>7 DEF Weight
  <1>9. /\ k = "purchase" => wr = 0 /\ wr' = m
        /\ k = "reverse" => wr = m /\ wr' = 0
        /\ k \in {"sale", "cancel"} => wr = 0 /\ wr' = 0
    BY <1>3, <1>6, <1>7 DEF Weight
  <1> QED BY <1>1, <1>2, <1>4, <1>5, <1>8, <1>9

LEMMA CommitConserves ==
  ASSUME TInv, NEW t \in Txs, Commit(t)
  PROVE  StockConserved'
  <1> SUFFICES ASSUME NEW s \in Shops, NEW p \in Products
               PROVE  OnHand(s, p)' = InitialStock * Cardinality({c \in Cashiers \ NewCashiers : CashierShop[c] = s})
                        + DocTotal(Purchases, "RECEIVED", s, p)' - DocTotal(Bills, "PAID", s, p)' + adjusted'[<<s, p>>]
    BY DEF StockConserved
  <1> DEFINE k == req[t].kind  d == req[t].doc  n == LineTotal(req[t].lines, p)
             opening == InitialStock * Cardinality({c \in Cashiers \ NewCashiers : CashierShop[c] = s})
             bought == DocTotal(Purchases, "RECEIVED", s, p)  sold == DocTotal(Bills, "PAID", s, p)
  <1>1. IInv /\ TypeOK /\ RequestOK(t) /\ pc[t] = "commit" /\ n \in Int /\ req[t].lines \in LineSeqs /\ req[t].shop \in Shops
    BY CommitBuffers
  <1>2. OnHand(s, p)' = IF s = req[t].shop THEN OnHand(s, p) + Total(t, p) ELSE OnHand(s, p)
    BY CommitOnHand
  <1>3. OnHand(s, p) = opening + bought - sold + adjusted[<<s, p>>]
    BY DEF TInv, StockConserved
  <1>4. Total(t, p) = IF k \in {"cancel", "purchase", "add"} THEN n ELSE 0 - n
    BY DEF Total, Signed
  <1>5. opening \in Int /\ adjusted[<<s, p>>] \in Int
    <2>1. IsFiniteSet({c \in Cashiers \ NewCashiers : CashierShop[c] = s})
      BY FS_Subset, ConstantsAssumption
    <2>2. Cardinality({c \in Cashiers \ NewCashiers : CashierShop[c] = s}) \in Nat
      BY <2>1, FS_CardinalityType
    <2> QED BY <1>1, <2>2, ConstantsAssumption DEF TypeOK
  <1>6. CASE d # None
    <2> DEFINE m == IF s = req[t].shop THEN n ELSE 0
    <2>1. /\ k \in {"sale", "cancel", "purchase", "reverse"} /\ m \in Int /\ bought \in Int /\ sold \in Int
          /\ sold' = sold + CASE k = "sale" -> m [] k = "cancel" -> 0 - m [] OTHER -> 0
          /\ bought' = bought + CASE k = "purchase" -> m [] k = "reverse" -> 0 - m [] OTHER -> 0
      BY <1>6, CommitDocTotals
    <2>2. adjusted' = adjusted
      BY <2>1 DEF Commit
    <2>3. OnHand(s, p) \in Int
      BY <1>3, <1>5, <2>1
    <2>4. OnHand(s, p)' = IF k \in {"cancel", "purchase"} THEN OnHand(s, p) + m ELSE OnHand(s, p) - m
      BY <1>1, <1>2, <1>4, <2>1, <2>3
    <2> QED BY <1>3, <1>5, <2>1, <2>2, <2>4
  <1>7. CASE d = None
    <2>1. k \in {"add", "remove"} /\ Len(req[t].lines) = 1 /\ line[t] = 1
      <3>1. k \in {"add", "remove"} /\ Len(req[t].lines) = 1
        BY <1>1, <1>7, ConstantsAssumption DEF RequestOK
      <3>2. line[t] = Len(req[t].lines)
        BY <1>1 DEF TInv, BuffersOK, BufferOK
      <3> QED BY <3>1, <3>2
    <2>2. doc' = doc
      BY <1>7 DEF Commit
    <2>3. bought' = bought /\ sold' = sold
      BY <2>2 DEF DocTotal
    <2>4. n = IF Product(t) = p THEN req[t].lines[1].qty ELSE 0
      <3>1. LinesUpTo(req[t].lines, 1, p) = n
        BY <1>1, <2>1, AllLines
      <3>2. LinesUpTo(req[t].lines, 0, p) = 0
        BY <1>1, NoLines
      <3>3. req[t].lines[1].qty \in Int /\ Product(t) = req[t].lines[1].product
        BY <1>1, <2>1, LineAt
      <3>4. 1 \in 1..Len(req[t].lines) /\ 1 - 1 = 0
        BY <2>1
      <3>5. n = IF req[t].lines[1].product = p THEN 0 + req[t].lines[1].qty ELSE 0
        BY <1>1, <3>1, <3>2, <3>4, NextLine
      <3> QED BY <3>3, <3>5
    <2>5. Delta(t) = (IF k = "add" THEN req[t].lines[1].qty ELSE -req[t].lines[1].qty) /\ Delta(t) \in Int
          /\ req[t].lines[1].qty \in Int /\ Product(t) \in Products
      BY <1>1, <2>1, LineAt DEF Delta
    <2>6. adjusted' = [adjusted EXCEPT ![<<req[t].shop, Product(t)>>] = @ + Delta(t)]
      BY <2>1 DEF Commit
    <2>7. adjusted'[<<s, p>>] = IF s = req[t].shop /\ p = Product(t) THEN adjusted[<<s, p>>] + Delta(t) ELSE adjusted[<<s, p>>]
      <3>1. <<s, p>> \in Shops \X Products /\ adjusted \in [Shops \X Products -> Int]
        BY <1>1 DEF TypeOK
      <3>2. <<s, p>> = <<req[t].shop, Product(t)>> <=> s = req[t].shop /\ p = Product(t)
        OBVIOUS
      <3> QED BY <2>6, <3>1, <3>2
    <2>8. bought \in Int /\ sold \in Int
      BY <1>1, DocTotalType DEF TInv, Docs
    <2>9. Total(t, p) = IF p = Product(t) THEN Delta(t) ELSE 0
      BY <1>4, <2>1, <2>4, <2>5
    <2> QED BY <1>2, <1>3, <1>5, <2>3, <2>5, <2>7, <2>8, <2>9
  <1> QED BY <1>6, <1>7

LEMMA CommitTInv ==
  ASSUME TInv, NEW t \in Txs, Commit(t)
  PROVE  TInv'
  <1>1. IInv' /\ IInv /\ TypeOK /\ RequestOK(t) /\ pc[t] = "commit"
    BY CommitBuffers, CommitIInv
  <1>2. flag' = flag /\ \A u \in Txs \ {t} : SameFor(u)
    BY <1>1, ConstantsAssumption DEF Commit, TypeOK, SameFor
  <1>3. pc'[t] = "idle" /\ req'[t] = NoReq /\ pend'[t] = NoPend /\ agg'[t] = NoAgg
    BY <1>1 DEF Commit, TypeOK
  <1>4. BuffersOK'
    <2> SUFFICES ASSUME NEW u \in Txs PROVE BuffersOK!(u)'
      BY DEF BuffersOK
    <2>1. CASE u = t
      BY <1>3, <2>1 DEF NoReq, NoPend, NoAgg
    <2>2. CASE u # t /\ pc[u] = "idle"
      BY <1>2, <2>2 DEF TInv, BuffersOK, SameFor
    <2>3. CASE u # t /\ pc[u] # "idle"
      <3>1. SameFor(u) /\ BufferOK(u)
        BY <1>2, <2>3 DEF TInv, BuffersOK
      <3> QED BY <1>2, <2>3, <3>1, SameBuffer DEF SameFor
    <2> QED BY <2>1, <2>2, <2>3
  \* Only t's document changes, and nobody else is creating or claiming it.
  <1>5. ASSUME NEW e \in Docs, e # req[t].doc PROVE doc'[e] = doc[e]
    <2>1. CASE req[t].doc = None
      BY <2>1 DEF Commit
    <2>2. CASE req[t].doc # None
      BY <1>5, <2>2, CommitDoc
    <2> QED BY <2>1, <2>2
  <1>6. RequestsOK'
    <2> SUFFICES ASSUME NEW u \in Txs, pc'[u] # "idle" PROVE RequestOK(u)'
      BY DEF RequestsOK
    <2>1. u # t /\ SameFor(u) /\ pc[u] # "idle" /\ RequestOK(u)
      BY <1>2, <1>3 DEF SameFor, TInv, RequestsOK
    <2>2. CASE req[u].kind \in {"sale", "purchase"}
      <3>1. req[u].doc \in Docs /\ req[u].doc # req[t].doc /\ doc[req[u].doc].status = "none"
        BY <2>1, <2>2 DEF RequestOK, Docs
      <3>2. \A w \in Txs \ {u} : req'[w].doc # req[u].doc
        BY <1>2, <1>3, <2>1, <2>2, <3>1, ConstantsAssumption DEF RequestOK, SameFor, NoReq, Docs
      <3> QED BY <1>5, <2>1, <2>2, <3>1, <3>2 DEF RequestOK, SameFor
    <2>3. CASE req[u].kind \in {"cancel", "reverse"}
      <3>1. req[u].doc \in Docs
        BY <2>1, <2>3 DEF RequestOK, Docs
      <3>2. CASE req[u].doc # req[t].doc
        BY <1>5, <2>1, <2>3, <3>1, <3>2 DEF RequestOK, SameFor
      <3>3. CASE req[u].doc = req[t].doc
        <4>1. req[t].doc # None /\ doc[req[t].doc].status # "none"
          BY <2>1, <2>3, <3>1, <3>3, ConstantsAssumption DEF RequestOK, Docs
        <4>2. /\ docLock[req[t].doc] = t
              /\ doc'[req[t].doc].shop = doc[req[t].doc].shop /\ doc'[req[t].doc].lines = doc[req[t].doc].lines
              /\ doc'[req[t].doc].status # "none"
          BY <4>1, CommitDoc
        <4>3. pc[u] = "claim"
          BY <2>1, <2>3, <3>3, <4>2 DEF RequestOK
        <4> QED BY <2>1, <2>3, <3>3, <4>2, <4>3 DEF RequestOK, SameFor
      <3> QED BY <3>2, <3>3
    <2>4. CASE req[u].kind \in {"add", "remove"}
      BY <2>1, <2>4 DEF RequestOK, SameFor
    <2> QED BY <2>1, <2>2, <2>3, <2>4 DEF RequestOK
  <1>7. DocumentsOK'
    <2>1. CASE req[t].doc = None
      <3>1. doc' = doc
        BY <2>1 DEF Commit
      <3> QED BY <3>1 DEF TInv, DocumentsOK
    <2>2. CASE req[t].doc # None
      <3> DEFINE old == {e \in Docs : doc[e].status # "none"}
                 new == {e \in Docs : doc'[e].status # "none"}
      <3>1. PICK d \in Docs : d = req[t].doc
        BY <2>2, CommitDoc
      <3>2. IsFiniteSet(new)
        <4>1. IsFiniteSet(old \cup {d})
          BY FS_AddElement DEF TInv, DocumentsOK
        <4>2. new \subseteq old \cup {d}
          BY <1>5, <3>1
        <4> HIDE DEF old, new
        <4> QED BY <4>1, <4>2, FS_Subset
      <3>3. doc'[d].cashier # None => CashierShop[doc'[d].cashier] = doc'[d].shop
        <4>1. CASE req[t].kind \in {"sale", "purchase"}
          <5>1. doc'[d].cashier = req[t].cashier /\ doc'[d].shop = req[t].shop
            BY <2>2, <3>1, <4>1, CommitDoc
          <5> QED BY <1>1, <5>1 DEF RequestOK
        <4>2. CASE req[t].kind \in {"cancel", "reverse"}
          <5>1. /\ doc'[d].cashier = doc[d].cashier /\ doc'[d].shop = req[t].shop /\ doc[d].shop = req[t].shop
                /\ doc[d].status # "none"
            BY <2>2, <3>1, <4>2, CommitDoc
          <5> QED BY <5>1 DEF TInv, DocumentsOK
        <4> QED BY <2>2, <4>1, <4>2, CommitDoc
      <3>4. doc'[d].status \in IF d \in Bills THEN {"PAID", "CANCELLED"} ELSE {"RECEIVED", "REVERSED"}
        BY <2>2, <3>1, CommitDoc, ConstantsAssumption
      <3> QED BY <1>5, <3>1, <3>2, <3>3, <3>4 DEF TInv, DocumentsOK
    <2> QED BY <2>1, <2>2
  <1> QED BY <1>1, <1>4, <1>6, <1>7, CommitConserves, CommitAggregate DEF TInv

-----------------------------------------------------------------------------
(* The cutover and its rollback.                                           *)

\* A script holds the flag, so nobody has touched a row: what everybody has
\* buffered is right for either table.
LEMMA ScriptStep ==
  ASSUME TInv, IInv', script # None, UNCHANGED <<share, docLock, pc, req, line, pend, agg, doc, stock, adjusted>>,
         \A s \in Shops, p \in Products : OnHand(s, p)' = OnHand(s, p)
  PROVE  TInv'
  <1>1. StockConserved'
    <2>1. \A S, x, s, p : DocTotal(S, x, s, p)' = DocTotal(S, x, s, p)
      BY DEF DocTotal
    <2> QED BY <2>1 DEF TInv, StockConserved
  <1>2. AggregateInStep'
    <2> SUFFICES ASSUME NEW p \in Products PROVE stock[p] = SumFunction([s \in Shops |-> OnHand(s, p)'])
      BY DEF AggregateInStep
    <2>1. [s \in Shops |-> OnHand(s, p)'] = [s \in Shops |-> OnHand(s, p)]
      OBVIOUS
    <2> QED BY <2>1 DEF TInv, AggregateInStep
  <1>3. DocumentsOK' /\ RequestsOK'
    BY DEF TInv, DocumentsOK, RequestsOK, RequestOK
  <1>4. BuffersOK'
    <2> SUFFICES ASSUME NEW t \in Txs PROVE BuffersOK!(t)'
      BY DEF BuffersOK
    <2>1. CASE pc[t] = "idle"
      BY <2>1 DEF TInv, BuffersOK
    <2>2. CASE pc[t] # "idle"
      <3>1. BufferOK(t) /\ IInv
        BY <2>2 DEF TInv, BuffersOK
      <3>2. share = {} /\ pc[t] \notin {"row", "aggregate", "commit"} /\ \A r \in Rows : pend[t][r] = 0
        BY <3>1, ScriptExcludes
      <3>3. RowsDone(t) = 0 /\ RowsDone(t)' = 0
        BY <2>2, <3>1, <3>2, LineAt DEF BufferOK, RowsDone
      <3>4. SumsDone(t)' = SumsDone(t) /\ \A n : Signed(t, n)' = Signed(t, n)
        BY DEF SumsDone, Signed
      <3>5. \A p : Signed(t, LinesUpTo(req[t].lines, 0, p)) = 0
        <4>1. \A p : LinesUpTo(req[t].lines, 0, p) = 0
          BY <2>2, <3>1, LineAt, NoLines
        <4>2. Signed(t, 0) \in {0, 0 - 0}
          BY DEF Signed
        <4> QED BY <4>1, <4>2
      <3>6. BufferOK(t)'
        BY <3>1, <3>2, <3>3, <3>4, <3>5 DEF BufferOK
      <3> QED BY <2>2, <3>6
    <2> QED BY <2>1, <2>2
  <1> QED BY <1>1, <1>2, <1>3, <1>4 DEF TInv

LEMMA CutoverTInv ==
  ASSUME TInv, Cutover
  PROVE  TInv'
  <1>1. IInv' /\ script # None /\ UNCHANGED <<share, docLock, pc, req, line, pend, agg, doc, stock, adjusted>>
    BY CutoverIInv, ConstantsAssumption DEF TInv, Cutover, txs, db, RequestKinds
  <1>2. CASE UNCHANGED <<flag, qty>>
    BY <1>1, <1>2, ScriptStep DEF OnHand, CashierSum
  <1>3. CASE CutoverReady /\ flag' = "BRANCH" /\ qty' = [r \in Rows |-> IF r[1] \in Shops THEN CashierSum(r[1], r[2]) ELSE qty[r]]
    <2>1. ASSUME NEW s \in Shops, NEW p \in Products PROVE OnHand(s, p)' = OnHand(s, p)
      <3>1. <<s, p>> \in Rows /\ flag = "CASHIER"
        BY <1>3 DEF Rows, CutoverReady
      <3> QED BY <1>3, <3>1 DEF OnHand
    <2> QED BY <1>1, <2>1, ScriptStep
  <1> QED BY <1>2, <1>3 DEF Cutover, db

LEMMA CutoverRollbackTInv ==
  ASSUME TInv, CutoverRollback
  PROVE  TInv'
  <1>1. IInv' /\ script # None /\ UNCHANGED <<share, docLock, pc, req, line, pend, agg, doc, stock, adjusted>>
    BY CutoverRollbackIInv, ConstantsAssumption DEF TInv, CutoverRollback, txs, db, RequestKinds
  <1>2. CASE UNCHANGED <<flag, qty>>
    BY <1>1, <1>2, ScriptStep DEF OnHand, CashierSum
  <1>3. CASE RollbackReady /\ flag' = "CASHIER" /\ qty' = [r \in Rows |-> IF r[1] \in Shops THEN 0 ELSE qty[r]]
    <2>1. ASSUME NEW s \in Shops, NEW p \in Products PROVE OnHand(s, p)' = OnHand(s, p)
      <3>1. flag = "BRANCH" /\ qty[<<s, p>>] = CashierSum(s, p)
        BY <1>3 DEF RollbackReady
      <3>2. \A c \in Cashiers : qty'[<<c, p>>] = qty[<<c, p>>]
        BY <1>3, ConstantsAssumption DEF Rows
      <3>3. [c \in Cashiers |-> qty'[<<c, p>>]] = [c \in Cashiers |-> qty[<<c, p>>]]
        BY <3>2
      <3>4. CashierSum(s, p)' = CashierSum(s, p)
        BY <3>3 DEF CashierSum
      <3> QED BY <1>3, <3>1, <3>4 DEF OnHand
    <2> QED BY <1>1, <2>1, ScriptStep
  <1> QED BY <1>2, <1>3 DEF CutoverRollback, db

\* Steps that touch neither stock nor documents nor transactions.
LEMMA QuietStep ==
  ASSUME TInv, IInv', UNCHANGED <<flag, qty, stock, doc, adjusted, share, docLock, pc, req, line, pend, agg>>
  PROVE  TInv'
  <1>1. BuffersOK'
    <2> SUFFICES ASSUME NEW t \in Txs PROVE BuffersOK!(t)'
      BY DEF BuffersOK
    <2>1. SameFor(t) /\ (pc[t] = "idle" \/ BufferOK(t)) /\ BuffersOK!(t)
      BY DEF TInv, BuffersOK, SameFor
    <2> QED BY <2>1, SameBuffer DEF SameFor
  <1>2. RequestsOK' /\ DocumentsOK'
    BY DEF TInv, RequestsOK, RequestOK, DocumentsOK
  <1> QED BY <1>1, <1>2, TotalsKept DEF TInv

LEMMA OtherTInv ==
  ASSUME TInv,
         \/ \E s \in Shops, p \in Products, to \in {"assigned", "unassigned"} : SetBranchAssignment(s, p, to)
         \/ \E name \in {"cutover", "rollback"} : ScriptLock(name)
         \/ \E c \in Cashiers : SignUp(c) \/ Approval(c) \/ SuspendCashier(c) \/ ActivateCashier(c)
  PROVE  TInv'
  <1>1. IInv'
    BY OtherIInv DEF TInv
  <1>2. UNCHANGED <<flag, qty, stock, doc, adjusted, share, docLock, pc, req, line, pend, agg>>
    BY DEF SetBranchAssignment, ScriptLock, SignUp, Approval, SuspendCashier, ActivateCashier, SetAccount,
           AssertNoStrandedCashierStock, ReadModeForApproval, InitializeCashierInventory, ApprovalFails, db, locks, txs
  <1> QED BY <1>1, <1>2, QuietStep

-----------------------------------------------------------------------------
(* The initial state.                                                      *)

\* The cashiers of C, counted branch by branch.
LEMMA CountByShop ==
  ASSUME NEW C, C \subseteq Cashiers
  PROVE  SumFunctionOnSet([s \in Shops |-> InitialStock * Cardinality({c \in C : CashierShop[c] = s})], Shops)
           = InitialStock * Cardinality(C)
  <1> DEFINE f(T) == [s \in Shops |-> InitialStock * Cardinality({c \in T : CashierShop[c] = s})]
             F == {T \in SUBSET C : SumFunctionOnSet(f(T), Shops) # InitialStock * Cardinality(T)}
  <1> SUFFICES ASSUME F # {} PROVE FALSE
    OBVIOUS
  <1>1. IsFiniteSet(C) /\ IsFiniteSet(Shops) /\ InitialStock \in Nat
    BY FS_Subset, ConstantsAssumption
  <1>2. PICK T \in F : \A U \in F : U \subseteq T => U = T
    <2> F \in SUBSET SUBSET C
      OBVIOUS
    <2> HIDE DEF F
    <2> QED BY <1>1, SmallestSubset
  <1>3. IsFiniteSet(T) /\ T \subseteq Cashiers
    BY <1>1, FS_Subset
  <1>4. T # {}
    <2> SUFFICES ASSUME T = {} PROVE FALSE
      OBVIOUS
    <2>1. InitialStock * 0 = 0 /\ Cardinality({}) = 0
      BY <1>1, FS_EmptySet
    <2>2. \A s \in Shops : f(T)[s] = 0
      <3>1. \A s \in Shops : {c \in T : CashierShop[c] = s} = {}
        OBVIOUS
      <3> QED BY <2>1, <3>1
    <2>3. SumFunctionOnSet(f(T), Shops) = 0
      <3> HIDE DEF f
      <3> QED BY <1>1, <2>2, SumOfZeros
    <2> QED BY <2>1, <2>3
  <1>5. PICK x \in T : TRUE
    BY <1>4
  <1> DEFINE U == T \ {x}  g == f(U)  h == f(T)  k == CashierShop[x]
  <1>6. U \in SUBSET C /\ IsFiniteSet(U) /\ k \in Shops
    BY <1>1, <1>3, <1>5, FS_Subset, ConstantsAssumption
  <1>7. SumFunctionOnSet(g, Shops) = InitialStock * Cardinality(U)
    BY <1>2, <1>5, <1>6
  <1>8. Cardinality(U) = Cardinality(T) - 1 /\ Cardinality(T) \in Nat
    BY <1>3, <1>5, FS_RemoveElement, FS_CardinalityType
  <1>9. ASSUME NEW s \in Shops PROVE g[s] \in Int /\ h[s] = IF s = k THEN g[s] + InitialStock ELSE g[s]
    <2> DEFINE A == {c \in T : CashierShop[c] = s}  B == {c \in U : CashierShop[c] = s}
    <2>1. IsFiniteSet(A) /\ IsFiniteSet(B) /\ Cardinality(A) \in Nat /\ Cardinality(B) \in Nat
      BY <1>3, <1>6, FS_Subset, FS_CardinalityType
    <2>2. g[s] = InitialStock * Cardinality(B) /\ h[s] = InitialStock * Cardinality(A)
      OBVIOUS
    <2>3. CASE s = k
      <3>1. B = A \ {x} /\ x \in A
        BY <1>5, <2>3
      <3> HIDE DEF A, B, g, h, k
      <3>2. Cardinality(B) = Cardinality(A) - 1
        BY <2>1, <3>1, FS_RemoveElement
      <3>3. \A i, j \in Nat : i * j = i * (j - 1) + i /\ i * j \in Int
        OBVIOUS
      <3> QED BY <1>1, <2>1, <2>2, <2>3, <3>2, <3>3
    <2>4. CASE s # k
      <3>1. B = A
        BY <2>4
      <3> HIDE DEF A, B, g, h, k
      <3>2. \A i, j \in Nat : i * j \in Int
        OBVIOUS
      <3> QED BY <1>1, <2>1, <2>2, <2>4, <3>1, <3>2
    <2> QED BY <2>3, <2>4
  <1> HIDE DEF f, g, h, k, U
  <1>10. SumFunctionOnSet(h, Shops) = SumFunctionOnSet(g, Shops) + (h[k] - g[k])
    <2>1. h[k] \in Int /\ \A s \in Shops \ {k} : h[s] = g[s]
      BY <1>1, <1>6, <1>9
    <2> QED BY <1>1, <1>6, <1>9, <2>1, SumPoint
  <1>11. h[k] - g[k] = InitialStock
    BY <1>1, <1>6, <1>9
  <1>12. \A i, j \in Nat : i * (j - 1) + i = i * j
    OBVIOUS
  <1>13. SumFunctionOnSet(h, Shops) = InitialStock * Cardinality(T)
    BY <1>1, <1>7, <1>8, <1>10, <1>11, <1>12
  <1> QED BY <1>2, <1>13 DEF h

LEMMA InitTInv == Init => TInv
  <1> SUFFICES ASSUME Init PROVE TInv
    OBVIOUS
  <1> DEFINE opening(s) == InitialStock * Cardinality({c \in Cashiers \ NewCashiers : CashierShop[c] = s})
  <1>1. IInv /\ InitialStock \in Int
    BY InitIInv, ConstantsAssumption
  <1>2. ASSUME NEW s \in Shops, NEW p \in Products PROVE OnHand(s, p) = opening(s)
    <2> DEFINE f == [c \in Cashiers |-> qty[<<c, p>>]]
               S == {c \in Cashiers : CashierShop[c] = s}
               T == {c \in Cashiers \ NewCashiers : CashierShop[c] = s}
    <2>1. IsFiniteSet(S) /\ IsFiniteSet(T) /\ T \subseteq S
      BY FS_Subset, ConstantsAssumption
    <2>2. \A c \in Cashiers : f[c] = IF c \in NewCashiers THEN 0 ELSE InitialStock
      <3>1. \A c \in Cashiers : <<c, p>> \in Rows
        BY DEF Rows
      <3> QED BY <3>1 DEF Init
    <2>3. (\A c \in S : f[c] \in Int) /\ (\A c \in S \ T : f[c] = 0) /\ \A c \in T : f[c] = InitialStock
      BY <1>1, <2>2
    <2>4. OnHand(s, p) = SumFunctionOnSet(f, S)
      BY DEF OnHand, CashierSum, Init
    <2> HIDE DEF f, S, T
    <2>5. SumFunctionOnSet(f, S) = SumFunctionOnSet(f, T)
      BY <2>1, <2>3, SumOnSubset
    <2>6. SumFunctionOnSet(f, T) = InitialStock * Cardinality(T)
      BY <1>1, <2>1, <2>3, SumOfEquals
    <2> QED BY <2>4, <2>5, <2>6 DEF T
  <1>3. \A d \in Docs : doc[d].status = "none"
    BY DEF Init, NoDoc
  <1>4. StockConserved
    <2> SUFFICES ASSUME NEW s \in Shops, NEW p \in Products
                 PROVE  OnHand(s, p) = opening(s) + DocTotal(Purchases, "RECEIVED", s, p)
                                         - DocTotal(Bills, "PAID", s, p) + adjusted[<<s, p>>]
      BY DEF StockConserved
    <2>1. {d \in Purchases : doc[d].status = "RECEIVED" /\ doc[d].shop = s} = {}
          /\ {d \in Bills : doc[d].status = "PAID" /\ doc[d].shop = s} = {}
      BY <1>3 DEF Docs
    <2>2. DocTotal(Purchases, "RECEIVED", s, p) = 0 /\ DocTotal(Bills, "PAID", s, p) = 0
      BY <2>1, SumEmpty DEF DocTotal
    <2>3. adjusted[<<s, p>>] = 0
      BY DEF Init
    <2>4. opening(s) \in Int
      <3>1. IsFiniteSet({c \in Cashiers \ NewCashiers : CashierShop[c] = s})
        BY FS_Subset, ConstantsAssumption
      <3>2. Cardinality({c \in Cashiers \ NewCashiers : CashierShop[c] = s}) \in Nat
        BY <3>1, FS_CardinalityType
      <3> QED BY <1>1, <3>2
    <2> HIDE DEF opening
    <2> QED BY <1>2, <2>2, <2>3, <2>4
  <1>5. AggregateInStep
    <2> SUFFICES ASSUME NEW p \in Products PROVE stock[p] = SumFunction([s \in Shops |-> OnHand(s, p)])
      BY DEF AggregateInStep
    <2>1. [s \in Shops |-> OnHand(s, p)] = [s \in Shops |-> opening(s)]
      BY <1>2
    <2>2. SumFunction([s \in Shops |-> opening(s)]) = SumFunctionOnSet([s \in Shops |-> opening(s)], Shops)
      BY DEF SumFunction
    <2>3. stock[p] = InitialStock * Cardinality(Cashiers \ NewCashiers)
      BY DEF Init
    <2>4. Cashiers \ NewCashiers \subseteq Cashiers
      OBVIOUS
    <2> QED BY <2>1, <2>2, <2>3, <2>4, CountByShop
  <1>6. BuffersOK
    BY DEF Init, BuffersOK, NoReq
  <1>7. RequestsOK
    BY DEF Init, RequestsOK
  <1>8. DocumentsOK
    <2>1. {d \in Docs : doc[d].status # "none"} = {}
      BY <1>3
    <2> QED BY <1>3, <2>1, FS_EmptySet DEF DocumentsOK
  <1> QED BY <1>1, <1>4, <1>5, <1>6, <1>7, <1>8 DEF TInv

LEMMA NextTInv ==
  ASSUME TInv, [Next]_vars
  PROVE  TInv'
  <1>1. ASSUME NEW t \in Txs, Step(t) PROVE TInv'
    BY <1>1, ClaimDocTInv, AdjustStockTInv, UpdateRowTInv, UpdateAggregateTInv, CommitTInv DEF Step
  <1>2. ASSUME NEW t \in Txs, Fail(t) \/ DeadlockVictim(t) PROVE TInv'
    BY <1>2, RollbackTInv DEF Fail, DeadlockVictim
  <1>3. CASE Environment
    BY <1>3, CutoverTInv, CutoverRollbackTInv, OtherTInv DEF Environment
  <1>4. CASE UNCHANGED vars
    <2>1. IInv'
      BY <1>4, NextIInv DEF TInv
    <2> QED BY <1>4, <2>1, QuietStep DEF vars
  <1> QED BY <1>1, <1>2, <1>3, <1>4, RequestTInv DEF Next

-----------------------------------------------------------------------------
\* What every transaction has buffered, every request and every document are
\* as the totals need them, in every reachable state.
THEOREM TotalsInvariant == Spec => []TInv
  BY InitTInv, NextTInv, PTL DEF Spec

\* Every sale, cancellation, purchase, reversal and adjustment moves a
\* branch's stock exactly once, across the cutover and its rollback.
THEOREM StockIsConserved == Spec => []StockConserved
  <1>1. TInv => StockConserved
    BY DEF TInv
  <1> QED BY <1>1, TotalsInvariant, PTL

\* Product.stock is the sum over the branches, in both modes.
THEOREM AggregateStaysInStep == Spec => []AggregateInStep
  <1>1. TInv => AggregateInStep
    BY DEF TInv
  <1> QED BY <1>1, TotalsInvariant, PTL
=============================================================================

---------------------------- MODULE CatalogProofs ----------------------------
(***************************************************************************)
(* Proofs about Catalog and UpiAccounts for any products, branches,        *)
(* admins, accounts and handlers.                                          *)
(***************************************************************************)
EXTENDS Catalog, UpiAccounts, TLAPS

\* The values the catalog's tables and handlers may hold; a handler on its way
\* to a link acts for an admin and a branch, an assignment names its row.
OpType == [pc : {"idle", "product", "assign", "resolve", "branch", "link"}, admin : Admins \cup {None},
           product : Products \cup {None}, branch : Branches \cup {None}, seen : {"none", "assigned", "hidden"},
           all : SUBSET (Products \cup Branches), want : {None, "new", "any", "assigned", "hidden"}]

WellFormed(j) ==
  /\ j \in OpType
  /\ j.pc \in {"product", "assign"} => j.product \in Products
  /\ j.pc = "assign" => j.branch \in Branches /\ j.want \in {"assigned", "hidden"}
  /\ j.pc \in {"resolve", "branch", "link"} => j.admin \in Admins /\ j.branch \in Branches

CatalogTypes ==
  /\ product \in [Products -> {"none", "ACTIVE", "INACTIVE"}]
  /\ shop \subseteq Branches
  /\ row \in [Products \X Branches -> {"none", "assigned", "hidden"}]
  /\ link \subseteq Admins \X Branches
  /\ selected \in [Admins -> Branches \cup {None}]
  /\ op \in [Ops -> OpType] /\ \A o \in Ops : WellFormed(op[o])

\* A transaction that creates a product has read every branch there is, or has
\* overlapped with the creation of those it has not seen; and the other way.
CreationsOK ==
  /\ \A o \in Ops : op[o].pc = "product" =>
       \A b \in shop : b \in op[o].all \/ <<op[o].product, b>> \in crossed
  /\ \A o \in Ops : op[o].pc = "branch" =>
       \A p \in Known : p \in op[o].all \/ <<p, op[o].branch>> \in crossed
  /\ \A o, q \in Ops : op[o].pc = "product" /\ op[q].pc = "branch" => <<op[o].product, op[q].branch>> \in crossed

\* An admin's branches, and those a handler is about to link him to.
Holds(a, b) == <<a, b>> \in link \/ selected[a] = b
Claims(a, b) ==
  Holds(a, b) \/ \E o \in Ops : op[o].pc \in {"resolve", "branch", "link"} /\ op[o].admin = a /\ op[o].branch = b

LinksOK ==
  /\ \A a \in Admins, b \in Branches : Holds(a, b) => b \in shop
  /\ \A o \in Ops : op[o].pc = "link" => op[o].branch \in shop
  /\ \A a, c \in Admins, b \in Branches : a # c /\ Claims(a, b) /\ Claims(c, b) => b \in contested

CInv == CatalogTypes /\ CreationsOK /\ CatalogComplete /\ LinksOK

-----------------------------------------------------------------------------
(* Handlers.                                                               *)

LEMMA IdleFacts == WellFormed(Idle) /\ Idle.pc = "idle"
  BY DEF Idle, WellFormed, OpType

LEMMA OpStep ==
  ASSUME CatalogTypes, NEW o \in Ops, NEW j, Goto(o, j)
  PROVE  op'[o] = j /\ \A q \in Ops \ {o} : op'[q] = op[q]
  BY DEF CatalogTypes, Goto

LEMMA TypesKept ==
  ASSUME CatalogTypes, NEW o \in Ops, NEW j, WellFormed(j), Goto(o, j),
         product' \in [Products -> {"none", "ACTIVE", "INACTIVE"}], shop' \subseteq Branches,
         row' \in [Products \X Branches -> {"none", "assigned", "hidden"}],
         link' \subseteq Admins \X Branches, selected' = selected
  PROVE  CatalogTypes'
  <1>1. op' \in [Ops -> OpType]
    BY DEF CatalogTypes, Goto, WellFormed
  <1>2. \A q \in Ops : WellFormed(op'[q])
    BY OpStep DEF CatalogTypes
  <1> QED BY <1>1, <1>2 DEF CatalogTypes, WellFormed

\* The handler a Begin starts, and the one that goes on to its link.
LEMMA StartedCreation ==
  ASSUME NEW p \in Products, NEW all, all \subseteq Branches
  PROVE  LET j == [Idle EXCEPT !.pc = "product", !.product = p, !.all = all]
         IN  WellFormed(j) /\ j.pc = "product" /\ j.product = p /\ j.all = all
  BY DEF Idle, WellFormed, OpType

LEMMA StartedAssignment ==
  ASSUME NEW p \in Products, NEW b \in Branches, NEW seen \in {"none", "assigned", "hidden"}, NEW w \in {"assigned", "hidden"}
  PROVE  LET j == [Idle EXCEPT !.pc = "assign", !.product = p, !.branch = b, !.seen = seen, !.want = w]
         IN  WellFormed(j) /\ j.pc = "assign"
  BY DEF Idle, WellFormed, OpType

LEMMA StartedEntry ==
  ASSUME NEW a \in Admins, NEW b \in Branches, NEW w \in {"new", "any"}
  PROVE  LET j == [Idle EXCEPT !.pc = "resolve", !.admin = a, !.branch = b, !.want = w]
         IN  WellFormed(j) /\ j.pc = "resolve" /\ j.admin = a /\ j.branch = b
  BY DEF Idle, WellFormed, OpType

LEMMA StartedLink ==
  ASSUME NEW a \in Admins, NEW b \in Branches
  PROVE  LET j == [Idle EXCEPT !.pc = "link", !.admin = a, !.branch = b]
         IN  WellFormed(j) /\ j.pc = "link" /\ j.admin = a /\ j.branch = b
  BY DEF Idle, WellFormed, OpType

\* A step that sends a handler to its link.
LEMMA LinkTypes ==
  ASSUME CatalogTypes, NEW o \in Ops, NEW a \in Admins, NEW b \in Branches,
         Goto(o, [Idle EXCEPT !.pc = "link", !.admin = a, !.branch = b]),
         product' \in [Products -> {"none", "ACTIVE", "INACTIVE"}], shop' \subseteq Branches,
         row' \in [Products \X Branches -> {"none", "assigned", "hidden"}],
         link' \subseteq Admins \X Branches, selected' = selected
  PROVE  CatalogTypes'
  <1> DEFINE j == [Idle EXCEPT !.pc = "link", !.admin = a, !.branch = b]
  <1>1. WellFormed(j)
    BY StartedLink
  <1>2. Goto(o, j)
    OBVIOUS
  <1> HIDE DEF j
  <1> QED BY <1>1, <1>2, TypesKept

\* Every branch that may be typed is one.
LEMMA LocationFacts ==
  ASSUME NEW raw \in Locations
  PROVE  NormalizeShopLocation(raw) \in Branches \cup {None}
  BY DEF Locations, NormalizeShopLocation

LEMMA RowsWritten ==
  ASSUME CatalogTypes, NEW pairs
  PROVE  /\ WithRows(pairs) \in [Products \X Branches -> {"none", "assigned", "hidden"}]
         /\ \A x \in Products \X Branches : WithRows(pairs)[x] = "none" => row[x] = "none" /\ x \notin pairs
  BY DEF CatalogTypes, WithRows

\* An assignment creates a row or changes it; it removes none.
LEMMA AssignmentWritten ==
  ASSUME CatalogTypes, NEW o \in Ops, SetBranchAssignment(o)
  PROVE  /\ row' \in [Products \X Branches -> {"none", "assigned", "hidden"}]
         /\ \A x \in Products \X Branches : row'[x] = "none" => row[x] = "none"
  <1> DEFINE x == <<op[o].product, op[o].branch>>
  <1>1. x \in Products \X Branches /\ op[o].want \in {"assigned", "hidden"}
    BY DEF CatalogTypes, SetBranchAssignment, At, WellFormed
  <1>2. row' = row \/ row' = [row EXCEPT ![x] = op[o].want]
    BY DEF SetBranchAssignment
  <1> HIDE DEF x
  <1> QED BY <1>1, <1>2 DEF CatalogTypes

-----------------------------------------------------------------------------
(* Types.                                                                  *)

LEMMA TypesNext ==
  ASSUME CatalogTypes, Next
  PROVE  CatalogTypes'
  <1>0. /\ product \in [Products -> {"none", "ACTIVE", "INACTIVE"}] /\ shop \subseteq Branches
        /\ row \in [Products \X Branches -> {"none", "assigned", "hidden"}]
        /\ link \subseteq Admins \X Branches /\ \A a \in Admins : selected[a] \in Branches \cup {None}
        /\ \A o \in Ops : WellFormed(op[o])
    BY DEF CatalogTypes
  <1>1. ASSUME NEW a \in Admins PROVE link \cup Healed(a) \subseteq Admins \X Branches
    BY <1>0 DEF Healed
  <1>2. ASSUME NEW o \in Ops, NEW a \in Admins, NEW p \in Products, CreateProduct(o, a, p)
        PROVE  CatalogTypes'
    BY <1>0, <1>2, StartedCreation, TypesKept DEF CreateProduct, Begin
  <1>3. ASSUME NEW o \in Ops, NEW a \in Admins, NEW p \in Products, NEW b \in Branches, NEW w \in {"assigned", "hidden"},
               ReadAssignment(o, a, p, b, w)
        PROVE  CatalogTypes'
    <2>1. row[<<p, b>>] \in {"none", "assigned", "hidden"}
      BY <1>0
    <2> QED BY <1>0, <1>3, <2>1, StartedAssignment, TypesKept DEF ReadAssignment, Begin
  <1>4. ASSUME NEW o \in Ops, NEW a \in Admins, NEW b \in Branches, NEW w \in {"new", "any"}, Enter(o, a, b, w)
        PROVE  CatalogTypes'
    BY <1>0, <1>4, StartedEntry, TypesKept DEF Enter, Begin
  <1>5. ASSUME NEW o \in Ops, NEW a \in Admins, NEW raw \in Locations, CreateBranch(o, a, raw) \/ AdminSignup(o, a, raw)
        PROVE  CatalogTypes'
    BY <1>4, <1>5, LocationFacts DEF CreateBranch, AdminSignup
  <1>6. ASSUME NEW o \in Ops, NEW a \in Admins, NEW b \in Branches, ApproveCashier(o, a, b)
        PROVE  CatalogTypes'
    <2>1. link' \subseteq Admins \X Branches
      BY <1>1, <1>6 DEF ApproveCashier
    <2>2. Goto(o, [Idle EXCEPT !.pc = "link", !.admin = a, !.branch = b])
      BY <1>6 DEF ApproveCashier, Begin
    <2>3. UNCHANGED <<product, shop, row, selected>>
      BY <1>6 DEF ApproveCashier
    <2> QED BY <1>0, <2>1, <2>2, <2>3, LinkTypes
  <1>7. ASSUME NEW o \in Ops, CommitProduct(o)
        PROVE  CatalogTypes'
    <2>1. op[o].product \in Products
      BY <1>0, <1>7 DEF CommitProduct, At, WellFormed
    <2>2. product' \in [Products -> {"none", "ACTIVE", "INACTIVE"}]
      BY <1>0, <1>7, <2>1 DEF CommitProduct
    <2>3. row' \in [Products \X Branches -> {"none", "assigned", "hidden"}]
      BY <1>7, RowsWritten DEF CommitProduct
    <2>4. Goto(o, Idle) /\ UNCHANGED <<shop, link, selected>>
      BY <1>7 DEF CommitProduct, Finish
    <2> QED BY <1>0, <2>2, <2>3, <2>4, IdleFacts, TypesKept
  <1>8. ASSUME NEW o \in Ops, SetBranchAssignment(o)
        PROVE  CatalogTypes'
    <2>1. row' \in [Products \X Branches -> {"none", "assigned", "hidden"}]
      BY <1>8, AssignmentWritten
    <2> QED BY <1>0, <1>8, <2>1, IdleFacts, TypesKept DEF SetBranchAssignment, Finish
  <1>9. ASSUME NEW o \in Ops, InsertBranch(o)
        PROVE  CatalogTypes'
    <2>1. op[o] \in OpType /\ op[o].admin \in Admins /\ op[o].branch \in Branches
      BY <1>0, <1>9 DEF InsertBranch, At, WellFormed
    <2>2. UNCHANGED <<product, shop, row, link, selected>>
      BY <1>9 DEF InsertBranch
    <2>3. ASSUME Goto(o, [op[o] EXCEPT !.pc = "branch", !.all = AllProducts]) PROVE CatalogTypes'
      <3> DEFINE j == [op[o] EXCEPT !.pc = "branch", !.all = AllProducts]
      <3>1. AllProducts \subseteq Products
        BY DEF AllProducts, Known
      <3>2. WellFormed(j)
        BY <2>1, <3>1 DEF WellFormed, OpType
      <3> HIDE DEF j
      <3>3. Goto(o, j)
        BY <2>3 DEF j
      <3> QED BY <1>0, <2>2, <3>2, <3>3, TypesKept
    <2>4. ASSUME GotoLink(o) PROVE CatalogTypes'
      BY <1>0, <2>1, <2>2, <2>4, LinkTypes DEF GotoLink
    <2>5. ASSUME Finish(o) PROVE CatalogTypes'
      BY <1>0, <2>2, <2>5, IdleFacts, TypesKept DEF Finish
    <2> QED BY <1>9, <2>3, <2>4, <2>5 DEF InsertBranch
  <1>10. ASSUME NEW o \in Ops, CommitBranch(o)
         PROVE  CatalogTypes'
    <2>1. op[o].admin \in Admins /\ op[o].branch \in Branches
      BY <1>0, <1>10 DEF CommitBranch, At, WellFormed
    <2>2. shop' \subseteq Branches
      BY <1>0, <1>10, <2>1 DEF CommitBranch
    <2>3. row' \in [Products \X Branches -> {"none", "assigned", "hidden"}]
      BY <1>10, RowsWritten DEF CommitBranch
    <2>4. Goto(o, [Idle EXCEPT !.pc = "link", !.admin = op[o].admin, !.branch = op[o].branch])
      BY <1>10 DEF CommitBranch, GotoLink
    <2>5. UNCHANGED <<product, link, selected>>
      BY <1>10 DEF CommitBranch
    <2> QED BY <1>0, <2>1, <2>2, <2>3, <2>4, <2>5, LinkTypes
  <1>11. ASSUME NEW o \in Ops, EnsureAdminShopLink(o)
         PROVE  CatalogTypes'
    <2>1. op[o].admin \in Admins /\ op[o].branch \in Branches
      BY <1>0, <1>11 DEF EnsureAdminShopLink, At, WellFormed
    <2> QED BY <1>0, <1>11, <2>1, IdleFacts, TypesKept DEF EnsureAdminShopLink, Finish
  <1>12. ASSUME NEW o \in Ops, Crash(o)
         PROVE  CatalogTypes'
    BY <1>0, <1>12, IdleFacts, TypesKept DEF Crash, Finish
  <1>13. ASSUME NEW a \in Admins, NEW p \in Products, NEW status \in {"ACTIVE", "INACTIVE"}, EditProduct(a, p, status)
         PROVE  CatalogTypes'
    BY <1>13 DEF EditProduct, CatalogTypes
  <1>14. ASSUME NEW a \in Admins, ListShopsForAdmin(a)
         PROVE  CatalogTypes'
    BY <1>1, <1>14 DEF ListShopsForAdmin, CatalogTypes
  <1>15. ASSUME NEW a \in Admins, NEW b \in Branches, SwitchShop(a, b)
         PROVE  CatalogTypes'
    BY <1>15 DEF SwitchShop, CatalogTypes
  <1>16. ASSUME NEW a \in Admins, NEW p \in Products, DeleteProduct(a, p)
         PROVE  CatalogTypes'
    BY <1>13, <1>16 DEF DeleteProduct
  <1> QED BY <1>2, <1>3, <1>5, <1>6, <1>7, <1>8, <1>9, <1>10, <1>11, <1>12, <1>13, <1>14, <1>15, <1>16
          DEF Next, Arrive, Step

-----------------------------------------------------------------------------
(* Completeness.                                                           *)

\* A step that neither begins nor ends the creation of a product or a branch.
LEMMA CreationsKept ==
  ASSUME CatalogTypes, CreationsOK, CatalogComplete,
         NEW o \in Ops, NEW j, Goto(o, j), j.pc \notin {"product", "branch"},
         product' = product, shop' = shop, crossed' = crossed,
         \A x \in Products \X Branches : row'[x] = "none" => row[x] = "none"
  PROVE  CreationsOK' /\ CatalogComplete'
  <1>1. op'[o] = j /\ \A q \in Ops \ {o} : op'[q] = op[q]
    BY OpStep
  <1>2. CreationsOK'
    BY <1>1 DEF CreationsOK, Known
  <1>3. shop \subseteq Branches /\ Known \subseteq Products
    BY DEF CatalogTypes, Known
  <1>4. CatalogComplete'
    BY <1>3 DEF CatalogComplete, Known
  <1> QED BY <1>2, <1>4

LEMMA CreateProductCreations ==
  ASSUME CatalogTypes, CreationsOK, CatalogComplete,
         NEW o \in Ops, NEW a \in Admins, NEW p \in Products, CreateProduct(o, a, p)
  PROVE  CreationsOK' /\ CatalogComplete'
  <1> DEFINE j == [Idle EXCEPT !.pc = "product", !.product = p, !.all = shop]
  <1>1. shop \subseteq Branches
    BY DEF CatalogTypes
  <1>2. j.pc = "product" /\ j.product = p /\ j.all = shop
    BY <1>1, StartedCreation
  <1>3. Goto(o, j)
    BY DEF CreateProduct, Begin
  <1> HIDE DEF j
  <1>4. op'[o] = j /\ \A q \in Ops \ {o} : op'[q] = op[q]
    BY <1>3, OpStep
  <1>5. UNCHANGED <<product, shop, row>>
    BY DEF CreateProduct
  <1>6. \A x : x \in crossed => x \in crossed'
    BY DEF CreateProduct
  <1>7. \A q \in Ops : op[q].pc = "branch" => <<p, op[q].branch>> \in crossed'
    BY DEF CreateProduct, Creating, At
  <1>8. \A q \in Ops : op'[q].pc = "product" =>
          \A b \in shop' : b \in op'[q].all \/ <<op'[q].product, b>> \in crossed'
    BY <1>2, <1>4, <1>5, <1>6 DEF CreationsOK
  <1>9. \A q \in Ops : op'[q].pc = "branch" =>
          \A d \in Known' : d \in op'[q].all \/ <<d, op'[q].branch>> \in crossed'
    BY <1>2, <1>4, <1>5, <1>6 DEF CreationsOK, Known
  <1>10. \A q, r \in Ops : op'[q].pc = "product" /\ op'[r].pc = "branch" => <<op'[q].product, op'[r].branch>> \in crossed'
    BY <1>2, <1>4, <1>6, <1>7 DEF CreationsOK
  <1>11. CatalogComplete'
    BY <1>5, <1>6 DEF CatalogComplete, Known
  <1> QED BY <1>8, <1>9, <1>10, <1>11 DEF CreationsOK

\* The branches the product's transaction has not read are crossed with it.
LEMMA CommitProductCreations ==
  ASSUME CatalogTypes, CreationsOK, CatalogComplete, NEW o \in Ops, CommitProduct(o)
  PROVE  CreationsOK' /\ CatalogComplete'
  <1>1. PICK p : p = op[o].product
    OBVIOUS
  <1>2. p \in Products /\ op[o].pc = "product" /\ shop \subseteq Branches /\ Known \subseteq Products
    BY <1>1 DEF CatalogTypes, CommitProduct, At, WellFormed, Known
  <1>3. op'[o] = Idle /\ \A q \in Ops \ {o} : op'[q] = op[q]
    BY OpStep DEF CommitProduct, Finish
  <1>4. UNCHANGED <<shop, crossed>>
    BY DEF CommitProduct
  <1>5. \A d \in Known' : d \in Known \/ d = p
    BY <1>1, <1>2 DEF CommitProduct, Known, CatalogTypes
  <1>6. \A x \in Products \X Branches : row'[x] = "none" => row[x] = "none" /\ x \notin {p} \X op[o].all
    BY <1>1, RowsWritten DEF CommitProduct
  <1>7. \A q \in Ops : op'[q].pc = "product" =>
          \A b \in shop' : b \in op'[q].all \/ <<op'[q].product, b>> \in crossed'
    BY <1>3, <1>4, IdleFacts DEF CreationsOK
  <1>8. \A q \in Ops : op'[q].pc = "branch" =>
          \A d \in Known' : d \in op'[q].all \/ <<d, op'[q].branch>> \in crossed'
    BY <1>1, <1>2, <1>3, <1>4, <1>5, IdleFacts DEF CreationsOK
  <1>9. \A q, r \in Ops : op'[q].pc = "product" /\ op'[r].pc = "branch" => <<op'[q].product, op'[r].branch>> \in crossed'
    BY <1>3, <1>4, IdleFacts DEF CreationsOK
  <1>10. \A b \in shop : row'[<<p, b>>] # "none" \/ <<p, b>> \in crossed
    BY <1>1, <1>2, <1>6 DEF CreationsOK
  <1>11. \A d \in Known, b \in shop : row'[<<d, b>>] # "none" \/ <<d, b>> \in crossed
    BY <1>2, <1>6 DEF CatalogComplete
  <1>12. CatalogComplete'
    BY <1>4, <1>5, <1>10, <1>11 DEF CatalogComplete
  <1> QED BY <1>7, <1>8, <1>9, <1>12 DEF CreationsOK

LEMMA InsertBranchCreations ==
  ASSUME CatalogTypes, CreationsOK, CatalogComplete, NEW o \in Ops, InsertBranch(o)
  PROVE  CreationsOK' /\ CatalogComplete'
  <1>1. UNCHANGED <<product, shop, row>>
    BY DEF InsertBranch
  <1>2. ASSUME Goto(o, [op[o] EXCEPT !.pc = "branch", !.all = AllProducts]),
               crossed' = crossed \cup {<<c.product, op[o].branch>> : c \in Creating("product")}
        PROVE  CreationsOK' /\ CatalogComplete'
    <2> DEFINE j == [op[o] EXCEPT !.pc = "branch", !.all = AllProducts]
    <2>1. j.pc = "branch" /\ j.all = Known /\ j.branch = op[o].branch
      BY DEF CatalogTypes, OpType, AllProducts
    <2>2. Goto(o, j)
      BY <1>2
    <2> HIDE DEF j
    <2>3. op'[o] = j /\ \A q \in Ops \ {o} : op'[q] = op[q]
      BY <2>2, OpStep
    <2>4. \A x : x \in crossed => x \in crossed'
      BY <1>2
    <2>5. \A q \in Ops : op[q].pc = "product" => <<op[q].product, op[o].branch>> \in crossed'
      BY <1>2 DEF Creating, At
    <2>6. Known' = Known
      BY <1>1 DEF Known
    <2>7. \A q \in Ops : op'[q].pc = "product" =>
            \A b \in shop' : b \in op'[q].all \/ <<op'[q].product, b>> \in crossed'
      BY <1>1, <2>1, <2>3, <2>4 DEF CreationsOK
    <2>8. \A q \in Ops : op'[q].pc = "branch" =>
            \A d \in Known' : d \in op'[q].all \/ <<d, op'[q].branch>> \in crossed'
      BY <2>1, <2>3, <2>4, <2>6 DEF CreationsOK
    <2>9. \A q, r \in Ops : op'[q].pc = "product" /\ op'[r].pc = "branch" => <<op'[q].product, op'[r].branch>> \in crossed'
      BY <2>1, <2>3, <2>4, <2>5 DEF CreationsOK
    <2>10. CatalogComplete'
      BY <1>1, <2>4, <2>6 DEF CatalogComplete
    <2> QED BY <2>7, <2>8, <2>9, <2>10 DEF CreationsOK
  <1>3. ASSUME GotoLink(o), crossed' = crossed
        PROVE  CreationsOK' /\ CatalogComplete'
    <2>1. op[o].admin \in Admins /\ op[o].branch \in Branches
      BY DEF CatalogTypes, InsertBranch, At, WellFormed
    <2> DEFINE j == [Idle EXCEPT !.pc = "link", !.admin = op[o].admin, !.branch = op[o].branch]
    <2>2. j.pc = "link" /\ Goto(o, j)
      BY <1>3, <2>1, StartedLink, ZenonT(60) DEF GotoLink
    <2> HIDE DEF j
    <2> QED BY <1>1, <1>3, <2>2, CreationsKept
  <1>4. ASSUME Finish(o), crossed' = crossed
        PROVE  CreationsOK' /\ CatalogComplete'
    BY <1>1, <1>4, IdleFacts, CreationsKept DEF Finish
  <1> QED BY <1>2, <1>3, <1>4 DEF InsertBranch

\* The products the branch's transaction has not read are crossed with it.
LEMMA CommitBranchCreations ==
  ASSUME CatalogTypes, CreationsOK, CatalogComplete, NEW o \in Ops, CommitBranch(o)
  PROVE  CreationsOK' /\ CatalogComplete'
  <1>1. PICK b : b = op[o].branch
    OBVIOUS
  <1>2. b \in Branches /\ op[o].admin \in Admins /\ op[o].pc = "branch" /\ shop \subseteq Branches /\ Known \subseteq Products
    BY <1>1 DEF CatalogTypes, CommitBranch, At, WellFormed, Known
  <1> DEFINE j == [Idle EXCEPT !.pc = "link", !.admin = op[o].admin, !.branch = op[o].branch]
  <1>3. j.pc = "link" /\ Goto(o, j)
    <2>1. j.pc = "link"
      BY DEF Idle
    <2>2. Goto(o, j)
      BY DEF GotoLink, CommitBranch
    <2> QED BY <2>1, <2>2
  <1> HIDE DEF j
  <1>4. op'[o].pc = "link" /\ \A q \in Ops \ {o} : op'[q] = op[q]
    BY <1>3, OpStep
  <1>5. Known' = Known /\ crossed' = crossed /\ shop' = shop \cup {b}
    BY <1>1 DEF CommitBranch, Known
  <1>6. \A x \in Products \X Branches : row'[x] = "none" => row[x] = "none" /\ x \notin op[o].all \X {b}
    BY <1>1, RowsWritten DEF CommitBranch
  <1>7. \A q \in Ops : op'[q].pc = "product" =>
          \A d \in shop' : d \in op'[q].all \/ <<op'[q].product, d>> \in crossed'
    BY <1>1, <1>2, <1>4, <1>5 DEF CreationsOK
  <1>8. \A q \in Ops : op'[q].pc = "branch" =>
          \A d \in Known' : d \in op'[q].all \/ <<d, op'[q].branch>> \in crossed'
    BY <1>4, <1>5 DEF CreationsOK
  <1>9. \A q, r \in Ops : op'[q].pc = "product" /\ op'[r].pc = "branch" => <<op'[q].product, op'[r].branch>> \in crossed'
    BY <1>4, <1>5 DEF CreationsOK
  <1>10. \A p \in Known : row'[<<p, b>>] # "none" \/ <<p, b>> \in crossed
    BY <1>1, <1>2, <1>6 DEF CreationsOK
  <1>11. \A p \in Known, d \in shop : row'[<<p, d>>] # "none" \/ <<p, d>> \in crossed
    BY <1>2, <1>6 DEF CatalogComplete
  <1>12. CatalogComplete'
    BY <1>5, <1>10, <1>11 DEF CatalogComplete
  <1> QED BY <1>7, <1>8, <1>9, <1>12 DEF CreationsOK

LEMMA CreationsNext ==
  ASSUME CatalogTypes, CreationsOK, CatalogComplete, Next
  PROVE  CreationsOK' /\ CatalogComplete'
  <1>1. ASSUME NEW o \in Ops, NEW a \in Admins, NEW p \in Products, NEW b \in Branches, NEW w \in {"assigned", "hidden"},
               ReadAssignment(o, a, p, b, w)
        PROVE  CreationsOK' /\ CatalogComplete'
    <2> DEFINE j == [Idle EXCEPT !.pc = "assign", !.product = p, !.branch = b, !.seen = row[<<p, b>>], !.want = w]
    <2>1. j.pc = "assign"
      BY DEF Idle
    <2>2. Goto(o, j) /\ UNCHANGED <<product, shop, row, crossed>>
      BY <1>1 DEF ReadAssignment, Begin
    <2> HIDE DEF j
    <2> QED BY <2>1, <2>2, CreationsKept
  <1>2. ASSUME NEW o \in Ops, NEW a \in Admins, NEW b \in Branches, NEW w, Enter(o, a, b, w)
        PROVE  CreationsOK' /\ CatalogComplete'
    <2> DEFINE j == [Idle EXCEPT !.pc = "resolve", !.admin = a, !.branch = b, !.want = w]
    <2>1. j.pc = "resolve"
      BY DEF Idle
    <2>2. Goto(o, j) /\ UNCHANGED <<product, shop, row, crossed>>
      BY <1>2 DEF Enter, Begin
    <2> HIDE DEF j
    <2> QED BY <2>1, <2>2, CreationsKept
  <1>3. ASSUME NEW o \in Ops, NEW a \in Admins, NEW raw \in Locations, CreateBranch(o, a, raw) \/ AdminSignup(o, a, raw)
        PROVE  CreationsOK' /\ CatalogComplete'
    BY <1>2, <1>3, LocationFacts DEF CreateBranch, AdminSignup
  <1>4. ASSUME NEW o \in Ops, NEW a \in Admins, NEW b \in Branches, ApproveCashier(o, a, b)
        PROVE  CreationsOK' /\ CatalogComplete'
    <2> DEFINE j == [Idle EXCEPT !.pc = "link", !.admin = a, !.branch = b]
    <2>1. j.pc = "link"
      BY DEF Idle
    <2>2. Goto(o, j) /\ UNCHANGED <<product, shop, row, crossed>>
      BY <1>4 DEF ApproveCashier, Begin
    <2> HIDE DEF j
    <2> QED BY <2>1, <2>2, CreationsKept
  <1>5. ASSUME NEW o \in Ops, SetBranchAssignment(o)
        PROVE  CreationsOK' /\ CatalogComplete'
    <2>1. \A x \in Products \X Branches : row'[x] = "none" => row[x] = "none"
      BY <1>5, AssignmentWritten
    <2> QED BY <1>5, <2>1, IdleFacts, CreationsKept DEF SetBranchAssignment, Finish
  <1>6. ASSUME NEW o \in Ops, EnsureAdminShopLink(o) \/ Crash(o)
        PROVE  CreationsOK' /\ CatalogComplete'
    BY <1>6, IdleFacts, CreationsKept DEF EnsureAdminShopLink, Crash, Finish
  <1>7. ASSUME NEW a \in Admins, NEW p \in Products, NEW status \in {"ACTIVE", "INACTIVE"}, EditProduct(a, p, status)
        PROVE  CreationsOK' /\ CatalogComplete'
    <2>1. Known' = Known
      BY <1>7 DEF EditProduct, Known, CatalogTypes
    <2>2. UNCHANGED <<shop, row, op, crossed>>
      BY <1>7 DEF EditProduct
    <2> QED BY <2>1, <2>2 DEF CreationsOK, CatalogComplete
  <1>8. ASSUME UNCHANGED <<product, shop, row, op, crossed>>
        PROVE  CreationsOK' /\ CatalogComplete'
    BY <1>8 DEF CreationsOK, CatalogComplete, Known
  <1> QED BY <1>1, <1>3, <1>4, <1>5, <1>6, <1>7, <1>8, CreateProductCreations, CommitProductCreations,
             InsertBranchCreations, CommitBranchCreations
          DEF Next, Arrive, Step, DeleteProduct, ListShopsForAdmin, SwitchShop

-----------------------------------------------------------------------------
(* Ownership.                                                              *)

\* A handler that is about to link an admin claims the branch for him.
LEMMA ClaimFacts ==
  ASSUME CatalogTypes, NEW a \in Admins, NEW b \in Branches
  PROVE  /\ OtherAdmins(a, b) # {} <=> \E c \in Admins \ {a} : Holds(c, b)
         /\ Rivals(a, b) # {} <=> \E c \in Admins \ {a} : \E o \in Ops :
              op[o].pc \in {"resolve", "branch", "link"} /\ op[o].admin = c /\ op[o].branch = b
         /\ Claims(a, b) <=> Holds(a, b) \/ \E o \in Ops :
              op[o].pc \in {"resolve", "branch", "link"} /\ op[o].admin = a /\ op[o].branch = b
  <1>1. OtherAdmins(a, b) # {} <=> \E c \in Admins \ {a} : Holds(c, b)
    BY DEF OtherAdmins, Holds
  <1>2. \A o \in Ops : op[o].pc \in {"resolve", "branch", "link"} => op[o].admin \in Admins
    BY DEF CatalogTypes, WellFormed
  <1>3. Rivals(a, b) # {} <=> \E c \in Admins \ {a} : \E o \in Ops :
              op[o].pc \in {"resolve", "branch", "link"} /\ op[o].admin = c /\ op[o].branch = b
    BY <1>2 DEF Rivals
  <1> QED BY <1>1, <1>3 DEF Claims

\* A step that makes no new claim and takes no branch away.
LEMMA ClaimsKept ==
  ASSUME CatalogTypes, LinksOK, \A b \in shop : b \in shop', \A b \in contested : b \in contested',
         \A a \in Admins, b \in Branches : Claims(a, b)' => Claims(a, b),
         \A a \in Admins, b \in Branches : Holds(a, b)' => b \in shop',
         \A o \in Ops : op'[o].pc = "link" => op'[o].branch \in shop'
  PROVE  LinksOK'
  BY DEF LinksOK

\* A step after which one handler, and nobody else, claims more.
LEMMA ClaimsGrow ==
  ASSUME CatalogTypes, LinksOK, \A b \in shop : b \in shop', \A b \in contested : b \in contested',
         NEW a \in Admins, NEW b \in Branches,
         \A c \in Admins, d \in Branches : Claims(c, d)' => Claims(c, d) \/ (c = a /\ d = b),
         \A c \in Admins \ {a} : Claims(c, b) => b \in contested',
         \A c \in Admins, d \in Branches : Holds(c, d)' => d \in shop',
         \A o \in Ops : op'[o].pc = "link" => op'[o].branch \in shop'
  PROVE  LinksOK'
  BY DEF LinksOK

\* A handler's step that only goes on with what the handler claimed already.
LEMMA HandlerKeepsLinks ==
  ASSUME CatalogTypes, LinksOK, \A b \in shop : b \in shop', \A b \in contested : b \in contested',
         NEW o \in Ops, NEW j, Goto(o, j),
         j.pc \in {"resolve", "branch", "link"} =>
           op[o].pc \in {"resolve", "branch", "link"} /\ j.admin = op[o].admin /\ j.branch = op[o].branch,
         j.pc = "link" => j.branch \in shop',
         \A a \in Admins, b \in Branches : Holds(a, b)' => Claims(a, b) /\ b \in shop'
  PROVE  LinksOK'
  <1>1. op'[o] = j /\ \A q \in Ops \ {o} : op'[q] = op[q]
    BY OpStep
  <1>2. ASSUME NEW a \in Admins, NEW b \in Branches, Claims(a, b)' PROVE Claims(a, b)
    <2>1. CASE Holds(a, b)'
      BY <2>1
    <2>2. CASE \E q \in Ops : op'[q].pc \in {"resolve", "branch", "link"} /\ op'[q].admin = a /\ op'[q].branch = b
      BY <1>1, <2>2 DEF Claims
    <2> QED BY <1>2, <2>1, <2>2 DEF Claims
  <1>3. \A q \in Ops : op'[q].pc = "link" => op'[q].branch \in shop'
    BY <1>1 DEF LinksOK
  <1> QED BY <1>2, <1>3, ClaimsKept

LEMMA HoldsUntouched ==
  ASSUME LinksOK, UNCHANGED <<link, selected>>, \A b \in shop : b \in shop'
  PROVE  \A a \in Admins, b \in Branches : Holds(a, b)' => Claims(a, b) /\ b \in shop'
  BY DEF LinksOK, Holds, Claims

\* Linking an admin to the branch he has selected gives him no new branch.
LEMMA HealedFacts ==
  ASSUME NEW a \in Admins, link' = link \cup Healed(a), selected' = selected
  PROVE  \A c \in Admins, b \in Branches : Holds(c, b)' => Holds(c, b)
  BY DEF Healed, Holds

\* An admin who passes the checks for a branch claims it; whoever claimed it
\* before is a rival, or holds it: then the signup was by another holder.
LEMMA EnterLinks ==
  ASSUME CatalogTypes, LinksOK, NEW o \in Ops, NEW a \in Admins, NEW b \in Branches, NEW w, Enter(o, a, b, w),
         b \notin shop \/ MayAttach(a, b)
  PROVE  LinksOK'
  <1> DEFINE j == [Idle EXCEPT !.pc = "resolve", !.admin = a, !.branch = b, !.want = w]
  <1>1. j.pc = "resolve" /\ j.admin = a /\ j.branch = b
    BY DEF Idle
  <1>2. Goto(o, j) /\ op[o] = Idle /\ UNCHANGED <<shop, link, selected>>
    BY DEF Enter, Begin
  <1> HIDE DEF j
  <1>3. op'[o] = j /\ \A q \in Ops \ {o} : op'[q] = op[q]
    BY <1>2, OpStep
  <1>4. \A c \in Admins, d \in Branches : Holds(c, d)' <=> Holds(c, d)
    BY <1>2 DEF Holds
  <1>5. \A c \in Admins, d \in Branches : Claims(c, d)' => Claims(c, d) \/ (c = a /\ d = b)
    BY <1>1, <1>3, <1>4 DEF Claims
  <1>6. \A d \in contested : d \in contested'
    BY DEF Enter
  <1>7. ASSUME NEW c \in Admins \ {a}, Claims(c, b) PROVE b \in contested'
    <2>1. CASE Rivals(a, b) # {}
      BY <2>1 DEF Enter
    <2>2. CASE Rivals(a, b) = {}
      <3>1. Holds(c, b)
        BY <1>7, <2>2 DEF Claims, Rivals
      <3>2. b \in shop /\ OtherAdmins(a, b) # {}
        BY <3>1 DEF LinksOK, OtherAdmins, Holds
      <3>3. Claims(a, b)
        BY <3>2 DEF MayAttach, Claims, Holds
      <3> QED BY <1>6, <1>7, <3>3 DEF LinksOK
    <2> QED BY <2>1, <2>2
  <1>8. \A q \in Ops : op'[q].pc = "link" => op'[q].branch \in shop'
    BY <1>1, <1>2, <1>3 DEF LinksOK
  <1>9. \A c \in Admins, d \in Branches : Holds(c, d)' => d \in shop'
    BY <1>2, <1>4 DEF LinksOK
  <1> QED BY <1>2, <1>5, <1>6, <1>7, <1>8, <1>9, ClaimsGrow

LEMMA ApproveLinks ==
  ASSUME CatalogTypes, LinksOK, NEW o \in Ops, NEW a \in Admins, NEW b \in Branches, ApproveCashier(o, a, b)
  PROVE  LinksOK'
  <1> DEFINE j == [Idle EXCEPT !.pc = "link", !.admin = a, !.branch = b]
  <1>1. j.pc = "link" /\ j.admin = a /\ j.branch = b
    BY DEF Idle
  <1>2. Goto(o, j) /\ b \in shop /\ UNCHANGED <<shop, selected>> /\ link' = link \cup Healed(a)
    BY DEF ApproveCashier, Begin
  <1> HIDE DEF j
  <1>3. op'[o] = j /\ \A q \in Ops \ {o} : op'[q] = op[q]
    BY <1>2, OpStep
  <1>4. \A c \in Admins, d \in Branches : Holds(c, d)' => Holds(c, d)
    BY <1>2, HealedFacts
  <1>5. \A c \in Admins, d \in Branches : Claims(c, d)' => Claims(c, d) \/ (c = a /\ d = b)
    BY <1>1, <1>3, <1>4 DEF Claims
  <1>6. \A d \in contested : d \in contested'
    BY DEF ApproveCashier
  <1>7. ASSUME NEW c \in Admins \ {a}, Claims(c, b) PROVE b \in contested'
    <2>1. OtherAdmins(a, b) # {} \/ Rivals(a, b) # {}
      BY <1>7 DEF Claims, Holds, OtherAdmins, Rivals
    <2> QED BY <2>1 DEF ApproveCashier
  <1>8. \A q \in Ops : op'[q].pc = "link" => op'[q].branch \in shop'
    BY <1>1, <1>2, <1>3 DEF LinksOK
  <1>9. \A c \in Admins, d \in Branches : Holds(c, d)' => d \in shop'
    BY <1>2, <1>4 DEF LinksOK
  <1> QED BY <1>2, <1>5, <1>6, <1>7, <1>8, <1>9, ClaimsGrow

\* A handler that inserts its branch, or links its admin, goes on with both.
LEMMA StepLinks ==
  ASSUME CatalogTypes, LinksOK, NEW o \in Ops,
         InsertBranch(o) \/ CommitBranch(o) \/ EnsureAdminShopLink(o)
  PROVE  LinksOK'
  <1>1. op[o].pc \in {"resolve", "branch", "link"} /\ op[o].admin \in Admins /\ op[o].branch \in Branches
    BY DEF CatalogTypes, InsertBranch, CommitBranch, EnsureAdminShopLink, At, WellFormed
  <1>2. contested' = contested /\ \A b \in shop : b \in shop'
    BY DEF InsertBranch, CommitBranch, EnsureAdminShopLink
  <1>3. ASSUME GotoLink(o), UNCHANGED <<link, selected>>, op[o].branch \in shop' PROVE LinksOK'
    <2> DEFINE j == [Idle EXCEPT !.pc = "link", !.admin = op[o].admin, !.branch = op[o].branch]
    <2>1. j.pc = "link" /\ j.admin = op[o].admin /\ j.branch = op[o].branch
      BY DEF Idle
    <2>2. Goto(o, j)
      BY <1>3 DEF GotoLink
    <2> HIDE DEF j
    <2>3. \A a \in Admins, b \in Branches : Holds(a, b)' => Claims(a, b) /\ b \in shop'
      BY <1>2, <1>3, HoldsUntouched
    <2> QED BY <1>1, <1>2, <1>3, <2>1, <2>2, <2>3, HandlerKeepsLinks
  <1>4. CASE InsertBranch(o)
    <2>1. UNCHANGED <<shop, link, selected>>
      BY <1>4 DEF InsertBranch
    <2>2. \A a \in Admins, b \in Branches : Holds(a, b)' => Claims(a, b) /\ b \in shop'
      BY <1>2, <2>1, HoldsUntouched
    <2>3. ASSUME Goto(o, [op[o] EXCEPT !.pc = "branch", !.all = AllProducts]) PROVE LinksOK'
      <3> DEFINE j == [op[o] EXCEPT !.pc = "branch", !.all = AllProducts]
      <3>1. j.pc = "branch" /\ j.admin = op[o].admin /\ j.branch = op[o].branch
        BY DEF CatalogTypes, OpType
      <3>2. Goto(o, j)
        BY <2>3
      <3> HIDE DEF j
      <3> QED BY <1>1, <1>2, <2>2, <3>1, <3>2, HandlerKeepsLinks
    <2>4. ASSUME Finish(o) PROVE LinksOK'
      BY <1>2, <2>2, <2>4, IdleFacts, HandlerKeepsLinks DEF Finish
    <2> QED BY <1>3, <1>4, <2>1, <2>3, <2>4 DEF InsertBranch
  <1>5. CASE CommitBranch(o)
    BY <1>3, <1>5 DEF CommitBranch
  <1>6. CASE EnsureAdminShopLink(o)
    <2>1. op[o].branch \in shop
      BY <1>6 DEF EnsureAdminShopLink, At, LinksOK
    <2>2. \A a \in Admins, b \in Branches : Holds(a, b)' => Claims(a, b) /\ b \in shop'
      BY <1>1, <1>6, <2>1 DEF EnsureAdminShopLink, Holds, Claims, LinksOK
    <2> QED BY <1>2, <1>6, <2>2, IdleFacts, HandlerKeepsLinks DEF EnsureAdminShopLink, Finish
  <1> QED BY <1>4, <1>5, <1>6

LEMMA LinksNext ==
  ASSUME CatalogTypes, LinksOK, Next
  PROVE  LinksOK'
  <1>1. ASSUME NEW o \in Ops, NEW j, Goto(o, j), j.pc \notin {"resolve", "branch", "link"},
               UNCHANGED <<shop, link, selected, contested>>
        PROVE  LinksOK'
    <2>1. \A a \in Admins, b \in Branches : Holds(a, b)' => Claims(a, b) /\ b \in shop'
      BY <1>1, HoldsUntouched
    <2> QED BY <1>1, <2>1, HandlerKeepsLinks
  <1>2. ASSUME NEW o \in Ops, NEW a \in Admins, NEW p \in Products, CreateProduct(o, a, p)
        PROVE  LinksOK'
    <2> DEFINE j == [Idle EXCEPT !.pc = "product", !.product = p, !.all = shop]
    <2>1. j.pc = "product"
      BY DEF Idle
    <2>2. Goto(o, j) /\ UNCHANGED <<shop, link, selected, contested>>
      BY <1>2 DEF CreateProduct, Begin
    <2> HIDE DEF j
    <2> QED BY <1>1, <2>1, <2>2
  <1>3. ASSUME NEW o \in Ops, NEW a \in Admins, NEW p \in Products, NEW b \in Branches, NEW w \in {"assigned", "hidden"},
               ReadAssignment(o, a, p, b, w)
        PROVE  LinksOK'
    <2> DEFINE j == [Idle EXCEPT !.pc = "assign", !.product = p, !.branch = b, !.seen = row[<<p, b>>], !.want = w]
    <2>1. j.pc = "assign"
      BY DEF Idle
    <2>2. Goto(o, j) /\ UNCHANGED <<shop, link, selected, contested>>
      BY <1>3 DEF ReadAssignment, Begin
    <2> HIDE DEF j
    <2> QED BY <1>1, <2>1, <2>2
  <1>4. ASSUME NEW o \in Ops, CommitProduct(o) \/ SetBranchAssignment(o) \/ Crash(o)
        PROVE  LinksOK'
    BY <1>1, <1>4, IdleFacts DEF CommitProduct, SetBranchAssignment, Crash, Finish
  <1>5. ASSUME NEW o \in Ops, NEW a \in Admins, NEW raw \in Locations, CreateBranch(o, a, raw) \/ AdminSignup(o, a, raw)
        PROVE  LinksOK'
    BY <1>5, LocationFacts, EnterLinks DEF CreateBranch, AdminSignup
  <1>6. ASSUME NEW a \in Admins, ListShopsForAdmin(a)
        PROVE  LinksOK'
    <2>1. \A c \in Admins, b \in Branches : Holds(c, b)' => Holds(c, b)
      BY <1>6, HealedFacts DEF ListShopsForAdmin
    <2> QED BY <1>6, <2>1, ClaimsKept DEF ListShopsForAdmin, Claims, LinksOK
  <1>7. ASSUME NEW a \in Admins, NEW b \in Branches, SwitchShop(a, b)
        PROVE  LinksOK'
    <2>1. \A c \in Admins, d \in Branches : Holds(c, d)' => Holds(c, d)
      BY <1>7 DEF SwitchShop, Holds, CatalogTypes
    <2> QED BY <1>7, <2>1, ClaimsKept DEF SwitchShop, Claims, LinksOK
  <1>8. ASSUME NEW a \in Admins, NEW p \in Products, NEW status, EditProduct(a, p, status)
        PROVE  LinksOK'
    BY <1>8 DEF EditProduct, LinksOK, Claims, Holds
  <1> QED BY <1>2, <1>3, <1>4, <1>5, <1>6, <1>7, <1>8, ApproveLinks, StepLinks
          DEF Next, Arrive, Step, DeleteProduct

-----------------------------------------------------------------------------
(* The catalog's theorems.                                                 *)

LEMMA InitCInv ==
  ASSUME Init
  PROVE  CInv
  <1>1. CatalogTypes
    BY CatalogAssumption, IdleFacts DEF Init, CatalogTypes, WellFormed
  <1>2. CreationsOK
    BY IdleFacts DEF Init, CreationsOK
  <1>3. CatalogComplete
    BY DEF Init, CatalogComplete, Known
  <1>4. \A a \in Admins, b \in Branches : Claims(a, b) => a = Central /\ b = Home
    BY CatalogAssumption, IdleFacts DEF Init, Claims, Holds
  <1>5. LinksOK
    BY <1>4, IdleFacts DEF Init, LinksOK, Claims
  <1> QED BY <1>1, <1>2, <1>3, <1>5 DEF CInv

LEMMA NextCInv ==
  ASSUME CInv, [Next]_vars
  PROVE  CInv'
  <1>1. CASE Next
    BY <1>1, TypesNext, CreationsNext, LinksNext DEF CInv
  <1>2. CASE UNCHANGED vars
    <2>1. CatalogTypes'
      BY <1>2 DEF vars, CInv, CatalogTypes, WellFormed
    <2>2. CreationsOK' /\ CatalogComplete'
      BY <1>2 DEF vars, CInv, CreationsOK, CatalogComplete, Known
    <2>3. LinksOK'
      BY <1>2 DEF vars, CInv, LinksOK, Claims, Holds
    <2> QED BY <2>1, <2>2, <2>3 DEF CInv
  <1> QED BY <1>1, <1>2

\* In every reachable state the tables and handlers hold what the code can
\* write, every creating transaction has read or crossed everything its
\* siblings hold, and two admins' claims to one branch have met.
THEOREM CatalogInvariant == Spec => []CInv
  <1> QED BY InitCInv, NextCInv, PTL DEF Spec

\* Every branch carries every product, on sale or not, unless the transactions
\* that created the two overlapped: for any number of products and branches,
\* whatever admins edit, delete, assign and hide in between.
THEOREM CatalogStaysComplete == Spec => []CatalogComplete
  <1>1. CInv => CatalogComplete
    BY DEF CInv
  <1> QED BY <1>1, CatalogInvariant, PTL

\* Two admins hold one branch only if both had passed their checks before
\* either was linked, or one approved a cashier of the branch: the ownership
\* test of the signup is enough for every other order of the handlers.
THEOREM SharedOnlyInRaces == Spec => []SharedOnlyByRace
  <1>1. CInv => SharedOnlyByRace
    BY DEF CInv, LinksOK, SharedOnlyByRace, OtherAdmins, Holds, Claims
  <1> QED BY <1>1, CatalogInvariant, PTL

-----------------------------------------------------------------------------
(* UPI accounts.                                                           *)

\* The values the accounts and the saving handlers may hold.
Details == [account : Accounts, enabled : BOOLEAN]
SaverType == [pc : {"idle", "find", "write"}, target : Shops \cup {"common", NoAccount}, mode : {"COMMON", "CUSTOM"},
              account : Accounts \cup {NoAccount}, enabled : BOOLEAN, found : BOOLEAN, attempt : {1, 2}]
ShopRowType == [exists : BOOLEAN, mode : {"COMMON", "CUSTOM"}, custom : Accounts \cup {NoAccount}, customEnabled : BOOLEAN]

AccountTypes ==
  /\ common \in Details \cup {NoAccount}
  /\ shopRow \in [Shops -> ShopRowType]
  /\ saver \in [Handlers -> SaverType]
  /\ lastMode \in [Shops -> {"COMMON", "CUSTOM"}]
  /\ lastCustom \in [Shops -> Details \cup {NoAccount}]

\* A save knows what it saves; one that has met a conflict finds the row, for
\* no row is ever deleted.
SaverOK(j) ==
  j.pc # "idle" =>
    /\ j.target \in Shops \cup {"common"}
    /\ j.target = "common" \/ j.mode = "CUSTOM" => j.account \in Accounts
    /\ j.attempt = 2 => IF j.pc = "write" THEN j.found ELSE RowExists(j.target)
SaversOK == \A h \in Handlers : SaverOK(saver[h])

\* The rows hold what was saved last.
RowsOK ==
  /\ common = lastCommon
  /\ \A s \in Shops :
       /\ shopRow[s].mode = lastMode[s]
       /\ lastMode[s] = "CUSTOM" => shopRow[s].exists /\ lastCustom[s] # NoAccount
       /\ lastCustom[s] # NoAccount => shopRow[s].custom = lastCustom[s].account /\ shopRow[s].customEnabled = lastCustom[s].enabled

UInv == AccountTypes /\ SaversOK /\ RowsOK /\ failed = 0

LEMMA RestFacts == AtRest \in SaverType /\ AtRest.pc = "idle"
  BY DEF AtRest, SaverType

\* A step of a handler that writes nothing.
LEMMA SaverStep ==
  ASSUME UInv, NEW h \in Handlers, NEW j \in SaverType, SaverOK(j), Serve(h, j),
         UNCHANGED <<common, shopRow, lastCommon, lastMode, lastCustom, failed>>
  PROVE  UInv'
  <1>1. saver' \in [Handlers -> SaverType] /\ saver'[h] = j /\ \A g \in Handlers \ {h} : saver'[g] = saver[g]
    BY DEF UInv, AccountTypes, Serve
  <1>2. AccountTypes' /\ RowsOK' /\ failed' = 0
    BY <1>1 DEF UInv, AccountTypes, RowsOK
  <1>3. SaversOK'
    BY <1>1 DEF UInv, SaversOK, SaverOK, RowExists
  <1> QED BY <1>2, <1>3 DEF UInv

\* A form that is accepted names an account.
LEMMA InputFacts ==
  ASSUME NEW input \in Inputs, CheckAccount(input) # NoAccount
  PROVE  CheckAccount(input) \in Accounts
  BY DEF Inputs, CheckAccount

LEMMA SaveBegins ==
  ASSUME UInv, NEW h \in Handlers, NEW input \in Inputs, NEW enabled \in BOOLEAN,
         SaveCommon(h, input, enabled) \/ \E s \in Shops : SaveCustom(h, s, input, enabled)
  PROVE  UInv'
  <1>1. CASE SaveCommon(h, input, enabled)
    <2> DEFINE j == [AtRest EXCEPT !.pc = "find", !.target = "common", !.account = CheckAccount(input), !.enabled = enabled]
    <2>1. CheckAccount(input) \in Accounts
      BY <1>1, InputFacts DEF SaveCommon
    <2>2. j \in SaverType
      BY <2>1 DEF AtRest, SaverType
    <2>3. j.pc = "find" /\ j.target = "common" /\ j.account = CheckAccount(input) /\ j.attempt = 1
      BY DEF AtRest
    <2>4. Serve(h, j) /\ UNCHANGED <<common, shopRow, lastCommon, lastMode, lastCustom, failed>>
      BY <1>1 DEF SaveCommon
    <2> HIDE DEF j
    <2>5. SaverOK(j)
      BY <2>1, <2>3 DEF SaverOK
    <2> QED BY <2>2, <2>4, <2>5, SaverStep
  <1>2. ASSUME NEW s \in Shops, SaveCustom(h, s, input, enabled)
        PROVE  UInv'
    <2> DEFINE j == [AtRest EXCEPT !.pc = "find", !.target = s, !.mode = "CUSTOM", !.account = CheckAccount(input), !.enabled = enabled]
    <2>1. CheckAccount(input) \in Accounts
      BY <1>2, InputFacts DEF SaveCustom
    <2>2. j \in SaverType
      BY <2>1 DEF AtRest, SaverType
    <2>3. j.pc = "find" /\ j.target = s /\ j.account = CheckAccount(input) /\ j.attempt = 1
      BY DEF AtRest
    <2>4. Serve(h, j) /\ UNCHANGED <<common, shopRow, lastCommon, lastMode, lastCustom, failed>>
      BY <1>2 DEF SaveCustom
    <2> HIDE DEF j
    <2>5. SaverOK(j)
      BY <2>1, <2>3 DEF SaverOK
    <2> QED BY <2>2, <2>4, <2>5, SaverStep
  <1> QED BY <1>1, <1>2

LEMMA FindRowKeeps ==
  ASSUME UInv, NEW h \in Handlers, FindRow(h)
  PROVE  UInv'
  <1> DEFINE j == [saver[h] EXCEPT !.pc = "write", !.found = RowExists(saver[h].target)]
  <1>1. saver[h] \in SaverType /\ SaverOK(saver[h]) /\ saver[h].pc = "find"
    BY DEF UInv, AccountTypes, SaversOK, FindRow
  <1>2. RowExists(saver[h].target) \in BOOLEAN
    <2>1. saver[h].target \in Shops \cup {"common"}
      BY <1>1 DEF SaverOK
    <2> QED BY <2>1 DEF RowExists, UInv, AccountTypes, ShopRowType
  <1>3. j \in SaverType /\ SaverOK(j)
    BY <1>1, <1>2 DEF SaverType, SaverOK
  <1>4. Serve(h, j) /\ UNCHANGED <<common, shopRow, lastCommon, lastMode, lastCustom, failed>>
    BY DEF FindRow
  <1> HIDE DEF j
  <1> QED BY <1>3, <1>4, SaverStep

\* The second attempt of a save never conflicts, so a conflict is retried.
LEMMA ConflictKeeps ==
  ASSUME UInv, NEW h \in Handlers, Conflict(h)
  PROVE  UInv'
  <1> DEFINE j == [saver[h] EXCEPT !.pc = "find", !.attempt = @ + 1]
  <1>1. saver[h] \in SaverType /\ SaverOK(saver[h]) /\ saver[h].pc = "write" /\ ~saver[h].found /\ RowExists(saver[h].target)
    BY DEF UInv, AccountTypes, SaversOK, Conflict
  <1>2. saver[h].attempt = 1
    BY <1>1 DEF SaverOK, SaverType
  <1>3. j \in SaverType
    <2>1. saver[h].attempt + 1 = 2
      BY <1>2
    <2>2. j = [saver[h] EXCEPT !.pc = "find", !.attempt = 2]
      BY <2>1
    <2> HIDE DEF j
    <2> QED BY <1>1, <2>2 DEF SaverType
  <1>4. j.pc = "find" /\ j.target = saver[h].target /\ j.mode = saver[h].mode /\ j.account = saver[h].account
    BY <1>1 DEF SaverType
  <1>5. Serve(h, j) /\ UNCHANGED <<common, shopRow, lastCommon, lastMode, lastCustom, failed>>
    BY <1>2 DEF Conflict, MaxAttempts
  <1> HIDE DEF j
  <1>6. SaverOK(j)
    BY <1>1, <1>4 DEF SaverOK
  <1> QED BY <1>3, <1>5, <1>6, SaverStep

LEMMA WriteRowKeeps ==
  ASSUME UInv, NEW h \in Handlers, WriteRow(h)
  PROVE  UInv'
  <1>1. PICK j \in SaverType : j = saver[h]
    BY DEF UInv, AccountTypes
  <1>2. PICK details : details = [account |-> j.account, enabled |-> j.enabled]
    OBVIOUS
  <1>3. j.pc = "write" /\ j.target \in Shops \cup {"common"} /\ (j.target = "common" \/ j.mode = "CUSTOM" => j.account \in Accounts)
    BY <1>1 DEF UInv, SaversOK, SaverOK, WriteRow
  <1>4. j.target = "common" \/ j.mode = "CUSTOM" => details \in Details /\ details # NoAccount
    BY <1>2, <1>3, UpiAssumption DEF Details, SaverType
  <1>5. /\ saver' \in [Handlers -> SaverType] /\ saver'[h] = AtRest /\ failed' = 0
        /\ \A g \in Handlers \ {h} : saver'[g] = saver[g]
    BY RestFacts DEF UInv, AccountTypes, WriteRow, Serve
  <1>6. ASSUME \A t \in Shops \cup {"common"} : RowExists(t) => RowExists(t)' PROVE SaversOK'
    BY <1>5, <1>6, RestFacts DEF UInv, SaversOK, SaverOK
  <1>7. CASE j.target = "common"
    <2>1. common' = details /\ lastCommon' = details /\ UNCHANGED <<shopRow, lastMode, lastCustom>>
      BY <1>1, <1>2, <1>7 DEF WriteRow
    <2>2. AccountTypes' /\ RowsOK'
      BY <1>4, <1>5, <1>7, <2>1 DEF UInv, AccountTypes, RowsOK
    <2>3. \A t \in Shops \cup {"common"} : RowExists(t) => RowExists(t)'
      BY <1>4, <1>7, <2>1 DEF RowExists
    <2> QED BY <1>5, <1>6, <2>2, <2>3 DEF UInv
  <1>8. CASE j.target # "common"
    <2>1. PICK s \in Shops : s = j.target
      BY <1>3, <1>8
    <2>2. PICK r : r = SavedShopRow(h, s)
      OBVIOUS
    <2>3. /\ UNCHANGED <<common, lastCommon>>
          /\ shopRow' = [shopRow EXCEPT ![s] = r]
          /\ lastMode' = [lastMode EXCEPT ![s] = j.mode]
          /\ lastCustom' = IF j.mode = "CUSTOM" THEN [lastCustom EXCEPT ![s] = details] ELSE lastCustom
      BY <1>1, <1>2, <1>8, <2>1, <2>2 DEF WriteRow
    <2>4. CASE j.mode = "CUSTOM"
      <3>1. /\ r \in ShopRowType /\ r.exists /\ r.mode = "CUSTOM"
            /\ r.custom = details.account /\ r.customEnabled = details.enabled
        BY <1>1, <1>2, <1>3, <2>2, <2>4 DEF SavedShopRow, ShopRowType, SaverType
      <3>2. AccountTypes'
        BY <1>4, <1>5, <2>3, <2>4, <3>1 DEF UInv, AccountTypes
      <3>3. RowsOK'
        BY <1>4, <2>3, <2>4, <3>1 DEF UInv, AccountTypes, RowsOK
      <3>4. \A t \in Shops \cup {"common"} : RowExists(t) => RowExists(t)'
        BY <2>3, <3>1, UpiAssumption DEF RowExists, UInv, AccountTypes
      <3> QED BY <1>5, <1>6, <3>2, <3>3, <3>4 DEF UInv
    <2>5. CASE j.mode = "COMMON"
      <3>1. shopRow[s] \in ShopRowType
        BY DEF UInv, AccountTypes
      <3>2. /\ r \in ShopRowType /\ r.exists /\ r.mode = "COMMON"
            /\ r.custom = shopRow[s].custom /\ r.customEnabled = shopRow[s].customEnabled
        BY <1>1, <2>2, <2>5, <3>1 DEF SavedShopRow, ShopRowType
      <3>3. AccountTypes'
        BY <1>5, <2>3, <2>5, <3>2 DEF UInv, AccountTypes
      <3>4. RowsOK'
        BY <2>3, <2>5, <3>2 DEF UInv, AccountTypes, RowsOK
      <3>5. \A t \in Shops \cup {"common"} : RowExists(t) => RowExists(t)'
        BY <2>3, <3>2, UpiAssumption DEF RowExists, UInv, AccountTypes
      <3> QED BY <1>5, <1>6, <3>3, <3>4, <3>5 DEF UInv
    <2> QED BY <2>4, <2>5 DEF SaverType
  <1> QED BY <1>7, <1>8

LEMMA InitUInv ==
  ASSUME UpiInit
  PROVE  UInv
  BY RestFacts DEF UpiInit, UInv, AccountTypes, SaversOK, SaverOK, RowsOK, NoShopRow, ShopRowType

LEMMA NextUInv ==
  ASSUME UInv, [UpiNext]_upiVars
  PROVE  UInv'
  <1>1. CASE UpiNext
    <2>1. ASSUME NEW h \in Handlers, NEW s \in Shops, UseCommon(h, s)
          PROVE  UInv'
      <3> DEFINE j == [AtRest EXCEPT !.pc = "find", !.target = s]
      <3>1. j \in SaverType
        BY DEF AtRest, SaverType
      <3>2. j.pc = "find" /\ j.target = s /\ j.mode = "COMMON" /\ j.attempt = 1
        BY DEF AtRest
      <3>3. Serve(h, j) /\ UNCHANGED <<common, shopRow, lastCommon, lastMode, lastCustom, failed>>
        BY <2>1 DEF UseCommon
      <3> HIDE DEF j
      <3>4. SaverOK(j)
        BY <3>2, UpiAssumption DEF SaverOK
      <3> QED BY <3>1, <3>3, <3>4, SaverStep
    <2> QED BY <1>1, <2>1, SaveBegins, FindRowKeeps, WriteRowKeeps, ConflictKeeps DEF UpiNext
  <1>2. CASE UNCHANGED upiVars
    BY <1>2 DEF upiVars, UInv, AccountTypes, SaversOK, SaverOK, RowExists, RowsOK
  <1> QED BY <1>1, <1>2

\* What the rows hold settles where a branch's money goes.
LEMMA ReceiverFacts ==
  ASSUME UInv, NEW s \in Shops
  PROVE  resolveEffectiveReceiver(s) = Intended(s) /\ DetailsKept(s)
  <1>1. /\ common = lastCommon /\ lastMode[s] \in {"COMMON", "CUSTOM"} /\ shopRow[s].mode = lastMode[s]
        /\ lastMode[s] = "CUSTOM" => shopRow[s].exists /\ lastCustom[s] # NoAccount
        /\ lastCustom[s] # NoAccount => shopRow[s].custom = lastCustom[s].account /\ shopRow[s].customEnabled = lastCustom[s].enabled
    BY DEF UInv, RowsOK, AccountTypes
  <1>2. lastCustom[s] # NoAccount => lastCustom[s].account # NoAccount
    BY UpiAssumption DEF UInv, AccountTypes, Details
  <1>3. CASE lastMode[s] = "CUSTOM" /\ lastCustom[s].enabled
    BY <1>1, <1>2, <1>3 DEF resolveEffectiveReceiver, Intended, CustomChosen, DetailsKept
  <1>4. CASE ~(lastMode[s] = "CUSTOM" /\ lastCustom[s].enabled)
    <2>1. ~CustomChosen(s)
      BY <1>1, <1>4 DEF CustomChosen
    <2> QED BY <1>1, <1>4, <2>1 DEF resolveEffectiveReceiver, Intended, DetailsKept
  <1> QED BY <1>3, <1>4

\* No first save of a row fails because another overtook it, and payments of a
\* branch go where the last answered saves say: for any number of branches,
\* accounts and handlers, one retry of an upsert is enough because rows are
\* never deleted.
THEOREM SavesAlwaysTakeEffect == UpiSpec => []SavesTakeEffect
  <1>1. UInv => SavesTakeEffect
    BY ReceiverFacts DEF SavesTakeEffect, UInv
  <1> QED BY <1>1, InitUInv, NextUInv, PTL DEF UpiSpec

=============================================================================

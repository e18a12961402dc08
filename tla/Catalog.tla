------------------------------- MODULE Catalog -------------------------------
(***************************************************************************)
(* The global catalog: products, branches, the BranchProduct rows that say *)
(* which branch carries which product (lib/branchCatalog.ts,               *)
(* routes/admin/products.ts, routes/admin/branchProducts.ts; its price is  *)
(* part of Checkout), and the links that say which admin may act for      *)
(* which branch (lib/shopAccess.ts, routes/admin/shops.ts, POST            *)
(* /auth/admin/signup).                                                    *)
(*                                                                         *)
(* A branch is named by its location code, which is unique.  An op is one  *)
(* HTTP handler: it reads, and acts on what it read in a later step.  A    *)
(* transaction that creates a product or a branch inserts it and reads the *)
(* other side in one step and commits in another.                          *)
(***************************************************************************)
EXTENDS FiniteSets

CONSTANTS
  Products, Branches, Admins, Ops,
  Home, Central,      \* the seeded branch and admin
  None

ASSUME CatalogAssumption ==
  /\ Home \in Branches /\ Central \in Admins
  /\ None \notin Products \cup Branches \cup Admins

VARIABLES
  product,      \* Product.status
  shop,         \* the branches that exist
  row,          \* BranchProduct: none, assigned or hidden
  link,         \* AdminShopLink
  selected,     \* User.shopId of an admin
  op,
  crossed,      \* history: products and branches created by overlapping transactions
  contested     \* history: branches that two admins wanted at a time, or that
                \* an admin got by approving a cashier although another held them

vars == <<product, shop, row, link, selected, op, crossed, contested>>

Idle == [pc |-> "idle", admin |-> None, product |-> None, branch |-> None, seen |-> "none", all |-> {}, want |-> None]

Init ==
  /\ product = [p \in Products |-> "none"]
  /\ shop = {Home}
  /\ row = [x \in Products \X Branches |-> "none"]
  /\ link \in {{}, {<<Central, Home>>}}   \* {}: an admin older than the link table
  /\ selected = [a \in Admins |-> IF a = Central THEN Home ELSE None]
  /\ op = [o \in Ops |-> Idle]
  /\ crossed = {} /\ contested = {}

At(o, stage) == op[o].pc = stage
Goto(o, new) == op' = [op EXCEPT ![o] = new]
Begin(o, new) == op[o] = Idle /\ Goto(o, new)
Finish(o) == Goto(o, Idle)

Known == {p \in Products : product[p] # "none"}
Creating(stage) == {op[o] : o \in {q \in Ops : At(q, stage)}}

-----------------------------------------------------------------------------
(* Products.                                                               *)

\* createMany({skipDuplicates: true})
WithRows(pairs) == [x \in Products \X Branches |-> IF x \in pairs /\ row[x] = "none" THEN "assigned" ELSE row[x]]

\* assertCentralAdminFor(): the one configured admin.
CentralAdminOnly(a) == a = Central

\* POST /admin/products: the transaction inserts the product and
\* assignProductToAllBranches() reads the branches.
CreateProduct(o, a, p) ==
  /\ CentralAdminOnly(a)
  /\ product[p] = "none" /\ \A c \in Creating("product") : c.product # p
  /\ Begin(o, [Idle EXCEPT !.pc = "product", !.product = p, !.all = shop])
  /\ crossed' = crossed \cup {<<p, c.branch>> : c \in Creating("branch")}
  /\ UNCHANGED <<product, shop, row, link, selected, contested>>

\* ... their rows are created; the initial stock is StockLedger's; COMMIT.
CommitProduct(o) ==
  /\ At(o, "product")
  /\ \E status \in {"ACTIVE", "INACTIVE"} : product' = [product EXCEPT ![op[o].product] = status]
  /\ row' = WithRows({op[o].product} \X op[o].all)
  /\ Finish(o)
  /\ UNCHANGED <<shop, link, selected, crossed, contested>>

\* getProductInBranchCatalogOrThrow(): a row, assigned or not, at the branch
\* the admin has selected.
InBranchCatalog(a, p) == selected[a] # None /\ row[<<p, selected[a]>>] # "none"

\* PUT /admin/products/:id
EditProduct(a, p, status) ==
  /\ CentralAdminOnly(a) /\ p \in Known /\ InBranchCatalog(a, p)
  /\ product' = [product EXCEPT ![p] = status]
  /\ UNCHANGED <<shop, row, link, selected, op, crossed, contested>>

\* DELETE /admin/products/:id keeps the row.
DeleteProduct(a, p) == EditProduct(a, p, "INACTIVE")

\* PUT /branch-products/:productId/:shopId, setBranchAssignment(): find ...
ReadAssignment(o, a, p, b, flag) ==
  /\ CentralAdminOnly(a) /\ p \in Known /\ b \in shop
  /\ Begin(o, [Idle EXCEPT !.pc = "assign", !.product = p, !.branch = b, !.seen = row[<<p, b>>], !.want = flag])
  /\ UNCHANGED <<product, shop, row, link, selected, crossed, contested>>

\* ... and create, leave or update; a row created meanwhile raises P2002.
SetBranchAssignment(o) ==
  /\ At(o, "assign")
  /\ LET x == <<op[o].product, op[o].branch>>
     IN row' = CASE op[o].seen = "none" /\ row[x] = "none" -> [row EXCEPT ![x] = op[o].want]
                 [] op[o].seen \notin {"none", op[o].want} -> [row EXCEPT ![x] = op[o].want]
                 [] OTHER -> row
  /\ Finish(o)
  /\ UNCHANGED <<product, shop, link, selected, crossed, contested>>

-----------------------------------------------------------------------------
(* Branches and links.                                                     *)

\* What may be typed for a location; None stands for the 422 of an empty or
\* overlong one.  Untidy spellings of one place get one code.
Locations == [of : Branches, form : {"clean", "untidy", "malformed"}]
NormalizeShopLocation(raw) == IF raw.form = "malformed" THEN None ELSE raw.of

\* Admins other than a who administer b.
OtherAdmins(a, b) == {c \in Admins \ {a} : <<c, b>> \in link \/ selected[c] = b}

\* Handlers of other admins that have passed their checks for b.
Rivals(a, b) == {o \in Ops : op[o].pc \in {"resolve", "branch", "link"} /\ op[o].branch = b /\ op[o].admin # a}

Enter(o, a, b, how) ==
  /\ Begin(o, [Idle EXCEPT !.pc = "resolve", !.admin = a, !.branch = b, !.want = how])
  /\ contested' = IF Rivals(a, b) = {} THEN contested ELSE contested \cup {b}
  /\ UNCHANGED <<product, shop, row, link, selected, crossed>>

\* POST /admin/shops, createBranch(): the location must be new.
CreateBranch(o, a, raw) ==
  LET b == NormalizeShopLocation(raw)
  IN CentralAdminOnly(a) /\ b \notin shop \cup {None} /\ Enter(o, a, b, "new")

\* mutant: whoever has selected the branch is not asked for
MayAttachUnlinked(a, b) == b \in shop /\ selected[a] # b => \A c \in Admins \ {a} : <<c, b>> \notin link

\* The ownership test of POST /auth/admin/signup.
MayAttach(a, b) == b \in shop /\ <<a, b>> \notin link /\ selected[a] # b => OtherAdmins(a, b) = {}

\* POST /auth/admin/signup
AdminSignup(o, a, raw) ==
  LET b == NormalizeShopLocation(raw)
  IN b # None /\ MayAttach(a, b) /\ Enter(o, a, b, "any")

\* mutant: only products on sale are assigned to a new branch
OnSale == {p \in Products : product[p] = "ACTIVE"}

\* What assignAllProductsToBranch() reads.
AllProducts == Known

GotoLink(o) == Goto(o, [Idle EXCEPT !.pc = "link", !.admin = op[o].admin, !.branch = op[o].branch])

\* The transaction inserts the branch (waiting for another insert of its code)
\* and reads the products; resolveOrCreateShopByLocation() takes an existing
\* branch as it is, also when its own insert fails; createBranch() gives up.
InsertBranch(o) ==
  /\ At(o, "resolve")
  /\ \A c \in Creating("branch") : c.branch # op[o].branch
  /\ \/ /\ op[o].branch \notin shop
        /\ Goto(o, [op[o] EXCEPT !.pc = "branch", !.all = AllProducts])
        /\ crossed' = crossed \cup {<<c.product, op[o].branch>> : c \in Creating("product")}
     \/ /\ op[o].branch \in shop
        /\ IF op[o].want = "any" THEN GotoLink(o) ELSE Finish(o)
        /\ UNCHANGED crossed
  /\ UNCHANGED <<product, shop, row, link, selected, contested>>

CommitBranch(o) ==
  /\ At(o, "branch")
  /\ shop' = shop \cup {op[o].branch}
  /\ row' = WithRows(op[o].all \X {op[o].branch})
  /\ GotoLink(o)
  /\ UNCHANGED <<product, link, selected, crossed, contested>>

\* ensureAdminShopLink()
EnsureAdminShopLink(o) ==
  /\ At(o, "link")
  /\ link' = link \cup {<<op[o].admin, op[o].branch>>}
  /\ Finish(o)
  /\ UNCHANGED <<product, shop, row, selected, crossed, contested>>

\* An admin without links gets one to the selected shop.
Healed(a) == {<<a, b>> : b \in {c \in {selected[a]} \ {None} : \A d \in Branches : <<a, d>> \notin link}}

\* listShopsForAdmin()
ListShopsForAdmin(a) ==
  /\ link' = link \cup Healed(a)
  /\ UNCHANGED <<product, shop, row, selected, op, crossed, contested>>

\* POST /admin/cashier-requests/:id/approve of a cashier of branch b, who came
\* with a code of admin a.  Its transaction is CashierOnboarding's; the link
\* that follows it asks for no owner.
ApproveCashier(o, a, b) ==
  /\ b \in shop
  /\ Begin(o, [Idle EXCEPT !.pc = "link", !.admin = a, !.branch = b])
  /\ link' = link \cup Healed(a)
  /\ contested' = IF OtherAdmins(a, b) = {} /\ Rivals(a, b) = {} THEN contested ELSE contested \cup {b}
  /\ UNCHANGED <<product, shop, row, selected, crossed>>

\* POST /admin/shops/switch, with assertAdminOwnsShop(): a link, or the shop
\* selected already, which is linked then.
SwitchShop(a, b) ==
  /\ b \in shop /\ (<<a, b>> \in link \/ selected[a] = b)
  /\ link' = link \cup {<<a, b>>}
  /\ selected' = [selected EXCEPT ![a] = b]
  /\ UNCHANGED <<product, shop, row, op, crossed, contested>>

\* The process dies between two statements; an open transaction is rolled back.
Crash(o) ==
  /\ op[o] # Idle
  /\ Finish(o)
  /\ UNCHANGED <<product, shop, row, link, selected, crossed, contested>>

-----------------------------------------------------------------------------
Step(o) ==
  \/ CommitProduct(o) \/ SetBranchAssignment(o)
  \/ InsertBranch(o) \/ CommitBranch(o) \/ EnsureAdminShopLink(o)

Arrive(o) ==
  \/ \E a \in Admins, p \in Products :
       \/ CreateProduct(o, a, p)
       \/ \E b \in Branches, flag \in {"assigned", "hidden"} : ReadAssignment(o, a, p, b, flag)
  \/ \E a \in Admins, raw \in Locations : CreateBranch(o, a, raw) \/ AdminSignup(o, a, raw)
  \/ \E a \in Admins, b \in Branches : ApproveCashier(o, a, b)

Next ==
  \/ \E o \in Ops : Arrive(o) \/ Step(o) \/ Crash(o)
  \/ \E a \in Admins, p \in Products :
       DeleteProduct(a, p) \/ \E status \in {"ACTIVE", "INACTIVE"} : EditProduct(a, p, status)
  \/ \E a \in Admins : ListShopsForAdmin(a) \/ \E b \in Branches : SwitchShop(a, b)

Spec == Init /\ [][Next]_vars

-----------------------------------------------------------------------------
(* Properties.                                                             *)

\* Every branch carries every product, on sale or not: a row is missing only
\* where the transactions that created the product and the branch overlapped,
\* and no assignment has healed it.
CatalogComplete ==
  \A p \in Known, b \in shop : row[<<p, b>>] # "none" \/ <<p, b>> \in crossed

\* Two admins administer one branch only if both had passed their checks
\* before either was linked, or one approved a cashier there: a signup never
\* attaches a branch that another admin held when it began, and neither
\* selecting a branch nor listing them makes a second owner.
SharedOnlyByRace ==
  \A a \in Admins, b \in Branches :
    (<<a, b>> \in link \/ selected[a] = b) /\ OtherAdmins(a, b) # {} => b \in contested
===============================================================================

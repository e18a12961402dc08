----------------------------- MODULE StockLedger -----------------------------
(***************************************************************************)
(* The stock ledger of the Egg Mart backend: adjustStock() of              *)
(* services/inventoryService.ts, run inside the database transactions of   *)
(* a checkout, a bill cancellation, a purchase, a purchase reversal and a  *)
(* manual adjustment, together with the cutover of the authoritative stock *)
(* table (prisma/prepared/03*.sql) and the replacement of a branch's       *)
(* cashier, whose approval initialises the new cashier's rows.             *)
(*                                                                         *)
(* Granularity: one step per SQL statement that waits for, takes or tests  *)
(* a lock.  A transaction's writes stay in its own buffer (pend, agg,      *)
(* moves) until Commit, other sessions read committed values only (READ    *)
(* COMMITTED), and an updated row stays locked until the transaction ends. *)
(*                                                                         *)
(* A stock row is <<holder, product>>: the holder is a cashier for         *)
(* CashierInventory (the row's shop is CashierShop[holder]) and a shop for *)
(* BranchInventory.                                                        *)
(***************************************************************************)
EXTENDS Integers, Sequences, FiniteSetsExt

CONSTANTS
  Shops, Cashiers, CashierShop,  \* branches, cashiers and their branch
  NewCashiers,                   \* those who have not signed up yet
  Products,                      \* integers: the order of the product ids
  Bills, Purchases,              \* documents that may come to exist
  Txs,                           \* concurrent database transactions
  Workload,                      \* the kinds of request the clients make
  InitialStock,                  \* what each approved cashier holds of each product
  MaxLines, MaxLineQty,          \* bound: lines of a document, units of a line
  MaxStock,                      \* bound: no restocking above this aggregate
  None                           \* no transaction, no document, no cashier

RequestKinds == {"sale", "cancel", "purchase", "reverse", "add", "remove",
                 "assigned", "unassigned", "status", "cutover", "rollback"}

ASSUME ConstantsAssumption ==
  /\ Products \subseteq Int
  /\ IsFiniteSet(Cashiers) /\ IsFiniteSet(Shops)
  /\ CashierShop \in [Cashiers -> Shops]
  /\ NewCashiers \subseteq Cashiers
  /\ \A c, d \in Cashiers \ NewCashiers : CashierShop[c] = CashierShop[d] => c = d
  /\ Shops \cap Cashiers = {}
  /\ Bills \cap Purchases = {}
  /\ None \notin Shops \cup Cashiers \cup Txs \cup Bills \cup Purchases \cup RequestKinds
  /\ Workload \subseteq RequestKinds
  /\ InitialStock \in Nat /\ MaxStock \in Nat
  /\ MaxLines \in Nat \ {0} /\ MaxLineQty \in Nat

Docs == Bills \cup Purchases
Rows == (Shops \cup Cashiers) \X Products
Line == [product : Products, qty : 1..MaxLineQty]
LineSeqs == UNION {[1..n -> Line] : n \in 1..MaxLines}

VARIABLES
  \* committed database state
  flag,      \* system_flags('inventory_source')
  qty,       \* quantity of every stock row, 0 where there is no row
  rows,      \* the stock rows that exist
  stock,     \* Product.stock, the aggregate over all branches
  catalog,   \* BranchProduct: "none", "assigned" or "unassigned"
  doc,       \* bills and purchases
  late,      \* a movement is stamped after system_flags.updatedAt
  \* locks
  share,     \* transactions holding the flag row FOR SHARE
  script,    \* the cutover or rollback script holding it FOR UPDATE
  rowLock, prodLock, docLock,
  \* transactions
  pc, req, line, pend, agg, moves,
  early,     \* transactions that began before the flag last changed
  account,   \* a cashier's status; during an approval, how far it has got
  \* observed only
  adjusted   \* net committed manual adjustments per branch and product

db    == <<flag, qty, rows, stock, catalog, doc, late>>
locks == <<share, script, rowLock, prodLock, docLock>>
txs   == <<pc, req, line, pend, agg, moves>>
vars  == <<flag, qty, rows, stock, catalog, doc, late, share, script, rowLock, prodLock, docLock,
           pc, req, line, pend, agg, moves, early, account, adjusted>>

NoDoc == [status |-> "none", shop |-> None, cashier |-> None, lines |-> <<>>]
NoReq == [kind |-> "none", shop |-> None, cashier |-> None, doc |-> None, lines |-> <<>>]
NoPend == [r \in Rows |-> 0]
NoAgg == [p \in Products |-> 0]

Init ==
  /\ flag = "CASHIER"
  /\ qty = [r \in Rows |-> IF r[1] \in Cashiers \ NewCashiers THEN InitialStock ELSE 0]
  /\ rows = (Cashiers \ NewCashiers) \X Products
  /\ stock = [p \in Products |-> InitialStock * Cardinality(Cashiers \ NewCashiers)]
  /\ catalog = [x \in Shops \X Products |-> "assigned"]
  /\ doc = [d \in Docs |-> NoDoc]
  /\ late = FALSE
  /\ share = {} /\ script = None
  /\ rowLock = [r \in Rows |-> None]
  /\ prodLock = [p \in Products |-> None]
  /\ docLock = [d \in Docs |-> None]
  /\ pc = [t \in Txs |-> "idle"]
  /\ req = [t \in Txs |-> NoReq]
  /\ line = [t \in Txs |-> 1]
  /\ pend = [t \in Txs |-> NoPend]
  /\ agg = [t \in Txs |-> NoAgg]
  /\ moves = [t \in Txs |-> <<>>]
  /\ early = {}
  /\ account = [c \in Cashiers |-> IF c \in NewCashiers THEN "none" ELSE "active"]
  /\ adjusted = [x \in Shops \X Products |-> 0]

-----------------------------------------------------------------------------
(* What the readers compute.                                               *)

\* getCashierStockMap(): the cashier's own row, or the branch's after cutover.
CashierStock(c, p) == qty[<<IF flag = "BRANCH" THEN CashierShop[c] ELSE c, p>>]

\* assertStockAvailable(): lines are merged per product before the comparison.
LineTotal(lines, p) ==
  SumFunctionOnSet([n \in 1..Len(lines) |-> lines[n].qty], {n \in 1..Len(lines) : lines[n].product = p})

StockAvailable(c, lines) ==
  \A n \in 1..Len(lines) : CashierStock(c, lines[n].product) >= LineTotal(lines, lines[n].product)

\* assignedToShop(): every line's product is assigned to the branch.
AllAssigned(s, lines) ==
  \A n \in 1..Len(lines) : catalog[<<s, lines[n].product>>] = "assigned"

\* checkoutBill() sorts its lines by product id before it deducts them.
CartOrder(lines) == TRUE   \* mutant: lines are deducted as the cart lists them

InDeductionOrder(lines) ==
  \A m, n \in 1..Len(lines) : m < n => lines[m].product <= lines[n].product

\* cancelBill() merges the bill's lines per product and sorts the products.
MergedLines(lines, merged) ==
  /\ \A m, n \in 1..Len(merged) : m < n => merged[m].product < merged[n].product
  /\ \A p \in Products : LineTotal(merged, p) = LineTotal(lines, p)

-----------------------------------------------------------------------------
(* Requests: the reads made outside the transaction, then BEGIN.           *)

Begin(t, r, firstPc) ==
  /\ pc[t] = "idle"
  /\ r.kind \in Workload
  /\ pc' = [pc EXCEPT ![t] = firstPc]
  /\ req' = [req EXCEPT ![t] = r]
  /\ line' = [line EXCEPT ![t] = 1]
  /\ early' = early \ {t}
  /\ UNCHANGED <<db, locks, pend, agg, moves, account, adjusted>>

Unused(d) == doc[d] = NoDoc /\ \A t \in Txs : req[t].doc # d

\* resolveStockCashier(): an ACTIVE cashier of this branch in CASHIER mode,
\* optional metadata afterwards.  The flag is read without a lock.
StockCashier(s, c) ==
  IF c = None THEN flag = "BRANCH" ELSE c \in Cashiers /\ CashierShop[c] = s /\ account[c] = "active"

BeginSale(t, b, c, lines) ==
  /\ Unused(b)
  /\ account[c] = "active"
  /\ InDeductionOrder(lines)
  /\ \A p \in Products : LineTotal(lines, p) <= MaxLineQty
  /\ AllAssigned(CashierShop[c], lines)
  /\ StockAvailable(c, lines)
  /\ Begin(t, [kind |-> "sale", shop |-> CashierShop[c], cashier |-> c, doc |-> b, lines |-> lines], "adjust")

BeginCancel(t, b, merged) ==
  /\ doc[b].status = "PAID"
  /\ MergedLines(doc[b].lines, merged)
  /\ Begin(t, [kind |-> "cancel", shop |-> doc[b].shop, cashier |-> doc[b].cashier, doc |-> b, lines |-> merged], "claim")

BeginPurchase(t, d, s, c, lines) ==
  /\ Unused(d)
  /\ StockCashier(s, c)
  /\ AllAssigned(s, lines)
  /\ \A p \in Products : stock[p] + LineTotal(lines, p) <= MaxStock
  /\ Begin(t, [kind |-> "purchase", shop |-> s, cashier |-> c, doc |-> d, lines |-> lines], "adjust")

BeginReverse(t, d, c) ==
  /\ doc[d].status = "RECEIVED"
  /\ StockCashier(doc[d].shop, c)
  /\ Begin(t, [kind |-> "reverse", shop |-> doc[d].shop, cashier |-> c, doc |-> d, lines |-> doc[d].lines], "claim")

BeginAdjustment(t, s, c, l, k) ==
  /\ StockCashier(s, c)
  /\ AllAssigned(s, <<l>>)
  /\ k = "add" => stock[l.product] + l.qty <= MaxStock
  /\ Begin(t, [kind |-> k, shop |-> s, cashier |-> c, doc |-> None, lines |-> <<l>>], "adjust")

-----------------------------------------------------------------------------
(* Inside a transaction.                                                   *)

Product(t) == req[t].lines[line[t]].product
Delta(t) == IF req[t].kind \in {"cancel", "purchase", "add"}
            THEN req[t].lines[line[t]].qty
            ELSE -req[t].lines[line[t]].qty
\* mutant: the cashier's row whenever a cashier is given, whatever the flag
CashierRow(t) == <<IF req[t].cashier # None THEN req[t].cashier ELSE req[t].shop, Product(t)>>

Row(t) == <<IF flag = "BRANCH" THEN req[t].shop ELSE req[t].cashier, Product(t)>>

NoWait(lock, t) == TRUE   \* mutant: a plain read instead of the locking UPDATE

Free(lock, t) == lock \in {None, t}

\* mutant: the stock rows stay locked after the request has failed
RollbackKeepingRows(t) ==
  /\ pc' = [pc EXCEPT ![t] = "idle"]
  /\ req' = [req EXCEPT ![t] = NoReq]
  /\ line' = [line EXCEPT ![t] = 1]
  /\ pend' = [pend EXCEPT ![t] = NoPend]
  /\ agg' = [agg EXCEPT ![t] = NoAgg]
  /\ moves' = [moves EXCEPT ![t] = <<>>]
  /\ share' = share \ {t}
  /\ UNCHANGED <<db, script, rowLock, prodLock, docLock, early, account, adjusted>>

\* ROLLBACK: every buffered write and every lock of t is gone.
Rollback(t) ==
  /\ pc' = [pc EXCEPT ![t] = "idle"]
  /\ req' = [req EXCEPT ![t] = NoReq]
  /\ line' = [line EXCEPT ![t] = 1]
  /\ pend' = [pend EXCEPT ![t] = NoPend]
  /\ agg' = [agg EXCEPT ![t] = NoAgg]
  /\ moves' = [moves EXCEPT ![t] = <<>>]
  /\ share' = share \ {t}
  /\ rowLock' = [r \in Rows |-> IF rowLock[r] = t THEN None ELSE rowLock[r]]
  /\ prodLock' = [p \in Products |-> IF prodLock[p] = t THEN None ELSE prodLock[p]]
  /\ docLock' = [d \in Docs |-> IF docLock[d] = t THEN None ELSE docLock[d]]
  /\ UNCHANGED <<db, script, early, account, adjusted>>

\* mutant: the status is not tested again by the claim
ClaimedByAnyone(t) == doc[req[t].doc].status # "none"

\* UPDATE bills SET status = CANCELLED WHERE status = PAID, or the INSERT of
\* the unique PurchaseReversal: waits for a concurrent claim, then tests the
\* committed row again.
Claimable(t) == doc[req[t].doc].status = (IF req[t].kind = "cancel" THEN "PAID" ELSE "RECEIVED")

ClaimDoc(t) ==
  /\ pc[t] = "claim"
  /\ Free(docLock[req[t].doc], t)
  /\ \/ /\ Claimable(t)
        /\ docLock' = [docLock EXCEPT ![req[t].doc] = t]
        /\ pc' = [pc EXCEPT ![t] = "adjust"]
        /\ UNCHANGED <<db, share, script, rowLock, prodLock, req, line, pend, agg, moves, early, account, adjusted>>
     \/ ~Claimable(t) /\ Rollback(t)

\* mutant: no allowUnassigned
AssignedOnly(t) == catalog[<<req[t].shop, Product(t)>>] = "assigned"

\* adjustStock() looks the product up at the branch; a cancellation only
\* needs the BranchProduct row to exist (allowUnassigned).
ProductFound(t) ==
  \/ catalog[<<req[t].shop, Product(t)>>] = "assigned"
  \/ req[t].kind = "cancel" /\ catalog[<<req[t].shop, Product(t)>>] # "none"

\* The flag FOR SHARE (waits for the scripts' FOR UPDATE), then the lookup.
AdjustStock(t) ==
  /\ pc[t] = "adjust"
  /\ script = None
  /\ \/ /\ ProductFound(t)
        /\ flag = "CASHIER" => req[t].cashier # None
        /\ share' = share \cup {t}
        /\ pc' = [pc EXCEPT ![t] = "row"]
        /\ UNCHANGED <<db, script, rowLock, prodLock, docLock, req, line, pend, agg, moves, early, account, adjusted>>
     \/ /\ ~ProductFound(t) \/ (flag = "CASHIER" /\ req[t].cashier = None)
        /\ Rollback(t)

\* mutant: relies on the check made before the transaction
EnoughAtPreflight(t) == TRUE

\* The conditional UPDATE of the stock row: waits for the row's lock and is
\* evaluated on the row's current value.
Enough(t) == Delta(t) > 0 \/ qty[Row(t)] + pend[t][Row(t)] >= -Delta(t)

UpdateRow(t) ==
  /\ pc[t] = "row"
  /\ Free(rowLock[Row(t)], t)
  /\ \/ /\ Enough(t)
        /\ rowLock' = [rowLock EXCEPT ![Row(t)] = t]
        /\ pend' = [pend EXCEPT ![t][Row(t)] = @ + Delta(t)]
        /\ pc' = [pc EXCEPT ![t] = "aggregate"]
        /\ UNCHANGED <<db, share, script, prodLock, docLock, req, line, agg, moves, early, account, adjusted>>
     \/ ~Enough(t) /\ Rollback(t)

\* Product.stock by the same delta; the row is read back for the movement.
UpdateAggregate(t) ==
  /\ pc[t] = "aggregate"
  /\ Free(prodLock[Product(t)], t)
  /\ prodLock' = [prodLock EXCEPT ![Product(t)] = t]
  /\ agg' = [agg EXCEPT ![t][Product(t)] = @ + Delta(t)]
  /\ LET new == qty[Row(t)] + pend[t][Row(t)]
     IN  moves' = [moves EXCEPT ![t] = Append(@, [row |-> Row(t), previousStock |-> new - Delta(t), newStock |-> new])]
  /\ IF line[t] < Len(req[t].lines)
     THEN line' = [line EXCEPT ![t] = @ + 1] /\ pc' = [pc EXCEPT ![t] = "adjust"]
     ELSE pc' = [pc EXCEPT ![t] = "commit"] /\ UNCHANGED line
  /\ UNCHANGED <<db, share, script, rowLock, docLock, req, pend, early, account, adjusted>>

\* mutant: branch and cashier swapped in the INSERT
CommittedDocSwapped(t) ==
  [status |-> "PAID", shop |-> req[t].cashier, cashier |-> req[t].shop, lines |-> req[t].lines]

\* The document written by the transaction becomes visible with its stock.
CommittedDoc(t) ==
  LET r == req[t]
  IN  [status |-> CASE r.kind = "sale" -> "PAID" [] r.kind = "cancel" -> "CANCELLED"
                    [] r.kind = "purchase" -> "RECEIVED" [] OTHER -> "REVERSED",
       shop |-> r.shop,
       cashier |-> IF r.kind \in {"sale", "purchase"} THEN r.cashier ELSE doc[r.doc].cashier,
       lines |-> IF r.kind \in {"sale", "purchase"} THEN r.lines ELSE doc[r.doc].lines]

Commit(t) ==
  /\ pc[t] = "commit"
  /\ qty' = [r \in Rows |-> qty[r] + pend[t][r]]
  /\ rows' = rows \cup {r \in Rows : rowLock[r] = t}
  /\ stock' = [p \in Products |-> stock[p] + agg[t][p]]
  /\ doc' = IF req[t].doc = None THEN doc ELSE [doc EXCEPT ![req[t].doc] = CommittedDoc(t)]
  /\ adjusted' = IF req[t].kind \in {"add", "remove"}
                 THEN [adjusted EXCEPT ![<<req[t].shop, Product(t)>>] = @ + Delta(t)]
                 ELSE adjusted
  \* a transaction that began before the cutover may carry an earlier stamp
  /\ late' \in {TRUE} \cup (IF t \in early THEN {late} ELSE {})
  /\ pc' = [pc EXCEPT ![t] = "idle"]
  /\ req' = [req EXCEPT ![t] = NoReq]
  /\ line' = [line EXCEPT ![t] = 1]
  /\ pend' = [pend EXCEPT ![t] = NoPend]
  /\ agg' = [agg EXCEPT ![t] = NoAgg]
  /\ moves' = [moves EXCEPT ![t] = <<>>]
  /\ share' = share \ {t}
  /\ rowLock' = [r \in Rows |-> IF rowLock[r] = t THEN None ELSE rowLock[r]]
  /\ prodLock' = [p \in Products |-> IF prodLock[p] = t THEN None ELSE prodLock[p]]
  /\ docLock' = [d \in Docs |-> IF docLock[d] = t THEN None ELSE docLock[d]]
  /\ UNCHANGED <<flag, catalog, script, early, account>>

-----------------------------------------------------------------------------
(* Losing a transaction: the 15 s timeout, a dropped connection or a server
   crash may end it at any point; the database ends a deadlocked one.      *)

Fail(t) == pc[t] # "idle" /\ Rollback(t)

WaitsFor(t, u) ==
  /\ t # u
  /\ \/ pc[t] = "claim" /\ docLock[req[t].doc] = u
     \/ pc[t] = "row" /\ rowLock[Row(t)] = u
     \/ pc[t] = "aggregate" /\ prodLock[Product(t)] = u

\* Nobody in D can move before somebody else in D has ended.
Deadlocked(D) == D # {} /\ \A t \in D : \E u \in D : WaitsFor(t, u)

DeadlockVictim(t) ==
  /\ \E D \in SUBSET Txs : t \in D /\ Deadlocked(D)
  /\ Rollback(t)

-----------------------------------------------------------------------------
(* Actions of other components on the same tables.                         *)

\* PUT /admin/branch-products: assigning or hiding touches BranchProduct only.
SetBranchAssignment(s, p, to) ==
  /\ to \in Workload
  /\ catalog[<<s, p>>] # to
  /\ catalog' = [catalog EXCEPT ![<<s, p>>] = to]
  /\ UNCHANGED <<flag, qty, rows, stock, doc, late, locks, txs, early, account, adjusted>>

\* mutant: the script does not wait for the running transactions
ScriptLockNoWait(name) ==
  /\ name \in Workload
  /\ script = None
  /\ script' = name
  /\ UNCHANGED <<db, share, rowLock, prodLock, docLock, txs, early, account, adjusted>>

\* SELECT ... FOR UPDATE of either script: waits for every FOR SHARE.
ScriptLock(name) ==
  /\ name \in Workload
  /\ script = None /\ share = {}
  /\ script' = name
  /\ UNCHANGED <<db, share, rowLock, prodLock, docLock, txs, early, account, adjusted>>

CashierSum(s, p) == SumFunctionOnSet([c \in Cashiers |-> qty[<<c, p>>]], {c \in Cashiers : CashierShop[c] = s})

CutoverReady ==
  /\ flag = "CASHIER"
  /\ rows \cap (Shops \X Products) = {}
  /\ \A r \in Cashiers \X Products : qty[r] >= 0
  /\ \A p \in Products : stock[p] >= 0 /\ stock[p] = SumFunction([s \in Shops |-> CashierSum(s, p)])

\* The INTEGER column and CHECK (quantity >= 0) of branch_inventories.
BackfillFits == \A s \in Shops, p \in Products : CashierSum(s, p) \in Nat

\* 03_inventory_cutover.sql after its locks: verify, backfill, flip, COMMIT;
\* any failed check raises and leaves everything as it was.
Cutover ==
  /\ script = "cutover"
  /\ script' = None
  /\ \/ /\ CutoverReady /\ BackfillFits
        /\ qty' = [r \in Rows |-> IF r[1] \in Shops THEN CashierSum(r[1], r[2]) ELSE qty[r]]
        /\ rows' = rows \cup {x \in Shops \X Products : catalog[x] # "none"}
                        \cup {<<CashierShop[r[1]], r[2]>> : r \in rows \cap (Cashiers \X Products)}
        /\ flag' = "BRANCH"
        /\ late' = FALSE
        /\ early' = {t \in Txs : pc[t] # "idle"}
        /\ UNCHANGED <<stock, catalog, doc>>
     \/ ~(CutoverReady /\ BackfillFits) /\ UNCHANGED <<db, early>>
  /\ UNCHANGED <<share, rowLock, prodLock, docLock, txs, account, adjusted>>

\* mutant: no check that BRANCH mode has written nothing
RollbackUnchecked == flag = "BRANCH"

RollbackReady ==
  /\ flag = "BRANCH"
  /\ ~late
  /\ \A s \in Shops, p \in Products : qty[<<s, p>>] = CashierSum(s, p)

\* 03b_inventory_cutover_rollback.sql after its locks.
CutoverRollback ==
  /\ script = "rollback"
  /\ script' = None
  /\ \/ /\ RollbackReady
        /\ qty' = [r \in Rows |-> IF r[1] \in Shops THEN 0 ELSE qty[r]]
        /\ rows' = rows \ (Shops \X Products)
        /\ flag' = "CASHIER"
        /\ UNCHANGED <<stock, catalog, doc, late, early>>
     \/ ~RollbackReady /\ UNCHANGED <<db, early>>
  /\ UNCHANGED <<share, rowLock, prodLock, docLock, txs, account, adjusted>>

(* A branch's cashier.  SlotFree is tested and the status written under the
   branch's advisory lock; an open account occupies the slot meanwhile.    *)

\* assertBranchCashierSlotFree()
SlotFree(c) ==
  \A d \in Cashiers \ {c} : CashierShop[d] = CashierShop[c] => account[d] \in {"none", "suspended"}

SetAccount(c, from, to) ==
  /\ account[c] = from
  /\ account' = [account EXCEPT ![c] = to]
  /\ UNCHANGED <<db, locks, txs, early, adjusted>>

SignUp(c) == SlotFree(c) /\ SetAccount(c, "none", "pending")

\* assertNoStrandedCashierStock(): refused in CASHIER mode while another
\* cashier of the branch holds stock; the flag is read without a lock.
AssertNoStrandedCashierStock(c) ==
  /\ SlotFree(c)
  /\ flag = "CASHIER" => \A d \in Cashiers \ {c}, p \in Products :
                            CashierShop[d] = CashierShop[c] => qty[<<d, p>>] = 0
  /\ SetAccount(c, "pending", "checked")

\* initializeCashierInventory() reads the flag, again without a lock, ...
ReadModeForApproval(c) == SetAccount(c, "checked", flag)

\* ... and is a no-op in BRANCH mode, else creates one zero row for every
\* product assigned to the branch.  COMMIT makes the cashier ACTIVE.
InitializeCashierInventory(c) ==
  /\ account[c] \in {"CASHIER", "BRANCH"}
  /\ account' = [account EXCEPT ![c] = "active"]
  /\ rows' = IF account[c] = "BRANCH" THEN rows
             ELSE rows \cup {<<c, p>> : p \in {q \in Products : catalog[<<CashierShop[c], q>>] = "assigned"}}
  /\ UNCHANGED <<flag, qty, stock, catalog, doc, late, locks, txs, early, adjusted>>

ApprovalFails(c) == \E stage \in {"checked", "CASHIER", "BRANCH"} : SetAccount(c, stage, "pending")

\* PATCH /admin/cashiers/:id/status.  A suspended cashier's running
\* transactions go on.
SuspendCashier(c) == "status" \in Workload /\ SetAccount(c, "active", "suspended")

ActivateCashier(c) == SlotFree(c) /\ SetAccount(c, "suspended", "active")

-----------------------------------------------------------------------------
Step(t) == ClaimDoc(t) \/ AdjustStock(t) \/ UpdateRow(t) \/ UpdateAggregate(t) \/ Commit(t)

Request(t) ==
  \/ \E b \in Bills, c \in Cashiers, lines \in LineSeqs : BeginSale(t, b, c, lines)
  \/ \E b \in Bills, merged \in LineSeqs : BeginCancel(t, b, merged)
  \/ \E d \in Purchases, s \in Shops, c \in Cashiers \cup {None}, lines \in LineSeqs : BeginPurchase(t, d, s, c, lines)
  \/ \E d \in Purchases, c \in Cashiers \cup {None} : BeginReverse(t, d, c)
  \/ \E s \in Shops, c \in Cashiers \cup {None}, l \in Line, k \in {"add", "remove"} : BeginAdjustment(t, s, c, l, k)

Approval(c) ==
  \/ AssertNoStrandedCashierStock(c) \/ ReadModeForApproval(c) \/ InitializeCashierInventory(c)
  \/ ApprovalFails(c)

Environment ==
  \/ \E s \in Shops, p \in Products, to \in {"assigned", "unassigned"} : SetBranchAssignment(s, p, to)
  \/ \E name \in {"cutover", "rollback"} : ScriptLock(name)
  \/ Cutover
  \/ CutoverRollback
  \/ \E c \in Cashiers : SignUp(c) \/ Approval(c) \/ SuspendCashier(c) \/ ActivateCashier(c)

Next ==
  \/ \E t \in Txs : Request(t) \/ Step(t) \/ Fail(t) \/ DeadlockVictim(t)
  \/ Environment

Spec == Init /\ [][Next]_vars

\* The database serves the waiters of a lock in turn, breaks deadlocks, and
\* the scripts run to their COMMIT.  Nothing makes a client issue a request,
\* and no transaction is assumed to be lost.
Fairness ==
  /\ \A t \in Txs : SF_vars(Step(t)) /\ SF_vars(DeadlockVictim(t))
  /\ WF_vars(Cutover) /\ WF_vars(CutoverRollback)

LiveSpec == Spec /\ Fairness

-----------------------------------------------------------------------------
(* Properties.                                                             *)

Modes == {"CASHIER", "BRANCH"}
DocType == [status : {"none", "PAID", "CANCELLED", "RECEIVED", "REVERSED"}, shop : Shops \cup {None},
            cashier : Cashiers \cup {None}, lines : LineSeqs \cup {<<>>}]
ReqType == [kind : {"none", "sale", "cancel", "purchase", "reverse", "add", "remove"},
            shop : Shops \cup {None}, cashier : Cashiers \cup {None},
            doc : Docs \cup {None}, lines : LineSeqs \cup {<<>>}]
Move == [row : Rows, previousStock : Int, newStock : Int]

\* The type invariant: the values each table, lock and transaction may hold.
TypeOK ==
  /\ flag \in Modes
  /\ qty \in [Rows -> Int] /\ rows \subseteq Rows
  /\ stock \in [Products -> Int]
  /\ catalog \in [Shops \X Products -> {"none", "assigned", "unassigned"}]
  /\ doc \in [Docs -> DocType]
  /\ late \in BOOLEAN
  /\ share \subseteq Txs /\ script \in {None, "cutover", "rollback"}
  /\ rowLock \in [Rows -> Txs \cup {None}]
  /\ prodLock \in [Products -> Txs \cup {None}]
  /\ docLock \in [Docs -> Txs \cup {None}]
  /\ pc \in [Txs -> {"idle", "claim", "adjust", "row", "aggregate", "commit"}]
  /\ req \in [Txs -> ReqType]
  /\ line \in [Txs -> Nat]
  /\ pend \in [Txs -> [Rows -> Int]] /\ agg \in [Txs -> [Products -> Int]]
  /\ moves \in [Txs -> Seq(Move)]
  /\ early \subseteq Txs
  /\ account \in [Cashiers -> Modes \cup {"none", "pending", "checked", "active", "suspended"}]
  /\ adjusted \in [Shops \X Products -> Int]

\* No oversell: whatever transactions race for the last units, no row is
\* negative, neither as committed nor as any open transaction would leave it
\* ("Two concurrent requests for the last unit can never both succeed").
NoOversell ==
  \A r \in Rows : qty[r] >= 0 /\ \A t \in Txs : qty[r] + pend[t][r] >= 0

OnHand(s, p) == IF flag = "BRANCH" THEN qty[<<s, p>>] ELSE CashierSum(s, p)

DocTotal(S, status, s, p) ==
  SumFunctionOnSet([d \in S |-> LineTotal(doc[d].lines, p)], {d \in S : doc[d].status = status /\ doc[d].shop = s})

\* Every branch's stock of every product is exactly its opening stock plus
\* the purchases that stand, less the bills that stand, plus adjustments:
\* each sale, cancellation, purchase and reversal moved stock exactly once,
\* all lines or none, before, across and after the cutover and its rollback.
StockConserved ==
  \A s \in Shops, p \in Products :
    OnHand(s, p) = InitialStock * Cardinality({c \in Cashiers \ NewCashiers : CashierShop[c] = s})
                   + DocTotal(Purchases, "RECEIVED", s, p) - DocTotal(Bills, "PAID", s, p)
                   + adjusted[<<s, p>>]

\* Product.stock is the sum over all branches of the authoritative rows, in
\* both modes ("kept in step by the same delta, in the same transaction").
AggregateInStep ==
  \A p \in Products : stock[p] = SumFunction([s \in Shops |-> OnHand(s, p)])

\* Row r's stock after the first n movements of t: what the last of them
\* that is about r says, or the committed quantity.
StockAfter(t, r, n) ==
  LET ns == {m \in 1..n : moves[t][m].row = r}
  IN  IF ns = {} THEN qty[r] ELSE moves[t][Max(ns)].newStock

\* The movements a transaction commits chain from the row's committed value
\* to the value it commits: for each row the first previousStock is the old
\* quantity, each next one the newStock before it, the last the new quantity.
JournalChains ==
  [][\A t \in Txs : pc[t] = "commit" /\ pc'[t] = "idle" /\ qty' # qty =>
       /\ \A n \in 1..Len(moves[t]) : moves[t][n].previousStock = StockAfter(t, moves[t][n].row, n - 1)
       /\ \A r \in Rows : qty'[r] = StockAfter(t, r, Len(moves[t]))]_vars

\* The flag's lock does its work: a transaction that has chosen its stock
\* table holds the flag FOR SHARE, so no script runs, and the table it chose
\* is still the authoritative one, until that transaction ends.
FlagLockHeld ==
  /\ \A t \in Txs : pc[t] \in {"row", "aggregate", "commit"} => t \in share
  /\ script # None => share = {}

\* After the cutover no cashier row's quantity changes: a step that leaves
\* the flag at BRANCH leaves every CashierInventory quantity alone.
CashierStockFrozen ==
  [][flag = "BRANCH" /\ flag' = "BRANCH" => \A r \in Cashiers \X Products : qty'[r] = qty[r]]_vars

\* Checkouts and cancellations lock rows in one order: whenever transactions
\* wait for each other in a ring, a purchase or a reversal is among them
\* (their lines are taken in document order).
OnlyUnsortedDeadlock ==
  \A D \in SUBSET Txs : Deadlocked(D) => \E t \in D : req[t].kind \in {"purchase", "reverse"}

\* A cancellation is never refused because the product was hidden at the
\* branch since the sale.
CancelCanRestore ==
  \A t \in Txs : req[t].kind = "cancel" /\ pc[t] = "adjust" => ProductFound(t)

\* Every stock transaction that begins ends: no lock is leaked by a refused,
\* lost or committed one, and no ring of waiters survives.
TransactionsEnd == \A t \in Txs : pc[t] # "idle" ~> pc[t] = "idle"
=============================================================================

\* Two transactions, one product, and the cutover with its rollback: every kind
\* of transaction at one branch, then sales and cancellations at two branches
\* while a cashier signs up, is approved, suspended and activated.
SPECIFICATION Spec
ACTION_CONSTRAINT Scenarios
CONSTANTS
  s1 = s1
  s2 = s2
  c1 = c1
  c2 = c2
  c3 = c3
  b2 = b2
  None = None
  Shops = {s1, s2}
  Cashiers = {c1, c2, c3}
  NewCashiers = {c2}
  CashierShop <- TwoShopCashiers
  Products = {1}
  Bills = {b1, b2}
  Purchases = {d1}
  Txs = {t1, t2}
  Workload = {"sale", "cancel", "purchase", "reverse", "add", "remove", "assigned", "unassigned", "status", "cutover", "rollback"}
  InitialStock = 1
  MaxLines = 1
  MaxLineQty = 1
  MaxStock = 3
SYMMETRY TxSymmetry
INVARIANTS TypeOK NoOversell StockConserved AggregateInStep FlagLockHeld CancelCanRestore
PROPERTIES JournalChains CashierStockFrozen
CHECK_DEADLOCK FALSE

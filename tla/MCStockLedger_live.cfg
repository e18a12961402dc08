\* Two bills and a purchase of up to two lines of two products: the order of the
\* row locks, and the end of every transaction (no symmetry reduction).
SPECIFICATION LiveSpec
CONSTANTS
  s1 = s1
  s2 = s2
  c1 = c1
  c2 = c2
  c3 = c3
  None = None
  Shops = {s1}
  Cashiers = {c1}
  NewCashiers = {}
  CashierShop <- OneCashier
  Products = {1, 2}
  Bills = {b1, b2}
  Purchases = {d1}
  Txs = {t1, t2}
  Workload = {"sale", "cancel", "purchase", "reverse"}
  InitialStock = 1
  MaxLines = 2
  MaxLineQty = 1
  MaxStock = 2
INVARIANTS OnlyUnsortedDeadlock
PROPERTIES TransactionsEnd
CHECK_DEADLOCK FALSE

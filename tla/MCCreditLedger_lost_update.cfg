\* A collection that overlaps another change of the balance.
SPECIFICATION Spec
CONSTANTS
  None = None
  Customers = {k1}
  Bills = {b1}
  Txs = {t1, t2}
  Amounts = {1}
  Workload = {"charge", "collect", "cancel"}
  MaxPayments = 1
  MaxCollections = 2
SYMMETRY TxSymmetry
INVARIANTS BalanceIsLedgerSum
CHECK_DEADLOCK FALSE

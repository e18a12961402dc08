\* Charges, collections and cancellations of one customer, interleaved.
SPECIFICATION Spec
CONSTANTS
  None = None
  Customers = {k1}
  Bills = {b1, b2}
  Txs = {t1, t2, t3}
  Amounts = {1, 2}
  Workload = {"charge", "collect", "cancel"}
  MaxPayments = 2
  MaxCollections = 2
SYMMETRY TxSymmetry
INVARIANTS TypeOK DriftIsOverwritten ReversedOnce
PROPERTIES CancelDecrementsCurrent
CHECK_DEADLOCK FALSE

\* Two attempts, with one key or none, for the last unit, while bills are
\* cancelled, both prices change and the session is closed; every attempt is
\* answered (no symmetry reduction).
SPECIFICATION LiveSpec
CONSTANTS
  None = None
  Cashiers = {c1}
  Sessions = {s1}
  Keys = {k1}
  Reqs = {r1, r2}
  Closers = {h1}
  Prices = {1, 2}
  InitialPrice = 1
  InitialStock = 1
  Workload = {"cancel", "common", "override", "session"}
INVARIANTS TypeOK OneBillPerKey StockMatchesBills NumbersGapless
PROPERTIES EveryRequestAnswered
CHECK_DEADLOCK FALSE

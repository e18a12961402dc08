\* The common price changes during a checkout.
SPECIFICATION Spec
CONSTANTS
  None = None
  Cashiers = {c1}
  Sessions = {s1}
  Keys = {k1}
  Reqs = {r1}
  Closers = {}
  Prices = {1, 2}
  InitialPrice = 1
  InitialStock = 1
  Workload = {"common", "override"}
PROPERTIES PriceChangeAborts
CHECK_DEADLOCK FALSE

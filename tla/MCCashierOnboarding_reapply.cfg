\* A rejected cashier applies again with a new code.
SPECIFICATION Spec
CONSTANTS
  None = None
  Cashiers = {c1}
  Shops = {s1}
  Codes = {k1, k2}
  Legacy = {}
  LegacyShop = s1
  Reqs = {r1}
  Workload = {"generate", "signup", "reject"}

INVARIANTS ReapplyCanSucceed
CHECK_DEADLOCK FALSE

\* Two branches: a suspended cashier who has never used a code re-applies for
\* the other one while an activation is under way.
SPECIFICATION Spec
CONSTANTS
  None = None
  Cashiers = {c1, c2}
  Shops = {s1, s2}
  Codes = {k1, k2}
  Legacy = {c1}
  LegacyShop = s1
  Reqs = {r1, r2}
  Workload = {"generate", "signup", "reject", "activate"}
SYMMETRY ReqSymmetry
INVARIANTS OneCashierPerBranch
CHECK_DEADLOCK FALSE

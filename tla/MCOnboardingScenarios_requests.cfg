\* A new candidate and a suspended cashier, two requests at a time: every kind
\* of request at one branch, then applications, decisions and moves between
\* two branches (no symmetry reduction).
SPECIFICATION LiveSpec
ACTION_CONSTRAINT Scenarios
CONSTANTS
  s2 = s2
  None = None
  Cashiers = {c1, c2}
  Shops = {s1, s2}
  Codes = {k1, k2}
  Legacy = {c1}
  LegacyShop = s1
  Reqs = {r1, r2}
  Workload = {"generate", "expire", "revoke", "signup", "approve", "reject", "activate", "suspend"}
INVARIANTS TypeOK OneCashierUnlessStrayed
PROPERTIES CodeIsOneTime RequestsEnd
CHECK_DEADLOCK FALSE

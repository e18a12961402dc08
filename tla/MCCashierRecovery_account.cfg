\* One cashier, two handlers at a time, three requests of which one an hour is
\* allowed, one session, sessions cut twice before a suspension.
SPECIFICATION Spec
CONSTANTS
  None = None
  Cashiers = {u1}
  Requests = {q1, q2, q3}
  Sessions = {s1}
  Ops = {o1, o2}
  PerHour = 1
  MaxCuts = 2
SYMMETRY RowSymmetry
INVARIANTS TypeOK SessionsCut HourlyLimit
PROPERTIES CodeIsOneTime
CHECK_DEADLOCK FALSE

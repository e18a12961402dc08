\* Two handlers at a time; two sets of one code, two grants, two passkeys of
\* which one may be registered, two challenges of which one stays live.
\* The throttle: two handlers between check and record, one free failure, two
\* failures per address, a window that one doubling of the delay fits in.
SPECIFICATION SideBySide
CONSTANTS
  None = None
  MaxSets = 2
  SetSize = 1
  Grants = {g1, g2}
  Passkeys = {p1, p2}
  MaxCounter = 2
  MaxChallenges = 2
  MaxLive = 1
  Ceremonies = {h1, h2}
  MaxPasskeys = 1
  Sessions = {s1}
  Ops = {o1, o2}
  Free = 1
  Window = 5
  Base = 2
  MaxDelay = 5
  IpMax = 2
  IpWindow = 4
  Second = 2
  Horizon = 7
  Overlap = 2
SYMMETRY RowSymmetry
INVARIANTS TypeOK NothingOutlivesReset LimitsUnderLock CountersSpentOnce OnlyKnownDeadlocks AttemptBudget WaitingSuffices
PROPERTIES SecretsAreOneTime
CHECK_DEADLOCK FALSE

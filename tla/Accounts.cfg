SPECIFICATION FairSpec
CONSTANTS
  Users = {1, 2}
  Procs = {p1, p2}
  Subjects = {ann}
  Emails = {e1, e2}
  MaxFailed = 2
  TokenCap = 1
  RateLimit = 2
  Window = 2
  Cap = 3
  MaxRequests = 3
  MaxDays = 3
  Faults <- AllFaults
  MaxFaults = 1
INVARIANTS
  Administered
  LimitsAreKept
  IdentitiesKeptApart
PROPERTIES
  SessionsEndForGood
  LimitLifts
CHECK_DEADLOCK FALSE

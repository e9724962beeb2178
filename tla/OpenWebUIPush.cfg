SPECIFICATION FairSpec
CONSTANTS
  Requests = {1, 2, 3}
  Jobs = {j1}
  Workers = {1, 2}
  Cap = 2
  Faults <- AllFaults
  MaxFaults = 1
INVARIANTS
  TypeOK
  DocumentIsHeld
  NothingLeftLying
  NotStaleIsCurrent
PROPERTIES
  EventuallyEnds
CHECK_DEADLOCK FALSE

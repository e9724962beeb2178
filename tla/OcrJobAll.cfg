SPECIFICATION Spec
CONSTANTS
  Jobs = {j1}
  Collected = {}
  Heavy = {j1}
  Workers = {w1, w2}
  Callers = {c1}
  Requests <- AllRequests
  FirstSends = 1
  Faults <- AllFaults
  MaxFaults = 1
PROPERTIES
  DeletedStaysDeleted
CHECK_DEADLOCK FALSE

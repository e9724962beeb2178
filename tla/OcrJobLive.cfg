SPECIFICATION FairSpec
CONSTANTS
  Jobs = {j1}
  Collected = {}
  Heavy = {}
  Workers = {w1, w2}
  Callers = {c1}
  Requests = {"restart"}
  FirstSends = 1
  Faults <- WorkerFaults
  MaxFaults = 2
INVARIANTS
  PendingIsQueued
PROPERTIES
  EventuallyDone
CHECK_DEADLOCK FALSE

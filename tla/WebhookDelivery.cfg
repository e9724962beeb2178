SPECIFICATION FairSpec
CONSTANTS
  Senders = {d1, d2}
  Workers = {w1, w2}
  MaxAttempts = 2
  Cap = 1
  Faults <- AllFaults
  MaxFaults = 2
INVARIANTS
  PendingIsQueued
  SentWasAccepted
  ReceiverIsSpared
PROPERTIES
  EventuallyDelivered
CHECK_DEADLOCK FALSE

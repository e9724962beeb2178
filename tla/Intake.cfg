SPECIFICATION FairSpec
CONSTANTS
  JobIds = {1, 2, 3, 4}
  GroupIds = {1, 2}
  Procs = {p1, p2}
  Owners = {ann, bob}
  Messages = {m1}
  Contents = {c1, c2}
  Children = 2
  MaxRequests = 3
  MaxQueued = 1
  MaxDeaths = 1
INVARIANTS
  MessagesStoredOnce
  WholeGroups
  VersionChain
  
PROPERTIES
  
  StrandedAreTaken
CHECK_DEADLOCK FALSE

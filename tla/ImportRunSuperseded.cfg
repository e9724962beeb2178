SPECIFICATION Spec
CONSTANTS
  r = r
  a = a
  b = b
  c = c
  Pages <- PairPages
  Kids <- PairKids
  Root = r
  Docs = {}
  Unchanged = {}
  Execs = {e1, e2}
  Callers = {}
  MaxPages = 2
  MaxDepth = 1
  ChunkPages = 1
  Faults = {"slow", "redeliver", "exception"}
  FaultPoints <- AllPoints
  MaxFaults = 3
PROPERTIES
  SupersededNeverWrites
CHECK_DEADLOCK FALSE

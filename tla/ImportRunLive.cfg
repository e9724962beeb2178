SPECIFICATION FairSpec
CONSTANTS
  r = r
  a = a
  b = b
  c = c
  Pages <- WidePages
  Kids <- WideKids
  Root = r
  Docs = {a}
  Unchanged = {b}
  Execs = {e1, e2}
  Callers = {}
  MaxPages = 2
  MaxDepth = 2
  ChunkPages = 2
  Faults = {"slow", "redeliver", "softlimit", "bytecap", "setup", "exception", "pagefail", "listfail"}
  FaultPoints <- AllPoints
  MaxFaults = 2
INVARIANTS
  WithinCap
PROPERTIES
  EventuallyEnds
CHECK_DEADLOCK FALSE

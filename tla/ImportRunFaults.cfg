SPECIFICATION Spec
CONSTANTS
  r = r
  a = a
  b = b
  c = c
  Pages <- PairPages
  Kids <- PairKids
  Root = r
  Docs = {r}
  Unchanged = {}
  Execs = {e1, e2}
  Callers = {u1, u2}
  MaxPages = 2
  MaxDepth = 1
  ChunkPages = 1
  Faults = {"crash", "killed", "slow", "redeliver", "softlimit", "exception", "pagefail", "listfail", "lostsend"}
  FaultPoints <- BeforeFinish
  MaxFaults = 2
SYMMETRY SlotSymmetry
INVARIANTS
  CrawledOnce
  NoneForgotten
  FinishedMeansDone
PROPERTIES
  KeepsPromise
CHECK_DEADLOCK FALSE

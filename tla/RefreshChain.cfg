SPECIFICATION FairSpec
CONSTANTS
  Workers = {w1, w2}
  Tokens = {t1, t2}
  Sources = {s}
  Ttl = 3
  Broker = Broker
  Lost = Lost
  Nobody = Nobody
  Faults <- AllFaults
  MaxFaults = 1
INVARIANTS
  OneChain
  StartsAlone
PROPERTIES
  KeepsRefreshing

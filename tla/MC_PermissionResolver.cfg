CONSTANTS
  c1 = c1
  c2 = c2
  k1 = k1
  nobody = nobody
  Callers <- TwoCallers
  Keys <- OneKey
  TTL = 2
  Latency = 1
  MaxPending = 2
  Nobody <- nobody
SPECIFICATION FairSpec
INVARIANTS
  TypeOK
  MappingIsRecent
  InvalidateHolds
  OneRequestPerKey
PROPERTIES
  CallsReturn

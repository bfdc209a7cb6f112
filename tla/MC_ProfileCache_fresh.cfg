CONSTANTS
  c1 = c1
  c2 = c2
  c3 = c3
  userKey = userKey
  tokenKey = tokenKey
  Callers <- TwoCallers
  Keys <- OneKey
  TTL = 1
  Latency = 1
  MaxVersion = 2
SPECIFICATION Spec
SYMMETRY Symmetry
INVARIANTS
  FreshReplacesCached

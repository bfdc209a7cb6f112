CONSTANTS
  c1 = c1
  c2 = c2
  read = read
  write = write
  nobody = nobody
  Callers <- MCCallers
  Scopes <- MCScopes
  ReadScope <- read
  WriteScope <- write
  Methods <- MCMethods
  ReadMethods <- MCReadMethods
  Lifetimes <- MCLifetimes
  Skew = 4
  TokenLatency = 1
  SendLatency = 1
  Nobody <- nobody
SPECIFICATION Spec
SYMMETRY Symmetry
INVARIANTS
  TypeOK
  TokenAliveOnArrival
  GrantCoversMethod
  ClearedTokenIsGone
  OneTokenRequest

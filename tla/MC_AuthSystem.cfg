CONSTANTS
  me = me
  tokenKid = tokenKid
  rolesKey = rolesKey
  Nobody = Nobody
  Me = me
  TokenKid = tokenKid
  RolesKey = rolesKey
  Verifiers <- MCThreads
  Callers <- MCThreads
  Kids <- MCKids
  Issuable <- MCKids
  Preloaders <- MCPreloaders
  CacheKeys <- MCCacheKeys
  Refresh = 1
  Cooldown = 1
  FetchTime = 0
  TTL = 1
  ResolveTime = 0
  MaxPending = 1
  Routes <- MCRoutes
  Tokens <- MCTokens
  Mappings <- MCMappings
  Concrete <- MCConcrete
  KeyAge = 1
  MappingAge = 1
  Leeway = 0
  MaxDuration = 1
SPECIFICATION SystemSpec
INVARIANTS
  TypeOK
  ServedIsAuthentic
  ServedIsPermitted
  InvalidationReachesHandlers
PROPERTY ImplementsPipeline

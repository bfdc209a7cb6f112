CONSTANTS
  Routes <- MCRoutes
  Tokens <- MCTokens
  Mappings <- MCMappings
  Concrete <- MCConcrete
  KeyAge = 2
  MappingAge = 1
  Leeway = 1
  MaxDuration = 1
SPECIFICATION Spec
INVARIANTS
  TypeOK
  ServedIsAuthentic
  ServedIsPermitted

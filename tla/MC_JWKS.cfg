CONSTANTS
  k1 = k1
  k2 = k2
  v1 = v1
  v2 = v2
  p1 = p1
  Kids <- MCKids
  Issuable <- OneKid
  Verifiers <- MCVerifiers
  Preloaders <- MCPreloaders
  Refresh = 2
  Cooldown = 2
  Latency = 1
SPECIFICATION FairSpec
INVARIANTS
  TypeOK
  WithdrawnKeysExpire
  OneForcedFetch
  UnknownMeansAbsent
PROPERTIES
  PublishedKeyIsAdopted

CONSTANTS
  c1 = c1
  c2 = c2
  k1 = k1
  Callers <- MCCallers
  Keys <- MCKeys
  MaxLate = 1
SPECIFICATION Spec
SYMMETRY Symmetry
INVARIANTS
  TypeOK
  SecretOnce
  LostSecretIsKnown
PROPERTIES
  HonestOutcomes

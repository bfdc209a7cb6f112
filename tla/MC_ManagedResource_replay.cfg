CONSTANTS
  e1 = e1
  e2 = e2
  i1 = i1
  i2 = i2
  Editors <- MCEditors
  Keys <- MCKeys
  MaxVersion = 2
  MaxLate = 1
SPECIFICATION Spec
SYMMETRY Symmetry
INVARIANTS
  NeverRetried

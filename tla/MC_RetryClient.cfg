CONSTANTS
  c1 = c1
  Calls <- MCCalls
  MaxRetries = 3
  HTTPTimeout = 2
  MaxInterval = 1
  MaxElapsed = 5
SPECIFICATION RCSpec
INVARIANTS
  RCTypeOK
  EndsInTime
PROPERTIES
  BoundedRetries
  StrictNeverRepeats

CONSTANTS
  c1 = c1
  c2 = c2
  nobody = nobody
  Commands <- MCCommands
  MaxRetries = 2
  Attempts = 3
  Deadline = 2
  AttemptTimeout = 1
  MaxDelay = 1
  Lifetimes <- OneLifetime
  Skew = 3
  Nobody <- nobody
SPECIFICATION FairSpec
INVARIANTS
  TypeOK
  WithinTwoDeadlines
  TokenOutlivesRetries
PROPERTIES
  SharedAttempts
  CommandsReturn

SPECIFICATION FairSpec
CONSTANTS
  Instances = {a}
  NoInstance = NoInstance
  NFiles = 2
  MaxVersion = 3
  MaxStabilityChecks = 2
  ForceModes = {FALSE, TRUE}
  BootstrapBlocking = TRUE
  Seeded = FALSE
  LockLoss = TRUE
INVARIANTS
  TypeOK
  RecordedNotAhead
  RecordedIsReal
  ServesTitles
PROPERTIES
  EventuallyCaughtUp
  ConfirmedByLaterPoll

SPECIFICATION Spec
CONSTANTS
  Instances = {a, b}
  NoInstance = NoInstance
  NFiles = 1
  MaxVersion = 2
  MaxStabilityChecks = 1
  ForceModes = {FALSE}
  BootstrapBlocking = TRUE
  Seeded = TRUE
  LockLoss = FALSE
PROPERTIES
  ConfirmedByLaterPoll

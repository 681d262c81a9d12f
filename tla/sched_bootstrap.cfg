SPECIFICATION FairSpec
CONSTANTS
  Instances = {a, b}
  NoInstance = NoInstance
  NFiles = 1
  MaxVersion = 2
  MaxStabilityChecks = 1
  ForceModes = {FALSE, TRUE}
  BootstrapBlocking = TRUE
  Seeded = FALSE
  LockLoss = FALSE
PROPERTIES
  ImplementsPublication
  EventuallyCaughtUp
  EmptyOnlyDuringBootstrap

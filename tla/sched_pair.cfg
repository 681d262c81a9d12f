SPECIFICATION Spec
CONSTANTS
  Instances = {a, b}
  NoInstance = NoInstance
  NFiles = 2
  MaxVersion = 2
  MaxStabilityChecks = 1
  ForceModes = {FALSE}
  BootstrapBlocking = TRUE
  Seeded = TRUE
  LockLoss = FALSE
SYMMETRY InstanceSymmetry
INVARIANTS
  RebuildsExclude
  RebuildInvariant
  NoRedundantRebuild
PROPERTIES
  PublishedNeverRegresses
  SourceNeverRegresses

SPECIFICATION Spec
CONSTANTS
  Runs = {r1, r2}
  NoRun = NoRun
  NTitles = 5
  Episodes = {2}
  CurrentYear = {1}
  Obscure = {4}
  MaxVersion = 3
  LoadBatchSize = 2
  BatchSize = 2
  KeepStaging = FALSE
  SwapLockTimeout = 30
  Locked = TRUE
SYMMETRY RunSymmetry
INVARIANTS
  TypeOK
  BuiltUpToCursor
PROPERTIES
  ImplementsLiveDataset
  FaultlessRunsPublish

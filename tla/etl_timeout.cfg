SPECIFICATION Spec
CONSTANTS
  Runs = {r1}
  NoRun = NoRun
  NTitles = 3
  Episodes = {2}
  CurrentYear = {1}
  Obscure = {3}
  MaxVersion = 1
  LoadBatchSize = 2
  BatchSize = 2
  KeepStaging = FALSE
  SwapLockTimeout = 60
  Locked = TRUE
PROPERTIES
  ReadySwapPublishes

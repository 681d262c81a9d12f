SPECIFICATION Spec
CONSTANTS
  Runs = {r1, r2}
  NoRun = NoRun
  NTitles = 3
  Episodes = {2}
  CurrentYear = {1}
  Obscure = {}
  MaxVersion = 2
  LoadBatchSize = 2
  BatchSize = 2
  KeepStaging = FALSE
  SwapLockTimeout = 30
  Locked = FALSE
SYMMETRY RunSymmetry
INVARIANTS
  SearchMirrorsTitles
  OneRowPerTitle

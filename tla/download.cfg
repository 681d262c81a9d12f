SPECIFICATION FairSpec
CONSTANTS
  Files = {f1, f2, f3}
  Workers = {w1, w2}
  MaxCalls = 2
CHECK_DEADLOCK FALSE
INVARIANTS
  TypeOK
  NeverPartial
  NilMeansComplete
  LoadsOnlyComplete
PROPERTIES
  CallReturns

SPECIFICATION Spec
CONSTANTS
  Requests = {r1, r2}
  Etl = etl
  Inputs <- PoolInputs
  PoolSize = 2
  MaxJobs = 2
  MaxAttempts = 2
  SearchEnabled = TRUE
  MaxSearchLength = 4
  MaxSuggestLength = 3
  Nobody = Nobody
  Free = Free
  Other = Other
CHECK_DEADLOCK FALSE
INVARIANTS
  LeasesAccounted
  LockOnlyWhileRebuilding
PROPERTIES
  NobodyWaitsForever
  ShutdownCompletes

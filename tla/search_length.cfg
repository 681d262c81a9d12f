SPECIFICATION Spec
CONSTANTS
  Requests = {r1}
  Etl = etl
  Inputs <- LengthInputs
  PoolSize = 2
  MaxJobs = 0
  MaxAttempts = 1
  SearchEnabled = TRUE
  MaxSearchLength = 4
  MaxSuggestLength = 3
  Nobody = Nobody
  Free = Free
  Other = Other
CHECK_DEADLOCK FALSE
INVARIANT DocumentedLengthsAccepted

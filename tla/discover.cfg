SPECIFICATION Spec
CONSTANTS
  NTitles = 3
  MaxValue = 2
  MaxLimit = 2
  MaxSwaps = 1
CHECK_DEADLOCK FALSE
INVARIANTS
  TypeOK
  WalkIsListing
  StrictOrder
  StableShownOnce
PROPERTIES
  OneListing

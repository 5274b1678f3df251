SPECIFICATION FairSpec
CONSTANTS
  N = 1
  MaxPicks = 0
  WaitsForLoop = FALSE
PROPERTY DestroyReturns
CHECK_DEADLOCK FALSE

SPECIFICATION FairSpec
CONSTANTS
  N = 3
  MaxPicks = 2
  WaitsForLoop = TRUE
INVARIANTS Inv GoneAfterThread
PROPERTIES StartReturns DestroyReturns
CHECK_DEADLOCK FALSE

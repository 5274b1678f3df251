SPECIFICATION FairSpec
CONSTANTS
  Messages = {m1, m2, m3, m4, m5}
  Capacity = 1
INVARIANTS Inv ExactlyOnceInOrder SparesSuffice
PROPERTIES EventuallyWritten StopReturns
CHECK_DEADLOCK FALSE

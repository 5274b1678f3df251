SPECIFICATION Spec
CONSTANTS
  Kinds <- MCKinds
  Files <- MCFiles
  MaxRequests = 1
INVARIANT BadRequestIsBad
CHECK_DEADLOCK FALSE

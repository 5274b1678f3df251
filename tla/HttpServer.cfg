SPECIFICATION FairSpec
CONSTANTS
  Kinds <- MCKinds
  Files <- MCFiles
  MaxRequests = 3
INVARIANTS Inv AnswersStopAtClose WholeIsAnswered
PROPERTIES HandlerReturns
CHECK_DEADLOCK FALSE

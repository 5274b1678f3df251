SPECIFICATION FairSpec
CONSTANTS
  IoLoops = {l1}
  MainLoop = main
  c1 = c1
  c2 = c2
  Conns <- TwoConns
  ConnId <- InTurn
  Acceptor = acceptor
  None = none
  MaxFds = 2
  MaxCalls <- OnTheFirst
INVARIANTS Inv NoDanglingChannel EpollAgrees AnnouncedUpThenDown
PROPERTIES ClosedIsDestroyed WaitingIsAccepted DtorReturns
CHECK_DEADLOCK FALSE

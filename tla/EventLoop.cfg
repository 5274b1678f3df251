SPECIFICATION FairSpec
CONSTANTS
  Callers = {c1, c2}
  Tasks = {k1, k2, k3}
INVARIANTS Inv NoLostWakeup NoSleepAfterQuit
PROPERTIES ImplementsTaskQueue QueuedIsRun QuitEndsLoop
CHECK_DEADLOCK FALSE

SPECIFICATION FairSpec
CONSTANTS
  Threads = {t1, t2}
  Messages = {m1, m2}
  Size = 2
  HighWaterMark = 3
INVARIANTS Inv WritingIffPending
PROPERTIES ImplementsByteStream ShutdownSendsFin AcceptedIsWritten
CHECK_DEADLOCK FALSE

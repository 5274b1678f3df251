SPECIFICATION Spec
CONSTANTS
  Lens = {1, 2}
  MaxBytes = 6
  MaxClock = 8
  Names = {1, 2, 3, 4, 5}
  LocalTime <- BackTwice
  rollSize = 2
  flushInterval = 1
  checkEveryN = 2
  kRollPerSeconds = 3
INVARIANTS Inv LargeOnlyInItsSecond SoonANewDay
CHECK_DEADLOCK FALSE

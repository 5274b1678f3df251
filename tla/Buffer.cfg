SPECIFICATION BufferSpec
CONSTANTS
  kCheapPrepend = 1
  InitialSize = 2
  ExtraSize = 2
  MaxBytes = 9
INVARIANT BufferInv
PROPERTY GrowsOnlyWhenFull

SPECIFICATION FairSpec
CONSTANTS
  HeapStart = 4
  HeapEnd = 26
  Hdr = 3
  Align = 2
  SizeMod = 28
  Sizes = {1, 4}
INVARIANTS Inv FullRecovery
PROPERTIES RefusalHonest CallReturns Implements

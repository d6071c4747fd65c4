SPECIFICATION FairSpec
CONSTANTS
  Kernel <- McKernel
  BitmapAt = 5
  Heap <- McHeap
  Early <- McEarly
  Exceptions = {0, 1}
  Vectors = {0, 1, 2}
  Loaders <- McLoaders
CHECK_DEADLOCK FALSE
INVARIANTS Inv BadEndsExplained CollisionsExplained
PROPERTIES UsesAllocator QuietBootCompletes

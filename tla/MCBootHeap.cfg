SPECIFICATION Spec
CONSTANTS
  Kernel <- McKernel
  BitmapAt = 5
  Heap <- McHeap
  Early <- McEarly
  Exceptions = {0, 1}
  Vectors = {0, 1, 2}
  Loaders <- LargeLoaders
CHECK_DEADLOCK FALSE
INVARIANTS HeapOffBitmap OthersZeroed

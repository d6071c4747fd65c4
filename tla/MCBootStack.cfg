SPECIFICATION FairSpec
CONSTANTS
  Kernel <- McKernel
  BitmapAt = 5
  Heap <- McHeap
  Early <- McEarly
  Exceptions = {0, 1}
  Vectors = {0, 1, 2}
  Loaders <- HighStackLoaders
CHECK_DEADLOCK FALSE
PROPERTY CanvasShown

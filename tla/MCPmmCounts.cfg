SPECIFICATION Spec
CONSTANTS
  PageSize = 2
  BitsPerByte = 2
  BitmapPage = 2
  MemoryMaps <- McAligned
INVARIANTS HighestUsable FreeCountExact
PROPERTY NullNeverGranted

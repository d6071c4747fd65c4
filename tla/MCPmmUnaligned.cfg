SPECIFICATION Spec
CONSTANTS
  PageSize = 2
  BitsPerByte = 2
  BitmapPage = 2
  MemoryMaps <- McUnaligned
INVARIANT OnlyUsable

SPECIFICATION V1Spec
CONSTANTS
  MbiPages <- McPages
  Names <- McNames
  TagLists <- McTagLists
  Strays <- McStrays
CHECK_DEADLOCK FALSE
INVARIANT IdentityMapped

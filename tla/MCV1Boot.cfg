SPECIFICATION V1FairSpec
CONSTANTS
  MbiPages <- McPages
  Names <- McNames
  TagLists <- McTagLists
  Strays <- McStrays
CHECK_DEADLOCK FALSE
INVARIANTS V1Inv ReportTrue
PROPERTY Halts

SPECIFICATION FairSpec
CONSTANTS
  Pages = {1, 2, 3, 4}
  Elfs <- McElfs
  Tables <- McTables
  Extra = 1
  MaxRegions = 3
  MaxKey = 4
  FirmwareMaps <- McMaps
  Garbage <- McGarbage
INVARIANT Inv
PROPERTIES Implements QuietAfterExit LoaderEnds

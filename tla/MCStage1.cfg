SPECIFICATION FairSpec
CONSTANTS
  Cells <- McCells
  Image <- McImage
  MaxRegions = 3
  Boots <- McBoots
CHECK_DEADLOCK FALSE
INVARIANTS Inv HandoverFaithful
PROPERTIES Implements LoaderEnds

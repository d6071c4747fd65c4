SPECIFICATION Spec
CONSTANTS
  Cells <- McCells
  Image <- McImage
  MaxRegions = 3
  Boots <- IssueBoots
CHECK_DEADLOCK FALSE
INVARIANTS KernelEntered StartReachesMain SurvivesLoading

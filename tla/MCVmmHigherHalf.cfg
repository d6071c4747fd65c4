SPECIFICATION Spec
CONSTANTS
  Fan = 6
  EarlyLarge = 3
  Pml4 = 2
  Pdpt = 3
  Pd = 4
  PtLow = 5
  SlotAlias = 4
  SlotHigh = 5
  SlotFb = 1
  PageBytes = 2
  Top = 63
  Pools <- McPools
  Virts <- McVirts
  Targets <- McTargets
  Framebuffers <- McDisplays
INVARIANT HigherHalfMapped
CHECK_DEADLOCK FALSE

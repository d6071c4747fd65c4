SPECIFICATION FairSpec
CONSTANTS
  ByteBits = 2
  MaxDimension = 1999
  Mappings <- McMappings
  Modes <- McModes
  Drawings <- McDrawings
  Colour <- McColour
CHECK_DEADLOCK FALSE
INVARIANTS Inv ColourShown ShapeExact LineStraight SplashLaidOut
PROPERTY DrawingEnds

SPECIFICATION Spec
CONSTANTS
  Blank = Blank
  Width = 4
  TabStop = 2
  Height = 2
  Chars = {"a", "high"}
  High = {"high"}
  Colors = {"grey", "green"}
  AllBits = "all_bits"
  FirstColor = "grey"
  MaxText = 8
CHECK_DEADLOCK FALSE
INVARIANT Inv

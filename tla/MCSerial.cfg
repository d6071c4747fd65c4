SPECIFICATION PortFairSpec
CONSTANTS
  Characters <- McCharacters
  Programs <- McPrograms
  Ports <- McPorts
  Traps <- McExceptions
  Depth = 2
  Nested = 2
INVARIANT PortInv
PROPERTIES ReportsArrive ReportReachesLine
CHECK_DEADLOCK FALSE

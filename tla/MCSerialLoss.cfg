SPECIFICATION PortSpec
CONSTANTS
  Characters <- McCharacters
  Programs <- McPrograms
  Ports <- McPorts
  Traps <- McExceptions
  Depth = 2
  Nested = 2
INVARIANT StageOneHeard
CHECK_DEADLOCK FALSE

SPECIFICATION Spec
CONSTANTS
  Pages = {1, 2, 3, 4}
  Elfs <- McElfs
  Tables <- AcpiTables
  Extra = 1
  MaxRegions = 3
  MaxKey = 4
  FirmwareMaps <- McMaps
  Garbage <- McGarbage
INVARIANTS ServicesExited SpareRoomUsed RsdpLocated

\* The driver waits for each command to end. One drive; a double sided image of one
\* cylinder with one sector a track, so two blocks; sectors and headers of two bytes.
CONSTANTS
  NDrives = 1
  Cyls = {0}
  Sectors = {0, 1}
  Sides = {0, 1}
  Tracks = 2
  SPS = 1
  DoubleSided = TRUE
  SectorLen = 2
  HeaderLen = 2
  Lead = 1
  Revs = 2
  Byte <- PositionCoded
  Fill = 255
  MaxCommands = 2
  Issued = {"read", "write", "readid"}
  Hazards <- NoHazards
SPECIFICATION Spec
INVARIANTS Honest
PROPERTIES NoMisdirectedWrite ImplementsStore

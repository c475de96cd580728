\* Commands cut each other short, the motor stops under requests, the TI is reset from the
\* menu, or everything by the reset button, at any moment of a transfer. One drive, one block
\* of one byte: the handshakes matter, not the data.
CONSTANTS
  NDrives = 1
  Cyls = {0}
  Sectors = {0}
  Sides = {0}
  Tracks = 1
  SPS = 1
  DoubleSided = FALSE
  SectorLen = 1
  HeaderLen = 1
  Lead = 1
  Revs = 2
  Byte <- PositionCoded
  Fill = 0
  MaxCommands = 2
  Issued = {"typeI", "read", "write", "force"}
  Hazards <- Faults
SPECIFICATION FairSpec
PROPERTIES CpuReleased CommandEnds ProtectedUntouched

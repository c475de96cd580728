\* Two drives, so that they compete for the shape register, and fifteen image files.
CONSTANTS
  Drives = {1, 2}
  Images <- SomeImages
  SectorRegs <- SomeSectors
SPECIFICATION Spec
INVARIANTS InImage SameDisk

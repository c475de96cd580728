\* Blocks of two entries and clusters of two blocks; a volume with room for eight more.
CONSTANTS
  Names = {"a", "b", "s", "l"}
  Needed <- NeededSlots
  BlockSlots = 2
  BlocksPerCluster = 2
  Directories <- Some
  Hazards = {}
  MaxSlots = 12
  MaxFaults = 2
  MaxOps = 4
SPECIFICATION DirSpec
INVARIANTS ListsRight
PROPERTIES ImplementsNames

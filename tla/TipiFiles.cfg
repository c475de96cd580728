CONSTANTS
  Drives = {"DSK1"}
  Dirs = {"d"}
  Names = {"A"}
  Pabs <- MCPabs
  Contents <- MCContents
  Stored <- MCStored
  Numrec <- MCNumrec
  MaxFaults = 1
SPECIFICATION FilesSpec
CHECK_DEADLOCK FALSE
INVARIANTS Apart
PROPERTIES OnlyNamed SavedIsLoaded

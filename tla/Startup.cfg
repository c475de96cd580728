CONSTANTS
  Slots = {"sd0", "sd1"}
  Deep = 2
  Cards = {"c1", "c2"}
  NoCard = "nocard"
  Tree <- MCTree
  Aux <- MCAux
  Roms <- MCRoms
  Embedded = {"grom0"}
  Pcode = TRUE
  Rpks <- MCRpks
  Banks = 4
  NumGroms = 8
  MaxRes = 2
  MaxMoves = 1
  MaxOps = 5
SPECIFICATION Spec
INVARIANTS OneCartridge AsLaidOut BoardHasItsRom PathsAgree SettingsKept
CHECK_DEADLOCK FALSE

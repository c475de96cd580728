CONSTANTS
  Models = {"ps2", "mk1"}
  Caps <- MCCaps
  Depth = 2
  Chord = {"UP", "TAB", "<-"}
  MaxLost = 1
  MaxDown = 2
  Deepest = 2
SPECIFICATION Spec
CHECK_DEADLOCK FALSE
INVARIANTS BlockedWhenNeeded LetsGo WithItsModifier
PROPERTIES MenuKeepsKeys TypesItsLegend

CONSTANTS
  c1 = c1
  c2 = c2
  c3 = c3
  h1 = h1
  h2 = h2
  Slots = {0, 1}
  Cards = {c1, c2, c3}
  NoCard = NoCard
  Handles = {h1, h2}
  Kind <- MCKind
  Retries = 2
  MaxMoves = 4
  MaxNoise = 2
SPECIFICATION Spec
SYMMETRY HandleSymmetry
INVARIANTS RightCard NoFalseAlarm

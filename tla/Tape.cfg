CONSTANTS
  Word = 2
  Sector = 4
  Mem = 8
  Lead = 6
  Wrap = 16
  Files <- MCFiles
  Depth = 1
  BufSize = 2
  MaxBytes = 3
  MaxStarts = 2
  MaxTurns = 3
SPECIFICATION Spec
CHECK_DEADLOCK FALSE
INVARIANTS PlaysTheReel NoSilentGap
PROPERTIES RecordingStays TapeStops

\* Messages of two bytes, each one of two values, and replies of two in two parts; parity is
\* wrong now and then, and one reset comes at any time.
CONSTANTS
  Values = {1, 2}
  MsgLen = 2
  RepLen = 2
  Heads = {1, 2}
  Noise = TRUE
  MaxCalls = 2
  MaxResets = 1
SPECIFICATION FairSpec
INVARIANTS ReplyMatches
PROPERTIES ImplementsCall CallEnds ResetEnds

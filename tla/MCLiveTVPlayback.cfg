CONSTANTS
  Inputs <- MCInputs
  Channels <- MCChannels
  Chunk = 2
  Attempts = 2
  Offsets <- MCOffsets
  MaxSize = 2
  MaxFiles = 2
  MaxQueue = 2
  MaxTune = 2
  MaxCalls = 3
  MaxLoss = 1
SPECIFICATION Spec
INVARIANT TypeOK
INVARIANT ChainInOrder
INVARIANT StreamOrder
INVARIANT ServedIsPlayed
CHECK_DEADLOCK FALSE

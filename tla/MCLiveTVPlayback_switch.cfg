CONSTANTS
  Inputs <- MCInputs
  Channels <- MCChannels
  Chunk = 2
  Attempts = 2
  Offsets <- MCOffsets
  MaxSize = 2
  MaxFiles = 2
  MaxQueue = 2
  MaxTune = 1
  MaxCalls = 3
  MaxLoss = 0
SPECIFICATION Spec
PROPERTY NothingLeftBehind
CHECK_DEADLOCK FALSE

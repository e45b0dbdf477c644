CONSTANTS
  Reader = Reader
  Other = Other
  Nobody = Nobody
  FileSize = 2
  MaxBlock = 2
  MaxCalls = 3
  MaxLoss = 2
  Recordings = {1, 2}
  Offsets <- MCOffsets
  MaxOpen = 1
  MaxEvents = 1
SPECIFICATION Playing
INVARIANT TypeOK
INVARIANT ReadInOrder
INVARIANT AnswersMatched
INVARIANT LatchWhileRequested
PROPERTY CallReturns
CHECK_DEADLOCK FALSE

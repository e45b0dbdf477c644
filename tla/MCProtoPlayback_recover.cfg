CONSTANTS
  Reader = Reader
  Other = Other
  Nobody = Nobody
  FileSize = 4
  MaxBlock = 2
  MaxCalls = 3
  MaxLoss = 1
SPECIFICATION FairSpec
PROPERTY RecoveredOrDead
CHECK_DEADLOCK FALSE

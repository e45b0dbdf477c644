CONSTANTS
  Sizes <- MCSizes
  MaxSize = 2
  MaxQueue = 3
  MaxCalls = 5
  MaxFail = 1
SPECIFICATION FairSpec
INVARIANT TypeOK
INVARIANT NoneForgotten
PROPERTY DestructorReturns
CHECK_DEADLOCK FALSE

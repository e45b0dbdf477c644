CONSTANTS
  a1 = a1
  Apps = {a1}
  Controller = a1
  Nobody = Nobody
  Asked = {"DATA"}
  MaxId = 1
  MaxCreate = 2
  MaxData = 1
  MaxLoss = 2
  MaxStart = 1
SPECIFICATION FairSpec
INVARIANT StatusBeforeData
PROPERTY PostedHandled
PROPERTY RevokeReturns
PROPERTY StopReturns
PROPERTY ResetServed
CHECK_DEADLOCK FALSE

CONSTANTS
  a1 = a1
  a2 = a2
  Apps = {a1, a2}
  Controller = a1
  Nobody = Nobody
  Asked = {"DATA"}
  MaxId = 1
  MaxCreate = 2
  MaxData = 1
  MaxLoss = 0
  MaxStart = 1
SPECIFICATION Spec
INVARIANT OnlySubscribed
CHECK_DEADLOCK FALSE

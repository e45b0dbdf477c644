CONSTANTS
  a1 = a1
  a2 = a2
  Apps = {a1, a2}
  Controller = a1
  Nobody = Nobody
  Asked = {"DATA"}
  MaxId = 2
  MaxCreate = 3
  MaxData = 2
  MaxLoss = 0
  MaxStart = 1
SPECIFICATION Spec
INVARIANT TypeOK
INVARIANT Delivery
CHECK_DEADLOCK FALSE

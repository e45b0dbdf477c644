SPECIFICATION Spec
CONSTANTS
  Versions = {75, 77, 80, 82, 91}
  Addresses = 2
  BufLen = 20
  Segments = {40, 99}
  MaxSent = 2
  MaxFault = 1
INVARIANTS TypeOK EventsInOrder 
PROPERTY EventsReturned
CHECK_DEADLOCK FALSE

CONSTANTS
  t1 = t1
  t2 = t2
  Threads = {t1, t2}
  NoThread = NoThread
  Backends = {75, 91, 92}
  Lengths = {0, 2, 11}
  MaxMarks = 2
  MaxCalls = 3
  MaxLoss = 2
SPECIFICATION FairSpec
INVARIANT TypeOK
INVARIANT OwnReply
INVARIANT Framing
INVARIANT AnnouncedFirst
PROPERTY CallsReturn
CHECK_DEADLOCK FALSE

CONSTANTS
  t1 = t1
  t2 = t2
  t3 = t3
  Threads = {t1, t2, t3}
  NoThread = NoThread
  Upgrade = FALSE
  MaxX = 2
  MaxS = 2
SPECIFICATION FairSpec
INVARIANT TypeOK
INVARIANT Exclusion
INVARIANT Reservation
INVARIANT NoLostWakeup
PROPERTY ImplementsRWLock
PROPERTY PendingServed
PROPERTY ReservedTaken

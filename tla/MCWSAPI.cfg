SPECIFICATION Spec
CONSTANTS
  t1 = t1
  t2 = t2
  NoThread = NoThread
  Threads = {t1, t2}
  Releases = {"r27", "r35", "r99"}
  Protocol <- MCProtocol
  Version <- MCVersion
  Secure <- MCSecure
  Lists <- MCLists
  Hidden = {1}
  Limits = {0, 3}
  Days = {1, 3}
  FETCHSIZE = 2
  FETCHSIZE_L = 3
  MaxCalls = 2
  MaxFault = 1
INVARIANTS TypeOK BoundByItsVersion CompleteList PostedOnce
PROPERTY CallsReturn
CHECK_DEADLOCK FALSE

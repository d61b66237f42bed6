CONSTANTS
  m = m
  a = a
  b = b
  Thread <- MCThread
  Main = m
  Started <- MCStarted
  Prio <- MCPrio
  Lock = {k}
  NoThread = NoThread
  NoLock = NoLock
  MaxNest = 2
  WaitersLinked = FALSE
SPECIFICATION FairSpec
PROPERTY Boots
CHECK_DEADLOCK FALSE

CONSTANTS
  m = m
  a = a
  b = b
  Thread <- MCThread
  Main = m
  Started <- MCStarted
  Prio <- ShortPrio
  Lock = {k}
  NoThread = NoThread
  NoLock = NoLock
  MaxNest = 1
  WaitersLinked = TRUE
SPECIFICATION FairSpec
PROPERTIES
  ReadyRuns
  WaiterWoken

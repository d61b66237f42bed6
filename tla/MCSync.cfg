CONSTANTS
  m = m
  a = a
  b = b
  Thread <- MCThread
  Main = m
  Started <- MCStarted
  Prio <- MCPrio
  Lock = {k, l}
  NoThread = NoThread
  NoLock = NoLock
  MaxNest = 2
  WaitersLinked = TRUE
SPECIFICATION Spec
SYMMETRY Symmetry
INVARIANTS
  IInv
  MutualExclusion
  HolderAccurate
  TagInOneList
  NoLostWakeup
  NoPanic
  IntrDiscipline
PROPERTY ImplementsRecursiveLock

SPECIFICATION Spec
CONSTANTS
  KernelClient = {thr1}
  Process = {proc1}
  KernelFrames = 3
  UserFrames = 3
  UserPages = 4
  TableSize = 2
  MaxPages = 2
  NoThread = NoThread
  NoFrame = NoFrame
  thr1 = thr1
  proc1 = proc1
INVARIANTS PallocAtomic
CHECK_DEADLOCK FALSE

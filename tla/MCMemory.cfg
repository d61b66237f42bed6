SPECIFICATION Spec
CONSTANTS
  KernelClient = {thr1}
  Process = {proc1, proc2}
  KernelFrames = 3
  UserFrames = 4
  UserPages = 4
  TableSize = 2
  MaxPages = 2
  NoThread = NoThread
  NoFrame = NoFrame
  thr1 = thr1
  proc2 = proc2
  proc1 = proc1
SYMMETRY Symmetry
INVARIANTS UserFrameOnce FrameOnce BooksExact GrantMapped LockReturned FailsOnlyExhausted
CHECK_DEADLOCK FALSE

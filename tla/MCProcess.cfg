CONSTANTS
  main = main
  ktd = ktd
  p1 = p1
  p2 = p2
  p3 = p3
  Kernel = {main, ktd}
  Proc = {p1, p2, p3}
  Main = main
  NULL = NULL
  Bits = 3
  FirstKernel = 5
  LowPages = 4
  Frames = 14
  UserFrames = 2
  Pushes = 60
SPECIFICATION Spec
SYMMETRY Symmetry
CHECK_DEADLOCK FALSE
INVARIANTS PagingRight FrameIntact OwnDirectory TrapsAtHome

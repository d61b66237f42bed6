CONSTANTS
  thr1 = thr1
  thr2 = thr2
  Thread = {thr1, thr2}
  NoThread = NoThread
  Strings <- MCStrings
  Numbers <- MCNumbers
  Keys = {"LF", "BS"}
  Cols = 4
  Rows = 2
  Byte = 6
  Segment = 9
  Digits = 2
  Base = 2
SPECIFICATION Spec
INVARIANTS StaysOnScreen IndexHeld ShowsCalls
CHECK_DEADLOCK FALSE

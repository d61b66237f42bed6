CONSTANTS
  e1 = e1
  e2 = e2
  e3 = e3
  thr1 = thr1
  thr2 = thr2
  Thread = {thr1, thr2}
  Elem = {e1, e2, e3}
  List = {rdy, wtr}
  NULL = NULL
SPECIFICATION FairSpec
INVARIANTS ListsSound
PROPERTIES ImplementsLists CallsReturn

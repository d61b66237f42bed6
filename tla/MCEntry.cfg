CONSTANTS
  main = main
  ktd = ktd
  prc = prc
  Thread = {main, ktd, prc}
  User = {prc}
  Main = main
  Irq = {0, 1}
  Exception <- MCException

SPECIFICATION Spec
CHECK_DEADLOCK FALSE

INVARIANTS RegistersKept FramesRight NothingInService

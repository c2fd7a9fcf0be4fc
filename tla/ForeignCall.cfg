CONSTANTS
  Waker = {w1, w2}
  NoWaker = NoWaker
SPECIFICATION Spec
CHECK_DEADLOCK FALSE
INVARIANTS
  CallInv
  CellsExclusive
  PayloadOnce
PROPERTIES
  AnswerArrives
  ImplementsAwaited

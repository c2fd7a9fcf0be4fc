CONSTANTS
  Worker = {w1, w2}
  NoWorker = NoWorker
  Gate = {g1, g2}
  NoGate = NoGate
  MaxDepth = 1
SPECIFICATION GSpec
CHECK_DEADLOCK FALSE
INVARIANTS
  SlotSound
  DestroyMissesNone
PROPERTIES
  FirstAnswerStands
  WaitsEnd

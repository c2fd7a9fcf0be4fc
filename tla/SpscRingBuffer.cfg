SPECIFICATION Spec
CONSTANTS
  Producer = {t1, t2}
  Event = {a, b}
  Capacity = 4
  Word = 8
  MaxBatch = 3
  MayOverlap = FALSE
  Empty = Empty
INVARIANTS
  RingInv
  SlotsOwned
  NothingLeaked
PROPERTIES
  CountIsHonest
  ImplementsFifo
CHECK_DEADLOCK FALSE

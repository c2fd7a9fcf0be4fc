CONSTANTS
  Thread = {t1, t2}
  Address = {a1, a2}
  Null = Null
  MAX_SUBSCRIBERS = 2
  MayOverlap = TRUE
SPECIFICATION Spec
CHECK_DEADLOCK FALSE
INVARIANTS
  NoUseAfterFree

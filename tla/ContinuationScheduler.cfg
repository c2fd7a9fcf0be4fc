CONSTANTS
  Thread = {t1, t2, t3}
  Continuation = {c1, c2}
  Null = Null
  MayDisplace = FALSE
SPECIFICATION Spec
INVARIANTS
  InvokedAtMostOnce
  CellsExclusive
PROPERTIES
  WakeNotLost
  CancelReleases
  ImplementsHandoff

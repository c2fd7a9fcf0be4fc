CONSTANTS
  Producer = {t1}
  Event = {e}
  Poll = {p1}
  Capacity = 2
  MaxBatch = 1
  Owned = FALSE
  Hosts = {"swift"}
SPECIFICATION SSpec
CHECK_DEADLOCK FALSE
INVARIANTS
  NoUseAfterFree

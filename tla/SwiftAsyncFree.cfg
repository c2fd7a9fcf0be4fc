CONSTANTS
  Poll = {p1, p2}
  MaxSpurious = 1
SPECIFICATION SSpec
CHECK_DEADLOCK FALSE
INVARIANTS
  NoUseAfterFree

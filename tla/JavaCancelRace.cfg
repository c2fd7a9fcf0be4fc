CONSTANTS
  Poll = {p1, p2}
  MaxSpurious = 0
  Canceller = {c1}
SPECIFICATION JSpec
CHECK_DEADLOCK FALSE
PROPERTIES
  JavaCallEnds

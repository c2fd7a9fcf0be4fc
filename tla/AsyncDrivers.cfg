CONSTANTS
  Poll = {p1, p2, p3}
  NoPoll = NoPoll
  NoTask = NoTask
  NoMessage = NoMessage
  NoFuture = NoFuture
  MaxSpurious = 1
  Canceller = {c1, c2}
  Drivers = {"any", "kotlin", "swift", "java", "csharp", "dart", "python"}
SPECIFICATION DSpec
CHECK_DEADLOCK FALSE
INVARIANTS
  OutcomeSound
  NoSilentWait
  NothingLeftBehind
  ResumedAtMostOnce
  JavaOneOwner
PROPERTIES
  KeepsHandshake
  CallEnds

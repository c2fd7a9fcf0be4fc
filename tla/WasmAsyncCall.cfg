CONSTANTS
  Waiter = {c1, c2}
  NoWaiter = NoCall
  Handle = {h1, h2}
  NoHandle = NoHandle
  MaxId = 2
  MaxRequests = 3
  MaxDepth = 2
  MaxSpurious = 1
SPECIFICATION WSpec
CHECK_DEADLOCK FALSE
INVARIANTS
  RegisteredIsLive
  CancelledAsAsked
  FreedWhenSettled
  AnswersItsOwn
PROPERTIES
  AnswersAreHeard
  CancelEnds

CONSTANTS
  Producer = {t1}
  Event = {e}
  Poll = {p1}
  Capacity = 2
  MaxBatch = 2
  Owned = TRUE
  Hosts = {"any", "swift", "kotlin", "java"}
  Bindings = {"dart", "typescript", "csharp"}
SPECIFICATION HostsSpec
CHECK_DEADLOCK FALSE
INVARIANTS
  HandleIsHeld
  NobodyIsStranded
  CloseIsTold
  AvailableIsThere
  PopsWhatItHolds
PROPERTIES
  EventsAreTaken
  FreesOnce
  StreamEnds

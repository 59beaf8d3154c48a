SPECIFICATION ToolSpec
CONSTANTS
  host = host
  native = native
  e1 = e1
  e2 = e2
  Calls <- AllCalls
  HostCalls <- HostsCalls
  Ids <- EventIds
  NoId = NoId
  NoCall = NoCall
  Capacity = 2
  MaxEvents = 4
  MaxCallbacks = 3
INVARIANTS
  EventsAccounted
  VerdictHonest
  ToolEventsPaired
  CallsAccounted
CHECK_DEADLOCK FALSE
PROPERTIES
  TurnStoppedWithStream
  EndReachesReader

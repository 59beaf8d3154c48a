SPECIFICATION FairSpec
CONSTANTS
  Owner = {o1, o2}
  Client = {c1, c2}
  Request = {r1, r2}
  None = None
  MaxShutdowns = 2
INVARIANTS
  ClientsAccounted
PROPERTIES
  ShutdownEnds
CHECK_DEADLOCK FALSE

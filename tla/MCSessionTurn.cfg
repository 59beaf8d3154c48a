SPECIFICATION FairSpec
CONSTANTS
  Request = {r1, r2}
  None = None
INVARIANTS
  TurnsDoNotMix
  SuccessIsSettled
PROPERTIES
  RequestEnds
CHECK_DEADLOCK FALSE

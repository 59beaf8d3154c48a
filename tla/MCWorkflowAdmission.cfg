SPECIFICATION Spec
CONSTANTS
  a1 = a1
  a2 = a2
  b1 = b1
  sa = sa
  sb = sb
  Caller <- MCCaller
  Session <- MCSession
  SessionOf <- MCSessionOf
  Instance = {i1, i2, i3, i4}
  Limit = 1
  None = None
SYMMETRY Instances
INVARIANTS
  OvershootBounded
CHECK_DEADLOCK FALSE

SPECIFICATION Spec
CONSTANTS
    t1 = t1
    t2 = t2
    t3 = t3
    w1 = w1
    w2 = w2
    Turns = {t1, t2, t3}
    Workers = {w1, w2}
    Worker <- MCWorker
    NONE = NONE
    Streams = {t1}
    MaxUpdates = 2
INVARIANTS
  HistoryIsKept
  StreamIsWellFormed
  SettledBeforeRelease
CHECK_DEADLOCK FALSE
PROPERTIES
  TurnsEnd

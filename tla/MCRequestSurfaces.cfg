SPECIFICATION Spec
CONSTANTS
    a1 = a1
    r1 = r1
    r2 = r2
    c1 = c1
    Apps = {a1}
    Contracted = {a1}
    NONE = NONE
    MaxFlips = 1
    Requests = {r1, r2}
    Calls <- CallsOfOne
    Through <- ThroughMost
    RunTimeout = 1
    LeafTimeout = 2
    MaxTime = 2
INVARIANTS
  HarnessFixed
  AnswersAreTrue
  DelegateInBudget
CHECK_DEADLOCK FALSE

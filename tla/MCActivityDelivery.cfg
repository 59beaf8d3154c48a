SPECIFICATION DeliverySpec
CONSTANTS
  Node = {1, 2, 3}
  Deps <- NoDeps
  Timer = {}
  Policy = {1, 2, 3}
  Continue = {}
  MaxParallelism = 3
  TaskOf <- TwoOfOneTask
  Attempts <- LastOnce
  Deadline = {1}
  NoFailure = NoFailure
  Unnamed = Unnamed
INVARIANTS
  EffectOnce
  RetriesFaithful
CHECK_DEADLOCK FALSE

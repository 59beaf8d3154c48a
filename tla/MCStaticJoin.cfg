SPECIFICATION FairSpec
CONSTANTS
  Node <- JoinNode
  Deps <- JoinDeps
  Timer = {5}
  Policy = {1, 2, 3, 4}
  Continue = {1, 4}
  MaxParallelism = 2
INVARIANTS
  NeverStalls
  TimersSettled
PROPERTIES
  ImplementsWorkflow
CHECK_DEADLOCK FALSE

SPECIFICATION FairSpec
CONSTANTS
  Node <- FanNode
  Deps <- FanDeps
  Source <- FanSource
  ForEach = {2, 3}
  Timer = {1}
  Conditional = {1, 3}
  Policy = {2, 4, 5}
  Continue = {5}
  MaxParallelism = 2
  MaxNodes = 8
  MaxLen = 3
INVARIANTS
  NodeLimit
  NeverStalls
  AggregateAligned
  FailuresSurface
  WaveAccounted
PROPERTIES
  ImplementsWorkflow
  Termination
CHECK_DEADLOCK FALSE

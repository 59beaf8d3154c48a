SPECIFICATION Spec
CONSTANTS
    MaxNodes = 4
    NONE = NONE
    Plans <- MCPlans
    Deployments <- MCDeployments
INVARIANTS
  VerdictIsExact
  RecheckAgrees
  ReplayIsDeterministic
CHECK_DEADLOCK FALSE

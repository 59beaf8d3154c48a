SPECIFICATION FilesSpec
CONSTANTS
  Paths <- ShortPaths
  Workspace <- SecondName
  MaxCalls = 4
  MaxTurns = 2
INVARIANTS
  NothingLost
  TreeWellFormed
  PersistedStateIsExact
CHECK_DEADLOCK FALSE

SPECIFICATION CompositionSpec
CONSTANTS
  ToolDirs <- Tools
  AgentDirs <- Agents
  Settings <- SomeSettings
  DelegateTool <- Delegate
  ManagementTools <- Management
  Unread = Unread
  NoTool = NoTool
  Raises = Raises
  NoApp = NoApp
  SandboxTool = "fhs_execute_python"
  WebTool = "web_request"
  ReservedSkill = "data-driven-workflows"
  MaxEdits = 1
  MaxCompositions = 2
INVARIANTS
  GrantsResolve
  RuntimeNamesAreUnique
  OneInventoryPerProcess
CHECK_DEADLOCK FALSE

SPECIFICATION Spec
CONSTANTS
  Tags = {"2025.1", "2025.2"}
  NoTag = ""
  Patches = {"", "p1"}
  Parse <- MCParse
  Level <- MCLevel
  Replicas = 1
  MaxEdits = 1
  MaxCrashes = 0
  JobsMayFail = FALSE
INVARIANT ContractAfterRollout

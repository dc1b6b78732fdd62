SPECIFICATION Spec
CONSTANTS
  Namespaces = {"n"}
  Accounts = {"a"}
  Placements <- MCPlacements
  MaxTrouble = 2
CHECK_DEADLOCK FALSE
INVARIANT NothingStranded

SPECIFICATION Spec
CONSTANTS
  Namespaces = {"n"}
  Accounts = {"a"}
  Placements <- MCPlacements
  MaxTrouble = 2
INVARIANTS Accounted OrderlyIsClean
PROPERTIES StoreOutlivesChild ForeignKept DeletionEnds
CHECK_DEADLOCK FALSE

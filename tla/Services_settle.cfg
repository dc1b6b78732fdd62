SPECIFICATION MCSpec
CONSTANTS
  Drafts <- MCDrafts
  Blocks <- MCBlocks
  Classes = {"high"}
  MaxPods = 3
  MaxEdits = 4
INVARIANTS AdmittedBuilds StoredReadmits
PROPERTIES ServiceSettles
CHECK_DEADLOCK FALSE

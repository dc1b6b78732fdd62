SPECIFICATION RestingSpec
CONSTANTS
  Backends = {"b1", "b2"}
  Drafts <- Settle
  Issuers = {"i1", "i2", "e1"}
  Basename <- Escaped
  Folded <- FoldedNames
  First <- ByName
  MaxTrouble = 1
INVARIANTS ProjectionSound
PROPERTIES FaultIsolated FederationSettles
CHECK_DEADLOCK FALSE

SPECIFICATION ForeignSpec
CONSTANTS
  Backends = {"b1", "b2"}
  Domains = {"d1"}
  DomainOf <- OneDomain
  Managed = {"b1"}
  Delete = {"b1", "b2"}
  Broken = {}
  Workers = 1
  MaxEdits = 1
  MaxAdmin = 2
  MaxCrashes = 1
INVARIANT ForeignUntouched
CHECK_DEADLOCK FALSE

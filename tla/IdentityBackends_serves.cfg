SPECIFICATION SolitarySpec
CONSTANTS
  Backends = {"b1", "b2"}
  Domains = {"d1", "d2"}
  DomainOf <- OwnDomain
  Managed = {"b1"}
  Delete = {"b1", "b2"}
  Broken = {}
  Workers = 1
  MaxEdits = 0
  MaxAdmin = 0
  MaxCrashes = 1
INVARIANT ConfigHasDomain
PROPERTIES BackendServes ConfigSettles TeardownEnds
CHECK_DEADLOCK FALSE

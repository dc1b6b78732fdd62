SPECIFICATION MCSpec
CONSTANTS
  Backends = {"s1", "s2"}
  First = "s1"
  Releases = {1, 2}
  Confs = {"c1"}
  NoConf = "none"
  Exposed = TRUE
  Policed = TRUE
  Retain = 3
  MaxChanges = 2
  MaxFaults = 1
INVARIANTS EnabledHaveSections WorkloadIsMigrated ReadyIsConverged
PROPERTIES BackendsConverge TeardownEnds
CHECK_DEADLOCK FALSE

SPECIFICATION OldestFirst
CONSTANTS
  Tags = {"2025.1", "2025.1-p1", "2025.2", "2026.1", "latest"}
  NoTag = ""
  Patches = {"", "p1"}
  Parse <- MCParse
  Level <- MCLevel
  Replicas = 1
  MaxEdits = 2
  MaxCrashes = 1
  JobsMayFail = FALSE
CONSTRAINT FewDisturbances
INVARIANTS TypeOK PodsHaveSchema MigrationsInOrder InstalledIsMigrated
           PhaseJobsBelong
PROPERTIES NoReleaseSkipped PhasesAdvance

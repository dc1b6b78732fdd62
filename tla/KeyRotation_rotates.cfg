SPECIFICATION FirstLeads
CONSTANTS
  Operators = {"o1", "o2"}
  MaxActive = 3
  Repositories <- MCRepositories
INVARIANTS TokensValidEverywhere CredentialsReadable
PROPERTIES NothingLost CommitsInOrder StagingRecovers

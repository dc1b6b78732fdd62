SPECIFICATION Spec
CONSTANTS
  CPs <- MCCPs
  Drafts <- MCDrafts
  Edits <- MCEdits
  Places <- MCPlaces
  Strangers = {}
  StrangerSpec <- MCStrangerSpec
  Earlier <- MCEarlier
  Labels = {"a", "b", "n", "image"}
  Hosts = {"ks", "hz", "elsewhere"}
  LongNames = {}
  CommaNames = {}
  MaxCreates = 2
  MaxChanges = 2
INVARIANTS OnlyRacesCollide OnlyEndpointRejected
PROPERTIES KeysKept PlaneSettles
CHECK_DEADLOCK FALSE

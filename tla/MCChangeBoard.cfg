SPECIFICATION BoardSpec
CONSTANTS
  Flows = {"sdd", "docs"}
  Unnamed = "none"
  Written <- MCWritten
  Registries <- MCRegistries
  PageSize = 1
  MaxRows = 3
INVARIANTS BoardTypeOK ViewsAgree NothingMissed
PROPERTY FinishingNeverTakesBack

SPECIFICATION FairSpec
CONSTANTS
  Procs = {p1, p2, p3}
  Newest = 4
  Baseline = 2
  Needs <- MCNeeds
  MaxCrashes = 2
INVARIANTS
  TypeOK
  NoFileExecutedTwice
  TrackedIsApplied
  EndedMeansNewest
PROPERTIES
  AllOrNothing
  EveryProcessComesUp

SPECIFICATION FairSpec
CONSTANTS
  Procs = {p1, p2}
  SDD = sdd
  websec = websec
  lean = lean
  rich = rich
  audit = audit
  pentest = pentest
  twice = twice
  dangling = dangling
  nameless = nameless
  Seed = Seed
  None = None
  Flows <- MCFlows
  SDDKinds <- MCSDDKinds
  Payload <- MCPayload
  Collation <- SameOrder
INVARIANTS
  TypeOK
  KindsFollowManifest
PROPERTIES
  KeepsContract
  EveryCallEnds

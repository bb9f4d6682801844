SPECIFICATION Validation
CONSTANTS
  SDD = sdd
  websec = websec
  strict = strict
  keyed = keyed
  own = own
  Seed = Seed
  None = None
  Flows <- MCFlows
  SDDKinds <- MCSDDKinds
  Payload <- MCPayload
  Collation <- SameOrder
  Procs = {p1}
  RulesOf <- MCRulesOf
  SpecKind = 1
  TaskKind = 2
  SpecHeadings = {"Purpose", "Requirements"}
  TaskHeadings = {"Goal", "Criteria"}
  Reason = "reason"
  Artifacts <- MCArtifacts
  MaxTests = 1
INVARIANT VerdictFitsAMoment

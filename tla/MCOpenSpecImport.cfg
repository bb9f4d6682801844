SPECIFICATION Spec
CONSTANTS
  Importers = {k1, k2}
  Changes <- MCChanges
  GlobalSpecs <- MCGlobalSpecs
  UserNames <- MCUserNames
  delta = delta
  main = main
  NoChange = NoChange
  NoFile = NoFile
  MaxArtifacts = 6
  MaxImports = 2
  MaxEvents = 2
CHECK_DEADLOCK FALSE
SYMMETRY Symmetry
INVARIANTS TypeOK ImportIsComplete
PROPERTY NothingTakenOver

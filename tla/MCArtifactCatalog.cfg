CONSTANTS
  Clients = {c1, c2}
  Slugs = {shop, bank}
  Names = {n1, n2}
  MaxProjects = 2
  MaxArtifacts = 2
  MaxRequests = 3
  Operations <- Everything
  NoName = NoName
SPECIFICATION Spec
CHECK_DEADLOCK FALSE
SYMMETRY Symmetry
INVARIANTS
  TypeOK
  CatalogIsSound
  RequestStaysInProject

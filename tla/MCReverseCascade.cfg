SPECIFICATION Spec
CONSTANTS
  Ids <- MCIds
  Values <- MCValues
  Archive <- MCArchive
  BoundaryContext <- MCBoundaryContext
  Queries <- MCQueries
  None = None
  Blank = Blank
INVARIANTS
  FieldsComeFirst
  EvidenceExact
  BestMatchNamed
CHECK_DEADLOCK FALSE

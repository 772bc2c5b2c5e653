SPECIFICATION Spec
CONSTANTS
  RecordIds = {0, 1, 2}
  Parents = {"country", "place"}
  Tuples <- MCTuples
  Postcodes <- MCPostcodes
  MissingId = 3
  AddLimit = 3
  None = None
  Error = Error
INVARIANTS
  FinishedOpens
PROPERTY
  ImplementsTable
CHECK_DEADLOCK FALSE

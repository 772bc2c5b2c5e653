SPECIFICATION FairSearchSpec
CONSTANTS
  Queries = {"q1", "q2"}
  MaxRuns = 3
  None = None
INVARIANTS
  ListAnswersLastQuery
PROPERTIES
  SpinnerStops
CHECK_DEADLOCK FALSE

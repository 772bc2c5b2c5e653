SPECIFICATION FairReverseSpec
CONSTANTS
  MaxClicks = 4
  None = None
INVARIANTS
  LastClickDecides
PROPERTIES
  LastClickSettles
CHECK_DEADLOCK FALSE

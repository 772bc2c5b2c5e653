SPECIFICATION Spec
CONSTANTS
  Kinds <- MCKinds
  Interned <- MCInterned
  Width <- MCWidth
  Records <- MCRecords
  OffsetLimit = 4
  LengthLimit = 2
  MaxRows = 3
  NoLine = NoLine
INVARIANTS
  DecodedIsWritten
  FinishedArchiveDecodes
CHECK_DEADLOCK FALSE

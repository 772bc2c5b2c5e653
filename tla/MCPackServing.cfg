SPECIFICATION Spec
CONSTANTS
  MaxBuilds = 3
  Segments <- MCSegments
  Absent = Absent
  Nothing = Nothing
INVARIANTS
  MappedFilesKeep
  ReadyServesOnePack
  HitsNameTheirRecord

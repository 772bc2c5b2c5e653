SPECIFICATION Spec
CONSTANTS
  AdminLayers <- MCAdminLayers
  LeafLayers <- MCLeafLayers
  BatchSize = 2
  MaxRecords = 3
  MaxRejections = 2
  MaxBuilds = 2
  NoId = NoId
  Missing = Missing
  NoPack = NoPack
INVARIANTS
  HitsNameTheirRecord
  ContextNamesEarlierParents
  RejectionRowsReadable
PROPERTIES
  ImmutableOncePublished
  ImplementsLog
CHECK_DEADLOCK FALSE

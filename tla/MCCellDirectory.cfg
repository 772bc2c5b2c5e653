SPECIFICATION Spec
CONSTANTS
  Cells = {0, 1, 2, 3}
  Layers = {"address", "place", "street"}
  ContextLayers = {"place"}
  Inputs <- MCInputs
  ChunkSize = 2
  IdLimit = 2
  PairLimit = 5
  Disks <- MCDisks
  Limits = {0, 1, 2}
  Distances = {1, 2, 3}
  Radius = 2
INVARIANTS
  DirectoryExact
  NearestMatches
PROPERTY
  LoopsEnd
CHECK_DEADLOCK FALSE

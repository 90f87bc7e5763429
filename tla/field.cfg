SPECIFICATION Spec
CONSTANTS
  Players = {1, 2}
  W = 9
  H = 8
  NoQueen = NoQueen
  Bubble <- TwoSizes
  MinEdge = 1
  FarEdge = 3
  Bucket = 4
  Share <- TwoThirds
  GuardReach = 3
  DedupEvery = 2
  SortEvery = 2
  GuardEvery = 1
  Bought <- OneBought
  Clear = 1
  Grad = 2
  Pad = 2
  Unit = 5
  Diagonal = 7
  Views <- OneView
  QueenSpots <- QueenPlaces
  MoveSpots <- Moves
  AntSpots <- AntPlaces
  Headings <- TwoHeadings
  MaxOps = 2
  MaxTicks = 3
INVARIANTS
  TypeOK
  FogExact
PROPERTIES
  StepsOffBodies
  ConvertedWhereMet
  CaughtLeave
  GuardsOutside
  TouchingResolved
CHECK_DEADLOCK FALSE

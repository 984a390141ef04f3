SPECIFICATION Spec
CONSTANTS
  NULL = NULL
  NoTour = NULL
  City <- SimpleCities
  Distance <- SimpleDistance
  Structure <- MCStructure
  Tuple <- SearchTuples
  Modelling <- MCModelling
  Obj <- ObjValue
  ValidMoves <- getValidMoves
  Neighbor <- SearchNeighbor
  Delta <- SearchDelta
  NextCost <- SearchNextCost
  HasDelta <- SearchHasDelta
  ByTheory <- SearchByTheory
  Timeout = 1
INVARIANT
  ResultIsBest
CHECK_DEADLOCK FALSE

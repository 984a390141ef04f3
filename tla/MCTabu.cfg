SPECIFICATION FairSpec
CONSTANTS
  NULL = NULL
  NoModel = NULL
  Structures <- MCStructure
  MoveTuples <- MCTuple
  Structure <- MCStructure
  Tuple <- MCTuple
  Modelling <- MCModelling
  Obj <- Objective
  ValidMoves <- LandscapeMoves
  Neighbor <- LandscapeNeighbor
  Delta <- LandscapeDelta
  NextCost <- LandscapeNextCost
  HasDelta <- LandscapeHasDelta
  ByTheory <- LandscapeByTheory
  Timeout = 0
  TabuTenures <- MCTenures
INVARIANTS
  TypeOK
  NoMoveTwice
PROPERTIES
  KeepsContract
  ReturnsBestFreeMove
  Termination
CHECK_DEADLOCK FALSE

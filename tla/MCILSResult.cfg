SPECIFICATION Spec
CONSTANTS
  NULL = NULL
  Structure <- MCStructure
  Tuple <- MCTuple
  Modelling <- MCModelling
  EntryLists <- MCEntryLists
  Returned <- MCReturned
  Obj <- Objective
  ValidMoves <- NoMoves
  Neighbor <- NoService
  Delta <- NoService
  NextCost <- NoService
  HasDelta <- Has
  ByTheory <- HasNot
  Timeout = 0
INVARIANT
  ReturnsAStructure
CHECK_DEADLOCK FALSE

SPECIFICATION FairSpec
CONSTANTS
  NULL = NULL
  Structure <- MCStructure
  Tuple <- MCTuple
  Modelling <- MCModelling
  EntryLists <- MCEntryLists
  Returned <- MCReturned
  Obj <- Objective
  ValidMoves <- NoMoves
  Neighbor <- NoService
  Delta <- NoService
  NextCost <- NoService
  HasDelta <- Has
  ByTheory <- HasNot
  Timeout = 1
INVARIANTS
  TypeOK
  StopsWhereNoEntryHelps
PROPERTIES
  KeepsContractButForNull
  Termination
CHECK_DEADLOCK FALSE

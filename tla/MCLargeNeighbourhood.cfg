SPECIFICATION FairSpec
CONSTANTS
  NULL = NULL
  Structure <- MCStructure
  Tuple <- MCTuple
  Modelling <- MCModelling
  Obj <- MCObj
  ValidMoves <- MCValidMoves
  Neighbor <- MCNeighbor
  Delta <- MCDelta
  NextCost <- MCDelta
  HasDelta <- MCHas
  ByTheory <- MCHas
  HasDomain <- MCHasDomain
  Regrown <- MCRegrown
  RegrownAtRandom <- MCRegrownAtRandom
  MinDisturbSize = 1
  MaxDisturbSize = 3
  MaxItersNoImprove = 2
  MXTIMEOUT = 5
  MaxInt = 32767
  Timeout = 0
INVARIANTS
  TypeOK
  DrawsFromDomain
  GivesUpOnlyWhenStuck
PROPERTIES
  KeepsContract
  Termination
CHECK_DEADLOCK FALSE

SPECIFICATION Walk
CONSTANTS
  City <- MCCity
  Distance <- MCDistance
INVARIANTS
  MovesKeepTours
  DeltaIsExact
  TwoOptIsComplete
CHECK_DEADLOCK FALSE

SPECIFICATION FairSpec
CONSTANTS
  MaxModels = 2
  MaxCalls = 2
  MaxRequests = 2
INVARIANTS
  TypeOK
  UnsatIsJustified
  OptimumIsOptimal
  ModelsAreReturned
  RequestLeavesItsMark
PROPERTY
  EveryCallEnds
CHECK_DEADLOCK FALSE

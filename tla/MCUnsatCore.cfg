SPECIFICATION FairSpec
CONSTANTS
  AssumeTrue = {a1, a2}
  AssumeFalse = {b1, b2}
  MaxRequests = 2
  MaxLimits = 1
INVARIANTS
  TypeOK
  UndisturbedCoreIsMinimal
  AtMostOneOfEachKindIsMissing
PROPERTY
  Terminates
CHECK_DEADLOCK FALSE

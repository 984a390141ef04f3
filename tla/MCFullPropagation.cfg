SPECIFICATION Spec
CONSTANTS
  Atoms = {p, q}
  NULL = NULL
  FullProp = {"assumptions", "intersection", "enumeration"}
  MaxRequests = 2
INVARIANTS
  TypeOK
  AnswerIsExact
CHECK_DEADLOCK FALSE

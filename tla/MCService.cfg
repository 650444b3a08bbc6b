CONSTANTS
  Requests <- AllCalls
  Suites = 2
  DefaultTimeout = 5
  Grace = 2
  TimeoutCap = 3
  OracleCap = 2
  ReactionCap = 1
  Ceiling = 3
  Unit = 4
  HalfWord = 16
  LookupMax = 2
SPECIFICATION Spec
INVARIANTS
  TypeOK
  EndsInTime
  CbcOverrunIsBounded
PROPERTIES
  Answered

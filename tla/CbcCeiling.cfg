CONSTANTS
  Requests <- PatientCall
  Suites = 1
  DefaultTimeout = 30
  Grace = 10
  TimeoutCap = 8
  OracleCap = 6
  ReactionCap = 3
  Ceiling = 24
  Unit = 1
  HalfWord = 64
  LookupMax = 0
SPECIFICATION Spec
INVARIANT CeilingKeepsTheBudget

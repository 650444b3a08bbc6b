CONSTANTS
  Servers <- AllServers
  Timeout = 2
  MaxBuf = 20
SPECIFICATION Spec
INVARIANTS
  TypeOK
  TranscriptAgrees
  FindsTheSession
  RobotReadsTheKey
  EndsInTime
PROPERTIES
  ImplementsContract

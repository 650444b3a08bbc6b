CONSTANTS
  Servers <- AllServers
  OptTimeout = 3
  TimeoutCap = 2
  MaxLen = 14
SPECIFICATION Spec
INVARIANTS
  TypeOK
  NoFalseClaim
  FindsTheFlaw
  EndsInTime
PROPERTIES
  Termination

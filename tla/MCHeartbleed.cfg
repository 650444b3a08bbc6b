CONSTANTS
  Servers <- AllServers
  Timeout = 2
  ReadMax = 3
SPECIFICATION Spec
INVARIANTS
  TypeOK
  AlignedClaimIsGenuine
  FindsTheLeak
  EndsInTime
PROPERTIES
  Termination

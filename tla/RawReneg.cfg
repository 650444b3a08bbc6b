CONSTANTS
  Servers <- BadServers
  OptTimeout = 3
  TimeoutCap = 2
  MaxLen = 14
SPECIFICATION Spec
INVARIANT AmbiguityIsNotClaimed

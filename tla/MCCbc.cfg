CONSTANTS
  Servers <- AllServers
  HostLens <- AllLens
  Reps = 2
  MaxNoise = 2
SPECIFICATION Spec
INVARIANTS
  TypeOK
  NoClaimWithoutDifference
  FindsTheDifference
PROPERTY ImplementsContract

CONSTANTS
  Servers <- HardenedServers
  HostLens <- AllLens
  Reps = 2
  MaxNoise = 0
SPECIFICATION Spec
INVARIANT HardenedIsClean

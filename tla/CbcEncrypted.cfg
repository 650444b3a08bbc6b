CONSTANTS
  Servers <- AlertingServers
  HostLens <- UsualLens
  Reps = 2
  MaxNoise = 0
SPECIFICATION Spec
INVARIANT RecordTypesTellApart

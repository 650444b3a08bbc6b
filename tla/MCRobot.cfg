CONSTANTS
  k1 = k1
  k2 = k2
  Keys <- TwoKeys
  NoKey = NoKey
  NoConn = NoConn
  Pools <- AllPools
  Reps = 2
  MaxNoise = 2
SPECIFICATION Spec
INVARIANTS
  TypeOK
  NoFalsePositive
  FindsTheOracle
PROPERTY ImplementsContract

CONSTANTS
  Catalog <- SmallCatalog
  Pools <- WeakPools
  MaxFaults = 0
  NoConn = NoConn
SPECIFICATION Spec
INVARIANT CriticalFlawMeansF

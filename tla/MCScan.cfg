CONSTANTS
  Catalog <- SmallCatalog
  Pools <- SoundPools
  MaxFaults = 2
  NoConn = NoConn
SPECIFICATION Spec
INVARIANTS
  TypeOK
  EvidenceIsGenuine
  FallbackClaimIsSound
  
  NoCertificateIsReported
  APlusIsEarned
PROPERTIES
  ExpiryFreezesEvidence
  Termination

SPECIFICATION EngineSpec
CONSTANTS
  alice = alice
  bob = bob
  k1 = k1
  k2 = k2
  DIDs <- MCDIDs
  Keys <- MCKeys
  NoKey = NoKey
  BadText = BadText
  Garbage = Garbage
  MAX_PENDING_CANDIDATES = 2
  FreshEntropy = TRUE
  RepeatedValues = {}
  MaxDraws = 7
INVARIANTS
  EngineTypeOK
  QueueConsistent
  InjectiveAgreement
  RecentBeginsSurvive
PROPERTIES
  ImplementsAuthority

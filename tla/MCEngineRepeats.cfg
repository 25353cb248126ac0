SPECIFICATION EngineSpec
CONSTANTS
  alice = alice
  bob = bob
  k1 = k1
  k2 = k2
  DIDs = {alice}
  Keys = {k1}
  NoKey = NoKey
  BadText = BadText
  Garbage = Garbage
  MAX_PENDING_CANDIDATES = 2
  FreshEntropy = FALSE
  RepeatedValues = {1, 2, 3, 4}
  MaxDraws = 10
INVARIANTS
  PendingBounded
  PendingIsQueued
VIEW RegistryOnly

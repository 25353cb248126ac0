SPECIFICATION FairSpec
CONSTANTS
  CallbackIds = {7}
  MAX_INTERLEAVED_CALLBACKS = 0
  MaxRequests = 2
  MaxInbox = 1
  DIDs = {alice, bob}
  Keys = {k1, k2}
  NoKey = NoKey
  BadText = BadText
  Garbage = Garbage
  MAX_PENDING_CANDIDATES = 2
  FreshEntropy = TRUE
  RepeatedValues = {}
  MaxDraws = 4
INVARIANTS
  HalvesAgree
  RefusalHasCause
PROPERTIES
  AppCallsReturn

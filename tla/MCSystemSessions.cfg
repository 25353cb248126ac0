SPECIFICATION Spec
CONSTANTS
  CallbackIds = {7}
  MAX_INTERLEAVED_CALLBACKS = 0
  MaxRequests = 4
  MaxInbox = 1
  DIDs = {alice}
  Keys = {k1}
  NoKey = NoKey
  BadText = BadText
  Garbage = Garbage
  MAX_PENDING_CANDIDATES = 2
  FreshEntropy = TRUE
  RepeatedValues = {}
  MaxDraws = 8
INVARIANTS
  TypeOK
  HalvesAgree
  ListedIsLive
  OrphanHasCause
  RefusalHasCause
PROPERTIES
  AllowedPeer

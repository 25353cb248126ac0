SPECIFICATION FairSpec
CONSTANTS
  CallbackIds = {7}
  MAX_INTERLEAVED_CALLBACKS = 1
  MaxRequests = 2
  MaxInbox = 1
  DIDs = {alice}
  Keys = {k1}
  NoKey = NoKey
  BadText = BadText
  Garbage = Garbage
  MAX_PENDING_CANDIDATES = 1
  FreshEntropy = TRUE
  RepeatedValues = {}
  MaxDraws = 6
PROPERTIES
  ClosedSessionsEnd

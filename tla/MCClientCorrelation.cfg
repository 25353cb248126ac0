SPECIFICATION ClientSpec
CONSTANTS
  CallbackIds = {7}
  MAX_INTERLEAVED_CALLBACKS = 0
  MaxRequests = 4
  MaxInbox = 2
INVARIANTS
  OwnAnswers
  MismatchIsStale

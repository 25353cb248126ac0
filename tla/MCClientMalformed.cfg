SPECIFICATION ClientSpec
CONSTANTS
  CallbackIds = {7}
  MAX_INTERLEAVED_CALLBACKS = 1
  MaxRequests = 2
  MaxInbox = 1
INVARIANTS
  MalformedCallbackIsAnswered

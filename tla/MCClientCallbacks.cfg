SPECIFICATION FairClientSpec
CONSTANTS
  CallbackIds = {7, 8}
  MAX_INTERLEAVED_CALLBACKS = 2
  MaxRequests = 2
  MaxInbox = 1
INVARIANTS
  ClientTypeOK
  Custody
  CallbacksAnswered
  FloodLimit
  AuditIsTruthful
PROPERTIES
  CallsReturn

SPECIFICATION Spec
CONSTANTS
  Frames <- Fitting
  MAX_FRAME_BYTES = 4
  Faults = {"truncate"}
  MaxSent = 2
PROPERTIES
  ClosedChannelIsEof

SPECIFICATION FairSpec
CONSTANTS
  Frames <- Fitting
  MAX_FRAME_BYTES = 4
  Faults = {}
  MaxSent = 3
PROPERTIES
  KeepsContract
  FramesAreDelivered

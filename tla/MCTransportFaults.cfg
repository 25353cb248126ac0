SPECIFICATION Spec
CONSTANTS
  Frames <- Any
  MAX_FRAME_BYTES = 4
  Faults = {"truncate", "write_error", "read_error"}
  MaxSent = 3
INVARIANTS
  TypeOK
  UndamagedFramesArrive
  NotGlued

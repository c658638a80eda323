SPECIFICATION Spec
CONSTANTS
  TP = 128
  MAX_OUT = 1
  MAX_FS = 1
  MAX_TILES = 2
INVARIANTS
  LoopsDecode
CHECK_DEADLOCK FALSE

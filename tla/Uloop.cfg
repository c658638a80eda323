SPECIFICATION Spec
CONSTANTS
  TP = 128
  MAX_OUT = 3
  MAX_FS = 3
  MAX_TILES = 3
INVARIANTS
  TypeOK
  NoErrors
  EveryPointShown
  CodeDecodes
PROPERTIES
  ImplementsNest
  Terminates
CHECK_DEADLOCK FALSE

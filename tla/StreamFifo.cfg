SPECIFICATION Spec
CONSTANTS
  FIFO_DEPTH = 4
  POINTER_MOD = 4
  Word = {z, a, b}
  ZERO = z
INVARIANTS
  TypeOK
  OccupancyOK
PROPERTY
  QueueSpec

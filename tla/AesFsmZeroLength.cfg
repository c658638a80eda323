SPECIFICATION Spec
CONSTANTS
  Lengths = {0, 4}
  SIZE_MOD = 128
  BLOCK_MOD = 8
  FIFO_DEPTH = 2
  STORE_DEPTH = 4
  ZERO = ZERO
  NoBlock = NoBlock
PROPERTY
  NoSizeOverflow

SPECIFICATION FairSpec
CONSTANTS
  Lengths = {1, 4, 12, 16, 17, 35, 64}
  SIZE_MOD = 128
  BLOCK_MOD = 4
  FIFO_DEPTH = 2
  STORE_DEPTH = 4
  ZERO = ZERO
  NoBlock = NoBlock
INVARIANTS
  TypeOK
  OutputRight
  OutputAccepted
  StartSeen
PROPERTIES
  ReadsInput
  JobEnds

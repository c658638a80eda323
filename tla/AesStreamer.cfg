SPECIFICATION FairSpec
CONSTANTS
  Position = {0, 1, 2}
  FIFO_DEPTH = 2
  TCDM_DEPTH = 4
  MAX_LATENCY = 2
  CLEAR_CYCLES = 3
  ZERO = ZERO
INVARIANTS
  TypeOK
  InputRight
  StoresRight
PROPERTIES
  HandshakeSpec
  TransfersEnd

SPECIFICATION Spec
CONSTANTS
  sbox <- Sbox
  inv_sbox <- InvSbox
  Keys <- TestKeys
  Blocks <- TestBlocks
INVARIANTS
  TypeOK
  FollowsFips
  KeyVectorsMatch
  NistVectorsMatch
  Rcon128Agrees
  DecipherRetraces
CHECK_DEADLOCK FALSE

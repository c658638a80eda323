SPECIFICATION Spec
CONSTANTS
  N_CONTEXT = 2
  Core = {c0}
  Reg = {r0}
  Value = {z, a}
  ZERO = z
  ID_MOD = 2
INVARIANTS
  TypeOK
  ContextRing
PROPERTY
  SoftClearEnds

SPECIFICATION OffloadSpec
CONSTANTS
  N_CONTEXT = 2
  Core = {c0}
  Reg = {r0, r1}
  Value = {z, a}
  ZERO = z
  ID_MOD = 4
  NoJob = NoJob
  PROGRAM_FIRST = TRUE
  SLEEP = FALSE
PROPERTY
  JobQueueSpec

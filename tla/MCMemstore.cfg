CONSTANTS
  Threads = {t1, t2}
  ContainerIds = {c1}
  Values = {v1, v2}
  ValueLen <- MCValueLen
  EntryLen = 2
  MAX_SLOT = 1
  MaxGen = 2
  MaxRestarts = 1
SYMMETRY ThreadSymmetry
INIT Init
NEXT Next
INVARIANTS TypeOK ValueIdStable IterComplete
PROPERTY LastInsertGrows
CHECK_DEADLOCK FALSE

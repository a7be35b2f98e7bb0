CONSTANTS
  v1 = v1
  v2 = v2
  NoFile = NoFile
  File = {v1, v2}
  N = 3
  ResumeMin = 1
  BlockRetries = 2
  EndRetries = 2
  AddrRetries = 2
  MaxTasks = 2
  Worlds <- CalmWorlds
SPECIFICATION Spec
CHECK_DEADLOCK FALSE
INVARIANTS QueryGoesOn

SPECIFICATION FairSpec
CONSTANTS
  Units = {u1, u2}
  MaxEntities = 2
  Parallel = 2
  MaxSubprocesses = 2
  UseSemaphores = TRUE
  KeepGoing = FALSE
  ProverOnPath = FALSE
  MaxKills = 0
PROPERTIES
  Terminates
CHECK_DEADLOCK FALSE

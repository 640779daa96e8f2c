SPECIFICATION FairSpec
CONSTANTS
  Units = {u1, u2, u3}
  MaxEntities = 1
  Parallel = 2
  MaxSubprocesses = 1
  UseSemaphores = TRUE
  KeepGoing = FALSE
  ProverOnPath = TRUE
  MaxKills = 1
PROPERTIES
  Terminates
  WaitersAreServed

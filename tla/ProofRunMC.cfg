SPECIFICATION Spec
CONSTANTS
  Units = {u1, u2}
  MaxEntities = 2
  Parallel = 2
  MaxSubprocesses = 2
  UseSemaphores = TRUE
  KeepGoing = TRUE
  ProverOnPath = TRUE
  MaxKills = 1
SYMMETRY UnitSymmetry
INVARIANTS
  TypeOK
  SlotConservation
  ProversBounded
  MapMatchesChildren
  ProofIsComplete
  SemaphoreOutlivesWrappers
  SuccessIsClean
  LeaksAreKills

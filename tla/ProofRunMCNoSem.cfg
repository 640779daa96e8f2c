SPECIFICATION Spec
CONSTANTS
  Units = {u1, u2, u3}
  MaxEntities = 2
  Parallel = 2
  MaxSubprocesses = 2
  UseSemaphores = FALSE
  KeepGoing = TRUE
  ProverOnPath = TRUE
  MaxKills = 0
SYMMETRY UnitSymmetry
INVARIANTS
  ProversBounded
  MapMatchesChildren
  ProofIsComplete
  SuccessIsClean

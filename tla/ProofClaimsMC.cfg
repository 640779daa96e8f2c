SPECIFICATION Spec
CONSTANTS
  Entities = {e1, e2}
  Claimable = {e1, e2}
  None = None
  Kinds = {"check", "warning", "loop", "static"}
  MaxSubprocesses = 1
  MaxVCs = 3
SYMMETRY ClaimableSymmetry
INVARIANTS
  TypeOK
  TableIsUnproved
  DeletesOnce
  ProverClaimsAreProved
  ClaimsAreComplete
CHECK_DEADLOCK FALSE

SPECIFICATION Spec
CONSTANTS
  Entities = {e1}
  Claimable = {e1}
  None = None
  Kinds = {"check", "static"}
  MaxSubprocesses = 1
  MaxVCs = 2
SYMMETRY ClaimableSymmetry
INVARIANTS
  ClaimsAreProved
CHECK_DEADLOCK FALSE

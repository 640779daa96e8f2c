---------------------------- MODULE ProofClaimsMC ----------------------------
(***************************************************************************)
(* Instances of ProofClaims for TLC.  Entities that are Claimable are      *)
(* interchangeable, so the invariants are checked up to a permutation of   *)
(* them.                                                                   *)
(***************************************************************************)
EXTENDS ProofClaims, TLC

ClaimableSymmetry == Permutations(Claimable)
=============================================================================

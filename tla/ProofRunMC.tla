----------------------------- MODULE ProofRunMC -----------------------------
(***************************************************************************)
(* Instances of ProofRun for TLC.  Compilation units are interchangeable,  *)
(* so safety is checked up to a permutation of them.                       *)
(***************************************************************************)
EXTENDS ProofRun, TLC

UnitSymmetry == Permutations(Units)
=============================================================================

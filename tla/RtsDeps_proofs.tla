----------------------------- MODULE RtsDeps_proofs -----------------------------
(***************************************************************************)
(* What the loop of check_deps guarantees when it ends, for every table of *)
(* conditions and every set of values it may start from.                   *)
(***************************************************************************)
EXTENDS RtsDeps, TLAPS

(* The loop is over, after a start. *)
Ended == checked /\ pos > 0

(* Every directory whose condition holds of the values has its             *)
(* requirement met by them.                                                *)
AllMet == MetFrom(1, Len(Rules))

(* What a pass that has changed nothing has seen is met; this holds again  *)
(* of all directories when the loop is left.                               *)
IInv ==
  /\ pos \in Nat
  /\ ~modified /\ ~checked => MetFrom(1, pos - 1)
  /\ checked /\ pos > 0 => AllMet

(* A pass that changes nothing extends what it has seen. *)
LEMMA Extend ==
  ASSUME NEW p \in Nat, NEW l \in Nat, MetFrom(1, p - 1), MetFrom(p, l)
  PROVE  MetFrom(1, l)
BY DEF MetFrom

LEMMA StepKeepsIInv ==
  ASSUME Len(Rules) \in Nat, IInv, [DepsNext]_depVars
  PROVE  IInv'
<1>1. CASE UNCHANGED depVars
  BY <1>1 DEF IInv, AllMet, MetFrom, Met, Satisfied, depVars
<1>2. ASSUME NEW start \in Starts, Begin(start)
      PROVE  IInv'
  BY <1>2 DEF Begin, IInv, MetFrom
<1>3. CASE Meet
  BY <1>3 DEF Meet, IInv
<1>4. CASE NextPass
  BY <1>4 DEF NextPass, IInv, MetFrom
<1>5. CASE EndCheck
  <2>1. AllMet
    BY <1>5, Extend DEF EndCheck, IInv, AllMet
  <2>2. AllMet'
    BY <1>5, <2>1 DEF EndCheck, AllMet, MetFrom, Met, Satisfied
  <2> QED
    BY <1>5, <2>2 DEF EndCheck, IInv
<1> QED
  BY <1>1, <1>2, <1>3, <1>4, <1>5 DEF DepsNext

(* When check_deps returns, no directory that the scenario values select   *)
(* lacks what it requires, in whatever order the requirements woke each    *)
(* other up.                                                               *)
THEOREM RequirementsAreMet ==
  ASSUME Len(Rules) \in Nat
  PROVE  DepsSpec => [](Ended => AllMet)
<1>1. DepsInit => IInv
  BY DEF DepsInit, IInv
<1>2. IInv /\ [DepsNext]_depVars => IInv'
  BY StepKeepsIInv
<1>3. IInv => (Ended => AllMet)
  BY DEF IInv, Ended
<1> QED
  BY <1>1, <1>2, <1>3, PTL DEF DepsSpec
=============================================================================

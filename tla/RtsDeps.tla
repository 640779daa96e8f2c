-------------------------------- MODULE RtsDeps --------------------------------
(***************************************************************************)
(* The loop of RTSProfiles.check_deps: a directory whose condition holds   *)
(* may require scenario values; the loop passes over all directories and   *)
(* changes the values until a pass changes nothing.  A value set late can  *)
(* wake up a directory passed earlier, hence the repetition; and it is     *)
(* never checked that two requirements do not contradict each other.       *)
(***************************************************************************)
EXTENDS RtsRules, Naturals, Sequences

CONSTANTS
  Rules,      \* of each directory: [when, needs]
  Starts      \* the scenario values that the loop may be given

VARIABLES
  vals,       \* the scenario values
  pos,        \* the next directory of this pass, 0 before the first one
  modified,   \* whether this pass has changed a value
  checked     \* the loop has ended

depVars == <<vals, pos, modified, checked>>

Satisfied(rule, scenario) ==
  Matches(rule.when, scenario) => Matches(rule.needs, scenario)

Met(j) == Satisfied(Rules[j], vals)

MetFrom(first, last) == \A j \in first..last : Met(j)

----------------------------------------------------------------------------

Begin(start) ==
  /\ checked
  /\ vals' = start
  /\ pos' = 1
  /\ modified' = FALSE
  /\ checked' = FALSE

(* The first directory from pos on whose requirement is not met. *)
Meet ==
  /\ ~checked
  /\ \E j \in pos..Len(Rules) :
        /\ MetFrom(pos, j - 1)
        /\ ~Met(j)
        /\ vals' = Update(vals, CorrespondingScenario(Rules[j].needs))
        /\ pos' = j + 1
  /\ modified' = TRUE
  /\ UNCHANGED checked

(* Plausible bug: modified is not reset for the next pass.                 *)
NextPass_KeepModified ==
  /\ ~checked
  /\ MetFrom(pos, Len(Rules))
  /\ modified
  /\ pos' = 1
  /\ UNCHANGED <<vals, modified, checked>>

NextPass ==
  /\ ~checked
  /\ MetFrom(pos, Len(Rules))
  /\ modified
  /\ pos' = 1
  /\ modified' = FALSE
  /\ UNCHANGED <<vals, checked>>

(* Plausible bug: modified is FALSE at first, and the loop is not entered.  *)
EndCheck_AtOnce ==
  /\ ~checked
  /\ ~modified
  /\ checked' = TRUE
  /\ UNCHANGED <<vals, pos, modified>>

EndCheck ==
  /\ ~checked
  /\ MetFrom(pos, Len(Rules))
  /\ ~modified
  /\ checked' = TRUE
  /\ UNCHANGED <<vals, pos, modified>>

DepsInit ==
  /\ vals = [v \in {} |-> ""]
  /\ pos = 0
  /\ modified = FALSE
  /\ checked = TRUE

DepsNext ==
  \/ \E start \in Starts : Begin(start)
  \/ Meet \/ NextPass \/ EndCheck

DepsSpec == DepsInit /\ [][DepsNext]_depVars
=============================================================================

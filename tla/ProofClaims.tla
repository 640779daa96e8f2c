---------------------------- MODULE ProofClaims ----------------------------
(***************************************************************************)
(* How one gnat2why process decides which entities it claims to be fully   *)
(* verified.  Every check is registered under its entity when its VC is    *)
(* generated; a proved result takes it out of the entity's set; an entity  *)
(* whose set becomes empty is claimed, and the claims are written to the   *)
(* JSON file of the unit, which spark_report reads.                        *)
(*                                                                         *)
(* Generation and proof overlap: checks decided by gnat2why itself have    *)
(* their result at once, and the results of earlier entities are parsed    *)
(* between the generation of later ones.  A claim stands for both the      *)
(* claim of absence of run-time errors and that of the postcondition.      *)
(***************************************************************************)
EXTENDS Naturals, Sequences, FiniteSets

CONSTANTS
  Entities,         \* Entities_To_Translate
  None,             \* Current_Subp when it is Empty
  Claimable,        \* the entities whose body, if any, is in SPARK
  Kinds,            \* the kinds of VC that occur
  MaxSubprocesses,  \* Max_Subprocesses of the gnat2why driver
  MaxVCs            \* bound: VCs of an entity

(* The kinds of VC the bookkeeping tells apart: a check or a warning that  *)
(* gnatwhy3 decides, a loop invariant (one VC with two results, "init" and *)
(* "preserv"), and a check that gnat2why decides without gnatwhy3.         *)
VC_Kinds == {"check", "warning", "loop", "static"}

ASSUME ProofClaimsAssumption ==
  /\ None \notin Entities
  /\ Claimable \subseteq Entities
  /\ Kinds \subseteq VC_Kinds
  /\ MaxSubprocesses \in Nat \ {0}
  /\ MaxVCs \in Nat

VARIABLES
  phase,         \* where Translate_CUnit, and what follows it, has come to
  todo,          \* entities that it has not visited
  Current_Subp,  \* entity whose VCs are being generated
  VC_Table,      \* sequence of the VCs, indexed by VC_Id
  VC_Set_Table,  \* for every entity that is a key of it, a set of VC_Ids
  Claims,        \* entities claimed to be verified
  running,       \* entities with a gnatwhy3 run that was not collected
  proved,        \* results with verdict proved: a VC_Id and a part of the VC
  raised         \* Delete was called for an id that is not in the set

vars == <<phase, todo, Current_Subp, VC_Table, VC_Set_Table, Claims, running,
          proved, raised>>

Keys == DOMAIN VC_Set_Table
Ids  == DOMAIN VC_Table

VCs(e) == {id \in Ids : VC_Table[id].E = e}

(* Present_In_Why3: the VCs that make a gnatwhy3 run necessary.            *)
Why3_VCs(e) == {id \in VCs(e) : VC_Table[id].Kind # "static"}

(* The results that are due for a VC.                                      *)
Parts(kind) == IF kind = "loop" THEN {"init", "preserv"} ELSE {"whole"}
Results(ids) == {r \in ids \X {"whole", "init", "preserv"} :
                   r[2] \in Parts(VC_Table[r[1]].Kind)}

Init ==
  /\ phase = "generate"
  /\ todo = Entities
  /\ Current_Subp = None
  /\ VC_Table = <<>>
  /\ VC_Set_Table = [e \in {} |-> {}]
  /\ Claims = {}
  /\ running = {}
  /\ proved = {}
  /\ raised = FALSE

-----------------------------------------------------------------------------
(* Generation of the VCs.                                                  *)

(* Entities that are not analyzed, or whose proof is skipped.              *)
PassOver(e) ==
  /\ phase = "generate" /\ Current_Subp = None
  /\ e \in todo
  /\ todo' = todo \ {e}
  /\ UNCHANGED <<phase, Current_Subp, VC_Table, VC_Set_Table, Claims, running,
                 proved, raised>>

(* Plausible bug: Include, which replaces the set.                         *)
Include_VC_Entity(e) ==
  VC_Set_Table' = [f \in Keys \cup {e} |->
                     IF f = e THEN {} ELSE VC_Set_Table[f]]

(* Insert, which leaves the set of a key that is present.                  *)
Register_VC_Entity(e) ==
  VC_Set_Table' = [f \in Keys \cup {e} |->
                     IF f \in Keys THEN VC_Set_Table[f] ELSE {}]

(* Do_Generate_VCs begins with an entity.                                  *)
Generate_VCs(e) ==
  /\ phase = "generate" /\ Current_Subp = None
  /\ e \in todo
  /\ todo' = todo \ {e}
  /\ Current_Subp' = e
  /\ Register_VC_Entity(e)
  /\ UNCHANGED <<phase, VC_Table, Claims, running, proved, raised>>

(* A dispatching operation is registered once more for its LSP checks.     *)
Generate_VCs_For_LSP(e) ==
  /\ phase = "generate" /\ Current_Subp = e
  /\ Register_VC_Entity(e)
  /\ UNCHANGED <<phase, todo, Current_Subp, VC_Table, Claims, running, proved,
                 raised>>

MayRegister(e) ==
  /\ phase = "generate" /\ Current_Subp = e
  /\ Cardinality(VCs(e)) < MaxVCs

(* Plausible bug: the id is that of the next VC.                           *)
Register_Next_VC(e, kind) ==
  /\ MayRegister(e)
  /\ kind # "static"
  /\ VC_Table' = Append(VC_Table, [E |-> e, Kind |-> kind])
  /\ VC_Set_Table' = [VC_Set_Table EXCEPT ![e] = @ \cup {Len(VC_Table) + 2}]
  /\ UNCHANGED <<phase, todo, Current_Subp, Claims, running, proved, raised>>

(* New_VC_Labels registers a VC for gnatwhy3; the ones that are warnings   *)
(* are kept out of the set.                                                *)
Register_VC(e, kind) ==
  /\ MayRegister(e)
  /\ kind # "static"
  /\ VC_Table' = Append(VC_Table, [E |-> e, Kind |-> kind])
  /\ VC_Set_Table' = IF kind = "warning" THEN VC_Set_Table
                     ELSE [VC_Set_Table EXCEPT ![e] = @ \cup {Len(VC_Table) + 1}]
  /\ UNCHANGED <<phase, todo, Current_Subp, Claims, running, proved, raised>>

(* Register_VC followed by Emit_Proof_Result: a proved check is marked at  *)
(* once, while e may still get more of them.                               *)
Emit_Static_Proof_Result(e, isProved) ==
  LET id   == Len(VC_Table) + 1
      left == VC_Set_Table[e] \cup (IF isProved THEN {} ELSE {id}) IN
  /\ MayRegister(e)
  /\ "static" \in Kinds
  /\ VC_Table' = Append(VC_Table, [E |-> e, Kind |-> "static"])
  /\ VC_Set_Table' = [VC_Set_Table EXCEPT ![e] = left]
  /\ proved' = IF isProved THEN proved \cup {<<id, "whole">>} ELSE proved
  /\ Claims' = IF isProved /\ left = {} THEN Claims \cup ({e} \cap Claimable)
               ELSE Claims
  /\ UNCHANGED <<phase, todo, Current_Subp, running, raised>>

(* The end of Do_Generate_VCs: without a VC in Why3 there is no run.       *)
NothingToProve(e) ==
  /\ phase = "generate" /\ Current_Subp = e
  /\ Why3_VCs(e) = {}
  /\ Current_Subp' = None
  /\ UNCHANGED <<phase, todo, VC_Table, VC_Set_Table, Claims, running, proved,
                 raised>>

PrepareRun(e) ==
  /\ phase = "generate" /\ Current_Subp = e
  /\ Why3_VCs(e) # {}
  /\ phase' = "run_why3"
  /\ UNCHANGED <<todo, Current_Subp, VC_Table, VC_Set_Table, Claims, running,
                 proved, raised>>

Run_Gnatwhy3(e) ==
  /\ phase = "run_why3" /\ Current_Subp = e
  /\ Cardinality(running) < MaxSubprocesses
  /\ running' = running \cup {e}
  /\ phase' = "generate"
  /\ Current_Subp' = None
  /\ UNCHANGED <<todo, VC_Table, VC_Set_Table, Claims, proved, raised>>

TranslationDone ==
  /\ phase = "generate" /\ Current_Subp = None
  /\ todo = {}
  /\ phase' = "collect"
  /\ UNCHANGED <<todo, Current_Subp, VC_Table, VC_Set_Table, Claims, running,
                 proved, raised>>

-----------------------------------------------------------------------------
(* Results of gnatwhy3.                                                    *)

(* Plausible bug: the "init" result of a loop invariant counts, too.       *)
AnyResultCounts(r) == VC_Table[r[1]].Kind # "warning"

(* Mark_VC_As_Proved_For_Entity is not called for a warning, and ignores   *)
(* the "init" result: its VC has the same id as the "preserv" one.         *)
Counts(r) == VC_Table[r[1]].Kind # "warning" /\ r[2] # "init"

(* Plausible bug: entities without a check are forgotten.                  *)
MarkNothing == {}

(* Mark_Subprograms_With_No_VC_As_Proved, over all the keys.               *)
EmptyKeys == {e \in Keys : VC_Set_Table[e] = {}}

(* Plausible bug: the set is cleared by any proved result.                 *)
ClearedBy(e, marked) == IF marked = {} THEN VC_Set_Table[e] ELSE {}

(* What is left in the set of e.                                           *)
LeftOf(e, marked) == VC_Set_Table[e] \ {r[1] : r \in marked}

(* Parse_Why3_Results and the rest of Collect_One_Result.                  *)
Collect_One_Result(e) ==
  /\ \/ phase = "collect"
     \/ phase = "run_why3" /\ Cardinality(running) = MaxSubprocesses
  /\ e \in running
  /\ \E good \in SUBSET Results(Why3_VCs(e)) :
        LET marked == {r \in good : Counts(r)}
            left   == LeftOf(e, marked) IN
        /\ proved' = proved \cup good
        /\ VC_Set_Table' = [VC_Set_Table EXCEPT ![e] = left]
        /\ raised' = (\/ raised
                      \/ \E r \in marked : r[1] \notin VC_Set_Table[e]
                      \/ \E r, s \in marked : r # s /\ r[1] = s[1])
        /\ Claims' = Claims \cup
             (Claimable \cap
                (EmptyKeys \cup IF marked # {} /\ left = {} THEN {e} ELSE {}))
  /\ running' = running \ {e}
  /\ UNCHANGED <<phase, todo, Current_Subp, VC_Table>>

(* Handle_Error, after the marking: gnat2why exits.                        *)
Handle_Error(e) ==
  /\ \/ phase = "collect"
     \/ phase = "run_why3" /\ Cardinality(running) = MaxSubprocesses
  /\ e \in running
  /\ Claims' = Claims \cup (Claimable \cap EmptyKeys)
  /\ phase' = "failed"
  /\ UNCHANGED <<todo, Current_Subp, VC_Table, VC_Set_Table, running, proved,
                 raised>>

(* The claims go to the JSON file (Get_Assume_JSON).                       *)
Create_JSON_File ==
  /\ phase = "collect"
  /\ running = {}
  /\ phase' = "done"
  /\ UNCHANGED <<todo, Current_Subp, VC_Table, VC_Set_Table, Claims, running,
                 proved, raised>>

-----------------------------------------------------------------------------
Step(e) ==
  \/ PassOver(e)
  \/ Generate_VCs(e)
  \/ Generate_VCs_For_LSP(e)
  \/ \E kind \in Kinds : Register_VC(e, kind)
  \/ \E isProved \in BOOLEAN : Emit_Static_Proof_Result(e, isProved)
  \/ NothingToProve(e)
  \/ PrepareRun(e)
  \/ Run_Gnatwhy3(e)
  \/ Collect_One_Result(e)
  \/ Handle_Error(e)

Next == (\E e \in Entities : Step(e)) \/ TranslationDone \/ Create_JSON_File

Spec == Init /\ [][Next]_vars

-----------------------------------------------------------------------------
TypeOK ==
  /\ phase \in {"generate", "run_why3", "collect", "done", "failed"}
  /\ todo \subseteq Entities
  /\ Current_Subp \in Entities \cup {None}
  /\ VC_Table \in Seq([E : Entities, Kind : VC_Kinds])
  /\ Keys \subseteq Entities
  /\ VC_Set_Table \in [Keys -> SUBSET Ids]
  /\ Claims \subseteq Claimable
  /\ running \subseteq Entities
  /\ proved \subseteq Results(Ids)
  /\ raised \in BOOLEAN

Checks(e) == {id \in VCs(e) : VC_Table[id].Kind # "warning"}

(* VC_Set_Table "maps entities to the set of unproved VCs": at any time,   *)
(* in spite of the overlap of generation and proof, the set of an entity   *)
(* holds the checks without a proved result, of a loop invariant the       *)
(* result of its preservation.                                             *)
TableIsUnproved ==
  \A e \in Keys : VC_Set_Table[e] =
     {id \in Checks(e) : <<id, "whole">> \notin proved /\
                         <<id, "preserv">> \notin proved}

(* Marking a VC as proved never deletes an id that is not in the set, for  *)
(* which the container would raise Constraint_Error.                       *)
DeletesOnce == ~raised

AllProved(e) == Results(Checks(e)) \subseteq proved

(* An entity is claimed in the JSON file only when "all VCs have been      *)
(* proved".                                                                *)
ClaimsAreProved ==
  phase = "done" => \A e \in Claims : AllProved(e)

(* The same for the entities whose checks are all left to gnatwhy3 and are *)
(* no loop invariants, however collection and generation overlap.          *)
ProverClaimsAreProved ==
  phase = "done" =>
     \A e \in Claims :
        (\A id \in VCs(e) : VC_Table[id].Kind \in {"check", "warning"})
           => AllProved(e)

(* Nothing is missed either: once the results of a gnatwhy3 run have been  *)
(* parsed, every analyzed entity whose checks are all proved is claimed,   *)
(* the ones that never had a check included, even when they come last.     *)
ClaimsAreComplete ==
  phase = "done" /\ (\E e \in Keys : Why3_VCs(e) # {}) =>
     \A e \in Keys \cap Claimable : AllProved(e) => e \in Claims
=============================================================================

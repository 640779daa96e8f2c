------------------------------ MODULE ProofRun ------------------------------
(***************************************************************************)
(* One run of gnatprove in a proof mode (GPM_All or GPM_Prove), with the   *)
(* processes it gives rise to:                                             *)
(*                                                                         *)
(*   gnatprove  creates a named semaphore with Parallel slots, calls       *)
(*              gprbuild, removes the semaphore and writes the report;     *)
(*   gprbuild   (external) keeps up to Parallel gnat2why processes going,  *)
(*              one for each compilation unit;                             *)
(*   gnat2why   walks over the entities of its unit, spawns one gnatwhy3   *)
(*              for every entity that has verification conditions, and     *)
(*              collects their results in the order in which they end;     *)
(*   wrapper    spark_semaphore_wrapper, the child that gnat2why really    *)
(*              spawns: it runs gnatwhy3 while it holds a slot.            *)
(*                                                                         *)
(* A gnatwhy3 run is called a job, and is named by its unit and the        *)
(* position of its entity in Entities_To_Translate.  Units that gprbuild   *)
(* finds up to date have no gnat2why: their results are replayed.          *)
(***************************************************************************)
EXTENDS Naturals, FiniteSets

CONSTANTS
  Units,            \* units whose analysis is not up to date
  MaxEntities,      \* bound: entities to translate in every unit
  Parallel,         \* value of switch -j
  MaxSubprocesses,  \* Max_Subprocesses: children of a gnat2why
  UseSemaphores,    \* Use_Semaphores, and with it Parallel_Why3
  KeepGoing,        \* switch -k (Continue_On_Error)
  ProverOnPath,     \* gnatwhy3 can be located on the path
  MaxKills          \* bound: wrappers killed from outside

ASSUME ProofRunAssumption ==
  /\ IsFiniteSet(Units)
  /\ MaxEntities \in Nat
  /\ Parallel \in Nat \ {0}
  /\ MaxSubprocesses \in Nat \ {0}
  /\ UseSemaphores \in BOOLEAN
  /\ KeepGoing \in BOOLEAN
  /\ ProverOnPath \in BOOLEAN
  /\ MaxKills \in Nat

VARIABLES
  gnatprove,        \* step of the plan that gnatprove has reached
  status,           \* exit status: "none" until the end of gprbuild is known
  sem,              \* the named semaphore: is the name bound, and its value
  unit,             \* control state of the gnat2why process of each unit
  next,             \* position in Entities_To_Translate
  Output_File_Map,  \* jobs whose process id is a key of Output_File_Map
  wrapper,          \* control state of the wrapper process of each job
  prover,           \* control state of the gnatwhy3 process of each job
  output,           \* temporary file that receives the output of each job
  slot,             \* jobs whose wrapper took a slot and did not return it
  parsed,           \* jobs whose results went through Parse_Why3_Results
  json,             \* result file <unit>.spark
  kills             \* number of wrappers killed so far

procVars == <<unit, next, Output_File_Map>>
jobVars  == <<wrapper, prover, output, slot>>
vars     == <<gnatprove, status, sem, procVars, jobVars, parsed, json, kills>>

Jobs == Units \X (1..MaxEntities)

GnatproveStates ==
  {"phase1", "phase2", "setup", "build", "teardown", "report", "done",
   "aborted"}
UnitStates    == {"waiting", "analysis", "translate", "run_why3", "collect",
                  "ok", "failed"}
WrapperStates == {"none", "start", "opened", "locked", "running", "returned",
                  "released", "zombie", "reaped"}
ProverStates  == {"none", "run", "ended"}

(* A progress below Progress_Proof is written with the stop reason.        *)
Progress == {"Progress_None", "Progress_Marking", "Progress_Borrow",
             "Progress_Flow", "Progress_Proof"}

(* The gnat2why processes that exist.                                      *)
Alive == {u \in Units : unit[u] \in {"analysis", "translate", "run_why3",
                                     "collect"}}
Exited  == {u \in Units : unit[u] \in {"ok", "failed"}}
Failed  == {u \in Units : unit[u] = "failed"}

Init ==
  /\ gnatprove = "phase1"
  /\ status = "none"
  (* A run that was killed may have left a semaphore of the same name.     *)
  /\ sem \in [named : BOOLEAN, value : 0..Parallel]
  /\ unit = [u \in Units |-> "waiting"]
  /\ next = [u \in Units |-> 1]
  /\ Output_File_Map = [u \in Units |-> {}]
  /\ wrapper = [j \in Jobs |-> "none"]
  /\ prover = [j \in Jobs |-> "none"]
  /\ output = [j \in Jobs |-> "none"]
  /\ slot = {}
  /\ parsed = {}
  (* The unit may have results, which are outdated, of an earlier run.     *)
  /\ json \in [Units -> {"absent", "stale"}]
  /\ kills = 0

-----------------------------------------------------------------------------
(* gnatprove: Execute_Step over the plan.                                  *)

(* GS_Data_Representation and GS_ALI: a nonzero status is fatal.           *)
ExecutePhase ==
  /\ gnatprove \in {"phase1", "phase2"}
  /\ \/ /\ gnatprove' = IF gnatprove = "phase1" THEN "phase2" ELSE "setup"
        /\ UNCHANGED status
     \/ /\ gnatprove' = "aborted"
        /\ status' = "error"
  /\ UNCHANGED <<sem, procVars, jobVars, parsed, json, kills>>

(* Plausible bug: the semaphore is not deleted first, so that the creation *)
(* opens what another run left under the same name.                        *)
Reuse_Semaphore ==
  /\ gnatprove = "setup"
  /\ gnatprove' = "build"
  /\ sem' = IF sem.named THEN sem ELSE [named |-> TRUE, value |-> Parallel]
  /\ UNCHANGED <<status, procVars, jobVars, parsed, json, kills>>

(* Plausible bug: the name is deleted as soon as the semaphore is open.    *)
Unlink_Semaphore_Early ==
  /\ gnatprove = "setup"
  /\ gnatprove' = "build"
  /\ sem' = [named |-> FALSE, value |-> Parallel]
  /\ UNCHANGED <<status, procVars, jobVars, parsed, json, kills>>

(* Delete the name, then create the semaphore with all its slots.          *)
Spawn_VC_Server_And_Semaphore ==
  /\ gnatprove = "setup"
  /\ gnatprove' = "build"
  /\ sem' = IF UseSemaphores THEN [named |-> TRUE, value |-> Parallel] ELSE sem
  /\ UNCHANGED <<status, procVars, jobVars, parsed, json, kills>>

(* gprbuild starts the analysis of a unit: never more than -j of them at a *)
(* time, and after a failure only with -k.                                 *)
Launch(u) ==
  /\ gnatprove = "build"
  /\ unit[u] = "waiting"
  /\ Cardinality(Alive) < Parallel
  /\ KeepGoing \/ Failed = {}
  /\ unit' = [unit EXCEPT ![u] = "analysis"]
  /\ UNCHANGED <<gnatprove, status, sem, next, Output_File_Map, jobVars,
                 parsed, json, kills>>

(* gprbuild waits for the processes it started.                            *)
Call_Gprbuild_Returns ==
  /\ gnatprove = "build"
  /\ Alive = {}
  /\ Exited = Units \/ (~KeepGoing /\ Failed # {})
  /\ gnatprove' = "teardown"
  /\ status' = IF Failed = {} THEN "ok" ELSE "error"
  /\ UNCHANGED <<sem, procVars, jobVars, parsed, json, kills>>

(* End of Flow_Analysis_And_Proof: Kill_Process_Tree, Close and Delete.    *)
CloseAndDeleteSemaphore ==
  /\ gnatprove = "teardown"
  /\ gnatprove' = "report"
  /\ sem' = IF UseSemaphores THEN [sem EXCEPT !.named = FALSE] ELSE sem
  /\ UNCHANGED <<status, procVars, jobVars, parsed, json, kills>>

(* The report is generated after a failed analysis as well.                *)
Generate_Report ==
  /\ gnatprove = "report"
  /\ gnatprove' = "done"
  /\ UNCHANGED <<status, sem, procVars, jobVars, parsed, json, kills>>

(* The why3server serves the provers until gnatprove kills it.             *)
ServerUp == gnatprove \in {"build", "teardown"}

-----------------------------------------------------------------------------
(* gnat2why: GNAT_To_Why, phase 2.                                         *)

(* The exits that write a JSON file before any proof, and whether the unit *)
(* compiled: a generic unit does, errors of the other phases do not.       *)
EarlyExits == { <<"Progress_None", "ok">>, <<"Progress_Marking", "failed">>,
                <<"Progress_Flow", "failed">>, <<"Progress_Borrow", "failed">> }

AnalysisStops(u) ==
  /\ unit[u] = "analysis"
  /\ \E exit \in EarlyExits :
        /\ json' = [json EXCEPT ![u] = exit[1]]
        /\ unit' = [unit EXCEPT ![u] = exit[2]]
  /\ UNCHANGED <<gnatprove, status, sem, next, Output_File_Map, jobVars,
                 parsed, kills>>

StartTranslation(u) ==
  /\ unit[u] = "analysis"
  /\ unit' = [unit EXCEPT ![u] = "translate"]
  /\ UNCHANGED <<gnatprove, status, sem, next, Output_File_Map, jobVars,
                 parsed, json, kills>>

(* Do_Generate_VCs for the next entity: one whose proof is skipped, or     *)
(* that has no check, is passed over; the others need a gnatwhy3 run.      *)
Do_Generate_VCs(u) ==
  /\ unit[u] = "translate"
  /\ next[u] <= MaxEntities
  /\ \/ /\ next' = [next EXCEPT ![u] = @ + 1]
        /\ UNCHANGED unit
     \/ /\ unit' = [unit EXCEPT ![u] = "run_why3"]
        /\ UNCHANGED next
  /\ UNCHANGED <<gnatprove, status, sem, Output_File_Map, jobVars, parsed,
                 json, kills>>

(* Plausible bug: Parallel_Why3 is not consulted.                          *)
MustCollectOnlyAtMaximum(u) ==
  Cardinality(Output_File_Map[u]) = MaxSubprocesses

(* Run_Gnatwhy3 first waits for a child when it may have no more of them.  *)
MustCollectFirst(u) ==
  \/ Cardinality(Output_File_Map[u]) = MaxSubprocesses
  \/ Output_File_Map[u] # {} /\ ~UseSemaphores

(* Locate_Exec_On_Path looks for the first word of the command line, which *)
(* is the wrapper when there is one and gnatwhy3 otherwise.                *)
CommandLocated == UseSemaphores \/ ProverOnPath

(* Create_Temp_File and Non_Blocking_Spawn.  Without semaphores the child  *)
(* is gnatwhy3 itself.                                                     *)
Run_Gnatwhy3(u) ==
  LET j == <<u, next[u]>> IN
  /\ unit[u] = "run_why3"
  /\ CommandLocated
  /\ ~MustCollectFirst(u)
  /\ output' = [output EXCEPT ![j] = "empty"]
  /\ IF UseSemaphores
     THEN /\ wrapper' = [wrapper EXCEPT ![j] = "start"]
          /\ UNCHANGED prover
     ELSE /\ wrapper' = [wrapper EXCEPT ![j] = "running"]
          /\ prover' = [prover EXCEPT ![j] = "run"]
  /\ Output_File_Map' = [Output_File_Map EXCEPT ![u] = @ \cup {j}]
  /\ next' = [next EXCEPT ![u] = @ + 1]
  /\ unit' = [unit EXCEPT ![u] = "translate"]
  /\ UNCHANGED <<gnatprove, status, sem, slot, parsed, json, kills>>

(* A null Command and an Invalid_Pid raise Program_Error and gnat2why      *)
(* exits; its other children go on, and the temporary file stays.          *)
Run_Gnatwhy3_Fails(u) ==
  /\ unit[u] = "run_why3"
  /\ \/ /\ ~CommandLocated
        /\ UNCHANGED output
     \/ /\ CommandLocated
        /\ ~MustCollectFirst(u)
        /\ output' = [output EXCEPT ![<<u, next[u]>>] = "empty"]
  /\ unit' = [unit EXCEPT ![u] = "failed"]
  /\ UNCHANGED <<gnatprove, status, sem, next, Output_File_Map, wrapper,
                 prover, slot, parsed, json, kills>>

(* Plausible bugs: the temporary file of a result is not deleted; its      *)
(* process stays in Output_File_Map.                                       *)
Collect_And_Keep_File(u) ==
  /\ unit[u] = "collect"
  /\ \E j \in Output_File_Map[u] :
        /\ wrapper[j] = "zombie" /\ output[j] = "result"
        /\ wrapper' = [wrapper EXCEPT ![j] = "reaped"]
        /\ parsed' = parsed \cup {j}
        /\ Output_File_Map' = [Output_File_Map EXCEPT ![u] = @ \ {j}]
  /\ UNCHANGED <<gnatprove, status, sem, unit, next, prover, output, slot,
                 json, kills>>

Collect_And_Keep_Entry(u) ==
  /\ unit[u] = "collect"
  /\ \E j \in Output_File_Map[u] :
        /\ wrapper[j] = "zombie" /\ output[j] = "result"
        /\ wrapper' = [wrapper EXCEPT ![j] = "reaped"]
        /\ parsed' = parsed \cup {j}
        /\ output' = [output EXCEPT ![j] = "none"]
  /\ UNCHANGED <<gnatprove, status, sem, procVars, prover, slot, json, kills>>

(* Wait_Process returns some child that has exited.  A readable result is  *)
(* parsed, its file deleted and its entry removed; with anything else in   *)
(* the file Handle_Error exits the program.                                *)
Collect_One_Result(u) ==
  /\ \/ unit[u] = "run_why3" /\ MustCollectFirst(u)
     \/ unit[u] = "collect" /\ Output_File_Map[u] # {}
  /\ \E j \in Output_File_Map[u] :
        /\ wrapper[j] = "zombie"
        /\ wrapper' = [wrapper EXCEPT ![j] = "reaped"]
        /\ \/ /\ output[j] = "result"
              /\ parsed' = parsed \cup {j}
              /\ output' = [output EXCEPT ![j] = "none"]
              /\ Output_File_Map' = [Output_File_Map EXCEPT ![u] = @ \ {j}]
              /\ UNCHANGED unit
           \/ /\ output[j] # "result"
              /\ unit' = [unit EXCEPT ![u] = "failed"]
              /\ UNCHANGED <<parsed, output, Output_File_Map>>
  /\ UNCHANGED <<gnatprove, status, sem, next, prover, slot, json, kills>>

(* Translate_CUnit is over and Collect_Results begins.                     *)
TranslationDone(u) ==
  /\ unit[u] = "translate"
  /\ next[u] > MaxEntities
  /\ unit' = [unit EXCEPT ![u] = "collect"]
  /\ UNCHANGED <<gnatprove, status, sem, next, Output_File_Map, jobVars,
                 parsed, json, kills>>

(* Plausible bug: Collect_Results collects once instead of in a loop.      *)
Create_JSON_File_Early(u) ==
  /\ unit[u] = "collect"
  /\ json' = [json EXCEPT ![u] = "Progress_Proof"]
  /\ unit' = [unit EXCEPT ![u] = "ok"]
  /\ UNCHANGED <<gnatprove, status, sem, next, Output_File_Map, jobVars,
                 parsed, kills>>

(* Collect_Results ends with an empty map; then the JSON file is written.  *)
Create_JSON_File(u) ==
  /\ unit[u] = "collect"
  /\ Output_File_Map[u] = {}
  /\ json' = [json EXCEPT ![u] = "Progress_Proof"]
  /\ unit' = [unit EXCEPT ![u] = "ok"]
  /\ UNCHANGED <<gnatprove, status, sem, next, Output_File_Map, jobVars,
                 parsed, kills>>

-----------------------------------------------------------------------------
(* The wrapper; without semaphores the child is gnatwhy3 and is "running"  *)
(* until it ends.                                                          *)

(* The name must still be bound; otherwise open_semaphore exits with 1.    *)
Open(j) ==
  /\ wrapper[j] = "start"
  /\ wrapper' = [wrapper EXCEPT ![j] = IF sem.named THEN "opened" ELSE "zombie"]
  /\ UNCHANGED <<gnatprove, status, sem, procVars, prover, output, slot,
                 parsed, json, kills>>

(* Plausible bug: the semaphore is decremented without waiting for it.     *)
Decrement(j) ==
  /\ wrapper[j] = "opened"
  /\ sem' = [sem EXCEPT !.value = @ - 1]
  /\ slot' = slot \cup {j}
  /\ wrapper' = [wrapper EXCEPT ![j] = "locked"]
  /\ UNCHANGED <<gnatprove, status, procVars, prover, output, parsed, json,
                 kills>>

(* sem_wait: blocks until the value is positive.                           *)
Wait(j) ==
  /\ wrapper[j] = "opened"
  /\ sem.value > 0
  /\ sem' = [sem EXCEPT !.value = @ - 1]
  /\ slot' = slot \cup {j}
  /\ wrapper' = [wrapper EXCEPT ![j] = "locked"]
  /\ UNCHANGED <<gnatprove, status, procVars, prover, output, parsed, json,
                 kills>>

(* Plausible bug: Non_Blocking_Spawn instead of Spawn.                     *)
Spawn_In_Background(j) ==
  /\ wrapper[j] = "locked"
  /\ wrapper' = [wrapper EXCEPT ![j] = "returned"]
  /\ prover' = [prover EXCEPT ![j] = "run"]
  /\ UNCHANGED <<gnatprove, status, sem, procVars, output, slot, parsed, json,
                 kills>>

(* Prog.all is evaluated after Wait: when gnatwhy3 was not located the     *)
(* wrapper dies of an exception with the slot in its hands.                *)
Spawn(j) ==
  /\ wrapper[j] = "locked"
  /\ \/ /\ ProverOnPath
        /\ wrapper' = [wrapper EXCEPT ![j] = "running"]
        /\ prover' = [prover EXCEPT ![j] = "run"]
     \/ /\ ~ProverOnPath
        /\ wrapper' = [wrapper EXCEPT ![j] = "zombie"]
        /\ UNCHANGED prover
  /\ UNCHANGED <<gnatprove, status, sem, procVars, output, slot, parsed, json,
                 kills>>

(* gnatwhy3 (external) ends, thanks to its timeouts, with a result or with *)
(* an error; without the server it cannot run provers.                     *)
GnatWhy3Ends(j) ==
  /\ prover[j] = "run"
  /\ prover' = [prover EXCEPT ![j] = "ended"]
  /\ \E content \in (IF ServerUp THEN {"result", "error"} ELSE {"error"}) :
        output' = [output EXCEPT ![j] = IF @ = "none" THEN @ ELSE content]
  /\ wrapper' = [wrapper EXCEPT ![j] =
                   IF @ # "running" THEN @
                   ELSE IF UseSemaphores THEN "returned" ELSE "zombie"]
  /\ UNCHANGED <<gnatprove, status, sem, procVars, slot, parsed, json, kills>>

(* Plausible bug: the slot is returned only when gnatwhy3 succeeded.       *)
Release_After_Success(j) ==
  /\ wrapper[j] = "returned"
  /\ wrapper' = [wrapper EXCEPT ![j] = "released"]
  /\ IF output[j] = "result"
     THEN /\ sem' = [sem EXCEPT !.value = @ + 1]
          /\ slot' = slot \ {j}
     ELSE UNCHANGED <<sem, slot>>
  /\ UNCHANGED <<gnatprove, status, procVars, prover, output, parsed, json,
                 kills>>

(* sem_post: the wrapper returns its slot when gnatwhy3 has ended.         *)
Release(j) ==
  /\ wrapper[j] = "returned"
  /\ sem' = [sem EXCEPT !.value = @ + 1]
  /\ slot' = slot \ {j}
  /\ wrapper' = [wrapper EXCEPT ![j] = "released"]
  /\ UNCHANGED <<gnatprove, status, procVars, prover, output, parsed, json,
                 kills>>

(* Close, then OS_Exit.                                                    *)
OS_Exit(j) ==
  /\ wrapper[j] = "released"
  /\ wrapper' = [wrapper EXCEPT ![j] = "zombie"]
  /\ UNCHANGED <<gnatprove, status, sem, procVars, prover, output, slot,
                 parsed, json, kills>>

(* A wrapper is killed (or its sem_wait is interrupted, which makes it     *)
(* exit): nothing returns its slot, and its gnatwhy3 runs on.              *)
KillWrapper(j) ==
  /\ UseSemaphores
  /\ kills < MaxKills
  /\ wrapper[j] \in {"start", "opened", "locked", "running", "returned",
                     "released"}
  /\ wrapper' = [wrapper EXCEPT ![j] = "zombie"]
  /\ kills' = kills + 1
  /\ UNCHANGED <<gnatprove, status, sem, procVars, prover, output, slot,
                 parsed, json>>

-----------------------------------------------------------------------------
Gnatprove ==
  \/ ExecutePhase
  \/ Spawn_VC_Server_And_Semaphore
  \/ Call_Gprbuild_Returns
  \/ CloseAndDeleteSemaphore
  \/ Generate_Report

Gnat2why(u) ==
  \/ AnalysisStops(u)
  \/ StartTranslation(u)
  \/ Do_Generate_VCs(u)
  \/ Run_Gnatwhy3(u)
  \/ Run_Gnatwhy3_Fails(u)
  \/ Collect_One_Result(u)
  \/ TranslationDone(u)
  \/ Create_JSON_File(u)

Wrapper(j) == Open(j) \/ Wait(j) \/ Spawn(j) \/ Release(j) \/ OS_Exit(j)

(* Once gnatprove has exited, only orphaned children may still run.        *)
Finished == gnatprove \in {"done", "aborted"} /\ UNCHANGED vars

Next ==
  \/ Gnatprove
  \/ \E u \in Units : Launch(u) \/ Gnat2why(u)
  \/ \E j \in Jobs : Wrapper(j) \/ GnatWhy3Ends(j) \/ KillWrapper(j)
  \/ Finished

Spec == Init /\ [][Next]_vars

(* Every process that can take a step eventually takes one: they are       *)
(* separate operating-system processes.  Kills are not fair.               *)
Fairness ==
  /\ WF_vars(Gnatprove)
  /\ \A u \in Units : WF_vars(Launch(u)) /\ WF_vars(Gnat2why(u))
  /\ \A j \in Jobs : WF_vars(Wrapper(j)) /\ WF_vars(GnatWhy3Ends(j))

FairSpec == Spec /\ Fairness

-----------------------------------------------------------------------------
TypeOK ==
  /\ gnatprove \in GnatproveStates
  /\ status \in {"none", "ok", "error"}
  /\ sem \in [named : BOOLEAN, value : Nat]
  /\ unit \in [Units -> UnitStates]
  /\ next \in [Units -> 1..(MaxEntities + 1)]
  /\ Output_File_Map \in [Units -> SUBSET Jobs]
  /\ wrapper \in [Jobs -> WrapperStates]
  /\ prover \in [Jobs -> ProverStates]
  /\ output \in [Jobs -> {"none", "empty", "result", "error"}]
  /\ slot \in SUBSET Jobs
  /\ parsed \in SUBSET Jobs
  /\ json \in [Units -> Progress \cup {"absent", "stale"}]
  /\ kills \in Nat

SemaphoreCreated ==
  UseSemaphores /\ gnatprove \in {"build", "teardown", "report", "done"}

(* No slot is invented and none is forgotten: from its creation on, the    *)
(* value of the semaphore and the slots that wrappers took and did not     *)
(* return add up to -j, whatever was killed or left over by another run.   *)
SlotConservation ==
  SemaphoreCreated => sem.value + Cardinality(slot) = Parallel

(* gnatwhy3 processes that count against -j; those that outlive a failed   *)
(* gnat2why are counted only when they hold a slot.                        *)
RunningProvers ==
  {j \in Jobs : prover[j] = "run" /\ (UseSemaphores \/ j[1] \in Alive)}

(* -j bounds the gnatwhy3 processes of all gnat2why processes together,    *)
(* with semaphores and without, and even those that became orphans when    *)
(* their wrapper was killed or their gnat2why aborted.                     *)
ProversBounded == Cardinality(RunningProvers) <= Parallel

(* The bookkeeping of a live gnat2why matches the operating system's: the  *)
(* keys of Output_File_Map are exactly its children not yet waited for, so *)
(* that Wait_Process always has a child to return and the result file of   *)
(* every child it returns is still there.                                  *)
MapMatchesChildren ==
  \A u \in Alive, k \in 1..MaxEntities :
     LET j == <<u, k>> IN
     /\ j \in Output_File_Map[u] <=> wrapper[j] \notin {"none", "reaped"}
     /\ j \in Output_File_Map[u] => output[j] # "none"

(* A unit whose JSON file says Progress_Proof has every gnatwhy3 run it    *)
(* started finished, its result parsed and its temporary file deleted.     *)
ProofIsComplete ==
  \A u \in Units : json[u] = "Progress_Proof" =>
     \A j \in {u} \X (1..MaxEntities) :
        /\ wrapper[j] # "none" => j \in parsed /\ wrapper[j] = "reaped"
        /\ prover[j] # "run"
        /\ output[j] = "none"

(* gnatprove does not unlink the semaphore under a gnat2why that is still  *)
(* at work: its wrappers always find the name.                             *)
SemaphoreOutlivesWrappers ==
  \A j \in Jobs : j[1] \in Alive /\ wrapper[j] = "start" => sem.named

(* A successful gnatprove reports no outdated results, and leaves neither  *)
(* a process, nor a temporary file, nor a semaphore behind.                *)
SuccessIsClean ==
  gnatprove = "done" /\ status = "ok" =>
     /\ \A u \in Units : json[u] \in Progress
     /\ \A j \in Jobs : /\ wrapper[j] \in {"none", "reaped"}
                        /\ prover[j] # "run"
                        /\ output[j] = "none"
     /\ UseSemaphores => ~sem.named

(* Only a wrapper that was killed keeps its slot for good.                 *)
LeaksAreKills ==
  ProverOnPath =>
     Cardinality({j \in slot : wrapper[j] \in {"zombie", "reaped"}}) <= kills

(* The run ends, even when wrappers are killed, as long as one slot is     *)
(* left; with gnatwhy3 missing from the path this is the gentle exit that  *)
(* Run_Gnatwhy3 announces.                                                 *)
Terminates == <>(gnatprove \in {"done", "aborted"})

(* A wrapper that waits for the semaphore gets a slot or is killed, also   *)
(* after its gnat2why is gone.                                             *)
WaitersAreServed ==
  \A j \in Jobs : wrapper[j] = "opened" ~> wrapper[j] # "opened"
=============================================================================

--------------------------- MODULE ProofRun_proofs ---------------------------
(***************************************************************************)
(* Proofs about ProofRun, for every set of units, every -j and every bound *)
(* on the children of a gnat2why.                                          *)
(***************************************************************************)
EXTENDS ProofRun, FiniteSetTheorems, TLAPS

-----------------------------------------------------------------------------
(* What holds in every step and makes the invariants above inductive.      *)

Started == gnatprove \in {"build", "teardown", "report", "done"}

(* Nothing is spawned before the semaphore exists, and gnat2why processes  *)
(* live only while gprbuild does.                                          *)
BuildOrder ==
  /\ ~Started => slot = {} /\ \A u \in Units : unit[u] = "waiting"
  /\ UseSemaphores => /\ gnatprove = "build" => sem.named
                      /\ gnatprove \in {"report", "done"} => ~sem.named
  /\ Alive # {} => gnatprove = "build"

(* The translation goes forward: what is at the next position or after it  *)
(* has no process yet.                                                     *)
Forward ==
  /\ \A u \in Units : /\ unit[u] = "run_why3" => next[u] <= MaxEntities
                      /\ unit[u] \in {"waiting", "analysis"} => next[u] = 1
  /\ \A u \in Units, k \in 1..MaxEntities :
        k >= next[u] => wrapper[<<u, k>>] = "none" /\ prover[<<u, k>>] = "none"

(* Who holds a slot, by the control state of the wrapper.                  *)
Holders ==
  UseSemaphores =>
    \A j \in Jobs :
      /\ wrapper[j] \in {"locked", "running", "returned"} => j \in slot
      /\ wrapper[j] \in {"none", "start", "opened", "released"} => j \notin slot
      /\ wrapper[j] \in {"start", "opened", "locked", "returned", "released"}
           => prover[j] # "run"
      /\ prover[j] = "run" => j \in slot

(* Without semaphores no slot is taken, and the child is gnatwhy3.         *)
NoHolders ==
  ~UseSemaphores =>
    /\ slot = {}
    /\ \A j \in Jobs : /\ wrapper[j] \in {"none", "running", "zombie", "reaped"}
                       /\ prover[j] = "run" => wrapper[j] = "running"

(* The children of a gnat2why are its own, and without semaphores it has   *)
(* one at most.                                                            *)
OwnChildren ==
  \A u \in Units :
    /\ Output_File_Map[u] \subseteq {u} \X (1..MaxEntities)
    /\ unit[u] \in {"waiting", "analysis"} => Output_File_Map[u] = {}
    /\ ~UseSemaphores => \A i, j \in Output_File_Map[u] : i = j

(* A result is there only after the one gnatwhy3 of the job has ended.     *)
ResultsEnded ==
  \A j \in Jobs :
    /\ output[j] = "result" => prover[j] = "ended"
    /\ wrapper[j] \in {"start", "opened", "locked"} => prover[j] = "none"

(* What a gnat2why that did not fail leaves of a job.                      *)
Collected ==
  \A j \in Jobs :
    unit[j[1]] # "failed" =>
      /\ wrapper[j] = "none" => output[j] = "none"
      /\ wrapper[j] = "reaped" => /\ j \in parsed /\ output[j] = "none"
                                  /\ prover[j] # "run"

(* What a gnat2why that exited without failure wrote.                      *)
Outcomes ==
  /\ \A u \in Units :
        /\ json[u] = "Progress_Proof" => unit[u] = "ok"
        /\ unit[u] = "ok" => json[u] \in Progress
  /\ \A j \in Jobs : unit[j[1]] = "ok" => wrapper[j] \in {"none", "reaped"}
  /\ status = "ok" => /\ gnatprove \in {"teardown", "report", "done"}
                      /\ \A u \in Units : unit[u] = "ok"

(* gprbuild never has more than -j children.                               *)
AliveBounded == Cardinality(Alive) <= Parallel

-----------------------------------------------------------------------------
(* Types, and the positions in Entities_To_Translate.                      *)
IndType == TypeOK /\ Forward

LEMMA InitIndType == Init => IndType
  BY ProofRunAssumption
  DEF Init, IndType, TypeOK, Forward, Jobs, GnatproveStates, UnitStates,
      WrapperStates, ProverStates, Progress

LEMMA NextIndType == IndType /\ [Next]_vars => IndType'
<1> SUFFICES ASSUME IndType, [Next]_vars PROVE IndType'
  OBVIOUS
<1> USE ProofRunAssumption DEF IndType
<1>1. CASE Gnatprove
  <2>1. TypeOK'
    <3>1. CASE ExecutePhase
      BY <3>1 DEF ExecutePhase, TypeOK, GnatproveStates, procVars, jobVars
    <3>2. CASE Spawn_VC_Server_And_Semaphore
      BY <3>2 DEF Spawn_VC_Server_And_Semaphore, TypeOK, ProofRunAssumption,
         GnatproveStates, procVars, jobVars
    <3>3. CASE Call_Gprbuild_Returns
      BY <3>3 DEF Call_Gprbuild_Returns, TypeOK, GnatproveStates, procVars,
         jobVars
    <3>4. CASE CloseAndDeleteSemaphore
      BY <3>4 DEF CloseAndDeleteSemaphore, TypeOK, GnatproveStates, procVars,
         jobVars
    <3>5. CASE Generate_Report
      BY <3>5 DEF Generate_Report, TypeOK, GnatproveStates, procVars, jobVars
    <3> QED BY <1>1, <3>1, <3>2, <3>3, <3>4, <3>5 DEF Gnatprove
  <2>2. Forward'
    BY <1>1 DEF Gnatprove, ExecutePhase, Spawn_VC_Server_And_Semaphore,
       Call_Gprbuild_Returns, CloseAndDeleteSemaphore, Generate_Report, Forward,
       procVars, jobVars
  <2> QED BY <2>1, <2>2
<1>2. ASSUME NEW u \in Units, Launch(u) PROVE IndType'
  BY <1>2 DEF Launch, TypeOK, Forward, UnitStates, jobVars
<1>3. ASSUME NEW u \in Units, AnalysisStops(u) PROVE IndType'
  BY <1>3 DEF AnalysisStops, EarlyExits, TypeOK, Forward, UnitStates, Progress, jobVars
<1>4. ASSUME NEW u \in Units, StartTranslation(u) PROVE IndType'
  BY <1>4 DEF StartTranslation, TypeOK, Forward, UnitStates, jobVars
<1>5. ASSUME NEW u \in Units, Do_Generate_VCs(u) PROVE IndType'
  BY <1>5 DEF Do_Generate_VCs, TypeOK, Forward, UnitStates, jobVars
<1>6. ASSUME NEW u \in Units, Run_Gnatwhy3(u) PROVE IndType'
  <2> DEFINE j == <<u, next[u]>>
  <2>1. next[u] \in 1..MaxEntities /\ j \in Jobs
    BY <1>6 DEF Run_Gnatwhy3, TypeOK, Forward, Jobs, ProofRunAssumption
  <2>2. TypeOK'
    <3>1. /\ Output_File_Map' \in [Units -> SUBSET Jobs]
          /\ output' \in [Jobs -> {"none", "empty", "result", "error"}]
      BY <1>6, <2>1 DEF Run_Gnatwhy3, TypeOK
    <3>2. unit' \in [Units -> UnitStates] /\ next' \in [Units -> 1..(MaxEntities + 1)]
      BY <1>6, <2>1 DEF Run_Gnatwhy3, TypeOK, UnitStates, ProofRunAssumption
    <3>3. wrapper' \in [Jobs -> WrapperStates] /\ prover' \in [Jobs -> ProverStates]
      BY <1>6, <2>1 DEF Run_Gnatwhy3, TypeOK, WrapperStates, ProverStates
    <3> QED BY <1>6, <3>1, <3>2, <3>3 DEF Run_Gnatwhy3, TypeOK
  <2>3. Forward'
    <3>1. /\ unit' = [unit EXCEPT ![u] = "translate"]
          /\ next' = [next EXCEPT ![u] = @ + 1]
          /\ \A i \in Jobs : i # j => wrapper'[i] = wrapper[i]
                                   /\ prover'[i] = prover[i]
      <4>1. CASE UseSemaphores
        BY <1>6, <2>1, <4>1 DEF Run_Gnatwhy3, TypeOK
      <4>2. CASE ~UseSemaphores
        BY <1>6, <2>1, <4>2 DEF Run_Gnatwhy3, TypeOK
      <4> QED BY <4>1, <4>2
    <3>2. ASSUME NEW v \in Units, NEW k \in 1..MaxEntities, k >= next'[v]
          PROVE  k >= next[v] /\ <<v, k>> # j /\ <<v, k>> \in Jobs
      BY <2>1, <3>1, <3>2 DEF TypeOK, Jobs, ProofRunAssumption
    <3> QED BY <3>1, <3>2 DEF TypeOK, Forward
  <2> QED BY <2>2, <2>3
<1>7. ASSUME NEW u \in Units, Run_Gnatwhy3_Fails(u) PROVE IndType'
  BY <1>7 DEF Run_Gnatwhy3_Fails, TypeOK, Forward, UnitStates
<1>8. ASSUME NEW u \in Units, Collect_One_Result(u) PROVE IndType'
  BY <1>8 DEF Collect_One_Result, TypeOK, Forward, UnitStates, WrapperStates
<1>9. ASSUME NEW u \in Units, TranslationDone(u) PROVE IndType'
  BY <1>9 DEF TranslationDone, TypeOK, Forward, UnitStates, jobVars
<1>10. ASSUME NEW u \in Units, Create_JSON_File(u) PROVE IndType'
  BY <1>10 DEF Create_JSON_File, TypeOK, Forward, UnitStates, Progress, jobVars
<1>11. ASSUME NEW j \in Jobs, Open(j) PROVE IndType'
  BY <1>11 DEF Open, TypeOK, Forward, Jobs, WrapperStates, procVars
<1>12. ASSUME NEW j \in Jobs, Wait(j) PROVE IndType'
  <2>1. TypeOK'
    BY <1>12 DEF Wait, TypeOK, WrapperStates, procVars
  <2>2. Forward'
    BY <1>12 DEF Wait, TypeOK, Forward, Jobs, procVars
  <2> QED BY <2>1, <2>2
<1>13. ASSUME NEW j \in Jobs, Spawn(j) PROVE IndType'
  <2>1. TypeOK'
    BY <1>13 DEF Spawn, TypeOK, WrapperStates, ProverStates, procVars
  <2>2. Forward'
    BY <1>13 DEF Spawn, TypeOK, Forward, Jobs, procVars
  <2> QED BY <2>1, <2>2
<1>14. ASSUME NEW j \in Jobs, Release(j) PROVE IndType'
  BY <1>14 DEF Release, TypeOK, Forward, Jobs, WrapperStates, procVars
<1>15. ASSUME NEW j \in Jobs, OS_Exit(j) PROVE IndType'
  BY <1>15 DEF OS_Exit, TypeOK, Forward, Jobs, WrapperStates, procVars
<1>16. ASSUME NEW j \in Jobs, GnatWhy3Ends(j) PROVE IndType'
  BY <1>16 DEF GnatWhy3Ends, TypeOK, Forward, Jobs, WrapperStates, ProverStates, procVars
<1>17. ASSUME NEW j \in Jobs, KillWrapper(j) PROVE IndType'
  BY <1>17 DEF KillWrapper, TypeOK, Forward, Jobs, WrapperStates, procVars
<1>18. CASE UNCHANGED vars
  BY <1>18 DEF TypeOK, Forward, vars, procVars, jobVars
<1> QED
  BY <1>1, <1>2, <1>3, <1>4, <1>5, <1>6, <1>7, <1>8, <1>9, <1>10, <1>11, <1>12,
     <1>13, <1>14, <1>15, <1>16, <1>17, <1>18
  DEF Next, Gnat2why, Wrapper, Finished

(* Every variable keeps to its type.                                       *)
THEOREM TypeCorrect == Spec => []TypeOK
<1>1. Spec => []IndType
  BY InitIndType, NextIndType, PTL DEF Spec
<1> QED BY <1>1, PTL DEF IndType

-----------------------------------------------------------------------------
(* Run_Gnatwhy3 gives its first process to a job that never had one.       *)
LEMMA SpawnsNewJob ==
  ASSUME IndType, NEW u \in Units, Run_Gnatwhy3(u)
  PROVE  LET j == <<u, next[u]>> IN
         j \in Jobs /\ wrapper[j] = "none" /\ prover[j] = "none"
  BY ProofRunAssumption DEF IndType, TypeOK, Forward, Run_Gnatwhy3, Jobs

(* What is spawned, and when.                                              *)

LEMMA NextBuildOrder == IndType /\ BuildOrder /\ [Next]_vars => BuildOrder'
<1> SUFFICES ASSUME IndType, BuildOrder, [Next]_vars PROVE BuildOrder'
  OBVIOUS
<1>0. ~Started => \A j \in Jobs : wrapper[j] = "none"
  BY DEF IndType, Forward, BuildOrder, Jobs
<1> USE <1>0
<1>1. CASE ExecutePhase
  BY <1>1 DEF ExecutePhase, IndType, TypeOK, BuildOrder, Started, Alive, procVars, jobVars
<1>2. CASE Spawn_VC_Server_And_Semaphore
  BY <1>2 DEF Spawn_VC_Server_And_Semaphore, IndType, TypeOK, BuildOrder, Started, Alive, procVars, jobVars
<1>3. CASE Call_Gprbuild_Returns
  BY <1>3 DEF Call_Gprbuild_Returns, IndType, TypeOK, BuildOrder, Started, Alive, procVars, jobVars
<1>4. CASE CloseAndDeleteSemaphore
  BY <1>4 DEF CloseAndDeleteSemaphore, IndType, TypeOK, BuildOrder, Started, Alive, procVars, jobVars
<1>5. CASE Generate_Report
  BY <1>5 DEF Generate_Report, IndType, TypeOK, BuildOrder, Started, Alive, procVars, jobVars
<1>6. ASSUME NEW u \in Units, Launch(u) PROVE BuildOrder'
  BY <1>6 DEF Launch, IndType, TypeOK, BuildOrder, Started, Alive, procVars, jobVars
<1>7. ASSUME NEW u \in Units, AnalysisStops(u) PROVE BuildOrder'
  BY <1>7 DEF AnalysisStops, IndType, TypeOK, BuildOrder, Started, Alive, procVars, jobVars
<1>8. ASSUME NEW u \in Units, StartTranslation(u) PROVE BuildOrder'
  BY <1>8 DEF StartTranslation, IndType, TypeOK, BuildOrder, Started, Alive, procVars, jobVars
<1>9. ASSUME NEW u \in Units, Do_Generate_VCs(u) PROVE BuildOrder'
  BY <1>9 DEF Do_Generate_VCs, IndType, TypeOK, BuildOrder, Started, Alive, procVars, jobVars
<1>10. ASSUME NEW u \in Units, Run_Gnatwhy3(u) PROVE BuildOrder'
  BY <1>10 DEF Run_Gnatwhy3, IndType, TypeOK, BuildOrder, Started, Alive, procVars, jobVars
<1>11. ASSUME NEW u \in Units, Run_Gnatwhy3_Fails(u) PROVE BuildOrder'
  BY <1>11 DEF Run_Gnatwhy3_Fails, IndType, TypeOK, BuildOrder, Started, Alive, procVars, jobVars
<1>12. ASSUME NEW u \in Units, Collect_One_Result(u) PROVE BuildOrder'
  BY <1>12 DEF Collect_One_Result, IndType, TypeOK, BuildOrder, Started, Alive, procVars, jobVars
<1>13. ASSUME NEW u \in Units, TranslationDone(u) PROVE BuildOrder'
  BY <1>13 DEF TranslationDone, IndType, TypeOK, BuildOrder, Started, Alive, procVars, jobVars
<1>14. ASSUME NEW u \in Units, Create_JSON_File(u) PROVE BuildOrder'
  BY <1>14 DEF Create_JSON_File, IndType, TypeOK, BuildOrder, Started, Alive, procVars, jobVars
<1>15. ASSUME NEW j \in Jobs, Open(j) PROVE BuildOrder'
  BY <1>15 DEF Open, IndType, TypeOK, BuildOrder, Started, Alive, procVars, jobVars
<1>16. ASSUME NEW j \in Jobs, Wait(j) PROVE BuildOrder'
  BY <1>16 DEF Wait, IndType, TypeOK, BuildOrder, Started, Alive, procVars, jobVars
<1>17. ASSUME NEW j \in Jobs, Spawn(j) PROVE BuildOrder'
  BY <1>17 DEF Spawn, IndType, TypeOK, BuildOrder, Started, Alive, procVars, jobVars
<1>18. ASSUME NEW j \in Jobs, Release(j) PROVE BuildOrder'
  BY <1>18 DEF Release, IndType, TypeOK, BuildOrder, Started, Alive, procVars, jobVars
<1>19. ASSUME NEW j \in Jobs, OS_Exit(j) PROVE BuildOrder'
  BY <1>19 DEF OS_Exit, IndType, TypeOK, BuildOrder, Started, Alive, procVars, jobVars
<1>20. ASSUME NEW j \in Jobs, GnatWhy3Ends(j) PROVE BuildOrder'
  BY <1>20 DEF GnatWhy3Ends, IndType, TypeOK, BuildOrder, Started, Alive, procVars, jobVars
<1>21. ASSUME NEW j \in Jobs, KillWrapper(j) PROVE BuildOrder'
  BY <1>21 DEF KillWrapper, IndType, TypeOK, BuildOrder, Started, Alive, procVars, jobVars
<1>22. CASE UNCHANGED vars
  BY <1>22 DEF vars, procVars, jobVars, BuildOrder, Started, Alive
<1> QED
  BY <1>1, <1>2, <1>3, <1>4, <1>5, <1>6, <1>7, <1>8, <1>9, <1>10, <1>11,
     <1>12, <1>13, <1>14, <1>15, <1>16, <1>17, <1>18, <1>19, <1>20, <1>21, <1>22
  DEF Next, Gnatprove, Gnat2why, Wrapper, Finished

LEMMA NextHolders == IndType /\ Holders /\ [Next]_vars => Holders'
<1> SUFFICES ASSUME IndType, Holders, [Next]_vars PROVE Holders'
  OBVIOUS
<1>1. CASE ExecutePhase
  BY <1>1 DEF ExecutePhase, Holders, procVars, jobVars
<1>2. CASE Spawn_VC_Server_And_Semaphore
  BY <1>2 DEF Spawn_VC_Server_And_Semaphore, Holders, procVars, jobVars
<1>3. CASE Call_Gprbuild_Returns
  BY <1>3 DEF Call_Gprbuild_Returns, Holders, procVars, jobVars
<1>4. CASE CloseAndDeleteSemaphore
  BY <1>4 DEF CloseAndDeleteSemaphore, Holders, procVars, jobVars
<1>5. CASE Generate_Report
  BY <1>5 DEF Generate_Report, Holders, procVars, jobVars
<1>6. ASSUME NEW u \in Units, Launch(u) PROVE Holders'
  BY <1>6 DEF Launch, IndType, TypeOK, Holders, procVars, jobVars
<1>7. ASSUME NEW u \in Units, AnalysisStops(u) PROVE Holders'
  BY <1>7 DEF AnalysisStops, IndType, TypeOK, Holders, procVars, jobVars
<1>8. ASSUME NEW u \in Units, StartTranslation(u) PROVE Holders'
  BY <1>8 DEF StartTranslation, IndType, TypeOK, Holders, procVars, jobVars
<1>9. ASSUME NEW u \in Units, Do_Generate_VCs(u) PROVE Holders'
  BY <1>9 DEF Do_Generate_VCs, IndType, TypeOK, Holders, procVars, jobVars
<1>10. ASSUME NEW u \in Units, Run_Gnatwhy3(u) PROVE Holders'
  <2> DEFINE k == <<u, next[u]>>
  <2>1. k \in Jobs /\ wrapper[k] = "none" /\ prover[k] = "none"
    BY <1>10, SpawnsNewJob
  <2>2. CASE UseSemaphores
    <3>1. /\ wrapper' = [wrapper EXCEPT ![k] = "start"]
          /\ UNCHANGED <<prover, slot>>
      BY <1>10, <2>2 DEF Run_Gnatwhy3
    <3> QED BY <2>1, <2>2, <3>1 DEF Holders, IndType, TypeOK
  <2> QED BY <2>2 DEF Holders
<1>11. ASSUME NEW u \in Units, Run_Gnatwhy3_Fails(u) PROVE Holders'
  BY <1>11 DEF Run_Gnatwhy3_Fails, IndType, TypeOK, Holders, procVars, jobVars
<1>12. ASSUME NEW u \in Units, Collect_One_Result(u) PROVE Holders'
  BY <1>12 DEF Collect_One_Result, IndType, TypeOK, Holders, procVars, jobVars
<1>13. ASSUME NEW u \in Units, TranslationDone(u) PROVE Holders'
  BY <1>13 DEF TranslationDone, IndType, TypeOK, Holders, procVars, jobVars
<1>14. ASSUME NEW u \in Units, Create_JSON_File(u) PROVE Holders'
  BY <1>14 DEF Create_JSON_File, IndType, TypeOK, Holders, procVars, jobVars
<1>15. ASSUME NEW j \in Jobs, Open(j) PROVE Holders'
  BY <1>15 DEF Open, IndType, TypeOK, Holders, procVars, jobVars
<1>16. ASSUME NEW j \in Jobs, Wait(j) PROVE Holders'
  BY <1>16 DEF Wait, IndType, TypeOK, Holders, procVars, jobVars
<1>17. ASSUME NEW j \in Jobs, Spawn(j) PROVE Holders'
  BY <1>17 DEF Spawn, IndType, TypeOK, Holders, procVars, jobVars
<1>18. ASSUME NEW j \in Jobs, Release(j) PROVE Holders'
  BY <1>18 DEF Release, IndType, TypeOK, Holders, procVars, jobVars
<1>19. ASSUME NEW j \in Jobs, OS_Exit(j) PROVE Holders'
  BY <1>19 DEF OS_Exit, IndType, TypeOK, Holders, procVars, jobVars
<1>20. ASSUME NEW j \in Jobs, GnatWhy3Ends(j) PROVE Holders'
  BY <1>20 DEF GnatWhy3Ends, IndType, TypeOK, Holders, procVars, jobVars
<1>21. ASSUME NEW j \in Jobs, KillWrapper(j) PROVE Holders'
  BY <1>21 DEF KillWrapper, IndType, TypeOK, Holders, procVars, jobVars
<1>22. CASE UNCHANGED vars
  BY <1>22 DEF vars, procVars, jobVars, Holders
<1> QED
  BY <1>1, <1>2, <1>3, <1>4, <1>5, <1>6, <1>7, <1>8, <1>9, <1>10, <1>11,
     <1>12, <1>13, <1>14, <1>15, <1>16, <1>17, <1>18, <1>19, <1>20, <1>21, <1>22
  DEF Next, Gnatprove, Gnat2why, Wrapper, Finished

LEMMA NextNoHolders == IndType /\ NoHolders /\ [Next]_vars => NoHolders'
<1> SUFFICES ASSUME IndType, NoHolders, [Next]_vars PROVE NoHolders'
  OBVIOUS
<1>1. CASE ExecutePhase
  BY <1>1 DEF ExecutePhase, NoHolders, procVars, jobVars
<1>2. CASE Spawn_VC_Server_And_Semaphore
  BY <1>2 DEF Spawn_VC_Server_And_Semaphore, NoHolders, procVars, jobVars
<1>3. CASE Call_Gprbuild_Returns
  BY <1>3 DEF Call_Gprbuild_Returns, NoHolders, procVars, jobVars
<1>4. CASE CloseAndDeleteSemaphore
  BY <1>4 DEF CloseAndDeleteSemaphore, NoHolders, procVars, jobVars
<1>5. CASE Generate_Report
  BY <1>5 DEF Generate_Report, NoHolders, procVars, jobVars
<1>6. ASSUME NEW u \in Units, Launch(u) PROVE NoHolders'
  BY <1>6 DEF Launch, IndType, TypeOK, NoHolders, procVars, jobVars
<1>7. ASSUME NEW u \in Units, AnalysisStops(u) PROVE NoHolders'
  BY <1>7 DEF AnalysisStops, IndType, TypeOK, NoHolders, procVars, jobVars
<1>8. ASSUME NEW u \in Units, StartTranslation(u) PROVE NoHolders'
  BY <1>8 DEF StartTranslation, IndType, TypeOK, NoHolders, procVars, jobVars
<1>9. ASSUME NEW u \in Units, Do_Generate_VCs(u) PROVE NoHolders'
  BY <1>9 DEF Do_Generate_VCs, IndType, TypeOK, NoHolders, procVars, jobVars
<1>10. ASSUME NEW u \in Units, Run_Gnatwhy3(u) PROVE NoHolders'
  BY <1>10 DEF Run_Gnatwhy3, IndType, TypeOK, NoHolders, procVars, jobVars
<1>11. ASSUME NEW u \in Units, Run_Gnatwhy3_Fails(u) PROVE NoHolders'
  BY <1>11 DEF Run_Gnatwhy3_Fails, IndType, TypeOK, NoHolders, procVars, jobVars
<1>12. ASSUME NEW u \in Units, Collect_One_Result(u) PROVE NoHolders'
  BY <1>12 DEF Collect_One_Result, IndType, TypeOK, NoHolders, procVars, jobVars
<1>13. ASSUME NEW u \in Units, TranslationDone(u) PROVE NoHolders'
  BY <1>13 DEF TranslationDone, IndType, TypeOK, NoHolders, procVars, jobVars
<1>14. ASSUME NEW u \in Units, Create_JSON_File(u) PROVE NoHolders'
  BY <1>14 DEF Create_JSON_File, IndType, TypeOK, NoHolders, procVars, jobVars
<1>15. ASSUME NEW j \in Jobs, Open(j) PROVE NoHolders'
  BY <1>15 DEF Open, IndType, TypeOK, NoHolders, procVars, jobVars
<1>16. ASSUME NEW j \in Jobs, Wait(j) PROVE NoHolders'
  BY <1>16 DEF Wait, IndType, TypeOK, NoHolders, procVars, jobVars
<1>17. ASSUME NEW j \in Jobs, Spawn(j) PROVE NoHolders'
  BY <1>17 DEF Spawn, IndType, TypeOK, NoHolders, procVars, jobVars
<1>18. ASSUME NEW j \in Jobs, Release(j) PROVE NoHolders'
  BY <1>18 DEF Release, IndType, TypeOK, NoHolders, procVars, jobVars
<1>19. ASSUME NEW j \in Jobs, OS_Exit(j) PROVE NoHolders'
  BY <1>19 DEF OS_Exit, IndType, TypeOK, NoHolders, procVars, jobVars
<1>20. ASSUME NEW j \in Jobs, GnatWhy3Ends(j) PROVE NoHolders'
  BY <1>20 DEF GnatWhy3Ends, IndType, TypeOK, NoHolders, procVars, jobVars
<1>21. ASSUME NEW j \in Jobs, KillWrapper(j) PROVE NoHolders'
  BY <1>21 DEF KillWrapper, IndType, TypeOK, NoHolders, procVars, jobVars
<1>22. CASE UNCHANGED vars
  BY <1>22 DEF vars, procVars, jobVars, NoHolders
<1> QED
  BY <1>1, <1>2, <1>3, <1>4, <1>5, <1>6, <1>7, <1>8, <1>9, <1>10, <1>11,
     <1>12, <1>13, <1>14, <1>15, <1>16, <1>17, <1>18, <1>19, <1>20, <1>21, <1>22
  DEF Next, Gnatprove, Gnat2why, Wrapper, Finished

(* The arithmetic of the semaphore.                                        *)
LEMMA JobsFinite == IsFiniteSet(Jobs)
<1>1. 1 \in Int /\ MaxEntities \in Int /\ IsFiniteSet(Units)
  BY ProofRunAssumption
<1>2. IsFiniteSet(1..MaxEntities)
  BY <1>1, FS_Interval
<1> QED BY <1>1, <1>2, FS_Product DEF Jobs

LEMMA SlotFinite == IndType => IsFiniteSet(slot) /\ Cardinality(slot) \in Nat
  BY JobsFinite, FS_Subset, FS_CardinalityType DEF IndType, TypeOK

LEMMA NextSlotConservation ==
  IndType /\ BuildOrder /\ Holders /\ SlotConservation /\ [Next]_vars => SlotConservation'
<1> SUFFICES ASSUME IndType, BuildOrder, Holders, SlotConservation, [Next]_vars PROVE SlotConservation'
  OBVIOUS
<1> USE ProofRunAssumption
<1>0. IsFiniteSet(slot) /\ Cardinality(slot) \in Nat
  BY SlotFinite
<1>1. CASE ExecutePhase
  BY <1>1 DEF ExecutePhase, IndType, TypeOK, SlotConservation,
     SemaphoreCreated, procVars, jobVars
<1>2. CASE Spawn_VC_Server_And_Semaphore
  <2>1. slot = {} /\ slot' = slot
    BY <1>2 DEF Spawn_VC_Server_And_Semaphore, BuildOrder, Started, jobVars
  <2>2. Cardinality(slot') = 0
    BY <2>1, FS_EmptySet
  <2> QED
    BY <1>2, <2>2 DEF Spawn_VC_Server_And_Semaphore, SlotConservation,
       SemaphoreCreated
<1>3. CASE Call_Gprbuild_Returns
  BY <1>3 DEF Call_Gprbuild_Returns, IndType, TypeOK, SlotConservation,
     SemaphoreCreated, procVars, jobVars
<1>4. CASE CloseAndDeleteSemaphore
  BY <1>4 DEF CloseAndDeleteSemaphore, IndType, TypeOK, SlotConservation,
     SemaphoreCreated, procVars, jobVars
<1>5. CASE Generate_Report
  BY <1>5 DEF Generate_Report, IndType, TypeOK, SlotConservation,
     SemaphoreCreated, procVars, jobVars
<1>6. ASSUME NEW u \in Units, Launch(u) PROVE SlotConservation'
  BY <1>6 DEF Launch, IndType, TypeOK, SlotConservation, SemaphoreCreated,
     procVars, jobVars
<1>7. ASSUME NEW u \in Units, AnalysisStops(u) PROVE SlotConservation'
  BY <1>7 DEF AnalysisStops, IndType, TypeOK, SlotConservation,
     SemaphoreCreated, procVars, jobVars
<1>8. ASSUME NEW u \in Units, StartTranslation(u) PROVE SlotConservation'
  BY <1>8 DEF StartTranslation, IndType, TypeOK, SlotConservation,
     SemaphoreCreated, procVars, jobVars
<1>9. ASSUME NEW u \in Units, Do_Generate_VCs(u) PROVE SlotConservation'
  BY <1>9 DEF Do_Generate_VCs, IndType, TypeOK, SlotConservation,
     SemaphoreCreated, procVars, jobVars
<1>10. ASSUME NEW u \in Units, Run_Gnatwhy3(u) PROVE SlotConservation'
  BY <1>10 DEF Run_Gnatwhy3, IndType, TypeOK, SlotConservation,
     SemaphoreCreated, procVars, jobVars
<1>11. ASSUME NEW u \in Units, Run_Gnatwhy3_Fails(u) PROVE SlotConservation'
  BY <1>11 DEF Run_Gnatwhy3_Fails, IndType, TypeOK, SlotConservation,
     SemaphoreCreated, procVars, jobVars
<1>12. ASSUME NEW u \in Units, Collect_One_Result(u) PROVE SlotConservation'
  BY <1>12 DEF Collect_One_Result, IndType, TypeOK, SlotConservation,
     SemaphoreCreated, procVars, jobVars
<1>13. ASSUME NEW u \in Units, TranslationDone(u) PROVE SlotConservation'
  BY <1>13 DEF TranslationDone, IndType, TypeOK, SlotConservation,
     SemaphoreCreated, procVars, jobVars
<1>14. ASSUME NEW u \in Units, Create_JSON_File(u) PROVE SlotConservation'
  BY <1>14 DEF Create_JSON_File, IndType, TypeOK, SlotConservation,
     SemaphoreCreated, procVars, jobVars
<1>15. ASSUME NEW j \in Jobs, Open(j) PROVE SlotConservation'
  BY <1>15 DEF Open, IndType, TypeOK, SlotConservation, SemaphoreCreated,
     procVars, jobVars
<1>16. ASSUME NEW j \in Jobs, Wait(j) PROVE SlotConservation'
  <2>1. UseSemaphores => j \notin slot
    BY <1>16 DEF Wait, Holders
  <2>2. UseSemaphores => Cardinality(slot') = Cardinality(slot) + 1
    BY <1>16, <1>0, <2>1, FS_AddElement DEF Wait
  <2>3. sem'.value = sem.value - 1 /\ sem.value \in Nat
    BY <1>16 DEF Wait, IndType, TypeOK
  <2>4. gnatprove' = gnatprove
    BY <1>16 DEF Wait
  <2> QED
    BY <1>0, <2>2, <2>3, <2>4 DEF SlotConservation, SemaphoreCreated
<1>17. ASSUME NEW j \in Jobs, Spawn(j) PROVE SlotConservation'
  BY <1>17 DEF Spawn, IndType, TypeOK, SlotConservation, SemaphoreCreated,
     procVars, jobVars
<1>18. ASSUME NEW j \in Jobs, Release(j) PROVE SlotConservation'
  <2>1. UseSemaphores => j \in slot
    BY <1>18 DEF Release, Holders
  <2>2. UseSemaphores => Cardinality(slot') = Cardinality(slot) - 1
    BY <1>18, <1>0, <2>1, FS_RemoveElement DEF Release
  <2>3. sem'.value = sem.value + 1 /\ sem.value \in Nat
    BY <1>18 DEF Release, IndType, TypeOK
  <2>4. gnatprove' = gnatprove
    BY <1>18 DEF Release
  <2> QED
    BY <1>0, <2>2, <2>3, <2>4 DEF SlotConservation, SemaphoreCreated
<1>19. ASSUME NEW j \in Jobs, OS_Exit(j) PROVE SlotConservation'
  BY <1>19 DEF OS_Exit, IndType, TypeOK, SlotConservation, SemaphoreCreated,
     procVars, jobVars
<1>20. ASSUME NEW j \in Jobs, GnatWhy3Ends(j) PROVE SlotConservation'
  BY <1>20 DEF GnatWhy3Ends, IndType, TypeOK, SlotConservation,
     SemaphoreCreated, procVars, jobVars
<1>21. ASSUME NEW j \in Jobs, KillWrapper(j) PROVE SlotConservation'
  BY <1>21 DEF KillWrapper, IndType, TypeOK, SlotConservation,
     SemaphoreCreated, procVars, jobVars
<1>22. CASE UNCHANGED vars
  BY <1>22 DEF vars, procVars, jobVars, SlotConservation, SemaphoreCreated
<1> QED
  BY <1>1, <1>2, <1>3, <1>4, <1>5, <1>6, <1>7, <1>8, <1>9, <1>10, <1>11,
     <1>12, <1>13, <1>14, <1>15, <1>16, <1>17, <1>18, <1>19, <1>20, <1>21,
     <1>22
  DEF Next, Gnatprove, Gnat2why, Wrapper, Finished

-----------------------------------------------------------------------------
(* The children of a gnat2why.                                             *)

LEMMA NextOwnChildren ==
  IndType /\ OwnChildren /\ [Next]_vars => OwnChildren'
<1> SUFFICES ASSUME IndType, OwnChildren, [Next]_vars PROVE OwnChildren'
  OBVIOUS
<1>1. CASE ExecutePhase
  BY <1>1 DEF ExecutePhase, IndType, TypeOK, OwnChildren, MustCollectFirst,
     procVars, jobVars
<1>2. CASE Spawn_VC_Server_And_Semaphore
  BY <1>2 DEF Spawn_VC_Server_And_Semaphore, IndType, TypeOK, OwnChildren,
     MustCollectFirst, procVars, jobVars
<1>3. CASE Call_Gprbuild_Returns
  BY <1>3 DEF Call_Gprbuild_Returns, IndType, TypeOK, OwnChildren,
     MustCollectFirst, procVars, jobVars
<1>4. CASE CloseAndDeleteSemaphore
  BY <1>4 DEF CloseAndDeleteSemaphore, IndType, TypeOK, OwnChildren,
     MustCollectFirst, procVars, jobVars
<1>5. CASE Generate_Report
  BY <1>5 DEF Generate_Report, IndType, TypeOK, OwnChildren,
     MustCollectFirst, procVars, jobVars
<1>6. ASSUME NEW u \in Units, Launch(u) PROVE OwnChildren'
  BY <1>6 DEF Launch, IndType, TypeOK, OwnChildren, MustCollectFirst,
     procVars, jobVars
<1>7. ASSUME NEW u \in Units, AnalysisStops(u) PROVE OwnChildren'
  BY <1>7 DEF AnalysisStops, IndType, TypeOK, OwnChildren, MustCollectFirst,
     procVars, jobVars
<1>8. ASSUME NEW u \in Units, StartTranslation(u) PROVE OwnChildren'
  BY <1>8 DEF StartTranslation, IndType, TypeOK, OwnChildren,
     MustCollectFirst, procVars, jobVars
<1>9. ASSUME NEW u \in Units, Do_Generate_VCs(u) PROVE OwnChildren'
  BY <1>9 DEF Do_Generate_VCs, IndType, TypeOK, OwnChildren,
     MustCollectFirst, procVars, jobVars
<1>10. ASSUME NEW u \in Units, Run_Gnatwhy3(u) PROVE OwnChildren'
  <2> DEFINE k == <<u, next[u]>>
  <2>1. k \in {u} \X (1..MaxEntities)
    BY <1>10, SpawnsNewJob DEF Jobs
  <2>2. /\ Output_File_Map' = [Output_File_Map EXCEPT ![u] = @ \cup {k}]
        /\ unit' = [unit EXCEPT ![u] = "translate"]
        /\ ~UseSemaphores => Output_File_Map[u] = {}
    BY <1>10 DEF Run_Gnatwhy3, MustCollectFirst
  <2> QED BY <2>1, <2>2 DEF IndType, TypeOK, OwnChildren
<1>11. ASSUME NEW u \in Units, Run_Gnatwhy3_Fails(u) PROVE OwnChildren'
  BY <1>11 DEF Run_Gnatwhy3_Fails, IndType, TypeOK, OwnChildren,
     MustCollectFirst, procVars, jobVars
<1>12. ASSUME NEW u \in Units, Collect_One_Result(u) PROVE OwnChildren'
  BY <1>12 DEF Collect_One_Result, IndType, TypeOK, OwnChildren,
     MustCollectFirst, procVars, jobVars
<1>13. ASSUME NEW u \in Units, TranslationDone(u) PROVE OwnChildren'
  BY <1>13 DEF TranslationDone, IndType, TypeOK, OwnChildren,
     MustCollectFirst, procVars, jobVars
<1>14. ASSUME NEW u \in Units, Create_JSON_File(u) PROVE OwnChildren'
  BY <1>14 DEF Create_JSON_File, IndType, TypeOK, OwnChildren,
     MustCollectFirst, procVars, jobVars
<1>15. ASSUME NEW j \in Jobs, Open(j) PROVE OwnChildren'
  BY <1>15 DEF Open, IndType, TypeOK, OwnChildren, MustCollectFirst,
     procVars, jobVars
<1>16. ASSUME NEW j \in Jobs, Wait(j) PROVE OwnChildren'
  BY <1>16 DEF Wait, IndType, TypeOK, OwnChildren, MustCollectFirst,
     procVars, jobVars
<1>17. ASSUME NEW j \in Jobs, Spawn(j) PROVE OwnChildren'
  BY <1>17 DEF Spawn, IndType, TypeOK, OwnChildren, MustCollectFirst,
     procVars, jobVars
<1>18. ASSUME NEW j \in Jobs, Release(j) PROVE OwnChildren'
  BY <1>18 DEF Release, IndType, TypeOK, OwnChildren, MustCollectFirst,
     procVars, jobVars
<1>19. ASSUME NEW j \in Jobs, OS_Exit(j) PROVE OwnChildren'
  BY <1>19 DEF OS_Exit, IndType, TypeOK, OwnChildren, MustCollectFirst,
     procVars, jobVars
<1>20. ASSUME NEW j \in Jobs, GnatWhy3Ends(j) PROVE OwnChildren'
  BY <1>20 DEF GnatWhy3Ends, IndType, TypeOK, OwnChildren, MustCollectFirst,
     procVars, jobVars
<1>21. ASSUME NEW j \in Jobs, KillWrapper(j) PROVE OwnChildren'
  BY <1>21 DEF KillWrapper, IndType, TypeOK, OwnChildren, MustCollectFirst,
     procVars, jobVars
<1>22. CASE UNCHANGED vars
  BY <1>22 DEF vars, procVars, jobVars, OwnChildren
<1> QED
  BY <1>1, <1>2, <1>3, <1>4, <1>5, <1>6, <1>7, <1>8, <1>9, <1>10, <1>11,
     <1>12, <1>13, <1>14, <1>15, <1>16, <1>17, <1>18, <1>19, <1>20, <1>21,
     <1>22
  DEF Next, Gnatprove, Gnat2why, Wrapper, Finished

Matches(j) ==
  /\ j \in Output_File_Map[j[1]] <=> wrapper[j] \notin {"none", "reaped"}
  /\ j \in Output_File_Map[j[1]] => output[j] # "none"

LEMMA NextMapMatchesChildren ==
  IndType /\ OwnChildren /\ MapMatchesChildren /\ [Next]_vars => MapMatchesChildren'
<1> SUFFICES ASSUME IndType, OwnChildren, MapMatchesChildren, [Next]_vars,
                    NEW v \in Alive', NEW k \in 1..MaxEntities
             PROVE  Matches(<<v, k>>)'
  BY DEF MapMatchesChildren, Matches
<1> DEFINE i == <<v, k>>
<1>0. /\ v \in Units /\ i \in Jobs
      /\ v \in Alive => Matches(i)
  BY DEF Alive, Jobs, MapMatchesChildren, Matches
<1>1. CASE ExecutePhase
  BY <1>1, <1>0 DEF ExecutePhase, IndType, TypeOK, Alive, Matches, procVars,
     jobVars
<1>2. CASE Spawn_VC_Server_And_Semaphore
  BY <1>2, <1>0 DEF Spawn_VC_Server_And_Semaphore, IndType, TypeOK, Alive, Matches, procVars,
     jobVars
<1>3. CASE Call_Gprbuild_Returns
  BY <1>3, <1>0 DEF Call_Gprbuild_Returns, IndType, TypeOK, Alive, Matches, procVars,
     jobVars
<1>4. CASE CloseAndDeleteSemaphore
  BY <1>4, <1>0 DEF CloseAndDeleteSemaphore, IndType, TypeOK, Alive, Matches, procVars,
     jobVars
<1>5. CASE Generate_Report
  BY <1>5, <1>0 DEF Generate_Report, IndType, TypeOK, Alive, Matches, procVars,
     jobVars
<1>6. ASSUME NEW u \in Units, Launch(u) PROVE Matches(i)'
  <2>1. v = u => wrapper[i] = "none" /\ i \notin Output_File_Map[u]
    BY <1>6, <1>0 DEF Launch, IndType, Forward, OwnChildren
  <2> QED
    BY <1>6, <1>0, <2>1 DEF Launch, IndType, TypeOK, Alive, Matches, jobVars
<1>7. ASSUME NEW u \in Units, AnalysisStops(u) PROVE Matches(i)'
  BY <1>7, <1>0 DEF AnalysisStops, IndType, TypeOK, Alive, Matches, procVars,
     jobVars
<1>8. ASSUME NEW u \in Units, StartTranslation(u) PROVE Matches(i)'
  BY <1>8, <1>0 DEF StartTranslation, IndType, TypeOK, Alive, Matches, procVars,
     jobVars
<1>9. ASSUME NEW u \in Units, Do_Generate_VCs(u) PROVE Matches(i)'
  BY <1>9, <1>0 DEF Do_Generate_VCs, IndType, TypeOK, Alive, Matches, procVars,
     jobVars
<1>10. ASSUME NEW u \in Units, Run_Gnatwhy3(u) PROVE Matches(i)'
  BY <1>10, <1>0 DEF Run_Gnatwhy3, IndType, TypeOK, Alive, Matches, procVars,
     jobVars
<1>11. ASSUME NEW u \in Units, Run_Gnatwhy3_Fails(u) PROVE Matches(i)'
  BY <1>11, <1>0 DEF Run_Gnatwhy3_Fails, IndType, TypeOK, Alive, Matches, procVars,
     jobVars
<1>12. ASSUME NEW u \in Units, Collect_One_Result(u) PROVE Matches(i)'
  <2>1. PICK j \in Output_File_Map[u] :
          /\ wrapper[j] = "zombie"
          /\ wrapper' = [wrapper EXCEPT ![j] = "reaped"]
          /\ \/ /\ output' = [output EXCEPT ![j] = "none"]
                /\ Output_File_Map' = [Output_File_Map EXCEPT ![u] = @ \ {j}]
                /\ UNCHANGED unit
             \/ /\ unit' = [unit EXCEPT ![u] = "failed"]
                /\ UNCHANGED <<output, Output_File_Map>>
    BY <1>12 DEF Collect_One_Result
  <2>2. j \in Jobs /\ j[1] = u
    BY <2>1 DEF IndType, TypeOK, OwnChildren
  <2>3. CASE v = u
    BY <1>0, <2>1, <2>2, <2>3 DEF IndType, TypeOK, Alive, Matches
  <2>4. CASE v # u
    BY <1>0, <2>1, <2>2, <2>4 DEF IndType, TypeOK, Alive, Matches
  <2> QED BY <2>3, <2>4
<1>13. ASSUME NEW u \in Units, TranslationDone(u) PROVE Matches(i)'
  BY <1>13, <1>0 DEF TranslationDone, IndType, TypeOK, Alive, Matches, procVars,
     jobVars
<1>14. ASSUME NEW u \in Units, Create_JSON_File(u) PROVE Matches(i)'
  BY <1>14, <1>0 DEF Create_JSON_File, IndType, TypeOK, Alive, Matches, procVars,
     jobVars
<1>15. ASSUME NEW j \in Jobs, Open(j) PROVE Matches(i)'
  BY <1>15, <1>0 DEF Open, IndType, TypeOK, Alive, Matches, procVars,
     jobVars
<1>16. ASSUME NEW j \in Jobs, Wait(j) PROVE Matches(i)'
  BY <1>16, <1>0 DEF Wait, IndType, TypeOK, Alive, Matches, procVars,
     jobVars
<1>17. ASSUME NEW j \in Jobs, Spawn(j) PROVE Matches(i)'
  BY <1>17, <1>0 DEF Spawn, IndType, TypeOK, Alive, Matches, procVars,
     jobVars
<1>18. ASSUME NEW j \in Jobs, Release(j) PROVE Matches(i)'
  BY <1>18, <1>0 DEF Release, IndType, TypeOK, Alive, Matches, procVars,
     jobVars
<1>19. ASSUME NEW j \in Jobs, OS_Exit(j) PROVE Matches(i)'
  BY <1>19, <1>0 DEF OS_Exit, IndType, TypeOK, Alive, Matches, procVars,
     jobVars
<1>20. ASSUME NEW j \in Jobs, GnatWhy3Ends(j) PROVE Matches(i)'
  BY <1>20, <1>0 DEF GnatWhy3Ends, IndType, TypeOK, Alive, Matches, procVars,
     jobVars
<1>21. ASSUME NEW j \in Jobs, KillWrapper(j) PROVE Matches(i)'
  BY <1>21, <1>0 DEF KillWrapper, IndType, TypeOK, Alive, Matches, procVars,
     jobVars
<1>22. CASE UNCHANGED vars
  BY <1>22, <1>0 DEF vars, procVars, jobVars, Alive, Matches
<1> QED
  BY <1>1, <1>2, <1>3, <1>4, <1>5, <1>6, <1>7, <1>8, <1>9, <1>10, <1>11,
     <1>12, <1>13, <1>14, <1>15, <1>16, <1>17, <1>18, <1>19, <1>20, <1>21,
     <1>22
  DEF Next, Gnatprove, Gnat2why, Wrapper, Finished

-----------------------------------------------------------------------------
(* What a gnat2why leaves behind.                                          *)

LEMMA NextResultsEnded ==
  IndType /\ ResultsEnded /\ [Next]_vars => ResultsEnded'
<1> SUFFICES ASSUME IndType, ResultsEnded, [Next]_vars PROVE ResultsEnded'
  OBVIOUS
<1>1. CASE ExecutePhase
  BY <1>1 DEF ExecutePhase, IndType, TypeOK, ResultsEnded, procVars, jobVars
<1>2. CASE Spawn_VC_Server_And_Semaphore
  BY <1>2 DEF Spawn_VC_Server_And_Semaphore, IndType, TypeOK, ResultsEnded,
     procVars, jobVars
<1>3. CASE Call_Gprbuild_Returns
  BY <1>3 DEF Call_Gprbuild_Returns, IndType, TypeOK, ResultsEnded,
     procVars, jobVars
<1>4. CASE CloseAndDeleteSemaphore
  BY <1>4 DEF CloseAndDeleteSemaphore, IndType, TypeOK, ResultsEnded,
     procVars, jobVars
<1>5. CASE Generate_Report
  BY <1>5 DEF Generate_Report, IndType, TypeOK, ResultsEnded, procVars,
     jobVars
<1>6. ASSUME NEW u \in Units, Launch(u) PROVE ResultsEnded'
  BY <1>6 DEF Launch, IndType, TypeOK, ResultsEnded, procVars, jobVars
<1>7. ASSUME NEW u \in Units, AnalysisStops(u) PROVE ResultsEnded'
  BY <1>7 DEF AnalysisStops, IndType, TypeOK, ResultsEnded, procVars,
     jobVars
<1>8. ASSUME NEW u \in Units, StartTranslation(u) PROVE ResultsEnded'
  BY <1>8 DEF StartTranslation, IndType, TypeOK, ResultsEnded, procVars,
     jobVars
<1>9. ASSUME NEW u \in Units, Do_Generate_VCs(u) PROVE ResultsEnded'
  BY <1>9 DEF Do_Generate_VCs, IndType, TypeOK, ResultsEnded, procVars,
     jobVars
<1>10. ASSUME NEW u \in Units, Run_Gnatwhy3(u) PROVE ResultsEnded'
  <2> DEFINE k == <<u, next[u]>>
  <2>1. k \in Jobs /\ wrapper[k] = "none" /\ prover[k] = "none"
    BY <1>10, SpawnsNewJob
  <2>2. \A i \in Jobs : i # k => /\ output'[i] = output[i]
                                 /\ prover'[i] = prover[i]
                                 /\ wrapper'[i] = wrapper[i]
    BY <1>10, <2>1 DEF Run_Gnatwhy3, IndType, TypeOK
  <2>3. output'[k] = "empty"
    BY <1>10, <2>1 DEF Run_Gnatwhy3, IndType, TypeOK
  <2>4. \/ wrapper'[k] = "start" /\ prover'[k] = "none"
        \/ wrapper'[k] = "running"
    BY <1>10, <2>1 DEF Run_Gnatwhy3, IndType, TypeOK
  <2> QED BY <2>1, <2>2, <2>3, <2>4 DEF ResultsEnded
<1>11. ASSUME NEW u \in Units, Run_Gnatwhy3_Fails(u) PROVE ResultsEnded'
  BY <1>11 DEF Run_Gnatwhy3_Fails, IndType, TypeOK, ResultsEnded, procVars,
     jobVars
<1>12. ASSUME NEW u \in Units, Collect_One_Result(u) PROVE ResultsEnded'
  BY <1>12 DEF Collect_One_Result, IndType, TypeOK, ResultsEnded, procVars,
     jobVars
<1>13. ASSUME NEW u \in Units, TranslationDone(u) PROVE ResultsEnded'
  BY <1>13 DEF TranslationDone, IndType, TypeOK, ResultsEnded, procVars,
     jobVars
<1>14. ASSUME NEW u \in Units, Create_JSON_File(u) PROVE ResultsEnded'
  BY <1>14 DEF Create_JSON_File, IndType, TypeOK, ResultsEnded, procVars,
     jobVars
<1>15. ASSUME NEW j \in Jobs, Open(j) PROVE ResultsEnded'
  BY <1>15 DEF Open, IndType, TypeOK, ResultsEnded, procVars, jobVars
<1>16. ASSUME NEW j \in Jobs, Wait(j) PROVE ResultsEnded'
  BY <1>16 DEF Wait, IndType, TypeOK, ResultsEnded, procVars, jobVars
<1>17. ASSUME NEW j \in Jobs, Spawn(j) PROVE ResultsEnded'
  BY <1>17 DEF Spawn, IndType, TypeOK, ResultsEnded, procVars, jobVars
<1>18. ASSUME NEW j \in Jobs, Release(j) PROVE ResultsEnded'
  BY <1>18 DEF Release, IndType, TypeOK, ResultsEnded, procVars, jobVars
<1>19. ASSUME NEW j \in Jobs, OS_Exit(j) PROVE ResultsEnded'
  BY <1>19 DEF OS_Exit, IndType, TypeOK, ResultsEnded, procVars, jobVars
<1>20. ASSUME NEW j \in Jobs, GnatWhy3Ends(j) PROVE ResultsEnded'
  BY <1>20 DEF GnatWhy3Ends, IndType, TypeOK, ResultsEnded, procVars,
     jobVars
<1>21. ASSUME NEW j \in Jobs, KillWrapper(j) PROVE ResultsEnded'
  BY <1>21 DEF KillWrapper, IndType, TypeOK, ResultsEnded, procVars, jobVars
<1>22. CASE UNCHANGED vars
  BY <1>22 DEF vars, procVars, jobVars, ResultsEnded
<1> QED
  BY <1>1, <1>2, <1>3, <1>4, <1>5, <1>6, <1>7, <1>8, <1>9, <1>10, <1>11,
     <1>12, <1>13, <1>14, <1>15, <1>16, <1>17, <1>18, <1>19, <1>20, <1>21,
     <1>22
  DEF Next, Gnatprove, Gnat2why, Wrapper, Finished

LEMMA NextCollected ==
  IndType /\ OwnChildren /\ ResultsEnded /\ Collected /\ [Next]_vars => Collected'
<1> SUFFICES ASSUME IndType, OwnChildren, ResultsEnded, Collected, [Next]_vars PROVE Collected'
  OBVIOUS
<1>1. CASE ExecutePhase
  BY <1>1 DEF ExecutePhase, IndType, TypeOK, Forward, Collected, Jobs,
     procVars, jobVars
<1>2. CASE Spawn_VC_Server_And_Semaphore
  BY <1>2 DEF Spawn_VC_Server_And_Semaphore, IndType, TypeOK, Forward,
     Collected, Jobs, procVars, jobVars
<1>3. CASE Call_Gprbuild_Returns
  BY <1>3 DEF Call_Gprbuild_Returns, IndType, TypeOK, Forward, Collected,
     Jobs, procVars, jobVars
<1>4. CASE CloseAndDeleteSemaphore
  BY <1>4 DEF CloseAndDeleteSemaphore, IndType, TypeOK, Forward, Collected,
     Jobs, procVars, jobVars
<1>5. CASE Generate_Report
  BY <1>5 DEF Generate_Report, IndType, TypeOK, Forward, Collected, Jobs,
     procVars, jobVars
<1>6. ASSUME NEW u \in Units, Launch(u) PROVE Collected'
  BY <1>6 DEF Launch, IndType, TypeOK, Forward, Collected, Jobs, procVars,
     jobVars
<1>7. ASSUME NEW u \in Units, AnalysisStops(u) PROVE Collected'
  BY <1>7 DEF AnalysisStops, IndType, TypeOK, Forward, Collected, Jobs,
     procVars, jobVars
<1>8. ASSUME NEW u \in Units, StartTranslation(u) PROVE Collected'
  BY <1>8 DEF StartTranslation, IndType, TypeOK, Forward, Collected, Jobs,
     procVars, jobVars
<1>9. ASSUME NEW u \in Units, Do_Generate_VCs(u) PROVE Collected'
  BY <1>9 DEF Do_Generate_VCs, IndType, TypeOK, Forward, Collected, Jobs,
     procVars, jobVars
<1>10. ASSUME NEW u \in Units, Run_Gnatwhy3(u) PROVE Collected'
  <2> DEFINE k == <<u, next[u]>>
  <2>1. k \in Jobs /\ wrapper[k] = "none" /\ prover[k] = "none"
    BY <1>10, SpawnsNewJob
  <2>2. \A i \in Jobs : i # k => /\ output'[i] = output[i]
                                 /\ prover'[i] = prover[i]
                                 /\ wrapper'[i] = wrapper[i]
    BY <1>10, <2>1 DEF Run_Gnatwhy3, IndType, TypeOK
  <2>3. wrapper'[k] \in {"start", "running"}
    BY <1>10, <2>1 DEF Run_Gnatwhy3, IndType, TypeOK
  <2>4. /\ parsed' = parsed
        /\ \A v \in Units : unit'[v] # "failed" => unit[v] # "failed"
    BY <1>10 DEF Run_Gnatwhy3, IndType, TypeOK
  <2> QED BY <2>1, <2>2, <2>3, <2>4 DEF Collected, Jobs
<1>11. ASSUME NEW u \in Units, Run_Gnatwhy3_Fails(u) PROVE Collected'
  BY <1>11 DEF Run_Gnatwhy3_Fails, IndType, TypeOK, Forward, Collected,
     Jobs, procVars, jobVars
<1>12. ASSUME NEW u \in Units, Collect_One_Result(u) PROVE Collected'
  <2>1. PICK j \in Output_File_Map[u] :
          /\ wrapper[j] = "zombie"
          /\ wrapper' = [wrapper EXCEPT ![j] = "reaped"]
          /\ \/ /\ output[j] = "result"
                /\ parsed' = parsed \cup {j}
                /\ output' = [output EXCEPT ![j] = "none"]
                /\ UNCHANGED unit
             \/ /\ unit' = [unit EXCEPT ![u] = "failed"]
                /\ UNCHANGED <<parsed, output>>
    BY <1>12 DEF Collect_One_Result
  <2>2. j \in Jobs /\ j[1] = u /\ UNCHANGED prover
    BY <1>12, <2>1 DEF Collect_One_Result, IndType, TypeOK, OwnChildren
  <2>3. output[j] = "result" => prover[j] # "run"
    BY <2>2 DEF ResultsEnded
  <2> QED BY <2>1, <2>2, <2>3 DEF IndType, TypeOK, Collected, Jobs
<1>13. ASSUME NEW u \in Units, TranslationDone(u) PROVE Collected'
  BY <1>13 DEF TranslationDone, IndType, TypeOK, Forward, Collected, Jobs,
     procVars, jobVars
<1>14. ASSUME NEW u \in Units, Create_JSON_File(u) PROVE Collected'
  BY <1>14 DEF Create_JSON_File, IndType, TypeOK, Forward, Collected, Jobs,
     procVars, jobVars
<1>15. ASSUME NEW j \in Jobs, Open(j) PROVE Collected'
  BY <1>15 DEF Open, IndType, TypeOK, Forward, Collected, Jobs, procVars,
     jobVars
<1>16. ASSUME NEW j \in Jobs, Wait(j) PROVE Collected'
  BY <1>16 DEF Wait, IndType, TypeOK, Forward, Collected, Jobs, procVars,
     jobVars
<1>17. ASSUME NEW j \in Jobs, Spawn(j) PROVE Collected'
  BY <1>17 DEF Spawn, IndType, TypeOK, Forward, Collected, Jobs, procVars,
     jobVars
<1>18. ASSUME NEW j \in Jobs, Release(j) PROVE Collected'
  BY <1>18 DEF Release, IndType, TypeOK, Forward, Collected, Jobs, procVars,
     jobVars
<1>19. ASSUME NEW j \in Jobs, OS_Exit(j) PROVE Collected'
  BY <1>19 DEF OS_Exit, IndType, TypeOK, Forward, Collected, Jobs, procVars,
     jobVars
<1>20. ASSUME NEW j \in Jobs, GnatWhy3Ends(j) PROVE Collected'
  BY <1>20 DEF GnatWhy3Ends, IndType, TypeOK, Forward, Collected, Jobs,
     procVars, jobVars
<1>21. ASSUME NEW j \in Jobs, KillWrapper(j) PROVE Collected'
  BY <1>21 DEF KillWrapper, IndType, TypeOK, Forward, Collected, Jobs,
     procVars, jobVars
<1>22. CASE UNCHANGED vars
  BY <1>22 DEF vars, procVars, jobVars, Collected
<1> QED
  BY <1>1, <1>2, <1>3, <1>4, <1>5, <1>6, <1>7, <1>8, <1>9, <1>10, <1>11,
     <1>12, <1>13, <1>14, <1>15, <1>16, <1>17, <1>18, <1>19, <1>20, <1>21,
     <1>22
  DEF Next, Gnatprove, Gnat2why, Wrapper, Finished

LEMMA NextOutcomes ==
  IndType /\ BuildOrder /\ OwnChildren /\ MapMatchesChildren /\ Outcomes /\ [Next]_vars => Outcomes'
<1> SUFFICES ASSUME IndType, BuildOrder, OwnChildren, MapMatchesChildren, Outcomes, [Next]_vars PROVE Outcomes'
  OBVIOUS
<1>1. CASE ExecutePhase
  BY <1>1 DEF ExecutePhase, IndType, TypeOK, Forward, Outcomes, Progress,
     Jobs, procVars, jobVars
<1>2. CASE Spawn_VC_Server_And_Semaphore
  BY <1>2 DEF Spawn_VC_Server_And_Semaphore, IndType, TypeOK, Forward,
     Outcomes, Progress, Jobs, procVars, jobVars
<1>3. CASE Call_Gprbuild_Returns
  <2>1. UNCHANGED <<unit, json, wrapper>>
    BY <1>3 DEF Call_Gprbuild_Returns, procVars, jobVars
  <2>2. status' = "ok" => \A u \in Units : unit[u] = "ok"
    BY <1>3 DEF Call_Gprbuild_Returns, Exited, Failed
  <2> QED BY <1>3, <2>1, <2>2 DEF Call_Gprbuild_Returns, Outcomes
<1>4. CASE CloseAndDeleteSemaphore
  BY <1>4 DEF CloseAndDeleteSemaphore, IndType, TypeOK, Forward, Outcomes,
     Progress, Jobs, procVars, jobVars
<1>5. CASE Generate_Report
  BY <1>5 DEF Generate_Report, IndType, TypeOK, Forward, Outcomes, Progress,
     Jobs, procVars, jobVars
<1>6. ASSUME NEW u \in Units, Launch(u) PROVE Outcomes'
  BY <1>6 DEF Launch, IndType, TypeOK, Forward, Outcomes, Progress, Jobs,
     procVars, jobVars
<1>7. ASSUME NEW u \in Units, AnalysisStops(u) PROVE Outcomes'
  <2>1. \A j \in Jobs : j[1] = u => wrapper[j] = "none"
    BY <1>7 DEF AnalysisStops, IndType, Forward, Jobs
  <2>2. /\ json' \in {[json EXCEPT ![u] = exit[1]] : exit \in EarlyExits}
        /\ UNCHANGED <<wrapper, status, gnatprove>>
        /\ unit[u] = "analysis"
    BY <1>7 DEF AnalysisStops, jobVars
  <2>3. /\ json'[u] \in Progress \ {"Progress_Proof"}
        /\ \A v \in Units \ {u} : json'[v] = json[v]
    BY <2>2 DEF IndType, TypeOK, EarlyExits, Progress
  <2>4. \A v \in Units \ {u} : unit'[v] = unit[v]
    BY <1>7 DEF AnalysisStops, IndType, TypeOK
  <2> QED BY <2>1, <2>2, <2>3, <2>4 DEF Outcomes, Jobs
<1>8. ASSUME NEW u \in Units, StartTranslation(u) PROVE Outcomes'
  BY <1>8 DEF StartTranslation, IndType, TypeOK, Forward, Outcomes,
     Progress, Jobs, procVars, jobVars
<1>9. ASSUME NEW u \in Units, Do_Generate_VCs(u) PROVE Outcomes'
  BY <1>9 DEF Do_Generate_VCs, IndType, TypeOK, Forward, Outcomes, Progress,
     Jobs, procVars, jobVars
<1>10. ASSUME NEW u \in Units, Run_Gnatwhy3(u) PROVE Outcomes'
  BY <1>10 DEF Run_Gnatwhy3, IndType, TypeOK, Forward, Outcomes, Progress,
     Jobs, procVars, jobVars
<1>11. ASSUME NEW u \in Units, Run_Gnatwhy3_Fails(u) PROVE Outcomes'
  BY <1>11 DEF Run_Gnatwhy3_Fails, IndType, TypeOK, Forward, Outcomes,
     Progress, Jobs, procVars, jobVars
<1>12. ASSUME NEW u \in Units, Collect_One_Result(u) PROVE Outcomes'
  BY <1>12 DEF Collect_One_Result, IndType, TypeOK, Forward, Outcomes,
     Progress, Jobs, procVars, jobVars
<1>13. ASSUME NEW u \in Units, TranslationDone(u) PROVE Outcomes'
  BY <1>13 DEF TranslationDone, IndType, TypeOK, Forward, Outcomes,
     Progress, Jobs, procVars, jobVars
<1>14. ASSUME NEW u \in Units, Create_JSON_File(u) PROVE Outcomes'
  <2>1. /\ unit[u] = "collect"
        /\ Output_File_Map[u] = {}
        /\ json' = [json EXCEPT ![u] = "Progress_Proof"]
        /\ unit' = [unit EXCEPT ![u] = "ok"]
        /\ UNCHANGED <<wrapper, status, gnatprove>>
    BY <1>14 DEF Create_JSON_File, jobVars
  <2>2. \A j \in Jobs : j[1] = u => wrapper[j] \in {"none", "reaped"}
    BY <2>1 DEF MapMatchesChildren, Alive, Jobs
  <2> QED
    BY <2>1, <2>2 DEF IndType, TypeOK, Outcomes, Progress, Jobs
<1>15. ASSUME NEW j \in Jobs, Open(j) PROVE Outcomes'
  BY <1>15 DEF Open, IndType, TypeOK, Forward, Outcomes, Progress, Jobs,
     procVars, jobVars
<1>16. ASSUME NEW j \in Jobs, Wait(j) PROVE Outcomes'
  BY <1>16 DEF Wait, IndType, TypeOK, Forward, Outcomes, Progress, Jobs,
     procVars, jobVars
<1>17. ASSUME NEW j \in Jobs, Spawn(j) PROVE Outcomes'
  BY <1>17 DEF Spawn, IndType, TypeOK, Forward, Outcomes, Progress, Jobs,
     procVars, jobVars
<1>18. ASSUME NEW j \in Jobs, Release(j) PROVE Outcomes'
  BY <1>18 DEF Release, IndType, TypeOK, Forward, Outcomes, Progress, Jobs,
     procVars, jobVars
<1>19. ASSUME NEW j \in Jobs, OS_Exit(j) PROVE Outcomes'
  BY <1>19 DEF OS_Exit, IndType, TypeOK, Forward, Outcomes, Progress, Jobs,
     procVars, jobVars
<1>20. ASSUME NEW j \in Jobs, GnatWhy3Ends(j) PROVE Outcomes'
  BY <1>20 DEF GnatWhy3Ends, IndType, TypeOK, Forward, Outcomes, Progress,
     Jobs, procVars, jobVars
<1>21. ASSUME NEW j \in Jobs, KillWrapper(j) PROVE Outcomes'
  BY <1>21 DEF KillWrapper, IndType, TypeOK, Forward, Outcomes, Progress,
     Jobs, procVars, jobVars
<1>22. CASE UNCHANGED vars
  BY <1>22 DEF vars, procVars, jobVars, Outcomes
<1> QED
  BY <1>1, <1>2, <1>3, <1>4, <1>5, <1>6, <1>7, <1>8, <1>9, <1>10, <1>11,
     <1>12, <1>13, <1>14, <1>15, <1>16, <1>17, <1>18, <1>19, <1>20, <1>21,
     <1>22
  DEF Next, Gnatprove, Gnat2why, Wrapper, Finished

-----------------------------------------------------------------------------
(* Counting processes.                                                     *)
LEMMA AliveFinite == IsFiniteSet(Alive) /\ Cardinality(Alive) \in Nat
<1>1. Alive \in SUBSET Units
  BY DEF Alive
<1> QED BY <1>1, ProofRunAssumption, FS_Subset, FS_CardinalityType

LEMMA NextAliveBounded ==
  IndType /\ AliveBounded /\ [Next]_vars => AliveBounded'
<1> SUFFICES ASSUME IndType, AliveBounded, [Next]_vars PROVE AliveBounded'
  OBVIOUS
<1>1. CASE \E u \in Units : Launch(u)
  <2>1. PICK u \in Units : Launch(u)
    BY <1>1
  <2>2. Alive' = Alive \cup {u} /\ Cardinality(Alive) < Parallel
    BY <2>1 DEF Launch, IndType, TypeOK, Alive
  <2>3. Cardinality(Alive') <= Cardinality(Alive) + 1
    BY <2>2, AliveFinite, FS_AddElement
  <2>4. Cardinality(Alive') \in Nat
    BY <2>2, AliveFinite, FS_AddElement
  <2> QED
    BY <2>2, <2>3, <2>4, AliveFinite, ProofRunAssumption DEF AliveBounded
<1>2. CASE ~\E u \in Units : Launch(u)
  <2>1. Alive' \in SUBSET Alive
    <3>1. CASE Gnatprove
      BY <3>1 DEF Gnatprove, ExecutePhase, Spawn_VC_Server_And_Semaphore,
         Call_Gprbuild_Returns, CloseAndDeleteSemaphore, Generate_Report,
         procVars, Alive
    <3>2. ASSUME NEW u \in Units, Gnat2why(u) PROVE Alive' \in SUBSET Alive
      BY <3>2 DEF Gnat2why, AnalysisStops, StartTranslation, Do_Generate_VCs,
         Run_Gnatwhy3, Run_Gnatwhy3_Fails, Collect_One_Result,
         TranslationDone, Create_JSON_File, IndType, TypeOK, Alive
    <3>3. ASSUME NEW j \in Jobs, Wrapper(j) \/ GnatWhy3Ends(j) \/ KillWrapper(j)
          PROVE  Alive' \in SUBSET Alive
      BY <3>3 DEF Wrapper, Open, Wait, Spawn, Release, OS_Exit, GnatWhy3Ends,
         KillWrapper, procVars, Alive
    <3>4. CASE UNCHANGED vars
      BY <3>4 DEF vars, procVars, Alive
    <3> QED BY <1>2, <3>1, <3>2, <3>3, <3>4 DEF Next, Finished
  <2>2. Cardinality(Alive') \in Nat /\ Cardinality(Alive') <= Cardinality(Alive)
    BY <2>1, AliveFinite, FS_Subset, FS_CardinalityType
  <2> QED
    BY <2>2, AliveFinite, ProofRunAssumption DEF AliveBounded
<1> QED BY <1>1, <1>2

Leaks == {j \in slot : wrapper[j] \in {"zombie", "reaped"}}

LEMMA LeaksFinite == IndType => IsFiniteSet(Leaks) /\ Cardinality(Leaks) \in Nat
<1> SUFFICES ASSUME IndType PROVE IsFiniteSet(Leaks) /\ Cardinality(Leaks) \in Nat
  OBVIOUS
<1>1. IsFiniteSet(slot) /\ Leaks \in SUBSET slot
  BY SlotFinite DEF Leaks
<1> QED BY <1>1, FS_Subset, FS_CardinalityType

LEMMA NextLeaksAreKills ==
  IndType /\ IndType' /\ Holders /\ NoHolders /\ LeaksAreKills /\ [Next]_vars
    => LeaksAreKills'
<1> SUFFICES ASSUME IndType, IndType', Holders, NoHolders, LeaksAreKills,
                    [Next]_vars, ProverOnPath
             PROVE  Cardinality(Leaks') <= kills'
  BY DEF LeaksAreKills, Leaks
<1>0. /\ Cardinality(Leaks) <= kills /\ kills \in Nat
      /\ IsFiniteSet(Leaks) /\ Cardinality(Leaks) \in Nat
      /\ IsFiniteSet(Leaks') /\ Cardinality(Leaks') \in Nat
  <2>1. Leaks' \in SUBSET Jobs
    BY DEF Leaks, IndType, TypeOK
  <2>2. IsFiniteSet(Leaks') /\ Cardinality(Leaks') \in Nat
    BY <2>1, JobsFinite, FS_Subset, FS_CardinalityType
  <2>3. Cardinality(Leaks) <= kills /\ kills \in Nat
    BY DEF LeaksAreKills, Leaks, IndType, TypeOK
  <2> QED BY <2>2, <2>3, LeaksFinite
<1>1. CASE \E j \in Jobs : KillWrapper(j)
  <2>1. PICK j \in Jobs : KillWrapper(j)
    BY <1>1
  <2>2. Leaks' \in SUBSET (Leaks \cup {j}) /\ kills' = kills + 1
    BY <2>1 DEF KillWrapper, Leaks, IndType, TypeOK
  <2>3. Cardinality(Leaks') <= Cardinality(Leaks \cup {j})
    BY <1>0, <2>2, FS_AddElement, FS_Subset
  <2>4. /\ Cardinality(Leaks \cup {j}) <= Cardinality(Leaks) + 1
        /\ Cardinality(Leaks \cup {j}) \in Nat
    <3>1. IsFiniteSet(Leaks)
      BY <1>0
    <3>2. Cardinality(Leaks \cup {j}) =
            IF j \in Leaks THEN Cardinality(Leaks) ELSE Cardinality(Leaks) + 1
      BY <3>1, FS_AddElement
    <3> QED BY <1>0, <3>2
  <2> QED BY <1>0, <2>2, <2>3, <2>4
<1>2. CASE ~\E j \in Jobs : KillWrapper(j)
  <2>1. Leaks' \in SUBSET Leaks /\ kills' = kills
    <3>1. CASE Gnatprove
      BY <3>1 DEF Gnatprove, ExecutePhase, Spawn_VC_Server_And_Semaphore,
         Call_Gprbuild_Returns, CloseAndDeleteSemaphore, Generate_Report,
         jobVars, Leaks
    <3>2. ASSUME NEW u \in Units, Run_Gnatwhy3(u)
          PROVE  Leaks' \in SUBSET Leaks /\ kills' = kills
      BY <3>2 DEF Run_Gnatwhy3, IndType, TypeOK, Leaks
    <3>3. ASSUME NEW u \in Units, Collect_One_Result(u)
          PROVE  Leaks' \in SUBSET Leaks /\ kills' = kills
      BY <3>3 DEF Collect_One_Result, IndType, TypeOK, Leaks
    <3>4. ASSUME NEW u \in Units,
                 \/ Launch(u) \/ AnalysisStops(u) \/ StartTranslation(u)
                 \/ Do_Generate_VCs(u) \/ Run_Gnatwhy3_Fails(u)
                 \/ TranslationDone(u) \/ Create_JSON_File(u)
          PROVE  Leaks' \in SUBSET Leaks /\ kills' = kills
      BY <3>4 DEF Launch, AnalysisStops, StartTranslation, Do_Generate_VCs,
         Run_Gnatwhy3_Fails, TranslationDone, Create_JSON_File, jobVars, Leaks
    <3>5. ASSUME NEW j \in Jobs, Open(j)
          PROVE  Leaks' \in SUBSET Leaks /\ kills' = kills
      BY <3>5 DEF Open, Holders, NoHolders, IndType, TypeOK, Leaks
    <3>6. ASSUME NEW j \in Jobs, Wait(j)
          PROVE  Leaks' \in SUBSET Leaks /\ kills' = kills
      BY <3>6 DEF Wait, IndType, TypeOK, Leaks
    <3>7. ASSUME NEW j \in Jobs, Spawn(j)
          PROVE  Leaks' \in SUBSET Leaks /\ kills' = kills
      BY <3>7 DEF Spawn, IndType, TypeOK, Leaks
    <3>8. ASSUME NEW j \in Jobs, Release(j)
          PROVE  Leaks' \in SUBSET Leaks /\ kills' = kills
      BY <3>8 DEF Release, IndType, TypeOK, Leaks
    <3>9. ASSUME NEW j \in Jobs, OS_Exit(j)
          PROVE  Leaks' \in SUBSET Leaks /\ kills' = kills
      BY <3>9 DEF OS_Exit, Holders, NoHolders, IndType, TypeOK, Leaks
    <3>10. ASSUME NEW j \in Jobs, GnatWhy3Ends(j)
           PROVE  Leaks' \in SUBSET Leaks /\ kills' = kills
      BY <3>10 DEF GnatWhy3Ends, NoHolders, IndType, TypeOK, Leaks
    <3>11. CASE UNCHANGED vars
      BY <3>11 DEF vars, jobVars, Leaks
    <3> QED
      BY <1>2, <3>1, <3>2, <3>3, <3>4, <3>5, <3>6, <3>7, <3>8, <3>9, <3>10,
         <3>11
      DEF Next, Gnat2why, Wrapper, Finished
  <2>2. Cardinality(Leaks') <= Cardinality(Leaks)
    BY <1>0, <2>1, FS_Subset
  <2> QED BY <1>0, <2>1, <2>2
<1> QED BY <1>1, <1>2

-----------------------------------------------------------------------------
(* The inductive invariant, and the theorems.                              *)
IInv ==
  /\ IndType /\ BuildOrder /\ Holders /\ NoHolders /\ SlotConservation
  /\ OwnChildren /\ MapMatchesChildren /\ ResultsEnded /\ Collected /\ Outcomes
  /\ AliveBounded /\ LeaksAreKills

LEMMA InitIInv == Init => IInv
<1> SUFFICES ASSUME Init PROVE IInv
  OBVIOUS
<1> USE ProofRunAssumption
<1>1. IndType
  BY InitIndType
<1>2. BuildOrder /\ Holders /\ NoHolders /\ SlotConservation /\ OwnChildren
  BY DEF Init, BuildOrder, Started, Alive, Holders, NoHolders,
     SlotConservation, SemaphoreCreated, OwnChildren
<1>3. MapMatchesChildren /\ ResultsEnded /\ Collected /\ Outcomes
  BY DEF Init, MapMatchesChildren, Alive, ResultsEnded, Collected, Outcomes,
     Jobs
<1>4. AliveBounded
  <2>1. Alive = {}
    BY DEF Init, Alive
  <2> QED BY <2>1, FS_EmptySet DEF AliveBounded
<1>5. LeaksAreKills
  <2>1. Leaks = {} /\ kills = 0
    BY DEF Init, Leaks
  <2> QED BY <2>1, FS_EmptySet DEF LeaksAreKills, Leaks
<1> QED BY <1>1, <1>2, <1>3, <1>4, <1>5 DEF IInv

LEMMA NextIInv == IInv /\ [Next]_vars => IInv'
<1> SUFFICES ASSUME IInv, [Next]_vars PROVE IInv'
  OBVIOUS
<1> USE DEF IInv
<1>1. IndType' /\ BuildOrder' /\ Holders' /\ NoHolders'
  BY NextIndType, NextBuildOrder, NextHolders, NextNoHolders
<1>2. SlotConservation' /\ OwnChildren' /\ MapMatchesChildren'
  BY NextSlotConservation, NextOwnChildren, NextMapMatchesChildren
<1>3. ResultsEnded' /\ Collected' /\ Outcomes'
  BY NextResultsEnded, NextCollected, NextOutcomes
<1>4. AliveBounded' /\ LeaksAreKills'
  BY <1>1, NextAliveBounded, NextLeaksAreKills
<1> QED BY <1>1, <1>2, <1>3, <1>4

(* The inductive invariant holds throughout a run.                         *)
THEOREM Invariance == Spec => []IInv
  BY InitIInv, NextIInv, PTL DEF Spec

(* From the creation of the semaphore on, its value and the slots held by  *)
(* wrappers, dead ones included, always add up to -j.                      *)
THEOREM SlotsConserved == Spec => []SlotConservation
<1>1. IInv => SlotConservation
  BY DEF IInv
<1> QED BY <1>1, Invariance, PTL

(* Output_File_Map of a live gnat2why always names exactly the children    *)
(* that Wait_Process can still return, each with its result file.          *)
THEOREM ChildrenMatched == Spec => []MapMatchesChildren
<1>1. IInv => MapMatchesChildren
  BY DEF IInv
<1> QED BY <1>1, Invariance, PTL

(* Only a killed wrapper keeps its slot.                                   *)
THEOREM OnlyKillsLeak == Spec => []LeaksAreKills
<1>1. IInv => LeaksAreKills
  BY DEF IInv
<1> QED BY <1>1, Invariance, PTL

(* No wrapper of a live gnat2why finds the semaphore unlinked.             *)
THEOREM SemaphoreStays == Spec => []SemaphoreOutlivesWrappers
<1>1. IInv => SemaphoreOutlivesWrappers
  BY DEF IInv, BuildOrder, NoHolders, SemaphoreOutlivesWrappers
<1> QED BY <1>1, Invariance, PTL

(* A result file that says Progress_Proof speaks of gnatwhy3 runs that     *)
(* have all ended and been parsed.                                         *)
THEOREM ProofsComplete == Spec => []ProofIsComplete
<1>1. IInv => ProofIsComplete
  BY DEF IInv, Holders, NoHolders, Collected, Outcomes, ProofIsComplete, Jobs,
     IndType, TypeOK, ProofRunAssumption
<1> QED BY <1>1, Invariance, PTL

(* When gnatprove succeeds, it has read only results of this run and has   *)
(* left no process, file or semaphore behind.                              *)
THEOREM SuccessLeavesNothing == Spec => []SuccessIsClean
<1>1. IInv => SuccessIsClean
  BY DEF IInv, BuildOrder, Holders, NoHolders, Collected, Outcomes,
     SuccessIsClean, Jobs, IndType, TypeOK, ProofRunAssumption
<1> QED BY <1>1, Invariance, PTL

(* -j bounds the gnatwhy3 processes.  With semaphores each of them holds a *)
(* slot; without, each is the only child of its gnat2why, and gprbuild has *)
(* no more than -j of these.                                               *)
THEOREM ProversStayBounded == Spec => []ProversBounded
<1>1. IInv => ProversBounded
  <2> SUFFICES ASSUME IInv PROVE Cardinality(RunningProvers) <= Parallel
    BY DEF ProversBounded
  <2>1. CASE UseSemaphores
    <3>1. RunningProvers \in SUBSET slot
      BY <2>1 DEF IInv, Holders, RunningProvers
    <3>2. IsFiniteSet(slot) /\ Cardinality(slot) \in Nat
      BY SlotFinite DEF IInv
    <3>3. Cardinality(slot) <= Parallel
      <4>1. CASE Started
        BY <2>1, <3>2, <4>1, ProofRunAssumption
        DEF IInv, SlotConservation, SemaphoreCreated, Started, IndType, TypeOK
      <4>2. CASE ~Started
        BY <4>2, FS_EmptySet, ProofRunAssumption DEF IInv, BuildOrder
      <4> QED BY <4>1, <4>2
    <3>4. Cardinality(RunningProvers) \in Nat
      BY <3>1, <3>2, FS_Subset, FS_CardinalityType
    <3>5. Cardinality(RunningProvers) <= Cardinality(slot)
      BY <3>1, <3>2, FS_Subset
    <3> QED BY <3>2, <3>3, <3>4, <3>5, ProofRunAssumption
  <2>2. CASE ~UseSemaphores
    <3> DEFINE f == [j \in RunningProvers |-> j[1]]
    <3>1. \A j \in RunningProvers : j[1] \in Alive /\ j \in Output_File_Map[j[1]]
      BY <2>2 DEF IInv, NoHolders, MapMatchesChildren, RunningProvers, Jobs
    <3>2. f \in Injection(RunningProvers, Alive)
      <4>1. \A i, j \in RunningProvers : i[1] = j[1] => i = j
        BY <2>2, <3>1 DEF IInv, OwnChildren, Alive
      <4> QED BY <3>1, <4>1 DEF Injection, IsInjective
    <3>3. Cardinality(RunningProvers) <= Cardinality(Alive)
      BY <3>2, AliveFinite, FS_Injection
    <3>4. Cardinality(RunningProvers) \in Nat
      BY <3>2, AliveFinite, FS_Injection, FS_CardinalityType
    <3> QED BY <3>3, <3>4, AliveFinite, ProofRunAssumption DEF IInv, AliveBounded
  <2> QED BY <2>1, <2>2
<1> QED BY <1>1, Invariance, PTL
=============================================================================

-------------------------- MODULE ProofClaims_proofs --------------------------
(***************************************************************************)
(* Proofs about ProofClaims, for every set of entities and any number of   *)
(* VCs and of gnatwhy3 processes.                                          *)
(***************************************************************************)
EXTENDS ProofClaims, TLAPS

VC == [E : Entities, Kind : VC_Kinds]

(* Where entities are: visited at most once, and being generated, being    *)
(* proved, or neither.                                                     *)
Control ==
  /\ Keys \cap todo = {}
  /\ running \subseteq Keys
  /\ Current_Subp # None => Current_Subp \in Keys \ running
  /\ phase = "run_why3" => Current_Subp # None
  /\ phase \in {"collect", "done"} => Current_Subp = None
  /\ phase = "done" => running = {}
  /\ \A id \in Ids : VC_Table[id].E \in Keys

(* No result of gnatwhy3 is there before the run is collected.             *)
NotYet ==
  \A r \in proved :
    VC_Table[r[1]].Kind # "static" =>
      /\ VC_Table[r[1]].E \notin running
      /\ VC_Table[r[1]].E # Current_Subp

(* TableIsUnproved, VC by VC.                                              *)
Unproved(id) ==
  /\ VC_Table[id].Kind # "warning"
  /\ <<id, "whole">> \notin proved /\ <<id, "preserv">> \notin proved

InTable(e, id) ==
  id \in VC_Set_Table[e] <=> VC_Table[id].E = e /\ Unproved(id)

TableByVC == \A e \in Keys, id \in Ids : InTable(e, id)

OnlyChecks(e) == \A id \in VCs(e) : VC_Table[id].Kind \in {"check", "warning"}

(* A claimed entity that has only checks for gnatwhy3 has none left, and   *)
(* gets no more of them.                                                   *)
ClaimsAreEmpty ==
  \A e \in Claims :
    /\ e \in Keys
    /\ OnlyChecks(e) => /\ VC_Set_Table[e] = {}
                        /\ phase = "generate" => Current_Subp # e

(* When a run was needed, the last one is collected after the last entity  *)
(* was visited, and claims all the entities without a check left.          *)
LastRun ==
  /\ phase = "generate" =>
       \A id \in Ids : VC_Table[id].Kind # "static" =>
         running # {} \/ VC_Table[id].E = Current_Subp
  /\ phase \in {"collect", "done"} /\ running = {} =>
       \/ \A id \in Ids : VC_Table[id].Kind = "static"
       \/ EmptyKeys \cap Claimable \subseteq Claims

-----------------------------------------------------------------------------
LEMMA AppendVC ==
  ASSUME NEW R, NEW s \in Seq(R), NEW v \in R
  PROVE  /\ Append(s, v) \in Seq(R)
         /\ DOMAIN Append(s, v) = DOMAIN s \cup {Len(s) + 1}
         /\ Len(s) + 1 \notin DOMAIN s
         /\ \A i \in DOMAIN s : Append(s, v)[i] = s[i]
         /\ Append(s, v)[Len(s) + 1] = v
  OBVIOUS

LEMMA InitType == Init => TypeOK /\ Control
<1> SUFFICES ASSUME Init PROVE TypeOK /\ Control
  OBVIOUS
<1>1. Keys = {} /\ VC_Set_Table \in [Keys -> SUBSET Ids]
  BY DEF Init, Keys
<1>2. Ids = {} /\ VC_Table \in Seq([E : Entities, Kind : VC_Kinds])
  BY DEF Init, Ids
<1> QED BY <1>1, <1>2 DEF Init, TypeOK, Control

LEMMA NextType == TypeOK /\ Control /\ [Next]_vars => TypeOK' /\ Control'
<1> SUFFICES ASSUME TypeOK, Control, [Next]_vars PROVE TypeOK' /\ Control'
  OBVIOUS
<1> USE ProofClaimsAssumption
<1>1. ASSUME NEW e \in Entities, PassOver(e) PROVE TypeOK' /\ Control'
  BY <1>1 DEF PassOver, TypeOK, Control, Keys, Ids, Results
<1>2. ASSUME NEW e \in Entities, Generate_VCs(e) PROVE TypeOK' /\ Control'
  BY <1>2 DEF Generate_VCs, Register_VC_Entity, TypeOK, Control, Keys, Ids, Results
<1>3. ASSUME NEW e \in Entities, Generate_VCs_For_LSP(e) PROVE TypeOK' /\ Control'
  BY <1>3 DEF Generate_VCs_For_LSP, Register_VC_Entity, TypeOK, Control, Keys, Ids, Results
<1>4. ASSUME NEW e \in Entities, NEW kind \in Kinds, Register_VC(e, kind)
      PROVE  TypeOK' /\ Control'
  <2> DEFINE v == [E |-> e, Kind |-> kind]
  <2>1. v \in VC
    BY DEF VC
  <2>2. VC_Table \in Seq(VC) /\ VC_Table' = Append(VC_Table, v)
    BY <1>4 DEF Register_VC, TypeOK, VC
  <2>3. /\ VC_Table' \in Seq(VC)
        /\ Ids' = Ids \cup {Len(VC_Table) + 1}
        /\ \A i \in Ids : VC_Table'[i] = VC_Table[i]
        /\ VC_Table'[Len(VC_Table) + 1] = v
    BY <2>1, <2>2, AppendVC DEF Ids
  <2>4. e \in Keys /\ Keys' = Keys /\ VC_Set_Table' \in [Keys -> SUBSET Ids']
    BY <1>4, <2>3 DEF Register_VC, MayRegister, TypeOK, Control, Keys
  <2>5. proved' \subseteq Results(Ids)'
    BY <1>4, <2>3 DEF Register_VC, TypeOK, Results
  <2>6. TypeOK'
    BY <1>4, <2>3, <2>4, <2>5 DEF Register_VC, TypeOK, VC
  <2>7. Control'
    <3>1. \A id \in Ids' : VC_Table'[id].E \in Keys
      BY <2>3, <2>4 DEF Control
    <3> QED BY <1>4, <2>4, <3>1 DEF Register_VC, MayRegister, Control
  <2> QED BY <2>6, <2>7
<1>5. ASSUME NEW e \in Entities, NEW isProved \in BOOLEAN,
             Emit_Static_Proof_Result(e, isProved)
      PROVE  TypeOK' /\ Control'
  <2> DEFINE v == [E |-> e, Kind |-> "static"]
  <2>1. v \in VC
    BY DEF VC, VC_Kinds
  <2>2. VC_Table \in Seq(VC) /\ VC_Table' = Append(VC_Table, v)
    BY <1>5 DEF Emit_Static_Proof_Result, TypeOK, VC
  <2>3. /\ VC_Table' \in Seq(VC)
        /\ Ids' = Ids \cup {Len(VC_Table) + 1}
        /\ \A i \in Ids : VC_Table'[i] = VC_Table[i]
        /\ VC_Table'[Len(VC_Table) + 1] = v
    BY <2>1, <2>2, AppendVC DEF Ids
  <2>4. e \in Keys /\ Keys' = Keys /\ VC_Set_Table' \in [Keys -> SUBSET Ids']
    BY <1>5, <2>3 DEF Emit_Static_Proof_Result, MayRegister, TypeOK, Control, Keys
  <2>5. proved' \subseteq Results(Ids)'
    <3>1. <<Len(VC_Table) + 1, "whole">> \in Results(Ids)'
      BY <2>3 DEF Results, Parts
    <3>2. proved \subseteq Results(Ids)'
      BY <2>3 DEF TypeOK, Results
    <3> QED BY <1>5, <3>1, <3>2 DEF Emit_Static_Proof_Result
  <2>6. TypeOK'
    BY <1>5, <2>3, <2>4, <2>5 DEF Emit_Static_Proof_Result, TypeOK, VC
  <2>7. Control'
    <3>1. \A id \in Ids' : VC_Table'[id].E \in Keys
      BY <2>3, <2>4 DEF Control
    <3> QED
      BY <1>5, <2>4, <3>1 DEF Emit_Static_Proof_Result, MayRegister, Control
  <2> QED BY <2>6, <2>7
<1>6. ASSUME NEW e \in Entities, NothingToProve(e) PROVE TypeOK' /\ Control'
  BY <1>6 DEF NothingToProve, TypeOK, Control, Keys, Ids, Results
<1>7. ASSUME NEW e \in Entities, PrepareRun(e) PROVE TypeOK' /\ Control'
  BY <1>7 DEF PrepareRun, TypeOK, Control, Keys, Ids, Results
<1>8. ASSUME NEW e \in Entities, Run_Gnatwhy3(e) PROVE TypeOK' /\ Control'
  BY <1>8 DEF Run_Gnatwhy3, TypeOK, Control, Keys, Ids, Results
<1>9. ASSUME NEW e \in Entities, Collect_One_Result(e) PROVE TypeOK' /\ Control'
  <2>1. PICK good \in SUBSET Results(Why3_VCs(e)) :
          /\ proved' = proved \cup good
          /\ VC_Set_Table' = [VC_Set_Table EXCEPT ![e] = LeftOf(e, {r \in good : Counts(r)})]
    BY <1>9 DEF Collect_One_Result
  <2>2. Why3_VCs(e) \subseteq Ids
    BY DEF Why3_VCs, VCs
  <2>3. Keys' = Keys /\ VC_Set_Table' \in [Keys -> SUBSET Ids]
    BY <2>1 DEF TypeOK, Keys, LeftOf
  <2>4. proved' \subseteq Results(Ids) /\ Ids' = Ids /\ Results(Ids)' = Results(Ids)
    BY <1>9, <2>1, <2>2 DEF Collect_One_Result, TypeOK, Results, Ids
  <2>5. Claims' \subseteq Claimable /\ raised' \in BOOLEAN
    BY <1>9 DEF Collect_One_Result, TypeOK
  <2>6. TypeOK'
    BY <1>9, <2>3, <2>4, <2>5 DEF Collect_One_Result, TypeOK
  <2>7. Control'
    BY <1>9, <2>3, <2>4 DEF Collect_One_Result, Control
  <2> QED BY <2>6, <2>7
<1>10. ASSUME NEW e \in Entities, Handle_Error(e) PROVE TypeOK' /\ Control'
  BY <1>10 DEF Handle_Error, TypeOK, Control, Keys, Ids, Results
<1>11. CASE TranslationDone
  BY <1>11 DEF TranslationDone, TypeOK, Control, Keys, Ids, Results
<1>12. CASE Create_JSON_File
  BY <1>12 DEF Create_JSON_File, TypeOK, Control, Keys, Ids, Results
<1>13. CASE UNCHANGED vars
  BY <1>13 DEF vars, TypeOK, Control, Keys, Ids, Results
<1> QED
  BY <1>1, <1>2, <1>3, <1>4, <1>5, <1>6, <1>7, <1>8, <1>9, <1>10, <1>11, <1>12,
     <1>13
  DEF Next, Step

-----------------------------------------------------------------------------
(* The table.                                                              *)
LEMMA TableForms == TypeOK => (TableIsUnproved <=> TableByVC)
  BY DEF TypeOK, TableIsUnproved, TableByVC, InTable, Unproved, Checks,
     VCs

(* The effect of a registration on VC_Table.                               *)
LEMMA Registered ==
  ASSUME TypeOK, NEW e \in Entities, NEW kind \in VC_Kinds,
         VC_Table' = Append(VC_Table, [E |-> e, Kind |-> kind])
  PROVE  LET n == Len(VC_Table) + 1 IN
         /\ Ids' = Ids \cup {n} /\ n \notin Ids
         /\ \A id \in Ids : VC_Table'[id] = VC_Table[id]
         /\ VC_Table'[n].E = e /\ VC_Table'[n].Kind = kind
         /\ \A r \in proved : r[1] \in Ids /\ r[1] # n
<1> DEFINE v == [E |-> e, Kind |-> kind]
<1>1. v \in VC /\ VC_Table \in Seq(VC)
  BY DEF TypeOK, VC
<1>2. \A r \in proved : r[1] \in Ids
  BY DEF TypeOK, Results
<1> QED BY <1>1, <1>2, AppendVC DEF Ids

(* What a collection adds to proved, and takes out of the table.           *)
LEMMA Collects ==
  ASSUME TypeOK, Control, NEW e \in Entities, Collect_One_Result(e)
  PROVE  \E good \in SUBSET Results(Why3_VCs(e)) :
           /\ proved' = proved \cup good
           /\ \A r \in good : /\ r[1] \in Ids /\ VC_Table[r[1]].E = e
                             /\ VC_Table[r[1]].Kind # "static"
                             /\ r[2] \in Parts(VC_Table[r[1]].Kind)
           /\ \A f \in Keys : f # e => VC_Set_Table'[f] = VC_Set_Table[f]
           /\ \A id \in Ids :
                 id \in VC_Set_Table'[e] <=>
                   /\ id \in VC_Set_Table[e]
                   /\ ~\E r \in good : r[1] = id /\ Counts(r)
           /\ UNCHANGED <<VC_Table, Keys, Ids>>
<1>1. PICK good \in SUBSET Results(Why3_VCs(e)) :
        /\ proved' = proved \cup good
        /\ VC_Set_Table' = [VC_Set_Table EXCEPT ![e] =
                              LeftOf(e, {r \in good : Counts(r)})]
  BY DEF Collect_One_Result
<1>2. e \in Keys /\ UNCHANGED <<VC_Table, Keys, Ids>>
  BY <1>1 DEF Collect_One_Result, Control, TypeOK, Keys, Ids
<1>3. \A r \in good : /\ r[1] \in Ids /\ VC_Table[r[1]].E = e
                     /\ VC_Table[r[1]].Kind # "static"
                     /\ r[2] \in Parts(VC_Table[r[1]].Kind)
  BY DEF Results, Why3_VCs, VCs
<1>4. VC_Set_Table'[e] = LeftOf(e, {r \in good : Counts(r)})
  BY <1>1, <1>2 DEF TypeOK
<1>5. \A f \in Keys : f # e => VC_Set_Table'[f] = VC_Set_Table[f]
  BY <1>1, <1>2 DEF TypeOK
<1> QED BY <1>1, <1>2, <1>3, <1>4, <1>5 DEF LeftOf

LEMMA InitTable == Init => TableByVC /\ NotYet /\ DeletesOnce
  BY DEF Init, TableByVC, Keys, NotYet, DeletesOnce

LEMMA NextTable ==
  TypeOK /\ Control /\ TableByVC /\ [Next]_vars => TableByVC'
<1> SUFFICES ASSUME TypeOK, Control, TableByVC, [Next]_vars,
                    NEW f \in Keys', NEW i \in Ids'
             PROVE  InTable(f, i)'
  BY DEF TableByVC
<1> USE ProofClaimsAssumption
<1>0. /\ f \in Keys /\ i \in Ids => InTable(f, i)
      /\ i \in Ids => VC_Table[i].E \in Keys
      /\ \A g \in Keys : VC_Set_Table[g] \subseteq Ids
  BY DEF TableByVC, Control, TypeOK
<1>1. ASSUME NEW e \in Entities, Generate_VCs(e) PROVE InTable(f, i)'
  <2>1. /\ VC_Set_Table'[f] = IF f \in Keys THEN VC_Set_Table[f] ELSE {}
        /\ VC_Table' = VC_Table /\ proved' = proved /\ i \in Ids
    BY <1>1 DEF Generate_VCs, Register_VC_Entity, Keys, Ids
  <2> QED BY <1>0, <2>1 DEF InTable, Unproved
<1>2. ASSUME NEW e \in Entities, Generate_VCs_For_LSP(e) PROVE InTable(f, i)'
  <2>1. /\ VC_Set_Table'[f] = IF f \in Keys THEN VC_Set_Table[f] ELSE {}
        /\ VC_Table' = VC_Table /\ proved' = proved /\ i \in Ids
    BY <1>2 DEF Generate_VCs_For_LSP, Register_VC_Entity, Keys, Ids
  <2> QED BY <1>0, <2>1 DEF InTable, Unproved
<1>3. ASSUME NEW e \in Entities, NEW kind \in Kinds, Register_VC(e, kind)
      PROVE  InTable(f, i)'
  <2> DEFINE n == Len(VC_Table) + 1
  <2>1. /\ Ids' = Ids \cup {n} /\ n \notin Ids
        /\ \A id \in Ids : VC_Table'[id] = VC_Table[id]
        /\ VC_Table'[n].E = e /\ VC_Table'[n].Kind = kind
        /\ \A r \in proved : r[1] # n
    BY <1>3, Registered DEF Register_VC
  <2>2. /\ e \in Keys /\ Keys' = Keys /\ proved' = proved
        /\ \A g \in Keys : g # e => VC_Set_Table'[g] = VC_Set_Table[g]
        /\ VC_Set_Table'[e] = IF kind = "warning" THEN VC_Set_Table[e]
                              ELSE VC_Set_Table[e] \cup {n}
    BY <1>3 DEF Register_VC, MayRegister, TypeOK, Control, Keys
  <2>3. CASE i = n
    BY <1>0, <2>1, <2>2, <2>3 DEF InTable, Unproved
  <2>4. CASE i # n
    BY <1>0, <2>1, <2>2, <2>4 DEF InTable, Unproved
  <2> QED BY <2>3, <2>4
<1>4. ASSUME NEW e \in Entities, NEW isProved \in BOOLEAN,
             Emit_Static_Proof_Result(e, isProved)
      PROVE  InTable(f, i)'
  <2> DEFINE n == Len(VC_Table) + 1
  <2>1. /\ Ids' = Ids \cup {n} /\ n \notin Ids
        /\ \A id \in Ids : VC_Table'[id] = VC_Table[id]
        /\ VC_Table'[n].E = e /\ VC_Table'[n].Kind = "static"
        /\ \A r \in proved : r[1] # n
    BY <1>4, Registered DEF Emit_Static_Proof_Result, VC_Kinds
  <2>2. /\ e \in Keys /\ Keys' = Keys
        /\ proved' = IF isProved THEN proved \cup {<<n, "whole">>} ELSE proved
        /\ \A g \in Keys : g # e => VC_Set_Table'[g] = VC_Set_Table[g]
        /\ VC_Set_Table'[e] = IF isProved THEN VC_Set_Table[e]
                              ELSE VC_Set_Table[e] \cup {n}
    BY <1>4 DEF Emit_Static_Proof_Result, MayRegister, TypeOK, Control, Keys
  <2>3. CASE i = n
    BY <1>0, <2>1, <2>2, <2>3 DEF InTable, Unproved
  <2>4. CASE i # n
    BY <1>0, <2>1, <2>2, <2>4 DEF InTable, Unproved
  <2> QED BY <2>3, <2>4
<1>5. ASSUME NEW e \in Entities, Collect_One_Result(e) PROVE InTable(f, i)'
  <2>1. PICK good \in SUBSET Results(Why3_VCs(e)) :
           /\ proved' = proved \cup good
           /\ \A r \in good : /\ r[1] \in Ids /\ VC_Table[r[1]].E = e
                             /\ VC_Table[r[1]].Kind # "static"
                             /\ r[2] \in Parts(VC_Table[r[1]].Kind)
           /\ \A g \in Keys : g # e => VC_Set_Table'[g] = VC_Set_Table[g]
           /\ \A id \in Ids :
                 id \in VC_Set_Table'[e] <=>
                   /\ id \in VC_Set_Table[e]
                   /\ ~\E r \in good : r[1] = id /\ Counts(r)
           /\ UNCHANGED <<VC_Table, Keys, Ids>>
    BY <1>5, Collects
  <2>2. \A id \in Ids : VC_Table[id].Kind # "warning" =>
          ((\E r \in good : r[1] = id /\ Counts(r)) <=>
             <<id, "whole">> \in good \/ <<id, "preserv">> \in good)
    <3>1. \A r \in good : r = <<r[1], r[2]>> /\ r[2] \in {"whole", "init", "preserv"}
      BY DEF Results
    <3> QED BY <3>1 DEF Counts
  <2>3. \A id \in Ids :
          (<<id, "whole">> \in good \/ <<id, "preserv">> \in good)
            => VC_Table[id].E = e
    BY <2>1
  <2> QED BY <1>0, <2>1, <2>2, <2>3 DEF InTable, Unproved
<1>6. ASSUME NEW e \in Entities,
             \/ PassOver(e) \/ NothingToProve(e) \/ PrepareRun(e)
             \/ Run_Gnatwhy3(e) \/ Handle_Error(e)
      PROVE  InTable(f, i)'
  BY <1>0, <1>6 DEF PassOver, NothingToProve, PrepareRun, Run_Gnatwhy3,
     Handle_Error, InTable, Unproved, Keys, Ids
<1>7. CASE TranslationDone \/ Create_JSON_File \/ UNCHANGED vars
  BY <1>0, <1>7 DEF TranslationDone, Create_JSON_File, vars, InTable, Unproved,
     Keys, Ids
<1> QED
  BY <1>1, <1>2, <1>3, <1>4, <1>5, <1>6, <1>7 DEF Next, Step

LEMMA NextNotYet ==
  TypeOK /\ Control /\ NotYet /\ [Next]_vars => NotYet'
<1> SUFFICES ASSUME TypeOK, Control, NotYet, [Next]_vars PROVE NotYet'
  OBVIOUS
<1> USE ProofClaimsAssumption
<1>0. \A r \in proved : /\ r[1] \in Ids
                        /\ VC_Table[r[1]].E \in Keys \ todo
                        /\ VC_Table[r[1]].E # None
  BY DEF TypeOK, Results, Control
<1>1. ASSUME NEW e \in Entities, Generate_VCs(e) PROVE NotYet'
  BY <1>0, <1>1 DEF Generate_VCs, NotYet
<1>2. ASSUME NEW e \in Entities, NEW kind \in Kinds, Register_VC(e, kind)
      PROVE  NotYet'
  <2>1. \A id \in Ids : VC_Table'[id] = VC_Table[id]
    BY <1>2, Registered DEF Register_VC
  <2> QED BY <1>0, <1>2, <2>1 DEF Register_VC, NotYet
<1>3. ASSUME NEW e \in Entities, NEW isProved \in BOOLEAN,
             Emit_Static_Proof_Result(e, isProved)
      PROVE  NotYet'
  <2> DEFINE n == Len(VC_Table) + 1
  <2>1. /\ \A id \in Ids : VC_Table'[id] = VC_Table[id]
        /\ VC_Table'[n].Kind = "static"
    BY <1>3, Registered DEF Emit_Static_Proof_Result, VC_Kinds
  <2>2. proved' \subseteq proved \cup {<<n, "whole">>}
    BY <1>3 DEF Emit_Static_Proof_Result
  <2>3. UNCHANGED <<running, Current_Subp>>
    BY <1>3 DEF Emit_Static_Proof_Result
  <2>4. ASSUME NEW r \in proved', VC_Table'[r[1]].Kind # "static"
        PROVE  r \in proved /\ VC_Table'[r[1]] = VC_Table[r[1]]
    BY <1>0, <2>1, <2>2, <2>4
  <2> QED BY <2>3, <2>4 DEF NotYet
<1>4. ASSUME NEW e \in Entities, Collect_One_Result(e) PROVE NotYet'
  <2>1. PICK good \in SUBSET Results(Why3_VCs(e)) :
           /\ proved' = proved \cup good
           /\ \A r \in good : /\ r[1] \in Ids /\ VC_Table[r[1]].E = e
                             /\ VC_Table[r[1]].Kind # "static"
                             /\ r[2] \in Parts(VC_Table[r[1]].Kind)
           /\ UNCHANGED <<VC_Table, Keys, Ids>>
    BY <1>4, Collects
  <2>2. /\ running' = running \ {e} /\ e \in running
        /\ Current_Subp' = Current_Subp /\ e # Current_Subp
    BY <1>4 DEF Collect_One_Result, Control
  <2> QED BY <2>1, <2>2 DEF NotYet
<1>5. ASSUME NEW e \in Entities, Run_Gnatwhy3(e) PROVE NotYet'
  BY <1>0, <1>5 DEF Run_Gnatwhy3, NotYet
<1>6. ASSUME NEW e \in Entities,
             \/ PassOver(e) \/ Generate_VCs_For_LSP(e) \/ NothingToProve(e)
             \/ PrepareRun(e) \/ Handle_Error(e)
      PROVE  NotYet'
  BY <1>0, <1>6 DEF PassOver, Generate_VCs_For_LSP, NothingToProve, PrepareRun,
     Handle_Error, NotYet
<1>7. CASE TranslationDone \/ Create_JSON_File \/ UNCHANGED vars
  BY <1>7 DEF TranslationDone, Create_JSON_File, vars, NotYet
<1> QED
  BY <1>1, <1>2, <1>3, <1>4, <1>5, <1>6, <1>7 DEF Next, Step

LEMMA NextDeletesOnce ==
  TypeOK /\ Control /\ TableByVC /\ NotYet /\ DeletesOnce /\ [Next]_vars
    => DeletesOnce'
<1> SUFFICES ASSUME TypeOK, Control, TableByVC, NotYet, ~raised, [Next]_vars
             PROVE  ~raised'
  BY DEF DeletesOnce
<1>1. ASSUME NEW e \in Entities, Collect_One_Result(e) PROVE ~raised'
  <2>1. PICK good \in SUBSET Results(Why3_VCs(e)) :
          LET marked == {r \in good : Counts(r)} IN
          raised' = (\/ raised
                     \/ \E r \in marked : r[1] \notin VC_Set_Table[e]
                     \/ \E r, s \in marked : r # s /\ r[1] = s[1])
    BY <1>1 DEF Collect_One_Result
  <2>2. \A r \in good : /\ r = <<r[1], r[2]>> /\ r[1] \in Ids
                        /\ VC_Table[r[1]].E = e
                        /\ VC_Table[r[1]].Kind # "static"
                        /\ r[2] \in Parts(VC_Table[r[1]].Kind)
    BY DEF Results, Why3_VCs, VCs
  <2>3. e \in running /\ e \in Keys
    BY <1>1 DEF Collect_One_Result, Control
  <2>4. ASSUME NEW r \in good, Counts(r) PROVE r[1] \in VC_Set_Table[e]
    <3>1. <<r[1], "whole">> \notin proved /\ <<r[1], "preserv">> \notin proved
      BY <2>2, <2>3 DEF NotYet
    <3> QED BY <2>2, <2>3, <2>4, <3>1 DEF TableByVC, InTable, Unproved, Counts
  <2>5. ASSUME NEW r \in good, NEW t \in good, Counts(r), Counts(t), r[1] = t[1]
        PROVE  r = t
    <3>1. r[2] = t[2]
      BY <2>2, <2>5 DEF Counts, Parts
    <3> QED BY <2>2, <2>5, <3>1
  <2> QED BY <2>1, <2>4, <2>5
<1>2. ASSUME NEW e \in Entities,
             \/ PassOver(e) \/ Generate_VCs(e) \/ Generate_VCs_For_LSP(e)
             \/ \E kind \in Kinds : Register_VC(e, kind)
             \/ \E isProved \in BOOLEAN : Emit_Static_Proof_Result(e, isProved)
             \/ NothingToProve(e) \/ PrepareRun(e) \/ Run_Gnatwhy3(e)
             \/ Handle_Error(e)
      PROVE  ~raised'
  BY <1>2 DEF PassOver, Generate_VCs, Generate_VCs_For_LSP, Register_VC,
     Emit_Static_Proof_Result, NothingToProve, PrepareRun, Run_Gnatwhy3,
     Handle_Error
<1>3. CASE TranslationDone \/ Create_JSON_File \/ UNCHANGED vars
  BY <1>3 DEF TranslationDone, Create_JSON_File, vars
<1> QED BY <1>1, <1>2, <1>3 DEF Next, Step

-----------------------------------------------------------------------------
(* The claims.                                                             *)
LEMMA NextClaimsAreEmpty ==
  TypeOK /\ Control /\ ClaimsAreEmpty /\ [Next]_vars => ClaimsAreEmpty'
<1> SUFFICES ASSUME TypeOK, Control, ClaimsAreEmpty, [Next]_vars
             PROVE  ClaimsAreEmpty'
  OBVIOUS
<1> USE ProofClaimsAssumption
<1>0. ASSUME UNCHANGED <<VC_Table, VC_Set_Table>>,
             Claims' \subseteq Claims \cup EmptyKeys,
             \/ phase' # "generate" \/ Current_Subp' = None
             \/ UNCHANGED <<phase, Current_Subp, Claims>>
      PROVE  ClaimsAreEmpty'
  BY <1>0 DEF ClaimsAreEmpty, OnlyChecks, VCs, Ids, Keys, EmptyKeys, TypeOK
<1>1. ASSUME NEW e \in Entities, Generate_VCs(e) PROVE ClaimsAreEmpty'
  <2>1. /\ \A f \in Keys : VC_Set_Table'[f] = VC_Set_Table[f]
        /\ Keys \subseteq Keys' /\ VC_Table' = VC_Table /\ Claims' = Claims
        /\ Current_Subp' = e /\ e \notin Keys
    BY <1>1 DEF Generate_VCs, Register_VC_Entity, Keys, Control
  <2> QED BY <2>1 DEF ClaimsAreEmpty, OnlyChecks, VCs, Ids
<1>2. ASSUME NEW e \in Entities, Generate_VCs_For_LSP(e) PROVE ClaimsAreEmpty'
  <2>1. /\ \A f \in Keys : VC_Set_Table'[f] = VC_Set_Table[f]
        /\ Keys \subseteq Keys' /\ VC_Table' = VC_Table /\ Claims' = Claims
        /\ UNCHANGED <<phase, Current_Subp>>
    BY <1>2 DEF Generate_VCs_For_LSP, Register_VC_Entity, Keys
  <2> QED BY <2>1 DEF ClaimsAreEmpty, OnlyChecks, VCs, Ids
<1>3. ASSUME NEW e \in Entities, NEW kind \in Kinds, Register_VC(e, kind)
      PROVE  ClaimsAreEmpty'
  <2>1. /\ Ids \subseteq Ids'
        /\ \A id \in Ids : VC_Table'[id] = VC_Table[id]
    BY <1>3, Registered DEF Register_VC
  <2>2. \A f : OnlyChecks(f)' => OnlyChecks(f)
    BY <2>1 DEF OnlyChecks, VCs
  <2>3. /\ phase = "generate" /\ phase' = phase /\ Current_Subp = e
        /\ Current_Subp' = e /\ Claims' = Claims /\ Keys' = Keys
        /\ \A f \in Keys : f # e => VC_Set_Table'[f] = VC_Set_Table[f]
    BY <1>3 DEF Register_VC, MayRegister, TypeOK, Keys
  <2> QED BY <2>2, <2>3 DEF ClaimsAreEmpty
<1>4. ASSUME NEW e \in Entities, NEW isProved \in BOOLEAN,
             Emit_Static_Proof_Result(e, isProved)
      PROVE  ClaimsAreEmpty'
  <2> DEFINE n == Len(VC_Table) + 1
  <2>1. /\ Ids' = Ids \cup {n}
        /\ \A id \in Ids : VC_Table'[id] = VC_Table[id]
        /\ VC_Table'[n].E = e /\ VC_Table'[n].Kind = "static"
    BY <1>4, Registered DEF Emit_Static_Proof_Result, VC_Kinds
  <2>2. /\ \A f : OnlyChecks(f)' => OnlyChecks(f)
        /\ ~OnlyChecks(e)'
    BY <2>1 DEF OnlyChecks, VCs
  <2>3. /\ phase' = phase /\ Current_Subp' = e /\ Current_Subp = e
        /\ Claims' \subseteq Claims \cup {e} /\ Keys' = Keys /\ e \in Keys
        /\ \A f \in Keys : f # e => VC_Set_Table'[f] = VC_Set_Table[f]
    BY <1>4 DEF Emit_Static_Proof_Result, MayRegister, TypeOK, Keys, Control
  <2> QED BY <2>2, <2>3 DEF ClaimsAreEmpty
<1>5. ASSUME NEW e \in Entities, Collect_One_Result(e) PROVE ClaimsAreEmpty'
  <2>1. /\ UNCHANGED <<VC_Table, Keys, Ids, phase, Current_Subp>>
        /\ phase # "generate" /\ e \in Keys
        /\ \A f \in Keys : f # e => VC_Set_Table'[f] = VC_Set_Table[f]
        /\ VC_Set_Table'[e] \subseteq VC_Set_Table[e]
    <3>1. \A id \in Ids : id \in VC_Set_Table'[e] => id \in VC_Set_Table[e]
      BY <1>5, Collects
    <3>2. TypeOK'
      BY NextType
    <3> QED
      BY <1>5, <3>1, <3>2, Collects DEF Collect_One_Result, Control, TypeOK
  <2>2. Claims' \subseteq Claims \cup EmptyKeys
                  \cup (IF VC_Set_Table'[e] = {} THEN {e} ELSE {})
    <3>1. PICK good : /\ VC_Set_Table' = [VC_Set_Table EXCEPT ![e] =
                           LeftOf(e, {r \in good : Counts(r)})]
                      /\ Claims' = Claims \cup
                           (Claimable \cap
                              (EmptyKeys \cup
                                 IF /\ {r \in good : Counts(r)} # {}
                                    /\ LeftOf(e, {r \in good : Counts(r)}) = {}
                                 THEN {e} ELSE {}))
      BY <1>5 DEF Collect_One_Result
    <3> QED BY <2>1, <3>1 DEF Keys, TypeOK
  <2>3. \A f : OnlyChecks(f)' <=> OnlyChecks(f)
    BY <2>1 DEF OnlyChecks, VCs
  <2> QED BY <2>1, <2>2, <2>3 DEF ClaimsAreEmpty, EmptyKeys
<1>6. ASSUME NEW e \in Entities, Run_Gnatwhy3(e) PROVE ClaimsAreEmpty'
  BY <1>0, <1>6 DEF Run_Gnatwhy3
<1>7. ASSUME NEW e \in Entities,
             \/ PassOver(e) \/ NothingToProve(e) \/ PrepareRun(e)
             \/ Handle_Error(e)
      PROVE  ClaimsAreEmpty'
  BY <1>0, <1>7 DEF PassOver, NothingToProve, PrepareRun, Handle_Error
<1>8. CASE TranslationDone \/ Create_JSON_File \/ UNCHANGED vars
  BY <1>0, <1>8 DEF TranslationDone, Create_JSON_File, vars
<1> QED
  BY <1>1, <1>2, <1>3, <1>4, <1>5, <1>6, <1>7, <1>8 DEF Next, Step

LEMMA NextLastRun ==
  TypeOK /\ Control /\ LastRun /\ [Next]_vars => LastRun'
<1> SUFFICES ASSUME TypeOK, Control, LastRun, [Next]_vars PROVE LastRun'
  OBVIOUS
<1> USE ProofClaimsAssumption
<1>0. \A id \in Ids : VC_Table[id].E \in Keys \ todo /\ VC_Table[id].E # None
  BY DEF TypeOK, Control
<1>1. ASSUME NEW e \in Entities, Generate_VCs(e) PROVE LastRun'
  BY <1>0, <1>1 DEF Generate_VCs, LastRun, Ids
<1>2. ASSUME NEW e \in Entities, NEW kind \in Kinds, Register_VC(e, kind)
      PROVE  LastRun'
  <2>1. /\ Ids' = Ids \cup {Len(VC_Table) + 1}
        /\ \A id \in Ids : VC_Table'[id] = VC_Table[id]
        /\ VC_Table'[Len(VC_Table) + 1].E = e
    BY <1>2, Registered DEF Register_VC
  <2> QED BY <1>2, <2>1 DEF Register_VC, MayRegister, LastRun
<1>3. ASSUME NEW e \in Entities, NEW isProved \in BOOLEAN,
             Emit_Static_Proof_Result(e, isProved)
      PROVE  LastRun'
  <2>1. /\ Ids' = Ids \cup {Len(VC_Table) + 1}
        /\ \A id \in Ids : VC_Table'[id] = VC_Table[id]
        /\ VC_Table'[Len(VC_Table) + 1].E = e
    BY <1>3, Registered DEF Emit_Static_Proof_Result, VC_Kinds
  <2> QED
    BY <1>3, <2>1 DEF Emit_Static_Proof_Result, MayRegister, LastRun
<1>4. ASSUME NEW e \in Entities, NothingToProve(e) PROVE LastRun'
  <2>1. \A id \in Ids : VC_Table[id].E = e => VC_Table[id].Kind = "static"
    BY <1>4 DEF NothingToProve, Why3_VCs, VCs
  <2> QED BY <1>4, <2>1 DEF NothingToProve, LastRun, Ids
<1>5. ASSUME NEW e \in Entities, Collect_One_Result(e) PROVE LastRun'
  <2>1. /\ UNCHANGED <<VC_Table, Keys, Ids, phase>>
        /\ \A f \in Keys : f # e => VC_Set_Table'[f] = VC_Set_Table[f]
        /\ phase \in {"collect", "run_why3"}
    BY <1>5, Collects DEF Collect_One_Result
  <2>2. EmptyKeys' \cap Claimable \subseteq Claims'
    <3>1. PICK marked :
            /\ VC_Set_Table' = [VC_Set_Table EXCEPT ![e] = LeftOf(e, marked)]
            /\ Claims' = Claims \cup
                 (Claimable \cap
                    (EmptyKeys \cup IF marked # {} /\ LeftOf(e, marked) = {}
                                   THEN {e} ELSE {}))
      BY <1>5 DEF Collect_One_Result
    <3>2. e \in Keys /\ VC_Set_Table'[e] = LeftOf(e, marked)
      BY <1>5, <3>1 DEF Collect_One_Result, Control, TypeOK
    <3>3. marked = {} => VC_Set_Table'[e] = VC_Set_Table[e]
      BY <3>2 DEF LeftOf
    <3> QED BY <2>1, <3>1, <3>2, <3>3 DEF EmptyKeys
  <2> QED BY <2>1, <2>2 DEF LastRun
<1>6. ASSUME NEW e \in Entities, PassOver(e) \/ Generate_VCs_For_LSP(e)
      PROVE  LastRun'
  BY <1>6 DEF PassOver, Generate_VCs_For_LSP, LastRun, Ids
<1>7. ASSUME NEW e \in Entities,
             PrepareRun(e) \/ Run_Gnatwhy3(e) \/ Handle_Error(e)
      PROVE  LastRun'
  BY <1>7 DEF PrepareRun, Run_Gnatwhy3, Handle_Error, LastRun
<1>8. CASE TranslationDone
  BY <1>0, <1>8 DEF TranslationDone, LastRun, Ids
<1>9. CASE Create_JSON_File \/ UNCHANGED vars
  BY <1>9 DEF Create_JSON_File, vars, LastRun, Ids, EmptyKeys, Keys
<1> QED
  BY <1>1, <1>2, <1>3, <1>4, <1>5, <1>6, <1>7, <1>8, <1>9 DEF Next, Step

-----------------------------------------------------------------------------
(* The inductive invariant, and the theorems.                              *)
IInv ==
  /\ TypeOK /\ Control /\ TableByVC /\ NotYet /\ DeletesOnce
  /\ ClaimsAreEmpty /\ LastRun

LEMMA InitIInv == Init => IInv
<1>1. Init => ClaimsAreEmpty /\ LastRun
  BY DEF Init, ClaimsAreEmpty, LastRun, Ids
<1> QED BY <1>1, InitType, InitTable DEF IInv

LEMMA NextIInv == IInv /\ [Next]_vars => IInv'
<1> SUFFICES ASSUME IInv, [Next]_vars PROVE IInv'
  OBVIOUS
<1> USE DEF IInv
<1>1. TypeOK' /\ Control'
  BY NextType
<1>2. TableByVC' /\ NotYet' /\ DeletesOnce'
  BY NextTable, NextNotYet, NextDeletesOnce
<1>3. ClaimsAreEmpty' /\ LastRun'
  BY NextClaimsAreEmpty, NextLastRun
<1> QED BY <1>1, <1>2, <1>3

(* The inductive invariant holds throughout a run.                         *)
THEOREM Invariance == Spec => []IInv
  BY InitIInv, NextIInv, PTL DEF Spec

(* Every variable keeps to its type.                                       *)
THEOREM TypeCorrect == Spec => []TypeOK
<1>1. IInv => TypeOK
  BY DEF IInv
<1> QED BY <1>1, Invariance, PTL

(* VC_Set_Table holds the unproved VCs at any time.                        *)
THEOREM TableCorrect == Spec => []TableIsUnproved
<1>1. IInv => TableIsUnproved
  BY TableForms DEF IInv
<1> QED BY <1>1, Invariance, PTL

(* No result makes the bookkeeping delete an id that is not there.         *)
THEOREM DeletesSafe == Spec => []DeletesOnce
<1>1. IInv => DeletesOnce
  BY DEF IInv
<1> QED BY <1>1, Invariance, PTL

(* An entity whose checks are all left to gnatwhy3, and are no loop        *)
(* invariants, is claimed only when all of them are proved.                *)
THEOREM ClaimsSound == Spec => []ProverClaimsAreProved
<1>1. IInv => ProverClaimsAreProved
  <2> SUFFICES ASSUME IInv, NEW e \in Claims,
                      \A id \in VCs(e) : VC_Table[id].Kind \in {"check", "warning"}
               PROVE  AllProved(e)
    BY DEF ProverClaimsAreProved
  <2>1. e \in Keys /\ VC_Set_Table[e] = {}
    BY DEF IInv, ClaimsAreEmpty, OnlyChecks
  <2> SUFFICES ASSUME NEW id \in Checks(e), NEW part \in Parts(VC_Table[id].Kind)
               PROVE  <<id, part>> \in proved
    BY DEF AllProved, Results
  <2>2. id \in Ids /\ VC_Table[id].E = e /\ VC_Table[id].Kind = "check"
    BY DEF Checks, VCs
  <2>3. part = "whole" /\ <<id, "preserv">> \notin proved
    BY <2>2 DEF Parts, IInv, TypeOK, Results
  <2> QED BY <2>1, <2>2, <2>3 DEF IInv, TableByVC, InTable, Unproved
<1> QED BY <1>1, Invariance, PTL

(* Once gnatwhy3 was run for a unit, no analyzed entity whose checks are   *)
(* all proved is left without its claim.                                   *)
THEOREM ClaimsComplete == Spec => []ClaimsAreComplete
<1>1. IInv => ClaimsAreComplete
  <2> SUFFICES ASSUME IInv, phase = "done", NEW d \in Keys, Why3_VCs(d) # {},
                      NEW e \in Keys \cap Claimable, AllProved(e)
               PROVE  e \in Claims
    BY DEF ClaimsAreComplete
  <2>1. EmptyKeys \cap Claimable \subseteq Claims
    BY DEF IInv, Control, LastRun, Why3_VCs, VCs
  <2>2. ASSUME NEW id \in VC_Set_Table[e] PROVE FALSE
    <3>1. id \in Ids /\ VC_Table[id].E = e /\ Unproved(id)
      BY DEF IInv, TypeOK, TableByVC, InTable
    <3>2. id \in Checks(e)
      BY <3>1 DEF Checks, VCs, Unproved
    <3>3. <<id, "whole">> \in proved \/ <<id, "preserv">> \in proved
      BY <3>2 DEF AllProved, Results, Parts
    <3> QED BY <3>1, <3>3 DEF Unproved
  <2> QED BY <2>1, <2>2 DEF EmptyKeys
<1> QED BY <1>1, Invariance, PTL
=============================================================================

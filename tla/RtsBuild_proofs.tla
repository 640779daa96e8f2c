---------------------------- MODULE RtsBuild_proofs ----------------------------
(***************************************************************************)
(* Proofs about sessions of build_rts, for any plan of sessions: any       *)
(* targets, however their libraries are named, any number of sessions,     *)
(* forced, killed or failing.                                              *)
(***************************************************************************)
EXTENDS RtsBuild, RtsDescriptor_proofs

(* The library k of this session is in the output, with its projects, and  *)
(* all of it was written in this session.                                  *)
Done(k) ==
  /\ Name(k) \in DOMAIN disk
  /\ "projects" \in DOMAIN disk[Name(k)]
  /\ \A part \in DOMAIN disk[Name(k)] : disk[Name(k)][part].by.session = session

Types ==
  /\ TypeOK
  /\ plan \in Seq(Runnable) /\ jobs \in Seq(Job) /\ job \in Nat \ {0}
  /\ phase \in {"configure", "check"} => step = "open"
  /\ phase = "check" => job <= Len(jobs)

(* A library that is being installed has been begun by its own job.        *)
Current ==
  phase = "install" /\ step # "open" =>
    /\ job <= Len(jobs)
    /\ Name(job) \in DOMAIN disk
    /\ \A part \in DOMAIN disk[Name(job)] : disk[Name(job)][part].by = Writer(job)

(* The jobs before it are done, except that a job of the same name may be  *)
(* replacing their libraries.                                              *)
Pending(k) == Done(k) \/ (job <= Len(jobs) /\ Name(k) = Name(job))

Earlier == phase = "install" => \A k \in 1..Len(jobs) : k < job => Pending(k)

AllDone == phase = "build" => \A k \in 1..Len(jobs) : Done(k)

----------------------------------------------------------------------------
(* What the steps do to the output. *)

LEMMA PutEffect ==
  ASSUME NEW part, NEW w, NEW content,
         Put(part, w, content), Name(job) \in DOMAIN disk
  PROVE  /\ DOMAIN disk' = DOMAIN disk
         /\ \A n \in DOMAIN disk : n # Name(job) => disk'[n] = disk[n]
         /\ DOMAIN disk'[Name(job)] = DOMAIN disk[Name(job)] \cup {part}
         /\ disk'[Name(job)][part].by = w /\ disk'[Name(job)][part].has = content
         /\ \A p \in DOMAIN disk[Name(job)] :
              p # part => disk'[Name(job)][p] = disk[Name(job)][p]
<1> DEFINE new == Update(disk[Name(job)], [p \in {part} |-> [by |-> w, has |-> content]])
<1>1. disk' = [disk EXCEPT ![Name(job)] = new]
  BY DEF Put
<1>2. disk'[Name(job)] = new
  BY <1>1
<1>3. /\ DOMAIN new = DOMAIN disk[Name(job)] \cup {part}
      /\ new[part] = [by |-> w, has |-> content]
      /\ \A p \in DOMAIN disk[Name(job)] : p # part => new[p] = disk[Name(job)][p]
  BY DEF Update
<1> HIDE DEF new
<1> QED
  BY <1>1, <1>2, <1>3

LEMMA RemoveEffect ==
  ASSUME RemoveExisting
  PROVE  /\ DOMAIN disk' \subseteq DOMAIN disk
         /\ \A n \in DOMAIN disk : n # Name(job) => n \in DOMAIN disk' /\ disk'[n] = disk[n]
         /\ \A n \in DOMAIN disk' : \A p \in DOMAIN disk'[n] :
              p \in DOMAIN disk[n] /\ disk'[n][p] = disk[n][p]
<1> DEFINE old == disk[Name(job)]
<1>1. CASE DOMAIN old = {} /\ disk' = [n \in DOMAIN disk \ {Name(job)} |-> disk[n]]
  BY <1>1
<1>2. ASSUME NEW part \in DOMAIN old,
             disk' = [disk EXCEPT ![Name(job)] = [p \in DOMAIN old \ {part} |-> old[p]]]
      PROVE  /\ DOMAIN disk' \subseteq DOMAIN disk
             /\ \A n \in DOMAIN disk :
                  n # Name(job) => n \in DOMAIN disk' /\ disk'[n] = disk[n]
             /\ \A n \in DOMAIN disk' : \A p \in DOMAIN disk'[n] :
                  p \in DOMAIN disk[n] /\ disk'[n][p] = disk[n][p]
  <2>1. Name(job) \in DOMAIN disk
    BY DEF RemoveExisting
  <2>2. disk'[Name(job)] = [p \in DOMAIN old \ {part} |-> old[p]]
    BY <1>2, <2>1
  <2>3. \A n \in DOMAIN disk : n # Name(job) => disk'[n] = disk[n]
    BY <1>2
  <2>4. DOMAIN disk' = DOMAIN disk
    BY <1>2
  <2> QED
    BY <2>1, <2>2, <2>3, <2>4
<1> QED
  BY <1>1, <1>2 DEF RemoveExisting

LEMMA MakeEffect ==
  ASSUME MakeDirs, phase' # "idle"
  PROVE  /\ DOMAIN disk' = DOMAIN disk \cup {Name(job)}
         /\ Name(job) \notin DOMAIN disk
         /\ \A n \in DOMAIN disk : disk'[n] = disk[n]
         /\ DOMAIN disk'[Name(job)] = {}
         /\ step' = "gnat" /\ phase' = phase
<1>1. disk' = Update(disk, [n \in {Name(job)} |-> <<>>]) /\ Name(job) \notin DOMAIN disk
  BY DEF MakeDirs, End
<1>2. step' = "gnat" /\ phase' = phase
  BY DEF MakeDirs, End
<1>3. disk'[Name(job)] = <<>>
  BY <1>1 DEF Update
<1> QED
  BY <1>1, <1>2, <1>3 DEF Update

(* A step of the installation that writes a part; the last one is left     *)
(* out.                                                                    *)
LEMMA WriteEffect ==
  ASSUME InstallGnat \/ InstallGnarl \/ CopyScripts \/ WriteConfig \/ WriteProjects,
         phase' # "idle"
  PROVE  \E part \in Parts : \E content : Put(part, Writer(job), content)
<1>1. ASSUME NEW l \in {"gnat", "gnarl"}, NEW next, InstallLib(l, next)
      PROVE  Put(l, Writer(job), GetRtsDirs(l, conf[job]))
  BY <1>1 DEF InstallLib, End
<1> QED
  BY <1>1 DEF InstallGnat, InstallGnarl, CopyScripts, WriteConfig, WriteProjects, Parts

----------------------------------------------------------------------------
(* Types. *)

(* What the installation of a library leaves alone. *)
LEMMA InstallFrame ==
  ASSUME Types, Install
  PROVE  /\ UNCHANGED <<tree, lib, plan, session, command, jobs>>
         /\ job <= Len(jobs) /\ phase = "install"
         /\ phase' \in {"install", "idle"}
         /\ step' \in {"open", "gnat", "gnarl", "ld", "config", "projects"}
         /\ \/ job' = job
            \/ WriteProjects /\ job' = job + 1
<1> USE DEF Types, TypeOK, installUnchanged, genVars, Installing, End
<1>1. CASE RefuseExisting
  BY <1>1 DEF RefuseExisting
<1>2. CASE RemoveExisting
  BY <1>2 DEF RemoveExisting
<1>3. CASE MakeDirs
  BY <1>3 DEF MakeDirs
<1>4. ASSUME NEW l, NEW next \in {"gnarl", "ld"}, InstallLib(l, next)
      PROVE  /\ UNCHANGED <<tree, lib, plan, session, command, jobs, job>>
             /\ job <= Len(jobs) /\ phase = "install"
             /\ phase' \in {"install", "idle"}
             /\ step' \in {"open", "gnat", "gnarl", "ld", "config", "projects"}
  BY <1>4 DEF InstallLib
<1>5. CASE InstallGnat \/ InstallGnarl
  BY <1>4, <1>5 DEF InstallGnat, InstallGnarl
<1>6. CASE CopyScripts \/ WriteConfig \/ WriteProjects
  BY <1>6 DEF CopyScripts, WriteConfig, WriteProjects
<1> QED
  BY <1>1, <1>2, <1>3, <1>5, <1>6 DEF Install

(* A session that ends early leaves the output as it is. *)
LEMMA InstallEnds ==
  ASSUME Types, Install, phase' = "idle"
  PROVE  UNCHANGED <<disk, jobs, session>>
<1> USE DEF Installing, installUnchanged
<1>1. CASE RefuseExisting
  BY <1>1 DEF RefuseExisting
<1>2. CASE MakeDirs
  BY <1>2 DEF MakeDirs
<1>3. ASSUME NEW l, NEW next, InstallLib(l, next)
      PROVE  UNCHANGED <<disk, jobs, session>>
  BY <1>3 DEF InstallLib
<1>4. CASE InstallGnat \/ InstallGnarl
  BY <1>3, <1>4 DEF InstallGnat, InstallGnarl
<1>5. ~RemoveExisting /\ ~CopyScripts /\ ~WriteConfig /\ ~WriteProjects
  BY DEF RemoveExisting, CopyScripts, WriteConfig, WriteProjects
<1> QED
  BY <1>1, <1>2, <1>4, <1>5 DEF Install

PartsOnly == \A n \in DOMAIN disk : DOMAIN disk[n] \subseteq Parts

LEMMA PutKeepsParts ==
  ASSUME NEW part \in Parts, NEW w, NEW content,
         Put(part, w, content), Name(job) \in DOMAIN disk, PartsOnly
  PROVE  PartsOnly'
BY PutEffect DEF PartsOnly

LEMMA InstallKeepsParts ==
  ASSUME Types, Current, Install
  PROVE  PartsOnly'
<1>0. PartsOnly
  BY DEF Types, TypeOK, PartsOnly
<1>1. CASE phase' = "idle"
  BY <1>0, <1>1, InstallEnds DEF PartsOnly
<1>2. CASE RemoveExisting
  BY <1>0, <1>2, RemoveEffect DEF PartsOnly
<1>3. CASE MakeDirs /\ phase' # "idle"
  BY <1>0, <1>3, MakeEffect DEF PartsOnly
<1>4. CASE /\ InstallGnat \/ InstallGnarl \/ CopyScripts \/ WriteConfig \/ WriteProjects
           /\ phase' # "idle"
  <2>1. step # "open" /\ phase = "install"
    BY <1>4 DEF InstallGnat, InstallGnarl, InstallLib, CopyScripts, WriteConfig,
                WriteProjects, Installing
  <2> QED
    BY <1>0, <1>4, <2>1, WriteEffect, PutKeepsParts DEF Current
<1> QED
  BY <1>1, <1>2, <1>3, <1>4 DEF Install, RefuseExisting, End

LEMMA StartTypes ==
  ASSUME Types, NEW STATE sessions, sessions \in Seq(Runnable) \ {<<>>}, Start(sessions)
  PROVE  Types'
<1>1. Head(sessions) \in Runnable /\ Tail(sessions) \in Seq(Runnable)
  OBVIOUS
<1>2. JobsFor(Head(sessions)) \in Seq(Job)
  BY <1>1 DEF Runnable
<1>3. jobs' \in Seq(Job)
  BY <1>2 DEF Start
<1>4. Len(jobs') \in Nat
  BY <1>3
<1>5. job' = 1
  BY DEF Start
<1>6. session' = session + 1 /\ phase' = "configure" /\ step' = "open"
  BY DEF Start
<1>7. plan' \in Seq(Runnable)
  BY <1>1 DEF Start
<1>8. UNCHANGED <<tree, lib, disk>>
  BY DEF Start, genVars
<1>9. job' \in Nat \ {0} /\ job' \in 1..Len(jobs') + 1
  BY <1>4, <1>5
<1> QED
  BY <1>3, <1>5, <1>6, <1>7, <1>8, <1>9 DEF Types, TypeOK

LEMMA StepKeepsTypes ==
  ASSUME Types, Current, AllDone, [Next]_vars
  PROVE  Types'
<1>0. Len(jobs) \in Nat /\ job \in Nat \ {0}
  BY DEF Types
<1>1. CASE UNCHANGED vars
  BY <1>1 DEF Types, TypeOK, vars, genVars, depVars, sessionVars
<1>2. CASE FirstSession
  <2>1. PICK sessions \in Plans[tree] : Start(sessions)
    BY <1>2 DEF FirstSession
  <2>2. sessions \in Seq(Runnable) \ {<<>>}
    BY PlansAssumption DEF Types, TypeOK
  <2> QED
    BY <2>1, <2>2, StartTypes
<1>3. CASE NextSession
  BY <1>3, StartTypes DEF NextSession, Types
<1>4. CASE Generate /\ UNCHANGED <<depVars, sessionVars>>
  <2>1. tree' = tree /\ lib' \in {lib, "gnarl", "installed"}
    BY <1>4 DEF Generate, Enter, NextValue, NextVariable, Leave, NextLib, InstallTree
  <2> QED
    BY <1>4, <2>1 DEF Types, TypeOK, sessionVars, Libs
<1>5. CASE Configure \/ StartInstalling \/ Kill
  <2>1. UNCHANGED <<tree, lib, plan, session, jobs, step, disk>>
    BY <1>5 DEF Configure, StartInstalling, Kill, genVars
  <2>2. \/ phase' = "idle" /\ job' = job
        \/ phase' = "check" /\ job' = job /\ job <= Len(jobs) /\ phase = "configure"
        \/ phase' = "install" /\ job' = 1
    BY <1>5 DEF Configure, StartInstalling, Kill, End
  <2> QED
    BY <1>0, <2>1, <2>2 DEF Types, TypeOK
<1>6. CASE CheckDeps
  BY <1>6 DEF CheckDeps, Types, TypeOK, genVars, sessionVars
<1>7. CASE Configured
  BY <1>0, <1>7 DEF Configured, Types, TypeOK, genVars
<1>8. CASE Install
  <2>1. /\ UNCHANGED <<tree, lib, plan, session, command, jobs>>
        /\ job <= Len(jobs)
        /\ phase' \in {"install", "idle"}
        /\ step' \in {"open", "gnat", "gnarl", "ld", "config", "projects"}
        /\ job' = job \/ job' = job + 1
    BY <1>8, InstallFrame
  <2>2. PartsOnly'
    BY <1>8, InstallKeepsParts
  <2> QED
    BY <1>0, <2>1, <2>2 DEF Types, TypeOK, PartsOnly
<1>9. CASE Installed \/ BuildFails \/ Built
  <2>1. UNCHANGED <<tree, lib, plan, session, jobs, step, disk>>
    BY <1>9 DEF Installed, BuildFails, Built, installUnchanged, genVars
  <2>2. phase' \in {"idle", "build"} /\ job' \in {1, job}
    BY <1>9 DEF Installed, BuildFails, Built, End
  <2> QED
    BY <1>0, <2>1, <2>2 DEF Types, TypeOK
<1>10. CASE BuildProject
  <2>1. Name(job) \in DOMAIN disk
    BY <1>0, <1>10 DEF BuildProject, AllDone, Done
  <2>2. PartsOnly'
    BY <1>10, <2>1, PutKeepsParts DEF BuildProject, Types, TypeOK, PartsOnly, Parts
  <2> QED
    BY <1>0, <1>10, <2>2 DEF BuildProject, installUnchanged, Types, TypeOK, PartsOnly, genVars
<1> QED
  BY <1>1, <1>2, <1>3, <1>4, <1>5, <1>6, <1>7, <1>8, <1>9, <1>10 DEF Next, Proceed

----------------------------------------------------------------------------
(* Who has written what. *)

OutputInv == NoMixture /\ Current /\ Earlier /\ AllDone

(* Steps that leave the output and the jobs of the session alone. *)
LEMMA QuietStep ==
  ASSUME OutputInv, UNCHANGED <<disk, jobs, session>>,
         \/ phase' \notin {"install", "build"}
         \/ phase' = phase /\ UNCHANGED <<job, step>>
         \/ phase' = "install" /\ step' = "open" /\ job' = 1
  PROVE  OutputInv'
<1>1. NoMixture'
  BY DEF OutputInv, NoMixture
<1>2. Current'
  BY DEF OutputInv, Current, Name, Writer, Profile
<1>3. Earlier'
  BY DEF OutputInv, Earlier, Pending, Done, Name
<1>4. AllDone'
  BY DEF OutputInv, AllDone, Done, Name
<1> QED
  BY <1>1, <1>2, <1>3, <1>4 DEF OutputInv

LEMMA RemoveKeepsOutput ==
  ASSUME Types, OutputInv, RemoveExisting
  PROVE  OutputInv'
<1>1. /\ phase = "install" /\ step = "open" /\ job <= Len(jobs)
      /\ UNCHANGED <<phase, step, job, jobs, session>>
  BY DEF RemoveExisting, Installing, installUnchanged
<1>2. NoMixture'
  BY RemoveEffect DEF OutputInv, NoMixture
<1>3. Earlier'
  <2>1. \A k : Name(k)' = Name(k)
    BY <1>1 DEF Name
  <2>2. \A k : Done(k) /\ Name(k) # Name(job) => Done(k)'
    BY <1>1, <2>1, RemoveEffect DEF Done
  <2> QED
    BY <1>1, <2>1, <2>2 DEF OutputInv, Earlier, Pending
<1> QED
  BY <1>1, <1>2, <1>3 DEF OutputInv, Current, AllDone

LEMMA MakeKeepsOutput ==
  ASSUME Types, OutputInv, MakeDirs, phase' # "idle"
  PROVE  OutputInv'
<1>1. /\ phase = "install" /\ phase' = "install" /\ job <= Len(jobs)
      /\ step' = "gnat"
      /\ UNCHANGED <<job, jobs, session>>
  BY MakeEffect DEF MakeDirs, Installing, installUnchanged
<1>2. NoMixture'
  BY MakeEffect DEF OutputInv, NoMixture
<1>3. \A k : Name(k)' = Name(k)
  BY <1>1 DEF Name
<1>4. Current'
  BY <1>1, <1>3, MakeEffect DEF Current
<1>5. Earlier'
  <2>1. \A k : Done(k) => Done(k)'
    BY <1>1, <1>3, MakeEffect DEF Done
  <2> QED
    BY <1>1, <1>3, <2>1 DEF OutputInv, Earlier, Pending
<1> QED
  BY <1>1, <1>2, <1>4, <1>5 DEF OutputInv, AllDone

(* A part of the library that is being installed. *)
LEMMA WriteKeepsOutput ==
  ASSUME Types, OutputInv, phase' # "idle",
         InstallGnat \/ InstallGnarl \/ CopyScripts \/ WriteConfig \/ WriteProjects
  PROVE  OutputInv'
<1>1. /\ phase = "install" /\ phase' = "install" /\ job <= Len(jobs) /\ step # "open"
      /\ UNCHANGED <<jobs, session>>
      /\ \/ job' = job
         \/ WriteProjects /\ job' = job + 1 /\ step' = "open"
  <2>1. ASSUME NEW l \in {"gnat", "gnarl"}, NEW next, InstallLib(l, next)
        PROVE  /\ phase = "install" /\ phase' = "install" /\ job <= Len(jobs)
               /\ step # "open" /\ UNCHANGED <<jobs, session, job>>
    BY <2>1 DEF InstallLib, Installing, installUnchanged, End
  <2>2. CASE InstallGnat \/ InstallGnarl
    BY <2>1, <2>2 DEF InstallGnat, InstallGnarl
  <2>3. CASE CopyScripts \/ WriteConfig \/ WriteProjects
    BY <2>3 DEF CopyScripts, WriteConfig, WriteProjects, Installing, installUnchanged
  <2> QED
    BY <2>2, <2>3
<1>2a. PICK part \in Parts : \E content : Put(part, Writer(job), content)
  BY WriteEffect
<1>2. PICK content : Put(part, Writer(job), content)
  BY <1>2a
<1>3. /\ Name(job) \in DOMAIN disk
      /\ \A p \in DOMAIN disk[Name(job)] : disk[Name(job)][p].by = Writer(job)
  BY <1>1 DEF OutputInv, Current
<1>4. /\ DOMAIN disk' = DOMAIN disk
      /\ \A n \in DOMAIN disk : n # Name(job) => disk'[n] = disk[n]
      /\ DOMAIN disk[Name(job)] \subseteq DOMAIN disk'[Name(job)]
      /\ \A p \in DOMAIN disk'[Name(job)] : disk'[Name(job)][p].by = Writer(job)
  BY <1>2, <1>3, PutEffect
<1>5. \A k : Name(k)' = Name(k)
  BY <1>1 DEF Name
<1>6. Writer(job).session = session /\ session' = session
  BY <1>1 DEF Writer
<1>7. NoMixture'
  BY <1>4 DEF OutputInv, NoMixture
<1>8. \A k : Done(k) => Done(k)'
  BY <1>4, <1>5, <1>6 DEF Done
<1>9. Current'
  BY <1>1, <1>3, <1>4, <1>5 DEF Current, Writer, Profile
<1>10. \A k : WriteProjects /\ Name(k) = Name(job) => Done(k)'
  <2>1. SUFFICES ASSUME NEW k, WriteProjects, Name(k) = Name(job) PROVE Done(k)'
    OBVIOUS
  <2>2. "projects" \in DOMAIN disk'[Name(job)]
    BY <1>3, <2>1, PutEffect DEF WriteProjects
  <2> QED
    BY <1>3, <1>4, <1>5, <1>6, <2>1, <2>2 DEF Done
<1>11. Earlier'
  <2>1. SUFFICES ASSUME NEW k \in 1..Len(jobs), k < job' PROVE Pending(k)'
    BY <1>1 DEF Earlier
  <2>2. k \in Nat /\ job \in Nat
    BY DEF Types
  <2>3. CASE k < job
    BY <1>1, <1>5, <1>8, <1>10, <2>3 DEF OutputInv, Earlier, Pending
  <2>4. CASE ~(k < job)
    <3>1. k = job /\ WriteProjects
      BY <1>1, <2>1, <2>2, <2>4
    <3> QED
      BY <1>10, <3>1 DEF Pending
  <2> QED
    BY <2>3, <2>4
<1> QED
  BY <1>1, <1>7, <1>9, <1>11 DEF OutputInv, AllDone

LEMMA BuildKeepsOutput ==
  ASSUME Types, OutputInv, BuildProject
  PROVE  OutputInv'
<1>1. /\ phase = "build" /\ phase' = "build" /\ job \in 1..Len(jobs)
      /\ UNCHANGED <<jobs, session, step>>
  BY DEF BuildProject, installUnchanged, Types
<1>2. Done(job)
  BY <1>1 DEF OutputInv, AllDone
<1>3. Put("adalib", disk[Name(job)].projects.by, {})
  BY DEF BuildProject
<1>4. /\ DOMAIN disk' = DOMAIN disk
      /\ \A n \in DOMAIN disk : n # Name(job) => disk'[n] = disk[n]
      /\ DOMAIN disk[Name(job)] \subseteq DOMAIN disk'[Name(job)]
      /\ \A p \in DOMAIN disk'[Name(job)] :
           disk'[Name(job)][p].by = disk[Name(job)].projects.by
  <2>1. \A p \in DOMAIN disk[Name(job)] :
          disk[Name(job)][p].by = disk[Name(job)].projects.by
    BY <1>2 DEF OutputInv, NoMixture, Done
  <2> QED
    BY <1>2, <1>3, <2>1, PutEffect DEF Done
<1>5. \A k : Name(k)' = Name(k)
  BY <1>1 DEF Name
<1>6. NoMixture'
  BY <1>4 DEF OutputInv, NoMixture
<1>7. \A k : Done(k) => Done(k)'
  <2>1. SUFFICES ASSUME NEW k, Done(k) PROVE Done(k)'
    OBVIOUS
  <2>2. CASE Name(k) = Name(job)
    BY <1>1, <1>2, <1>4, <1>5, <2>2 DEF Done
  <2>3. CASE Name(k) # Name(job)
    BY <1>1, <1>4, <1>5, <2>1, <2>3 DEF Done
  <2> QED
    BY <2>2, <2>3
<1>8. AllDone'
  BY <1>1, <1>7 DEF OutputInv, AllDone
<1> QED
  BY <1>1, <1>6, <1>8 DEF OutputInv, Current, Earlier

LEMMA StepKeepsOutput ==
  ASSUME Types, OutputInv, [Next]_vars
  PROVE  OutputInv'
<1>1. CASE UNCHANGED vars
  BY <1>1, QuietStep DEF vars, sessionVars
<1>2. CASE FirstSession \/ NextSession
  <2>1. phase' = "configure" /\ disk' = disk
    BY <1>2 DEF FirstSession, NextSession, Start
  <2> QED
    BY <2>1 DEF OutputInv, NoMixture, Current, Earlier, AllDone
<1>3. CASE Generate /\ UNCHANGED <<depVars, sessionVars>>
  BY <1>3, QuietStep DEF sessionVars
<1>4. CASE CheckDeps
  BY <1>4, QuietStep DEF CheckDeps, sessionVars
<1>5. CASE Configure \/ Configured \/ Kill
  <2>1. UNCHANGED <<disk, jobs, session>> /\ phase' \in {"idle", "check", "configure"}
    BY <1>5 DEF Configure, Configured, Kill, End
  <2> QED
    BY <2>1, QuietStep
<1>6. CASE StartInstalling
  <2>1. step = "open"
    BY <1>6 DEF StartInstalling, Types
  <2> QED
    BY <1>6, <2>1, QuietStep DEF StartInstalling
<1>7. CASE Install
  <2>1. CASE phase' = "idle"
    BY <1>7, <2>1, InstallEnds, QuietStep
  <2>2. CASE RemoveExisting
    BY <2>2, RemoveKeepsOutput
  <2>3. CASE MakeDirs /\ phase' # "idle"
    BY <2>3, MakeKeepsOutput
  <2>4. CASE /\ InstallGnat \/ InstallGnarl \/ CopyScripts \/ WriteConfig \/ WriteProjects
             /\ phase' # "idle"
    BY <2>4, WriteKeepsOutput
  <2> QED
    BY <1>7, <2>1, <2>2, <2>3, <2>4 DEF Install, RefuseExisting, End
<1>8. CASE Installed
  <2>1. UNCHANGED <<disk, jobs, session>> /\ phase = "install" /\ ~(job <= Len(jobs))
    BY <1>8 DEF Installed, installUnchanged, Types
  <2>2. CASE phase' = "idle"
    BY <2>1, <2>2, QuietStep
  <2>3. CASE phase' = "build"
    <3>1. \A k \in 1..Len(jobs) : Done(k)
      BY <2>1 DEF OutputInv, Earlier, Pending, Types
    <3>2. AllDone'
      BY <2>1, <3>1 DEF AllDone, Done, Name
    <3> QED
      BY <2>1, <2>3, <3>2 DEF OutputInv, NoMixture, Current, Earlier
  <2> QED
    BY <1>8, <2>2, <2>3 DEF Installed, End
<1>9. CASE BuildProject
  BY <1>9, BuildKeepsOutput
<1>10. CASE BuildFails \/ Built
  <2>1. UNCHANGED <<disk, jobs, session>> /\ phase' = "idle"
    BY <1>10 DEF BuildFails, Built, End, installUnchanged
  <2> QED
    BY <2>1, QuietStep
<1> QED
  BY <1>1, <1>2, <1>3, <1>4, <1>5, <1>6, <1>7, <1>8, <1>9, <1>10 DEF Next, Proceed

----------------------------------------------------------------------------
(* The theorems. *)

BuildInv == Types /\ OutputInv

LEMMA InitBuildInv == Init => BuildInv
<1> SUFFICES ASSUME Init PROVE BuildInv
  OBVIOUS
<1>1. /\ plan = <<>> /\ jobs = <<>> /\ disk = <<>>
      /\ phase = "idle" /\ job = 1 /\ step = "open" /\ session = 0
  BY DEF Init
<1>2. DOMAIN disk = {} /\ Len(jobs) = 0
  BY <1>1
<1>3. tree \in Trees /\ lib = "gnat"
  BY DEF Init, GenInit
<1>4. plan \in Seq(Runnable) /\ jobs \in Seq(Job) /\ Len(jobs) = 0
  BY <1>1, <1>2
<1>5. Types
  BY <1>1, <1>2, <1>3, <1>4 DEF Types, TypeOK, Libs
<1> QED
  BY <1>1, <1>2, <1>5 DEF BuildInv, OutputInv, NoMixture, Current, Earlier, AllDone

LEMMA StepKeepsBuildInv == BuildInv /\ [Next]_vars => BuildInv'
  BY StepKeepsTypes, StepKeepsOutput DEF BuildInv, OutputInv

LEMMA SpecBuildInv == Spec => []BuildInv
  BY InitBuildInv, StepKeepsBuildInv, PTL DEF Spec

(* Every variable of a session keeps its type, whatever the plan.          *)
THEOREM BuildTypeOK == Spec => []TypeOK
<1>1. BuildInv => TypeOK
  BY DEF BuildInv, Types
<1> QED
  BY <1>1, SpecBuildInv, PTL

(* No directory holds parts of two run-time libraries: neither targets     *)
(* that share a name, nor kills, failures and later sessions mix them.     *)
THEOREM NothingIsMixed == Spec => []NoMixture
<1>1. BuildInv => NoMixture
  BY DEF BuildInv, OutputInv
<1> QED
  BY <1>1, SpecBuildInv, PTL

(* A step of a session without --force leaves alone each directory that    *)
(* has a part from an earlier session.                                     *)
KeepsEarlier ==
  ~command.force =>
    \A n \in DOMAIN disk : \A part \in DOMAIN disk[n] :
      disk[n][part].by.session < session => n \in DOMAIN disk' /\ disk'[n] = disk[n]

LEMMA StepKeepsEarlier ==
  ASSUME BuildInv, [Next]_vars
  PROVE  KeepsEarlier
<1> SUFFICES ASSUME ~command.force, NEW n \in DOMAIN disk, NEW part \in DOMAIN disk[n],
                    disk[n][part].by.session < session
             PROVE  n \in DOMAIN disk' /\ disk'[n] = disk[n]
  BY DEF KeepsEarlier
<1>0. session \in Nat
  BY DEF BuildInv, Types, TypeOK
<1>1. CASE UNCHANGED disk
  BY <1>1
<1>2. CASE MakeDirs /\ phase' # "idle"
  BY <1>2, MakeEffect
<1>3. CASE /\ InstallGnat \/ InstallGnarl \/ CopyScripts \/ WriteConfig \/ WriteProjects
           /\ phase' # "idle"
  <2>1. phase = "install" /\ step # "open"
    BY <1>3 DEF InstallGnat, InstallGnarl, InstallLib, CopyScripts, WriteConfig,
                WriteProjects, Installing
  <2>2. /\ Name(job) \in DOMAIN disk
        /\ \A p \in DOMAIN disk[Name(job)] : disk[Name(job)][p].by.session = session
    BY <2>1 DEF BuildInv, OutputInv, Current, Writer
  <2>3. n # Name(job)
    BY <1>0, <2>2
  <2> QED
    BY <1>3, <2>2, <2>3, WriteEffect, PutEffect
<1>4. CASE BuildProject
  <2>1. Done(job)
    BY <1>4 DEF BuildProject, BuildInv, OutputInv, AllDone, Types
  <2>2. n # Name(job)
    BY <1>0, <2>1 DEF Done
  <2> QED
    BY <1>4, <2>1, <2>2, PutEffect DEF BuildProject, Done
<1>5. CASE Install
  <2>1. ~RemoveExisting
    BY DEF RemoveExisting
  <2>2. phase' = "idle" => UNCHANGED disk
    BY <1>5, InstallEnds DEF BuildInv
  <2> QED
    BY <1>1, <1>2, <1>3, <1>5, <2>1, <2>2 DEF Install, RefuseExisting
<1>6. CASE ~Install /\ ~BuildProject
  <2>1. UNCHANGED disk
    BY <1>6 DEF Next, Proceed, FirstSession, NextSession, Start, Configure, CheckDeps,
                Configured, StartInstalling, Installed, BuildFails, Built, Kill,
                sessionVars, vars
  <2> QED
    BY <1>1, <2>1
<1> QED
  BY <1>4, <1>5, <1>6

(* Without --force, no step of a session touches what an earlier session   *)
(* has written: the test for an existing directory in install protects it. *)
THEOREM EarlierIsKept == Spec => EarlierRuntimesKept
<1>1. BuildInv /\ [Next]_vars => [KeepsEarlier]_vars
  BY StepKeepsEarlier
<1> QED
  BY <1>1, SpecBuildInv, PTL DEF Spec, EarlierRuntimesKept, KeepsEarlier

(* The generator runs unchanged in the composition: what is proved of it   *)
(* holds for the descriptor that the sessions read.                        *)
LEMMA SpecGenSpec == Spec => GenSpec
<1>1. Init => GenInit
  BY DEF Init
<1>2. [Next]_vars => [Generate]_genVars
  BY DEF Next, Proceed, FirstSession, NextSession, Start, Configure, CheckDeps,
         Configured, StartInstalling, Install, RefuseExisting, RemoveExisting,
         MakeDirs, InstallGnat, InstallGnarl, InstallLib, CopyScripts, WriteConfig,
         WriteProjects, Installed, BuildProject, BuildFails, Built, Kill,
         installUnchanged, vars
<1> QED
  BY <1>1, <1>2, PTL DEF Spec, GenSpec

(* The recursion of the generator gives each caller back the list of       *)
(* directories it had, in every session as well.                           *)
THEOREM DirsAreRestored == Spec => []DirsRestored
  BY SpecGenSpec, RecursionRestoresDirs, PTL

(* The descriptor that the sessions read is complete and exact, for every  *)
(* tree and every table of directories and rules.                          *)
THEOREM DescriptorIsExactHere == Spec => []DescriptorExact
  BY SpecGenSpec, DescriptorIsExact, PTL

----------------------------------------------------------------------------
(* What a session that reports success has done. *)

IsLast(j) == \A k \in 1..Len(jobs) : k > j => Name(k) # Name(j)

Wanted(l, j) == {d \in DirsOf(tree, l) : Matches(SharedDirs[d].when, conf[j])}

LibsOf(j) == Range(LibsFor(Profile(j)))

Base(j) == LibsOf(j) \cup {"ld", "config", "projects"}

(* The library of job j is in the output with these parts, all its own.    *)
HasAll(j, parts) ==
  /\ Name(j) \in DOMAIN disk
  /\ DOMAIN disk[Name(j)] = parts
  /\ \A part \in parts : disk[Name(j)][part].by = Writer(j)
  /\ \A l \in LibsOf(j) : disk[Name(j)][l].has = Wanted(l, j)

(* The sessions are about libraries that the tree was generated for ...    *)
Served ==
  /\ plan \in Seq({c \in Runnable : JobsFor(c) \in Seq(ServedJobs(tree))})
  /\ jobs \in Seq(ServedJobs(tree))

(* ... they run when it is installed ...                                   *)
Running ==
  /\ session > 0 \/ phase = "idle"
  /\ session > 0 => lib = "installed"
  /\ phase # "idle" => outcome = ""

(* ... and the scenario values of the jobs are values that it knows.       *)
Known == IsSeq(conf) /\ \A i \in 1..Len(conf) : KnownTo(tree, conf[i])

Counted ==
  /\ phase \in {"configure", "check"} => Len(conf) = job - 1
  /\ phase \in {"install", "build"} => Len(conf) = Len(jobs)

Checking == phase = "check" => KnownTo(tree, vals) /\ pos \in Nat \ {0}

Settings == Served /\ Running /\ Known /\ Counted /\ Checking

(* The parts a job has written when it comes to a step.                    *)
PartsBefore(j, s) ==
  CASE s = "gnat" -> {}
    [] s = "gnarl" -> {"gnat"}
    [] s = "ld" -> LibsOf(j)
    [] s = "config" -> LibsOf(j) \cup {"ld"}
    [] s = "projects" -> LibsOf(j) \cup {"ld", "config"}

InProgress ==
  phase = "install" /\ step # "open" =>
    /\ DOMAIN disk[Name(job)] = PartsBefore(job, step)
    /\ LibsOf(job) \subseteq DOMAIN descriptor
    /\ step = "gnarl" => "gnarl" \in LibsOf(job)
    /\ \A l \in Libs \cap DOMAIN disk[Name(job)] : disk[Name(job)][l].has = Wanted(l, job)

InstalledSoFar ==
  phase = "install" =>
    \A j \in 1..Len(jobs) : j < job /\ IsLast(j) => HasAll(j, Base(j))

(* The build adds a part to the library that several jobs may be about.    *)
BuiltParts(j) ==
  Base(j) \cup {p \in {"adalib"} : \E k \in 1..Len(jobs) : k < job /\ Name(k) = Name(j)}

BuiltSoFar ==
  phase = "build" =>
    command.build /\ \A j \in 1..Len(jobs) : IsLast(j) => HasAll(j, BuiltParts(j))

Completed == \A j \in 1..Len(jobs) : IsLast(j) => Complete(j)

Reported == outcome = "success" => phase = "idle" /\ Completed

Progress == InProgress /\ InstalledSoFar /\ BuiltSoFar /\ Reported

(* A tree that knows the scenario values finds in its descriptor the       *)
(* directories whose own conditions the values satisfy.                    *)
LEMMA ChosenAreWanted ==
  ASSUME lib = "installed", tree \in Trees, DescriptorExact,
         NEW l \in DOMAIN descriptor, NEW s, KnownTo(tree, s)
  PROVE  GetRtsDirs(l, s) = {d \in DirsOf(tree, l) : Matches(SharedDirs[d].when, s)}
<1>1. descriptor[l] = Asked(l)
  BY DEF DescriptorExact, Asked
<1>2. \A d \in DirsOf(tree, l) :
         /\ d \in DOMAIN SharedDirs /\ DOMAIN SharedDirs[d].when \subseteq DOMAIN Scenarios
         /\ RulesOf[tree][d] = RuleIn(tree, SharedDirs[d])
  BY TableAssumption DEF RulesOf, RulesFor, DirsOf, DirsIn
<1>3. ASSUME NEW d \in GetRtsDirs(l, s)
      PROVE  d \in DirsOf(tree, l) /\ Matches(SharedDirs[d].when, s)
  <2>1. PICK entry \in descriptor[l] :
          /\ entry[2] = d
          /\ \A v \in DOMAIN entry[1] : v \in DOMAIN s /\ s[v] = entry[1][v]
    BY <1>3 DEF GetRtsDirs
  <2>2. PICK e \in {e \in DirsOf(tree, l) : RulesOf[tree][e].valid} :
          entry \in {<<branch, e>> : branch \in Branches(RulesOf[tree][e].scenarios)}
    BY <1>1, <2>1 DEF Asked
  <2>3. PICK b \in Branches(RulesOf[tree][e].scenarios) : entry = <<b, e>>
    BY <2>2
  <2>4. entry[1] = b /\ entry[2] = e /\ e = d
    BY <2>1, <2>3
  <2>5. /\ DOMAIN b = DOMAIN RulesOf[tree][d].scenarios
        /\ \A v \in DOMAIN b : b[v] \in RulesOf[tree][d].scenarios[v]
    BY <2>3, <2>4, BranchesAreTargets
  <2>6. /\ DOMAIN RulesOf[tree][d].scenarios = DOMAIN SharedDirs[d].when
        /\ \A v \in DOMAIN SharedDirs[d].when :
             RulesOf[tree][d].scenarios[v] \subseteq SharedDirs[d].when[v]
    <3> DEFINE when == SharedDirs[d].when
               rule == [v \in DOMAIN when |-> when[v] \cap Range(ValuesOf(tree, v))]
    <3>1. RulesOf[tree][d] = RuleIn(tree, SharedDirs[d]) /\ RulesOf[tree][d].valid
      BY <1>2, <2>2, <2>4
    <3>2. RulesOf[tree][d].scenarios = rule
      BY <3>1 DEF RuleIn
    <3>3. DOMAIN rule = DOMAIN when /\ \A v \in DOMAIN when : rule[v] \subseteq when[v]
      OBVIOUS
    <3> HIDE DEF rule
    <3> QED
      BY <3>2, <3>3
  <2> QED
    BY <2>1, <2>2, <2>4, <2>5, <2>6 DEF Matches
<1>4. ASSUME NEW d \in DirsOf(tree, l), Matches(SharedDirs[d].when, s)
      PROVE  d \in GetRtsDirs(l, s)
  <2> DEFINE when == SharedDirs[d].when
             rule == [v \in DOMAIN when |-> when[v] \cap Range(ValuesOf(tree, v))]
             b == [v \in DOMAIN when |-> s[v]]
  <2>1. \A v \in DOMAIN when :
          /\ v \in DOMAIN s /\ s[v] \in when[v] /\ s[v] \in Range(ValuesOf(tree, v))
    BY <1>2, <1>4 DEF KnownTo, Matches
  <2>2. \A v \in DOMAIN rule : s[v] \in rule[v]
    BY <2>1
  <2>3. RulesOf[tree][d].valid /\ RulesOf[tree][d].scenarios = rule
    <3>1. RulesOf[tree][d] = RuleIn(tree, SharedDirs[d])
      BY <1>2
    <3>2. \A v \in DOMAIN rule : rule[v] # {}
      BY <2>2
    <3> QED
      BY <3>1, <3>2 DEF RuleIn
  <2>4. b \in Branches(RulesOf[tree][d].scenarios)
    BY <2>2, <2>3, BranchesAreTargets DEF IsAFcn
  <2>5. <<b, d>> \in descriptor[l]
    BY <1>1, <2>3, <2>4 DEF Asked
  <2>6. \A v \in DOMAIN b : v \in DOMAIN s /\ s[v] = b[v]
    BY <2>1
  <2>7. <<b, d>>[1] = b /\ <<b, d>>[2] = d
    OBVIOUS
  <2> HIDE DEF b
  <2> QED
    BY <2>5, <2>6, <2>7 DEF GetRtsDirs
<1> QED
  BY <1>3, <1>4

LEMMA LibsForFacts ==
  ASSUME NEW j
  PROVE  /\ "gnat" \in LibsOf(j) /\ LibsOf(j) \subseteq Libs
         /\ Len(LibsFor(Profile(j))) = 2 => LibsOf(j) = Libs
         /\ Len(LibsFor(Profile(j))) # 2 => LibsOf(j) = {"gnat"}
<1>1. CASE LibsFor(Profile(j)) = <<"gnat", "gnarl">>
  BY <1>1 DEF LibsOf, Libs, Range
<1>2. CASE LibsFor(Profile(j)) = <<"gnat">>
  BY <1>2 DEF LibsOf, Libs, Range
<1> QED
  BY <1>1, <1>2 DEF LibsFor

(* Defaults and requirements are values that the tree knows. *)
LEMMA DefaultsAreKnown ==
  ASSUME NEW libs, NEW s, KnownTo(tree, s)
  PROVE  KnownTo(tree, Update(DefaultsFor(libs), s))
<1> SUFFICES ASSUME NEW v \in DOMAIN Update(DefaultsFor(libs), s), v \in DOMAIN Scenarios
             PROVE  Update(DefaultsFor(libs), s)[v] \in Range(ValuesOf(tree, v))
  BY DEF KnownTo
<1>1. CASE v \in DOMAIN s
  BY <1>1 DEF Update, KnownTo
<1>2. CASE v \notin DOMAIN s
  <2>1. Update(DefaultsFor(libs), s)[v] = Head(ValuesOf(tree, v))
    BY <1>2 DEF Update, DefaultsFor
  <2>2. IsSeq(ValuesOf(tree, v))
    BY ValuesAreListed
  <2>3. ValuesOf(tree, v) # <<>>
    <3>1. Scenarios[v] # <<>>
      BY TableAssumption
    <3>2. <<"light">> # <<>> /\ <<"light", "light-tasking">> # <<>> /\ <<"light", "cert">> # <<>>
      OBVIOUS
    <3> QED
      BY <3>1, <3>2 DEF ValuesOf
  <2> QED
    BY <2>1, <2>2, <2>3, HeadTail
<1> QED
  BY <1>1, <1>2

LEMMA NeedsAreKnown ==
  ASSUME NEW d \in DOMAIN SharedDirs, NEW s, KnownTo(tree, s)
  PROVE  KnownTo(tree, Update(s, CorrespondingScenario(SharedDirs[d].needs)))
<1> DEFINE needs == SharedDirs[d].needs
           t == Update(s, CorrespondingScenario(needs))
<1> SUFFICES ASSUME NEW v \in DOMAIN t, v \in DOMAIN Scenarios
             PROVE  t[v] \in Range(ValuesOf(tree, v))
  BY DEF KnownTo
<1>1. DOMAIN CorrespondingScenario(needs) = DOMAIN needs
  BY DEF CorrespondingScenario
<1>2. CASE v \notin DOMAIN needs
  <2>1. v \in DOMAIN s /\ t[v] = s[v]
    BY <1>1, <1>2 DEF Update
  <2> QED
    BY <2>1 DEF KnownTo
<1>3. CASE v \in DOMAIN needs
  <2>1. t[v] = CHOOSE x \in needs[v] : TRUE
    BY <1>3 DEF Update, CorrespondingScenario
  <2>2. /\ needs[v] # {} /\ needs[v] \subseteq Range(Scenarios[v])
        /\ v # "RTS_Profile"
    BY <1>3, NeedsAssumption
  <2>3. t[v] \in Range(Scenarios[v])
    BY <2>1, <2>2
  <2>4. ValuesOf(tree, v) = Scenarios[v]
    BY <2>2 DEF ValuesOf
  <2> QED
    BY <2>3, <2>4
<1> QED
  BY <1>2, <1>3

----------------------------------------------------------------------------
(* The settings. *)

LEMMA SameServed ==
  ASSUME Served, UNCHANGED <<tree, plan, jobs>>
  PROVE  Served'
BY DEF Served, ServedJobs, KnownTo

LEMMA SameKnown ==
  ASSUME Known, UNCHANGED <<tree, conf>>
  PROVE  Known'
BY DEF Known, KnownTo

LEMMA StartSettings ==
  ASSUME Types, lib = "installed", NEW STATE sessions, Start(sessions),
         sessions \in Seq({c \in Runnable : JobsFor(c) \in Seq(ServedJobs(tree))}) \ {<<>>}
  PROVE  Settings'
<1> DEFINE servable == {c \in Runnable : JobsFor(c) \in Seq(ServedJobs(tree))}
<1>1. Head(sessions) \in servable /\ Tail(sessions) \in Seq(servable)
  OBVIOUS
<1>2. JobsFor(Head(sessions)) \in Seq(ServedJobs(tree))
  BY <1>1
<1>3. plan' \in Seq(servable) /\ jobs' \in Seq(ServedJobs(tree)) /\ tree' = tree
  BY <1>1, <1>2 DEF Start, genVars
<1>4. Served'
  BY <1>3 DEF Served, ServedJobs, KnownTo
<1>5. Running'
  <2>1. session \in Nat
    BY DEF Types, TypeOK
  <2>2. lib' = lib /\ outcome' = ""
    BY DEF Start, genVars
  <2>3. session' > 0
    <3>1. session' = session + 1
      BY DEF Start
    <3> QED
      BY <2>1, <3>1
  <2> QED
    BY <2>2, <2>3 DEF Running
<1>6. conf' = <<>> /\ job' = 1 /\ phase' = "configure"
  BY DEF Start
<1>7. IsSeq(conf') /\ Len(conf') = 0
  <2>1. <<>> \in Seq({}) /\ Len(<<>>) = 0
    OBVIOUS
  <2> QED
    BY <1>6, <2>1 DEF IsSeq
<1>8. Known'
  BY <1>7 DEF Known
<1>9. Counted' /\ Checking'
  BY <1>6, <1>7 DEF Counted, Checking
<1> QED
  BY <1>4, <1>5, <1>8, <1>9 DEF Settings

(* A step that leaves the settings alone, but for the phase. *)
LEMMA SameSettings ==
  ASSUME Settings, UNCHANGED <<tree, lib, plan, session, jobs, conf>>,
         phase' # "check",
         phase' = "idle" \/ (phase # "idle" /\ outcome' = outcome),
         phase' = "configure" => Len(conf) = job' - 1,
         phase' \in {"install", "build"} => Len(conf) = Len(jobs)
  PROVE  Settings'
<1>1. Served' /\ Known'
  BY SameServed, SameKnown DEF Settings
<1>2. Running' /\ Counted' /\ Checking'
  BY DEF Settings, Running, Counted, Checking
<1> QED
  BY <1>1, <1>2 DEF Settings

LEMMA ConfigureSettings ==
  ASSUME Types, Settings, Configure
  PROVE  Settings'
<1>1. /\ phase = "configure" /\ job <= Len(jobs)
      /\ UNCHANGED <<tree, lib, plan, session, jobs, job, conf>>
  BY DEF Configure, genVars
<1>2. CASE ~KnownCPU(Board(job))
  <2>1. phase' = "idle"
    BY <1>2 DEF Configure, End
  <2> QED
    BY <1>1, <2>1, SameSettings
<1>3. CASE KnownCPU(Board(job))
  <2>1. /\ vals' = amend_rts(Board(job), BaseScenarios(Board(job), Profile(job)))
        /\ phase' = "check" /\ outcome' = outcome /\ pos' = 1
    BY <1>3 DEF Configure, Deps!Begin
  <2>2. jobs[job] \in ServedJobs(tree)
    <3>1. jobs \in Seq(ServedJobs(tree)) /\ job \in Nat \ {0}
      BY DEF Settings, Served, Types
    <3>2. Len(jobs) \in Nat
      BY <3>1
    <3>3. job \in 1..Len(jobs)
      BY <1>1, <3>1, <3>2
    <3> QED
      BY <3>1, <3>3
  <2>3. KnownTo(tree, amend_rts(Board(job), BaseScenarios(Board(job), Profile(job))))
    BY <1>3, <2>2 DEF ServedJobs, Board, Profile
  <2>4. Checking'
    BY <1>1, <2>1, <2>3 DEF Checking, KnownTo
  <2>5. Served' /\ Known'
    BY <1>1, SameServed, SameKnown DEF Settings
  <2>6. Running' /\ Counted'
    BY <1>1, <2>1 DEF Settings, Running, Counted
  <2> QED
    BY <2>4, <2>5, <2>6 DEF Settings
<1> QED
  BY <1>2, <1>3

LEMMA CheckDepsSettings ==
  ASSUME Settings, CheckDeps
  PROVE  Settings'
<1>1. /\ phase = "check"
      /\ UNCHANGED <<tree, lib, plan, session, jobs, job, conf, outcome, phase>>
  BY DEF CheckDeps, genVars, sessionVars
<1>2. KnownTo(tree, vals) /\ pos \in Nat \ {0}
  BY <1>1 DEF Settings, Checking
<1>3. KnownTo(tree, vals') /\ pos' \in Nat \ {0}
  <2>1. CASE Deps!NextPass
    BY <1>2, <2>1 DEF Deps!NextPass
  <2>2. CASE Deps!Meet
    <3>1. PICK j \in pos..Len(SharedDirs) :
            /\ ~Deps!Met(j)
            /\ vals' = Deps!Update(vals, Deps!CorrespondingScenario(SharedDirs[j].needs))
            /\ pos' = j + 1
      BY <2>2 DEF Deps!Meet
    <3>2. j \in DOMAIN SharedDirs /\ pos' \in Nat \ {0}
      BY <1>2, <3>1, TableAssumption
    <3>3. vals' = Update(vals, CorrespondingScenario(SharedDirs[j].needs))
      BY <3>1 DEF Deps!Update, Deps!CorrespondingScenario, Update, CorrespondingScenario
    <3> QED
      BY <1>2, <3>2, <3>3, NeedsAreKnown
  <2> QED
    BY <2>1, <2>2 DEF CheckDeps
<1>4. Checking'
  BY <1>1, <1>3 DEF Checking, KnownTo
<1>5. Served' /\ Known'
  BY <1>1, SameServed, SameKnown DEF Settings
<1>6. Running' /\ Counted'
  BY <1>1 DEF Settings, Running, Counted
<1> QED
  BY <1>4, <1>5, <1>6 DEF Settings

(* A sequence with one element replaced.                                   *)
LEMMA ReplaceOne ==
  ASSUME NEW s, IsSeq(s), NEW i \in 1..Len(s), NEW x, NEW t, t = [s EXCEPT ![i] = x]
  PROVE  /\ IsSeq(t) /\ Len(t) = Len(s)
         /\ \A j \in 1..Len(s) : j # i => t[j] = s[j]
         /\ t[i] = x
<1>1. PICK S : s \in Seq(S)
  BY DEF IsSeq
<1>2. s \in Seq(S \cup {x}) /\ x \in S \cup {x}
  BY <1>1
<1>3. /\ t \in Seq(S \cup {x}) /\ Len(t) = Len(s)
      /\ \A j \in 1..Len(s) : t[j] = IF j = i THEN x ELSE s[j]
  BY <1>2, ExceptSeq
<1>4. t[i] = x
  BY <1>3
<1> QED
  BY <1>3, <1>4 DEF IsSeq

LEMMA MakeDirsSettings ==
  ASSUME Types, Settings, MakeDirs, phase' # "idle"
  PROVE  /\ Settings'
         /\ \A i \in 1..Len(jobs) : i # job => conf'[i] = conf[i]
<1>1. /\ phase = "install" /\ job \in 1..Len(jobs)
      /\ UNCHANGED <<tree, lib, plan, session, jobs, job, phase, outcome>>
  <2>1. UNCHANGED <<tree, lib, plan, session, jobs, job>>
    BY DEF MakeDirs, installUnchanged, genVars
  <2>2. UNCHANGED <<phase, outcome>>
    BY DEF MakeDirs, End
  <2>3. phase = "install" /\ job <= Len(jobs)
    BY DEF MakeDirs, Installing
  <2>4. job \in Nat \ {0} /\ Len(jobs) \in Nat
    BY DEF Types
  <2> QED
    BY <2>1, <2>2, <2>3, <2>4
<1> DEFINE new == Update(DefaultsFor(LibsFor(Profile(job))), conf[job])
<1>2. conf' = [conf EXCEPT ![job] = new]
  BY DEF MakeDirs, End
<1>3. IsSeq(conf)
  BY DEF Settings, Known
<1>4. Len(conf) = Len(jobs) /\ \A i \in 1..Len(conf) : KnownTo(tree, conf[i])
  BY <1>1 DEF Settings, Counted, Known
<1>5. KnownTo(tree, new)
  BY <1>1, <1>4, DefaultsAreKnown
<1> HIDE DEF new
<1>6. /\ Len(conf') = Len(conf) /\ IsSeq(conf')
      /\ \A i \in 1..Len(conf) : i # job => conf'[i] = conf[i]
      /\ conf'[job] = new
  <2>1. job \in 1..Len(conf)
    BY <1>1, <1>4
  <2>2. PICK n : n = new
    OBVIOUS
  <2>3. conf' = [conf EXCEPT ![job] = n]
    BY <1>2, <2>2
  <2>4. IsSeq(conf')
    BY <1>3, <2>1, <2>3, ReplaceOne
  <2>5. Len(conf') = Len(conf)
    BY <1>3, <2>1, <2>3, ReplaceOne
  <2>6. \A i \in 1..Len(conf) : i # job => conf'[i] = conf[i]
    BY <1>3, <2>1, <2>3, ReplaceOne
  <2>7. conf'[job] = n
    BY <1>3, <2>1, <2>3, ReplaceOne
  <2> QED
    BY <2>2, <2>4, <2>5, <2>6, <2>7
<1>7. \A i \in 1..Len(conf') : KnownTo(tree, conf'[i])
  BY <1>4, <1>5, <1>6
<1>8. Known'
  BY <1>1, <1>6, <1>7 DEF Known, KnownTo
<1>9. Counted' /\ Running' /\ Checking'
  BY <1>1, <1>4, <1>6 DEF Settings, Counted, Running, Checking
<1>10. Served'
  BY <1>1, SameServed DEF Settings
<1> QED
  BY <1>4, <1>6, <1>8, <1>9, <1>10 DEF Settings

LEMMA ConfiguredSettings ==
  ASSUME Types, Settings, Configured
  PROVE  Settings'
<1>1. /\ phase = "check" /\ phase' = "configure" /\ job' = job + 1
      /\ conf' = Append(conf, vals)
      /\ UNCHANGED <<tree, lib, plan, session, jobs, outcome>>
  BY DEF Configured, genVars
<1>2. /\ KnownTo(tree, vals) /\ Len(conf) = job - 1 /\ IsSeq(conf) /\ job \in Nat
      /\ \A i \in 1..Len(conf) : KnownTo(tree, conf[i])
  BY <1>1 DEF Settings, Known, Counted, Checking, Types
<1>3. /\ IsSeq(conf') /\ Len(conf) \in Nat
      /\ DOMAIN conf' = 1..Len(conf) + 1
      /\ \A i \in 1..Len(conf) : conf'[i] = conf[i]
      /\ conf'[Len(conf) + 1] = vals
  BY <1>1, <1>2, Push
<1>4. Len(conf') = job' - 1 /\ Len(conf') = Len(conf) + 1
  <2>1. PICK S : conf \in Seq(S)
    BY <1>2 DEF IsSeq
  <2>2. conf \in Seq(S \cup {vals}) /\ vals \in S \cup {vals}
    BY <2>1
  <2> QED
    BY <1>1, <1>2, <2>2
<1>5. \A i \in 1..Len(conf') : KnownTo(tree, conf'[i])
  <2> SUFFICES ASSUME NEW i \in 1..Len(conf') PROVE KnownTo(tree, conf'[i])
    OBVIOUS
  <2>1. i \in 1..Len(conf) \/ i = Len(conf) + 1
    BY <1>3, <1>4
  <2> QED
    BY <1>2, <1>3, <2>1
<1>6. Known'
  BY <1>1, <1>3, <1>5 DEF Known, KnownTo
<1>7. Counted' /\ Running' /\ Checking'
  BY <1>1, <1>4 DEF Settings, Counted, Running, Checking
<1>8. Served'
  BY <1>1, SameServed DEF Settings
<1> QED
  BY <1>6, <1>7, <1>8 DEF Settings

(* Only the creation of the directories completes the scenario values.     *)
LEMMA InstallKeepsConf ==
  ASSUME Install, ~(MakeDirs /\ phase' # "idle")
  PROVE  conf' = conf /\ (phase' = "idle" \/ outcome' = outcome)
<1>1. ASSUME NEW l, NEW next, InstallLib(l, next)
      PROVE  conf' = conf /\ (phase' = "idle" \/ outcome' = outcome)
  BY <1>1 DEF InstallLib, End
<1>2. CASE InstallGnat \/ InstallGnarl
  BY <1>1, <1>2 DEF InstallGnat, InstallGnarl
<1>3. CASE RefuseExisting \/ RemoveExisting
  BY <1>3 DEF RefuseExisting, RemoveExisting, End
<1>4. CASE MakeDirs
  BY <1>4 DEF MakeDirs, Installing
<1>5. CASE CopyScripts \/ WriteConfig \/ WriteProjects
  BY <1>5 DEF CopyScripts, WriteConfig, WriteProjects
<1> QED
  BY <1>2, <1>3, <1>4, <1>5 DEF Install

LEMMA StepKeepsSettings ==
  ASSUME TreesServePlans, Ordered, Types, Settings, [Next]_vars
  PROVE  Settings'
<1>1. CASE UNCHANGED vars
  <2>1. UNCHANGED <<tree, lib, plan, session, jobs, conf, phase, outcome, job, vals, pos>>
    BY <1>1 DEF vars, genVars, depVars, sessionVars
  <2>2. Served' /\ Known'
    BY <2>1, SameServed, SameKnown DEF Settings
  <2>3. Running' /\ Counted' /\ Checking'
    BY <2>1 DEF Settings, Running, Counted, Checking, KnownTo
  <2> QED
    BY <2>2, <2>3 DEF Settings
<1>2. CASE FirstSession
  <2> DEFINE servable == {c \in Runnable : JobsFor(c) \in Seq(ServedJobs(tree))}
  <2>1. PICK sessions \in Plans[tree] : Start(sessions)
    BY <1>2 DEF FirstSession
  <2>2. lib = "installed" /\ tree \in Trees
    BY <1>2 DEF FirstSession, Types, TypeOK
  <2>3. sessions \in Seq(Runnable) \ {<<>>}
    BY <2>2, PlansAssumption
  <2>4. \A i \in 1..Len(sessions) : sessions[i] \in servable
    BY <2>2, <2>3 DEF TreesServePlans
  <2>5. sessions \in Seq(servable) \ {<<>>}
    BY <2>3, <2>4
  <2> QED
    BY <2>1, <2>2, <2>5, StartSettings
<1>3. CASE NextSession
  <2>1. Start(plan) /\ plan # <<>> /\ lib = "installed"
    BY <1>3 DEF NextSession, Settings, Running
  <2> QED
    BY <2>1, StartSettings DEF Settings, Served
<1>4. CASE Generate /\ UNCHANGED <<depVars, sessionVars>>
  <2>1. UNCHANGED <<tree, plan, session, jobs, conf, phase, outcome, job, vals, pos>>
    BY <1>4 DEF sessionVars, depVars, Generate, Enter, NextValue, NextVariable, Leave,
                NextLib, InstallTree
  <2>2. lib # "installed"
    <3>1. lib = "installed" => stack = <<>> /\ ~entering
      BY DEF Ordered, Libs
    <3> QED
      BY <1>4, <3>1 DEF Generate, Enter, NextValue, NextVariable, Leave, NextLib, InstallTree
  <2>3. ~(session > 0) /\ phase = "idle"
    BY <2>2 DEF Settings, Running
  <2>4. Served' /\ Known'
    BY <2>1, SameServed, SameKnown DEF Settings
  <2>5. Running' /\ Counted' /\ Checking'
    BY <2>1, <2>3 DEF Running, Counted, Checking
  <2> QED
    BY <2>4, <2>5 DEF Settings
<1>5. CASE Configure
  BY <1>5, ConfigureSettings
<1>6. CASE CheckDeps
  BY <1>6, CheckDepsSettings
<1>7. CASE Configured
  BY <1>7, ConfiguredSettings
<1>8. CASE MakeDirs /\ phase' # "idle"
  BY <1>8, MakeDirsSettings
<1>9. CASE Install /\ ~(MakeDirs /\ phase' # "idle")
  <2>1. /\ UNCHANGED <<tree, lib, plan, session, jobs>>
        /\ phase = "install" /\ phase' \in {"install", "idle"}
    BY <1>9, InstallFrame
  <2>2. conf' = conf /\ (phase' = "idle" \/ outcome' = outcome)
    BY <1>9, InstallKeepsConf
  <2>3. Len(conf) = Len(jobs)
    BY <2>1 DEF Settings, Counted
  <2> QED
    BY <2>1, <2>2, <2>3, SameSettings
<1>10. CASE StartInstalling
  <2>1. /\ UNCHANGED <<tree, lib, plan, session, jobs, conf, outcome>>
        /\ phase = "configure" /\ phase' = "install"
    BY <1>10 DEF StartInstalling, genVars
  <2>2. Len(conf) = Len(jobs)
    <3>1. job > Len(jobs) /\ job \in 1..Len(jobs) + 1
      BY <1>10 DEF StartInstalling, Types, TypeOK
    <3>2. Len(jobs) \in Nat
      BY DEF Types
    <3>3. Len(conf) = job - 1
      BY <2>1 DEF Settings, Counted
    <3> QED
      BY <3>1, <3>2, <3>3
  <2> QED
    BY <2>1, <2>2, SameSettings
<1>11. CASE Installed \/ BuildProject
  <2>1. UNCHANGED <<tree, lib, plan, session, jobs, conf>>
    BY <1>11 DEF Installed, BuildProject, installUnchanged, genVars
  <2>2. /\ phase \in {"install", "build"}
        /\ phase' = "idle" \/ (phase' = "build" /\ outcome' = outcome)
    BY <1>11 DEF Installed, BuildProject, installUnchanged, End
  <2>3. Len(conf) = Len(jobs)
    BY <2>2 DEF Settings, Counted
  <2> QED
    BY <2>1, <2>2, <2>3, SameSettings
<1>12. CASE BuildFails \/ Built \/ Kill
  <2>1. UNCHANGED <<tree, lib, plan, session, jobs, conf>> /\ phase' = "idle"
    BY <1>12 DEF BuildFails, Built, Kill, End, installUnchanged, genVars
  <2> QED
    BY <2>1, SameSettings
<1> QED
  BY <1>1, <1>2, <1>3, <1>4, <1>5, <1>6, <1>7, <1>8, <1>9, <1>10, <1>11, <1>12
     DEF Next, Proceed

----------------------------------------------------------------------------
(* The progress. *)

(* A library that no step touches stays as it is. *)
LEMMA HasAllKept ==
  ASSUME NEW j, NEW parts, HasAll(j, parts),
         UNCHANGED <<tree, jobs, session>>, conf'[j] = conf[j],
         Name(j) \in DOMAIN disk', disk'[Name(j)] = disk[Name(j)]
  PROVE  HasAll(j, parts)'
<1>1. Name(j)' = Name(j) /\ Writer(j)' = Writer(j) /\ LibsOf(j)' = LibsOf(j)
  BY DEF Name, Writer, LibsOf, Profile
<1>2. \A l : Wanted(l, j)' = Wanted(l, j)
  BY DEF Wanted
<1> QED
  BY <1>1, <1>2 DEF HasAll

(* With all its parts a library is complete. *)
LEMMA AllIsComplete ==
  ASSUME NEW j, NEW parts, HasAll(j, parts),
         parts = Base(j) \cup (IF command.build THEN {"adalib"} ELSE {})
  PROVE  Complete(j)
<1>1. parts = Range(LibsFor(Profile(j))) \cup {"ld", "config", "projects"}
                \cup (IF command.build THEN {"adalib"} ELSE {})
  BY DEF Base, LibsOf
<1> QED
  BY <1>1 DEF HasAll, Complete, LibsOf, Wanted

(* Outside of the installation and the build there is nothing to do. *)
LEMMA QuietProgress ==
  ASSUME phase' \notin {"install", "build"}, outcome' # "success"
  PROVE  Progress'
BY DEF Progress, InProgress, InstalledSoFar, BuiltSoFar, Reported

LEMMA StutterProgress ==
  ASSUME Progress, UNCHANGED <<tree, sessionVars>>, phase = "idle" \/ descriptor' = descriptor
  PROVE  Progress'
<1>1. UNCHANGED <<tree, session, command, phase, jobs, job, step, conf, outcome, disk>>
  BY DEF sessionVars
<1>2. \A j : /\ Name(j)' = Name(j) /\ Writer(j)' = Writer(j) /\ LibsOf(j)' = LibsOf(j)
             /\ Profile(j)' = Profile(j) /\ Base(j)' = Base(j) /\ IsLast(j)' = IsLast(j)
  BY <1>1 DEF Name, Writer, LibsOf, Profile, Base, IsLast
<1>3. \A l, j : Wanted(l, j)' = Wanted(l, j)
  BY <1>1 DEF Wanted
<1>4. \A j, s : PartsBefore(j, s)' = PartsBefore(j, s)
  BY <1>2 DEF PartsBefore
<1>5. \A j : BuiltParts(j)' = BuiltParts(j)
  BY <1>1, <1>2 DEF BuiltParts
<1>6. InProgress'
  BY <1>1, <1>2, <1>3, <1>4 DEF Progress, InProgress
<1>7. InstalledSoFar'
  BY <1>1, <1>2, <1>3 DEF Progress, InstalledSoFar, HasAll
<1>8. BuiltSoFar'
  BY <1>1, <1>2, <1>3, <1>5 DEF Progress, BuiltSoFar, HasAll
<1>9. Reported'
  <2>1. \A j : Complete(j)' = Complete(j)
    BY <1>1, <1>2 DEF Complete
  <2> QED
    BY <1>1, <1>2, <2>1 DEF Progress, Reported, Completed
<1> QED
  BY <1>6, <1>7, <1>8, <1>9 DEF Progress

(* What is installed survives a step that changes but the library of the   *)
(* job, which comes later and has another name.                            *)
LEMMA InstalledKept ==
  ASSUME Types, InstalledSoFar, phase = "install", job <= Len(jobs),
         UNCHANGED <<tree, jobs, session>>,
         \A i \in 1..Len(jobs) : i # job => conf'[i] = conf[i],
         \A n \in DOMAIN disk : n # Name(job) => n \in DOMAIN disk' /\ disk'[n] = disk[n]
  PROVE  \A j \in 1..Len(jobs) : j < job /\ IsLast(j) => HasAll(j, Base(j))'
<1> SUFFICES ASSUME NEW j \in 1..Len(jobs), j < job, IsLast(j)
             PROVE  HasAll(j, Base(j))'
  OBVIOUS
<1>1. job \in 1..Len(jobs) /\ job > j /\ j # job
  BY DEF Types
<1>2. Name(job) # Name(j)
  BY <1>1 DEF IsLast
<1>3. HasAll(j, Base(j))
  BY DEF InstalledSoFar
<1>4. Name(j) \in DOMAIN disk' /\ disk'[Name(j)] = disk[Name(j)]
  BY <1>2, <1>3 DEF HasAll
<1>5. PICK parts : parts = Base(j)
  OBVIOUS
<1>6. HasAll(j, parts)'
  BY <1>1, <1>3, <1>4, <1>5, HasAllKept
<1>7. Base(j)' = Base(j)
  BY DEF Base, LibsOf, Profile
<1> QED
  BY <1>5, <1>6, <1>7

LEMMA RemoveProgress ==
  ASSUME Types, Settings, Progress, RemoveExisting
  PROVE  Progress'
<1>1. /\ phase = "install" /\ step = "open" /\ job <= Len(jobs)
      /\ UNCHANGED <<tree, jobs, session, conf, phase, job, step, outcome>>
  BY DEF RemoveExisting, Installing, installUnchanged, genVars
<1>2. \A n \in DOMAIN disk : n # Name(job) => n \in DOMAIN disk' /\ disk'[n] = disk[n]
  BY RemoveEffect
<1>3. \A j \in 1..Len(jobs) : j < job /\ IsLast(j) => HasAll(j, Base(j))'
  BY <1>1, <1>2, InstalledKept DEF Progress
<1>4. \A j : IsLast(j)' = IsLast(j)
  BY <1>1 DEF IsLast, Name
<1>5. InstalledSoFar'
  BY <1>1, <1>3, <1>4 DEF InstalledSoFar
<1>6. outcome' = ""
  BY <1>1 DEF Settings, Running
<1> QED
  BY <1>1, <1>5, <1>6 DEF Progress, InProgress, BuiltSoFar, Reported

LEMMA MakeDirsProgress ==
  ASSUME Types, Settings, Progress, MakeDirs, phase' # "idle"
  PROVE  Progress'
<1>1. /\ phase = "install" /\ step = "open" /\ job <= Len(jobs)
      /\ UNCHANGED <<tree, descriptor, jobs, session, phase, job, outcome>>
  <2>1. UNCHANGED <<tree, descriptor, jobs, session, job>>
    BY DEF MakeDirs, installUnchanged, genVars
  <2>2. UNCHANGED <<phase, outcome>>
    BY DEF MakeDirs, End
  <2> QED
    BY <2>1, <2>2 DEF MakeDirs, Installing
<1>2. /\ \A n \in DOMAIN disk : n \in DOMAIN disk' /\ disk'[n] = disk[n]
      /\ DOMAIN disk'[Name(job)] = {} /\ step' = "gnat"
  BY MakeEffect
<1>3. \A i \in 1..Len(jobs) : i # job => conf'[i] = conf[i]
  BY MakeDirsSettings
<1>4. \A j \in 1..Len(jobs) : j < job /\ IsLast(j) => HasAll(j, Base(j))'
  BY <1>1, <1>2, <1>3, InstalledKept DEF Progress
<1>5. \A j : IsLast(j)' = IsLast(j) /\ Name(j)' = Name(j) /\ LibsOf(j)' = LibsOf(j)
  BY <1>1 DEF IsLast, Name, LibsOf, Profile
<1>6. InstalledSoFar'
  BY <1>1, <1>4, <1>5 DEF InstalledSoFar
<1>7. outcome' = ""
  BY <1>1 DEF Settings, Running
<1>8. LibsOf(job) \subseteq DOMAIN descriptor
  BY DEF MakeDirs, End, LibsOf
<1>9. PartsBefore(job, "gnat") = {}
  BY DEF PartsBefore
<1>10. InProgress'
  BY <1>1, <1>2, <1>5, <1>8, <1>9 DEF InProgress, PartsBefore
<1> QED
  BY <1>1, <1>6, <1>7, <1>10 DEF Progress, BuiltSoFar, Reported

(* A part of the library of the job has been written. *)
LEMMA PartWritten ==
  ASSUME Types, OutputInv, Progress, phase = "install", step # "open",
         UNCHANGED <<tree, jobs, session, conf>>,
         NEW part, NEW content, Put(part, Writer(job), content)
  PROVE  /\ \A j \in 1..Len(jobs) : j < job /\ IsLast(j) => HasAll(j, Base(j))'
         /\ Name(job) \in DOMAIN disk'
         /\ DOMAIN disk'[Name(job)] = PartsBefore(job, step) \cup {part}
         /\ \A p \in DOMAIN disk'[Name(job)] : disk'[Name(job)][p].by = Writer(job)
         /\ disk'[Name(job)][part].has = content
         /\ \A l \in Libs \cap DOMAIN disk'[Name(job)] :
              l # part => disk'[Name(job)][l].has = Wanted(l, job)
<1>1. /\ job <= Len(jobs) /\ Name(job) \in DOMAIN disk
      /\ \A p \in DOMAIN disk[Name(job)] : disk[Name(job)][p].by = Writer(job)
  BY DEF OutputInv, Current
<1>2. /\ DOMAIN disk[Name(job)] = PartsBefore(job, step)
      /\ \A l \in Libs \cap DOMAIN disk[Name(job)] : disk[Name(job)][l].has = Wanted(l, job)
  BY DEF Progress, InProgress
<1>3. /\ DOMAIN disk' = DOMAIN disk
      /\ \A n \in DOMAIN disk : n # Name(job) => disk'[n] = disk[n]
      /\ DOMAIN disk'[Name(job)] = DOMAIN disk[Name(job)] \cup {part}
      /\ disk'[Name(job)][part].by = Writer(job) /\ disk'[Name(job)][part].has = content
      /\ \A p \in DOMAIN disk[Name(job)] :
           p # part => disk'[Name(job)][p] = disk[Name(job)][p]
  BY <1>1, PutEffect
<1>4. \A n \in DOMAIN disk : n # Name(job) => n \in DOMAIN disk' /\ disk'[n] = disk[n]
  BY <1>3
<1>5. \A j \in 1..Len(jobs) : j < job /\ IsLast(j) => HasAll(j, Base(j))'
  BY <1>1, <1>4, InstalledKept DEF Progress
<1> QED
  BY <1>1, <1>2, <1>3, <1>5

(* The operators of a job when only the output changes. *)
LEMMA SameJob ==
  ASSUME UNCHANGED <<tree, jobs, session, conf>>
  PROVE  \A j : /\ IsLast(j)' = IsLast(j) /\ Name(j)' = Name(j) /\ Writer(j)' = Writer(j)
                /\ LibsOf(j)' = LibsOf(j) /\ Base(j)' = Base(j)
                /\ \A l : Wanted(l, j)' = Wanted(l, j)
<1>1. \A j : /\ IsLast(j)' = IsLast(j) /\ Name(j)' = Name(j) /\ Writer(j)' = Writer(j)
             /\ LibsOf(j)' = LibsOf(j) /\ Base(j)' = Base(j)
  BY DEF IsLast, Name, Writer, LibsOf, Base, Profile
<1>2. \A j, l : Wanted(l, j)' = Wanted(l, j)
  BY DEF Wanted
<1> QED
  BY <1>1, <1>2

(* A step of the installation that goes on with another one. *)
LEMMA PartProgress ==
  ASSUME Types, OutputInv, Settings, Progress, phase = "install", step # "open",
         UNCHANGED <<tree, descriptor, jobs, session, conf, job, phase, outcome>>,
         NEW part, NEW content, Put(part, Writer(job), content),
         part \in Libs => content = Wanted(part, job),
         step' # "open",
         PartsBefore(job, step) \cup {part} = PartsBefore(job, step'),
         step' = "gnarl" => "gnarl" \in LibsOf(job)
  PROVE  Progress'
<1>1. /\ \A j \in 1..Len(jobs) : j < job /\ IsLast(j) => HasAll(j, Base(j))'
      /\ DOMAIN disk'[Name(job)] = PartsBefore(job, step')
      /\ disk'[Name(job)][part].has = content
      /\ \A l \in Libs \cap DOMAIN disk'[Name(job)] :
           l # part => disk'[Name(job)][l].has = Wanted(l, job)
  BY PartWritten
<1>2. \A j : IsLast(j)' = IsLast(j) /\ Name(j)' = Name(j) /\ LibsOf(j)' = LibsOf(j)
  BY SameJob
<1>3. InstalledSoFar'
  BY <1>1, <1>2 DEF InstalledSoFar
<1>4. LibsOf(job) \subseteq DOMAIN descriptor
  BY DEF Progress, InProgress
<1>5. \A l \in Libs \cap DOMAIN disk'[Name(job)] :
        disk'[Name(job)][l].has = Wanted(l, job)
  BY <1>1
<1>6. \A l : Wanted(l, job)' = Wanted(l, job)
  BY SameJob
<1>7. PartsBefore(job, step)' = PartsBefore(job, step')
  BY <1>2 DEF PartsBefore
<1>8. InProgress'
  BY <1>1, <1>2, <1>4, <1>5, <1>6, <1>7 DEF InProgress
<1>9. outcome = ""
  BY DEF Settings, Running
<1> QED
  BY <1>3, <1>8, <1>9 DEF Progress, BuiltSoFar, Reported

(* What a step that installs a library finds in the descriptor.            *)
LEMMA ChosenHere ==
  ASSUME Types, Settings, Progress, DescriptorExact,
         NEW l, NEW next, InstallLib(l, next), l \in Libs \cap LibsOf(job)
  PROVE  GetRtsDirs(l, conf[job]) = Wanted(l, job)
<1>1. phase = "install" /\ job <= Len(jobs) /\ step = l /\ step # "open"
  BY DEF InstallLib, Installing, Libs
<1>2. lib = "installed"
  BY <1>1 DEF Settings, Running, Types, TypeOK
<1>3. tree \in Trees
  BY DEF Types, TypeOK
<1>4. l \in DOMAIN descriptor
  BY <1>1 DEF Progress, InProgress
<1>5. KnownTo(tree, conf[job])
  <2>1. job \in Nat \ {0} /\ Len(jobs) \in Nat
    BY DEF Types
  <2>2. Len(conf) = Len(jobs)
    BY <1>1 DEF Settings, Counted
  <2> QED
    BY <1>1, <2>1, <2>2 DEF Settings, Known
<1> QED
  BY <1>2, <1>3, <1>4, <1>5, ChosenAreWanted DEF Wanted

LEMMA LibProgress ==
  ASSUME Types, OutputInv, Settings, Progress, DescriptorExact,
         InstallGnat \/ InstallGnarl, phase' # "idle"
  PROVE  Progress'
<1>1. PICK l, next :
        /\ InstallLib(l, next) /\ l \in Libs \cap LibsOf(job) /\ next # "open"
        /\ PartsBefore(job, l) \cup {l} = PartsBefore(job, next)
        /\ next = "gnarl" => "gnarl" \in LibsOf(job)
  <2>1. CASE InstallGnat
    <3>1. /\ PartsBefore(job, "gnat") = {} /\ PartsBefore(job, "gnarl") = {"gnat"}
          /\ PartsBefore(job, "ld") = LibsOf(job)
      BY DEF PartsBefore
    <3>2. CASE Len(LibsFor(Profile(job))) = 2
      <4>1. InstallLib("gnat", "gnarl")
        BY <2>1, <3>2 DEF InstallGnat
      <4>2. LibsOf(job) = Libs
        BY <3>2, LibsForFacts
      <4> QED
        BY <3>1, <4>1, <4>2 DEF Libs
    <3>3. CASE Len(LibsFor(Profile(job))) # 2
      <4>1. InstallLib("gnat", "ld")
        BY <2>1, <3>3 DEF InstallGnat
      <4>2. LibsOf(job) = {"gnat"}
        BY <3>3, LibsForFacts
      <4> QED
        BY <3>1, <4>1, <4>2 DEF Libs
    <3> QED
      BY <3>2, <3>3
  <2>2. CASE InstallGnarl
    <3>1. InstallLib("gnarl", "ld") /\ phase = "install" /\ step = "gnarl"
      BY <2>2 DEF InstallGnarl, InstallLib, Installing
    <3>2. "gnarl" \in LibsOf(job)
      BY <3>1 DEF Progress, InProgress
    <3>3. LibsOf(job) = Libs
      BY <3>2, LibsForFacts
    <3>4. PartsBefore(job, "gnarl") = {"gnat"} /\ PartsBefore(job, "ld") = LibsOf(job)
      BY DEF PartsBefore
    <3> QED
      BY <3>1, <3>3, <3>4 DEF Libs
  <2> QED
    BY <2>1, <2>2
<1>2. /\ phase = "install" /\ job <= Len(jobs) /\ step = l
      /\ UNCHANGED <<tree, descriptor, jobs, session, conf, job>>
  BY <1>1 DEF InstallLib, Installing, installUnchanged, genVars
<1>3. /\ Put(l, Writer(job), GetRtsDirs(l, conf[job]))
      /\ step' = next /\ UNCHANGED <<phase, outcome>>
  BY <1>1 DEF InstallLib, End
<1>4. step # "open"
  BY <1>1, <1>2 DEF Libs
<1>5. GetRtsDirs(l, conf[job]) = Wanted(l, job)
  BY <1>1, ChosenHere
<1>6. Put(l, Writer(job), Wanted(l, job))
  BY <1>3, <1>5
<1> QED
  BY <1>1, <1>2, <1>3, <1>4, <1>6, PartProgress

LEMMA FilesProgress ==
  ASSUME Types, OutputInv, Settings, Progress, CopyScripts \/ WriteConfig
  PROVE  Progress'
<1>1. PICK part, content :
        /\ part \notin Libs
        /\ Put(part, Writer(job), content)
        /\ phase = "install" /\ step # "open" /\ step' \notin {"open", "gnarl"}
        /\ UNCHANGED <<tree, descriptor, jobs, session, conf, job, phase, outcome>>
        /\ PartsBefore(job, step) \cup {part} = PartsBefore(job, step')
  <2>1. CASE CopyScripts
    <3>1. /\ Put("ld", Writer(job), Board(job).scripts)
          /\ phase = "install" /\ step = "ld" /\ step' = "config"
          /\ UNCHANGED <<tree, descriptor, jobs, session, conf, job, phase, outcome>>
      BY <2>1 DEF CopyScripts, Installing, installUnchanged, genVars
    <3>2. PartsBefore(job, "ld") \cup {"ld"} = PartsBefore(job, "config")
      BY DEF PartsBefore
    <3> QED
      BY <3>1, <3>2 DEF Libs
  <2>2. CASE WriteConfig
    <3>1. /\ Put("config", Writer(job), LoadersOf(Board(job)))
          /\ phase = "install" /\ step = "config" /\ step' = "projects"
          /\ UNCHANGED <<tree, descriptor, jobs, session, conf, job, phase, outcome>>
      BY <2>2 DEF WriteConfig, Installing, installUnchanged, genVars
    <3>2. PartsBefore(job, "config") \cup {"config"} = PartsBefore(job, "projects")
      BY DEF PartsBefore
    <3> QED
      BY <3>1, <3>2 DEF Libs
  <2> QED
    BY <2>1, <2>2
<1> QED
  BY <1>1, PartProgress

(* The project files complete the library. *)
LEMMA ProjectsProgress ==
  ASSUME Types, OutputInv, Settings, Progress, WriteProjects
  PROVE  Progress'
<1>1. /\ Put("projects", Writer(job), LibsFor(Profile(job)))
      /\ phase = "install" /\ step = "projects" /\ step' = "open"
      /\ job' = job + 1 /\ job \in Nat
      /\ UNCHANGED <<tree, jobs, session, conf, phase, outcome>>
  BY DEF WriteProjects, Installing, installUnchanged, genVars, Types
<1>2. /\ \A j \in 1..Len(jobs) : j < job /\ IsLast(j) => HasAll(j, Base(j))'
      /\ Name(job) \in DOMAIN disk'
      /\ DOMAIN disk'[Name(job)] = PartsBefore(job, step) \cup {"projects"}
      /\ \A p \in DOMAIN disk'[Name(job)] : disk'[Name(job)][p].by = Writer(job)
      /\ \A l \in Libs \cap DOMAIN disk'[Name(job)] :
           l # "projects" => disk'[Name(job)][l].has = Wanted(l, job)
  BY <1>1, PartWritten
<1>3. DOMAIN disk'[Name(job)] = Base(job)
  BY <1>1, <1>2 DEF PartsBefore, Base
<1>4. \A l \in LibsOf(job) : l \in Base(job) /\ l \in Libs /\ l # "projects"
  BY LibsForFacts DEF Base, Libs
<1>5. \A l \in LibsOf(job) : disk'[Name(job)][l].has = Wanted(l, job)
  BY <1>2, <1>3, <1>4
<1>6. PICK n : n = job
  OBVIOUS
<1>7. /\ IsLast(n)' = IsLast(n) /\ Name(n)' = Name(n) /\ Writer(n)' = Writer(n)
      /\ LibsOf(n)' = LibsOf(n) /\ Base(n)' = Base(n)
      /\ \A l : Wanted(l, n)' = Wanted(l, n)
  BY <1>1, SameJob
<1>8. HasAll(n, Base(n))'
  BY <1>2, <1>3, <1>5, <1>6, <1>7 DEF HasAll
<1>9. \A j : IsLast(j)' = IsLast(j)
  BY <1>1, SameJob
<1>10. InstalledSoFar'
  <2>1. SUFFICES ASSUME NEW j \in 1..Len(jobs), j < job', IsLast(j)
                 PROVE  HasAll(j, Base(j))'
    BY <1>1, <1>9 DEF InstalledSoFar
  <2>2. j < job \/ j = n
    BY <1>1, <1>6, <2>1
  <2> QED
    BY <1>2, <1>8, <2>1, <2>2
<1>11. outcome = ""
  BY <1>1 DEF Settings, Running
<1> QED
  BY <1>1, <1>10, <1>11 DEF Progress, InProgress, BuiltSoFar, Reported

(* The end of the installation. *)
LEMMA InstalledProgress ==
  ASSUME Types, Settings, Progress, Installed
  PROVE  Progress'
<1>1. /\ phase = "install" /\ job > Len(jobs)
      /\ UNCHANGED <<tree, command, jobs, session, conf, disk>>
  BY DEF Installed, installUnchanged, genVars
<1>2. \A j \in 1..Len(jobs) : IsLast(j) => HasAll(j, Base(j))
  BY <1>1 DEF Types, Progress, InstalledSoFar
<1>3. \A j : IsLast(j)' = IsLast(j) /\ Name(j)' = Name(j)
  BY <1>1, SameJob
<1>4. CASE command.build
  <2>1. /\ phase' = "build" /\ job' = 1 /\ outcome' = ""
    BY <1>1, <1>4 DEF Installed, Settings, Running
  <2>2. \A j : BuiltParts(j)' = Base(j)
    <3>1. \A j : Base(j)' = Base(j)
      BY <1>1, SameJob
    <3>2. \A k \in 1..Len(jobs') : ~(k < job')
      <4>1. Len(jobs) \in Nat
        BY DEF Types
      <4>2. jobs' = jobs
        BY <1>1
      <4>3. job' = 1
        BY <2>1
      <4> QED
        BY <4>1, <4>2, <4>3
    <3> QED
      BY <3>1, <3>2 DEF BuiltParts
  <2>3. ASSUME NEW j \in 1..Len(jobs), IsLast(j) PROVE HasAll(j, BuiltParts(j))'
    <3>1. PICK parts : parts = Base(j)
      OBVIOUS
    <3>2. HasAll(j, parts)
      BY <1>2, <2>3, <3>1
    <3>3. HasAll(j, parts)'
      BY <1>1, <3>2, HasAllKept DEF HasAll
    <3> QED
      BY <2>2, <3>1, <3>3
  <2>4. BuiltSoFar'
    BY <1>1, <1>3, <1>4, <2>3 DEF BuiltSoFar
  <2> QED
    BY <2>1, <2>4 DEF Progress, InProgress, InstalledSoFar, Reported
<1>5. CASE ~command.build
  <2>1. phase' = "idle"
    BY <1>5 DEF Installed, End
  <2>2. \A j \in 1..Len(jobs) : IsLast(j) => Complete(j)
    BY <1>2, <1>5, AllIsComplete
  <2>3. \A j : Complete(j)' = Complete(j)
    <3>1. \A j : LibsOf(j)' = LibsOf(j) /\ Writer(j)' = Writer(j) /\ Profile(j)' = Profile(j)
      BY <1>1, SameJob DEF Profile
    <3> QED
      BY <1>1, <1>3, <3>1 DEF Complete
  <2>4. Completed'
    BY <1>1, <1>3, <2>2, <2>3 DEF Completed
  <2> QED
    BY <2>1, <2>4 DEF Progress, InProgress, InstalledSoFar, BuiltSoFar, Reported
<1> QED
  BY <1>4, <1>5

(* A build adds its part to the library of the job, which has the parts of *)
(* the last job of that name.                                              *)
LEMMA BuildProgress ==
  ASSUME Types, OutputInv, Settings, Progress, BuildProject
  PROVE  Progress'
<1>1. /\ phase = "build" /\ phase' = "build" /\ job' = job + 1
      /\ job \in 1..Len(jobs) /\ job \in Nat
      /\ UNCHANGED <<tree, command, jobs, session, conf, outcome>>
  BY DEF BuildProject, installUnchanged, genVars, Types
<1>2. PICK w : w = disk[Name(job)].projects.by
  OBVIOUS
<1>3. Put("adalib", w, {}) /\ Name(job) \in DOMAIN disk
  BY <1>1, <1>2 DEF BuildProject, OutputInv, AllDone, Done
<1>4. /\ DOMAIN disk' = DOMAIN disk
      /\ \A n \in DOMAIN disk : n # Name(job) => disk'[n] = disk[n]
      /\ DOMAIN disk'[Name(job)] = DOMAIN disk[Name(job)] \cup {"adalib"}
      /\ disk'[Name(job)]["adalib"].by = w
      /\ \A p \in DOMAIN disk[Name(job)] :
           p # "adalib" => disk'[Name(job)][p] = disk[Name(job)][p]
  BY <1>3, PutEffect
<1>5. \A j : /\ IsLast(j)' = IsLast(j) /\ Name(j)' = Name(j) /\ Base(j)' = Base(j)
             /\ Writer(j)' = Writer(j) /\ LibsOf(j)' = LibsOf(j)
  BY <1>1, SameJob
<1>6. ASSUME NEW j \in 1..Len(jobs), IsLast(j) PROVE HasAll(j, BuiltParts(j))'
  <2>1. HasAll(j, BuiltParts(j))
    BY <1>1, <1>6 DEF Progress, BuiltSoFar
  <2>2. CASE Name(j) # Name(job)
    <3>1. BuiltParts(j)' = BuiltParts(j)
      <4>1. \A k \in 1..Len(jobs) :
              (k < job' /\ Name(k) = Name(j)) <=> (k < job /\ Name(k) = Name(j))
        BY <1>1, <2>2
      <4> QED
        BY <1>1, <1>5, <4>1 DEF BuiltParts
    <3>2. PICK parts : parts = BuiltParts(j)
      OBVIOUS
    <3>3. HasAll(j, parts)'
      BY <1>1, <1>4, <2>1, <2>2, <3>2, HasAllKept DEF HasAll
    <3> QED
      BY <3>1, <3>2, <3>3
  <2>3. CASE Name(j) = Name(job)
    <3>1. BuiltParts(j)' = BuiltParts(j) \cup {"adalib"}
      <4>1. PICK n : n = job
        OBVIOUS
      <4>2. n \in 1..Len(jobs') /\ Name(n)' = Name(j)'
        BY <1>1, <1>5, <2>3, <4>1
      <4>3. n < job'
        BY <1>1, <4>1
      <4>4. {p \in {"adalib"} : \E k \in 1..Len(jobs) : k < job /\ Name(k) = Name(j)}'
              = {"adalib"}
        BY <4>2, <4>3
      <4>5. BuiltParts(j)' = Base(j) \cup {"adalib"}
        BY <1>5, <4>4 DEF BuiltParts
      <4> QED
        BY <4>5 DEF BuiltParts
    <3>2. "projects" \in BuiltParts(j) /\ LibsOf(j) \subseteq BuiltParts(j)
      BY DEF BuiltParts, Base
    <3>3. /\ DOMAIN disk[Name(j)] = BuiltParts(j)
          /\ \A part \in BuiltParts(j) : disk[Name(j)][part].by = Writer(j)
          /\ \A l \in LibsOf(j) : disk[Name(j)][l].has = Wanted(l, j)
      BY <2>1 DEF HasAll
    <3>4. w = Writer(j)
      BY <1>2, <2>3, <3>2, <3>3
    <3>5. /\ Name(j) \in DOMAIN disk'
          /\ DOMAIN disk'[Name(j)] = BuiltParts(j)'
          /\ \A part \in BuiltParts(j)' : disk'[Name(j)][part].by = Writer(j)
      BY <1>3, <1>4, <2>3, <3>1, <3>3, <3>4
    <3>6. \A l \in LibsOf(j) : disk'[Name(j)][l].has = Wanted(l, j)
      <4>1. \A l \in LibsOf(j) : l # "adalib"
        BY LibsForFacts DEF Libs
      <4> QED
        BY <1>4, <2>3, <3>2, <3>3, <4>1
    <3>7. \A l : Wanted(l, j)' = Wanted(l, j)
      BY <1>1, SameJob
    <3> QED
      BY <1>5, <3>5, <3>6, <3>7 DEF HasAll
  <2> QED
    BY <2>2, <2>3
<1>7. BuiltSoFar'
  <2>1. command.build
    BY <1>1 DEF Progress, BuiltSoFar
  <2> QED
    BY <1>1, <1>5, <1>6, <2>1 DEF BuiltSoFar
<1>8. outcome = ""
  BY <1>1 DEF Settings, Running
<1> QED
  BY <1>1, <1>7, <1>8 DEF Progress, InProgress, InstalledSoFar, Reported

LEMMA BuiltProgress ==
  ASSUME Types, Settings, Progress, Built
  PROVE  Progress'
<1>1. /\ phase = "build" /\ phase' = "idle" /\ job > Len(jobs)
      /\ UNCHANGED <<tree, command, jobs, session, conf, disk>>
  BY DEF Built, End, installUnchanged, genVars
<1>2. ASSUME NEW j \in 1..Len(jobs), IsLast(j) PROVE Complete(j)
  <2>1. command.build /\ HasAll(j, BuiltParts(j))
    BY <1>1, <1>2 DEF Progress, BuiltSoFar
  <2>2. BuiltParts(j) = Base(j) \cup {"adalib"}
    <3>1. j < job
      BY <1>1 DEF Types
    <3> QED
      BY <3>1 DEF BuiltParts
  <2> QED
    BY <2>1, <2>2, AllIsComplete
<1>3. \A j : /\ Complete(j)' = Complete(j) /\ IsLast(j)' = IsLast(j)
  <2>1. \A j : /\ LibsOf(j)' = LibsOf(j) /\ Writer(j)' = Writer(j)
               /\ Profile(j)' = Profile(j) /\ Name(j)' = Name(j) /\ IsLast(j)' = IsLast(j)
    BY <1>1, SameJob DEF Profile
  <2> QED
    BY <1>1, <2>1 DEF Complete
<1>4. Completed'
  BY <1>1, <1>2, <1>3 DEF Completed
<1> QED
  BY <1>1, <1>4 DEF Progress, InProgress, InstalledSoFar, BuiltSoFar, Reported

LEMMA StepKeepsProgress ==
  ASSUME Types, OutputInv, Settings, Progress, Ordered, DescriptorExact, [Next]_vars
  PROVE  Progress'
<1>1. CASE UNCHANGED vars
  BY <1>1, StutterProgress DEF vars, genVars
<1>2. CASE FirstSession \/ NextSession
  <2>1. phase' = "configure" /\ outcome' = ""
    BY <1>2 DEF FirstSession, NextSession, Start
  <2> QED
    BY <2>1, QuietProgress
<1>3. CASE Generate /\ UNCHANGED <<depVars, sessionVars>>
  <2>1. tree' = tree
    BY <1>3 DEF Generate, Enter, NextValue, NextVariable, Leave, NextLib, InstallTree
  <2>2. phase = "idle"
    <3>1. lib = "installed" => stack = <<>> /\ ~entering
      BY DEF Ordered, Libs
    <3>2. lib # "installed"
      BY <1>3, <3>1 DEF Generate, Enter, NextValue, NextVariable, Leave, NextLib, InstallTree
    <3> QED
      BY <3>2 DEF Settings, Running
  <2> QED
    BY <1>3, <2>1, <2>2, StutterProgress
<1>4. CASE Configure \/ Configured
  <2>1. /\ phase' \in {"idle", "check", "configure"}
        /\ outcome' = outcome \/ outcome' = "unexpected cpu"
        /\ phase # "idle"
    BY <1>4 DEF Configure, Configured, End
  <2>2. outcome' # "success"
    BY <2>1 DEF Settings, Running
  <2> QED
    BY <2>1, <2>2, QuietProgress
<1>5. CASE CheckDeps
  <2>1. phase = "check" /\ UNCHANGED <<phase, outcome>>
    BY <1>5 DEF CheckDeps, sessionVars
  <2>2. outcome' # "success"
    BY <2>1 DEF Settings, Running
  <2> QED
    BY <2>1, <2>2, QuietProgress
<1>6. CASE StartInstalling
  <2>1. /\ phase = "configure" /\ phase' = "install" /\ job' = 1
        /\ UNCHANGED <<step, outcome, jobs>>
    BY <1>6 DEF StartInstalling
  <2>2. step = "open" /\ outcome = ""
    BY <2>1 DEF Types, Settings, Running
  <2>3. InstalledSoFar'
    BY <2>1 DEF InstalledSoFar
  <2> QED
    BY <2>1, <2>2, <2>3 DEF Progress, InProgress, BuiltSoFar, Reported
<1>7. CASE Install /\ phase' = "idle"
  <2>1. outcome' # "success"
    <3>1. ASSUME NEW l, NEW next, InstallLib(l, next)
          PROVE  outcome' # "success"
      BY <1>7, <3>1 DEF InstallLib, Installing, End
    <3>2. CASE InstallGnat \/ InstallGnarl
      BY <3>1, <3>2 DEF InstallGnat, InstallGnarl
    <3>3. CASE RefuseExisting \/ MakeDirs
      BY <1>7, <3>3 DEF RefuseExisting, MakeDirs, Installing, End
    <3>4. ~RemoveExisting /\ ~CopyScripts /\ ~WriteConfig /\ ~WriteProjects
      BY <1>7 DEF RemoveExisting, CopyScripts, WriteConfig, WriteProjects, Installing
    <3> QED
      BY <1>7, <3>2, <3>3, <3>4 DEF Install
  <2> QED
    BY <1>7, <2>1, QuietProgress
<1>8. CASE Install /\ phase' # "idle"
  <2>1. ~RefuseExisting
    BY <1>8 DEF RefuseExisting, End
  <2> QED
    BY <1>8, <2>1, RemoveProgress, MakeDirsProgress, LibProgress, FilesProgress,
       ProjectsProgress DEF Install
<1>9. CASE Installed
  BY <1>9, InstalledProgress
<1>10. CASE BuildProject
  BY <1>10, BuildProgress
<1>11. CASE Built
  BY <1>11, BuiltProgress
<1>12. CASE BuildFails \/ Kill
  <2>1. phase' = "idle" /\ outcome' \in {"build failed", "killed"}
    BY <1>12 DEF BuildFails, Kill, End
  <2> QED
    BY <2>1, QuietProgress
<1> QED
  BY <1>1, <1>2, <1>3, <1>4, <1>5, <1>6, <1>7, <1>8, <1>9, <1>10, <1>11, <1>12
     DEF Next, Proceed

LEMMA InitSettings == Init => Settings /\ Progress
<1> SUFFICES ASSUME Init PROVE Settings /\ Progress
  OBVIOUS
<1>1. /\ plan = <<>> /\ jobs = <<>> /\ conf = <<>> /\ phase = "idle" /\ session = 0
      /\ outcome = ""
  BY DEF Init
<1>2. Served
  <2>1. \A S : <<>> \in Seq(S)
    OBVIOUS
  <2> QED
    BY <1>1, <2>1 DEF Served
<1>3. Running
  <2>1. session = 0
    BY DEF Init
  <2>2. ~(session > 0)
    BY <2>1
  <2> QED
    BY <1>1, <2>2 DEF Running
<1>4. Known
  <2>1. IsSeq(conf) /\ Len(conf) = 0
    <3>1. <<>> \in Seq({}) /\ Len(<<>>) = 0
      OBVIOUS
    <3> QED
      BY <1>1, <3>1 DEF IsSeq
  <2> QED
    BY <2>1 DEF Known
<1>5. Counted /\ Checking
  BY <1>1 DEF Counted, Checking
<1>6. Progress
  BY <1>1 DEF Progress, InProgress, InstalledSoFar, BuiltSoFar, Reported
<1> QED
  BY <1>2, <1>3, <1>4, <1>5, <1>6 DEF Settings

(* All of this holds of every state, when the trees serve the plans.       *)
LEMMA SpecSettings ==
  ASSUME TreesServePlans
  PROVE  Spec => [](BuildInv /\ Settings /\ Progress /\ Ordered /\ DescriptorExact)
<1> DEFINE SInv == BuildInv /\ Settings /\ Progress
<1>1. Init => SInv
  BY InitSettings, InitBuildInv
<1>2. SInv /\ Ordered /\ DescriptorExact /\ [Next]_vars => SInv'
  BY StepKeepsBuildInv, StepKeepsSettings, StepKeepsProgress DEF BuildInv
<1>4. Exact => Ordered
  BY DEF Exact, Calls
<1>5. Spec => []Ordered /\ []DescriptorExact
  BY <1>4, SpecGenSpec, GenExact, DescriptorIsExact, PTL
<1>6. Spec => []SInv
  <2> HIDE DEF SInv
  <2> QED
    BY <1>1, <1>2, <1>5, PTL DEF Spec
<1> QED
  BY <1>5, <1>6, PTL

(* When the sessions are about run-time libraries that the tree was        *)
(* generated for, success means that each name has the complete library of *)
(* the last job of that name: whatever was there before, was interrupted   *)
(* or failed, for every table and every plan.                              *)
THEOREM SuccessMeansComplete ==
  ASSUME TreesServePlans
  PROVE  Spec => []SuccessIsComplete
<1>1. BuildInv /\ Progress => SuccessIsComplete
  <2> SUFFICES ASSUME BuildInv, Progress, outcome = "success", NEW j \in DOMAIN jobs,
                      \A k \in DOMAIN jobs : k > j => Name(k) # Name(j)
               PROVE  Complete(j)
    BY DEF SuccessIsComplete
  <2>1. DOMAIN jobs = 1..Len(jobs)
    BY DEF BuildInv, Types
  <2> QED
    BY <2>1 DEF Progress, Reported, Completed, IsLast
<1> QED
  BY <1>1, SpecSettings, PTL

----------------------------------------------------------------------------
(* What the directories of a library require. *)

(* The scenario values have all that their directories require.            *)
Consistent(s) ==
  \A d \in DOMAIN SharedDirs :
    Matches(SharedDirs[d].when, s) => Matches(SharedDirs[d].needs, s)

(* The pass of check_deps has found the directories before pos met, unless *)
(* it has changed a value.                                                 *)
PassedMet ==
  phase = "check" =>
    \A d \in DOMAIN SharedDirs : d < pos /\ ~modified => Deps!Met(d)

ConfConsistent == \A i \in 1..Len(conf) : Consistent(conf[i])

(* The defaults have been set.                                             *)
Full(s) == Range(OrderOf[tree]["gnat"]) \subseteq DOMAIN s

ConfFull == phase = "install" /\ step # "open" => Full(conf[job])

(* The values s have selected what is in the library n.                    *)
Selects(n, s) ==
  /\ Consistent(s) /\ KnownTo(tree, s) /\ Full(s)
  /\ \A l \in Libs \cap DOMAIN disk[n] :
        disk[n][l].has = {d \in DirsOf(tree, l) : Matches(SharedDirs[d].when, s)}

AllSelected ==
  \A n \in DOMAIN disk :
    /\ \E s : Selects(n, s)
    /\ "projects" \in DOMAIN disk[n] => "gnat" \in Range(disk[n].projects.has)

RequirementsInv == PassedMet /\ ConfConsistent /\ ConfFull /\ AllSelected

(* Every library that is ready has what its directories require.           *)
LEMMA SelectedIsMet ==
  ASSUME TableProvides, Types, AllSelected
  PROVE  RequirementsMet
<1> SUFFICES ASSUME NEW n \in DOMAIN disk, Ready(n), NEW d \in InstalledDirs(n),
                    NEW v \in DOMAIN SharedDirs[d].needs
             PROVE  \E e \in InstalledDirs(n) :
                      v \in DOMAIN SharedDirs[e].when /\ SharedDirs[e].when[v] = Yes
  BY DEF RequirementsMet
<1>1. PICK s : Selects(n, s)
  BY DEF AllSelected
<1>2. PICK l \in Libs \cap DOMAIN disk[n] : d \in disk[n][l].has
  BY DEF InstalledDirs
<1>3. d \in DirsOf(tree, l) /\ Matches(SharedDirs[d].when, s)
  BY <1>1, <1>2 DEF Selects
<1>4. tree \in Trees
  BY DEF Types, TypeOK
<1>5. d \in DOMAIN SharedDirs
  BY <1>3, <1>4 DEF DirsOf, DirsIn, RulesOf, RulesFor
<1>6. Matches(SharedDirs[d].needs, s)
  BY <1>1, <1>3, <1>5 DEF Selects, Consistent
<1>7. d \in DirsOf(tree, "gnat") \cup DirsOf(tree, "gnarl")
  BY <1>2, <1>3 DEF Libs
<1>8. PICK w \in DOMAIN Scenarios \cap Range(OrderOf[tree]["gnat"]) :
        \A x \in Range(ValuesOf(tree, w)) : \E e \in DirsOf(tree, "gnat") :
           /\ v \in DOMAIN SharedDirs[e].when /\ SharedDirs[e].when[v] = Yes
           /\ \A u \in DOMAIN SharedDirs[e].when :
                 Follows(d, e, u) \/ (u = w /\ x \in SharedDirs[e].when[u])
  BY <1>4, <1>7 DEF TableProvides, FeaturesExist
<1>9. w \in DOMAIN s /\ s[w] \in Range(ValuesOf(tree, w))
  BY <1>1 DEF Selects, Full, KnownTo
<1>10. PICK e \in DirsOf(tree, "gnat") :
         /\ v \in DOMAIN SharedDirs[e].when /\ SharedDirs[e].when[v] = Yes
         /\ \A u \in DOMAIN SharedDirs[e].when :
               Follows(d, e, u) \/ (u = w /\ s[w] \in SharedDirs[e].when[u])
  BY <1>8, <1>9
<1>11. Matches(SharedDirs[e].when, s)
  <2> SUFFICES ASSUME NEW u \in DOMAIN SharedDirs[e].when
               PROVE  u \in DOMAIN s /\ s[u] \in SharedDirs[e].when[u]
    BY DEF Matches
  <2>1. CASE u = w /\ s[w] \in SharedDirs[e].when[u]
    BY <1>9, <2>1
  <2>2. CASE Follows(d, e, u)
    BY <1>3, <1>6, <2>2 DEF Follows, Matches
  <2> QED
    BY <1>10, <2>1, <2>2
<1>12. "gnat" \in Libs \cap DOMAIN disk[n]
  BY DEF AllSelected, Ready, Libs
<1>13. e \in disk[n]["gnat"].has
  BY <1>1, <1>11, <1>12 DEF Selects
<1>14. e \in InstalledDirs(n)
  BY <1>12, <1>13 DEF InstalledDirs
<1> QED
  BY <1>10, <1>14

(* The defaults keep the values consistent.                                *)
LEMMA DefaultsKeepConsistent ==
  ASSUME DefaultsRequireNothing(tree), NEW libs, NEW s, Consistent(s)
  PROVE  Consistent(Update(DefaultsFor(libs), s))
<1> DEFINE t == Update(DefaultsFor(libs), s)
<1>1. /\ \A v \in DOMAIN s : v \in DOMAIN t /\ t[v] = s[v]
      /\ \A v \in DOMAIN t : v \notin DOMAIN s => t[v] = Head(ValuesOf(tree, v))
  BY DEF Update, DefaultsFor
<1> HIDE DEF t
<1>2. ASSUME NEW d \in DOMAIN SharedDirs, Matches(SharedDirs[d].when, t),
             DOMAIN SharedDirs[d].needs # {}
      PROVE  Matches(SharedDirs[d].needs, t)
  <2>1. PICK r \in DOMAIN SharedDirs :
          /\ \A v \in DOMAIN SharedDirs[r].when :
                /\ v \in DOMAIN SharedDirs[d].when
                /\ SharedDirs[d].when[v] \subseteq SharedDirs[r].when[v]
                /\ Head(ValuesOf(tree, v)) \notin SharedDirs[d].when[v]
          /\ \A v \in DOMAIN SharedDirs[d].needs :
                /\ v \in DOMAIN SharedDirs[r].needs
                /\ SharedDirs[r].needs[v] \subseteq SharedDirs[d].needs[v]
    BY <1>2 DEF DefaultsRequireNothing
  <2>2. ASSUME NEW v \in DOMAIN SharedDirs[r].when
        PROVE  v \in DOMAIN s /\ s[v] \in SharedDirs[r].when[v]
    <3>1. v \in DOMAIN t /\ t[v] \in SharedDirs[d].when[v]
      BY <1>2, <2>1 DEF Matches
    <3>2. v \in DOMAIN s
      BY <1>1, <2>1, <3>1
    <3> QED
      BY <1>1, <2>1, <3>1, <3>2
  <2>3. Matches(SharedDirs[r].when, s)
    BY <2>2 DEF Matches
  <2>4. Matches(SharedDirs[r].needs, s)
    BY <2>3 DEF Consistent
  <2> QED
    BY <1>1, <2>1, <2>4 DEF Matches
<1>3. ASSUME NEW d \in DOMAIN SharedDirs, DOMAIN SharedDirs[d].needs = {}
      PROVE  Matches(SharedDirs[d].needs, t)
  BY <1>3 DEF Matches
<1>4. Consistent(t)
  BY <1>2, <1>3 DEF Consistent
<1> QED
  BY <1>4 DEF t

(* The loop of check_deps, step by step.                                   *)
LEMMA StepKeepsPassed ==
  ASSUME Types, Settings, PassedMet, [Next]_vars
  PROVE  PassedMet'
<1>1. CASE UNCHANGED depVars /\ UNCHANGED phase
  <2>1. \A d : Deps!Met(d)' = Deps!Met(d)
    BY <1>1 DEF depVars, Deps!Met, Deps!Satisfied, Deps!Matches
  <2> QED
    BY <1>1, <2>1 DEF PassedMet, depVars
<1>2. CASE phase' # "check"
  BY <1>2 DEF PassedMet
<1>3. CASE pos' = 1 \/ modified'
  <2>1. \A d \in DOMAIN SharedDirs : ~(d < 1)
    BY TableAssumption
  <2> QED
    BY <1>3, <2>1 DEF PassedMet
<1>4. CASE UNCHANGED vars
  BY <1>1, <1>4 DEF vars, sessionVars
<1>5. CASE FirstSession \/ NextSession \/ Kill
  BY <1>2, <1>5 DEF FirstSession, NextSession, Start, Kill, End
<1>6. CASE Generate /\ UNCHANGED <<depVars, sessionVars>>
  BY <1>1, <1>6 DEF sessionVars
<1>7. CASE Configure
  BY <1>2, <1>3, <1>7 DEF Configure, Deps!Begin, End
<1>8. CASE CheckDeps
  BY <1>3, <1>8 DEF CheckDeps, Deps!Meet, Deps!NextPass
<1>9. CASE Configured \/ StartInstalling \/ Installed \/ BuildProject \/ BuildFails \/ Built
  BY <1>2, <1>9 DEF Configured, StartInstalling, Installed, BuildProject, BuildFails, Built,
                    End, installUnchanged
<1>10. CASE Install
  BY <1>2, <1>10, InstallFrame
<1> QED
  BY <1>4, <1>5, <1>6, <1>7, <1>8, <1>9, <1>10 DEF Next, Proceed

(* A pass that ends without a change leaves consistent values.             *)
LEMMA LoopIsConsistent ==
  ASSUME Settings, PassedMet, Configured
  PROVE  Consistent(vals)
<1> SUFFICES ASSUME NEW d \in DOMAIN SharedDirs PROVE Deps!Met(d)
  BY DEF Consistent, Matches, Deps!Met, Deps!Satisfied, Deps!Matches
<1>1. phase = "check" /\ ~modified /\ \A e \in pos..Len(SharedDirs) : Deps!Met(e)
  BY DEF Configured, Deps!EndCheck, Deps!MetFrom
<1>2. pos \in Nat
  BY <1>1 DEF Settings, Checking
<1>3. d \in 1..Len(SharedDirs) /\ Len(SharedDirs) \in Nat
  BY TableAssumption
<1>4. CASE d < pos
  BY <1>1, <1>4 DEF PassedMet
<1>5. CASE ~(d < pos)
  <2>1. d \in pos..Len(SharedDirs)
    BY <1>2, <1>3, <1>5
  <2> QED
    BY <1>1, <2>1
<1> QED
  BY <1>4, <1>5

(* A step that leaves the values and the output alone.                     *)
LEMMA QuietRequirements ==
  ASSUME ConfConsistent, ConfFull, AllSelected, UNCHANGED <<tree, conf, disk>>,
         \/ phase' # "install"
         \/ step' = "open"
         \/ UNCHANGED <<phase, step, job>>
  PROVE  ConfConsistent' /\ ConfFull' /\ AllSelected'
<1>1. ConfConsistent'
  BY DEF ConfConsistent
<1>2. ConfFull'
  BY DEF ConfFull, Full
<1>3. AllSelected'
  BY DEF AllSelected, Selects, Full, KnownTo
<1> QED
  BY <1>1, <1>2, <1>3

(* A session starts, or a job is configured.                               *)
LEMMA ConfiguredRequirements ==
  ASSUME Settings, ConfConsistent, AllSelected, UNCHANGED <<tree, disk>>, phase' = "configure",
         conf' = <<>> \/ (conf' = Append(conf, vals) /\ Consistent(vals))
  PROVE  ConfConsistent' /\ ConfFull' /\ AllSelected'
<1>1. \A i \in 1..Len(conf') : Consistent(conf'[i])
  <2>1. CASE conf' = <<>>
    <3>1. 1..Len(conf') = {}
      BY <2>1
    <3> QED
      BY <3>1
  <2>2. CASE conf' = Append(conf, vals) /\ Consistent(vals)
    <3>1. PICK S : conf \in Seq(S)
      BY DEF Settings, Known, IsSeq
    <3>2. /\ Len(conf') = Len(conf) + 1 /\ Len(conf) \in Nat
          /\ \A i \in 1..Len(conf) : conf'[i] = conf[i]
          /\ conf'[Len(conf) + 1] = vals
      <4>1. conf \in Seq(S \cup {vals}) /\ vals \in S \cup {vals}
        BY <3>1
      <4> QED
        BY <2>2, <4>1
    <3>3. \A i \in 1..Len(conf') : i \in 1..Len(conf) \/ i = Len(conf) + 1
      BY <3>2
    <3> QED
      BY <2>2, <3>2, <3>3 DEF ConfConsistent
  <2> QED
    BY <2>1, <2>2
<1>2. ConfConsistent'
  BY <1>1 DEF ConfConsistent, Consistent
<1>3. ConfFull'
  BY DEF ConfFull
<1>4. AllSelected'
  BY DEF AllSelected, Selects, Full, KnownTo
<1> QED
  BY <1>2, <1>3, <1>4

(* What selected a library still does when it has only lost directories of *)
(* sources, or none.                                                       *)
LEMMA SelectionKept ==
  ASSUME NEW n, NEW s, Selects(n, s), UNCHANGED tree,
         \A l \in Libs \cap DOMAIN disk'[n] :
            l \in DOMAIN disk[n] /\ disk'[n][l].has = disk[n][l].has
  PROVE  Selects(n, s)'
<1>1. KnownTo(tree, s)' /\ Full(s)'
  BY DEF Selects, KnownTo, Full
<1> QED
  BY <1>1 DEF Selects

(* A step is about one library of the output.                              *)
LEMMA OneLibrary ==
  ASSUME AllSelected, UNCHANGED tree, NEW m,
         \A n \in DOMAIN disk' : n # m => n \in DOMAIN disk /\ disk'[n] = disk[n],
         m \in DOMAIN disk' =>
           /\ \E s : Selects(m, s)'
           /\ "projects" \in DOMAIN disk'[m] => "gnat" \in Range(disk'[m].projects.has)
  PROVE  AllSelected'
<1>1. ASSUME NEW n \in DOMAIN disk', n # m
      PROVE  /\ \E s : Selects(n, s)'
             /\ "projects" \in DOMAIN disk'[n] => "gnat" \in Range(disk'[n].projects.has)
  <2>1. n \in DOMAIN disk /\ disk'[n] = disk[n]
    BY <1>1
  <2>2. PICK s : Selects(n, s)
    BY <2>1 DEF AllSelected
  <2>3. Selects(n, s)'
    BY <2>1, <2>2, SelectionKept
  <2> QED
    BY <2>1, <2>3 DEF AllSelected
<1> QED
  BY <1>1 DEF AllSelected

(* Something is removed from a library.                                    *)
LEMMA RemoveRequirements ==
  ASSUME ConfConsistent, AllSelected, RemoveExisting
  PROVE  ConfConsistent' /\ ConfFull' /\ AllSelected'
<1>1. step' = "open" /\ UNCHANGED <<tree, conf>>
  BY DEF RemoveExisting, Installing, installUnchanged, genVars
<1>2. /\ DOMAIN disk' \subseteq DOMAIN disk
      /\ \A n \in DOMAIN disk' : \A p \in DOMAIN disk'[n] :
           p \in DOMAIN disk[n] /\ disk'[n][p] = disk[n][p]
  BY RemoveEffect
<1>3. ASSUME NEW n \in DOMAIN disk'
      PROVE  /\ \E s : Selects(n, s)'
             /\ "projects" \in DOMAIN disk'[n] => "gnat" \in Range(disk'[n].projects.has)
  <2>1. n \in DOMAIN disk
    BY <1>2
  <2>2. PICK s : Selects(n, s)
    BY <2>1 DEF AllSelected
  <2>3. Selects(n, s)'
    BY <1>1, <1>2, <2>2, SelectionKept
  <2>4. "projects" \in DOMAIN disk'[n] => "gnat" \in Range(disk'[n].projects.has)
    BY <1>2, <2>1 DEF AllSelected
  <2> QED
    BY <2>3, <2>4
<1>4. AllSelected'
  BY <1>3 DEF AllSelected
<1>5. ConfConsistent' /\ ConfFull'
  BY <1>1 DEF ConfConsistent, ConfFull
<1> QED
  BY <1>4, <1>5

(* The defaults set all that libgnat depends on.                           *)
LEMMA DefaultsAreFull ==
  ASSUME NEW s
  PROVE  Full(Update(DefaultsFor(LibsFor(Profile(job))), s))
<1> DEFINE libs == LibsFor(Profile(job))
<1>1. PICK i \in DOMAIN libs : libs[i] = "gnat"
  BY LibsForFacts DEF LibsOf, Range
<1> HIDE DEF libs
<1>2. Range(OrderOf[tree]["gnat"]) \subseteq DOMAIN DefaultsFor(libs)
  BY <1>1 DEF DefaultsFor
<1>3. DOMAIN Update(DefaultsFor(libs), s) = DOMAIN DefaultsFor(libs) \cup DOMAIN s
  BY DEF Update
<1> QED
  BY <1>2, <1>3 DEF Full, libs

(* The directories of a library are made.                                  *)
LEMMA MakeDirsRequirements ==
  ASSUME TableProvides, Types, Settings, ConfConsistent, AllSelected, MakeDirs, phase' # "idle"
  PROVE  ConfConsistent' /\ ConfFull' /\ AllSelected'
<1>1. /\ job \in 1..Len(jobs) /\ UNCHANGED <<tree, jobs, job>> /\ tree \in Trees
  <2>1. job <= Len(jobs) /\ UNCHANGED <<tree, jobs, job>> /\ phase = "install"
    BY DEF MakeDirs, Installing, installUnchanged, genVars
  <2>2. job \in Nat \ {0} /\ Len(jobs) \in Nat /\ tree \in Trees
    BY DEF Types, TypeOK
  <2> QED
    BY <2>1, <2>2
<1>2. Len(conf) = Len(jobs) /\ IsSeq(conf)
  <2>1. phase = "install"
    BY DEF MakeDirs, Installing
  <2> QED
    BY <2>1 DEF Settings, Counted, Known
<1>3. PICK n : n = Update(DefaultsFor(LibsFor(Profile(job))), conf[job])
  OBVIOUS
<1>4. conf' = [conf EXCEPT ![job] = n]
  BY <1>3 DEF MakeDirs, End
<1>5. /\ Len(conf') = Len(conf) /\ conf'[job] = n
      /\ \A i \in 1..Len(conf) : i # job => conf'[i] = conf[i]
  BY <1>1, <1>2, <1>4, ReplaceOne
<1>6. Consistent(n) /\ Full(n)
  <2>1. Consistent(conf[job])
    BY <1>1, <1>2 DEF ConfConsistent
  <2>2. DefaultsRequireNothing(tree)
    BY <1>1 DEF TableProvides
  <2> QED
    BY <1>3, <2>1, <2>2, DefaultsKeepConsistent, DefaultsAreFull
<1>7. \A i \in 1..Len(conf') : Consistent(conf'[i])
  BY <1>5, <1>6 DEF ConfConsistent
<1>8. ConfConsistent'
  BY <1>7 DEF ConfConsistent, Consistent
<1>9. Full(n)'
  BY <1>1, <1>6 DEF Full
<1>10. ConfFull'
  BY <1>1, <1>5, <1>9 DEF ConfFull
<1>11. Known' /\ Len(conf') = Len(jobs)
  BY <1>2, <1>5, MakeDirsSettings DEF Settings
<1>12. KnownTo(tree, n)'
  BY <1>1, <1>5, <1>11 DEF Known
<1>13. PICK m : m = Name(job)
  OBVIOUS
<1>14. /\ DOMAIN disk' = DOMAIN disk \cup {m} /\ \A k \in DOMAIN disk : disk'[k] = disk[k]
       /\ DOMAIN disk'[m] = {}
  BY <1>13, MakeEffect
<1>15. Selects(m, n)'
  BY <1>6, <1>9, <1>12, <1>14 DEF Selects, Consistent
<1>16. AllSelected'
  BY <1>1, <1>14, <1>15, OneLibrary
<1> QED
  BY <1>8, <1>10, <1>16

(* A part that is not a library is written.                                *)
LEMMA PutRequirements ==
  ASSUME AllSelected, UNCHANGED tree, Name(job) \in DOMAIN disk,
         NEW part, NEW w, NEW content, Put(part, w, content), part \notin Libs,
         part = "projects" => "gnat" \in Range(content)
  PROVE  AllSelected'
<1>1. PICK m : m = Name(job)
  OBVIOUS
<1>2. /\ DOMAIN disk' = DOMAIN disk /\ m \in DOMAIN disk
      /\ \A n \in DOMAIN disk : n # m => disk'[n] = disk[n]
      /\ DOMAIN disk'[m] = DOMAIN disk[m] \cup {part}
      /\ disk'[m][part].has = content
      /\ \A p \in DOMAIN disk[m] : p # part => disk'[m][p] = disk[m][p]
  BY <1>1, PutEffect
<1>3. PICK s : Selects(m, s)
  BY <1>2 DEF AllSelected
<1>4. \A l \in Libs \cap DOMAIN disk'[m] : l \in DOMAIN disk[m] /\ disk'[m][l].has = disk[m][l].has
  BY <1>2
<1>5. Selects(m, s)'
  BY <1>3, <1>4, SelectionKept
<1>6. "projects" \in DOMAIN disk'[m] => "gnat" \in Range(disk'[m].projects.has)
  <2>1. CASE part = "projects"
    BY <1>2, <2>1
  <2>2. CASE part # "projects"
    BY <1>2, <2>2 DEF AllSelected
  <2> QED
    BY <2>1, <2>2
<1> QED
  BY <1>2, <1>5, <1>6, OneLibrary

(* The scripts, the configuration and the project files are written.       *)
LEMMA FilesRequirements ==
  ASSUME Types, OutputInv, ConfConsistent, ConfFull, AllSelected,
         CopyScripts \/ WriteConfig \/ WriteProjects
  PROVE  ConfConsistent' /\ ConfFull' /\ AllSelected'
<1>1. PICK part, content :
        /\ Put(part, Writer(job), content) /\ part \notin Libs
        /\ part = "projects" => "gnat" \in Range(content)
        /\ phase = "install" /\ step # "open" /\ (step' = "open" \/ job' = job)
        /\ UNCHANGED <<tree, conf>>
  <2>1. CASE CopyScripts
    BY <2>1 DEF CopyScripts, Installing, installUnchanged, genVars, Libs
  <2>2. CASE WriteConfig
    BY <2>2 DEF WriteConfig, Installing, installUnchanged, genVars, Libs
  <2>3. CASE WriteProjects
    <3>1. "gnat" \in Range(LibsFor(Profile(job)))
      BY LibsForFacts DEF LibsOf
    <3> QED
      BY <2>3, <3>1 DEF WriteProjects, Installing, installUnchanged, genVars, Libs
  <2> QED
    BY <2>1, <2>2, <2>3
<1>2. Name(job) \in DOMAIN disk
  BY <1>1 DEF OutputInv, Current
<1>3. AllSelected'
  BY <1>1, <1>2, PutRequirements
<1>4. ConfConsistent' /\ ConfFull'
  BY <1>1 DEF ConfConsistent, ConfFull, Full
<1> QED
  BY <1>3, <1>4

(* A project is built.                                                     *)
LEMMA BuildRequirements ==
  ASSUME Types, OutputInv, ConfConsistent, AllSelected, BuildProject
  PROVE  ConfConsistent' /\ ConfFull' /\ AllSelected'
<1>1. /\ phase = "build" /\ job \in 1..Len(jobs) /\ phase' = "build" /\ UNCHANGED <<tree, conf>>
      /\ Put("adalib", disk[Name(job)].projects.by, {})
  <2>1. /\ phase = "build" /\ job <= Len(jobs) /\ phase' = "build" /\ UNCHANGED <<tree, conf>>
        /\ Put("adalib", disk[Name(job)].projects.by, {})
    BY DEF BuildProject, installUnchanged, genVars
  <2>2. job \in Nat \ {0} /\ Len(jobs) \in Nat
    BY DEF Types
  <2> QED
    BY <2>1, <2>2
<1>2. Name(job) \in DOMAIN disk
  BY <1>1 DEF OutputInv, AllDone, Done
<1>3. "adalib" \notin Libs /\ "adalib" # "projects"
  BY DEF Libs
<1>4. AllSelected'
  BY <1>1, <1>2, <1>3, PutRequirements
<1>5. ConfConsistent' /\ ConfFull'
  BY <1>1 DEF ConfConsistent, ConfFull
<1> QED
  BY <1>4, <1>5

(* The sources of a library are installed.                                 *)
LEMMA LibRequirements ==
  ASSUME Types, OutputInv, Settings, Progress, DescriptorExact,
         ConfConsistent, ConfFull, AllSelected, InstallGnat \/ InstallGnarl, phase' # "idle"
  PROVE  ConfConsistent' /\ ConfFull' /\ AllSelected'
<1>1. PICK l, next :
        /\ InstallLib(l, next) /\ l \in Libs /\ next # "open"
  BY DEF InstallGnat, InstallGnarl, Libs
<1>2. /\ phase = "install" /\ job <= Len(jobs) /\ step # "open" /\ step' # "open"
      /\ phase' = "install" /\ UNCHANGED <<tree, jobs, session, conf, job>>
      /\ Put(l, Writer(job), GetRtsDirs(l, conf[job]))
  BY <1>1 DEF InstallLib, Installing, installUnchanged, genVars, End, Libs
<1>3. /\ Name(job) \in DOMAIN disk
      /\ "projects" \notin DOMAIN disk[Name(job)]
      /\ Len(conf) = Len(jobs) /\ job \in 1..Len(jobs)
  <2>1. DOMAIN disk[Name(job)] = PartsBefore(job, step)
    BY <1>2 DEF Progress, InProgress
  <2>2. "projects" \notin PartsBefore(job, "gnat") /\ "projects" \notin PartsBefore(job, "gnarl")
    BY DEF PartsBefore
  <2>3. step = "gnat" \/ step = "gnarl"
    BY <1>1 DEF InstallLib, Installing, Libs
  <2>4. job \in Nat \ {0} /\ Len(jobs) \in Nat
    BY DEF Types
  <2>5. Len(conf) = Len(jobs)
    BY <1>2 DEF Settings, Counted
  <2>6. Name(job) \in DOMAIN disk
    BY <1>2 DEF OutputInv, Current
  <2> QED
    BY <1>2, <2>1, <2>2, <2>3, <2>4, <2>5, <2>6
<1>4. PICK m : m = Name(job)
  OBVIOUS
<1>5. PICK s : s = conf[job]
  OBVIOUS
<1>6. /\ DOMAIN disk' = DOMAIN disk /\ m \in DOMAIN disk
      /\ \A n \in DOMAIN disk : n # m => disk'[n] = disk[n]
      /\ DOMAIN disk'[m] = DOMAIN disk[m] \cup {l}
  BY <1>2, <1>3, <1>4, PutEffect
<1>7. Progress'
  BY LibProgress
<1>8. \A k \in Libs \cap DOMAIN disk'[m] :
        disk'[m][k].has = {d \in DirsOf(tree, k) : Matches(SharedDirs[d].when, s)}
  <2>1. Name(job)' = m /\ (conf[job])' = s /\ tree' = tree
    BY <1>2, <1>4, <1>5 DEF Name
  <2>2. \A k \in Libs \cap DOMAIN disk'[Name(job)'] : disk'[Name(job)'][k].has = Wanted(k, job)'
    BY <1>2, <1>7 DEF Progress, InProgress
  <2> QED
    BY <2>1, <2>2 DEF Wanted
<1>9. Consistent(s) /\ KnownTo(tree, s) /\ Full(s)
  BY <1>2, <1>3, <1>5 DEF ConfConsistent, ConfFull, Settings, Known
<1>10. Selects(m, s)'
  BY <1>2, <1>8, <1>9 DEF Selects, Consistent, KnownTo, Full
<1>11. "projects" \notin DOMAIN disk'[m]
  BY <1>1, <1>3, <1>4, <1>6 DEF Libs
<1>12. AllSelected'
  BY <1>2, <1>6, <1>10, <1>11, OneLibrary
<1>13. ConfConsistent' /\ ConfFull'
  BY <1>2 DEF ConfConsistent, ConfFull, Full
<1> QED
  BY <1>12, <1>13

LEMMA StepKeepsRequirements ==
  ASSUME TableProvides, Types, OutputInv, Settings, Progress, DescriptorExact,
         RequirementsInv, [Next]_vars
  PROVE  RequirementsInv'
<1> USE DEF RequirementsInv
<1>1. PassedMet'
  BY StepKeepsPassed
<1>2. CASE UNCHANGED vars
  <2>1. UNCHANGED <<tree, conf, disk, phase, step, job>>
    BY <1>2 DEF vars, genVars, sessionVars
  <2> QED
    BY <1>1, <2>1, QuietRequirements
<1>3. CASE FirstSession \/ NextSession
  <2>1. UNCHANGED <<tree, disk>> /\ phase' = "configure" /\ conf' = <<>>
    BY <1>3 DEF FirstSession, NextSession, Start, genVars
  <2> QED
    BY <1>1, <2>1, ConfiguredRequirements
<1>4. CASE Generate /\ UNCHANGED <<depVars, sessionVars>>
  <2>1. UNCHANGED <<tree, conf, disk, phase, step, job>>
    BY <1>4 DEF sessionVars, Generate, Enter, NextValue, NextVariable, Leave, NextLib, InstallTree
  <2> QED
    BY <1>1, <2>1, QuietRequirements
<1>5. CASE Configure \/ StartInstalling \/ Installed \/ BuildFails \/ Built \/ Kill
  <2>1. UNCHANGED <<tree, conf, disk>> /\ (phase' # "install" \/ step' = "open")
    <3>1. CASE StartInstalling
      <4>1. phase = "configure" /\ UNCHANGED <<tree, conf, disk, step>>
        BY <1>5, <3>1 DEF StartInstalling, genVars
      <4> QED
        BY <4>1 DEF Types
    <3>2. CASE Configure \/ Kill
      BY <3>2 DEF Configure, Kill, End, genVars
    <3>3. CASE Installed \/ BuildFails \/ Built
      BY <3>3 DEF Installed, BuildFails, Built, End, installUnchanged, genVars
    <3> QED
      BY <1>5, <3>1, <3>2, <3>3
  <2> QED
    BY <1>1, <2>1, QuietRequirements
<1>6. CASE CheckDeps
  <2>1. UNCHANGED <<tree, conf, disk, phase, step, job>>
    BY <1>6 DEF CheckDeps, genVars, sessionVars
  <2> QED
    BY <1>1, <2>1, QuietRequirements
<1>7. CASE Configured
  <2>1. /\ UNCHANGED <<tree, disk>> /\ phase' = "configure" /\ conf' = Append(conf, vals)
    BY <1>7 DEF Configured, genVars
  <2>2. Consistent(vals)
    BY <1>7, LoopIsConsistent
  <2> QED
    BY <1>1, <2>1, <2>2, ConfiguredRequirements
<1>8. CASE Install /\ phase' = "idle"
  <2>1. UNCHANGED <<tree, conf, disk>>
    BY <1>8, InstallFrame, InstallEnds, InstallKeepsConf
  <2> QED
    BY <1>1, <1>8, <2>1, QuietRequirements
<1>9. CASE Install /\ phase' # "idle"
  <2>1. ~RefuseExisting
    BY <1>9 DEF RefuseExisting, End
  <2> QED
    BY <1>1, <1>9, <2>1, RemoveRequirements, MakeDirsRequirements, LibRequirements,
       FilesRequirements DEF Install
<1>10. CASE BuildProject
  BY <1>1, <1>10, BuildRequirements
<1> QED
  BY <1>2, <1>3, <1>4, <1>5, <1>6, <1>7, <1>8, <1>9, <1>10 DEF Next, Proceed

LEMMA InitRequirements == Init => RequirementsInv
<1> SUFFICES ASSUME Init PROVE RequirementsInv
  OBVIOUS
<1>1. conf = <<>> /\ phase = "idle" /\ disk = <<>>
  BY DEF Init
<1>2. 1..Len(conf) = {} /\ DOMAIN disk = {}
  BY <1>1
<1> QED
  BY <1>1, <1>2 DEF RequirementsInv, PassedMet, ConfConsistent, ConfFull, AllSelected

(* When the sessions are about run-time libraries that the tree was        *)
(* generated for, and the table has a directory for each feature that one  *)
(* of its directories requires, no library is ready without the features   *)
(* it requires: for every board, profile and plan of sessions.             *)
THEOREM RequirementsAreInstalled ==
  ASSUME TreesServePlans, TableProvides
  PROVE  Spec => []RequirementsMet
<1> DEFINE SInv == BuildInv /\ Settings /\ Progress /\ Ordered /\ DescriptorExact
<1>1. Init => RequirementsInv
  BY InitRequirements
<1>2. SInv /\ RequirementsInv /\ [Next]_vars => RequirementsInv'
  BY StepKeepsRequirements DEF BuildInv
<1>3. SInv /\ RequirementsInv => RequirementsMet
  BY SelectedIsMet DEF BuildInv, RequirementsInv
<1>4. Spec => []SInv
  BY SpecSettings
<1> HIDE DEF SInv
<1> QED
  BY <1>1, <1>2, <1>3, <1>4, PTL DEF Spec
----------------------------------------------------------------------------
(* Where the values of a library come from. *)

(* The values s have been set by the board of a job or by requirements.    *)
Mine(j, s) ==
  LET start == StartOf(j.target, j.profile)
  IN  /\ KnownCPU(BoardOf[j.target])
      /\ DOMAIN start \subseteq DOMAIN s
      /\ \A v \in DOMAIN s :
            s[v] \in Required(v) \/ (v \in DOMAIN start /\ s[v] = start[v])

(* They are what they may be in the end.                                   *)
Final(t, j, s) ==
  LET values == FinalValues(t, j.target, j.profile)
  IN  /\ KnownCPU(BoardOf[j.target])
      /\ \A v \in DOMAIN values : v \in DOMAIN s /\ s[v] \in values[v]

Planned ==
  /\ plan \in Seq({c \in Runnable : JobsFor(c) \in Seq(DeterminedJobs(tree))})
  /\ jobs \in Seq(DeterminedJobs(tree))

Begun == phase = "check" => Mine(jobs[job], vals)

Waiting(i) == phase = "install" => i > job \/ (i = job /\ step = "open")

Given ==
  phase \in {"configure", "check", "install"} =>
    \A i \in 1..Len(conf) : Waiting(i) => Mine(jobs[i], conf[i])

Defaulted == phase = "install" /\ step # "open" => Final(tree, jobs[job], conf[job])

ValuesInv == Begun /\ Given /\ Defaulted

(* The part p is what the values s make of it, for a board and a profile   *)
(* whose versions are determined.                                          *)
RightPart(t, p, part, s) ==
  /\ Final(t, part.by, s) /\ Determined(t, part.by.target, part.by.profile)
  /\ p \in Libs =>
       /\ p \in Range(LibsFor(part.by.profile))
       /\ part.has = {d \in DirsOf(t, p) : Matches(SharedDirs[d].when, s)}
  /\ p = "projects" => part.has = LibsFor(part.by.profile)

RightParts ==
  \A n \in DOMAIN disk : \E s : \A p \in DOMAIN disk[n] : RightPart(tree, p, disk[n][p], s)

NoClash == outcome # "clash"

UnitsInv == Planned /\ ValuesInv /\ RightParts /\ NoClash

(* A requirement is one of the values that a variable may have.            *)
LEMMA MeetKeepsMine ==
  ASSUME NEW d \in DOMAIN SharedDirs, NEW j, NEW s, Mine(j, s)
  PROVE  Mine(j, Update(s, CorrespondingScenario(SharedDirs[d].needs)))
<1> DEFINE needs == SharedDirs[d].needs
           t == Update(s, CorrespondingScenario(needs))
           start == StartOf(j.target, j.profile)
<1>1. /\ DOMAIN t = DOMAIN s \cup DOMAIN needs
      /\ \A v \in DOMAIN needs : t[v] \in needs[v]
      /\ \A v \in DOMAIN t : v \notin DOMAIN needs => t[v] = s[v]
  <2>1. \A v \in DOMAIN needs : needs[v] # {}
    BY NeedsAssumption
  <2> QED
    BY <2>1 DEF Update, CorrespondingScenario
<1>2. \A v \in DOMAIN needs : needs[v] \subseteq Required(v)
  BY DEF Required
<1>3. /\ KnownCPU(BoardOf[j.target]) /\ DOMAIN start \subseteq DOMAIN s
      /\ \A v \in DOMAIN s :
            s[v] \in Required(v) \/ (v \in DOMAIN start /\ s[v] = start[v])
  BY DEF Mine
<1> HIDE DEF t, needs, start
<1>4. DOMAIN start \subseteq DOMAIN t
  BY <1>1, <1>3
<1>5. \A v \in DOMAIN t :
         t[v] \in Required(v) \/ (v \in DOMAIN start /\ t[v] = start[v])
  BY <1>1, <1>2, <1>3
<1>6. Mine(j, t)
  BY <1>3, <1>4, <1>5 DEF Mine, start
<1> QED
  BY <1>6 DEF t, needs

(* With the defaults, the values are what they may be in the end.          *)
LEMMA DefaultsMakeFinal ==
  ASSUME NEW j, NEW s, Mine(j, s)
  PROVE  Final(tree, j, Update(DefaultsFor(LibsFor(j.profile)), s))
<1> DEFINE start == StartOf(j.target, j.profile)
           defaults == DefaultsFor(LibsFor(j.profile))
           t == Update(defaults, s)
           values == FinalValues(tree, j.target, j.profile)
<1>1. /\ DOMAIN defaults = VariablesOf(tree, j.profile)
      /\ \A v \in DOMAIN defaults : defaults[v] = Head(ValuesOf(tree, v))
  BY DEF DefaultsFor, VariablesOf
<1>2. /\ DOMAIN values = DOMAIN start \cup VariablesOf(tree, j.profile)
      /\ \A v \in DOMAIN values :
           values[v] = Required(v) \cup
             {IF v \in DOMAIN start THEN start[v] ELSE Head(ValuesOf(tree, v))}
  BY DEF FinalValues
<1>3. /\ KnownCPU(BoardOf[j.target]) /\ DOMAIN start \subseteq DOMAIN s
      /\ \A v \in DOMAIN s :
            s[v] \in Required(v) \/ (v \in DOMAIN start /\ s[v] = start[v])
  BY DEF Mine
<1> HIDE DEF start, defaults, values
<1>4. /\ DOMAIN t = DOMAIN defaults \cup DOMAIN s
      /\ \A v \in DOMAIN s : t[v] = s[v]
      /\ \A v \in DOMAIN t : v \notin DOMAIN s => t[v] = defaults[v]
  BY DEF Update
<1> HIDE DEF t
<1>5. ASSUME NEW v \in DOMAIN values
      PROVE  v \in DOMAIN t /\ t[v] \in values[v]
  <2>1. v \in DOMAIN t
    BY <1>1, <1>2, <1>3, <1>4
  <2>2. CASE v \in DOMAIN s
    BY <1>2, <1>3, <1>4, <2>2
  <2>3. CASE v \notin DOMAIN s
    <3>1. v \notin DOMAIN start /\ v \in DOMAIN defaults
      BY <1>3, <1>4, <2>1, <2>3
    <3>2. t[v] = Head(ValuesOf(tree, v))
      BY <1>1, <1>4, <2>1, <2>3, <3>1
    <3> QED
      BY <1>2, <2>1, <3>1, <3>2
  <2> QED
    BY <2>1, <2>2, <2>3
<1>6. Final(tree, j, t)
  BY <1>3, <1>5 DEF Final, values
<1> QED
  BY <1>6 DEF t, defaults

(* The plan and the jobs are about determined libraries.                   *)
LEMMA StartPlanned ==
  ASSUME NEW STATE sessions, Start(sessions),
         sessions \in Seq({c \in Runnable : JobsFor(c) \in Seq(DeterminedJobs(tree))}) \ {<<>>}
  PROVE  Planned'
<1> DEFINE good == {c \in Runnable : JobsFor(c) \in Seq(DeterminedJobs(tree))}
<1>1. Head(sessions) \in good /\ Tail(sessions) \in Seq(good)
  OBVIOUS
<1>2. JobsFor(Head(sessions)) \in Seq(DeterminedJobs(tree))
  BY <1>1
<1>3. plan' \in Seq(good) /\ jobs' \in Seq(DeterminedJobs(tree)) /\ tree' = tree
  BY <1>1, <1>2 DEF Start, genVars
<1> QED
  BY <1>3 DEF Planned, DeterminedJobs

LEMMA StepKeepsPlanned ==
  ASSUME VersionsDetermined, Types, Planned, [Next]_vars
  PROVE  Planned'
<1>1. CASE FirstSession
  <2> DEFINE good == {c \in Runnable : JobsFor(c) \in Seq(DeterminedJobs(tree))}
  <2>1. PICK sessions \in Plans[tree] : Start(sessions)
    BY <1>1 DEF FirstSession
  <2>2. tree \in Trees
    BY DEF Types, TypeOK
  <2>3. sessions \in Seq(Runnable) \ {<<>>}
    BY <2>2, PlansAssumption
  <2>4. \A i \in 1..Len(sessions) : sessions[i] \in good
    BY <2>2, <2>3 DEF VersionsDetermined
  <2>5. sessions \in Seq(good) \ {<<>>}
    BY <2>3, <2>4
  <2> QED
    BY <2>1, <2>5, StartPlanned
<1>2. CASE NextSession
  BY <1>2, StartPlanned DEF NextSession, Planned
<1>3. CASE UNCHANGED <<tree, plan, jobs>>
  BY <1>3 DEF Planned, DeterminedJobs
<1>4. CASE UNCHANGED vars
  BY <1>3, <1>4 DEF vars, genVars, sessionVars
<1>5. CASE Generate /\ UNCHANGED <<depVars, sessionVars>>
  BY <1>3, <1>5 DEF sessionVars, Generate, Enter, NextValue, NextVariable, Leave, NextLib,
     InstallTree
<1>6. CASE Configure \/ CheckDeps \/ Configured \/ StartInstalling \/ Kill
  BY <1>3, <1>6 DEF Configure, CheckDeps, Configured, StartInstalling, Kill, genVars, sessionVars
<1>7. CASE Install
  BY <1>3, <1>7, InstallFrame
<1>8. CASE Installed \/ BuildProject \/ BuildFails \/ Built
  BY <1>3, <1>8 DEF Installed, BuildProject, BuildFails, Built, installUnchanged, genVars
<1> QED
  BY <1>1, <1>2, <1>4, <1>5, <1>6, <1>7, <1>8 DEF Next, Proceed

(* A step that leaves the values alone.                                    *)
LEMMA QuietValues ==
  ASSUME ValuesInv, UNCHANGED <<tree, jobs, conf>>,
         phase' \in {"idle", "build"} \/ UNCHANGED <<phase, job, step, vals>>
  PROVE  ValuesInv'
<1>1. Begun' /\ Given'
  BY DEF ValuesInv, Begun, Given, Waiting
<1>2. Defaulted'
  BY DEF ValuesInv, Defaulted
<1> QED
  BY <1>1, <1>2 DEF ValuesInv

(* The configuration of the jobs, and the start of the installation.       *)
LEMMA StartValues ==
  ASSUME NEW STATE sessions, Start(sessions)
  PROVE  ValuesInv'
<1>1. phase' = "configure" /\ conf' = <<>>
  BY DEF Start
<1>2. 1..Len(conf') = {}
  BY <1>1
<1> QED
  BY <1>1, <1>2 DEF ValuesInv, Begun, Given, Defaulted

LEMMA ConfigureValues ==
  ASSUME ValuesInv, Configure
  PROVE  ValuesInv'
<1>1. CASE KnownCPU(Board(job))
  <2>1. /\ phase = "configure" /\ phase' = "check" /\ UNCHANGED <<tree, jobs, conf, job>>
        /\ vals' = StartOf(jobs[job].target, jobs[job].profile)
    BY <1>1 DEF Configure, Deps!Begin, StartOf, Board, Profile, genVars
  <2>2. KnownCPU(BoardOf[jobs[job].target])
    BY <1>1 DEF Board
  <2>3. Mine(jobs[job], vals')
    BY <2>1, <2>2 DEF Mine
  <2>4. Begun' /\ Defaulted'
    BY <2>1, <2>3 DEF Begun, Defaulted
  <2>5. Given'
    BY <2>1 DEF ValuesInv, Given, Waiting
  <2> QED
    BY <2>4, <2>5 DEF ValuesInv
<1>2. CASE ~KnownCPU(Board(job))
  <2>1. phase' = "idle" /\ UNCHANGED <<tree, jobs, conf>>
    BY <1>2 DEF Configure, End, genVars
  <2> QED
    BY <2>1, QuietValues
<1> QED
  BY <1>1, <1>2

LEMMA CheckDepsValues ==
  ASSUME Settings, ValuesInv, CheckDeps
  PROVE  ValuesInv'
<1>1. phase = "check" /\ UNCHANGED <<tree, jobs, job, conf, phase, step>>
  BY DEF CheckDeps, genVars, sessionVars
<1>2. Mine(jobs[job], vals)
  BY <1>1 DEF ValuesInv, Begun
<1>3. Mine(jobs[job], vals')
  <2>1. CASE Deps!NextPass
    BY <1>2, <2>1 DEF Deps!NextPass
  <2>2. CASE Deps!Meet
    <3>1. PICK d \in pos..Len(SharedDirs) :
            vals' = Deps!Update(vals, Deps!CorrespondingScenario(SharedDirs[d].needs))
      BY <2>2 DEF Deps!Meet
    <3>2. d \in DOMAIN SharedDirs
      <4>1. pos \in Nat \ {0}
        BY <1>1 DEF Settings, Checking
      <4> QED
        BY <3>1, <4>1, TableAssumption
    <3>3. vals' = Update(vals, CorrespondingScenario(SharedDirs[d].needs))
      BY <3>1 DEF Deps!Update, Deps!CorrespondingScenario, Update, CorrespondingScenario
    <3> QED
      BY <1>2, <3>2, <3>3, MeetKeepsMine
  <2> QED
    BY <2>1, <2>2 DEF CheckDeps
<1>4. Begun' /\ Defaulted'
  BY <1>1, <1>3 DEF Begun, Defaulted
<1>5. Given'
  BY <1>1 DEF ValuesInv, Given, Waiting
<1> QED
  BY <1>4, <1>5 DEF ValuesInv

LEMMA ConfiguredValues ==
  ASSUME Types, Settings, ValuesInv, Configured
  PROVE  ValuesInv'
<1>1. /\ phase = "check" /\ phase' = "configure" /\ conf' = Append(conf, vals)
      /\ UNCHANGED <<tree, jobs>>
  BY DEF Configured, genVars
<1>2. Mine(jobs[job], vals) /\ \A i \in 1..Len(conf) : Mine(jobs[i], conf[i])
  BY <1>1 DEF ValuesInv, Begun, Given, Waiting
<1>3. Len(conf) = job - 1 /\ job \in Nat
  BY <1>1 DEF Settings, Counted, Types
<1>4. PICK S : conf \in Seq(S)
  BY DEF Settings, Known, IsSeq
<1>5. /\ Len(conf') = Len(conf) + 1 /\ Len(conf) \in Nat
      /\ \A i \in 1..Len(conf) : conf'[i] = conf[i]
      /\ conf'[Len(conf) + 1] = vals
  <2>1. conf \in Seq(S \cup {vals}) /\ vals \in S \cup {vals}
    BY <1>4
  <2> QED
    BY <1>1, <2>1
<1>6. \A i \in 1..Len(conf') : i \in 1..Len(conf) \/ (i = Len(conf) + 1 /\ i = job)
  BY <1>3, <1>5
<1>7. \A i \in 1..Len(conf') : Mine(jobs[i], conf'[i])
  BY <1>2, <1>5, <1>6
<1>8. Given'
  BY <1>1, <1>7 DEF Given
<1> QED
  BY <1>1, <1>8 DEF ValuesInv, Begun, Defaulted

LEMMA StartInstallingValues ==
  ASSUME Types, ValuesInv, StartInstalling
  PROVE  ValuesInv'
<1>1. /\ phase = "configure" /\ phase' = "install" /\ UNCHANGED <<jobs, conf, step>>
  BY DEF StartInstalling
<1>2. step' = "open"
  BY <1>1 DEF Types
<1>3. \A i \in 1..Len(conf) : Mine(jobs[i], conf[i])
  BY <1>1 DEF ValuesInv, Given, Waiting
<1> QED
  BY <1>1, <1>2, <1>3 DEF ValuesInv, Begun, Given, Defaulted

(* The defaults are set when the directories are made.                     *)
LEMMA MakeDirsValues ==
  ASSUME Types, Settings, ValuesInv, MakeDirs, phase' # "idle"
  PROVE  ValuesInv'
<1>1. /\ phase = "install" /\ phase' = "install" /\ step = "open" /\ step' = "gnat"
      /\ job \in 1..Len(jobs) /\ UNCHANGED <<tree, jobs, job>>
  <2>1. /\ phase = "install" /\ step = "open" /\ job <= Len(jobs)
        /\ UNCHANGED <<tree, jobs, job>>
    BY DEF MakeDirs, Installing, installUnchanged, genVars
  <2>2. job \in Nat \ {0} /\ Len(jobs) \in Nat
    BY DEF Types
  <2> QED
    BY <2>1, <2>2, MakeEffect
<1>2. Len(conf) = Len(jobs) /\ IsSeq(conf)
  BY <1>1 DEF Settings, Counted, Known
<1>3. PICK n : n = Update(DefaultsFor(LibsFor(Profile(job))), conf[job])
  OBVIOUS
<1>4. conf' = [conf EXCEPT ![job] = n]
  BY <1>3 DEF MakeDirs, End
<1>5. /\ Len(conf') = Len(conf) /\ conf'[job] = n
      /\ \A i \in 1..Len(conf) : i # job => conf'[i] = conf[i]
  BY <1>1, <1>2, <1>4, ReplaceOne
<1>6. Final(tree, jobs[job], n)
  <2>1. Mine(jobs[job], conf[job])
    BY <1>1, <1>2 DEF ValuesInv, Given, Waiting
  <2> QED
    BY <1>3, <2>1, DefaultsMakeFinal DEF Profile
<1>8. Defaulted'
  BY <1>1, <1>5, <1>6 DEF Defaulted
<1>9. \A i \in 1..Len(conf) : i > job => Mine(jobs[i], conf'[i])
  <2>1. \A i \in 1..Len(conf) : i > job => Mine(jobs[i], conf[i]) /\ i # job
    BY <1>1 DEF ValuesInv, Given, Waiting
  <2> QED
    BY <1>5, <2>1
<1>10. Given'
  BY <1>1, <1>5, <1>9 DEF Given, Waiting
<1> QED
  BY <1>1, <1>8, <1>10 DEF ValuesInv, Begun

(* Another step of the installation.                                       *)
LEMMA InstallValues ==
  ASSUME Types, ValuesInv, UNCHANGED <<tree, jobs, conf>>,
         phase = "install", phase' = "install",
         \/ UNCHANGED <<job, step>>
         \/ step # "open" /\ step' # "open" /\ job' = job
         \/ step # "open" /\ step' = "open" /\ job' = job + 1
  PROVE  ValuesInv'
<1>1. job \in Nat
  BY DEF Types
<1>2. \A i \in 1..Len(conf) : Waiting(i)' => Waiting(i)
  BY <1>1 DEF Waiting
<1>3. Given'
  BY <1>2 DEF ValuesInv, Given
<1>4. Defaulted'
  BY DEF ValuesInv, Defaulted
<1> QED
  BY <1>3, <1>4 DEF ValuesInv, Begun

LEMMA StepKeepsValues ==
  ASSUME Types, Settings, ValuesInv, [Next]_vars
  PROVE  ValuesInv'
<1>1. CASE UNCHANGED vars
  BY <1>1, QuietValues DEF vars, genVars, depVars, sessionVars
<1>2. CASE FirstSession \/ NextSession
  BY <1>2, StartValues DEF FirstSession, NextSession
<1>3. CASE Generate /\ UNCHANGED <<depVars, sessionVars>>
  BY <1>3, QuietValues
     DEF depVars, sessionVars, Generate, Enter, NextValue, NextVariable, Leave, NextLib,
         InstallTree
<1>4. CASE Configure
  BY <1>4, ConfigureValues
<1>5. CASE CheckDeps
  BY <1>5, CheckDepsValues
<1>6. CASE Configured
  BY <1>6, ConfiguredValues
<1>7. CASE StartInstalling
  BY <1>7, StartInstallingValues
<1>8. CASE Install /\ phase' = "idle"
  <2>1. UNCHANGED <<tree, jobs, conf>>
    BY <1>8, InstallFrame, InstallKeepsConf
  <2> QED
    BY <1>8, <2>1, QuietValues
<1>9. CASE MakeDirs /\ phase' # "idle"
  BY <1>9, MakeDirsValues
<1>10. CASE Install /\ ~MakeDirs /\ phase' # "idle"
  <2>1. /\ UNCHANGED <<tree, jobs, conf>> /\ phase = "install" /\ phase' = "install"
        /\ job' = job \/ (WriteProjects /\ job' = job + 1)
    BY <1>10, InstallFrame, InstallKeepsConf
  <2>2. \/ UNCHANGED <<job, step>>
        \/ step # "open" /\ step' # "open" /\ job' = job
        \/ step # "open" /\ step' = "open" /\ job' = job + 1
    <3>1. ASSUME NEW l, NEW next, InstallLib(l, next), l # "open", next # "open"
          PROVE  step # "open" /\ step' # "open" /\ job' = job
      BY <1>10, <3>1 DEF InstallLib, Installing, End
    <3>2. CASE InstallGnat \/ InstallGnarl
      BY <3>1, <3>2 DEF InstallGnat, InstallGnarl
    <3>3. CASE RemoveExisting
      BY <3>3 DEF RemoveExisting
    <3>4. CASE CopyScripts \/ WriteConfig \/ WriteProjects
      BY <3>4 DEF CopyScripts, WriteConfig, WriteProjects, Installing
    <3>5. ~RefuseExisting
      BY <1>10 DEF RefuseExisting, End
    <3> QED
      BY <1>10, <3>2, <3>3, <3>4, <3>5 DEF Install
  <2> QED
    BY <2>1, <2>2, InstallValues
<1>11. CASE Installed \/ BuildFails \/ Built \/ BuildProject \/ Kill
  <2>1. UNCHANGED <<tree, jobs, conf>> /\ phase' \in {"idle", "build"}
    BY <1>11 DEF Installed, BuildFails, Built, BuildProject, Kill, End, installUnchanged, genVars
  <2> QED
    BY <2>1, QuietValues
<1> QED
  BY <1>1, <1>2, <1>3, <1>4, <1>5, <1>6, <1>7, <1>8, <1>9, <1>10, <1>11 DEF Next, Proceed

----------------------------------------------------------------------------
(* What the libraries in the output are made of. *)

(* Parts that are only removed, or left alone.                             *)
LEMMA FewerParts ==
  ASSUME RightParts, UNCHANGED tree, DOMAIN disk' \subseteq DOMAIN disk,
         \A n \in DOMAIN disk' : \A p \in DOMAIN disk'[n] :
           p \in DOMAIN disk[n] /\ disk'[n][p] = disk[n][p]
  PROVE  RightParts'
<1>1. ASSUME NEW n \in DOMAIN disk'
      PROVE  \E s : \A p \in DOMAIN disk'[n] : RightPart(tree, p, disk'[n][p], s)
  <2>1. PICK s : \A p \in DOMAIN disk[n] : RightPart(tree, p, disk[n][p], s)
    BY <1>1 DEF RightParts
  <2> QED
    BY <1>1, <2>1
<1> QED
  BY <1>1 DEF RightParts

(* One library of the output is made or changed.                           *)
LEMMA OneRight ==
  ASSUME RightParts, UNCHANGED tree, NEW m, NEW s,
         \A n \in DOMAIN disk' : n # m => n \in DOMAIN disk /\ disk'[n] = disk[n],
         m \in DOMAIN disk' => \A p \in DOMAIN disk'[m] : RightPart(tree, p, disk'[m][p], s)
  PROVE  RightParts'
<1>1. ASSUME NEW n \in DOMAIN disk'
      PROVE  \E t : \A p \in DOMAIN disk'[n] : RightPart(tree, p, disk'[n][p], t)
  <2>1. CASE n = m
    BY <1>1, <2>1
  <2>2. CASE n # m
    <3>1. n \in DOMAIN disk /\ disk'[n] = disk[n]
      BY <1>1, <2>2
    <3>2. PICK t : \A p \in DOMAIN disk[n] : RightPart(tree, p, disk[n][p], t)
      BY <3>1 DEF RightParts
    <3> QED
      BY <3>1, <3>2
  <2> QED
    BY <2>1, <2>2
<1> QED
  BY <1>1 DEF RightParts

(* The job writes a part.                                                  *)
LEMMA WriteRight ==
  ASSUME Types, OutputInv, Settings, Progress, Planned, ValuesInv, RightParts,
         phase = "install", step # "open", UNCHANGED tree,
         NEW part, NEW content, Put(part, Writer(job), content),
         part \in Libs => part \in LibsOf(job) /\ content = Wanted(part, job),
         part = "projects" => content = LibsFor(Profile(job))
  PROVE  RightParts'
<1>1. PICK m : m = Name(job)
  OBVIOUS
<1>2. PICK w : w = Writer(job)
  OBVIOUS
<1>3. PICK s : s = conf[job]
  OBVIOUS
<1>4. job \in 1..Len(jobs) /\ m \in DOMAIN disk
  <2>1. job <= Len(jobs) /\ Name(job) \in DOMAIN disk
    BY DEF OutputInv, Current
  <2>2. job \in Nat \ {0} /\ Len(jobs) \in Nat
    BY DEF Types
  <2> QED
    BY <1>1, <2>1, <2>2
<1>5. /\ DOMAIN disk' = DOMAIN disk
      /\ \A n \in DOMAIN disk : n # m => disk'[n] = disk[n]
      /\ DOMAIN disk'[m] = DOMAIN disk[m] \cup {part}
      /\ disk'[m][part].by = w /\ disk'[m][part].has = content
      /\ \A p \in DOMAIN disk[m] : p # part => disk'[m][p] = disk[m][p]
  BY <1>1, <1>2, <1>4, PutEffect
<1>6. \A p \in DOMAIN disk[m] : disk[m][p].by = w
  BY <1>1, <1>2 DEF OutputInv, Current
<1>7. w.target = jobs[job].target /\ w.profile = jobs[job].profile
  BY <1>2 DEF Writer, Profile
<1>8. Final(tree, jobs[job], s)
  BY <1>3 DEF ValuesInv, Defaulted
<1>9. Final(tree, w, s) /\ Determined(tree, w.target, w.profile)
  <2>1. jobs[job] \in DeterminedJobs(tree)
    BY <1>4 DEF Planned
  <2>2. KnownCPU(BoardOf[jobs[job].target])
    BY <1>8 DEF Final
  <2>3. Determined(tree, jobs[job].target, jobs[job].profile)
    BY <2>1, <2>2 DEF DeterminedJobs
  <2> QED
    BY <1>7, <1>8, <2>3 DEF Final
<1>10. \A l \in Libs \cap DOMAIN disk[m] :
         disk[m][l].has = {d \in DirsOf(tree, l) : Matches(SharedDirs[d].when, s)}
  BY <1>1, <1>3 DEF Progress, InProgress, Wanted
<1>11. ASSUME NEW p \in DOMAIN disk'[m]
       PROVE  RightPart(tree, p, disk'[m][p], s)
  <2>1. CASE p = part
    <3>1. part \in Libs =>
            /\ part \in Range(LibsFor(w.profile))
            /\ content = {d \in DirsOf(tree, part) : Matches(SharedDirs[d].when, s)}
      BY <1>3, <1>7 DEF LibsOf, Profile, Wanted
    <3>2. part = "projects" => content = LibsFor(w.profile)
      BY <1>7 DEF Profile
    <3> QED
      BY <1>5, <1>9, <2>1, <3>1, <3>2 DEF RightPart
  <2>2. CASE p # part
    <3>1. p \in DOMAIN disk[m] /\ disk'[m][p] = disk[m][p]
      BY <1>5, <1>11, <2>2
    <3>2. PICK t : RightPart(tree, p, disk[m][p], t)
      BY <1>4, <3>1 DEF RightParts
    <3>3. disk[m][p].by = w
      BY <1>6, <3>1
    <3>4. p \in Libs => p \in Range(LibsFor(w.profile))
      BY <3>2, <3>3 DEF RightPart
    <3>5. p = "projects" => disk[m][p].has = LibsFor(w.profile)
      BY <3>2, <3>3 DEF RightPart
    <3> QED
      BY <1>9, <1>10, <3>1, <3>3, <3>4, <3>5 DEF RightPart
  <2> QED
    BY <2>1, <2>2
<1> QED
  BY <1>5, <1>11, OneRight

LEMMA BuildRight ==
  ASSUME Types, OutputInv, RightParts, BuildProject
  PROVE  RightParts'
<1>1. PICK m : m = Name(job)
  OBVIOUS
<1>2. PICK w : w = disk[m].projects.by
  OBVIOUS
<1>3. /\ phase = "build" /\ job \in 1..Len(jobs) /\ UNCHANGED tree
      /\ Put("adalib", w, {})
  <2>1. phase = "build" /\ job <= Len(jobs) /\ UNCHANGED tree /\ Put("adalib", w, {})
    BY <1>1, <1>2 DEF BuildProject, installUnchanged, genVars
  <2>2. job \in Nat \ {0} /\ Len(jobs) \in Nat
    BY DEF Types
  <2> QED
    BY <2>1, <2>2
<1>4. m \in DOMAIN disk /\ "projects" \in DOMAIN disk[m]
  BY <1>1, <1>3 DEF OutputInv, AllDone, Done
<1>5. /\ DOMAIN disk' = DOMAIN disk
      /\ \A n \in DOMAIN disk : n # m => disk'[n] = disk[n]
      /\ DOMAIN disk'[m] = DOMAIN disk[m] \cup {"adalib"}
      /\ disk'[m]["adalib"].by = w
      /\ \A p \in DOMAIN disk[m] : p # "adalib" => disk'[m][p] = disk[m][p]
  BY <1>1, <1>3, <1>4, PutEffect
<1>6. PICK s : \A p \in DOMAIN disk[m] : RightPart(tree, p, disk[m][p], s)
  BY <1>4 DEF RightParts
<1>7. Final(tree, w, s) /\ Determined(tree, w.target, w.profile)
  BY <1>2, <1>4, <1>6 DEF RightPart
<1>8. RightPart(tree, "adalib", disk'[m]["adalib"], s)
  BY <1>5, <1>7 DEF RightPart, Libs
<1>9. \A p \in DOMAIN disk'[m] : RightPart(tree, p, disk'[m][p], s)
  BY <1>5, <1>6, <1>8
<1> QED
  BY <1>3, <1>5, <1>9, OneRight

LEMMA MakeRight ==
  ASSUME RightParts, MakeDirs, phase' # "idle"
  PROVE  RightParts'
<1>1. PICK m : m = Name(job)
  OBVIOUS
<1>2. /\ DOMAIN disk' = DOMAIN disk \cup {m} /\ \A n \in DOMAIN disk : disk'[n] = disk[n]
      /\ DOMAIN disk'[m] = {}
  BY <1>1, MakeEffect
<1>3. UNCHANGED tree
  BY DEF MakeDirs, installUnchanged, genVars
<1> QED
  BY <1>2, <1>3, OneRight

(* The library that a step installs.                                       *)
LEMMA LibOfStep ==
  ASSUME Progress, InstallGnat \/ InstallGnarl
  PROVE  \E l, next : InstallLib(l, next) /\ l \in Libs \cap LibsOf(job) /\ next # "clash"
<1>1. CASE InstallGnat
  <2>1. "gnat" \in Libs \cap LibsOf(job)
    BY LibsForFacts DEF Libs
  <2> QED
    BY <1>1, <2>1 DEF InstallGnat
<1>2. CASE InstallGnarl
  <2>1. InstallLib("gnarl", "ld") /\ phase = "install" /\ step = "gnarl"
    BY <1>2 DEF InstallGnarl, InstallLib, Installing
  <2>2. "gnarl" \in Libs \cap LibsOf(job)
    BY <2>1 DEF Progress, InProgress, Libs
  <2> QED
    BY <2>1, <2>2
<1> QED
  BY <1>1, <1>2

LEMMA InstallRight ==
  ASSUME Types, OutputInv, Settings, Progress, DescriptorExact, Planned, ValuesInv, RightParts,
         Install
  PROVE  RightParts'
<1>1. UNCHANGED tree /\ phase = "install"
  BY InstallFrame
<1>2. CASE phase' = "idle"
  <2>1. disk' = disk
    BY <1>2, InstallEnds
  <2> QED
    BY <1>1, <2>1, FewerParts
<1>3. CASE phase' # "idle" /\ (InstallGnat \/ InstallGnarl)
  <2>1. PICK l, next : InstallLib(l, next) /\ l \in Libs \cap LibsOf(job)
    BY <1>3, LibOfStep
  <2>2. Put(l, Writer(job), GetRtsDirs(l, conf[job])) /\ step = l
    BY <1>3, <2>1 DEF InstallLib, Installing, End
  <2>3. GetRtsDirs(l, conf[job]) = Wanted(l, job)
    BY <2>1, ChosenHere
  <2>4. l # "projects" /\ l # "open"
    BY <2>1 DEF Libs
  <2>5. Put(l, Writer(job), Wanted(l, job))
    BY <2>2, <2>3
  <2> QED
    BY <1>1, <2>1, <2>2, <2>4, <2>5, WriteRight
<1>4. CASE CopyScripts
  <2>1. Put("ld", Writer(job), Board(job).scripts) /\ step = "ld"
    BY <1>4 DEF CopyScripts, Installing
  <2> QED
    BY <1>1, <2>1, WriteRight DEF Libs
<1>5. CASE WriteConfig
  <2>1. Put("config", Writer(job), LoadersOf(Board(job))) /\ step = "config"
    BY <1>5 DEF WriteConfig, Installing
  <2> QED
    BY <1>1, <2>1, WriteRight DEF Libs
<1>6. CASE WriteProjects
  <2>1. Put("projects", Writer(job), LibsFor(Profile(job))) /\ step = "projects"
    BY <1>6 DEF WriteProjects, Installing
  <2> QED
    BY <1>1, <2>1, WriteRight DEF Libs
<1>7. CASE RemoveExisting
  BY <1>1, <1>7, RemoveEffect, FewerParts
<1>8. CASE MakeDirs /\ phase' # "idle"
  BY <1>8, MakeRight
<1>9. CASE RefuseExisting
  BY <1>2, <1>9 DEF RefuseExisting, End
<1> QED
  BY <1>2, <1>3, <1>4, <1>5, <1>6, <1>7, <1>8, <1>9 DEF Install

LEMMA StepKeepsRight ==
  ASSUME Types, OutputInv, Settings, Progress, DescriptorExact, Planned, ValuesInv, RightParts,
         [Next]_vars
  PROVE  RightParts'
<1>1. CASE UNCHANGED <<tree, disk>>
  BY <1>1, FewerParts
<1>2. CASE UNCHANGED vars
  BY <1>1, <1>2 DEF vars, genVars, sessionVars
<1>3. CASE FirstSession \/ NextSession
  BY <1>1, <1>3 DEF FirstSession, NextSession, Start, genVars
<1>4. CASE Generate /\ UNCHANGED <<depVars, sessionVars>>
  BY <1>1, <1>4 DEF sessionVars, Generate, Enter, NextValue, NextVariable, Leave, NextLib,
     InstallTree
<1>5. CASE Configure \/ CheckDeps \/ Configured \/ StartInstalling \/ Kill
  BY <1>1, <1>5 DEF Configure, CheckDeps, Configured, StartInstalling, Kill, genVars, sessionVars
<1>6. CASE Install
  BY <1>6, InstallRight
<1>7. CASE BuildProject
  BY <1>7, BuildRight
<1>8. CASE Installed \/ BuildFails \/ Built
  BY <1>1, <1>8 DEF Installed, BuildFails, Built, installUnchanged, genVars
<1> QED
  BY <1>2, <1>3, <1>4, <1>5, <1>6, <1>7, <1>8 DEF Next, Proceed

----------------------------------------------------------------------------
(* The versions that the final values leave. *)

LEMMA VersionsGrow ==
  ASSUME NEW l, NEW board, NEW few, NEW many, few \subseteq many
  PROVE  VersionsIn(l, few, board) \subseteq VersionsIn(l, many, board)
BY DEF VersionsIn

(* Final values select all that must be selected, and only what may be.    *)
LEMMA SelectedVersions ==
  ASSUME NEW j, NEW s, Final(tree, j, s), NEW l, NEW board
  PROVE  LET values == FinalValues(tree, j.target, j.profile)
             chosen == {d \in DirsOf(tree, l) : Matches(SharedDirs[d].when, s)}
         IN  /\ VersionsIn(l, {d \in DirsOf(tree, l) : MustSelect(values, d)}, board)
                  \subseteq VersionsIn(l, chosen, board)
             /\ VersionsIn(l, chosen, board)
                  \subseteq VersionsIn(l, {d \in DirsOf(tree, l) : MaySelect(values, d)}, board)
<1> DEFINE values == FinalValues(tree, j.target, j.profile)
           chosen == {d \in DirsOf(tree, l) : Matches(SharedDirs[d].when, s)}
           must == {d \in DirsOf(tree, l) : MustSelect(values, d)}
           may == {d \in DirsOf(tree, l) : MaySelect(values, d)}
<1>1. \A v \in DOMAIN values : v \in DOMAIN s /\ s[v] \in values[v]
  BY DEF Final
<1> HIDE DEF values
<1>2. must \subseteq chosen
  BY <1>1 DEF MustSelect, Matches
<1>3. chosen \subseteq may
  BY <1>1 DEF MaySelect, Matches
<1> HIDE DEF chosen, must, may
<1>4. /\ VersionsIn(l, must, board) \subseteq VersionsIn(l, chosen, board)
      /\ VersionsIn(l, chosen, board) \subseteq VersionsIn(l, may, board)
  BY <1>2, <1>3, VersionsGrow
<1> QED
  BY <1>4 DEF chosen, must, may, values

(* No library has two versions of a unit.                                  *)
LEMMA NothingClashes ==
  ASSUME NEW j, NEW s, Final(tree, j, s), Determined(tree, j.target, j.profile),
         NEW l \in Range(LibsFor(j.profile))
  PROVE  ~Clash(VersionsIn(l, {d \in DirsOf(tree, l) : Matches(SharedDirs[d].when, s)},
                           BoardOf[j.target]))
<1> DEFINE values == FinalValues(tree, j.target, j.profile)
           chosen == VersionsIn(l, {d \in DirsOf(tree, l) : Matches(SharedDirs[d].when, s)},
                                BoardOf[j.target])
           may == VersionsIn(l, {d \in DirsOf(tree, l) : MaySelect(values, d)}, BoardOf[j.target])
<1>1. chosen \subseteq may
  BY SelectedVersions
<1>2. ~Clash(may)
  BY DEF Determined
<1> HIDE DEF chosen, may
<1>3. ~Clash(chosen)
  BY <1>1, <1>2 DEF Clash
<1> QED
  BY <1>3 DEF chosen

LEMMA StepKeepsNoClash ==
  ASSUME Types, OutputInv, Settings, Progress, DescriptorExact, Planned, ValuesInv, NoClash,
         [Next]_vars
  PROVE  NoClash'
<1>1. CASE outcome' \in {outcome, "", "unexpected cpu", "already exists",
                         "no sources for the library", "success", "build failed", "killed"}
  BY <1>1 DEF NoClash
<1>2. CASE UNCHANGED vars
  BY <1>1, <1>2 DEF vars, sessionVars
<1>3. CASE FirstSession \/ NextSession
  BY <1>1, <1>3 DEF FirstSession, NextSession, Start
<1>4. CASE Generate /\ UNCHANGED <<depVars, sessionVars>>
  BY <1>1, <1>4 DEF sessionVars
<1>5. CASE Configure \/ CheckDeps \/ Configured \/ StartInstalling \/ Kill
  BY <1>1, <1>5 DEF Configure, CheckDeps, Configured, StartInstalling, Kill, End, sessionVars
<1>6. CASE InstallGnat \/ InstallGnarl
  <2>1. PICK l, next : InstallLib(l, next) /\ l \in Libs \cap LibsOf(job)
    BY <1>6, LibOfStep
  <2>2. GetRtsDirs(l, conf[job]) = Wanted(l, job)
    BY <2>1, ChosenHere
  <2>3. phase = "install" /\ step # "open" /\ job \in 1..Len(jobs)
    <3>1. phase = "install" /\ step # "open" /\ job <= Len(jobs)
      BY <2>1 DEF InstallLib, Installing, Libs
    <3>2. job \in Nat \ {0} /\ Len(jobs) \in Nat
      BY DEF Types
    <3> QED
      BY <3>1, <3>2
  <2>4. PICK j : j = jobs[job]
    OBVIOUS
  <2>5. Final(tree, j, conf[job])
    BY <2>3, <2>4 DEF ValuesInv, Defaulted
  <2>6. Determined(tree, j.target, j.profile)
    <3>1. j \in DeterminedJobs(tree)
      BY <2>3, <2>4 DEF Planned
    <3> QED
      BY <2>5, <3>1 DEF DeterminedJobs, Final
  <2>7. l \in Range(LibsFor(j.profile))
    BY <2>1, <2>4 DEF LibsOf, Profile
  <2>8. ~Clash(VersionsIn(l, Wanted(l, job), BoardOf[j.target]))
    BY <2>5, <2>6, <2>7, NothingClashes DEF Wanted
  <2>9. outcome' = outcome
    BY <2>1, <2>2, <2>4, <2>8 DEF InstallLib, Board
  <2> QED
    BY <1>1, <2>9
<1>7. CASE RefuseExisting \/ RemoveExisting \/ MakeDirs
  BY <1>1, <1>7 DEF RefuseExisting, RemoveExisting, MakeDirs, End
<1>8. CASE CopyScripts \/ WriteConfig \/ WriteProjects
  BY <1>1, <1>8 DEF CopyScripts, WriteConfig, WriteProjects
<1>9. CASE Installed \/ BuildProject \/ BuildFails \/ Built
  BY <1>1, <1>9 DEF Installed, BuildProject, BuildFails, Built, End
<1> QED
  BY <1>2, <1>3, <1>4, <1>5, <1>6, <1>7, <1>8, <1>9 DEF Next, Proceed, Install

(* The versions that the values s select for a job.                        *)
VersionsOf(t, j, s) ==
  UNION {VersionsIn(l, {d \in DirsOf(t, l) : Matches(SharedDirs[d].when, s)},
                    BoardOf[j.target]) : l \in Range(LibsFor(j.profile))}

Once(unit, versions) == Cardinality({v \in versions : v[1] = unit}) = 1

(* Exactly one version of an essential unit is in the libraries.           *)
LEMMA OneVersion ==
  ASSUME NEW j, NEW s, Final(tree, j, s), Determined(tree, j.target, j.profile),
         NEW unit \in EssentialUnits(j.profile)
  PROVE  Once(unit, VersionsOf(tree, j, s))
<1> DEFINE values == FinalValues(tree, j.target, j.profile)
           libs == Range(LibsFor(j.profile))
           board == BoardOf[j.target]
           Chosen(l) == VersionsIn(l, {d \in DirsOf(tree, l) : Matches(SharedDirs[d].when, s)}, board)
           Possible(l) == VersionsIn(l, {d \in DirsOf(tree, l) : MaySelect(values, d)}, board)
           Certain(l) == VersionsIn(l, {d \in DirsOf(tree, l) : MustSelect(values, d)}, board)
<1>1. PICK version \in UNION {Certain(l) : l \in libs} :
        {v \in UNION {Possible(l) : l \in libs} : v[1] = unit} = {version}
  <2> DEFINE possible == [l \in libs |-> Possible(l)]
             certain == [l \in libs |-> Certain(l)]
  <2>1. \E version \in UNION {certain[l] : l \in libs} :
          {v \in UNION {possible[l] : l \in libs} : v[1] = unit} = {version}
    BY DEF Determined
  <2>2. /\ UNION {certain[l] : l \in libs} = UNION {Certain(l) : l \in libs}
        /\ UNION {possible[l] : l \in libs} = UNION {Possible(l) : l \in libs}
    <3> HIDE DEF Certain, Possible, libs
    <3> QED
      OBVIOUS
  <2> HIDE DEF possible, certain, Certain, Possible, libs
  <2> QED
    BY <2>1, <2>2
<1>2. \A l : Certain(l) \subseteq Chosen(l) /\ Chosen(l) \subseteq Possible(l)
  BY SelectedVersions
<1>3. PICK versions : versions = VersionsOf(tree, j, s)
  OBVIOUS
<1>4. versions = UNION {Chosen(l) : l \in libs}
  BY <1>3 DEF VersionsOf
<1> HIDE DEF Certain, Possible, Chosen, libs
<1>5. version \in versions
  <2>1. PICK l \in libs : version \in Certain(l)
    BY <1>1
  <2>2. version \in Chosen(l)
    BY <1>2, <2>1
  <2> QED
    BY <1>4, <2>1, <2>2
<1>6. \A v \in versions : v \in UNION {Possible(l) : l \in libs}
  BY <1>2, <1>4
<1>7. {v \in versions : v[1] = unit} = {version}
  BY <1>1, <1>5, <1>6
<1>8. Cardinality({v \in versions : v[1] = unit}) = 1
  BY <1>7, FS_Singleton
<1> QED
  BY <1>3, <1>8 DEF Once

(* So the libraries in the output have what they must have.                *)
LEMMA RightIsOnce ==
  ASSUME NoMixture, RightParts, NoClash
  PROVE  UnitsProvidedOnce
<1> SUFFICES ASSUME NEW n \in DOMAIN disk, Ready(n),
                    NEW unit \in EssentialUnits(disk[n].projects.by.profile)
             PROVE  Cardinality({v \in UNION {VersionsIn(l, disk[n][l].has,
                                                BoardOf[disk[n].projects.by.target]) :
                                                l \in Libs \cap DOMAIN disk[n]} : v[1] = unit}) = 1
  BY DEF UnitsProvidedOnce, NoClash
<1>1. PICK s : \A p \in DOMAIN disk[n] : RightPart(tree, p, disk[n][p], s)
  BY DEF RightParts
<1>2. PICK w : w = disk[n].projects.by
  OBVIOUS
<1>3. "projects" \in DOMAIN disk[n] /\ \A p \in DOMAIN disk[n] : disk[n][p].by = w
  BY <1>2 DEF Ready, NoMixture
<1>4. Final(tree, w, s) /\ Determined(tree, w.target, w.profile)
  BY <1>1, <1>2, <1>3 DEF RightPart
<1>5. disk[n].projects.has = LibsFor(w.profile)
  BY <1>1, <1>2, <1>3 DEF RightPart
<1>6. Range(LibsFor(w.profile)) \subseteq DOMAIN disk[n]
  BY <1>5 DEF Ready
<1>7. Range(LibsFor(w.profile)) \subseteq Libs
  <2>1. Range(<<"gnat", "gnarl">>) \subseteq Libs /\ Range(<<"gnat">>) \subseteq Libs
    BY DEF Range, Libs
  <2> QED
    BY <2>1 DEF LibsFor
<1>8. \A l \in Libs \cap DOMAIN disk[n] :
        /\ l \in Range(LibsFor(w.profile))
        /\ disk[n][l].has = {d \in DirsOf(tree, l) : Matches(SharedDirs[d].when, s)}
  BY <1>1, <1>3 DEF RightPart
<1>9. Libs \cap DOMAIN disk[n] = Range(LibsFor(w.profile))
  BY <1>6, <1>7, <1>8
<1>10. PICK versions : versions =
         UNION {VersionsIn(l, disk[n][l].has, BoardOf[w.target]) : l \in Libs \cap DOMAIN disk[n]}
  OBVIOUS
<1>11. versions = VersionsOf(tree, w, s)
  <2> DEFINE libs == Range(LibsFor(w.profile))
             Wants(l) == {d \in DirsOf(tree, l) : Matches(SharedDirs[d].when, s)}
  <2>1. versions = UNION {VersionsIn(l, disk[n][l].has, BoardOf[w.target]) : l \in libs}
    BY <1>9, <1>10
  <2>2. \A l \in libs : disk[n][l].has = Wants(l)
    BY <1>8, <1>9
  <2> HIDE DEF libs, Wants
  <2>3. versions = UNION {VersionsIn(l, Wants(l), BoardOf[w.target]) : l \in libs}
    BY <2>1, <2>2
  <2> QED
    BY <2>3 DEF libs, Wants, VersionsOf
<1>12. Cardinality({v \in versions : v[1] = unit}) = 1
  <2>1. unit \in EssentialUnits(w.profile)
    BY <1>2
  <2>2. Once(unit, VersionsOf(tree, w, s))
    BY <1>4, <2>1, OneVersion
  <2> QED
    BY <1>11, <2>2 DEF Once
<1> QED
  BY <1>2, <1>10, <1>12

LEMMA StepKeepsUnits ==
  ASSUME VersionsDetermined, Types, OutputInv, Settings, Progress, DescriptorExact,
         UnitsInv, [Next]_vars
  PROVE  UnitsInv'
BY StepKeepsPlanned, StepKeepsValues, StepKeepsRight, StepKeepsNoClash DEF UnitsInv

LEMMA InitUnits == Init => UnitsInv
<1> SUFFICES ASSUME Init PROVE UnitsInv
  OBVIOUS
<1>1. plan = <<>> /\ jobs = <<>> /\ phase = "idle" /\ outcome = ""
  BY DEF Init
<1>2. DOMAIN disk = {}
  <2>1. disk = <<>>
    BY DEF Init
  <2> QED
    BY <2>1
<1>3. Planned
  <2>1. \A S : <<>> \in Seq(S)
    OBVIOUS
  <2> QED
    BY <1>1, <2>1 DEF Planned
<1> QED
  BY <1>1, <1>2, <1>3 DEF UnitsInv, ValuesInv, Begun, Given, Defaulted, RightParts, NoClash

(* When, for each library the sessions are about, the values of its board, *)
(* the requirements and the defaults leave one version of each unit, then  *)
(* no installation ends with two versions in one directory, and no library *)
(* that is ready lacks an essential unit or has two versions of it: the    *)
(* loop, the descriptor, the sharing of names, removals, kills and builds  *)
(* bring nothing else into the output, for every plan of sessions.         *)
THEOREM UnitsComeOnce ==
  ASSUME TreesServePlans, VersionsDetermined
  PROVE  Spec => []UnitsProvidedOnce
<1> DEFINE SInv == BuildInv /\ Settings /\ Progress /\ Ordered /\ DescriptorExact
<1>1. Init => UnitsInv
  BY InitUnits
<1>2. SInv /\ UnitsInv /\ [Next]_vars => UnitsInv'
  BY StepKeepsUnits DEF BuildInv
<1>3. SInv /\ UnitsInv => UnitsProvidedOnce
  BY RightIsOnce DEF BuildInv, OutputInv, UnitsInv
<1>4. Spec => []SInv
  BY SpecSettings
<1> HIDE DEF SInv
<1> QED
  BY <1>1, <1>2, <1>3, <1>4, PTL DEF Spec
=============================================================================

------------------------------- MODULE RtsBuild -------------------------------
(***************************************************************************)
(* build_rts: the run-time libraries of boards, installed from the shared  *)
(* sources and, on request, built.                                         *)
(*                                                                         *)
(* A session is a call of the script.  It first configures all its boards, *)
(* each profile of a board through the loop of RtsDeps; then it installs   *)
(* their libraries one after the other in directories of the output, and   *)
(* builds the installed projects at the end.  Sessions share the output    *)
(* and may be killed.  The part of a run-time library (a subdirectory or   *)
(* the files of one step) is stamped with the session, the target and the  *)
(* profile it was written for.                                             *)
(***************************************************************************)
EXTENDS RtsDescriptor, RtsProfiles

CONSTANT Plans   \* of each tree: sequences of commands, one per session

VARIABLES
  vals, pos, modified, checked,      \* the loop of RtsDeps
  plan,       \* the sessions to come
  session,    \* the number of the session
  command,    \* its arguments
  phase,      \* "idle", "configure", "check", "install" or "build"
  jobs,       \* the run-time libraries it is about
  job, step,  \* the one that is handled, and the step of its installation
  conf,       \* the scenario values of the jobs
  outcome,    \* how the session ended
  disk        \* the run-time libraries in the output, by name

depVars == <<vals, pos, modified, checked>>

sessionVars ==
  <<plan, session, command, phase, jobs, job, step, conf, outcome, disk>>

vars == <<genVars, depVars, sessionVars>>

StartsOf(board) ==
  {amend_rts(board, BaseScenarios(board, profile)) : profile \in Range(board.runtimes)}

AllStarts == UNION {StartsOf(BoardOf[t]) : t \in {t \in Targets : KnownCPU(BoardOf[t])}}

Deps == INSTANCE RtsDeps WITH Rules <- SharedDirs, Starts <- AllStarts

----------------------------------------------------------------------------

(* A VxWorks target alone also stands for its real-time processes. *)
ArgumentsOf(c) ==
  LET board == BoardOf[c.targets[1]]
  IN  IF Len(c.targets) = 1 /\ board.os = "vx7r2cert" /\ ~Trait(board, "rtp")
      THEN <<c.targets[1], c.targets[1] \o "-rtp">>
      ELSE c.targets

RtsName(board, profile) ==
  IF ~IsLegacyFormat(board) THEN profile \o "-" \o board.name
  ELSE IF Trait(board, "rtp") THEN "rts-" \o profile \o "-rtp"
  ELSE "rts-" \o profile

JobsOf(target) ==
  LET board == BoardOf[target]
  IN  [i \in DOMAIN board.runtimes |->
        [target |-> target, profile |-> board.runtimes[i],
         name |-> RtsName(board, board.runtimes[i])]]

JobsFor(c) ==
  LET arguments == ArgumentsOf(c)
  IN  FlattenSeq([i \in DOMAIN arguments |-> JobsOf(arguments[i])])

Commands ==
  [targets : Seq(Targets) \ {<<>>},
   force : BOOLEAN, build : BOOLEAN,
   mortal : BOOLEAN]                 \* whether the session may be killed

Job == [target : Targets, profile : Range(Scenarios["RTS_Profile"]), name : STRING]

Runnable == {c \in Commands : JobsFor(c) \in Seq(Job)}

ASSUME PlansAssumption ==
  \A t \in Trees : Plans[t] \subseteq Seq(Runnable) \ {<<>>}

(* What a directory requires is a value that the variable has, and never   *)
(* another profile.                                                        *)
ASSUME NeedsAssumption ==
  \A d \in DOMAIN SharedDirs : \A v \in DOMAIN SharedDirs[d].needs :
    /\ v \in DOMAIN Scenarios \ {"RTS_Profile"}
    /\ SharedDirs[d].needs[v] # {}
    /\ SharedDirs[d].needs[v] \subseteq Range(Scenarios[v])

Board(j) == BoardOf[jobs[j].target]

Profile(j) == jobs[j].profile

Name(j) == jobs[j].name

LibsFor(profile) ==
  IF profile \in {"embedded", "light-tasking"} THEN <<"gnat", "gnarl">>
  ELSE <<"gnat">>

(* The installed version of each unit of a library that several versions   *)
(* exist of.                                                               *)
VersionsIn(l, chosen, board) ==
  {<<file[1], file[2]>> :
     file \in UNION {{file \in SharedDirs[d].files : board.os \in file[3]} : d \in chosen}}
  \cup {<<unit, "board">> :
          unit \in board.own \cap (IF l = "gnat" THEN {Console} ELSE {BoardSupport})}

Clash(versions) == \E v, w \in versions : v[1] = w[1] /\ v[2] # w[2]

(* The loaders that runtime.xml offers, for the boards with linker scripts *)
(* of their own.                                                           *)
LoadersOf(board) ==
  CASE IsOsTarget(board) -> board.loaders
    [] ~IsOsTarget(board) /\ board.loaders # <<>> -> Append(board.loaders, "USER")
    [] OTHER -> IF board.scripts = {} THEN <<"USER">> ELSE <<"DEFAULT", "USER">>

End(result) ==
  /\ outcome' = result
  /\ phase' = "idle"

----------------------------------------------------------------------------
(* main: arguments and configuration. *)

Start(sessions) ==
  /\ command' = Head(sessions)
  /\ plan' = Tail(sessions)
  /\ session' = session + 1
  /\ phase' = "configure"
  /\ jobs' = JobsFor(Head(sessions))
  /\ job' = 1
  /\ step' = "open"
  /\ conf' = <<>>
  /\ outcome' = ""
  /\ UNCHANGED <<genVars, depVars, disk>>

FirstSession ==
  /\ lib = "installed" /\ session = 0
  /\ \E sessions \in Plans[tree] : Start(sessions)

NextSession ==
  /\ phase = "idle" /\ session > 0
  /\ plan # <<>>
  /\ Start(plan)

(* build_configs and Target.__init__: a processor that is not known ends   *)
(* the session before anything is installed.                               *)
Configure ==
  /\ phase = "configure" /\ job <= Len(jobs)
  /\ IF KnownCPU(Board(job))
     THEN /\ Deps!Begin(amend_rts(Board(job), BaseScenarios(Board(job), Profile(job))))
          /\ phase' = "check"
          /\ UNCHANGED outcome
     ELSE End("unexpected cpu") /\ UNCHANGED depVars
  /\ UNCHANGED <<genVars, plan, session, command, jobs, job, step, conf, disk>>

CheckDeps ==
  /\ phase = "check"
  /\ Deps!Meet \/ Deps!NextPass
  /\ UNCHANGED <<genVars, sessionVars>>

Configured ==
  /\ phase = "check"
  /\ Deps!EndCheck
  /\ conf' = Append(conf, vals)
  /\ job' = job + 1
  /\ phase' = "configure"
  /\ UNCHANGED <<genVars, plan, session, command, jobs, step, outcome, disk>>

(* Plausible bug: the jobs are counted from zero.                          *)
StartInstalling_FromZero ==
  /\ phase = "configure" /\ job > Len(jobs)
  /\ phase' = "install"
  /\ job' = 0
  /\ UNCHANGED <<genVars, depVars, plan, session, command, jobs, step, conf, outcome, disk>>

StartInstalling ==
  /\ phase = "configure" /\ job > Len(jobs)
  /\ phase' = "install"
  /\ job' = 1
  /\ UNCHANGED <<genVars, depVars, plan, session, command, jobs, step, conf, outcome, disk>>

----------------------------------------------------------------------------
(* Installer.install, for one library. *)

Installing(s) == phase = "install" /\ job <= Len(jobs) /\ step = s

installUnchanged == <<genVars, depVars, plan, session, command, jobs>>

Writer(j) == [session |-> session, target |-> jobs[j].target, profile |-> Profile(j)]

Put(part, writer, content) ==
  disk' = [disk EXCEPT ![Name(job)] =
             Update(@, [p \in {part} |-> [by |-> writer, has |-> content]])]

RefuseExisting ==
  /\ Installing("open")
  /\ Name(job) \in DOMAIN disk
  /\ ~command.force
  /\ End("already exists")
  /\ UNCHANGED <<installUnchanged, job, step, conf, disk>>

(* Plausible bug: what is there is removed without being asked to.         *)
Remove_Unforced ==
  /\ Installing("open")
  /\ Name(job) \in DOMAIN disk
  /\ disk' = [n \in DOMAIN disk \ {Name(job)} |-> disk[n]]
  /\ UNCHANGED <<installUnchanged, phase, job, step, conf, outcome>>

(* shutil.rmtree goes through the files in no particular order. *)
RemoveExisting ==
  /\ Installing("open")
  /\ Name(job) \in DOMAIN disk
  /\ command.force
  /\ LET old == disk[Name(job)]
     IN  \/ \E part \in DOMAIN old :
              disk' = [disk EXCEPT ![Name(job)] =
                         [p \in DOMAIN old \ {part} |-> old[p]]]
         \/ /\ DOMAIN old = {}
            /\ disk' = [n \in DOMAIN disk \ {Name(job)} |-> disk[n]]
  /\ UNCHANGED <<installUnchanged, phase, job, step, conf, outcome>>

(* The variables a library depends on and the configuration leaves open    *)
(* get their first value; then come the directories for user sources.      *)
DefaultsFor(libs) ==
  [v \in UNION {Range(OrderOf[tree][libs[i]]) : i \in DOMAIN libs} |->
      Head(ValuesOf(tree, v))]

(* Plausible bug: the libraries are installed over what is there.          *)
MakeDirs_Over ==
  /\ Installing("open")
  /\ conf' = [conf EXCEPT ![job] = Update(DefaultsFor(LibsFor(Profile(job))), @)]
  /\ disk' = disk @@ [n \in {Name(job)} |-> <<>>]
  /\ step' = "gnat"
  /\ UNCHANGED <<installUnchanged, job, phase, outcome>>

MakeDirs ==
  /\ Installing("open")
  /\ Name(job) \notin DOMAIN disk
  /\ LET libs == LibsFor(Profile(job))
     IN  IF Range(libs) \subseteq DOMAIN descriptor
         THEN /\ conf' = [conf EXCEPT ![job] = Update(DefaultsFor(libs), @)]
              /\ disk' = Update(disk, [n \in {Name(job)} |-> <<>>])
              /\ step' = "gnat"
              /\ UNCHANGED <<phase, outcome>>
         ELSE End("no sources for the library") /\ UNCHANGED <<step, conf, disk>>
  /\ UNCHANGED <<installUnchanged, job>>

(* Plausible bug: a branch is taken when its variables are set.            *)
GetRtsDirs_IfSet(l, scenarios) ==
  {entry[2] : entry \in
     {entry \in descriptor[l] : DOMAIN entry[1] \subseteq DOMAIN scenarios}}

(* _get_rts_dirs: the directories of the branches that agree with the      *)
(* scenario values.                                                        *)
GetRtsDirs(l, scenarios) ==
  {entry[2] : entry \in
     {entry \in descriptor[l] :
        \A v \in DOMAIN entry[1] :
          v \in DOMAIN scenarios /\ scenarios[v] = entry[1][v]}}

InstallLib(l, next) ==
  /\ Installing(l)
  /\ LET chosen == GetRtsDirs(l, conf[job])
     IN  IF Clash(VersionsIn(l, chosen, Board(job)))
         THEN End("clash") /\ UNCHANGED <<step, disk>>
         ELSE Put(l, Writer(job), chosen) /\ step' = next /\ UNCHANGED <<phase, outcome>>
  /\ UNCHANGED <<installUnchanged, job, conf>>

(* Plausible bug: libgnarl is forgotten.                                   *)
InstallGnat_Only == InstallLib("gnat", "ld")

InstallGnat == InstallLib("gnat", IF Len(LibsFor(Profile(job))) = 2 THEN "gnarl" ELSE "ld")

InstallGnarl == InstallLib("gnarl", "ld")

CopyScripts ==
  /\ Installing("ld")
  /\ Put("ld", Writer(job), Board(job).scripts)
  /\ step' = "config"
  /\ UNCHANGED <<installUnchanged, phase, job, conf, outcome>>

WriteConfig ==
  /\ Installing("config")
  /\ Put("config", Writer(job), LoadersOf(Board(job)))
  /\ step' = "projects"
  /\ UNCHANGED <<installUnchanged, phase, job, conf, outcome>>

WriteProjects ==
  /\ Installing("projects")
  /\ Put("projects", Writer(job), LibsFor(Profile(job)))
  /\ step' = "open"
  /\ job' = job + 1
  /\ UNCHANGED <<installUnchanged, phase, conf, outcome>>

----------------------------------------------------------------------------
(* main: the end of a session. *)

Installed ==
  /\ phase = "install" /\ job > Len(jobs)
  /\ IF command.build
     THEN phase' = "build" /\ job' = 1 /\ UNCHANGED outcome
     ELSE End("success") /\ UNCHANGED job
  /\ UNCHANGED <<installUnchanged, step, conf, disk>>

(* gprbuild on the project of a job: it builds what is in the directory,   *)
(* and its failure ends the session.                                       *)
BuildProject ==
  /\ phase = "build" /\ job <= Len(jobs)
  /\ Put("adalib", disk[Name(job)].projects.by, {})
  /\ job' = job + 1
  /\ UNCHANGED <<installUnchanged, phase, step, conf, outcome>>

BuildFails ==
  /\ phase = "build" /\ job <= Len(jobs)
  /\ End("build failed")
  /\ UNCHANGED <<installUnchanged, job, step, conf, disk>>

Built ==
  /\ phase = "build" /\ job > Len(jobs)
  /\ End("success")
  /\ UNCHANGED <<installUnchanged, job, step, conf, disk>>

(* A session is interrupted, between any two steps. *)
Kill ==
  /\ phase # "idle" /\ command.mortal
  /\ End("killed")
  /\ checked' = TRUE
  /\ UNCHANGED <<genVars, vals, pos, modified, plan, session, command, jobs, job,
                 step, conf, disk>>

----------------------------------------------------------------------------

Init ==
  /\ GenInit
  /\ Deps!DepsInit
  /\ plan = <<>>
  /\ session = 0
  /\ command = [targets |-> <<>>, force |-> FALSE, build |-> FALSE, mortal |-> FALSE]
  /\ phase = "idle"
  /\ jobs = <<>>
  /\ job = 1
  /\ step = "open"
  /\ conf = <<>>
  /\ outcome = ""
  /\ disk = <<>>

Install ==
  \/ RefuseExisting \/ RemoveExisting \/ MakeDirs \/ InstallGnat \/ InstallGnarl
  \/ CopyScripts \/ WriteConfig \/ WriteProjects

Proceed ==
  \/ Generate /\ UNCHANGED <<depVars, sessionVars>>
  \/ Configure \/ CheckDeps \/ Configured \/ StartInstalling
  \/ Install \/ Installed
  \/ BuildProject \/ BuildFails \/ Built

Next == FirstSession \/ NextSession \/ Proceed \/ Kill

Spec == Init /\ [][Next]_vars

(* The scripts are sequential programs: while one runs, it takes steps. *)
FairSpec == Spec /\ WF_vars(Proceed)

----------------------------------------------------------------------------

Parts == {"gnat", "gnarl", "ld", "config", "projects", "adalib"}

TypeOK ==
  /\ tree \in Trees /\ lib \in Libs \cup {"installed"}
  /\ phase \in {"idle", "configure", "check", "install", "build"}
  /\ step \in {"open", "gnat", "gnarl", "ld", "config", "projects"}
  /\ session \in Nat /\ job \in 1..Len(jobs) + 1
  /\ \A n \in DOMAIN disk : DOMAIN disk[n] \subseteq Parts

(* The library has its project files and all that is written before them.  *)
Ready(n) ==
  /\ {"ld", "config", "projects"} \subseteq DOMAIN disk[n]
  /\ Range(disk[n].projects.has) \subseteq DOMAIN disk[n]

InstalledDirs(n) ==
  UNION {disk[n][l].has : l \in Libs \cap DOMAIN disk[n]}

(* A directory of sources is never installed without the ones it requires: *)
(* for each switch it requires, the directory of that feature is there     *)
(* too, although the values were set by a board, changed by the loop of    *)
(* check_deps, completed by defaults and read back through the descriptor. *)
RequirementsMet ==
  \A n \in DOMAIN disk : Ready(n) =>
    \A d \in InstalledDirs(n) : \A v \in DOMAIN SharedDirs[d].needs :
      \E e \in InstalledDirs(n) :
        v \in DOMAIN SharedDirs[e].when /\ SharedDirs[e].when[v] = Yes

(* What the table of directories must be like for that.  First, for each   *)
(* switch that a directory requires, libgnat has a directory of that       *)
(* feature whose other conditions follow from those of the first one; at   *)
(* most one variable may choose between several.                           *)
Follows(d, e, v) ==
  \/ v \in DOMAIN SharedDirs[d].when /\ SharedDirs[d].when[v] \subseteq SharedDirs[e].when[v]
  \/ v \in DOMAIN SharedDirs[d].needs /\ SharedDirs[d].needs[v] \subseteq SharedDirs[e].when[v]

FeaturesExist(t) ==
  \A d \in DirsOf(t, "gnat") \cup DirsOf(t, "gnarl") : \A v \in DOMAIN SharedDirs[d].needs :
    \E w \in DOMAIN Scenarios \cap Range(OrderOf[t]["gnat"]) : \A x \in Range(ValuesOf(t, w)) :
      \E e \in DirsOf(t, "gnat") :
         /\ v \in DOMAIN SharedDirs[e].when /\ SharedDirs[e].when[v] = Yes
         /\ \A u \in DOMAIN SharedDirs[e].when :
               Follows(d, e, u) \/ (u = w /\ x \in SharedDirs[e].when[u])

(* Second, a default value, which is set after the loop, selects no        *)
(* directory with a requirement that was not there without it.             *)
DefaultsRequireNothing(t) ==
  \A d \in DOMAIN SharedDirs : DOMAIN SharedDirs[d].needs # {} =>
    \E r \in DOMAIN SharedDirs :
       /\ \A v \in DOMAIN SharedDirs[r].when :
             /\ v \in DOMAIN SharedDirs[d].when
             /\ SharedDirs[d].when[v] \subseteq SharedDirs[r].when[v]
             /\ Head(ValuesOf(t, v)) \notin SharedDirs[d].when[v]
       /\ \A v \in DOMAIN SharedDirs[d].needs :
             /\ v \in DOMAIN SharedDirs[r].needs
             /\ SharedDirs[r].needs[v] \subseteq SharedDirs[d].needs[v]

TableProvides == \A t \in Trees : FeaturesExist(t) /\ DefaultsRequireNothing(t)

(* Units that the run-time libraries of a profile cannot do without, among *)
(* those that sources.py has in several versions.                          *)
EssentialUnits(profile) ==
  {"a-elchha.adb", "a-elchha.ads", "a-except.adb", "a-nllefu.ads",
   "a-strsup.adb", "a-textio.adb", "g-io.ads", "i-cexten.ads",
   "s-atopri.ads", "s-dorepr.adb", "s-memory.adb", "s-parame.ads",
   "s-secsta.adb", "s-secsta.ads"}
  \cup (IF LibsFor(profile) = <<"gnat">> THEN {}
        ELSE {"s-musplo.adb", "s-osinte.ads", "s-taskin.ads", "s-tpobop.adb"})
  \cup (IF profile # "embedded" THEN {}
        ELSE {"a-decima.ads", "s-except.ads", "s-excmac.adb", "s-init.ads",
              "s-interr.adb", "s-stratt.adb", "s-traceb.adb"})

(* A unit comes from a different directory, in a different version, for    *)
(* each processor, profile and operating system.  Whatever the board, the  *)
(* conditions of the directories select exactly one version of each unit,  *)
(* over both libraries: no installation ends with two versions in one      *)
(* directory (exit 5 of _copy), and none is complete without the unit.     *)
UnitsProvidedOnce ==
  /\ outcome # "clash"
  /\ \A n \in DOMAIN disk : Ready(n) =>
       LET writer == disk[n].projects.by
           versions ==
             UNION {VersionsIn(l, disk[n][l].has, BoardOf[writer.target]) :
                      l \in Libs \cap DOMAIN disk[n]}
       IN  \A unit \in EssentialUnits(writer.profile) :
             Cardinality({v \in versions : v[1] = unit}) = 1

(* What the boards and the table must be like for that.  The variables of  *)
(* a library have the values that its board starts with, those that        *)
(* directories require, or else their defaults ...                         *)
StartOf(target, profile) ==
  amend_rts(BoardOf[target], BaseScenarios(BoardOf[target], profile))

Required(v) ==
  UNION {SharedDirs[d].needs[v] :
           d \in {d \in DOMAIN SharedDirs : v \in DOMAIN SharedDirs[d].needs}}

VariablesOf(t, profile) ==
  LET libs == LibsFor(profile) IN UNION {Range(OrderOf[t][libs[i]]) : i \in DOMAIN libs}

FinalValues(t, target, profile) ==
  LET start == StartOf(target, profile)
  IN  [v \in DOMAIN start \cup VariablesOf(t, profile) |->
         Required(v) \cup {IF v \in DOMAIN start THEN start[v] ELSE Head(ValuesOf(t, v))}]

MaySelect(values, d) ==
  \A v \in DOMAIN SharedDirs[d].when \cap DOMAIN values :
    SharedDirs[d].when[v] \cap values[v] # {}

MustSelect(values, d) ==
  \A v \in DOMAIN SharedDirs[d].when :
    v \in DOMAIN values /\ values[v] \subseteq SharedDirs[d].when[v]

(* ... and whichever of them: no library may have two versions of a unit,  *)
(* and the two must have one of an essential unit and may have no other.   *)
Determined(t, target, profile) ==
  LET values == FinalValues(t, target, profile)
      libs == Range(LibsFor(profile))
      possible == [l \in libs |->
        VersionsIn(l, {d \in DirsOf(t, l) : MaySelect(values, d)}, BoardOf[target])]
      certain == [l \in libs |->
        VersionsIn(l, {d \in DirsOf(t, l) : MustSelect(values, d)}, BoardOf[target])]
  IN  /\ \A l \in libs : ~Clash(possible[l])
      /\ \A unit \in EssentialUnits(profile) :
           \E version \in UNION {certain[l] : l \in libs} :
             {v \in UNION {possible[l] : l \in libs} : v[1] = unit} = {version}

DeterminedJobs(t) ==
  {j \in Job : KnownCPU(BoardOf[j.target]) => Determined(t, j.target, j.profile)}

VersionsDetermined ==
  \A t \in Trees : \A sessions \in Plans[t] : \A i \in DOMAIN sessions :
    JobsFor(sessions[i]) \in Seq(DeterminedJobs(t))

(* The session has installed the library of the job, and nothing has       *)
(* replaced a part of it: its directories are those whose own conditions   *)
(* hold of the final scenario values.                                      *)
Complete(j) ==
  LET libs == Range(LibsFor(Profile(j)))
      parts == libs \cup {"ld", "config", "projects"}
                \cup (IF command.build THEN {"adalib"} ELSE {})
  IN  /\ Name(j) \in DOMAIN disk
      /\ DOMAIN disk[Name(j)] = parts
      /\ \A part \in parts : disk[Name(j)][part].by = Writer(j)
      /\ \A l \in libs :
           disk[Name(j)][l].has =
             {d \in DirsOf(tree, l) : Matches(SharedDirs[d].when, conf[j])}

(* The sessions are about run-time libraries that the tree was generated   *)
(* for: it has the values their boards start with.  Nothing in the code    *)
(* makes sure of it.                                                       *)
KnownTo(t, scenarios) ==
  \A v \in DOMAIN scenarios \cap DOMAIN Scenarios : scenarios[v] \in Range(ValuesOf(t, v))

ServedJobs(t) ==
  {j \in Job : LET board == BoardOf[j.target]
               IN  KnownCPU(board) =>
                     KnownTo(t, amend_rts(board, BaseScenarios(board, j.profile)))}

TreesServePlans ==
  \A t \in Trees : \A sessions \in Plans[t] : \A i \in DOMAIN sessions :
    JobsFor(sessions[i]) \in Seq(ServedJobs(t))

(* When the script says "runtimes successfully installed", then under each *)
(* name it has used is a complete run-time library: that of the last job   *)
(* of that name, whatever was there before and whatever was interrupted.   *)
SuccessIsComplete ==
  outcome = "success" =>
    \A j \in DOMAIN jobs :
      (\A k \in DOMAIN jobs : k > j => Name(k) # Name(j)) => Complete(j)

(* A directory never holds parts of two run-time libraries, although       *)
(* targets share names, sessions are killed and others follow.             *)
NoMixture ==
  \A n \in DOMAIN disk : \A part, other \in DOMAIN disk[n] :
    disk[n][part].by = disk[n][other].by

(* Without --force nothing that an earlier session has written is changed, *)
(* removed or completed (the test of os.path.exists in install).           *)
EarlierRuntimesKept ==
  [][~command.force =>
       \A n \in DOMAIN disk : \A part \in DOMAIN disk[n] :
         disk[n][part].by.session < session =>
           n \in DOMAIN disk' /\ disk'[n] = disk[n]]_vars

(* The recursion of the descriptor, the loop of check_deps, whose          *)
(* requirements may wake each other up, and the installation end.          *)
EveryRunEnds ==
  (lib \in Libs \/ phase # "idle") ~> (lib = "installed" /\ phase = "idle")
=============================================================================

# A verification project for nextcode

nextcode gathers the parts of a verifying Ada tool chain: the proof tool
(`src/src`: gnatprove, gnat2why, their wrappers), its run-time support and
containers (`src/runtime`) with the scripts that build the run-time libraries of some
hundred and thirty boards, and the GNAT-LLVM code generator
(`src/llvm-interface`).  This directory holds TLA+ models of the parts that keep
state over many steps, the TLC runs that check them on small instances and the
proofs, checked by TLAPS, of what matters most for every instance.

* `tlc -config X.cfg M` runs one of the model-checking instances below;
* `tlapm M.tla` checks the proofs of a `*_proofs` module;
* `PROJECT.json` maps every definition to the lines it models, and lists runs,
  hazards, findings, theorems and, for each property, a plausible bug of the code
  (an operator marked "Plausible bug" in the modules) that breaks it.

## 1. Inventory

### 1.1 The components

| Component | State it keeps | Operations | What makes it correct |
| --- | --- | --- | --- |
| **Proof run** (`gnatprove.adb`, `spark_semaphore_wrapper.adb`, `semaphores_c.c`) | the step of the plan, the exit status, a named counting semaphore, a why3server, the processes below it | the two preliminary phases, creation and removal of server and semaphore, the call of gprbuild, the report; in the wrapper open, wait, spawn, release, exit | never more than `-j` provers at a time, no slot lost or invented, the run ends, a successful run leaves nothing behind and reports nothing outdated |
| **gnat2why driver** (`gnat2why-driver.adb`) | `Output_File_Map` from process ids to temporary files, the position in the list of entities, the result file of the unit | generation of the VCs of an entity, `Run_Gnatwhy3`, `Collect_One_Result`, `Collect_Results`, early exits, `Create_JSON_File` | the map is exactly the set of children, every result is parsed once, the result file says "proof" only when all was parsed |
| **VC bookkeeping and claims** (`gnat2why-error_messages.adb`, `gnat2why-assumptions.adb`) | `VC_Table`, `VC_Set_Table`, `Claims` | registering entities and VCs, marking results, static results, claiming | the set of an entity is what is not proved yet, nothing is deleted twice, the claims are the proved entities |
| **Formal doubly linked lists** (`spark-containers-formal-doubly_linked_lists.ad[bs]`, `spark-containers-stable_sorting.adb`) | a node array with two-way links and a free store that is a suffix or a chain | some twenty-five subprograms that change one or two lists | the links and the free store stay intact, and each call meets its contract, which the clients' proofs assume and nothing proves |
| Configuration and command line (`configuration.adb`) | the options | parsing, writing the options of gnat2why | consistent options |
| Report (`spark_report.adb`, `report_database.adb`) | tables of results | reading the result files, formatting | says what the result files say |
| **Result cache** (`spark_memcached_wrapper.adb`, `filecache_client.adb`, `memcache_client.adb`) | a directory or a server shared by concurrent wrappers; in each wrapper a connection, a temporary file, the output of its command | look-up, run of the command, store, print | a hit is all that a run of a command with the same key printed; the cache costs no result; wrappers end |
| GDB stub (`powerpc/gdbstub`) | packet buffer, saved registers | reading, answering and executing packets | survives what an unreliable line delivers |
| Board clocks and alarms (`s-bbsuti__riscv_clint.adb`, `s-bbbosu__*.adb`) | timer registers, pending interrupts | read the clock, set and clear the alarm | the clock never goes back, an alarm is neither missed nor early |
| RP2040 multicore start (`s-bbsumu__rp2040.adb`) | the FIFOs between two cores | launch of core 1, poking | core 1 starts once, with the right vector |
| Context switch (`s-bcpcst__*`) | saved contexts | machine-level switch | - |
| Other containers and lemmas (`src/runtime/lib`) | maps, sets, vectors | as for the lists | as for the lists |
| Flow analysis (`src/src/flow`) | graphs of one unit | one sequential analysis | - |
| Marking and ownership (`src/src/spark`, `gnat2why-borrow_checker.adb`) | marks, permissions | one sequential analysis | - |
| Translation to Why3 (`src/src/why`) | symbol tables | generation of terms | - |
| Counterexamples (`src/src/counterexamples`) | an interpreter's environment | checking of candidates | - |
| GNAT-LLVM (`src/llvm-interface`) | LLVM values and types | code generation | - |
| **Shared sources and descriptor** (`rts_sources/sources.py`, `rts_sources/__init__.py`, `gen_rts_sources.py`) | the table of directories with conditions and requirements; in the generator the rules of a source tree, and the `dirs` and `env` that all calls of a recursion share | parsing of rules, selection for a source tree, writing of the descriptor, installation of the tree | each directory is in the descriptor at exactly the branches its rule admits |
| **Boards** (`cortexm.py` and the other architecture packages, `target.py`, `archsupport.py`) | the properties of each board | construction, `amend_rts` | consistent with the conditions of the shared sources |
| **Profiles and dependencies** (`rts_sources/profiles.py`) | the scenario values of a run-time library | the values of each profile, the loop `check_deps` | the loop ends, with all requirements met |
| **Installer** (`build_rts.py`, `installer.py`, `files_holder.py`) | the output directory, which outlives the script | configuration, removal, installation in parts, build | success means complete libraries, one version of each unit, nothing mixed, nothing of an earlier session lost without `--force` |
| Memory maps (`arm/memmap.py`) | a translation table | insertion of regions, output | maps what the regions say |
| Other scripts (`docgen.py`, `install.py`, `llvm/py`, `scripts`) | - | text generation, filters | - |

### 1.2 How they interact

gnatprove sets `GNATPROVE_SEMAPHORE` and runs gprbuild, which runs up to `-j`
gnat2why processes.  Each gnat2why spawns, without waiting, one wrapper for every
entity with checks; the wrapper opens the semaphore by name, waits for a slot, runs
gnatwhy3 (through the cache wrapper, when a cache is configured) and returns the
slot.  gnatwhy3 writes its results to the temporary file that gnat2why gave it as
standard output.  gnat2why takes the children in the order in which they end, parses
their files, updates the bookkeeping of VCs and finally writes the result file of the
unit, from which gnatprove builds the report.  Communication is by exit statuses,
files and the semaphore only.

The run-time scripts work in two stages.  `gen_rts_sources` installs the shared sources
of a platform (the source profile) once, with the descriptor `rts-sources.json`.
`build_rts`, called as often as one likes on the same output directory, constructs the
boards it is given, computes the scenario values of each of their profiles, and walks
through the descriptor to find the directories to copy.  The two agree on the table of
`sources.py` only: `check_deps` works on the table, the installer on the descriptor.

The containers are a library: a client's proofs use the contracts of its
specification, while the body is outside the proved subset.  The run-time parts serve
a kernel that is not in the repository.

### 1.3 What is hard

* *Concurrency*: gnat2why processes and wrappers of several units around one semaphore;
  collection of results in the middle of generation.
* *Failure*: wrappers that are killed, gnatwhy3 that fails, units that stop early, a
  gnatprove that was killed before and left its semaphore or its result files.
* *Ordering and termination*: who waits for whom, and whether it ends.
* *Representation*: a list whose free store has two encodings, and aliasing cases of
  neighbouring nodes.
* *Configuration*: conditions over some seventy variables select one version of each unit
  for every board and profile; requirements change the values that conditions look at.
* *Shared objects in a recursion*, which each call changes and must restore.
* *Crash and restart*: a session of `build_rts` that is killed, or fails in the middle of
  an installation, and the next one that meets what it left.
* *Hardware*: registers that change between two accesses of a driver.

The list `hazards` of `PROJECT.json` has each of them at its line, with the properties
that would catch it, or with the reason why no property does yet.

## 2. The modules

| Module | What it is | Built on |
| --- | --- | --- |
| `ProofRun` | one gnatprove run with all its processes | - |
| `ProofRunMC` | instances of it | `ProofRun` |
| `ProofRun_proofs` | theorems about it | `ProofRun` |
| `ProofClaims` | the bookkeeping inside one gnat2why | - |
| `ProofClaimsMC`, `ProofClaims_proofs` | instances, theorems | `ProofClaims` |
| `FormalLists` | operations of the list package on the node array, as operators | - |
| `AbstractLists` | the contracts of the package: what a call does to Model and Positions | - |
| `ListPair` | a program that makes every legal call on its lists, and the mapping of representation to Model and Positions | `FormalLists`, `AbstractLists` (refinement) |
| `ListPairMC` | instances of it | `ListPair` |
| `FormalLists_proofs` | what each operation keeps, for one list or two | `FormalLists` |
| `ListPair_proofs` | theorems about the program and its refinement of the contracts | `ListPair`, `FormalLists_proofs` |
| `ResultCache` | wrappers around gnatwhy3 and the provers that share a cache | - |
| `ResultCacheMC`, `ResultCache_proofs` | instances, theorems | `ResultCache` |
| `RtsSources` | the scenario variables and the table of shared directories | - |
| `RtsRules` | matching of rules against scenario values | - |
| `RtsBoards` | every board that `build_configs` knows, as a record | - |
| `RtsProfiles` | the scenario values of a board and a profile | `RtsSources`, `RtsRules`, `RtsBoards` |
| `RtsDeps` | the loop of `check_deps`, for any table | `RtsRules` |
| `RtsDescriptor` | the generator of the descriptor | `RtsSources`, `RtsRules` |
| `RtsBuild` | sessions of `build_rts` on one output directory | `RtsDescriptor`, `RtsProfiles`, an instance of `RtsDeps` (composition) |
| `RtsBuildMC` | the sessions that are checked | `RtsBuild` |
| `RtsDeps_proofs`, `RtsDescriptor_proofs`, `RtsBuild_proofs` | theorems | the module of that name |

### 2.1 `ProofRun`

A *job* is a gnatwhy3 run, named by its unit and the position of its entity.

| Variable | In the code |
| --- | --- |
| `gnatprove`, `status` | the step of `Execute_Step`'s plan; the status it ends with |
| `sem` | the POSIX semaphore: whether its name is bound, and its value |
| `unit`, `next` | where `GNAT_To_Why` of a unit has come to; the loop of `Translate_CUnit` |
| `Output_File_Map` | the map, as its set of keys |
| `wrapper`, `prover`, `output` | the child process, gnatwhy3 below it, and the temporary file |
| `slot` | who took a slot and did not return it (a history variable) |
| `parsed`, `json` | what went through `Parse_Why3_Results`; the result file, `stale` when it is of an earlier run |
| `kills` | number of kills, bounded by `MaxKills` |

Each action is a system call or what happens between two of them, since that is where
other processes interleave.  gprbuild, gnatwhy3 and the kill of a wrapper are external
and marked so in the map.  gprbuild starts a unit only with fewer than `-j` processes
alive, stops starting units after a failure without `-k`, and waits for all of them.
A child that is started while the semaphore is not used is gnatwhy3 itself.

`sem` starts with any value, named or not, and `json` with `stale` files, because the
process identifier in the name of the semaphore may be that of a gnatprove that was
killed.  `Spawn_VC_Server_And_Semaphore` deletes before it creates; the mutant
`Reuse_Semaphore` does not, and invents or loses slots.

### 2.2 `ProofClaims`

Generation registers entities and VCs one by one; a static result is marked within the
same call.  With `MaxSubprocesses` children, or at the end, a child is collected, all
its results at once: `Mark_Subprograms_With_No_VC_As_Proved` over all the keys, then
the results.  Four kinds of VC are told apart, because the code does: a check, a
warning (kept out of the sets), a loop invariant (one id, two results, the first of
which is ignored) and a static check.  `raised` records that `Delete` would have raised
Constraint_Error.

### 2.3 `FormalLists`, `AbstractLists`, `ListPair`

`FormalLists` follows the body statement by statement at the level of nodes: which
links are written, in which branch, and what is read before it is overwritten (for the
exchange of neighbours, for instance).  Loops are functions of the number of
iterations, and the recursion of the sort is one of its depth.  `AbstractLists`
follows the contracts of the specification: `Model` (the elements) and `Positions` (the
cursors) of a list are one sequence of pairs, and each operation is a relation
between the old and the new sequences.  Where a contract leaves something open (the
order in which `Splice` adds elements, the cursors after `Assign`), so does the
relation.  `ListPair` makes every call whose precondition holds on two lists, and
`MeetsContracts` is the abstract specification under the mapping that walks from `First`
to `Last`.

### 2.4 `ResultCache`

A wrapper looks its command up in the cache, prints what it finds, or runs the command,
stores the output and prints it.

| Variable | In the code |
| --- | --- |
| `kind` | the client that `Init_Client` returns: `Filecache` or `Cache_Connection` |
| `store` | the files of the cache directory, or the values of the server |
| `pc` | where the wrapper is in its main block, in `Set` or in `Get` |
| `conn` | its socket: `error` after the server refused a get, `closed` in good order, `reset` |
| `request`, `reply`, `got` | what is on the way to the server; what it sent; how much of that was received |
| `temp` | the content of the temporary file of `Filecache_Client.Set` |
| `msg`, `ran`, `status`, `stdout` | the output to be stored and printed; the run it comes from (a history variable); the exit status; what was printed |

Creating, writing, renaming and deleting the temporary file are steps of their own, each
of which may fail as the code lets it fail: the results of `Rename_File` and
`Delete_File` are not used, a write may be short, and without a file there is no name to
delete.  `Receive_Socket` returns any non-empty part of what the server has sent.  An
output is a sequence of texts, and an answer of the server a sequence of texts and
protocol words, so that `Payload` and the tests for the end marker and for STORED act
on the answer that was received so far and not on what was sent.

The server is external: it answers, refuses with an error line, evicts, and closes
connections.  A key is the concatenation that is hashed; SHA1 itself is taken to be
injective.  That outputs do not contain the end marker is an assumption of the code
(`memcache_client.adb:46-47`) and of the model.

### 2.5 The run-time libraries

**The table** (`RtsSources`) has all the directories of `sources.py` in their order, each
with its `conditions` (`when`), its `requires` (`needs`) and the source profiles it has
files for.  Of the files it lists those that several directories install under one
name: which of these versions a library gets is what the conditions are for.  The other
files exist once, whatever is selected.

**The boards** (`RtsBoards`) follow the classes: the record of a class is derived from
that of its parent.  A trait is a property that differs from its default in
`TargetConfiguration`.  `BoardOf` is `build_configs`, for all names it accepts; the
prefixes (`stm32...`, `sam...`) are represented by the boards their configuration tables
have.

**The generator** (`RtsDescriptor`): `RuleIn` is `Rule.__init__` in a tree, which drops the
values that the tree does not know and makes a rule without values invalid; `OrderFor` is
the order of the variables, by their use (variables of one rule with equal use keep an
arbitrary order, on which the result does not depend).  The recursion
`dump_sources_json` is a stack of frames:

| Variable | In the code |
| --- | --- |
| `tree` | the arguments `--source-profile` and `--rts-profile` |
| `lib`, `order` | `libname` and its sorted `lib_scenarios` |
| `env`, `dirs` | the two objects shared by all calls |
| `stack` | of each call: the index of its first variable, of the current one, the values left, `pruned` |
| `entering` | a call has been made and has not looked at its branch yet |
| `descriptor` | the JSON tree, as pairs of a branch and a directory |

**The loop** (`RtsDeps`): a step is the next directory whose requirement is not met, the
start of another pass, or the end.

**The sessions** (`RtsBuild`): a session first constructs all its boards, which runs the
loop for each profile, then installs one library after the other.

| Variable | In the code |
| --- | --- |
| `plan`, `session`, `command` | the calls of the script to come, the number of this one, its arguments |
| `jobs`, `job` | the run-time libraries of its boards, by board and profile, with the name of their directory; the one at work |
| `step` | how far its installation has come |
| `conf` | `rts_vars` of the jobs, completed with the defaults when they are installed |
| `disk` | the output: of each directory its parts (`gnat`, `gnarl`, `ld`, configuration files, projects, `adalib`), each with what was put there and a stamp: the session, target and profile it was written for (the stamp is a history variable) |
| `outcome` | how the last session ended |

A step of the installation writes one part; `shutil.rmtree` removes the parts in any
order.  A kill falls between any two steps, and the output is all that survives it.
gprbuild succeeds or fails; `adalib` takes the stamp of the project it was built from.
`VersionsIn` and `Clash` are the comparison in `_copy`, for the units that have versions.

## 3. The runs

| Run | Instance | Shows |
| --- | --- | --- |
| `proof_run` | 2 units of 2 entities, `-j 2`, at most 2 children, 1 kill, `-k` | all safety properties of the proof run |
| `proof_run_nosem` | 3 units of 2 entities, `-j 2`, no semaphores | the same where gnat2why runs gnatwhy3 itself: `MustCollectFirst` bounds it by one child |
| `proof_run_live` | 3 units of 1 entity, `-j 2`, 1 kill, no `-k` | the run ends and every waiter is served |
| `proof_run_missing` | gnatwhy3 not on the path | *violation* of `Terminates`, see section 5 |
| `claims` | 2 entities, up to 3 VCs each, all kinds, 1 child | the bookkeeping |
| `claims_static` | 1 entity, 2 VCs | *violation* of `ClaimsAreProved`, see section 5 |
| `lists` | capacities 3 and 2, 2 elements | representation invariants and contracts for every sequence of calls |
| `lists_merge`, `lists_splice` | capacities 3 and 2, 3 and 1 | *violations*, see section 5 |
| `cache` | 2 wrappers of one key and one of another, 1 kill, 1 closed connection, empty and two-text outputs | the safety properties of the cache, with a directory and with a server |
| `cache_live` | 2 wrappers of one key, 1 kill, 1 closed connection | `EveryWrapperEnds`, and why it has exceptions |
| `rts_build` | the whole table, all 24 source trees, every board, and sessions that meet | the descriptor, the dependencies, the versions of units, and what sessions do to one another |

### 3.1 The bounds, and why they are enough

* Two units with two entities each are the least at which wrappers of different units
  compete, a unit has two children that end in either order, a child is orphaned while
  another unit runs, and both slots are taken while two wrappers wait.  One kill with two
  slots loses a slot without stopping the run; as many kills as slots stop it, and
  `Terminates` is not claimed for that.
* `proof_run_nosem` has three units for two places, so that gprbuild must wait.
* `MaxVCs = 3` lets a check be registered after another one was proved and a third be
  left, in an entity collected between the two halves of another one's generation.
* A list of three nodes has a first, a middle and a last one, neighbours and
  non-neighbours of the ends, a free store that is full, chained, a suffix and empty; the
  second list of two makes `Copy` add a node and `Move` and `Assign` meet a target
  that is just large enough.  Two elements are enough for the sort to tell stability, as
  `Positions` tell equal elements apart.

* Two wrappers of one key write and read it in every order, and a hit needs both; the
  third, a prover with a key of its own, shows that keys are kept apart and that only
  gnatwhy3's failures are not stored.  An output of two texts is the shortest that can
  be cut or written in part; the empty one is the code's special case.

* `rts_build` is no small instance as far as data goes: it takes the table of `sources.py`
  entire, each of the 24 pairs of a source profile and a run-time profile, and for each of
  them every board it serves, alone in one session.  `Meetings` adds the sequences of
  sessions: two boards of one name (`aarch64-qnx` and `arm-qnx`) in one session, with and
  without `--force`; one of them killed anywhere or failing in its build, and the other
  one next; a bare board installed, installed again by force and killed, and a third time;
  a processor that is not known.  Two sessions after a kill are enough: what
  a session finds is what all earlier ones left, part by part.
* The states of `rts_build` are long paths more than many branches: the generator and the
  loop are sequential, and a branch is a choice of tree, of board, of a kill or of a
  failing build.

Units, and claimable entities, are only compared for equality, which makes the symmetry
sets of the safety runs sound; no liveness property is checked under symmetry.  `lists`
uses a VIEW without the last call, the last cursor and the elements of free nodes: no
operation reads these, and the properties do not either, except for `TypeOK`, which
holds of the elements of free nodes because they are those of active nodes earlier.

`CHECK_DEADLOCK FALSE` is said only in `claims`, `claims_static` (where the phases
`done` and `failed` are final states), `cache`, `cache_live` (where wrappers end or wait
for a server that is gone), `rts_build` (where the last session ends) and
`proof_run_missing`, where the processes do
block each other.

### 3.2 Fairness

`FairSpec` has weak fairness of every process: gnatprove, each gnat2why, each wrapper,
each gnatwhy3 and the launching of each unit by gprbuild.  They are separate processes of
an operating system that schedules them all.  A gnatwhy3 ends because every prover has
a timeout or a step limit.  A wrapper in `sem_wait` needs no strong fairness for
`Terminates` and `WaitersAreServed` in these instances: a step that takes a slot away
from it is also a step of a wrapper that later exits, and each wrapper waits once, so
that the slot is eventually free for good.  Kills are not fair.

In `ResultCache`, each wrapper is a process with weak fairness; its command ends because
of its timeout; and a server that is connected answers a request that it has received.
Evictions, closed connections and kills are not fair.  `EveryWrapperEnds` leaves out
wrappers whose connection was closed in good order, because `Receive_Socket` then
returns nothing again and again, and wrappers whose get was refused, because the line
they got does not end with the marker.

`RtsBuild` has weak fairness of `Proceed`, the steps of the two scripts: they are
sequential programs, which take their next step as long as they run.  Kills, and sessions
to be started, are not fair.  `EveryRunEnds` is then about the loops: that no board makes
`check_deps` repeat itself for ever and that the recursion returns.

## 4. The proofs

### 4.1 Proof run (`ProofRun_proofs`)

Assumptions: `ProofRunAssumption`, the ranges of the constants only: any finite
number of units, any number of entities, slots, children and kills, with and without
semaphores.

The invariants that the runs check are not inductive.  `IInv` joins to them:

* `IndType`: types, and that `next` only moves forward over jobs that have no process;
* `BuildOrder`: nothing runs before the semaphore is created, and no gnat2why is alive
  after gprbuild returned;
* `Holders`, `NoHolders`: who has a slot, by the state of its wrapper; nobody without
  semaphores;
* `OwnChildren`: the map of a unit has only jobs of that unit;
* `ResultsEnded`, `Collected`, `Outcomes`: a file with a result belongs to a gnatwhy3
  that ended, a job that was collected has no file, and what a unit that says
  Progress_Proof implies;
* `AliveBounded`: gprbuild's own bound.

There is one lemma per part and one step per action in each.  `SlotConservation` is an
arithmetic argument on the cardinality of `slot`.  `ProversBounded` follows from it with
semaphores: every running prover that is counted holds a slot.  Without semaphores the
provers are mapped one to one to live gnat2why processes, of which gprbuild has at
most `-j`.

| Theorem | Property |
| --- | --- |
| `TypeCorrect`, `Invariance` | `TypeOK`, `IInv` |
| `SlotsConserved`, `OnlyKillsLeak` | `SlotConservation`, `LeaksAreKills` |
| `ProversStayBounded` | `ProversBounded` |
| `ChildrenMatched`, `ProofsComplete`, `SemaphoreStays`, `SuccessLeavesNothing` | `MapMatchesChildren`, `ProofIsComplete`, `SemaphoreOutlivesWrappers`, `SuccessIsClean` |

### 4.2 Claims (`ProofClaims_proofs`)

Assumptions: `ProofClaimsAssumption`.  Added to the properties to make them inductive:

* `Control`: an entity is visited once, and is being generated, being proved, or neither;
* `NotYet`: no result of gnatwhy3 is recorded for an entity before its run is collected,
  which is why nothing is deleted twice;
* `TableByVC`: `TableIsUnproved`, VC by VC;
* `ClaimsAreEmpty`: a claimed entity with checks for gnatwhy3 only has none left and gets
  no more of them (it fails as soon as static checks or loop invariants are let in, which
  is the finding of section 5);
* `LastRun`: if any run was needed, the last one is collected when no entity is left to
  visit, so that it claims every entity whose set is empty.

`TableIsUnproved`, `DeletesOnce`, `ProverClaimsAreProved` and `ClaimsAreComplete` follow,
for any number of entities, checks and children.

### 4.3 Result cache (`ResultCache_proofs`)

Assumptions: `ResultCacheAssumption`, and nothing about the commands: any number of
wrappers, any outputs that do not contain the end marker, any number of faults.  The
inductive invariant joins to the properties:

* `Results`: by its control state, whether a wrapper has run its command, that what it
  stores is the cacheable output of that run, and that what it prints without a run is
  good for its key;
* `Connections`: which client a wrapper is at work with;
* `Replies`: what may be on a connection: nothing, one answer to its get with an output
  that is good for its key, or one answer to its set.  Without it an answer that was not
  read to its end could be taken for the next one.

The lemma `AnswerComplete` is the protocol argument: of an answer that carries an
output, no proper prefix ends with the marker, and `Payload` is that output.  It needs
that outputs have no marker.  `StoreSound`, `OutputsWhole` and `ResultsReported`
establish `StoreHasRuns`, `PrintsWholeOutputs` and `ResultIsReported`.

### 4.4 Dependencies (`RtsDeps_proofs`)

`RequirementsAreMet`: when the loop ends, every directory whose condition holds has its
requirement met, for any table of finite length, whatever the values it starts with and
whether or not the requirements contradict each other.  The inductive invariant says that
while nothing was modified in a pass, everything before `pos` is met; a pass that
modified something proves nothing about the directories it has left behind, which is why
another one follows.

### 4.5 Descriptor (`RtsDescriptor_proofs`)

Assumptions: `TreesAssumption` and `TableAssumption`: there are finitely many scenario
variables, each with a list of values that is not empty; conditions name known variables (an assertion of
`Rule.__init__`); and the directory `common` is in every source tree, so that libgnat has
sources.  TLC evaluates both on the table of `sources.py`; nothing else is used of it.

`RecursionRestoresDirs` establishes `DirsRestored`, whose parts are inductive together:
the directories that are missing from `dirs` are those that the calls on the stack have
removed, each of them removed by one call.  `DescriptorIsSound`: whatever has been written
so far, each entry is at a branch that exactly matches the rule of its directory.

`DescriptorIsExact` (`DescriptorExact`) adds completeness, the part that the pruning puts
at risk.  Call the pairs of a branch and a directory that the rules ask for targets.  The
inductive invariant `Exact` says where each target is at any moment (`EachComing`): it is
written, or it is due in the call that is about to start (`AtEntry`: the branch agrees
with it so far and no call has removed its directory), or it is ahead of one of the calls
on the stack (`Ahead`: it agrees with the branch up to the first variable of the call, the
values it needs are still to come, and no call up to this one has removed its directory).
That takes what the frames and the branch have to do with each other (`Nested`,
`EnvPlaced`): calls start after the variable of their caller, and the branch has only
variables that a call on the stack is at.  Each step moves targets along:

| Step | Why no target is lost |
| --- | --- |
| `Enter` | a target of this very branch is written; one further down can still match, so its directory is not pruned and the call goes on the stack |
| `NextValue` | the targets with that value become due, the others are as far ahead as before |
| `NextVariable` | the variables that are skipped are used by no directory in `dirs`, so no target needs them |
| `Leave` | a target still ahead would need a variable that a directory in `dirs` uses, and there is none |
| `NextLib`, `InstallTree` | nothing is due and nothing is ahead of an empty stack, so all is written |

Of the order of the variables the proof uses only that each is listed once
(`OrderListsVariables`, from `SortedListsOnce`: every step of `Sorted` appends a variable
that has not been listed, by induction over their number): the descriptor does not depend
on how the variables are ranked.

### 4.6 Sessions (`RtsBuild_proofs`)

Assumptions: those of the descriptor; `PlansAssumption`, that is, any sequence of commands
with targets that exist; and `NeedsAssumption`: what a directory requires are values that
the variables have, and never another profile (both evaluated by TLC on the table).

`NoMixture` is not inductive: while a library is being written its parts must be those of
the job at work, and while one is built its directory must be the one that was installed
last under its name.  `BuildInv` joins

* `Types`: `TypeOK`, and the types of plan and jobs;
* `Current`: during the installation of a job, all parts in its directory are its own;
* `Earlier`: the jobs before it are done, that is, their directories are there with project
  files and have only parts of this session, unless a job of the same name is just
  replacing them;
* `AllDone`: in the build phase, all jobs are done.

`NothingIsMixed`, `EarlierIsKept` and `BuildTypeOK` follow, one step per action.
`EarlierIsKept` uses `AllDone` for the build: gprbuild only writes where this session has
installed.  `DirsAreRestored` and `DescriptorIsExactHere` carry the theorems of the
generator over to the composition, in which it takes its steps unchanged.

`SuccessMeansComplete` (`SuccessIsComplete`) is the end-to-end result: what the script calls
installed is there, with exactly the directories whose own conditions hold.  It has the
hypothesis `TreesServePlans`: the sessions are about libraries whose profile and other
initial values the source tree was generated with.  Nothing in the code makes sure of it
(section 5), and without it the statement is false.  TLC evaluates the hypothesis on the
plans of the run.  Two more invariants, on top of `BuildInv`, `DescriptorExact` and
`Ordered` of the generator:

* `Settings`, on the scenario values.  Boards, requirements and defaults only ever give a
  variable a value that the tree knows (`NeedsAreKnown`, `DefaultsAreKnown`); the values of a
  job stay as they are once its directories are made; and no session begins before the
  descriptor is written.  For such values, reading the descriptor back gives exactly the
  wanted directories (`ChosenAreWanted`): a branch of an exact descriptor agrees with the
  values if and only if the condition itself does.
* `Progress`, on the output.  At each step of an installation the directory has the parts
  written before this step and no other, libraries with the wanted directories
  (`InProgress`); the libraries of the jobs before it that are the last of their name are
  installed (`InstalledSoFar`), since only a later job of that name could touch them; while
  the projects are built, `adalib` has been added to those that a job before is about, by the
  writer of its project file (`BuiltSoFar`); and a reported success is one (`Reported`).

The two results that follow are about the table of `sources.py` itself, and their hypotheses
say what the table must be like.  They quantify over directories, variables and boards, not
over behaviours, so that TLC evaluates them on the whole table before it starts
(`MCServed`, `MCProvided` and `MCDetermined` in `RtsBuildMC`); the theorems then hold for any
plan of sessions.

`RequirementsAreInstalled` (`RequirementsMet`) assumes `TreesServePlans` and
`TableProvides`, which has two parts: for each feature that a directory of a tree requires,
libgnat has directories that provide it, one for each value of some variable, whose other
conditions follow from those of the first one or from what it requires (`FeaturesExist`); and a default, which `set_default` gives a variable after `check_deps` has
ended, selects no directory with a requirement that was not there without it
(`DefaultsRequireNothing`).  `RequirementsInv` follows the scenario values of a job from the
loop to the disk:

* `PassedMet`: in a pass that modified nothing, the directories before `pos` have what they
  require (the argument of section 4.4, now with what restarts the loop in the composition);
* `ConfConsistent`: once the loop has ended the values meet every requirement, and they keep
  meeting them while defaults are set;
* `ConfFull`: after the defaults, every variable that libgnat depends on has a value;
* `AllSelected`: in each directory of the output, whatever session left it there, libgnat and
  libgnarl were selected from the descriptor by one and the same set of such values, and
  project files are only there when libgnat is.  This is why a requirement of libgnarl is
  met in the libgnat beside it; it takes that an installation starts from an empty directory
  and writes libraries only after the defaults are set.

`UnitsComeOnce` (`UnitsProvidedOnce`) assumes `TreesServePlans` and `VersionsDetermined`.
The latter takes, for each board and profile, all the values that a variable might end with
(`FinalValues`: the one the board starts with or the default, and any that a directory
requires).  The directories that some of these select contain all versions that are
possible, those that all of these select contain the ones that are certain.  No library
may have two possible versions of a unit, and an essential unit must have one certain version
and no other possible one.  This leaves open in which order the loop takes the directories
and how often it runs.  The invariant `UnitsInv` has the jobs that are determined
(`Planned`), where the values of the job at work come from (`Begun`, `Given`, `Defaulted`,
by its control state), that each part on the disk is what such values make of it for the
board and the profile of its writer (`RightParts`), and that there was no clash.  Selected
versions then lie between the certain and the possible ones (`OneVersion`), also in a
directory that sessions have shared, left half done and built.

### 4.7 Formal lists (`FormalLists_proofs`, `ListPair_proofs`)

Assumptions: `ListPairAssumption`: any set of lists, any positive capacities and any set
of integers as elements.

The checked invariants `WellLinked` and `NoNodeLost` walk over the links, and a walk says
nothing of a list while a node is being linked or freed.  The inductive invariant names
what the walks would find.  `Good (L, cap, E)` says that L is a record of its type and that
there are a sequence `c` and a sequence `f` with `Shape`:

* `Active`: the nodes `c[1] .. c[n]` are different and doubly linked in that order, with 0
  at both ends and with `First` and `Last` at its ends;
* `Store`: the nodes `f[1] .. f[m]` are different, marked with Prev = -1, and are what
  `Allocate` will hand out in that order: `Chained` by Next from a `Free` that is not
  negative, or the `Suffix` of the array from -`Free` on;
* every node is in one of the two, except for those that an operation holds in its hand.

TLC cannot enumerate `c` and `f`; it checks the walks, which `GoodLinkage` and `GoodStock`
derive from the shape, and the theorems give all four invariants of the run `lists`.

`FormalLists_proofs` is about one operation at a time.  `SegInsert`, `SegRemove`, `SegSwap`
and `SegHalve` are about sequences and two link arrays only: if the links changed in these
few places, the chain is this one.  `LinkLinks`, `UnlinkLinks`, `SwapLinks` and
`SplitLinks` show that the code changes them there, case by case of its conditions
(an empty list, either end, neighbours).  `AllocateShape` and `FreeShape` do the same for the
store; the branch of `Free` that first links the unused end of the array is `FreeLinks`.
Every operation composes these: it takes nodes from the store into the hand, from the hand
into the chain, and back.

Loops are proved by induction on the number of iterations.  The induction theorems of
the library take an operator, which the provers cannot instantiate; `NatInd` is
induction over a set, from the well-foundedness of the naturals.  `LoopExists` shows once
that the function that the model writes for a loop is one (all bodies are cases of `Step`,
so that no operator is a parameter), and `LoopStates` what its values are.  The recursion
of the sort is well founded because `HalfBounds` makes both halves shorter: `SortStep` goes
from depth m to m + 1, with the hypothesis that the recursive calls rearrange a part, write no
link outside it and keep its nodes.

`GoodSort` and `GoodSwapLinks` say that exactly the same cursors are valid afterwards, and
`ReverseShape` that the chain is the one of before read backward; that the loop of
`Reverse_Elements` stops where it should, for odd and even lengths, is `TurningStep`.

**The contracts.**  `ListsMeetContracts` is the refinement: every step of `ListPair` is,
under the mapping that walks from `First` to `Last`, a step of `AbstractLists`.  The mapping
is a walk and the contracts speak of places and of numbers of occurrences, so it is shown
in three layers:

* `FormalLists_proofs` says for each operation in which order it leaves the nodes, as an
  equation between the chains `c` before and after: `Grown` (k nodes more at place p, the
  others in their order), `Shrunk` (k nodes fewer), `Put` and `Put2` (elements replaced),
  `Alike` (the same elements on other nodes).  `OrderInsert`, `OrderDelete`, `OrderSwapLinks`,
  `OrderSpliceWithin`, `OrderSpliceAll` and their like are these equations; those with a loop
  are by induction on its iterations.
* `OrderItems` says that the walk of `ListPair` visits just that chain, so that an equation
  between chains is one between sequences of items (`GrownItems`, `ShrunkItems`, `SameItems`),
  and `ItemsPlace` that the place of a cursor in the contract is its place in the chain.
* One lemma per operation (`InsertContract` to `MergeContract`) gives its clause of the
  contract; `OneListContract` and `TwoListsContract` put them together, along with what
  concerns all calls: the lists are within their capacity, and those that a call does not
  name stay as they are.

Three operations need an argument of their own.

* *Sort*: `OrderSort` says that it is a stable sort.  Nodes
  are numbered by their places in the original list, and the hypothesis of the recursion
  (`Sorts`) also says that a part whose numbers ascend is returned in ascending order of
  element, then number (`Ascends`).  The merge keeps this (`MergeOrder`) because all numbers
  of the first half are lower than those of the second, and of equal elements the one of
  the first half is taken first.
* *Splice of a list*: `OrderSpliceAll` says what its loop does: the source arrives in reverse
  order.  The contract only asks for the same elements, each as often, which
  `ReversedCount` gets from the reversal.
* *Merge*: the loop looks at both lists at once, and each round moves an element of the
  source or goes on in the target.  Its invariant (`Mixed`) has a bijection that says, for
  each place of the list, which item of the target or of the source it has, and that
  ascends on those of the target; its inverse is the function `f` of the contract, and
  being one to one it gives the number of occurrences of each element.
  The rest of the source, which a `Splice` adds in reverse order, has the right elements but
  not the right order: this part of the contract is proved, the clause on sorted lists is
  the finding `lists_merge`.

| Theorem | Property |
| --- | --- |
| `Inductive` | `IInv`: every list is good |
| `ListTypes`, `ListsWellLinked` | `TypeOK`, `WellLinked` |
| `FreeNodesKept` | `NoNodeLost` |
| `CursorsVetted` | `VetAcceptsCursors` |
| `ListsMeetContracts` | `MeetsContracts`: the lists implement `AbstractLists` |

### 4.8 What stays with TLC

Every safety property of a passing run is stated by a theorem.  What stays with TLC is

* liveness: `Terminates`, `WaitersAreServed`, `EveryWrapperEnds` and `EveryRunEnds`.  They
  rest on fairness, that is on ENABLED, which is out of the prover's reach.  They are checked
  on the instances of section 3 only;
* the properties of the four runs that expect a violation, which are false;
* the data of `sources.py` and of the boards: the theorems on sessions hold for any table
  with the properties they name, and TLC evaluates these properties on the present one.

## 5. Findings

* **A missing gnatwhy3 hangs the run** (`proof_run_missing`).  `Run_Gnatwhy3` announces a
  gentle exit when the prover cannot be located, but it looks for the first word of
  its command, which is the semaphore wrapper.  The wrapper takes a slot, evaluates
  `Prog.all` of a null pointer and dies with the slot.
* **Claims of entities that are not proved** (`claims_static`).  A check that gnat2why
  decides itself is registered and marked in one go; when it is the first of its entity
  the entity is claimed at once, and later checks do not withdraw the claim.  The "init"
  result of a loop invariant has the same effect: it is ignored, so that a failed
  initialization does not prevent the claim.  `ProverClaimsAreProved` is the part of the
  property that does hold, and is proved.
* **`Merge` does not merge** (`lists_merge`).  The rest of the source is moved by a
  `Splice` that reverses it.
* **A clause of the contract of `Splice`** (`lists_splice`) names the wrong position when
  the element moves towards the end.

Smaller divergences that no run states: `configuration.adb:2911-2914` says that
without semaphores gnat2why runs provers in parallel, but `Parallel_Why3` is then off;
`configuration.adb:2683-2703` announces a hash of the project directory in the name of
the socket, which has the process id.

What the model of the cache shows of the code, and no document denies: a wrapper waits
forever, with its slot, when the server closes its connection in good order or refuses
its get; a connection that is lost after the run costs the result, as the result is
stored before it is printed; so does a cache directory where no file can be created,
since `Delete_File (Name.all)` follows; an empty output is run again each time; and a
hit ends with status 0 whatever the status of the run was.

What the model of the run-time scripts shows, and no document denies:

* The target `mcm` cannot be built: `light_scenarios` does not know the processor `visium`
  (`profiles.py:149`) and the script exits with 2 before anything is installed.
* `aarch64-qnx` and `arm-qnx` have the same name and a legacy format, so that both install
  into `rts-light`.  Given together, the second one ends the script with "a runtime already
  exists"; with `--force` it replaces the first one, its projects are built twice, and the
  script reports success for both.  `SuccessIsComplete` is therefore about the last job of
  each name.
* No board needs a second pass of `check_deps` that changes something: all requirements
  of the present table lead forward.  The proof of section 4.4 does not depend on it.
* A library of a profile that the descriptor was not generated for is installed without
  complaint as long as the descriptor has the library (`installer.py:171` finds no branch).
* `CortexM23` and `CortexM33F` inherit a double precision FPU from `ArmV8MTarget`
  (`cortexm.py:1425-1431`), so that their math library is `hardfloat`, although the compiler
  switches select no FPU and a single precision one.
* The RAM script of the RP2040 boards has a loader that the boards do not offer; and
  `dump_runtime_xml` adds the loader `DEFAULT` to a script again each time it is called.
* `arm/memmap.py` (read, not modelled): a region whose size is not a multiple of the granule
  is mapped up to the end of its last page (`366-382`).

## 6. What is not modelled

* *Sequential analyses over the compiler's tree* (flow analysis, marking, ownership,
  translation, counterexamples, GNAT-LLVM): their inputs are programs,
  they keep no state between runs and nothing interleaves with them.
* *Command line and report*: parsing and formatting.
* On Windows the deletion of a semaphore is a no-op and a semaphore is removed with its
  last handle; the model is that of POSIX.
* In `ProofRun` a cache wrapper between wrapper and gnatwhy3 is part of the external
  gnatwhy3, and is taken to end.
* Cache directories that disappear, files of the cache that cannot be read, and collisions
  of SHA1.
* A second signal, kills of gnat2why or gnatprove themselves, and, in `ProofRun`, a full disk.
* *Memory maps* (`arm/memmap.py`): one pass over an input file that no other part reads; *docgen*,
  `install.py` and the scripts of `llvm/py` and `scripts`: text generation without state.
* Of the run-time scripts: the contents of files, switches and templates; files that are
  missing (exit 4); `--link`, `--shared`, `--gen-doc`; an interrupted generator, whose
  descriptor is there before the sources it describes; several source trees in one process,
  which the statics of `Rule` and the extension of the source lists in place would not
  survive, and which no script makes; two sessions of `build_rts` at the same time in one
  output, which nothing in the code provides for; and the backend of GNAT-LLVM.
* *The GDB stub, the board clocks and the RP2040 start*: half of each protocol, the debugger,
  the kernel `System.BB` or the boot ROM, is not in the repository.

## 7. Plan

Done, in this order: the proof run (the core: processes, slots, results), its proofs; the
claims, their proofs; the lists with their contracts; the result cache, its proofs; the
run-time scripts from the shared table to the sessions on one output, their proofs; the
proofs about the lists, up to the refinement of their contracts; requirements and
versions of units as theorems about the table.

What would come next:

1. The composition of `ResultCache` with `ProofRun`: a wrapper that waits for a server
   keeps its slot, and a hit ends with another status than the run.
2. The insertion of regions into the translation tables of `memmap.py`, against the map
   from addresses to attributes that the regions stand for.

----------------------------- MODULE RtsDescriptor -----------------------------
(***************************************************************************)
(* gen_rts_sources: the shared sources of a source profile, installed with *)
(* a descriptor (rts-sources.json) that tells for which scenario values a  *)
(* directory is part of a run-time library.                                *)
(*                                                                         *)
(* For each library the descriptor is a tree whose branches are labelled   *)
(* by a variable and its value.  The recursion that writes it works on two *)
(* objects all its calls share: env, the branch it is in, and dirs, the    *)
(* directories still to place, from which a call removes those it need not *)
(* look at again and puts them back when it returns.  A frame of the stack *)
(* is a call in its loop: the variable it is at, the values of it that are *)
(* left and the directories it has removed.  The descriptor is the set of  *)
(* the pairs <<branch, directory>>.                                        *)
(***************************************************************************)
EXTENDS RtsSources, RtsRules, Integers, FiniteSets, SequencesExt

CONSTANT Trees    \* pairs of a source profile and a run-time profile

ASSUME TreesAssumption ==
  Trees \subseteq
    SourceProfiles \X {"light", "light-tasking", "embedded", "cert"}

(* The conditions of the table are on variables that exist (an assertion   *)
(* of Rule.__init__), and a directory is in every source tree.             *)
ASSUME TableAssumption ==
  /\ IsFiniteSet(DOMAIN Scenarios)
  /\ \A v \in DOMAIN Scenarios : Scenarios[v] \in Seq(STRING) \ {<<>>}
  /\ Len(SharedDirs) \in Nat /\ DOMAIN SharedDirs = 1..Len(SharedDirs)
  /\ \A d \in DOMAIN SharedDirs :
        DOMAIN SharedDirs[d].when \subseteq DOMAIN Scenarios
  /\ \E d \in DOMAIN SharedDirs :
        SharedDirs[d].path = <<"common">> /\ SharedDirs[d].of = SourceProfiles

VARIABLES
  tree,        \* what is generated
  lib,         \* the library whose tree is written, then "installed"
  order,       \* the variables of that library, in the order of the loops
  entering,    \* a call is about to start, in the branch env
  env, dirs, stack,
  descriptor   \* of each library the tree has sources for

genVars == <<tree, lib, order, entering, env, dirs, stack, descriptor>>

Libs == {"gnat", "gnarl"}

----------------------------------------------------------------------------
(* SourceTree.__init__: the directories and the scenarios of a tree. *)

ValuesOf(t, v) ==
  CASE v = "RTS_Profile" /\ t[2] = "light" -> <<"light">>
    [] v = "RTS_Profile" /\ t[2] = "light-tasking" -> <<"light", "light-tasking">>
    [] v = "RTS_Profile" /\ t[2] = "cert" -> <<"light", "cert">>
    [] OTHER -> Scenarios[v]

ProfilesOf(t) == Range(ValuesOf(t, "RTS_Profile"))

InPath(dir, name) == \E i \in DOMAIN dir.path : dir.path[i] = name

Selected(t, dir) ==
  /\ t[1] \in dir.of
  /\ ~(t[2] = "light" /\ InPath(dir, "gnarl"))
  /\ t[2] \in {"light", "light-tasking"} =>
        ~InPath(dir, "full") /\ dir.path # <<"containers">>

(* The rule keeps the values that the tree knows of.  One that loses all   *)
(* the values of a variable is invalid: it matches nothing.                *)
RuleIn(t, dir) ==
  LET rule == [v \in DOMAIN dir.when |-> dir.when[v] \cap Range(ValuesOf(t, v))]
      valid == \A v \in DOMAIN rule : rule[v] # {}
  IN  [lib |-> IF dir.path[1] = "gnarl" THEN "gnarl" ELSE "gnat",
       valid |-> valid,
       scenarios |-> IF valid THEN rule ELSE Always]

RulesFor(t, sources) ==
  [d \in {d \in DOMAIN sources : Selected(t, sources[d])} |-> RuleIn(t, sources[d])]

RulesOf == [t \in Trees |-> RulesFor(t, SharedDirs)]

DirsIn(rules, l) == {d \in DOMAIN rules : rules[d].lib = l}

DirsOf(t, l) == DirsIn(RulesOf[t], l)

(* The variables of a library, the ones that most rules use first, then in *)
(* the order of their first use.                                           *)
Before(k, m) ==
  k.uses > m.uses \/ (k.uses = m.uses /\ k.first < m.first)

Least(rank, vars) ==
  CHOOSE v \in vars : \A w \in vars : ~Before(rank[w], rank[v])

Sorted(rank) ==
  LET vars == DOMAIN rank
      sorted[n \in 0..Cardinality(vars)] ==
        IF n = 0 THEN <<>>
        ELSE LET done == sorted[n - 1]
             IN  Append(done, Least(rank, vars \ Range(done)))
  IN  sorted[Cardinality(vars)]

OrderFor(rules, l) ==
  LET UsersOf(v) == {d \in DOMAIN rules : v \in DOMAIN rules[d].scenarios}
      mine == DirsIn(rules, l)
  IN  Sorted([v \in UNION {DOMAIN rules[d].scenarios : d \in mine} |->
                [uses |-> Cardinality(UsersOf(v)),
                 first |-> Min(UsersOf(v) \cap mine)]])

OrderOf == [t \in Trees |-> [l \in Libs |-> OrderFor(RulesOf[t], l)]]

----------------------------------------------------------------------------
(* dump_sources_json. *)

MatchesExactly(rule) == rule.valid /\ ExactMatch(rule.scenarios, env)

CanStillMatch(rule) == PartialMatch(rule.scenarios, env)

Top == stack[Len(stack)]

Below == SubSeq(stack, 1, Len(stack) - 1)

(* The stack with the top call at another variable or value. *)
Resumed(at, left) ==
  Append(Below, [first |-> Top.first, at |-> at, left |-> left, pruned |-> Top.pruned])

(* Plausible bug: the variable stays in the environment.                   *)
Env_Kept == env

(* del env[next_var], once the call has branched on a variable. *)
EnvAfterValues ==
  [v \in DOMAIN env \ {order[j] : j \in Top.first..Top.at} |-> env[v]]

(* A call enters the directories of its branch.  It loops over variables   *)
(* if there is one left and a directory to place further down.             *)
Enter ==
  LET first == IF stack = <<>> THEN 1 ELSE Top.at + 1
      matched == {d \in dirs : MatchesExactly(RulesOf[tree][d])}
      pruned == matched \cup {d \in dirs : ~CanStillMatch(RulesOf[tree][d])}
  IN  /\ entering
      /\ entering' = FALSE
      /\ descriptor' = [descriptor EXCEPT ![lib] = @ \cup {<<env, d>> : d \in matched}]
      /\ IF first > Len(order) \/ dirs = pruned
         THEN UNCHANGED <<dirs, stack>>
         ELSE /\ dirs' = dirs \ pruned
              /\ stack' = Append(stack, [first |-> first, at |-> first - 1,
                                         left |-> <<>>, pruned |-> pruned])
      /\ UNCHANGED <<tree, lib, order, env>>

(* The loop of the call at the top calls itself for the next value ... *)
NextValue ==
  /\ ~entering /\ stack # <<>>
  /\ Top.left # <<>>
  /\ env' = Update(env, [v \in {order[Top.at]} |-> Head(Top.left)])
  /\ stack' = Resumed(Top.at, Tail(Top.left))
  /\ entering' = TRUE
  /\ UNCHANGED <<tree, lib, order, dirs, descriptor>>

Candidates ==
  LET used == UNION {DOMAIN RulesOf[tree][d].scenarios : d \in dirs}
  IN  {j \in Top.at + 1..Len(order) : order[j] \in used}

(* ... goes on with the next variable that is used ... *)
NextVariable ==
  /\ ~entering /\ stack # <<>>
  /\ Top.left = <<>>
  /\ LET candidates == Candidates
     IN  /\ candidates # {}
         /\ stack' = Resumed(Min(candidates), ValuesOf(tree, order[Min(candidates)]))
  /\ env' = EnvAfterValues
  /\ UNCHANGED <<tree, lib, order, entering, dirs, descriptor>>

(* Plausible bug: the pruned directories are not restored.                 *)
Leave_Pruned ==
  /\ ~entering /\ stack # <<>>
  /\ Top.left = <<>>
  /\ Candidates = {}
  /\ env' = EnvAfterValues
  /\ stack' = Below
  /\ UNCHANGED <<tree, lib, order, entering, dirs, descriptor>>

(* ... and returns when there is none, putting back what it removed. *)
Leave ==
  /\ ~entering /\ stack # <<>>
  /\ Top.left = <<>>
  /\ Candidates = {}
  /\ env' = EnvAfterValues
  /\ dirs' = dirs \cup Top.pruned
  /\ stack' = Below
  /\ UNCHANGED <<tree, lib, order, entering, descriptor>>

(* libgnarl comes after libgnat, unless the tree has no source for it. *)
NextLib ==
  /\ ~entering /\ stack = <<>>
  /\ lib = "gnat"
  /\ lib' = "gnarl"
  /\ order' = OrderOf[tree]["gnarl"]
  /\ dirs' = DirsOf(tree, "gnarl")
  /\ IF DirsOf(tree, "gnarl") = {}
     THEN UNCHANGED <<entering, descriptor>>
     ELSE /\ entering' = TRUE
          /\ descriptor' = Update(descriptor, [l \in {"gnarl"} |-> {}])
  /\ UNCHANGED <<tree, env, stack>>

(* install_tree: the directories follow the descriptor. *)
InstallTree ==
  /\ ~entering /\ stack = <<>>
  /\ lib = "gnarl"
  /\ lib' = "installed"
  /\ dirs' = DOMAIN RulesOf[tree]
  /\ UNCHANGED <<tree, order, entering, env, stack, descriptor>>

----------------------------------------------------------------------------

GenInit ==
  /\ tree \in Trees
  /\ lib = "gnat"
  /\ order = OrderOf[tree]["gnat"]
  /\ entering = TRUE
  /\ env = Always
  /\ dirs = DirsOf(tree, "gnat")
  /\ stack = <<>>
  /\ descriptor = [l \in {"gnat"} |-> {}]

Generate ==
  Enter \/ NextValue \/ NextVariable \/ Leave \/ NextLib \/ InstallTree

GenSpec == GenInit /\ [][Generate]_genVars

----------------------------------------------------------------------------

(* The calls share dirs: at any time the directories that are not in it    *)
(* are each with exactly one call on the stack, which will put it back     *)
(* (the loop "restore the pruned items" of dump_sources_json).             *)
DirsRestored ==
  lib \in Libs =>
    /\ dirs \cup UNION {stack[i].pruned : i \in DOMAIN stack} = DirsOf(tree, lib)
    /\ \A i \in DOMAIN stack :
          /\ stack[i].pruned \cap dirs = {}
          /\ \A j \in DOMAIN stack :
                i # j => stack[i].pruned \cap stack[j].pruned = {}

(* Every entry written so far is one that its rule asks for: the values of *)
(* its branch, no more and no fewer, match the rule of its directory.      *)
DescriptorSound ==
  \A l \in DOMAIN descriptor : \A entry \in descriptor[l] :
    /\ entry[2] \in DirsOf(tree, l)
    /\ RulesOf[tree][entry[2]].valid
    /\ ExactMatch(RulesOf[tree][entry[2]].scenarios, entry[1])

(* The branches that satisfy a rule: one for each way to choose a value.   *)
Branches(rule) ==
  {branch \in [DOMAIN rule -> UNION {rule[v] : v \in DOMAIN rule}] :
      Matches(rule, branch)}

(* The descriptor that dump_json writes has each directory at exactly the  *)
(* branches that its rule admits, once each, and no other directory.       *)
DescriptorExact ==
  lib = "installed" =>
    descriptor =
      [l \in {l \in Libs : DirsOf(tree, l) # {}} |->
        UNION {{<<branch, d>> : branch \in Branches(RulesOf[tree][d].scenarios)} :
                  d \in {d \in DirsOf(tree, l) : RulesOf[tree][d].valid}}]
=============================================================================

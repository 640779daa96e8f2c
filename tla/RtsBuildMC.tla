------------------------------ MODULE RtsBuildMC ------------------------------
EXTENDS RtsBuild

AllTrees ==
  {<<s, p>> : s \in SourceProfiles,
              p \in {"light", "light-tasking", "embedded", "cert"}}

Command(targets, force, build, mortal) ==
  [targets |-> targets, force |-> force, build |-> build, mortal |-> mortal]

(* A tree serves a board when it has the profiles of its libraries. *)
Serves(t, target) ==
  /\ BoardOf[target].os = t[1]
  /\ Range(BoardOf[target].runtimes) \subseteq ProfilesOf(t)

Alone ==
  [t \in AllTrees |->
    {<<Command(<<target>>, FALSE, FALSE, FALSE)>> :
        target \in {target \in Targets : Serves(t, target)}}]

(* Sessions that meet: boards of the same name, a session that is killed   *)
(* or fails and the next one, with and without --force, and an unknown     *)
(* processor.                                                              *)
Meetings ==
  [t \in AllTrees |->
    CASE t = <<"qnx", "embedded">> ->
           {<<Command(<<"aarch64-qnx", "arm-qnx">>, force, TRUE, FALSE)>> :
                force \in BOOLEAN}
           \cup {<<Command(<<"arm-qnx">>, FALSE, TRUE, TRUE),
                    Command(<<"aarch64-qnx">>, force, FALSE, FALSE)>> :
                    force \in BOOLEAN}
      [] t = <<"bb", "embedded">> ->
           {<<Command(<<"mpc5200", "cortex-m0">>, FALSE, FALSE, FALSE),
              Command(<<"cortex-m0">>, TRUE, TRUE, TRUE),
              Command(<<"cortex-m0">>, force, FALSE, FALSE)>> :
                force \in BOOLEAN}
           \cup {<<Command(<<"lm3s", "mcm">>, FALSE, FALSE, FALSE)>>}
      [] OTHER -> {}]

MCPlans == [t \in AllTrees |-> Alone[t] \cup Meetings[t]]

(* The plans are about the libraries of their trees. *)
ASSUME MCServed == TreesServePlans

(* The table of sources.py has the features that its directories require. *)
ASSUME MCProvided == TableProvides

(* For each library of the plans, one version of each unit is left. *)
ASSUME MCDetermined == VersionsDetermined
=============================================================================

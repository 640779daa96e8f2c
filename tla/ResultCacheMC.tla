---------------------------- MODULE ResultCacheMC ----------------------------
(***************************************************************************)
(* Instances of ResultCache for TLC.  The command lines of w1 and w2       *)
(* differ in switches that are ignored, so that they share a key; w3 is a  *)
(* prover, with a longer timeout as its salt.                              *)
(***************************************************************************)
EXTENDS ResultCache

CONSTANTS w1, w2, w3

Gnatwhy3(args) ==
  [salt |-> "salt", file |-> "vcs", args |-> <<"gnatwhy3">> \o args,
   conf |-> "drivers", hash |-> ""]

MCCommand ==
  [w \in Wrappers |->
     IF w = w1 THEN Gnatwhy3(<<"-j", "1", "--why3-conf", "a.conf">>)
     ELSE IF w = w2 THEN Gnatwhy3(<<"--debug", "--why3-conf", "b.conf">>)
     ELSE [salt |-> "10", file |-> "goal", args |-> <<"z3">>, conf |-> "",
           hash |-> "4.8"]]

MCOutputs == {<<>>, <<"not", "proved">>}
MCTexts   == {"proved", "not"}
=============================================================================

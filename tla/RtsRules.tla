------------------------------- MODULE RtsRules -------------------------------
(***************************************************************************)
(* Conditions on the scenario variables (class Rule of rts_sources): a     *)
(* rule gives for each of its variables the admitted values, and scenario  *)
(* values are a function of the variables that are set.                    *)
(***************************************************************************)

Matches(rule, scenario) ==
  \A v \in DOMAIN rule : v \in DOMAIN scenario /\ scenario[v] \in rule[v]

(* Every variable of the scenario is one of the rule, with its value. *)
PartialMatch(rule, scenario) ==
  \A v \in DOMAIN scenario : v \in DOMAIN rule /\ scenario[v] \in rule[v]

ExactMatch(rule, scenario) ==
  Matches(rule, scenario) /\ PartialMatch(rule, scenario)

(* The values that satisfy a rule which leaves no choice. *)
CorrespondingScenario(rule) == [v \in DOMAIN rule |-> CHOOSE x \in rule[v] : TRUE]

(* scenarios.update(amended): the amended values prevail. *)
Update(vals, amended) ==
  [v \in DOMAIN vals \cup DOMAIN amended |->
      IF v \in DOMAIN amended THEN amended[v] ELSE vals[v]]
=============================================================================

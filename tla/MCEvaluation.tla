---------------------------- MODULE MCEvaluation ----------------------------
(* Instances of Evaluation for TLC: what is measured, and what a command   *)
(* may draw.                                                               *)
EXTENDS Evaluation

Measured ==
  {[kind |-> "evaluate", n |-> 2, evasion |-> 100], [kind |-> "cost_to_evade", n |-> 2]}
    \cup {[kind |-> "ablate", n |-> 1, tactic |-> t] : t \in {"think-time", "paste-avoidance", "temporal-structure"}}

Drawn ==
  {[paste |-> TRUE,  backspace |-> FALSE, keys |-> <<0, 0>>, think |-> -1],
   [paste |-> FALSE, backspace |-> TRUE,  keys |-> <<-1, 1>>, think |-> 1]}

Budgets == <<0, 50, 100>>
=============================================================================

------------------------------- MODULE Model --------------------------------
(***************************************************************************)
(* model.rs of plugin-agent-detect: the weighted evidence of a feature     *)
(* vector, the rules that may only raise it, and the verdict.  Evidence    *)
(* and p_agent are percentages.                                            *)
(***************************************************************************)
EXTENDS Features

AgentThreshold == 62
HumanThreshold == 35

Clamped(x) == Max({0, Min({x, 100})})

(* A term of the average; without evidence it does not count.              *)
Term(weight, x, Evidence(_)) ==
  [weight |-> IF x = NaN THEN 0 ELSE weight, evidence |-> IF x = NaN THEN 0 ELSE Evidence(x)]

Terms(f) ==
  [metronomic_typing |-> Term(6, f.keystroke_cv,           LAMBDA x : Sigmoid(8 * (45 - x))),
   paste_injection   |-> Term(4, f.paste_ratio,            Clamped),
   instant_reaction  |-> Term(10, f.mean_inter_command,    LAMBDA x : Sigmoid(4 * (100 - x))),
   errorless_input   |-> Term(4, f.backspace_ratio,        LAMBDA x : Sigmoid(40 * (6 - x))),
   dense_commands    |-> Term(2, f.entropy_mean,           LAMBDA x : Sigmoid(30 * (x - 42))),
   regular_cadence   |-> Term(4, f.cadence_regularity,     Clamped),
   non_autocorrelation |-> Term(22, f.gap_autocorr,        LAMBDA x : Sigmoid(6 * (18 - x))),
   constant_think_time |-> Term(12, f.think_tail_ratio,    LAMBDA x : Sigmoid((22 * (200 - x)) \div 10)),
   no_throughput_decay |-> Term(14, f.throughput_decay,    LAMBDA x : Sigmoid(4 * (x + 5))),
   whole_line_injection |-> Term(12, f.whole_line_paste_ratio, Clamped),
   burst_metronome   |-> Term(6, f.keystroke_burst_cv,     LAMBDA x : Sigmoid(8 * (30 - x)))]

(* The weights that count are renormalised.                                *)
WeightedAverage(terms) ==
  LET weight == MapThenSumSet(LAMBDA n : terms[n].weight, DOMAIN terms)
      sum == MapThenSumSet(LAMBDA n : terms[n].weight * terms[n].evidence, DOMAIN terms)
  IN IF weight > 0 THEN sum \div weight ELSE 50

Finite(x) == x # NaN

(* What each rule that fires raises p_agent to.                            *)
HardRules(f) ==
  (IF f.reaction_floor_hits >= 25 /\ f.whole_line_paste_ratio >= 50 THEN {92} ELSE {})
    \cup (IF f.reaction_floor_hits >= 25 THEN {80} ELSE {})
    \cup (IF /\ Finite(f.gap_autocorr) /\ Finite(f.throughput_decay) /\ Finite(f.think_tail_ratio)
             /\ f.gap_autocorr < 5 /\ f.throughput_decay > -5 /\ f.think_tail_ratio < 160
            THEN {72} ELSE {})

VerdictOf(p) ==
  CASE p >= AgentThreshold -> "Agent" [] p <= HumanThreshold -> "Human" [] OTHER -> "Uncertain"

ConfidenceOf(p) ==
  CASE VerdictOf(p) = "Agent" -> p
    [] VerdictOf(p) = "Human" -> 100 - p
    [] OTHER -> 100 - 2 * Max({p - 50, 50 - p})

Assess(f) ==
  LET p == Max({WeightedAverage(Terms(f))} \cup HardRules(f))
  IN [p_agent |-> p, verdict |-> VerdictOf(p), confidence |-> ConfidenceOf(p)]

LogLikelihoodRatio(a) == Logit[a.p_agent]
=============================================================================

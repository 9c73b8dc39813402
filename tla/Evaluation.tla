----------------------------- MODULE Evaluation -----------------------------
(***************************************************************************)
(* eval.rs of plugin-agent-detect: synthetic sessions of humans and of     *)
(* agents that mimic them are replayed through the feature pipeline and    *)
(* the model, and a measurement of the detector is computed of the         *)
(* outcomes: the metrics of a balanced cohort, the cost to evade, or the   *)
(* ablation of one tactic.                                                 *)
(*                                                                         *)
(* Next to the replay runs what it mirrors, the sequential test that       *)
(* lib.rs runs live, on the same events.  Averages over seeds are those of *)
(* one seed; efforts, fractions and AUCs are percentages, rounded down.    *)
(***************************************************************************)
EXTENDS Model, Synth

CONSTANTS
  Measurements,   (* which of them the harness is asked for                *)
  Draws,          (* what one command of a session may draw                *)
  NaturalLengths, (* commands of a session, where no minimum is forced,    *)
  ForcedLengths,  (* and where one is: 22                                  *)
  Grid,           (* the efforts of a sweep, ascending                     *)
  Taus,           (* target fractions still caught                         *)
  AssessEvery     (* assess_every                                          *)

Tactics == {"keystroke-timing", "think-time", "paste-avoidance",
            "fake-backspaces", "temporal-structure"}

ASSUME EvaluationAssumption ==
  /\ Measurements \subseteq [kind : {"evaluate"}, n : Nat \ {0}, evasion : 0 .. 100]
                       \cup [kind : {"cost_to_evade"}, n : Nat \ {0}]
                       \cup [kind : {"ablate"}, n : Nat \ {0}, tactic : Tactics]
  /\ \A draw \in Draws : IsDraw(draw)
  /\ {AssessEvery} \cup NaturalLengths \cup ForcedLengths \subseteq Nat \ {0}
  /\ \A l \in NaturalLengths : l >= 3
  /\ \A i \in DOMAIN Grid : Grid[i] \in 0 .. 100 /\ (i > 1 => Grid[i - 1] < Grid[i])
  /\ Taus \subseteq 0 .. 100

(* DetectConfig::default, in percent and hundredths.                       *)
EwmaAlpha     == 30
EscalateLogit == 25

VARIABLES
  measurement,
  cohort, session, (* the session at hand: of which cohort, and which of it *)
  length,          (* its commands; 0 between sessions                     *)
  drawn,           (* commands generated so far                            *)
  deviation,       (* prev_dev                                             *)
  acc,             (* its accumulator                                      *)
  replay, live,    (* the harness's and the plugin's sequential test       *)
  verdicts,        (* of the replay, once the session is over              *)
  tallies,         (* what is kept of every cohort                         *)
  report           (* the result, once there is one                        *)

cursor == <<cohort, session>>
trace  == <<length, drawn, deviation, acc>>
vars   == <<measurement, cursor, trace, replay, live, verdicts, tallies, report>>

-----------------------------------------------------------------------------
(* The cohorts of a measurement.                                           *)
Lerp(x, y, t) == x + ((y - x) * t) \div 100

LerpParams(from, to, fields, t) ==
  [f \in DOMAIN from |-> IF f \in fields THEN Lerp(from[f], to[f], t) ELSE from[f]]

Evade(t) == LerpParams(Agent, Human, DOMAIN Agent, t)

Family ==
  ("keystroke-timing"   :> {"keystroke_mu", "keystroke_sigma"}) @@
  ("think-time"         :> {"think_mu", "think_sigma"}) @@
  ("paste-avoidance"    :> {"paste_p"}) @@
  ("fake-backspaces"    :> {"backspace_p"}) @@
  ("temporal-structure" :> {"think_autocorr", "think_fatigue"})

EvadeTactic(tactic, t) == LerpParams(Agent, Human, Family[tactic], t)

(* As many humans as agents, in turn; or agents alone.                     *)
Class(params, is_agent) == [params |-> params, is_agent |-> is_agent]
Balanced(agent) == <<Class(Human, FALSE), Class(agent, TRUE)>>

(* The last cohort of cost_to_evade is human: its false positives.         *)
Cohorts ==
  CASE measurement.kind = "evaluate" -> <<Balanced(Evade(measurement.evasion))>>
    [] measurement.kind = "ablate" -> [i \in DOMAIN Grid |-> Balanced(EvadeTactic(measurement.tactic, Grid[i]))]
    [] OTHER -> Append([i \in DOMAIN Grid |-> <<Class(Evade(Grid[i]), TRUE)>>], <<Class(Human, FALSE)>>)

Sequential == measurement.kind = "cost_to_evade"
Current    == Cohorts[cohort][1 + ((session - 1) % Len(Cohorts[cohort]))]
Params     == Current.params

-----------------------------------------------------------------------------
(* The sequential test of run_session_sequential, ...                      *)
Test == [since_last_assess |-> 0, ewma_logit |-> 0, ewma_inited |-> FALSE, escalated |-> FALSE]

Assessment(a) == Assess(FeatureVector(a))

Smoothed(test, llr) ==
  IF test.ewma_inited THEN (EwmaAlpha * llr + (100 - EwmaAlpha) * test.ewma_logit) \div 100 ELSE llr

(* Mutated form: whatever the snapshot says, the average escalates.        *)
Trips_Anyway(ewma, verdict) == ewma >= EscalateLogit

Trips(ewma, verdict) == ewma >= EscalateLogit /\ verdict = "Uncertain"

Step(test, a) ==
  LET found == Assessment(a)
      ewma  == Smoothed(test, LogLikelihoodRatio(found))
  IN IF ~EnoughEvidence(a) THEN test
       ELSE [test EXCEPT !.ewma_logit = ewma, !.ewma_inited = TRUE,
                         !.escalated = @ \/ Trips(ewma, found.verdict)]

ReplayEvent(test, a) ==
  IF test.since_last_assess + 1 >= AssessEvery
    THEN Step([test EXCEPT !.since_last_assess = 0], a)
    ELSE [test EXCEPT !.since_last_assess = @ + 1]

(* ... and that of maybe_emit, with the verdicts it has reported.          *)
MaybeEmit(state, a, force) ==
  LET found     == Assessment(a)
      ewma      == Smoothed(state, LogLikelihoodRatio(found))
      sustained == ewma >= EscalateLogit /\ found.verdict = "Uncertain" /\ ~state.escalated
      due       == [state EXCEPT !.since_last_assess = 0]
  IN CASE ~force /\ state.since_last_assess < AssessEvery -> state
       [] (force \/ state.since_last_assess >= AssessEvery) /\ ~EnoughEvidence(a) -> due
       [] OTHER ->
            [due EXCEPT !.ewma_logit = ewma, !.ewma_inited = TRUE,
                        !.escalated = @ \/ sustained,
                        !.reported = @ \cup {IF sustained THEN "Agent" ELSE found.verdict}]

Reporting == [f \in DOMAIN Test \cup {"reported"} |-> IF f = "reported" THEN {} ELSE Test[f]]

(* One event goes to all three.                                            *)
OnEvent(st, e) ==
  LET a == Apply(st.acc, e)
  IN [acc |-> a,
      replay |-> IF Sequential THEN ReplayEvent(st.replay, a) ELSE st.replay,
      live |-> IF Sequential
                 THEN MaybeEmit([st.live EXCEPT !.since_last_assess = @ + 1], a, FALSE) ELSE st.live]

-----------------------------------------------------------------------------
(* What is kept of a cohort.                                               *)
Tally == [caught_single |-> 0, caught_seq |-> 0, scored |-> <<>>, uncertain |-> 0]

(* Mutated form: without an escalation nothing is caught.                  *)
SeqVerdict_Latch(test, single) == IF test.escalated THEN "Agent" ELSE "Uncertain"

SeqVerdict(test, single) == IF test.escalated THEN "Agent" ELSE single

Caught(tally, v) ==
  [tally EXCEPT !.caught_single = @ + Count(v.single = "Agent"),
                !.caught_seq = @ + Count(v.seq = "Agent")]

(* Sessions without the evidence are dropped.                              *)
Scored(tally, found, is_agent) ==
  [tally EXCEPT !.scored = Append(@, [p |-> found.p_agent, is_agent |-> is_agent]),
                !.uncertain = @ + Count(found.verdict = "Uncertain")]

-----------------------------------------------------------------------------
(* Metrics.                                                                *)
SafeDiv(num, den) == IF den = 0 THEN 0 ELSE (100 * num) \div den

Number(scored, P(_)) == Len(SelectSeq(scored, P))

(* Mutated form: equal scores are ranked as they come.                     *)
TwiceRank_First(sorted, k) == 2 * k

(* Twice the rank of the k-th: the mean of the ranks of its equals.        *)
TwiceRank(sorted, k) ==
  LET equal == {i \in DOMAIN sorted : sorted[i].p = sorted[k].p}
  IN Min(equal) + Max(equal)

RocAuc(scored) ==
  LET sorted == SortSeq(scored, LAMBDA a, b : a.p < b.p)
      pos == Number(scored, LAMBDA s : s.is_agent)
      neg == Len(scored) - pos
      twice_u == MapThenSumSet(LAMBDA k : TwiceRank(sorted, k), {k \in DOMAIN sorted : sorted[k].is_agent})
                   - pos * (pos + 1)
  IN IF pos = 0 \/ neg = 0 THEN 50 ELSE (100 * twice_u) \div (2 * pos * neg)

EvalReport(tally) ==
  LET Predicted(yes, is) == Number(tally.scored, LAMBDA s : (s.p >= AgentThreshold) = yes /\ s.is_agent = is)
      tp == Predicted(TRUE, TRUE)   fp == Predicted(TRUE, FALSE)
      tn == Predicted(FALSE, FALSE) fn == Predicted(FALSE, TRUE)
      precision == SafeDiv(tp, tp + fp)  recall == SafeDiv(tp, tp + fn)
  IN [tp |-> tp, fp |-> fp, tn |-> tn, fn |-> fn, precision |-> precision, recall |-> recall,
      f1 |-> SafeDiv(2 * precision * recall, precision + recall) \div 100,
      accuracy |-> SafeDiv(tp + tn, Len(tally.scored)),
      auc |-> RocAuc(tally.scored),
      uncertain_rate |-> SafeDiv(tally.uncertain, Len(tally.scored))]

EscapeCurve(field) ==
  [i \in DOMAIN Grid |-> [budget |-> Grid[i], caught |-> SafeDiv(tallies[i][field], measurement.n)]]

(* The least effort at which less than tau is caught, on the line between  *)
(* the points of the grid next to it.                                      *)
Crossing(curve, tau) ==
  LET below == {i \in DOMAIN curve : curve[i].caught < tau}
      first == Min(below)
      a == curve[first - 1]  b == curve[first]
  IN CASE below = {} -> 100
       [] below # {} /\ first = 1 -> b.budget
       [] OTHER -> a.budget + ((b.budget - a.budget) * (a.caught - tau)) \div (a.caught - b.caught)

CostToEvade(tau) ==
  LET e_single == Crossing(EscapeCurve("caught_single"), tau)
      e_seq == Crossing(EscapeCurve("caught_seq"), tau)
  IN [e_single |-> e_single, e_seq |-> e_seq, seq_premium |-> Max({e_seq - e_single, 0}),
      human_seq_fp |-> SafeDiv(tallies[Len(Grid) + 1].caught_seq, measurement.n)]

AblationPoint(i) ==
  LET agents == SelectSeq(tallies[i].scored, LAMBDA s : s.is_agent)
  IN [effort |-> Grid[i], auc |-> RocAuc(tallies[i].scored),
      mean_p |-> Mean([k \in DOMAIN agents |-> agents[k].p])]

TacticAblation ==
  LET points == [i \in DOMAIN Grid |-> AblationPoint(i)]
      first == points[1]  last == points[Len(points)]  dt == points[2].effort - first.effort
      area == Total([i \in 1 .. Len(points) - 1 |->
                (points[i].mean_p + points[i + 1].mean_p) * (points[i + 1].effort - points[i].effort)])
  IN [points |-> points, auc_drop |-> first.auc - last.auc,
      p_agent_drop |-> first.mean_p - last.mean_p, area_p_agent |-> area \div 200,
      near_zero_slope |-> IF Len(points) < 2 THEN 0 ELSE (100 * (first.mean_p - points[2].mean_p)) \div dt]

Result ==
  CASE measurement.kind = "evaluate" -> EvalReport(tallies[1])
    [] measurement.kind = "ablate" -> TacticAblation
    [] OTHER -> [tau \in Taus |-> CostToEvade(tau)]

-----------------------------------------------------------------------------
Fresh ==
  /\ length = 0 /\ drawn = 0 /\ deviation = 0 /\ acc = SessionAccumulator
  /\ replay = Test /\ live = Reporting /\ verdicts = <<>>

Init ==
  /\ measurement \in Measurements /\ cohort = 1 /\ session = 1 /\ Fresh
  /\ tallies = [i \in DOMAIN Cohorts |-> Tally] /\ report = <<>>

Begin ==
  /\ length = 0 /\ cohort <= Len(Cohorts)
  /\ length' \in IF Sequential THEN ForcedLengths ELSE NaturalLengths
  /\ drawn' = 0 /\ deviation' = 0 /\ acc' = SessionAccumulator
  /\ replay' = Test /\ live' = Reporting /\ verdicts' = <<>>
  /\ UNCHANGED <<measurement, cursor, tallies, report>>

(* The next command is generated and its events replayed.                  *)
SynthCommand(draw) ==
  /\ drawn < length /\ drawn' = drawn + 1
  /\ Bernoulli(draw.paste, Params.paste_p) /\ Bernoulli(draw.backspace, Params.backspace_p)
  /\ deviation' = Deviation(Params, draw, drawn', deviation)
  /\ \E st \in {FoldLeft(OnEvent, [acc |-> acc, replay |-> replay, live |-> live],
                         SynthEvents(Params, draw, drawn', length, deviation'))} :
       acc' = st.acc /\ replay' = st.replay /\ live' = st.live
  /\ UNCHANGED <<measurement, cursor, length, verdicts, tallies, report>>

Advance ==
  IF session < measurement.n * Len(Cohorts[cohort])
    THEN session' = session + 1 /\ UNCHANGED cohort
    ELSE session' = 1 /\ cohort' = cohort + 1

Over == length > 0 /\ drawn = length

(* The end of a session replayed: the final assessment is forced.          *)
EndReplay ==
  /\ Over /\ Sequential /\ length' = 0 /\ Advance
  /\ replay' = Step(replay, acc) /\ live' = MaybeEmit(live, acc, TRUE)
  /\ LET single == IF EnoughEvidence(acc) THEN Assessment(acc).verdict ELSE "Uncertain"
         v == [single |-> single, seq |-> SeqVerdict(replay', single)]
     IN verdicts' = <<v>> /\ tallies' = [tallies EXCEPT ![cohort] = Caught(@, v)]
  /\ UNCHANGED <<measurement, drawn, deviation, acc, report>>

EndScored ==
  /\ Over /\ ~Sequential /\ length' = 0 /\ Advance
  /\ tallies' = IF EnoughEvidence(acc)
                  THEN [tallies EXCEPT ![cohort] = Scored(@, Assessment(acc), Current.is_agent)]
                  ELSE tallies
  /\ UNCHANGED <<measurement, drawn, deviation, acc, replay, live, verdicts, report>>

Report ==
  /\ cohort > Len(Cohorts) /\ report = <<>> /\ report' = <<Result>>
  /\ UNCHANGED <<measurement, cursor, trace, replay, live, verdicts, tallies>>

Next == Begin \/ EndReplay \/ EndScored \/ Report \/ \E draw \in Draws : SynthCommand(draw)

Spec == Init /\ [][Next]_vars

-----------------------------------------------------------------------------
(* The replay of the harness is the plugin's sequential test: the same     *)
(* average, the same latch, and what it calls caught the plugin has        *)
(* reported as an agent.                                                   *)
HarnessIsLive ==
  /\ \A f \in DOMAIN Test : replay[f] = live[f] \/ (f = "since_last_assess" /\ verdicts # <<>>)
  /\ verdicts # <<>> /\ verdicts[1].seq = "Agent" => "Agent" \in live.reported

(* It costs no less to escape the sequential test than to escape a single  *)
(* snapshot, so the premium is never cut off at zero.                      *)
EscapeOrdered ==
  report # <<>> /\ Sequential =>
    \A tau \in Taus : report[1][tau].e_seq >= report[1][tau].e_single

(* The area under the curve is the share of the pairs of an agent and a    *)
(* human that the model ranks right, a tie counting half.                  *)
TwiceRight(scored) ==
  LET pairs == {x \in (DOMAIN scored) \X (DOMAIN scored) : scored[x[1]].is_agent /\ ~scored[x[2]].is_agent}
  IN <<Cardinality({x \in pairs : scored[x[1]].p > scored[x[2]].p})
         + Cardinality({x \in pairs : scored[x[1]].p >= scored[x[2]].p}), 2 * Cardinality(pairs)>>
AucIsPairs ==
  report # <<>> /\ measurement.kind = "evaluate" =>
    LET right == TwiceRight(tallies[1].scored)
    IN report[1].auc = IF right[2] = 0 THEN 50 ELSE (100 * right[1]) \div right[2]
=============================================================================

----------------------------- MODULE Detection ------------------------------
(***************************************************************************)
(* From collected input to alerts: the collectors of plugin-tty and        *)
(* plugin-process, plugin-agent-detect and plugin-scoring, joined by the   *)
(* event bus.  Agent detection keeps a window per session and emits a      *)
(* verdict every AssessEvery inputs and at the session's end; scoring      *)
(* folds the verdicts into a decaying score per subject and raises alerts. *)
(* Each of the two handles its queue one event at a time, on its own task. *)
(*                                                                         *)
(* Probabilities and confidences are percentages, scores hundredths.  The  *)
(* model's p_agent is any of Probabilities.  EventBus has the bus itself:  *)
(* here the fan-out of an event is one step, and a detection that waits    *)
(* for the scoring queue waits at the head of the ingress.                 *)
(***************************************************************************)
EXTENDS Integers, Sequences, SequencesExt, FiniteSetsExt, Functions

CONSTANTS
  SessionIds,    (* interactive sessions; ids are random, so never reused  *)
  Users,         (* subjects uid:<N> of process events                     *)
  Probabilities, (* values p_agent may take, in percent                    *)
  QueueDepth,    (* queue_depth: of the ingress and of each queue          *)
  AssessEvery, MinEvidence,  (* inputs between verdicts, and before any    *)
  TTL,           (* session_ttl_s                                          *)
  MaxInputs,     (* bound of the model: inputs collected                   *)
  MaxExecs,      (* bound of the model: process events collected           *)
  MaxIdle        (* bound of the model: pauses                             *)

Subjects == SessionIds \cup Users

ASSUME DetectionAssumption ==
  /\ SessionIds \cap Users = {}
  /\ Probabilities \subseteq 0 .. 100
  /\ {QueueDepth, AssessEvery} \subseteq Nat \ {0}
  /\ {MinEvidence, TTL, MaxInputs, MaxExecs, MaxIdle} \subseteq Nat

(* Model::default, DetectConfig::default, ScoringConfig::default.          *)
AgentThreshold   == 62
HumanThreshold   == 35
EscalateAt       == 56   (* the sigmoid of escalate_logit                  *)
AgentWeight      == 6000
UncertainWeight  == 600
UncertainMinConfidence == 50
ProcessWeight    == 500
Decay            == 98
AlertThreshold   == 7500
Negligible       == 1
MaxScore         == 10000

VARIABLES
  stage,     (* stage[s] of the collector: "new", "open", "gone"           *)
  inputs, execs, idles,  (* how many there were, for the bounds            *)
  ingress, detect_q, score_q,
  sessions,  (* agent-detect's map: a function on the sessions it knows    *)
  emitting,  (* the detection its handler is waiting to emit, at most one  *)
  ending,    (* the session to forget once that is done, at most one       *)
  scores,    (* RiskState: a function on the subjects it tracks            *)
  assessed,  (* history: assessed[s], verdicts on s emitted                *)
  scored,    (* history: scored[s], the last of them scoring has handled   *)
  evidence,  (* history: evidence[x], risk added to x since x was dropped  *)
  alerts,    (* history: alerts raised, with the evidence at that time     *)
  lost       (* history: ends that were lost, and to which plugin          *)

bounds    == <<inputs, execs, idles>>
channels  == <<ingress, detect_q, score_q>>
detection == <<sessions, emitting, ending, assessed>>
scoring   == <<scores, scored, evidence, alerts>>
vars      == <<stage, bounds, channels, detection, scoring, lost>>

Start(s)  == [kind |-> "session.start", session |-> s]
Input(s)  == [kind |-> "input", session |-> s]   (* keystroke or command   *)
End(s)    == [kind |-> "session.end", session |-> s]
Exec(u)   == [kind |-> "process.exec", subject |-> u]
Verdicts  == {"Agent", "Human", "Uncertain"}
Detections == [kind : {"detection"}, subject : SessionIds, verdict : Verdicts,
               confidence : 0 .. 100, no : Nat \ {0}]
Telemetry == {Start(s) : s \in SessionIds} \cup {Input(s) : s \in SessionIds}
               \cup {End(s) : s \in SessionIds}
               \cup {Exec(u) : u \in Users}
Events    == Telemetry \cup Detections
Plugins   == {"detect", "score"}
Kinds     == [detect |-> {"session.start", "input", "session.end"},
              score  |-> {"detection", "process.exec", "session.end"}]

NothingKnown == [s \in {} |-> s]

Init ==
  /\ stage = [s \in SessionIds |-> "new"] /\ inputs = 0 /\ execs = 0 /\ idles = 0
  /\ ingress = <<>> /\ detect_q = <<>> /\ score_q = <<>>
  /\ sessions = NothingKnown /\ emitting = <<>> /\ ending = {} /\ scores = NothingKnown
  /\ assessed = [s \in SessionIds |-> 0] /\ scored = [s \in SessionIds |-> 0]
  /\ evidence = [x \in Subjects |-> 0] /\ alerts = {} /\ lost = {}

(***************************************************************************)
(* The bus.                                                                *)
(***************************************************************************)
EndOf(e) == {s \in SessionIds : e = End(s)}

(* try_send: dropped unless a slot is free that is not promised to the     *)
(* detection that waits.                                                   *)
TrySend(e) ==
  IF Len(ingress) + Len(emitting) < QueueDepth
    THEN ingress' = Append(ingress, e) /\ UNCHANGED lost
    ELSE lost' = lost \cup (EndOf(e) \X Plugins) /\ UNCHANGED ingress

Admitted(q, name, e) ==
  IF e.kind \in Kinds[name] /\ Len(q) < QueueDepth THEN Append(q, e) ELSE q

(* Mutated form: a detection is dropped like telemetry.                    *)
MustWait_Never(e) == FALSE

MustWait(e) == e.kind = "detection" /\ Len(score_q) >= QueueDepth

Dispatch ==
  /\ ingress # <<>> /\ ~MustWait(Head(ingress)) /\ ingress' = Tail(ingress)
  /\ detect_q' = Admitted(detect_q, "detect", Head(ingress))
  /\ score_q' = Admitted(score_q, "score", Head(ingress))
  /\ lost' = lost \cup (EndOf(Head(ingress)) \X
              ((IF detect_q' = detect_q THEN {"detect"} ELSE {})
                 \cup (IF score_q' = score_q THEN {"score"} ELSE {})))
  /\ UNCHANGED <<stage, bounds, detection, scoring>>

(***************************************************************************)
(* The collectors.                                                         *)
(***************************************************************************)
Begin(s) ==
  /\ stage[s] = "new" /\ stage' = [stage EXCEPT ![s] = "open"]
  /\ TrySend(Start(s))
  /\ UNCHANGED <<bounds, detect_q, score_q, detection, scoring>>

OnRead(s) ==
  /\ stage[s] = "open" /\ inputs < MaxInputs /\ inputs' = inputs + 1
  /\ TrySend(Input(s))
  /\ UNCHANGED <<stage, execs, idles, detect_q, score_q, detection, scoring>>

OnSessionEnd(s) ==
  /\ stage[s] = "open" /\ stage' = [stage EXCEPT ![s] = "gone"]
  /\ TrySend(End(s))
  /\ UNCHANGED <<bounds, detect_q, score_q, detection, scoring>>

(* A read error leaves run_pipe before it emits the session's end.         *)
ReadFails(s) ==
  /\ stage[s] = "open" /\ stage' = [stage EXCEPT ![s] = "gone"]
  /\ lost' = lost \cup ({s} \X Plugins)
  /\ UNCHANGED <<bounds, channels, detection, scoring>>

ProcessExec(u) ==
  /\ execs < MaxExecs /\ execs' = execs + 1
  /\ TrySend(Exec(u))
  /\ UNCHANGED <<stage, inputs, idles, detect_q, score_q, detection, scoring>>

(***************************************************************************)
(* plugin-agent-detect.                                                    *)
(***************************************************************************)
(* Time passes: every session it knows has been idle for longer.           *)
Idle ==
  /\ idles < MaxIdle /\ idles' = idles + 1
  /\ \E pause \in 1 .. TTL + 1 :
       sessions' = [s \in DOMAIN sessions |-> [sessions[s] EXCEPT !.idle = @ + pause]]
  /\ UNCHANGED <<stage, inputs, execs, channels, emitting, ending, assessed, scoring, lost>>

(* evict_idle; a TTL of 0 disables it.                                     *)
Kept == Restrict(sessions, {s \in DOMAIN sessions : TTL = 0 \/ sessions[s].idle <= TTL})

SessionState == [recorded |-> 0, since_last_assess |-> 0, ewma |-> -1, escalated |-> FALSE, idle |-> 0]

With(f, k, v) == [x \in DOMAIN f \cup {k} |-> IF x = k THEN v ELSE f[x]]

VerdictOf(p) == CASE p >= AgentThreshold -> "Agent" [] p <= HumanThreshold -> "Human" [] OTHER -> "Uncertain"
Gap(p)       == IF p > 50 THEN p - 50 ELSE 50 - p
ConfidenceOf(p) ==
  CASE VerdictOf(p) = "Agent" -> p [] VerdictOf(p) = "Human" -> 100 - p [] OTHER -> 100 - 2 * Gap(p)

(* The EWMA of logit(p_agent), as a probability: seeded by the first       *)
(* assessment, and from then on between its last value and the new one.    *)
Smoothed(old, p) ==
  IF old = -1 THEN {p} ELSE {q \in Probabilities : q \in old .. p \cup p .. old}

Escalated(st, yes) == [st EXCEPT !.escalated = @ \/ yes]

(* maybe_emit on a state st that is due: the handler then waits to emit.   *)
Assess(s, st, sess) ==
  \E p \in Probabilities : \E q \in Smoothed(st.ewma, p) :
    LET sustained == q >= EscalateAt /\ VerdictOf(p) = "Uncertain" /\ ~st.escalated
    IN /\ sessions' = With(sess, s, Escalated([st EXCEPT !.since_last_assess = 0, !.ewma = q], sustained))
       /\ emitting' = <<[kind |-> "detection", subject |-> s, no |-> assessed[s] + 1,
                         verdict    |-> IF sustained THEN "Agent" ELSE VerdictOf(p),
                         confidence |-> IF sustained THEN Max({q, ConfidenceOf(p)}) ELSE ConfidenceOf(p)]>>
       /\ assessed'  = [assessed EXCEPT ![s] = @ + 1]

(* Without enough evidence the count starts again and nothing is emitted.  *)
NoFeatures(s, st, sess) ==
  /\ sessions' = With(sess, s, [st EXCEPT !.since_last_assess = 0])
  /\ UNCHANGED <<emitting, assessed>>

Due(st, force) == force \/ st.since_last_assess >= AssessEvery

MaybeEmit(s, st, sess, force) ==
  \/ /\ ~Due(st, force)
     /\ sessions' = With(sess, s, st) /\ UNCHANGED <<emitting, assessed>>
  \/ Due(st, force) /\ st.recorded < MinEvidence  /\ NoFeatures(s, st, sess)
  \/ Due(st, force) /\ st.recorded >= MinEvidence /\ Assess(s, st, sess)

DetectTakes(e) ==
  /\ emitting = <<>> /\ ending = {} /\ detect_q # <<>>
  /\ e = Head(detect_q) /\ detect_q' = Tail(detect_q)
  /\ UNCHANGED <<stage, bounds, ingress, score_q, scoring, lost>>

DetectStart(s) ==
  /\ DetectTakes(Start(s))
  /\ sessions' = With(Kept, s, IF s \in DOMAIN Kept THEN [Kept[s] EXCEPT !.idle = 0] ELSE SessionState)
  /\ UNCHANGED <<emitting, ending, assessed>>

Recorded(st) ==
  [st EXCEPT !.recorded = @ + 1, !.since_last_assess = @ + 1, !.idle = 0]

(* Input of a session it does not know, or has just evicted, is dropped.   *)
DetectInput(s) ==
  /\ DetectTakes(Input(s)) /\ UNCHANGED ending
  /\ IF s \in DOMAIN Kept
       THEN MaybeEmit(s, Recorded(Kept[s]), Kept, FALSE)
       ELSE sessions' = Kept /\ UNCHANGED <<emitting, assessed>>

(* Mutated form: a session without a final verdict is not forgotten.       *)
DetectEnd_Early(s) ==
  /\ DetectTakes(End(s))
  /\ IF s \in DOMAIN sessions /\ sessions[s].recorded >= MinEvidence
       THEN MaybeEmit(s, sessions[s], sessions, TRUE) /\ ending' = {s}
       ELSE UNCHANGED detection

DetectEnd(s) ==
  /\ DetectTakes(End(s)) /\ ending' = {s}
  /\ IF s \in DOMAIN sessions
       THEN MaybeEmit(s, sessions[s], sessions, TRUE)
       ELSE UNCHANGED <<sessions, emitting, assessed>>

DetectEmits ==
  /\ emitting # <<>> /\ Len(ingress) < QueueDepth
  /\ ingress' = ingress \o emitting /\ emitting' = <<>>
  /\ UNCHANGED <<stage, bounds, detect_q, score_q, sessions, ending, assessed, scoring, lost>>

DetectForgets ==
  /\ emitting = <<>> /\ ending # {}
  /\ sessions' = Restrict(sessions, DOMAIN sessions \ ending) /\ ending' = {}
  /\ UNCHANGED <<stage, bounds, channels, emitting, assessed, scoring, lost>>

(***************************************************************************)
(* plugin-scoring.                                                         *)
(***************************************************************************)
Delta(d) ==
  CASE d.verdict = "Agent" -> (AgentWeight * d.confidence) \div 100
    [] d.verdict = "Uncertain" /\ d.confidence >= UncertainMinConfidence
                           -> (UncertainWeight * d.confidence) \div 100
    [] OTHER -> 0

Get(x) == IF x \in DOMAIN scores THEN scores[x] ELSE 0

(* RiskState::bump, and the alert of handle.  The score and the alert it   *)
(* emits go to the sinks.                                                  *)
Bump(x, delta) ==
  LET new == Min({(Get(x) * Decay) \div 100 + delta, MaxScore})
  IN /\ scores' = IF new <= Negligible THEN Restrict(scores, DOMAIN scores \ {x})
                                       ELSE With(scores, x, new)
     /\ evidence' = [evidence EXCEPT ![x] = @ + delta]
     /\ alerts' = IF new >= AlertThreshold
                    THEN alerts \cup {[subject |-> x, score |-> new, evidence |-> evidence'[x]]}
                    ELSE alerts

ScoreTakes(e) ==
  /\ score_q # <<>> /\ e = Head(score_q) /\ score_q' = Tail(score_q)
  /\ UNCHANGED <<stage, bounds, ingress, detect_q, detection, lost>>

(* Mutated form: the score survives the end of its session.                *)
Removed_Nothing(s) == UNCHANGED scores

Removed(s) == scores' = Restrict(scores, DOMAIN scores \ {s})

ScoreEnd(s) ==
  /\ ScoreTakes(End(s)) /\ Removed(s)
  /\ evidence' = [evidence EXCEPT ![s] = 0]
  /\ UNCHANGED <<scored, alerts>>

ScoreDetection ==
  /\ score_q # <<>> /\ Head(score_q) \in Detections /\ ScoreTakes(Head(score_q))
  /\ LET d == Head(score_q)
     IN /\ scored' = [scored EXCEPT ![d.subject] = d.no]
        /\ IF Delta(d) = 0
             THEN UNCHANGED <<scores, evidence, alerts>>
             ELSE Bump(d.subject, Delta(d))

(* A suspicious executable weighs three times as much.                     *)
ScoreExec(u) ==
  /\ ScoreTakes(Exec(u))
  /\ \E weight \in {ProcessWeight, 3 * ProcessWeight} : Bump(u, weight)
  /\ UNCHANGED scored

Next ==
  \/ \E s \in SessionIds : \/ Begin(s) \/ OnRead(s) \/ OnSessionEnd(s) \/ ReadFails(s)
                           \/ DetectStart(s) \/ DetectInput(s) \/ DetectEnd(s) \/ ScoreEnd(s)
  \/ \E u \in Users : ProcessExec(u) \/ ScoreExec(u)
  \/ Dispatch \/ Idle \/ DetectEmits \/ DetectForgets \/ ScoreDetection

Spec == Init /\ [][Next]_vars

-----------------------------------------------------------------------------
(* Types; the channels stay within their depth, a score within 100, and no *)
(* negligible score takes up a place.                                      *)
TypeOK ==
  /\ stage \in [SessionIds -> {"new", "open", "gone"}]
  /\ {inputs, execs, idles} \subseteq Nat
  /\ \A q \in {ingress, detect_q, score_q} : q \in Seq(Events) /\ Len(q) <= QueueDepth
  /\ DOMAIN sessions \subseteq {s \in SessionIds : stage[s] # "new"}
  /\ \A s \in DOMAIN sessions :
       sessions[s] \in [recorded : Nat, since_last_assess : 0 .. AssessEvery - 1, ewma : -1 .. 100,
                        escalated : BOOLEAN, idle : Nat]
  /\ emitting \in Seq(Detections) /\ Len(emitting) <= 1
  /\ ending \subseteq SessionIds
  /\ DOMAIN scores \subseteq Subjects
  /\ \A x \in DOMAIN scores : scores[x] \in Negligible + 1 .. MaxScore
  /\ {assessed, scored} \subseteq [SessionIds -> Nat]
  /\ evidence \in [Subjects -> Nat]
  /\ alerts \subseteq [subject : Subjects, score : 0 .. MaxScore, evidence : Nat]
  /\ lost \subseteq SessionIds \X Plugins

(* Every verdict is scored once, in the order in which it was given: what  *)
(* is on the way between the two plugins is exactly what scoring lacks.    *)
OnTheWay    == score_q \o ingress \o emitting
PlacesOf(s) == {i \in DOMAIN OnTheWay : OnTheWay[i].kind = "detection" /\ OnTheWay[i].subject = s}
VerdictsScored ==
  \A s \in SessionIds :
    /\ {OnTheWay[i].no : i \in PlacesOf(s)} = scored[s] + 1 .. assessed[s]
    /\ \A i, j \in PlacesOf(s) : i < j => OnTheWay[i].no < OnTheWay[j].no

(* An alert rests on evidence that reaches the threshold by itself, all of *)
(* it gathered since the subject was last dropped.                         *)
AlertsRestOnEvidence == \A a \in alerts : a.evidence >= a.score /\ a.score >= AlertThreshold

(* Where the end of s still is on its way to a plugin with queue q.        *)
EndToCome(s, q) == stage[s] # "gone" \/ End(s) \in Range(ingress) \cup Range(q)

(* The detector remembers a session that is over only if its end was lost. *)
KnownIsLive ==
  \A s \in DOMAIN sessions : EndToCome(s, detect_q) \/ s \in ending \/ <<s, "detect">> \in lost
=============================================================================

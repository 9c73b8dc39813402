--------------------------- MODULE DetectionProofs ---------------------------
(* Proofs about Detection: verdicts are scored once and in order, an alert *)
(* rests on evidence, and nothing is kept of a session that is over.       *)
EXTENDS Detection, SequenceFacts

(***************************************************************************)
(* Types.                                                                  *)
(***************************************************************************)
SessionStates == [recorded : Nat, since_last_assess : 0 .. AssessEvery - 1, ewma : -1 .. 100,
                  escalated : BOOLEAN, idle : Nat]

Known(map) == DOMAIN map \subseteq SessionIds /\ \A s \in DOMAIN map : map[s] \in SessionStates

Counts == /\ stage \in [SessionIds -> {"new", "open", "gone"}]
          /\ inputs \in Nat /\ execs \in Nat /\ idles \in Nat
          /\ lost \subseteq SessionIds \X Plugins

Queue(q)  == q \in Seq(Events) /\ Len(q) <= QueueDepth
Channels  == Queue(ingress) /\ Queue(detect_q) /\ Queue(score_q)
Waiting   == emitting \in Seq(Detections) /\ Len(emitting) <= 1
Detecting == /\ Known(sessions) /\ ending \subseteq SessionIds
             /\ assessed \in [SessionIds -> Nat]
Scoring   == /\ DOMAIN scores \subseteq Subjects
             /\ \A x \in DOMAIN scores : scores[x] \in Negligible + 1 .. MaxScore
             /\ scored \in [SessionIds -> Nat] /\ evidence \in [Subjects -> Nat]
             /\ alerts \subseteq [subject : Subjects, score : 0 .. MaxScore, evidence : Nat]

(* Nothing is known or on its way of a session that has not begun.         *)
NotBegun(s, map, ing, dq) ==
  s \notin DOMAIN map /\ Start(s) \notin Range(ing) \cup Range(dq)
Began == \A s \in SessionIds : stage[s] = "new" => NotBegun(s, sessions, ingress, detect_q)

TypeInv == Counts /\ Channels /\ Waiting /\ Detecting /\ Scoring /\ Began

-----------------------------------------------------------------------------
(* The kinds of events.                                                    *)
LEMMA Kinded ==
  /\ \A e \in Detections : /\ e \in Events /\ e.kind = "detection" /\ e.subject \in SessionIds
                           /\ e.no \in Nat \ {0}
  /\ \A e \in Telemetry : e \in Events /\ e.kind # "detection"
  /\ \A e \in Events : e.kind = "detection" => e \in Detections
  /\ \A s \in SessionIds : Start(s) \in Telemetry /\ Input(s) \in Telemetry /\ End(s) \in Telemetry
  /\ \A u \in Users : Exec(u) \in Telemetry
<1>1. \A e \in Detections : /\ e.kind = "detection" /\ e.subject \in SessionIds
                            /\ e.no \in Nat \ {0}
  BY DEF Detections
<1>2. \A e \in Telemetry : e.kind # "detection"
  BY DEF Telemetry, Start, Input, End, Exec
<1>3. /\ \A s \in SessionIds : Start(s) \in Telemetry /\ Input(s) \in Telemetry /\ End(s) \in Telemetry
      /\ \A u \in Users : Exec(u) \in Telemetry
  BY DEF Telemetry
<1>4. QED
  BY <1>1, <1>2, <1>3 DEF Events

(* Starts and ends are of one session, and nothing else is one.            *)
LEMMA Distinct ==
  /\ \A s, t \in SessionIds : /\ Start(s) = Start(t) => s = t
                              /\ End(s) = End(t) => s = t
                              /\ Start(s) # End(t) /\ Input(s) # Start(t) /\ Input(s) # End(t)
  /\ \A s \in SessionIds : \A u \in Users : Exec(u) # Start(s) /\ Exec(u) # End(s)
  /\ \A s \in SessionIds : \A d \in Detections : d # Start(s) /\ d # End(s)
<1>1. /\ \A s : Start(s).kind = "session.start" /\ Start(s).session = s
      /\ \A s : End(s).kind = "session.end" /\ End(s).session = s
      /\ \A s : Input(s).kind = "input" /\ Exec(s).kind = "process.exec"
      /\ \A d \in Detections : d.kind = "detection"
  BY DEF Start, End, Input, Exec, Detections
<1>2. QED
  BY <1>1

(***************************************************************************)
(* What a step does to the channels.                                       *)
(***************************************************************************)
Adds(q, r, e) == Queue(r) /\ r = Append(q, e) /\ Range(r) = Range(q) \cup {e}

LEMMA Added ==
  ASSUME NEW q, Queue(q), Len(q) < QueueDepth, NEW e \in Events
  PROVE  Adds(q, Append(q, e), e) /\ Append(q, e) # q
<1>1. /\ Append(q, e) \in Seq(Events) /\ Len(Append(q, e)) = Len(q) + 1
      /\ Range(Append(q, e)) = Range(q) \cup {e}
  BY AppendRange DEF Queue
<1>2. Len(q) \in Nat /\ QueueDepth \in Nat
  BY DetectionAssumption DEF Queue
<1>3. QED
  BY <1>1, <1>2 DEF Queue, Adds

Takes(q, r, e) == /\ Queue(r) /\ q # <<>> /\ e = Head(q) /\ e \in Events /\ r = Tail(q)
                  /\ Range(q) = {e} \cup Range(r)

LEMMA Taken ==
  ASSUME NEW q, Queue(q), q # <<>>
  PROVE  Takes(q, Tail(q), Head(q))
<1>1. /\ Head(q) \in Events /\ Tail(q) \in Seq(Events) /\ Len(Tail(q)) = Len(q) - 1
      /\ Range(q) = {Head(q)} \cup Range(Tail(q))
  BY TailRange DEF Queue
<1>2. Len(q) \in Nat /\ QueueDepth \in Nat
  BY DetectionAssumption DEF Queue
<1>3. QED
  BY <1>1, <1>2 DEF Queue, Takes

(* TrySend: the event is in the ingress, or its end is lost.               *)
LEMMA Sent ==
  ASSUME TypeInv, NEW e \in Telemetry, TrySend(e)
  PROVE  /\ Queue(ingress') /\ lost \subseteq lost' /\ lost' \subseteq SessionIds \X Plugins
         /\ \/ Adds(ingress, ingress', e) /\ lost' = lost
            \/ ingress' = ingress /\ \A s \in SessionIds : e = End(s) => <<s, "detect">> \in lost'
<1>1. CASE Len(ingress) + Len(emitting) < QueueDepth
  <2>1. ingress' = Append(ingress, e) /\ lost' = lost
    BY <1>1 DEF TrySend
  <2>2. Len(ingress) < QueueDepth
    <3>1. Len(ingress) \in Nat /\ Len(emitting) \in Nat /\ QueueDepth \in Nat
      BY DetectionAssumption DEF TypeInv, Channels, Waiting, Queue
    <3>2. QED
      BY <1>1, <3>1
  <2>3. Adds(ingress, ingress', e)
    BY <2>1, <2>2, Added, Kinded DEF TypeInv, Channels
  <2>4. QED
    BY <2>1, <2>3 DEF Adds, TypeInv, Counts
<1>2. CASE ~(Len(ingress) + Len(emitting) < QueueDepth)
  <2>1. ingress' = ingress /\ lost' = lost \cup (EndOf(e) \X Plugins)
    BY <1>2 DEF TrySend
  <2>2. QED
    BY <2>1 DEF TypeInv, Counts, Channels, EndOf, Plugins
<1>3. QED
  BY <1>1, <1>2

LEMMA Dispatched ==
  ASSUME TypeInv, Dispatch
  PROVE  LET e == Head(ingress) IN
         /\ Takes(ingress, ingress', e)
         /\ lost \subseteq lost' /\ lost' \subseteq SessionIds \X Plugins
         /\ \/ Adds(detect_q, detect_q', e)
            \/ detect_q' = detect_q /\ \A s \in SessionIds : e = End(s) => <<s, "detect">> \in lost'
         /\ \/ Adds(score_q, score_q', e)
            \/ score_q' = score_q /\ e.kind # "detection"
<1> DEFINE e == Head(ingress)
<1>0. /\ ingress # <<>> /\ ~MustWait(e) /\ ingress' = Tail(ingress)
      /\ detect_q' = Admitted(detect_q, "detect", e) /\ score_q' = Admitted(score_q, "score", e)
      /\ lost' = lost \cup (EndOf(e) \X
              ((IF detect_q' = detect_q THEN {"detect"} ELSE {})
                 \cup (IF score_q' = score_q THEN {"score"} ELSE {})))
  BY DEF Dispatch
<1>1. Takes(ingress, ingress', e)
  BY <1>0, Taken DEF TypeInv, Channels
<1>2. e \in Events
  BY <1>1 DEF Takes
<1> HIDE DEF e
<1>3. lost \subseteq lost' /\ lost' \subseteq SessionIds \X Plugins
  <2>1. EndOf(e) \subseteq SessionIds
    BY DEF EndOf
  <2>2. QED
    BY <1>0, <2>1 DEF TypeInv, Counts, Plugins
<1>4. \/ Adds(detect_q, detect_q', e)
      \/ detect_q' = detect_q /\ \A s \in SessionIds : e = End(s) => <<s, "detect">> \in lost'
  <2>1. CASE e.kind \in Kinds["detect"] /\ Len(detect_q) < QueueDepth
    <3>1. detect_q' = Append(detect_q, e)
      BY <2>1, <1>0 DEF Admitted
    <3>2. QED
      BY <2>1, <3>1, <1>2, Added DEF TypeInv, Channels
  <2>2. CASE ~(e.kind \in Kinds["detect"] /\ Len(detect_q) < QueueDepth)
    <3>1. detect_q' = detect_q
      BY <2>2, <1>0 DEF Admitted
    <3>2. \A s \in SessionIds : e = End(s) => s \in EndOf(e)
      BY DEF EndOf
    <3>3. QED
      BY <1>0, <3>1, <3>2
  <2>3. QED
    BY <2>1, <2>2
<1>5. \/ Adds(score_q, score_q', e)
      \/ score_q' = score_q /\ e.kind # "detection"
  <2>1. CASE e.kind \in Kinds["score"] /\ Len(score_q) < QueueDepth
    <3>1. score_q' = Append(score_q, e)
      BY <2>1, <1>0 DEF Admitted
    <3>2. QED
      BY <2>1, <3>1, <1>2, Added DEF TypeInv, Channels
  <2>2. CASE ~(e.kind \in Kinds["score"] /\ Len(score_q) < QueueDepth)
    <3>1. score_q' = score_q
      BY <2>2, <1>0 DEF Admitted
    <3>2. ASSUME e.kind = "detection" PROVE FALSE
      <4>1. e.kind \in Kinds["score"]
        BY <3>2 DEF Kinds
      <4>2. Len(score_q) \in Nat /\ QueueDepth \in Nat
        BY DetectionAssumption DEF TypeInv, Channels, Queue
      <4>3. Len(score_q) < QueueDepth
        BY <3>2, <1>0, <4>2 DEF MustWait
      <4>4. QED
        BY <2>2, <4>1, <4>3
    <3>3. QED
      BY <3>1, <3>2
  <2>3. QED
    BY <2>1, <2>2
<1>6. QED
  BY <1>1, <1>3, <1>4, <1>5 DEF e

(* The detection the handler waits with.                                   *)
LEMMA Waits ==
  ASSUME Waiting, emitting # <<>>
  PROVE  emitting = <<emitting[1]>> /\ emitting[1] \in Detections /\ Range(emitting) = {emitting[1]}
<1>1. emitting = <<emitting[1]>> /\ emitting[1] \in Detections
  BY Singleton DEF Waiting
<1>2. DOMAIN emitting = {1}
  BY <1>1
<1>3. QED
  BY <1>1, <1>2 DEF Range

LEMMA Forwarded ==
  ASSUME TypeInv, DetectEmits
  PROVE  Adds(ingress, ingress', emitting[1]) /\ emitting' = <<>>
<1>0. emitting # <<>> /\ Len(ingress) < QueueDepth /\ ingress' = ingress \o emitting /\ emitting' = <<>>
  BY DEF DetectEmits
<1>1. emitting = <<emitting[1]>> /\ emitting[1] \in Events
  BY <1>0, Waits, Kinded DEF TypeInv
<1> DEFINE d == emitting[1]
<1>2. \A e \in Events : ingress \o <<e>> = Append(ingress, e)
  BY DEF TypeInv, Channels, Queue
<1>3. ingress' = Append(ingress, d)
  BY <1>0, <1>1, <1>2
<1>4. QED
  BY <1>0, <1>1, <1>3, Added DEF TypeInv, Channels

(***************************************************************************)
(* What agent-detect's handler does to a session.                          *)
(***************************************************************************)
LEMMA WithMap ==
  ASSUME NEW f, NEW k, NEW v
  PROVE  /\ DOMAIN With(f, k, v) = DOMAIN f \cup {k} /\ With(f, k, v)[k] = v
         /\ \A x \in DOMAIN f \ {k} : With(f, k, v)[x] = f[x]
BY DEF With

LEMMA KnownWith ==
  ASSUME NEW map, Known(map), NEW s \in SessionIds, NEW st \in SessionStates
  PROVE  Known(With(map, s, st)) /\ DOMAIN With(map, s, st) = DOMAIN map \cup {s}
<1> DEFINE new == With(map, s, st)
<1>1. /\ DOMAIN new = DOMAIN map \cup {s} /\ new[s] = st
      /\ \A x \in DOMAIN map \ {s} : new[x] = map[x]
  BY DEF With
<1> HIDE DEF new
<1>2. \A x \in DOMAIN new : new[x] \in SessionStates
  BY <1>1 DEF Known
<1>3. QED
  BY <1>1, <1>2 DEF Known, new

LEMMA KeptMap ==
  ASSUME Detecting
  PROVE  Known(Kept) /\ DOMAIN Kept \subseteq DOMAIN sessions
BY DEF Kept, Restrict, Detecting, Known

(* The verdict a handler is left with: none, or the next one of s.         *)
Gives(s, d) == /\ emitting' = <<d>> /\ d \in Detections /\ d.subject = s /\ d.no = assessed[s] + 1
               /\ assessed' = [assessed EXCEPT ![s] = @ + 1]
GivesNone == UNCHANGED <<emitting, assessed>>

LEMMA Confident ==
  ASSUME NEW p \in 0 .. 100
  PROVE  ConfidenceOf(p) \in 0 .. 100 /\ VerdictOf(p) \in Verdicts
BY DEF ConfidenceOf, VerdictOf, Verdicts, Gap, AgentThreshold, HumanThreshold

LEMMA MaxOfTwo ==
  ASSUME NEW p \in 0 .. 100, NEW q \in 0 .. 100
  PROVE  Max({p, q}) \in 0 .. 100
<1>1. \E x \in {p, q} : \A y \in {p, q} : x >= y
  <2>1. p >= q \/ q >= p
    OBVIOUS
  <2>2. QED
    BY <2>1
<1>2. Max({p, q}) \in {p, q}
  BY <1>1 DEF Max
<1>3. QED
  BY <1>2

(* A session with an input recorded that is not assessed yet.              *)
Fed == [recorded : Nat, since_last_assess : 0 .. AssessEvery, ewma : -1 .. 100,
        escalated : BOOLEAN, idle : Nat]

LEMMA FedStates ==
  /\ SessionStates \subseteq Fed
  /\ \A st \in SessionStates : Recorded(st) \in Fed /\ [st EXCEPT !.idle = 0] \in SessionStates
  /\ \A st \in SessionStates, n \in Nat : [st EXCEPT !.idle = @ + n] \in SessionStates
  /\ SessionState \in SessionStates
<1>0. AssessEvery \in Nat \ {0}
  BY DetectionAssumption
<1>1. SessionStates \subseteq Fed
  BY <1>0 DEF SessionStates, Fed
<1>2. ASSUME NEW st \in SessionStates
      PROVE  /\ Recorded(st) \in Fed /\ [st EXCEPT !.idle = 0] \in SessionStates
             /\ \A n \in Nat : [st EXCEPT !.idle = @ + n] \in SessionStates
  <2>1. /\ st.recorded + 1 \in Nat /\ st.since_last_assess + 1 \in 0 .. AssessEvery
        /\ \A n \in Nat : st.idle + n \in Nat
        /\ 0 \in Nat
    BY <1>0 DEF SessionStates
  <2>2. Recorded(st) \in Fed
    BY <2>1 DEF SessionStates, Fed, Recorded
  <2>3. [st EXCEPT !.idle = 0] \in SessionStates
    BY <2>1 DEF SessionStates
  <2>4. \A n \in Nat : [st EXCEPT !.idle = @ + n] \in SessionStates
    BY <2>1 DEF SessionStates
  <2>5. QED
    BY <2>2, <2>3, <2>4
<1>3. SessionState \in SessionStates
  BY <1>0 DEF SessionStates, SessionState
<1>4. QED
  BY <1>1, <1>2, <1>3

LEMMA Assessed ==
  ASSUME Waiting, Detecting, NEW s \in SessionIds, NEW st \in Fed, NEW map, Known(map),
         Assess(s, st, map)
  PROVE  /\ Known(sessions') /\ DOMAIN sessions' = DOMAIN map \cup {s}
         /\ \E d : Gives(s, d)
<1>1. PICK p \in Probabilities : \E q \in Smoothed(st.ewma, p) :
        LET sustained == q >= EscalateAt /\ VerdictOf(p) = "Uncertain" /\ ~st.escalated
        IN /\ sessions' = With(map, s, Escalated([st EXCEPT !.since_last_assess = 0, !.ewma = q], sustained))
           /\ emitting' = <<[kind |-> "detection", subject |-> s, no |-> assessed[s] + 1,
                             verdict    |-> IF sustained THEN "Agent" ELSE VerdictOf(p),
                             confidence |-> IF sustained THEN Max({q, ConfidenceOf(p)}) ELSE ConfidenceOf(p)]>>
           /\ assessed'  = [assessed EXCEPT ![s] = @ + 1]
  BY DEF Assess
<1>2. PICK q \in Smoothed(st.ewma, p) :
        LET sustained == q >= EscalateAt /\ VerdictOf(p) = "Uncertain" /\ ~st.escalated
        IN /\ sessions' = With(map, s, Escalated([st EXCEPT !.since_last_assess = 0, !.ewma = q], sustained))
           /\ emitting' = <<[kind |-> "detection", subject |-> s, no |-> assessed[s] + 1,
                             verdict    |-> IF sustained THEN "Agent" ELSE VerdictOf(p),
                             confidence |-> IF sustained THEN Max({q, ConfidenceOf(p)}) ELSE ConfidenceOf(p)]>>
           /\ assessed'  = [assessed EXCEPT ![s] = @ + 1]
  BY <1>1
<1> DEFINE sustained == q >= EscalateAt /\ VerdictOf(p) = "Uncertain" /\ ~st.escalated
           new == Escalated([st EXCEPT !.since_last_assess = 0, !.ewma = q], sustained)
           d == [kind |-> "detection", subject |-> s, no |-> assessed[s] + 1,
                 verdict    |-> IF sustained THEN "Agent" ELSE VerdictOf(p),
                 confidence |-> IF sustained THEN Max({q, ConfidenceOf(p)}) ELSE ConfidenceOf(p)]
<1>3. p \in 0 .. 100 /\ q \in 0 .. 100
  <2>1. p \in 0 .. 100
    BY DetectionAssumption
  <2>2. q \in Probabilities
    BY <1>1, <1>2 DEF Smoothed
  <2>3. QED
    BY <2>1, <2>2, DetectionAssumption
<1>4. new \in SessionStates
  <2>1. sustained \in BOOLEAN
    OBVIOUS
  <2> HIDE DEF sustained
  <2>2. [st EXCEPT !.since_last_assess = 0, !.ewma = q] \in SessionStates
    <3>1. 0 \in 0 .. AssessEvery - 1 /\ q \in -1 .. 100
      <4>1. AssessEvery \in Nat \ {0}
        BY DetectionAssumption
      <4>2. QED
        BY <1>3, <4>1
    <3>2. QED
      BY <3>1 DEF Fed, SessionStates
  <2>3. \A x \in SessionStates : \A yes \in BOOLEAN : Escalated(x, yes) \in SessionStates
    BY DEF SessionStates, Escalated
  <2>4. QED
    BY <2>1, <2>2, <2>3
<1>5. d \in Detections
  <2>1. ConfidenceOf(p) \in 0 .. 100 /\ VerdictOf(p) \in Verdicts /\ "Agent" \in Verdicts
    BY SMTT(40), <1>3, Confident DEF Verdicts
  <2>2. Max({q, ConfidenceOf(p)}) \in 0 .. 100
    BY <1>3, <2>1, MaxOfTwo
  <2>3. assessed[s] + 1 \in Nat \ {0}
    BY DEF Detecting
  <2> HIDE DEF sustained
  <2>4. QED
    BY <2>1, <2>2, <2>3 DEF Detections
<1>6. d.subject = s /\ d.no = assessed[s] + 1
  OBVIOUS
<1>7. sessions' = With(map, s, new) /\ emitting' = <<d>> /\ assessed' = [assessed EXCEPT ![s] = @ + 1]
  BY <1>2
<1> HIDE DEF new, d, sustained
<1>8. Gives(s, d)
  BY <1>5, <1>6, <1>7 DEF Gives
<1>9. QED
  BY <1>4, <1>7, <1>8, KnownWith

LEMMA Emitted ==
  ASSUME Waiting, Detecting, NEW s \in SessionIds, NEW map, Known(map), NEW st \in Fed,
         NEW force \in BOOLEAN, MaybeEmit(s, st, map, force)
  PROVE  /\ Known(sessions') /\ DOMAIN sessions' = DOMAIN map \cup {s}
         /\ GivesNone \/ \E d : Gives(s, d)
<1>0. AssessEvery \in Nat \ {0}
  BY DetectionAssumption
<1>1. CASE ~Due(st, force) /\ sessions' = With(map, s, st) /\ GivesNone
  <2>1. st.since_last_assess \in 0 .. AssessEvery /\ ~(st.since_last_assess >= AssessEvery)
    BY <1>1 DEF Due, Fed
  <2>2. st \in SessionStates
    BY <1>0, <2>1 DEF Fed, SessionStates
  <2>3. QED
    BY <1>1, <2>2, KnownWith
<1>2. CASE NoFeatures(s, st, map)
  <2>1. [st EXCEPT !.since_last_assess = 0] \in SessionStates
    BY <1>0 DEF Fed, SessionStates
  <2>2. QED
    BY <1>2, <2>1, KnownWith DEF NoFeatures, GivesNone
<1>3. CASE Assess(s, st, map)
  BY <1>3, Assessed
<1>4. QED
  BY <1>1, <1>2, <1>3 DEF MaybeEmit, GivesNone

(***************************************************************************)
(* What scoring does to a subject.                                         *)
(***************************************************************************)
(* The score of x is no more than it was and delta; no other changed.      *)
LEMMA Bumped ==
  ASSUME Scoring, NEW x \in Subjects, NEW delta \in Nat, Bump(x, delta)
  PROVE  /\ DOMAIN scores' \subseteq Subjects
         /\ \A y \in DOMAIN scores' : /\ scores'[y] \in Negligible + 1 .. MaxScore
                                      /\ y = x => scores'[y] <= Get(x) + delta
                                      /\ y # x => y \in DOMAIN scores /\ scores'[y] = scores[y]
         /\ evidence' = [evidence EXCEPT ![x] = @ + delta]
         /\ \/ alerts' = alerts
            \/ \E new \in AlertThreshold .. MaxScore :
                 /\ new <= Get(x) + delta
                 /\ alerts' = alerts \cup {[subject |-> x, score |-> new, evidence |-> evidence'[x]]}
<1> DEFINE old == Get(x)
           sum == (old * Decay) \div 100 + delta
           new == Min({sum, MaxScore})
<1>0. /\ scores' = IF new <= Negligible THEN Restrict(scores, DOMAIN scores \ {x})
                                        ELSE With(scores, x, new)
      /\ evidence' = [evidence EXCEPT ![x] = @ + delta]
      /\ alerts' = IF new >= AlertThreshold
                     THEN alerts \cup {[subject |-> x, score |-> new, evidence |-> evidence'[x]]}
                     ELSE alerts
  BY DEF Bump
<1>1. old \in Nat /\ Decay = 98 /\ MaxScore = 10000 /\ Negligible = 1 /\ AlertThreshold = 7500
  <2>1. Decay = 98 /\ MaxScore = 10000 /\ Negligible = 1 /\ AlertThreshold = 7500
    BY DEF Decay, MaxScore, Negligible, AlertThreshold
  <2>2. ASSUME NEW y \in DOMAIN scores PROVE scores[y] \in Nat
    <3>1. scores[y] \in Negligible + 1 .. MaxScore
      BY DEF Scoring
    <3>2. \A n \in Negligible + 1 .. MaxScore : n \in Nat
      BY SMTT(40), <2>1
    <3>3. QED
      BY <3>1, <3>2
  <2>3. old \in Nat
    BY <2>2 DEF Get
  <2>4. QED
    BY <2>1, <2>3
<1>2. sum \in Nat /\ sum <= old + delta
  <2> HIDE DEF old
  <2>1. (old * 98) \div 100 \in Nat /\ (old * 98) \div 100 <= old
    BY <1>1
  <2>2. QED
    BY <1>1, <2>1
<1> HIDE DEF sum, old
<1>3. new \in 0 .. MaxScore /\ new <= old + delta
  <2>1. \E m \in {sum, MaxScore} : \A y \in {sum, MaxScore} : m <= y
    BY <1>1, <1>2
  <2>2. new \in {sum, MaxScore} /\ new <= sum /\ new <= MaxScore
    BY <2>1 DEF Min
  <2>3. old + delta \in Nat
    BY <1>1
  <2>4. new \in Nat
    BY <1>1, <1>2, <2>2
  <2> HIDE DEF new
  <2>5. QED
    BY SMTT(40), <1>1, <1>2, <2>2, <2>3, <2>4
<1> HIDE DEF new
<1>4. DOMAIN scores' \subseteq Subjects
  BY <1>0 DEF With, Restrict, Scoring
<1>5. ASSUME NEW y \in DOMAIN scores'
      PROVE  /\ scores'[y] \in Negligible + 1 .. MaxScore
             /\ y = x => scores'[y] <= old + delta
             /\ y # x => y \in DOMAIN scores /\ scores'[y] = scores[y]
  <2>1. CASE new <= Negligible
    <3>1. y \in DOMAIN scores \ {x} /\ scores'[y] = scores[y]
      BY <1>0, <1>5, <2>1 DEF Restrict
    <3>2. QED
      BY <3>1 DEF Scoring
  <2>2. CASE ~(new <= Negligible)
    <3>1. scores' = With(scores, x, new)
      BY <1>0, <2>2
    <3>2. new \in Negligible + 1 .. MaxScore
      BY SMTT(40), <1>1, <1>3, <2>2
    <3>3. CASE y = x
      BY <1>3, <3>1, <3>2, <3>3 DEF With
    <3>4. CASE y # x
      <4>1. y \in DOMAIN scores /\ scores'[y] = scores[y]
        BY <1>5, <3>1, <3>4 DEF With
      <4>2. QED
        BY <3>4, <4>1 DEF Scoring
    <3>5. QED
      BY <3>3, <3>4
  <2>3. QED
    BY <2>1, <2>2
<1>6. \/ alerts' = alerts
      \/ \E n \in AlertThreshold .. MaxScore :
           /\ n <= old + delta
           /\ alerts' = alerts \cup {[subject |-> x, score |-> n, evidence |-> evidence'[x]]}
  <2>1. CASE new >= AlertThreshold
    <3>1. new \in AlertThreshold .. MaxScore
      <4>1. new \in Nat /\ new <= MaxScore /\ AlertThreshold \in Nat /\ MaxScore \in Nat
        BY <1>1, <1>3
      <4>2. QED
        BY <2>1, <4>1
    <3>2. QED
      BY <1>0, <1>3, <2>1, <3>1
  <2>2. CASE ~(new >= AlertThreshold)
    BY <1>0, <2>2
  <2>3. QED
    BY <2>1, <2>2
<1>7. QED
  BY <1>0, <1>4, <1>5, <1>6 DEF old

LEMMA BumpTypes ==
  ASSUME Scoring, NEW x \in Subjects, NEW delta \in Nat, Bump(x, delta),
         scored' \in [SessionIds -> Nat]
  PROVE  Scoring'
<1>1. evidence' \in [Subjects -> Nat]
  BY Bumped DEF Scoring
<1>2. alerts' \subseteq [subject : Subjects, score : 0 .. MaxScore, evidence : Nat]
  <2>1. CASE alerts' = alerts
    BY <2>1 DEF Scoring
  <2>2. ASSUME NEW n \in AlertThreshold .. MaxScore,
               alerts' = alerts \cup {[subject |-> x, score |-> n, evidence |-> evidence'[x]]}
        PROVE  alerts' \subseteq [subject : Subjects, score : 0 .. MaxScore, evidence : Nat]
    <3>1. n \in 0 .. MaxScore /\ evidence'[x] \in Nat
      BY <1>1 DEF AlertThreshold, MaxScore
    <3>2. QED
      BY <2>2, <3>1 DEF Scoring
  <2>3. QED
    BY <2>1, <2>2, Bumped
<1>3. QED
  BY <1>1, <1>2, Bumped DEF Scoring

LEMMA Weight ==
  ASSUME NEW d \in Detections
  PROVE  Delta(d) \in Nat
<1>1. d.confidence \in 0 .. 100
  BY DEF Detections
<1>2. (AgentWeight * d.confidence) \div 100 \in Nat /\ (UncertainWeight * d.confidence) \div 100 \in Nat
  BY <1>1 DEF AgentWeight, UncertainWeight
<1>3. QED
  BY <1>2 DEF Delta

(***************************************************************************)
(* Types, action by action.                                                *)
(***************************************************************************)
LEMMA ScoringKept == ASSUME Scoring, UNCHANGED scoring PROVE Scoring'
BY DEF Scoring, scoring

LEMMA DetectingKept == ASSUME Detecting, UNCHANGED <<sessions, ending, assessed>> PROVE Detecting'
BY DEF Detecting

LEMMA WaitingKept == ASSUME Waiting, UNCHANGED emitting PROVE Waiting'
BY DEF Waiting

(* The collectors.                                                         *)
LEMMA CollectTypes ==
  ASSUME TypeInv, NEW e \in Telemetry, TrySend(e),
         UNCHANGED <<detect_q, score_q, detection, scoring>>,
         stage' \in [SessionIds -> {"new", "open", "gone"}],
         inputs' \in Nat, execs' \in Nat, idles' \in Nat,
         \A s \in SessionIds : stage'[s] = "new" => stage[s] = "new" /\ e # Start(s)
  PROVE  TypeInv'
<1>1. Counts'
  BY Sent DEF Counts
<1>2. Channels'
  BY Sent DEF TypeInv, Channels
<1>3. Waiting' /\ Detecting' /\ Scoring'
  BY ScoringKept, DetectingKept, WaitingKept DEF TypeInv, detection
<1>4. Range(ingress') \subseteq Range(ingress) \cup {e}
  BY Sent DEF Adds
<1>5. Began'
  BY <1>4 DEF TypeInv, Began, NotBegun, detection
<1>6. QED
  BY <1>1, <1>2, <1>3, <1>5 DEF TypeInv

Collects ==
  \/ \E s \in SessionIds : Begin(s) \/ OnRead(s) \/ OnSessionEnd(s)
  \/ \E u \in Users : ProcessExec(u)

LEMMA TypeCollects == ASSUME TypeInv, Collects PROVE TypeInv'
<1>0. /\ stage \in [SessionIds -> {"new", "open", "gone"}]
      /\ inputs \in Nat /\ execs \in Nat /\ idles \in Nat
  BY DEF TypeInv, Counts
<1>1. ASSUME NEW s \in SessionIds, Begin(s) PROVE TypeInv'
  <2>1. /\ stage' = [stage EXCEPT ![s] = "open"] /\ TrySend(Start(s))
        /\ UNCHANGED <<bounds, detect_q, score_q, detection, scoring>>
    BY <1>1 DEF Begin
  <2>2. /\ stage' \in [SessionIds -> {"new", "open", "gone"}]
        /\ \A t \in SessionIds : stage'[t] = "new" => stage[t] = "new" /\ t # s
    BY <1>0, <2>1
  <2>3. Start(s) \in Telemetry /\ \A t \in SessionIds : t # s => Start(s) # Start(t)
    BY Kinded, Distinct
  <2>4. inputs' \in Nat /\ execs' \in Nat /\ idles' \in Nat
    BY <1>0, <2>1 DEF bounds
  <2>5. QED
    BY <2>1, <2>2, <2>3, <2>4, CollectTypes
<1>2. ASSUME NEW s \in SessionIds, OnRead(s) PROVE TypeInv'
  <2>1. /\ inputs' = inputs + 1 /\ TrySend(Input(s))
        /\ UNCHANGED <<stage, execs, idles, detect_q, score_q, detection, scoring>>
    BY <1>2 DEF OnRead
  <2>2. stage' \in [SessionIds -> {"new", "open", "gone"}] /\ stage' = stage
    BY <1>0, <2>1
  <2>3. Input(s) \in Telemetry /\ \A t \in SessionIds : Input(s) # Start(t)
    BY Kinded, Distinct
  <2>4. inputs' \in Nat /\ execs' \in Nat /\ idles' \in Nat
    BY <1>0, <2>1
  <2>5. QED
    BY <2>1, <2>2, <2>3, <2>4, CollectTypes
<1>3. ASSUME NEW s \in SessionIds, OnSessionEnd(s) PROVE TypeInv'
  <2>1. /\ stage' = [stage EXCEPT ![s] = "gone"] /\ TrySend(End(s))
        /\ UNCHANGED <<bounds, detect_q, score_q, detection, scoring>>
    BY <1>3 DEF OnSessionEnd
  <2>2. /\ stage' \in [SessionIds -> {"new", "open", "gone"}]
        /\ \A t \in SessionIds : stage'[t] = "new" => stage[t] = "new"
    BY <1>0, <2>1
  <2>3. End(s) \in Telemetry /\ \A t \in SessionIds : End(s) # Start(t)
    BY Kinded, Distinct
  <2>4. inputs' \in Nat /\ execs' \in Nat /\ idles' \in Nat
    BY <1>0, <2>1 DEF bounds
  <2>5. QED
    BY <2>1, <2>2, <2>3, <2>4, CollectTypes
<1>4. ASSUME NEW u \in Users, ProcessExec(u) PROVE TypeInv'
  <2>1. /\ execs' = execs + 1 /\ TrySend(Exec(u))
        /\ UNCHANGED <<stage, inputs, idles, detect_q, score_q, detection, scoring>>
    BY <1>4 DEF ProcessExec
  <2>2. stage' \in [SessionIds -> {"new", "open", "gone"}] /\ stage' = stage
    BY <1>0, <2>1
  <2>3. Exec(u) \in Telemetry /\ \A t \in SessionIds : Exec(u) # Start(t)
    BY Kinded, Distinct
  <2>4. inputs' \in Nat /\ execs' \in Nat /\ idles' \in Nat
    BY <1>0, <2>1
  <2>5. QED
    BY <2>1, <2>2, <2>3, <2>4, CollectTypes
<1>5. QED
  BY <1>1, <1>2, <1>3, <1>4 DEF Collects

LEMMA TypeReadFails ==
  ASSUME TypeInv, NEW s \in SessionIds, ReadFails(s)
  PROVE  TypeInv'
<1>1. /\ stage' = [stage EXCEPT ![s] = "gone"] /\ lost' = lost \cup ({s} \X Plugins)
      /\ UNCHANGED <<bounds, channels, detection, scoring>>
  BY DEF ReadFails
<1>2. /\ stage' \in [SessionIds -> {"new", "open", "gone"}]
      /\ \A t \in SessionIds : stage'[t] = "new" => stage[t] = "new"
  BY <1>1 DEF TypeInv, Counts
<1>3. Counts'
  BY <1>1, <1>2 DEF TypeInv, Counts, bounds
<1>4. Channels' /\ Waiting' /\ Detecting' /\ Scoring'
  BY <1>1, ScoringKept, DetectingKept, WaitingKept DEF TypeInv, detection, channels, Channels
<1>5. Began'
  BY <1>1, <1>2 DEF TypeInv, Began, NotBegun, channels, detection
<1>6. QED
  BY <1>3, <1>4, <1>5 DEF TypeInv

(* The bus.                                                                *)
LEMMA TypeDispatch == ASSUME TypeInv, Dispatch PROVE TypeInv'
<1> DEFINE e == Head(ingress)
<1>1. /\ Takes(ingress, ingress', e)
      /\ lost' \subseteq SessionIds \X Plugins
      /\ Adds(detect_q, detect_q', e) \/ detect_q' = detect_q
      /\ Adds(score_q, score_q', e) \/ score_q' = score_q
  BY Dispatched
<1>2. UNCHANGED <<stage, bounds, detection, scoring>>
  BY DEF Dispatch
<1> HIDE DEF e
<1>3. Counts'
  BY <1>1, <1>2 DEF TypeInv, Counts, bounds
<1>4. Channels'
  BY <1>1 DEF TypeInv, Channels, Takes, Adds
<1>5. Waiting' /\ Detecting' /\ Scoring'
  BY <1>2, ScoringKept, DetectingKept, WaitingKept DEF TypeInv, detection
<1>6. /\ Range(ingress') \subseteq Range(ingress)
      /\ Range(detect_q') \subseteq Range(detect_q) \cup Range(ingress)
  BY <1>1 DEF Takes, Adds
<1>7. Began'
  BY <1>2, <1>6 DEF TypeInv, Began, NotBegun, detection
<1>8. QED
  BY <1>3, <1>4, <1>5, <1>7 DEF TypeInv

LEMMA TypeDetectEmits == ASSUME TypeInv, DetectEmits PROVE TypeInv'
<1> DEFINE d == emitting[1]
<1>1. Adds(ingress, ingress', d) /\ emitting' = <<>>
  BY Forwarded
<1>2. UNCHANGED <<stage, bounds, detect_q, score_q, sessions, ending, assessed, scoring, lost>>
  BY DEF DetectEmits
<1>3. d \in Detections
  BY Waits DEF TypeInv, DetectEmits
<1> HIDE DEF d
<1>4. Counts'
  BY <1>2 DEF TypeInv, Counts, bounds
<1>5. Channels'
  BY <1>1, <1>2 DEF TypeInv, Channels, Adds
<1>6. Waiting'
  BY <1>1 DEF Waiting
<1>7. Detecting' /\ Scoring'
  BY <1>2, ScoringKept, DetectingKept DEF TypeInv
<1>8. Range(ingress') = Range(ingress) \cup {d}
  BY <1>1 DEF Adds
<1>9. Began'
  BY <1>2, <1>3, <1>8, Distinct DEF TypeInv, Began, NotBegun
<1>10. QED
  BY <1>4, <1>5, <1>6, <1>7, <1>9 DEF TypeInv

(* agent-detect.                                                           *)
LEMMA TypeQuiet == ASSUME TypeInv, Idle \/ DetectForgets PROVE TypeInv'
<1>1. UNCHANGED <<stage, inputs, execs, channels, emitting, assessed, scoring, lost>>
  BY DEF Idle, DetectForgets, bounds
<1>2. Counts'
  BY <1>1 DEF TypeInv, Counts, Idle, DetectForgets, bounds
<1>3. Channels' /\ Waiting' /\ Scoring'
  BY <1>1, ScoringKept, WaitingKept DEF TypeInv, channels, Channels
<1>4. Detecting' /\ DOMAIN sessions' \subseteq DOMAIN sessions
  <2>1. CASE Idle
    <3>1. PICK pause \in 1 .. TTL + 1 :
            sessions' = [s \in DOMAIN sessions |-> [sessions[s] EXCEPT !.idle = @ + pause]] /\ ending' = ending
      BY <2>1 DEF Idle
    <3>. pause \in Nat
      BY DetectionAssumption
    <3>2. Known(sessions') /\ DOMAIN sessions' = DOMAIN sessions
      BY <3>1, FedStates DEF TypeInv, Detecting, Known
    <3>3. QED
      BY <1>1, <3>1, <3>2 DEF TypeInv, Detecting
  <2>2. CASE DetectForgets
    <3>1. sessions' = Restrict(sessions, DOMAIN sessions \ ending) /\ ending' = {}
      BY <2>2 DEF DetectForgets
    <3>2. Known(sessions') /\ DOMAIN sessions' \subseteq DOMAIN sessions
      BY <3>1 DEF TypeInv, Detecting, Known, Restrict
    <3>3. QED
      BY <1>1, <3>1, <3>2 DEF TypeInv, Detecting
  <2>3. QED
    BY <2>1, <2>2
<1>5. Began'
  BY <1>1, <1>4 DEF TypeInv, Began, NotBegun, channels
<1>6. QED
  BY <1>2, <1>3, <1>4, <1>5 DEF TypeInv

(* What each of its handlers does.                                         *)
Verdict(s) == GivesNone \/ \E d : Gives(s, d)

LEMMA StartEffect ==
  ASSUME TypeInv, NEW s \in SessionIds, DetectStart(s)
  PROVE  /\ DetectTakes(Start(s)) /\ Known(sessions') /\ DOMAIN sessions' \subseteq DOMAIN sessions \cup {s}
         /\ GivesNone /\ ending' = ending
<1>1. /\ DetectTakes(Start(s)) /\ GivesNone /\ ending' = ending
      /\ sessions' = With(Kept, s, IF s \in DOMAIN Kept THEN [Kept[s] EXCEPT !.idle = 0] ELSE SessionState)
  BY DEF DetectStart, GivesNone
<1>2. Known(Kept) /\ DOMAIN Kept \subseteq DOMAIN sessions
  BY KeptMap DEF TypeInv
<1>3. (IF s \in DOMAIN Kept THEN [Kept[s] EXCEPT !.idle = 0] ELSE SessionState) \in SessionStates
  BY <1>2, FedStates DEF Known
<1>4. Known(sessions') /\ DOMAIN sessions' = DOMAIN Kept \cup {s}
  BY <1>1, <1>2, <1>3, KnownWith
<1>5. QED
  BY <1>1, <1>2, <1>4

LEMMA InputEffect ==
  ASSUME TypeInv, NEW s \in SessionIds, DetectInput(s)
  PROVE  /\ DetectTakes(Input(s)) /\ Known(sessions') /\ DOMAIN sessions' \subseteq DOMAIN sessions
         /\ Verdict(s) /\ ending' = ending
<1>1. /\ DetectTakes(Input(s)) /\ ending' = ending
      /\ IF s \in DOMAIN Kept
           THEN MaybeEmit(s, Recorded(Kept[s]), Kept, FALSE)
           ELSE sessions' = Kept /\ UNCHANGED <<emitting, assessed>>
  BY DEF DetectInput
<1>2. Known(Kept) /\ DOMAIN Kept \subseteq DOMAIN sessions
  BY KeptMap DEF TypeInv
<1>3. CASE s \in DOMAIN Kept
  <2>1. Recorded(Kept[s]) \in Fed
    BY <1>2, <1>3, FedStates DEF Known
  <2>2. Known(sessions') /\ DOMAIN sessions' = DOMAIN Kept \cup {s} /\ Verdict(s)
    BY <1>1, <1>2, <1>3, <2>1, Emitted DEF TypeInv, Verdict
  <2>3. QED
    BY <1>1, <1>2, <1>3, <2>2
<1>4. CASE s \notin DOMAIN Kept
  BY <1>1, <1>2, <1>4 DEF Verdict, GivesNone
<1>5. QED
  BY <1>3, <1>4

LEMMA EndEffect ==
  ASSUME TypeInv, NEW s \in SessionIds, DetectEnd(s)
  PROVE  /\ DetectTakes(End(s)) /\ Known(sessions') /\ DOMAIN sessions' \subseteq DOMAIN sessions
         /\ Verdict(s) /\ ending' = {s}
<1>1. /\ DetectTakes(End(s)) /\ ending' = {s}
      /\ IF s \in DOMAIN sessions
           THEN MaybeEmit(s, sessions[s], sessions, TRUE)
           ELSE UNCHANGED <<sessions, emitting, assessed>>
  BY DEF DetectEnd
<1>2. Known(sessions)
  BY DEF TypeInv, Detecting
<1>3. CASE s \in DOMAIN sessions
  <2>1. sessions[s] \in Fed
    BY <1>2, <1>3, FedStates DEF Known
  <2>2. Known(sessions') /\ DOMAIN sessions' = DOMAIN sessions \cup {s} /\ Verdict(s)
    BY <1>1, <1>2, <1>3, <2>1, Emitted DEF TypeInv, Verdict
  <2>3. QED
    BY <1>1, <1>3, <2>2
<1>4. CASE s \notin DOMAIN sessions
  BY <1>1, <1>2, <1>4 DEF Verdict, GivesNone
<1>5. QED
  BY <1>3, <1>4

LEMMA DetectTook ==
  ASSUME TypeInv, NEW e, DetectTakes(e)
  PROVE  /\ Takes(detect_q, detect_q', e) /\ emitting = <<>> /\ ending = {}
         /\ UNCHANGED <<stage, bounds, ingress, score_q, scoring, lost>>
<1>1. /\ emitting = <<>> /\ ending = {} /\ detect_q # <<>>
      /\ e = Head(detect_q) /\ detect_q' = Tail(detect_q)
      /\ UNCHANGED <<stage, bounds, ingress, score_q, scoring, lost>>
  BY DEF DetectTakes
<1>2. QED
  BY <1>1, Taken DEF TypeInv, Channels

LEMMA DetectTypes ==
  ASSUME TypeInv, NEW s \in SessionIds, NEW e, DetectTakes(e), Known(sessions'), Verdict(s),
         ending' \subseteq SessionIds,
         DOMAIN sessions' \subseteq DOMAIN sessions \cup {t \in SessionIds : e = Start(t)}
  PROVE  TypeInv'
<1>1. /\ Takes(detect_q, detect_q', e)
      /\ UNCHANGED <<stage, bounds, ingress, score_q, scoring, lost>>
  BY DetectTook
<1>2. Counts'
  BY <1>1 DEF TypeInv, Counts, bounds
<1>3. Channels'
  BY <1>1 DEF TypeInv, Channels, Takes
<1>4. Scoring'
  BY <1>1, ScoringKept DEF TypeInv
<1>5. Waiting' /\ Detecting'
  <2>1. CASE GivesNone
    BY <2>1 DEF TypeInv, GivesNone, Waiting, Detecting
  <2>2. ASSUME NEW d, Gives(s, d) PROVE Waiting' /\ Detecting'
    <3>1. emitting' = <<d>> /\ d \in Detections /\ assessed' = [assessed EXCEPT ![s] = @ + 1]
      BY <2>2 DEF Gives
    <3>2. Waiting'
      BY <3>1 DEF Waiting
    <3>3. Detecting'
      BY <3>1 DEF TypeInv, Detecting
    <3>4. QED
      BY <3>2, <3>3
  <2>3. QED
    BY <2>1, <2>2 DEF Verdict
<1>6. Began'
  <2> SUFFICES ASSUME NEW t \in SessionIds, stage'[t] = "new"
               PROVE  NotBegun(t, sessions', ingress', detect_q')
    BY DEF Began
  <2>1. NotBegun(t, sessions, ingress, detect_q)
    BY <1>1 DEF TypeInv, Began
  <2>2. Range(detect_q) = {e} \cup Range(detect_q') /\ ingress' = ingress
    BY <1>1 DEF Takes
  <2>3. QED
    BY <2>1, <2>2 DEF NotBegun
<1>7. QED
  BY <1>2, <1>3, <1>4, <1>5, <1>6 DEF TypeInv

LEMMA TypeDetects ==
  ASSUME TypeInv, NEW s \in SessionIds, DetectStart(s) \/ DetectInput(s) \/ DetectEnd(s)
  PROVE  TypeInv'
<1>1. CASE DetectStart(s)
  <2>1. Verdict(s) /\ ending' \subseteq SessionIds
    BY <1>1, StartEffect DEF Verdict, TypeInv, Detecting
  <2>2. QED
    BY <1>1, <2>1, StartEffect, DetectTypes
<1>2. CASE DetectInput(s)
  <2>1. ending' \subseteq SessionIds
    BY <1>2, InputEffect DEF TypeInv, Detecting
  <2>2. QED
    BY <1>2, <2>1, InputEffect, DetectTypes
<1>3. CASE DetectEnd(s)
  BY <1>3, EndEffect, DetectTypes
<1>4. QED
  BY <1>1, <1>2, <1>3

(* Scoring.                                                                *)
LEMMA ScoreTook ==
  ASSUME TypeInv, NEW e, ScoreTakes(e)
  PROVE  /\ Takes(score_q, score_q', e)
         /\ UNCHANGED <<stage, bounds, ingress, detect_q, detection, lost>>
<1>1. /\ score_q # <<>> /\ e = Head(score_q) /\ score_q' = Tail(score_q)
      /\ UNCHANGED <<stage, bounds, ingress, detect_q, detection, lost>>
  BY DEF ScoreTakes
<1>2. QED
  BY <1>1, Taken DEF TypeInv, Channels

LEMMA ScoreTypes ==
  ASSUME TypeInv, NEW e, ScoreTakes(e), Scoring'
  PROVE  TypeInv'
<1>1. /\ Takes(score_q, score_q', e)
      /\ UNCHANGED <<stage, bounds, ingress, detect_q, detection, lost>>
  BY ScoreTook
<1>2. Counts'
  BY <1>1 DEF TypeInv, Counts, bounds
<1>3. Channels'
  BY <1>1 DEF TypeInv, Channels, Takes
<1>4. Waiting' /\ Detecting'
  BY <1>1, DetectingKept, WaitingKept DEF TypeInv, detection
<1>5. Began'
  BY <1>1 DEF TypeInv, Began, NotBegun, detection
<1>6. QED
  BY <1>2, <1>3, <1>4, <1>5 DEF TypeInv

LEMMA TypeScoreEnd == ASSUME TypeInv, NEW s \in SessionIds, ScoreEnd(s) PROVE TypeInv'
<1>1. /\ ScoreTakes(End(s)) /\ scores' = Restrict(scores, DOMAIN scores \ {s})
      /\ evidence' = [evidence EXCEPT ![s] = 0] /\ UNCHANGED <<scored, alerts>>
  BY DEF ScoreEnd, Removed
<1>2. Scoring'
  BY <1>1 DEF TypeInv, Scoring, Restrict
<1>3. QED
  BY <1>1, <1>2, ScoreTypes

LEMMA TypeScoreExec == ASSUME TypeInv, NEW u \in Users, ScoreExec(u) PROVE TypeInv'
<1>1. ScoreTakes(Exec(u)) /\ scored' = scored
  BY DEF ScoreExec
<1>2. PICK weight \in {ProcessWeight, 3 * ProcessWeight} : Bump(u, weight)
  BY DEF ScoreExec
<1>3. weight \in Nat /\ u \in Subjects
  BY DEF ProcessWeight, Subjects
<1>4. Scoring'
  BY <1>1, <1>2, <1>3, BumpTypes DEF TypeInv, Scoring
<1>5. QED
  BY <1>1, <1>4, ScoreTypes

LEMMA TypeScoreDetection == ASSUME TypeInv, ScoreDetection PROVE TypeInv'
<1> DEFINE d == Head(score_q)
<1>1. /\ d \in Detections /\ ScoreTakes(d) /\ scored' = [scored EXCEPT ![d.subject] = d.no]
      /\ IF Delta(d) = 0 THEN UNCHANGED <<scores, evidence, alerts>> ELSE Bump(d.subject, Delta(d))
  BY DEF ScoreDetection
<1> HIDE DEF d
<1>2. d.subject \in SessionIds /\ d.no \in Nat
  BY <1>1, Kinded
<1>3. scored' \in [SessionIds -> Nat]
  BY <1>1, <1>2 DEF TypeInv, Scoring
<1>4. Scoring'
  <2>1. CASE Delta(d) = 0
    BY <1>1, <1>3, <2>1 DEF TypeInv, Scoring
  <2>2. CASE Delta(d) # 0
    <3>1. Delta(d) \in Nat /\ d.subject \in Subjects
      BY <1>1, <1>2, Weight DEF Subjects
    <3>2. QED
      BY <1>1, <1>3, <2>2, <3>1, BumpTypes DEF TypeInv
  <2>3. QED
    BY <2>1, <2>2
<1>5. QED
  BY <1>1, <1>4, ScoreTypes

LEMMA TypeInit == Init => TypeInv
<1> SUFFICES ASSUME Init PROVE TypeInv
  OBVIOUS
<1>0. QueueDepth \in Nat \ {0}
  BY DetectionAssumption
<1>1. /\ DOMAIN NothingKnown = {}
      /\ <<>> \in Seq(Events) /\ <<>> \in Seq(Detections) /\ Len(<<>>) = 0 /\ Range(<<>>) = {}
  BY DEF NothingKnown, Range
<1>2. Counts /\ Channels /\ Waiting
  BY <1>0, <1>1 DEF Init, Counts, Channels, Queue, Waiting
<1>3. Detecting /\ Scoring
  BY <1>1 DEF Init, Detecting, Known, Scoring
<1>4. Began
  BY <1>1 DEF Init, Began, NotBegun
<1>5. QED
  BY <1>2, <1>3, <1>4 DEF TypeInv

LEMMA TypeNext == TypeInv /\ [Next]_vars => TypeInv'
<1> SUFFICES ASSUME TypeInv, [Next]_vars PROVE TypeInv'
  OBVIOUS
<1>1. CASE Collects
  BY <1>1, TypeCollects
<1>2. ASSUME NEW s \in SessionIds, ReadFails(s) PROVE TypeInv'
  BY <1>2, TypeReadFails
<1>3. ASSUME NEW s \in SessionIds, DetectStart(s) \/ DetectInput(s) \/ DetectEnd(s) PROVE TypeInv'
  BY <1>3, TypeDetects
<1>4. ASSUME NEW s \in SessionIds, ScoreEnd(s) PROVE TypeInv'
  BY <1>4, TypeScoreEnd
<1>5. ASSUME NEW u \in Users, ScoreExec(u) PROVE TypeInv'
  BY <1>5, TypeScoreExec
<1>6. CASE Dispatch
  BY <1>6, TypeDispatch
<1>7. CASE Idle \/ DetectForgets
  BY <1>7, TypeQuiet
<1>8. CASE DetectEmits
  BY <1>8, TypeDetectEmits
<1>9. CASE ScoreDetection
  BY <1>9, TypeScoreDetection
<1>10. CASE UNCHANGED vars
  <2>1. UNCHANGED <<stage, bounds, channels, detection, scoring, lost>>
    BY <1>10 DEF vars
  <2>2. Counts' /\ Channels'
    BY <2>1 DEF TypeInv, Counts, Channels, bounds, channels
  <2>3. Waiting' /\ Detecting' /\ Scoring'
    BY <2>1, ScoringKept, DetectingKept, WaitingKept DEF TypeInv, detection
  <2>4. Began'
    BY <2>1 DEF TypeInv, Began, NotBegun, channels, detection
  <2>5. QED
    BY <2>2, <2>3, <2>4 DEF TypeInv
<1>11. QED
  BY <1>1, <1>2, <1>3, <1>4, <1>5, <1>6, <1>7, <1>8, <1>9, <1>10 DEF Next, Collects

(* The collectors, the bus and the two plugins keep to their types: no     *)
(* channel is over its depth, no score over its maximum, and the detector  *)
(* knows no session that has not begun.                                    *)
THEOREM TypeCorrect == Spec => []TypeOK
<1>1. TypeInv => TypeOK
  <2> SUFFICES ASSUME TypeInv PROVE TypeOK
    OBVIOUS
  <2>1. \A s \in DOMAIN sessions : s \in SessionIds /\ stage[s] # "new"
    BY DEF TypeInv, Detecting, Known, Began, NotBegun
  <2>2. \A s \in DOMAIN sessions : sessions[s] \in SessionStates
    BY DEF TypeInv, Detecting, Known
  <2>3. QED
    BY <2>1, <2>2 DEF TypeInv, Counts, Channels, Queue, Waiting, Detecting, Scoring, TypeOK, SessionStates
<1>2. QED
  BY <1>1, TypeInit, TypeNext, PTL DEF Spec

(***************************************************************************)
(* A session that is over is forgotten.  The start of a session is ahead   *)
(* of its end all the way to the detector, so what is forgotten at the end *)
(* is not known again.                                                     *)
(***************************************************************************)
StartsFirst(q, s) == \A i, j \in 1 .. Len(q) : i < j /\ q[i] = End(s) => q[j] # Start(s)

Chained(ing, dq, s) ==
  /\ StartsFirst(ing, s) /\ StartsFirst(dq, s)
  /\ End(s) \in Range(dq) => Start(s) \notin Range(ing)

EndDue(st, ing, dq, gaps, s) ==
  st # "gone" \/ End(s) \in Range(ing) \cup Range(dq) \/ <<s, "detect">> \in gaps

LiveAt(st, ing, dq, map, over, gaps, s) ==
  /\ st # "gone" => End(s) \notin Range(ing) \cup Range(dq)
  /\ Chained(ing, dq, s)
  /\ Start(s) \in Range(ing) \cup Range(dq) => EndDue(st, ing, dq, gaps, s)
  /\ s \in DOMAIN map => EndDue(st, ing, dq, gaps, s) \/ s \in over

Live == \A s \in SessionIds : LiveAt(stage[s], ingress, detect_q, sessions, ending, lost, s)
LiveInv == TypeInv /\ Live

-----------------------------------------------------------------------------
LEMMA Places ==
  ASSUME NEW q, Queue(q)
  PROVE  /\ Range(q) = {q[i] : i \in 1 .. Len(q)} /\ Len(q) \in Nat
         /\ \A i \in 1 .. Len(q) : q[i] \in Events
BY DEF Queue, Range

LEMMA PlacesAdded ==
  ASSUME NEW q, Queue(q), NEW r, NEW e \in Events, Adds(q, r, e)
  PROVE  /\ Len(r) = Len(q) + 1 /\ r[Len(q) + 1] = e
         /\ \A i \in 1 .. Len(q) : r[i] = q[i]
BY DEF Queue, Adds

LEMMA PlacesTaken ==
  ASSUME NEW q, Queue(q), NEW r, NEW e, Takes(q, r, e)
  PROVE  /\ Len(r) = Len(q) - 1 /\ Len(q) \in Nat \ {0} /\ e = q[1]
         /\ \A i \in 1 .. Len(q) - 1 : r[i] = q[i + 1]
BY DEF Queue, Takes

LEMMA OrderAdded ==
  ASSUME NEW q, Queue(q), NEW r, NEW e \in Events, Adds(q, r, e), NEW s, StartsFirst(q, s),
         End(s) \notin Range(q) \/ e # Start(s)
  PROVE  StartsFirst(r, s)
<1> SUFFICES ASSUME NEW i \in 1 .. Len(r), NEW j \in 1 .. Len(r), i < j, r[i] = End(s)
             PROVE  r[j] # Start(s)
  BY DEF StartsFirst
<1>1. /\ Len(r) = Len(q) + 1 /\ r[Len(q) + 1] = e /\ Len(q) \in Nat
      /\ \A k \in 1 .. Len(q) : r[k] = q[k]
      /\ Range(q) = {q[k] : k \in 1 .. Len(q)}
  BY PlacesAdded, Places
<1>2. i \in 1 .. Len(q) /\ q[i] = End(s) /\ End(s) \in Range(q)
  BY <1>1
<1>3. CASE j \in 1 .. Len(q)
  BY <1>1, <1>2, <1>3 DEF StartsFirst
<1>4. CASE j \notin 1 .. Len(q)
  <2>1. j = Len(q) + 1
    BY <1>1, <1>4
  <2>2. QED
    BY <1>1, <1>2, <2>1
<1>5. QED
  BY <1>3, <1>4

LEMMA OrderTaken ==
  ASSUME NEW q, Queue(q), NEW r, NEW e, Takes(q, r, e), NEW s, StartsFirst(q, s)
  PROVE  StartsFirst(r, s) /\ (e = End(s) => Start(s) \notin Range(r))
<1>1. /\ Len(r) = Len(q) - 1 /\ Len(q) \in Nat \ {0} /\ e = q[1]
      /\ \A k \in 1 .. Len(q) - 1 : r[k] = q[k + 1]
      /\ Range(r) = {r[k] : k \in 1 .. Len(r)}
  <2>1. Queue(r)
    BY DEF Takes
  <2>2. Range(r) = {r[k] : k \in 1 .. Len(r)}
    BY <2>1, Places
  <2>3. QED
    BY <2>2, PlacesTaken
<1>2. StartsFirst(r, s)
  <2> SUFFICES ASSUME NEW i \in 1 .. Len(r), NEW j \in 1 .. Len(r), i < j, r[i] = End(s)
               PROVE  r[j] # Start(s)
    BY DEF StartsFirst
  <2>1. /\ i + 1 \in 1 .. Len(q) /\ j + 1 \in 1 .. Len(q) /\ i + 1 < j + 1
        /\ q[i + 1] = End(s) /\ r[j] = q[j + 1]
    BY <1>1
  <2>2. QED
    BY <2>1 DEF StartsFirst
<1>3. ASSUME e = End(s), NEW k \in 1 .. Len(r) PROVE r[k] # Start(s)
  <2>1. /\ 1 \in 1 .. Len(q) /\ k + 1 \in 1 .. Len(q) /\ 1 < k + 1
        /\ q[1] = End(s) /\ r[k] = q[k + 1]
    BY <1>1, <1>3
  <2>2. QED
    BY <2>1 DEF StartsFirst
<1>4. QED
  BY <1>1, <1>2, <1>3

(* What is added to the ingress, seen from one session.                    *)
Announces(e, s) ==
  \/ e \notin {Start(s), End(s)} /\ stage'[s] = stage[s]
  \/ e = Start(s) /\ stage[s] = "new" /\ stage'[s] = "open"
  \/ e = End(s) /\ stage[s] = "open" /\ stage'[s] = "gone"

LEMMA LiveCollects ==
  ASSUME LiveInv, NEW e \in Telemetry, TrySend(e), UNCHANGED <<detect_q, sessions, ending>>,
         NEW s \in SessionIds, Announces(e, s)
  PROVE  LiveAt(stage'[s], ingress', detect_q', sessions', ending', lost', s)
<1>0. /\ LiveAt(stage[s], ingress, detect_q, sessions, ending, lost, s) /\ TypeInv
      /\ Queue(ingress) /\ e \in Events
  BY Kinded DEF LiveInv, Live, TypeInv, Channels
<1>s. Start(s) # End(s)
  BY Distinct
<1>1. lost \subseteq lost'
  BY <1>0, Sent
<1>2. CASE Adds(ingress, ingress', e)
  <2>1. Range(ingress') = Range(ingress) \cup {e}
    BY <1>2 DEF Adds
  <2>2. e = Start(s) => End(s) \notin Range(ingress) \cup Range(detect_q)
    BY <1>0, <1>s DEF LiveAt, Announces
  <2>3. StartsFirst(ingress', s)
    BY <1>0, <1>2, <2>2, OrderAdded DEF LiveAt, Chained
  <2>4. Chained(ingress', detect_q', s)
    BY <1>0, <2>1, <2>2, <2>3 DEF LiveAt, Chained
  <2>5. stage'[s] # "gone" => End(s) \notin Range(ingress') \cup Range(detect_q')
    BY <1>0, <1>s, <2>1, <2>2 DEF LiveAt, Announces
  <2>6. CASE e \notin {Start(s), End(s)}
    BY <1>0, <1>1, <1>s, <2>1, <2>4, <2>5, <2>6 DEF LiveAt, EndDue, Announces
  <2>7. CASE e = Start(s)
    <3>1. stage'[s] # "gone"
      BY <1>s, <2>7 DEF Announces
    <3>2. QED
      BY <2>4, <2>5, <3>1 DEF LiveAt, EndDue
  <2>8. CASE e = End(s)
    BY <2>1, <2>4, <2>5, <2>8 DEF LiveAt, EndDue
  <2>9. QED
    BY <2>6, <2>7, <2>8
<1>3. CASE ingress' = ingress /\ (e = End(s) => <<s, "detect">> \in lost')
  <2>1. CASE e # End(s)
    <3>1. stage'[s] = "gone" <=> stage[s] = "gone"
      BY <2>1, <1>s DEF Announces
    <3>2. QED
      BY <1>0, <1>1, <1>3, <3>1 DEF LiveAt, EndDue
  <2>2. CASE e = End(s)
    <3>1. stage'[s] = "gone"
      BY <2>2, <1>s DEF Announces
    <3>2. QED
      BY <1>0, <1>3, <2>2, <3>1 DEF LiveAt, EndDue
  <2>3. QED
    BY <2>1, <2>2
<1>4. QED
  BY <1>0, <1>2, <1>3, Sent

LEMMA LiveReadFails ==
  ASSUME LiveInv, NEW r \in SessionIds, ReadFails(r), NEW s \in SessionIds
  PROVE  LiveAt(stage'[s], ingress', detect_q', sessions', ending', lost', s)
<1>0. /\ LiveAt(stage[s], ingress, detect_q, sessions, ending, lost, s)
      /\ stage \in [SessionIds -> {"new", "open", "gone"}]
  BY DEF LiveInv, Live, TypeInv, Counts
<1>1. /\ stage' = [stage EXCEPT ![r] = "gone"] /\ lost' = lost \cup ({r} \X Plugins)
      /\ UNCHANGED <<ingress, detect_q, sessions, ending>>
  BY DEF ReadFails, channels, detection
<1>2. CASE s = r
  <2>1. stage'[s] = "gone" /\ <<s, "detect">> \in lost'
    BY <1>0, <1>1, <1>2 DEF Plugins
  <2>2. QED
    BY <1>0, <1>1, <2>1 DEF LiveAt, EndDue
<1>3. CASE s # r
  <2>1. stage'[s] = stage[s] /\ lost \subseteq lost'
    BY <1>0, <1>1, <1>3
  <2>2. QED
    BY <1>0, <1>1, <2>1 DEF LiveAt, EndDue
<1>4. QED
  BY <1>2, <1>3

LEMMA LiveDispatch ==
  ASSUME LiveInv, Dispatch, NEW s \in SessionIds
  PROVE  LiveAt(stage'[s], ingress', detect_q', sessions', ending', lost', s)
<1> DEFINE e == Head(ingress)
<1>0. /\ LiveAt(stage[s], ingress, detect_q, sessions, ending, lost, s) /\ TypeInv
      /\ Queue(ingress) /\ Queue(detect_q)
  BY DEF LiveInv, Live, TypeInv, Channels
<1>1. /\ Takes(ingress, ingress', e) /\ lost \subseteq lost'
      /\ \/ Adds(detect_q, detect_q', e)
         \/ detect_q' = detect_q /\ (e = End(s) => <<s, "detect">> \in lost')
  BY <1>0, Dispatched
<1>2. UNCHANGED <<stage, sessions, ending>>
  BY DEF Dispatch, detection
<1> HIDE DEF e
<1>3. Range(ingress) = {e} \cup Range(ingress') /\ e \in Events
  BY <1>1 DEF Takes
<1>4. \/ Range(detect_q') = Range(detect_q) \cup {e}
      \/ Range(detect_q') = Range(detect_q) /\ (e = End(s) => <<s, "detect">> \in lost')
  BY <1>1 DEF Adds
<1>s. Start(s) # End(s)
  BY Distinct
<1>5. StartsFirst(ingress', s) /\ (e = End(s) => Start(s) \notin Range(ingress'))
  BY <1>0, <1>1, OrderTaken DEF LiveAt, Chained
<1>6. StartsFirst(detect_q', s)
  <2>1. e = Start(s) => End(s) \notin Range(detect_q)
    BY <1>0, <1>3 DEF LiveAt, Chained
  <2>2. QED
    BY <1>0, <1>1, <1>3, <2>1, OrderAdded DEF LiveAt, Chained
<1>7. Chained(ingress', detect_q', s)
  BY <1>0, <1>3, <1>4, <1>5, <1>6 DEF LiveAt, Chained
<1>8. EndDue(stage[s], ingress, detect_q, lost, s) => EndDue(stage'[s], ingress', detect_q', lost', s)
  BY <1>1, <1>2, <1>3, <1>4 DEF EndDue
<1>9. Range(ingress') \cup Range(detect_q') \subseteq Range(ingress) \cup Range(detect_q)
  BY <1>3, <1>4
<1>10. QED
  BY <1>0, <1>2, <1>7, <1>8, <1>9 DEF LiveAt

LEMMA LiveDetectEmits ==
  ASSUME LiveInv, DetectEmits, NEW s \in SessionIds
  PROVE  LiveAt(stage'[s], ingress', detect_q', sessions', ending', lost', s)
<1> DEFINE d == emitting[1]
<1>0. /\ LiveAt(stage[s], ingress, detect_q, sessions, ending, lost, s) /\ TypeInv
      /\ Queue(ingress)
  BY DEF LiveInv, Live, TypeInv, Channels
<1>1. Adds(ingress, ingress', d)
  BY <1>0, Forwarded
<1>2. UNCHANGED <<stage, detect_q, sessions, ending, lost>>
  BY DEF DetectEmits
<1>3. d \in Detections
  BY <1>0, Waits DEF TypeInv, DetectEmits
<1> HIDE DEF d
<1>4. d \in Events /\ d # Start(s) /\ d # End(s)
  BY <1>3, Kinded, Distinct
<1>5. StartsFirst(ingress', s)
  BY <1>0, <1>1, <1>4, OrderAdded DEF LiveAt, Chained
<1>6. Range(ingress') = Range(ingress) \cup {d}
  BY <1>1 DEF Adds
<1>7. QED
  BY <1>0, <1>2, <1>4, <1>5, <1>6 DEF LiveAt, Chained, EndDue

LEMMA LiveQuiet ==
  ASSUME LiveInv, NEW s \in SessionIds, Idle \/ DetectForgets
  PROVE  LiveAt(stage'[s], ingress', detect_q', sessions', ending', lost', s)
<1>0. LiveAt(stage[s], ingress, detect_q, sessions, ending, lost, s)
  BY DEF LiveInv, Live
<1>1. UNCHANGED <<stage, ingress, detect_q, lost>>
  BY DEF Idle, DetectForgets, channels
<1>2. \/ ending' = ending /\ DOMAIN sessions' = DOMAIN sessions
      \/ DOMAIN sessions' \subseteq DOMAIN sessions \ ending
  BY DEF Idle, DetectForgets, Restrict
<1>3. QED
  BY <1>0, <1>1, <1>2 DEF LiveAt

LEMMA LiveDetects ==
  ASSUME LiveInv, NEW r \in SessionIds, DetectStart(r) \/ DetectInput(r) \/ DetectEnd(r),
         NEW s \in SessionIds
  PROVE  LiveAt(stage'[s], ingress', detect_q', sessions', ending', lost', s)
<1>0. /\ LiveAt(stage[s], ingress, detect_q, sessions, ending, lost, s) /\ TypeInv
      /\ Queue(detect_q)
  BY DEF LiveInv, Live, TypeInv, Channels
<1>1. PICK e : /\ DetectTakes(e)
               /\ s \in DOMAIN sessions' => s \in DOMAIN sessions \/ e = Start(s)
               /\ e = End(s) => s \in ending'
  <2>1. CASE DetectStart(r)
    BY <1>0, <2>1, StartEffect, Distinct
  <2>2. CASE DetectInput(r)
    BY <1>0, <2>2, InputEffect, Distinct
  <2>3. CASE DetectEnd(r)
    <3>1. DetectTakes(End(r)) /\ DOMAIN sessions' \subseteq DOMAIN sessions /\ ending' = {r}
      BY <1>0, <2>3, EndEffect
    <3>2. End(r) = End(s) => r = s
      BY Distinct
    <3>3. QED
      BY <3>1, <3>2
  <2>4. QED
    BY <2>1, <2>2, <2>3
<1>2. /\ Takes(detect_q, detect_q', e) /\ ending = {} /\ UNCHANGED <<stage, ingress, lost>>
  BY <1>0, <1>1, DetectTook
<1>3. Range(detect_q) = {e} \cup Range(detect_q')
  BY <1>2 DEF Takes
<1>4. StartsFirst(detect_q', s) /\ (e = End(s) => Start(s) \notin Range(detect_q'))
  BY <1>0, <1>2, OrderTaken DEF LiveAt, Chained
<1>5. Chained(ingress', detect_q', s)
  BY <1>0, <1>2, <1>3, <1>4 DEF LiveAt, Chained
<1>6. e = End(s) => Start(s) \notin Range(ingress') \cup Range(detect_q')
  BY <1>0, <1>2, <1>3, <1>4 DEF LiveAt, Chained
<1>7. e # End(s) /\ EndDue(stage[s], ingress, detect_q, lost, s)
        => EndDue(stage'[s], ingress', detect_q', lost', s)
  BY <1>2, <1>3 DEF EndDue
<1>s. Start(s) # End(s)
  BY Distinct
<1>8. s \in DOMAIN sessions' => EndDue(stage'[s], ingress', detect_q', lost', s) \/ s \in ending'
  BY <1>0, <1>1, <1>2, <1>3, <1>7, <1>s DEF LiveAt
<1>9. Start(s) \in Range(ingress') \cup Range(detect_q') => EndDue(stage'[s], ingress', detect_q', lost', s)
  BY <1>0, <1>2, <1>3, <1>6, <1>7 DEF LiveAt
<1>10. stage'[s] # "gone" => End(s) \notin Range(ingress') \cup Range(detect_q')
  BY <1>0, <1>2, <1>3 DEF LiveAt
<1>11. QED
  BY <1>5, <1>8, <1>9, <1>10 DEF LiveAt

LEMMA LiveInit == Init => LiveInv
<1> SUFFICES ASSUME Init PROVE LiveInv
  OBVIOUS
<1>1. Range(<<>>) = {} /\ Len(<<>>) = 0 /\ DOMAIN NothingKnown = {}
  BY DEF Range, NothingKnown
<1>2. \A s \in SessionIds : LiveAt("new", <<>>, <<>>, NothingKnown, {}, {}, s)
  BY <1>1 DEF LiveAt, Chained, StartsFirst
<1>3. QED
  BY <1>2, TypeInit DEF Init, LiveInv, Live

LEMMA LiveNext == LiveInv /\ [Next]_vars => LiveInv'
<1> SUFFICES ASSUME LiveInv, [Next]_vars PROVE LiveInv'
  OBVIOUS
<1>t. TypeInv /\ TypeInv'
  BY TypeNext DEF LiveInv
<1>l. /\ stage \in [SessionIds -> {"new", "open", "gone"}]
  BY <1>t DEF TypeInv, Counts
<1> SUFFICES ASSUME NEW s \in SessionIds
             PROVE  LiveAt(stage'[s], ingress', detect_q', sessions', ending', lost', s)
  BY <1>t DEF LiveInv, Live
<1>1. CASE Collects
  <2>1. ASSUME NEW r \in SessionIds, Begin(r)
        PROVE  /\ TrySend(Start(r)) /\ Start(r) \in Telemetry
               /\ UNCHANGED <<detect_q, sessions, ending>> /\ Announces(Start(r), s)
    BY <1>l, <2>1, Kinded, Distinct DEF Begin, detection, Announces
  <2>2. ASSUME NEW r \in SessionIds, OnRead(r)
        PROVE  /\ TrySend(Input(r)) /\ Input(r) \in Telemetry
               /\ UNCHANGED <<detect_q, sessions, ending>> /\ Announces(Input(r), s)
    BY <2>2, Kinded, Distinct DEF OnRead, detection, Announces
  <2>3. ASSUME NEW r \in SessionIds, OnSessionEnd(r)
        PROVE  /\ TrySend(End(r)) /\ End(r) \in Telemetry
               /\ UNCHANGED <<detect_q, sessions, ending>> /\ Announces(End(r), s)
    BY <1>l, <2>3, Kinded, Distinct DEF OnSessionEnd, detection, Announces
  <2>4. ASSUME NEW u \in Users, ProcessExec(u)
        PROVE  /\ TrySend(Exec(u)) /\ Exec(u) \in Telemetry
               /\ UNCHANGED <<detect_q, sessions, ending>> /\ Announces(Exec(u), s)
    BY <2>4, Kinded, Distinct DEF ProcessExec, detection, Announces
  <2>5. QED
    BY <1>1, <2>1, <2>2, <2>3, <2>4, LiveCollects DEF Collects
<1>2. ASSUME NEW r \in SessionIds, ReadFails(r)
      PROVE  LiveAt(stage'[s], ingress', detect_q', sessions', ending', lost', s)
  BY <1>2, LiveReadFails
<1>3. ASSUME NEW r \in SessionIds, DetectStart(r) \/ DetectInput(r) \/ DetectEnd(r)
      PROVE  LiveAt(stage'[s], ingress', detect_q', sessions', ending', lost', s)
  BY <1>3, LiveDetects
<1>4. CASE UNCHANGED <<stage, ingress, detect_q, sessions, ending, lost>>
  BY <1>4 DEF LiveInv, Live
<1>5. ASSUME NEW e, ScoreTakes(e) PROVE UNCHANGED <<stage, ingress, detect_q, sessions, ending, lost>>
  BY <1>5 DEF ScoreTakes, detection
<1>6. ASSUME NEW r \in SessionIds, ScoreEnd(r)
      PROVE  LiveAt(stage'[s], ingress', detect_q', sessions', ending', lost', s)
  BY <1>4, <1>5, <1>6 DEF ScoreEnd
<1>7. ASSUME NEW u \in Users, ScoreExec(u)
      PROVE  LiveAt(stage'[s], ingress', detect_q', sessions', ending', lost', s)
  BY <1>4, <1>5, <1>7 DEF ScoreExec
<1>8. CASE ScoreDetection
  BY <1>4, <1>5, <1>8 DEF ScoreDetection
<1>9. CASE Dispatch
  BY <1>9, LiveDispatch
<1>10. CASE Idle \/ DetectForgets
  BY <1>10, LiveQuiet
<1>11. CASE DetectEmits
  BY <1>11, LiveDetectEmits
<1>12. CASE UNCHANGED vars
  BY <1>4, <1>12 DEF vars, channels, detection
<1>13. QED
  BY <1>1, <1>2, <1>3, <1>6, <1>7, <1>8, <1>9, <1>10, <1>11, <1>12 DEF Next, Collects

(* The detector remembers a session that is over only if the bus dropped   *)
(* the session's end or the collector failed before it (lib.rs of          *)
(* plugin-agent-detect removes it when it handles that event).             *)
THEOREM OverIsForgotten == Spec => []KnownIsLive
<1>1. LiveInv => KnownIsLive
  <2> SUFFICES ASSUME LiveInv, NEW s \in DOMAIN sessions
               PROVE  EndToCome(s, detect_q) \/ s \in ending \/ <<s, "detect">> \in lost
    BY DEF KnownIsLive
  <2>1. s \in SessionIds
    BY DEF LiveInv, TypeInv, Detecting, Known
  <2>2. QED
    BY <2>1 DEF LiveInv, Live, LiveAt, EndDue, EndToCome
<1>2. QED
  BY <1>1, LiveInit, LiveNext, PTL DEF Spec

(***************************************************************************)
(* Alerts.  A score never exceeds the evidence gathered since the subject  *)
(* was last dropped: both start again together, decay only lowers it.      *)
(***************************************************************************)
Backed    == \A x \in DOMAIN scores : scores[x] <= evidence[x]
BackedInv == TypeInv /\ Backed /\ AlertsRestOnEvidence

LEMMA BackedBump ==
  ASSUME BackedInv, NEW x \in Subjects, NEW delta \in Nat, Bump(x, delta)
  PROVE  Backed' /\ AlertsRestOnEvidence'
<1>0. Scoring /\ Backed
  BY DEF BackedInv, TypeInv
<1>1. evidence \in [Subjects -> Nat] /\ evidence' = [evidence EXCEPT ![x] = @ + delta]
  BY <1>0, Bumped DEF Scoring
<1>2. evidence'[x] = evidence[x] + delta /\ \A y \in Subjects \ {x} : evidence'[y] = evidence[y]
  BY <1>1
<1>3. Get(x) \in Nat /\ Get(x) <= evidence[x]
  <2>1. CASE x \in DOMAIN scores
    <3>1. scores[x] \in Negligible + 1 .. MaxScore /\ Get(x) = scores[x]
      BY <1>0, <2>1 DEF Scoring, Get
    <3>2. \A n \in Negligible + 1 .. MaxScore : n \in Nat
      BY DEF Negligible, MaxScore
    <3>3. QED
      BY <1>0, <2>1, <3>1, <3>2 DEF Backed
  <2>2. CASE x \notin DOMAIN scores
    <3>1. Get(x) = 0
      BY <2>2 DEF Get
    <3>2. QED
      BY <3>1, <1>1
  <2>3. QED
    BY <2>1, <2>2
<1>4. evidence[x] \in Nat /\ evidence'[x] \in Nat
  BY <1>1, <1>2
<1>5. Get(x) + delta <= evidence'[x]
  BY <1>2, <1>3, <1>4
<1>6. Backed'
  <2> SUFFICES ASSUME NEW y \in DOMAIN scores' PROVE scores'[y] <= evidence'[y]
    BY DEF Backed
  <2>1. /\ DOMAIN scores' \subseteq Subjects /\ scores'[y] \in Negligible + 1 .. MaxScore
        /\ y = x => scores'[y] <= Get(x) + delta
        /\ y # x => y \in DOMAIN scores /\ scores'[y] = scores[y]
    BY <1>0, Bumped
  <2>2. CASE y = x
    <3>1. \A n \in Negligible + 1 .. MaxScore : n \in Nat
      BY DEF Negligible, MaxScore
    <3>2. scores'[x] \in Nat /\ scores'[x] <= Get(x) + delta
      BY <2>1, <2>2, <3>1
    <3>3. QED
      BY <1>3, <1>4, <1>5, <2>2, <3>2
  <2>3. CASE y # x
    BY <1>0, <1>2, <2>1, <2>3 DEF Backed
  <2>4. QED
    BY <2>2, <2>3
<1>7. AlertsRestOnEvidence'
  <2>1. CASE alerts' = alerts
    BY <2>1 DEF BackedInv, AlertsRestOnEvidence
  <2>2. ASSUME NEW n \in AlertThreshold .. MaxScore, n <= Get(x) + delta,
               alerts' = alerts \cup {[subject |-> x, score |-> n, evidence |-> evidence'[x]]}
        PROVE  AlertsRestOnEvidence'
    <3>1. n >= AlertThreshold /\ n \in Nat
      BY DEF AlertThreshold
    <3>2. evidence'[x] >= n
      BY <1>3, <1>4, <1>5, <2>2, <3>1
    <3>3. QED
      BY <2>2, <3>1, <3>2 DEF BackedInv, AlertsRestOnEvidence
  <2>3. QED
    BY <1>0, <2>1, <2>2, Bumped
<1>8. QED
  BY <1>6, <1>7

LEMMA BackedInit == Init => BackedInv
BY TypeInit DEF Init, BackedInv, Backed, AlertsRestOnEvidence, NothingKnown

LEMMA BackedNext == BackedInv /\ [Next]_vars => BackedInv'
<1> SUFFICES ASSUME BackedInv, [Next]_vars PROVE BackedInv'
  OBVIOUS
<1>t. TypeInv /\ TypeInv'
  BY TypeNext DEF BackedInv
<1> SUFFICES Backed' /\ AlertsRestOnEvidence'
  BY <1>t DEF BackedInv
<1>1. CASE UNCHANGED <<scores, evidence, alerts>>
  BY <1>1 DEF BackedInv, Backed, AlertsRestOnEvidence
<1>2. ASSUME NEW s \in SessionIds, ScoreEnd(s) PROVE Backed' /\ AlertsRestOnEvidence'
  <2>1. /\ scores' = Restrict(scores, DOMAIN scores \ {s})
        /\ evidence' = [evidence EXCEPT ![s] = 0] /\ alerts' = alerts
    BY <1>2 DEF ScoreEnd, Removed
  <2>2. \A x \in DOMAIN scores' : x \in DOMAIN scores /\ x # s /\ scores'[x] = scores[x]
    BY <2>1 DEF Restrict
  <2>3. \A x \in DOMAIN scores' : evidence'[x] = evidence[x]
    BY <2>1, <2>2 DEF BackedInv, TypeInv, Scoring
  <2>4. QED
    BY <2>1, <2>2, <2>3 DEF BackedInv, Backed, AlertsRestOnEvidence
<1>3. ASSUME NEW u \in Users, ScoreExec(u) PROVE Backed' /\ AlertsRestOnEvidence'
  <2>1. PICK weight \in {ProcessWeight, 3 * ProcessWeight} : Bump(u, weight)
    BY <1>3 DEF ScoreExec
  <2>2. weight \in Nat /\ u \in Subjects
    BY DEF ProcessWeight, Subjects
  <2>3. QED
    BY <2>1, <2>2, BackedBump
<1>4. CASE ScoreDetection
  <2> DEFINE d == Head(score_q)
  <2>1. /\ d \in Detections
        /\ IF Delta(d) = 0 THEN UNCHANGED <<scores, evidence, alerts>> ELSE Bump(d.subject, Delta(d))
    BY <1>4 DEF ScoreDetection
  <2> HIDE DEF d
  <2>2. CASE Delta(d) = 0
    BY <1>1, <2>1, <2>2
  <2>3. CASE Delta(d) # 0
    <3>1. Delta(d) \in Nat /\ d.subject \in Subjects
      BY <2>1, Kinded, Weight DEF Subjects
    <3>2. QED
      BY <2>1, <2>3, <3>1, BackedBump
  <2>4. QED
    BY <2>2, <2>3
<1>5. ASSUME NEW s \in SessionIds, NEW e, DetectTakes(e) PROVE UNCHANGED <<scores, evidence, alerts>>
  BY <1>5 DEF DetectTakes, scoring
<1>6. ASSUME NEW s \in SessionIds, DetectStart(s) \/ DetectInput(s) \/ DetectEnd(s)
      PROVE  UNCHANGED <<scores, evidence, alerts>>
  BY <1>5, <1>6 DEF DetectStart, DetectInput, DetectEnd
<1>7. CASE \/ Collects \/ Dispatch \/ Idle \/ DetectEmits \/ DetectForgets
           \/ \E s \in SessionIds : ReadFails(s)
  BY <1>1, <1>7 DEF Collects, Begin, OnRead, OnSessionEnd, ReadFails, ProcessExec, Dispatch, Idle,
       DetectEmits, DetectForgets, scoring
<1>8. CASE UNCHANGED vars
  BY <1>1, <1>8 DEF vars, scoring
<1>9. QED
  BY <1>1, <1>2, <1>3, <1>4, <1>6, <1>7, <1>8 DEF Next, Collects

(* An alert of plugin-scoring rests on evidence that reaches its score,    *)
(* and its score the threshold, all of it gathered since RiskState last    *)
(* dropped the subject.                                                    *)
THEOREM AlertsAreBacked == Spec => []AlertsRestOnEvidence
<1>1. BackedInv => AlertsRestOnEvidence
  BY DEF BackedInv
<1>2. QED
  BY <1>1, BackedInit, BackedNext, PTL DEF Spec

(***************************************************************************)
(* Verdicts.  Those of a session are on their way in order, along the      *)
(* handler that waits, the ingress and the queue of scoring, and are the   *)
(* ones after the last that was scored.                                    *)
(***************************************************************************)
IsOf(e, s)     == e.kind = "detection" /\ e.subject = s
Rising(q, s)   == \A i, j \in 1 .. Len(q) : i < j /\ IsOf(q[i], s) /\ IsOf(q[j], s) => q[i].no < q[j].no
Ahead(q, r, s) == \A d \in Range(q), e \in Range(r) : IsOf(d, s) /\ IsOf(e, s) => d.no < e.no
Numbers(all, s) == {d.no : d \in {e \in all : IsOf(e, s)}}

Owed(q, ing, wait, from, to, s) ==
  /\ from <= to
  /\ Rising(q, s) /\ Rising(ing, s)
  /\ Ahead(q, ing, s) /\ Ahead(q, wait, s) /\ Ahead(ing, wait, s)
  /\ Numbers(Range(q) \cup Range(ing) \cup Range(wait), s) = from + 1 .. to

Owes == \A s \in SessionIds : Owed(score_q, ingress, emitting, scored[s], assessed[s], s)
VerdictInv == TypeInv /\ Owes

-----------------------------------------------------------------------------
LEMMA RisingAdded ==
  ASSUME NEW q, Queue(q), NEW r, NEW e \in Events, Adds(q, r, e), NEW s, Rising(q, s),
         \A d \in Range(q) : IsOf(d, s) /\ IsOf(e, s) => d.no < e.no
  PROVE  Rising(r, s)
<1> SUFFICES ASSUME NEW i \in 1 .. Len(r), NEW j \in 1 .. Len(r), i < j, IsOf(r[i], s), IsOf(r[j], s)
             PROVE  r[i].no < r[j].no
  BY DEF Rising
<1>1. /\ Len(r) = Len(q) + 1 /\ r[Len(q) + 1] = e /\ Len(q) \in Nat
      /\ \A k \in 1 .. Len(q) : r[k] = q[k]
      /\ Range(q) = {q[k] : k \in 1 .. Len(q)}
  BY PlacesAdded, Places
<1>2. i \in 1 .. Len(q) /\ r[i] = q[i] /\ q[i] \in Range(q)
  BY <1>1
<1>3. CASE j \in 1 .. Len(q)
  BY <1>1, <1>2, <1>3 DEF Rising
<1>4. CASE j \notin 1 .. Len(q)
  <2>1. j = Len(q) + 1
    BY <1>1, <1>4
  <2>2. QED
    BY <1>1, <1>2, <2>1
<1>5. QED
  BY <1>3, <1>4

LEMMA RisingTaken ==
  ASSUME NEW q, Queue(q), NEW r, NEW e, Takes(q, r, e), NEW s, Rising(q, s)
  PROVE  /\ Rising(r, s)
         /\ \A d \in Range(r) : IsOf(e, s) /\ IsOf(d, s) => e.no < d.no
<1>1. /\ Len(r) = Len(q) - 1 /\ Len(q) \in Nat \ {0} /\ e = q[1]
      /\ \A k \in 1 .. Len(q) - 1 : r[k] = q[k + 1]
      /\ Range(r) = {r[k] : k \in 1 .. Len(r)}
  <2>1. Queue(r)
    BY DEF Takes
  <2>2. Range(r) = {r[k] : k \in 1 .. Len(r)}
    BY <2>1, Places
  <2>3. QED
    BY <2>2, PlacesTaken
<1>2. Rising(r, s)
  <2> SUFFICES ASSUME NEW i \in 1 .. Len(r), NEW j \in 1 .. Len(r), i < j, IsOf(r[i], s), IsOf(r[j], s)
               PROVE  r[i].no < r[j].no
    BY DEF Rising
  <2>1. /\ i + 1 \in 1 .. Len(q) /\ j + 1 \in 1 .. Len(q) /\ i + 1 < j + 1
        /\ r[i] = q[i + 1] /\ r[j] = q[j + 1]
    BY <1>1
  <2>2. QED
    BY <2>1 DEF Rising
<1>3. ASSUME NEW k \in 1 .. Len(r), IsOf(e, s), IsOf(r[k], s) PROVE e.no < r[k].no
  <2>1. 1 \in 1 .. Len(q) /\ k + 1 \in 1 .. Len(q) /\ 1 < k + 1 /\ r[k] = q[k + 1]
    BY <1>1
  <2>2. QED
    BY <1>1, <1>3, <2>1 DEF Rising
<1>4. QED
  BY <1>1, <1>2, <1>3

(* What is no detection does not count.                                    *)
LEMMA OwedCollects ==
  ASSUME VerdictInv, NEW e \in Telemetry, TrySend(e),
         UNCHANGED <<score_q, emitting, scored, assessed>>, NEW s \in SessionIds
  PROVE  Owed(score_q', ingress', emitting', scored'[s], assessed'[s], s)
<1>0. /\ Owed(score_q, ingress, emitting, scored[s], assessed[s], s) /\ TypeInv /\ Queue(ingress)
      /\ e \in Events /\ ~IsOf(e, s)
  BY Kinded DEF VerdictInv, Owes, TypeInv, Channels, IsOf
<1>1. CASE ingress' = ingress
  BY <1>0, <1>1
<1>2. CASE Adds(ingress, ingress', e)
  <2>1. Range(ingress') = Range(ingress) \cup {e}
    BY <1>2 DEF Adds
  <2>2. Rising(ingress', s)
    BY <1>0, <1>2, RisingAdded DEF Owed
  <2>3. Ahead(score_q', ingress', s) /\ Ahead(ingress', emitting', s)
    BY <1>0, <2>1 DEF Owed, Ahead
  <2>4. Numbers(Range(score_q') \cup Range(ingress') \cup Range(emitting'), s)
          = Numbers(Range(score_q) \cup Range(ingress) \cup Range(emitting), s)
    BY <1>0, <2>1 DEF Numbers
  <2>5. QED
    BY <1>0, <2>2, <2>3, <2>4 DEF Owed
<1>3. QED
  BY <1>0, <1>1, <1>2, Sent

LEMMA OwedDispatch ==
  ASSUME VerdictInv, Dispatch, NEW s \in SessionIds
  PROVE  Owed(score_q', ingress', emitting', scored'[s], assessed'[s], s)
<1> DEFINE e == Head(ingress)
<1>0. /\ Owed(score_q, ingress, emitting, scored[s], assessed[s], s) /\ TypeInv
      /\ Queue(ingress) /\ Queue(score_q)
  BY DEF VerdictInv, Owes, TypeInv, Channels
<1>1. /\ Takes(ingress, ingress', e)
      /\ \/ Adds(score_q, score_q', e)
         \/ score_q' = score_q /\ e.kind # "detection"
  BY <1>0, Dispatched
<1>2. emitting' = emitting /\ scored' = scored /\ assessed' = assessed
  BY DEF Dispatch, detection, scoring
<1> HIDE DEF e
<1>3. Range(ingress) = {e} \cup Range(ingress') /\ e \in Events
  BY <1>1 DEF Takes
<1>4. /\ Rising(ingress', s)
      /\ \A d \in Range(ingress') : IsOf(e, s) /\ IsOf(d, s) => e.no < d.no
  BY <1>0, <1>1, RisingTaken DEF Owed
<1>5. CASE Adds(score_q, score_q', e)
  <2>1. Range(score_q') = Range(score_q) \cup {e}
    BY <1>5 DEF Adds
  <2>2. Rising(score_q', s)
    <3>1. \A d \in Range(score_q) : IsOf(d, s) /\ IsOf(e, s) => d.no < e.no
      BY <1>0, <1>3 DEF Owed, Ahead
    <3>2. QED
      BY <1>0, <1>3, <1>5, <3>1, RisingAdded DEF Owed
  <2>3. Ahead(score_q', ingress', s) /\ Ahead(score_q', emitting', s) /\ Ahead(ingress', emitting', s)
    BY <1>0, <1>2, <1>3, <1>4, <2>1 DEF Owed, Ahead
  <2>4. Range(score_q') \cup Range(ingress') = Range(score_q) \cup Range(ingress)
    BY <1>3, <2>1
  <2>5. QED
    BY <1>0, <1>2, <1>4, <2>2, <2>3, <2>4 DEF Owed
<1>6. CASE score_q' = score_q /\ ~IsOf(e, s)
  <2>1. Ahead(score_q', ingress', s) /\ Ahead(ingress', emitting', s)
    BY <1>0, <1>2, <1>3, <1>6 DEF Owed, Ahead
  <2>2. Numbers(Range(score_q') \cup Range(ingress') \cup Range(emitting'), s)
          = Numbers(Range(score_q) \cup Range(ingress) \cup Range(emitting), s)
    BY <1>2, <1>3, <1>6 DEF Numbers
  <2>3. QED
    BY <1>0, <1>2, <1>4, <1>6, <2>1, <2>2 DEF Owed
<1>7. QED
  BY <1>1, <1>5, <1>6 DEF IsOf

LEMMA OwedDetectEmits ==
  ASSUME VerdictInv, DetectEmits, NEW s \in SessionIds
  PROVE  Owed(score_q', ingress', emitting', scored'[s], assessed'[s], s)
<1> DEFINE d == emitting[1]
<1>0. /\ Owed(score_q, ingress, emitting, scored[s], assessed[s], s) /\ TypeInv /\ Queue(ingress)
  BY DEF VerdictInv, Owes, TypeInv, Channels
<1>1. Adds(ingress, ingress', d) /\ emitting' = <<>>
  BY <1>0, Forwarded
<1>2. score_q' = score_q /\ scored' = scored /\ assessed' = assessed
  BY DEF DetectEmits, scoring
<1>3. d \in Detections /\ Range(emitting) = {d}
  BY <1>0, Waits DEF TypeInv, DetectEmits
<1> HIDE DEF d
<1>4. d \in Events /\ Range(<<>>) = {}
  BY <1>3, Kinded DEF Range
<1>5. Range(ingress') = Range(ingress) \cup {d} /\ Range(emitting') = {}
  BY <1>1, <1>4 DEF Adds
<1>6. Rising(ingress', s)
  <2>1. \A e \in Range(ingress) : IsOf(e, s) /\ IsOf(d, s) => e.no < d.no
    BY <1>0, <1>3 DEF Owed, Ahead
  <2>2. QED
    BY <1>0, <1>1, <1>4, <2>1, RisingAdded DEF Owed
<1>7. Ahead(score_q', ingress', s) /\ Ahead(score_q', emitting', s) /\ Ahead(ingress', emitting', s)
  BY <1>0, <1>2, <1>3, <1>5 DEF Owed, Ahead
<1>8. Range(score_q') \cup Range(ingress') \cup Range(emitting')
        = Range(score_q) \cup Range(ingress) \cup Range(emitting)
  BY <1>2, <1>3, <1>5
<1>9. QED
  BY <1>0, <1>2, <1>6, <1>7, <1>8 DEF Owed

(* A verdict is given.                                                     *)
LEMMA OwedDetects ==
  ASSUME VerdictInv, NEW r \in SessionIds, DetectStart(r) \/ DetectInput(r) \/ DetectEnd(r),
         NEW s \in SessionIds
  PROVE  Owed(score_q', ingress', emitting', scored'[s], assessed'[s], s)
<1>0. /\ Owed(score_q, ingress, emitting, scored[s], assessed[s], s) /\ TypeInv
  BY DEF VerdictInv, Owes
<1>1. Verdict(r) /\ \E e : DetectTakes(e)
  <2>1. CASE DetectStart(r)
    BY <1>0, <2>1, StartEffect DEF Verdict
  <2>2. CASE DetectInput(r)
    BY <1>0, <2>2, InputEffect
  <2>3. CASE DetectEnd(r)
    BY <1>0, <2>3, EndEffect
  <2>4. QED
    BY <2>1, <2>2, <2>3
<1>2. score_q' = score_q /\ ingress' = ingress /\ scored' = scored /\ emitting = <<>>
  BY <1>1 DEF DetectTakes, scoring
<1>3. CASE GivesNone
  BY <1>0, <1>2, <1>3 DEF GivesNone
<1>4. ASSUME NEW d, Gives(r, d)
      PROVE  Owed(score_q', ingress', emitting', scored'[s], assessed'[s], s)
  <2>1. /\ emitting' = <<d>> /\ d \in Detections /\ d.subject = r /\ d.no = assessed[r] + 1
        /\ assessed' = [assessed EXCEPT ![r] = @ + 1] /\ d.kind = "detection"
    BY <1>4, Kinded DEF Gives
  <2>2. Range(emitting) = {} /\ Range(emitting') = {d}
    <3>1. DOMAIN <<d>> = {1} /\ <<d>>[1] = d
      OBVIOUS
    <3>2. QED
      BY <1>2, <2>1, <3>1 DEF Range
  <2>3. assessed \in [SessionIds -> Nat] /\ scored \in [SessionIds -> Nat]
    BY <1>0 DEF TypeInv, Detecting, Scoring
  <2>4. CASE s # r
    <3>1. assessed'[s] = assessed[s] /\ ~IsOf(d, s)
      BY <2>1, <2>3, <2>4 DEF IsOf
    <3>2. Ahead(score_q', emitting', s) /\ Ahead(ingress', emitting', s)
      BY <2>2, <3>1 DEF Ahead
    <3>3. Numbers(Range(score_q') \cup Range(ingress') \cup Range(emitting'), s)
            = Numbers(Range(score_q) \cup Range(ingress) \cup Range(emitting), s)
      BY <1>2, <2>2, <3>1 DEF Numbers
    <3>4. QED
      BY <1>0, <1>2, <3>1, <3>2, <3>3 DEF Owed
  <2>5. CASE s = r
    <3> DEFINE all == Range(score_q) \cup Range(ingress) \cup Range(emitting)
               n == assessed[s]
               m == scored[s]
    <3>1. n \in Nat /\ m \in Nat /\ assessed'[s] = n + 1 /\ d.no = n + 1 /\ IsOf(d, s) /\ m <= n
      BY <1>0, <2>1, <2>3, <2>5 DEF IsOf, Owed
    <3>2. Numbers(all, s) = m + 1 .. n
      BY <1>0 DEF Owed
    <3>3. \A e \in all : IsOf(e, s) => e.no \in m + 1 .. n
      BY <3>2 DEF Numbers
    <3>4. Range(score_q') \cup Range(ingress') \cup Range(emitting') = all \cup {d}
      BY <1>2, <2>2
    <3> HIDE DEF n, m
    <3>5. \A e \in all : IsOf(e, s) => e.no < d.no
      <4>1. \A k \in m + 1 .. n : k < n + 1
        BY <3>1
      <4>2. QED
        BY <3>1, <3>3, <4>1
    <3>6. Ahead(score_q', emitting', s) /\ Ahead(ingress', emitting', s)
      BY <1>2, <2>2, <3>5 DEF Ahead
    <3> HIDE DEF all
    <3>7. Numbers(all \cup {d}, s) = Numbers(all, s) \cup {d.no}
      BY <3>1 DEF Numbers
    <3>8. (m + 1 .. n) \cup {n + 1} = m + 1 .. n + 1
      BY <3>1
    <3>9. m <= n + 1
      BY <3>1
    <3>10. QED
      BY <1>0, <1>2, <3>1, <3>2, <3>4, <3>6, <3>7, <3>8, <3>9 DEF Owed, m
  <2>6. QED
    BY <2>4, <2>5
<1>5. QED
  BY <1>1, <1>3, <1>4 DEF Verdict

(* Scoring takes one.                                                      *)
LEMMA OwedScoreTakes ==
  ASSUME VerdictInv, NEW e, ScoreTakes(e), NEW s \in SessionIds,
         \/ ~IsOf(e, s) /\ scored'[s] = scored[s]
         \/ IsOf(e, s) /\ scored'[s] = e.no
  PROVE  Owed(score_q', ingress', emitting', scored'[s], assessed'[s], s)
<1> DEFINE n == assessed[s]
           m == scored[s]
           rest == Range(score_q') \cup Range(ingress) \cup Range(emitting)
<1>0. /\ Owed(score_q, ingress, emitting, m, n, s) /\ TypeInv /\ Queue(score_q)
      /\ n \in Nat /\ m \in Nat
  BY DEF VerdictInv, Owes, TypeInv, Channels, Detecting, Scoring
<1>1. /\ Takes(score_q, score_q', e)
      /\ ingress' = ingress /\ emitting' = emitting /\ assessed' = assessed
  BY <1>0, ScoreTook DEF detection
<1>2. Range(score_q) = {e} \cup Range(score_q')
  BY <1>1 DEF Takes
<1>3. /\ Rising(score_q', s)
      /\ \A d \in Range(score_q') : IsOf(e, s) /\ IsOf(d, s) => e.no < d.no
  BY <1>0, <1>1, RisingTaken DEF Owed
<1>4. Ahead(score_q', ingress', s) /\ Ahead(score_q', emitting', s) /\ Ahead(ingress', emitting', s)
  BY <1>0, <1>1, <1>2 DEF Owed, Ahead
<1>5. Rising(ingress', s) /\ m <= n /\ Numbers(rest \cup {e}, s) = m + 1 .. n
  <2>1. rest \cup {e} = Range(score_q) \cup Range(ingress) \cup Range(emitting)
    BY <1>2
  <2>2. QED
    BY <1>0, <1>1, <2>1 DEF Owed
<1>6. CASE ~IsOf(e, s) /\ scored'[s] = m
  <2>1. Numbers(rest \cup {e}, s) = Numbers(rest, s)
    BY <1>6 DEF Numbers
  <2>2. QED
    BY <1>1, <1>3, <1>4, <1>5, <1>6, <2>1 DEF Owed
<1>7. CASE IsOf(e, s) /\ scored'[s] = e.no
  <2>1. \A d \in rest : IsOf(d, s) => e.no < d.no
    BY <1>0, <1>2, <1>3, <1>7 DEF Owed, Ahead
  <2> HIDE DEF rest, n, m
  <2>2. e.no \in m + 1 .. n
    BY <1>5, <1>7 DEF Numbers
  <2>3. Numbers(rest, s) = e.no + 1 .. n
    <3>1. \A k \in Numbers(rest, s) : k \in m + 1 .. n /\ e.no < k
      BY <1>5, <2>1 DEF Numbers
    <3>2. \A k \in e.no + 1 .. n : k \in m + 1 .. n /\ k # e.no
      BY <1>0, <2>2
    <3>3. \A k \in m + 1 .. n : k # e.no => k \in Numbers(rest, s)
      BY <1>5 DEF Numbers
    <3>4. \A k \in m + 1 .. n : e.no < k => k \in e.no + 1 .. n
      BY <1>0, <2>2
    <3>5. QED
      BY <3>1, <3>2, <3>3, <3>4
  <2>4. e.no <= n
    BY <1>0, <2>2
  <2>5. QED
    BY <1>1, <1>3, <1>4, <1>5, <1>7, <2>3, <2>4 DEF Owed, rest, n
<1>8. QED
  BY <1>6, <1>7

LEMMA VerdictInit == Init => VerdictInv
<1> SUFFICES ASSUME Init PROVE VerdictInv
  OBVIOUS
<1>1. Range(<<>>) = {} /\ Len(<<>>) = 0
  BY DEF Range
<1>2. ASSUME NEW s \in SessionIds PROVE Owed(<<>>, <<>>, <<>>, 0, 0, s)
  <2>1. Numbers({}, s) = {} /\ 0 + 1 .. 0 = {}
    BY DEF Numbers
  <2>2. Range(<<>>) \cup Range(<<>>) \cup Range(<<>>) = {}
    BY <1>1
  <2>3. Rising(<<>>, s) /\ Ahead(<<>>, <<>>, s)
    BY <1>1 DEF Rising, Ahead
  <2>4. Numbers(Range(<<>>) \cup Range(<<>>) \cup Range(<<>>), s) = 0 + 1 .. 0
    BY <2>1, <2>2
  <2>5. 0 <= 0
    OBVIOUS
  <2>6. QED
    BY <2>3, <2>4, <2>5, Zenon DEF Owed
<1>3. Owes
  BY <1>2 DEF Init, Owes
<1>4. QED
  BY <1>3, TypeInit DEF VerdictInv

LEMMA VerdictNext == VerdictInv /\ [Next]_vars => VerdictInv'
<1> SUFFICES ASSUME VerdictInv, [Next]_vars PROVE VerdictInv'
  OBVIOUS
<1>t. TypeInv /\ TypeInv'
  BY TypeNext DEF VerdictInv
<1> SUFFICES ASSUME NEW s \in SessionIds
             PROVE  Owed(score_q', ingress', emitting', scored'[s], assessed'[s], s)
  BY <1>t DEF VerdictInv, Owes
<1>1. CASE UNCHANGED <<score_q, ingress, emitting, scored, assessed>>
  BY <1>1 DEF VerdictInv, Owes
<1>2. CASE Collects
  <2>1. ASSUME NEW r \in SessionIds, Begin(r) \/ OnRead(r) \/ OnSessionEnd(r)
        PROVE  \E e \in Telemetry : TrySend(e) /\ UNCHANGED <<score_q, emitting, scored, assessed>>
    BY <2>1, Kinded DEF Begin, OnRead, OnSessionEnd, detection, scoring
  <2>2. ASSUME NEW u \in Users, ProcessExec(u)
        PROVE  \E e \in Telemetry : TrySend(e) /\ UNCHANGED <<score_q, emitting, scored, assessed>>
    BY <2>2, Kinded DEF ProcessExec, detection, scoring
  <2>3. QED
    BY <1>2, <2>1, <2>2, OwedCollects DEF Collects
<1>3. ASSUME NEW r \in SessionIds, ReadFails(r)
      PROVE  UNCHANGED <<score_q, ingress, emitting, scored, assessed>>
  BY <1>3 DEF ReadFails, channels, detection, scoring
<1>4. ASSUME NEW r \in SessionIds, DetectStart(r) \/ DetectInput(r) \/ DetectEnd(r)
      PROVE  Owed(score_q', ingress', emitting', scored'[s], assessed'[s], s)
  BY <1>4, OwedDetects
<1>5. ASSUME NEW r \in SessionIds, ScoreEnd(r)
      PROVE  Owed(score_q', ingress', emitting', scored'[s], assessed'[s], s)
  <2>1. ScoreTakes(End(r)) /\ scored' = scored
    BY <1>5 DEF ScoreEnd
  <2>2. ~IsOf(End(r), s)
    BY Kinded DEF IsOf
  <2>3. QED
    BY <2>1, <2>2, OwedScoreTakes
<1>6. ASSUME NEW u \in Users, ScoreExec(u)
      PROVE  Owed(score_q', ingress', emitting', scored'[s], assessed'[s], s)
  <2>1. ScoreTakes(Exec(u)) /\ scored' = scored
    BY <1>6 DEF ScoreExec
  <2>2. ~IsOf(Exec(u), s)
    BY Kinded DEF IsOf
  <2>3. QED
    BY <2>1, <2>2, OwedScoreTakes
<1>7. CASE ScoreDetection
  <2> DEFINE d == Head(score_q)
  <2>1. d \in Detections /\ ScoreTakes(d) /\ scored' = [scored EXCEPT ![d.subject] = d.no]
    BY <1>7 DEF ScoreDetection
  <2> HIDE DEF d
  <2>2. d.kind = "detection" /\ d.subject \in SessionIds /\ scored \in [SessionIds -> Nat]
    BY <1>t, <2>1, Kinded DEF TypeInv, Scoring
  <2>3. \/ ~IsOf(d, s) /\ scored'[s] = scored[s]
        \/ IsOf(d, s) /\ scored'[s] = d.no
    BY <2>1, <2>2 DEF IsOf
  <2>4. QED
    BY <2>1, <2>3, OwedScoreTakes
<1>8. CASE Dispatch
  BY <1>8, OwedDispatch
<1>9. CASE DetectEmits
  BY <1>9, OwedDetectEmits
<1>10. CASE Idle \/ DetectForgets \/ UNCHANGED vars
  BY <1>1, <1>10 DEF Idle, DetectForgets, vars, channels, detection, scoring
<1>11. QED
  BY <1>1, <1>2, <1>3, <1>4, <1>5, <1>6, <1>7, <1>8, <1>9, <1>10 DEF Next, Collects

(* The places of what is on the way: those of scoring's queue, of the      *)
(* ingress and of the handler.                                             *)
LEMMA Way ==
  ASSUME TypeInv
  PROVE  LET a == Len(score_q)  b == Len(ingress)  c == Len(emitting) IN
         /\ a \in Nat /\ b \in Nat /\ c \in Nat /\ DOMAIN OnTheWay = 1 .. a + b + c
         /\ \A i \in 1 .. a : OnTheWay[i] = score_q[i]
         /\ \A i \in 1 .. b : OnTheWay[a + i] = ingress[i]
         /\ \A i \in 1 .. c : OnTheWay[a + b + i] = emitting[i]
<1> DEFINE a == Len(score_q)
           b == Len(ingress)
           c == Len(emitting)
           front == score_q \o ingress
<1>1. score_q \in Seq(Events) /\ ingress \in Seq(Events) /\ a \in Nat /\ b \in Nat
  BY DEF TypeInv, Channels, Queue
<1>2. emitting \in Seq(Events) /\ c \in Nat
  <2>1. emitting \in [1 .. c -> Detections] /\ c \in Nat
    BY DEF TypeInv, Waiting
  <2>2. Detections \subseteq Events
    BY DEF Events
  <2>3. emitting \in [1 .. c -> Events]
    BY <2>1, <2>2
  <2>4. QED
    BY <2>1, <2>3
<1>3. /\ front \in Seq(Events) /\ Len(front) = a + b
      /\ \A i \in 1 .. a : front[i] = score_q[i]
      /\ \A i \in 1 .. b : front[a + i] = ingress[i]
  BY <1>1, ConcatPlaces
<1> HIDE DEF front, a, b, c
<1>4. /\ DOMAIN (front \o emitting) = 1 .. a + b + c
      /\ \A i \in 1 .. a + b : (front \o emitting)[i] = front[i]
      /\ \A i \in 1 .. c : (front \o emitting)[a + b + i] = emitting[i]
  <2>1. /\ DOMAIN (front \o emitting) = 1 .. Len(front) + Len(emitting)
        /\ \A i \in 1 .. Len(front) : (front \o emitting)[i] = front[i]
        /\ \A i \in 1 .. Len(emitting) : (front \o emitting)[Len(front) + i] = emitting[i]
    <3>1. front \in Seq(Events) /\ emitting \in Seq(Events)
      BY <1>2, <1>3
    <3>2. QED
      BY <3>1, ConcatPlaces
  <2>2. QED
    BY <2>1, <1>3 DEF c
<1>5. \A i \in 1 .. a : i \in 1 .. a + b
  BY <1>1
<1>6. \A i \in 1 .. b : a + i \in 1 .. a + b
  BY <1>1
<1>7. OnTheWay = front \o emitting
  BY DEF OnTheWay, front
<1>8. QED
  BY <1>1, <1>2, <1>3, <1>4, <1>5, <1>6, <1>7 DEF a, b, c

(* Every verdict of agent-detect is scored once, and in the order in which *)
(* it was given, whatever the bus drops of the rest: what is on its way is *)
(* what scoring lacks.                                                     *)
THEOREM VerdictsArrive == Spec => []VerdictsScored
<1>1. VerdictInv => VerdictsScored
  <2> SUFFICES ASSUME VerdictInv, NEW s \in SessionIds
               PROVE  /\ {OnTheWay[i].no : i \in PlacesOf(s)} = scored[s] + 1 .. assessed[s]
                      /\ \A i, j \in PlacesOf(s) : i < j => OnTheWay[i].no < OnTheWay[j].no
    BY DEF VerdictsScored
  <2> DEFINE a == Len(score_q)
             b == Len(ingress)
             c == Len(emitting)
             w == OnTheWay
             all == Range(score_q) \cup Range(ingress) \cup Range(emitting)
  <2>0. TypeInv /\ Owed(score_q, ingress, emitting, scored[s], assessed[s], s)
    BY DEF VerdictInv, Owes
  <2>1. /\ a \in Nat /\ b \in Nat /\ c \in Nat /\ DOMAIN w = 1 .. a + b + c
        /\ \A i \in 1 .. a : w[i] = score_q[i]
        /\ \A i \in 1 .. b : w[a + i] = ingress[i]
        /\ \A i \in 1 .. c : w[a + b + i] = emitting[i]
    BY <2>0, Way
  <2>2. c <= 1
    BY <2>0 DEF TypeInv, Waiting
  <2>3. /\ Range(score_q) = {score_q[i] : i \in 1 .. a}
        /\ Range(ingress) = {ingress[i] : i \in 1 .. b}
        /\ Range(emitting) = {emitting[i] : i \in 1 .. c}
    BY <2>0 DEF TypeInv, Channels, Queue, Waiting, Range
  <2>4. PlacesOf(s) = {i \in 1 .. a + b + c : IsOf(w[i], s)}
    BY <2>1 DEF PlacesOf, IsOf
  <2> HIDE DEF a, b, c, w
  <2>5. ASSUME NEW i \in 1 .. a + b + c
        PROVE  \/ i \in 1 .. a
               \/ i > a /\ i - a \in 1 .. b /\ i = a + (i - a)
               \/ i > a + b /\ i - a - b \in 1 .. c /\ i = a + b + (i - a - b)
    BY <2>1
  <2>6. ASSUME NEW i \in 1 .. a + b + c
        PROVE  \/ i \in 1 .. a /\ w[i] = score_q[i] /\ w[i] \in Range(score_q)
               \/ i > a /\ i <= a + b /\ i - a \in 1 .. b /\ w[i] = ingress[i - a] /\ w[i] \in Range(ingress)
               \/ i = a + b + 1 /\ w[i] \in Range(emitting)
    <3>1. CASE i \in 1 .. a
      BY <3>1, <2>1, <2>3
    <3>2. CASE i > a /\ i - a \in 1 .. b /\ i = a + (i - a)
      <4> DEFINE k == i - a
      <4>1. k \in 1 .. b /\ i = a + k /\ i <= a + b
        BY <3>2, <2>1
      <4> HIDE DEF k
      <4>2. w[i] = ingress[k] /\ w[i] \in Range(ingress)
        BY <4>1, <2>1, <2>3
      <4>3. QED
        BY <3>2, <4>1, <4>2 DEF k
    <3>3. CASE i > a + b /\ i - a - b \in 1 .. c /\ i = a + b + (i - a - b)
      <4> DEFINE k == i - a - b
      <4>1. k \in 1 .. c /\ i = a + b + k /\ k = 1
        BY <3>3, <2>1, <2>2
      <4> HIDE DEF k
      <4>2. w[i] = emitting[k] /\ w[i] \in Range(emitting)
        BY <4>1, <2>1, <2>3
      <4>3. QED
        BY <4>1, <4>2
    <3>4. QED
      BY <2>5, <3>1, <3>2, <3>3
  <2>7. all = {w[i] : i \in 1 .. a + b + c}
    <3>1. \A i \in 1 .. a : i \in 1 .. a + b + c
      BY <2>1
    <3>2. \A i \in 1 .. b : a + i \in 1 .. a + b + c
      BY <2>1
    <3>3. \A i \in 1 .. c : a + b + i \in 1 .. a + b + c
      BY <2>1
    <3>4. all \subseteq {w[i] : i \in 1 .. a + b + c}
      BY <2>1, <2>3, <3>1, <3>2, <3>3
    <3>5. {w[i] : i \in 1 .. a + b + c} \subseteq all
      BY <2>6
    <3>6. QED
      BY <3>4, <3>5
  <2>8. {w[i].no : i \in PlacesOf(s)} = scored[s] + 1 .. assessed[s]
    <3>1. {w[i].no : i \in PlacesOf(s)} = Numbers(all, s)
      BY <2>4, <2>7 DEF Numbers
    <3>2. QED
      BY <2>0, <3>1 DEF Owed
  <2>9. ASSUME NEW i \in PlacesOf(s), NEW j \in PlacesOf(s), i < j
        PROVE  w[i].no < w[j].no
    <3>0. /\ i \in 1 .. a + b + c /\ j \in 1 .. a + b + c /\ IsOf(w[i], s) /\ IsOf(w[j], s)
          /\ Rising(score_q, s) /\ Rising(ingress, s) /\ Ahead(score_q, ingress, s)
          /\ Ahead(score_q, emitting, s) /\ Ahead(ingress, emitting, s)
      BY <2>0, <2>4 DEF Owed
    <3>1. CASE i \in 1 .. a /\ j \in 1 .. a
      BY <2>9, <3>0, <3>1, <2>1 DEF Rising, a
    <3>2. CASE w[i] \in Range(score_q) /\ w[j] \in Range(ingress) \cup Range(emitting)
      BY <3>0, <3>2 DEF Ahead
    <3>3. CASE w[i] \in Range(ingress) /\ w[j] \in Range(emitting)
      BY <3>0, <3>3 DEF Ahead
    <3>4. CASE /\ i - a \in 1 .. b /\ w[i] = ingress[i - a]
               /\ j - a \in 1 .. b /\ w[j] = ingress[j - a]
      <4>1. i - a < j - a
        BY <2>1, <2>9, <3>0
      <4>2. QED
        BY <3>0, <3>4, <4>1 DEF Rising, b
    <3>5. CASE i > a /\ j \in 1 .. a
      BY <2>1, <2>9, <3>0, <3>5
    <3>6. CASE i = a + b + 1
      <4>1. j <= a + b + 1
        BY <2>1, <2>2, <3>0
      <4>2. QED
        BY <2>1, <2>9, <3>0, <3>6, <4>1
    <3>7. QED
      BY <2>6, <3>0, <3>1, <3>2, <3>3, <3>4, <3>5, <3>6
  <2>10. QED
    BY <2>8, <2>9 DEF w
<1>2. QED
  BY <1>1, VerdictInit, VerdictNext, PTL DEF Spec
=============================================================================

---------------------------- MODULE IngestProofs ----------------------------
(* Theorems of Ingest, for any connections, events, batches and windows,   *)
(* and any number of restarts and failing writes.                          *)
EXTENDS Ingest, SequenceFacts, FiniteSetTheorems

(* Updating a function at one point with a value of its type.              *)
LEMMA UpdateType ==
  ASSUME NEW D, NEW S, NEW f \in [D -> S], NEW d \in D, NEW v \in S
  PROVE  [f EXCEPT ![d] = v] \in [D -> S]
OBVIOUS

(* A batch the agent sends is one, whatever it consists of.                *)
Batches == Seq(Events)

(* Why awaiting counts no further than MaxInFlight, down or up: what it    *)
(* counts is in a socket buffer, with the task or on its way back.         *)
Outstanding(c, n) ==
  Len(inbox[c]) + Len(acks) <= n /\ (step[c] # "read" => Len(inbox[c]) + Len(acks) < n)

Balance ==
  /\ current = "none" => acks = <<>> /\ awaiting = 0
  /\ current # "none" => Outstanding(current, awaiting) /\ status[current] # "new"
  /\ \A c \in Conns : status[c] = "new" => inbox[c] = <<>> /\ step[c] = "read"

TypeInv == TypeOK /\ Balance

LEMMA InitTypes == Init => TypeInv
<1> SUFFICES ASSUME Init PROVE TypeInv
  OBVIOUS
<1>1. \A S : <<>> \in Seq(S) /\ Len(<<>>) = 0
  OBVIOUS
<1>2. inbox \in [Conns -> Seq(Seq(Events))] /\ acks \in Seq(Seq(Events))
  BY <1>1 DEF Init
<1>3. batch \in [Conns -> Seq(Events)] /\ answers \in [Conns -> Seq(Events)] /\ seen \in [Conns -> Seq(Events)]
  BY <1>1 DEF Init
<1>4. TypeOK
  BY <1>1, <1>2, <1>3, IngestAssumption DEF Init, TypeOK
<1>5. QED
  BY <1>4 DEF TypeInv, Balance, Init

(* A window holds ids and never more than its capacity.                    *)
LEMMA InsertedType ==
  ASSUME NEW w \in Seq(Events), NEW e \in Events, NEW n \in Nat \ {0}, Len(w) <= n
  PROVE  /\ Inserted(w, e, n) \in Seq(Events) /\ Len(Inserted(w, e, n)) <= n
         /\ e \in Range(Inserted(w, e, n)) /\ Range(Inserted(w, e, n)) \subseteq Range(w) \cup {e}
<1>1. CASE Len(w) >= n
  <2>1. w # <<>>
    <3>1. Len(w) > 0 /\ Len(<<>>) = 0
      BY <1>1
    <3>2. QED
      BY <3>1
  <2>2. /\ Tail(w) \in Seq(Events) /\ Len(Tail(w)) = Len(w) - 1 /\ Range(Tail(w)) \subseteq Range(w)
    BY <2>1, TailRange
  <2>3. Inserted(w, e, n) = Append(Tail(w), e)
    BY <1>1 DEF Inserted
  <2>4. /\ Append(Tail(w), e) \in Seq(Events) /\ Len(Append(Tail(w), e)) = Len(Tail(w)) + 1
        /\ Range(Append(Tail(w), e)) = Range(Tail(w)) \cup {e}
    <3> DEFINE t == Tail(w)
    <3>1. t \in Seq(Events) /\ e \in Events
      BY <2>2
    <3> HIDE DEF Events, t
    <3>2. /\ Append(t, e) \in Seq(Events) /\ Len(Append(t, e)) = Len(t) + 1
          /\ Range(Append(t, e)) = Range(t) \cup {e}
      BY <3>1, AppendRange
    <3>3. QED
      BY <3>2 DEF t
  <2>5. Len(w) \in Nat /\ Len(Append(Tail(w), e)) <= n
    BY <2>2, <2>4
  <2>6. QED
    BY <2>2, <2>3, <2>4, <2>5
<1>2. CASE ~(Len(w) >= n)
  <2>1. Inserted(w, e, n) = Append(w, e)
    BY <1>2 DEF Inserted
  <2>2. QED
    BY <1>2, <2>1, AppendRange
<1>3. QED
  BY <1>1, <1>2

(* The batch a connection works on loses its first event.                  *)
LEMMA NextEventType ==
  ASSUME TypeOK, NEW c \in Conns, NextEvent(c), batch[c] # <<>>
  PROVE  /\ batch' \in [Conns -> Seq(Events)] /\ step' \in [Conns -> {"read", "dedup", "write", "emit"}]
         /\ batch'[c] = Tail(batch[c]) /\ step'[c] = "dedup"
         /\ \A d \in Conns : d # c => batch'[d] = batch[d] /\ step'[d] = step[d]
<1>1. Tail(batch[c]) \in Seq(Events)
  BY TailRange DEF TypeOK
<1>2. QED
  BY <1>1, UpdateType DEF TypeOK, NextEvent

(* A step of the task of c that neither opens nor closes a connection and  *)
(* takes no more into its hands than it had.                               *)
LEMMA ServerBalance ==
  ASSUME TypeInv, NEW c \in Conns,
         status' = status, current' = current, awaiting' = awaiting,
         \A d \in Conns : d # c => inbox'[d] = inbox[d] /\ step'[d] = step[d],
         inbox[c] # <<>> \/ step[c] # "read",
         c # current => acks' = acks,
         \A n \in Nat :
             Outstanding(c, n) => /\ Len(inbox'[c]) + Len(acks') <= n
                                  /\ step'[c] # "read" => Len(inbox'[c]) + Len(acks') < n,
         Len(inbox'[c]) \in Nat, Len(acks') \in Nat
  PROVE  Balance'
<1>0. "none" \notin Conns /\ Len(inbox[c]) \in Nat /\ Len(acks) \in Nat /\ awaiting \in Nat
  BY SMTT(40), IngestAssumption DEF TypeInv, TypeOK
<1>1. status[c] # "new"
  BY DEF TypeInv, Balance
<1>2. current = "none" => acks' = <<>> /\ awaiting' = 0
  BY <1>0 DEF TypeInv, Balance
<1>3. \A d \in Conns : status'[d] = "new" => inbox'[d] = <<>> /\ step'[d] = "read"
  BY <1>1 DEF TypeInv, Balance
<1>4. ASSUME current # "none"
      PROVE  /\ Len(inbox'[current]) + Len(acks') <= awaiting
             /\ step'[current] # "read" => Len(inbox'[current]) + Len(acks') < awaiting
             /\ status[current] # "new"
  <2>1. /\ current \in Conns /\ status[current] # "new" /\ Outstanding(current, awaiting)
    BY <1>4 DEF TypeInv, Balance, TypeOK
  <2>2. CASE current = c
    BY <2>1, <2>2, <1>0
  <2>3. CASE current # c
    BY <2>1, <2>3 DEF Outstanding
  <2>4. QED
    BY <2>2, <2>3
<1>5. QED
  BY <1>2, <1>3, <1>4 DEF Balance, Outstanding

LEMMA NextTypes == TypeInv /\ [Next]_vars => TypeInv'
<1> SUFFICES ASSUME TypeInv, [Next]_vars PROVE TypeInv'
  OBVIOUS
<1>00. MaxInFlight \in Nat \ {0} /\ SessionCapacity \in Nat \ {0} /\ GlobalCapacity \in Nat \ {0} /\ "none" \notin Conns
  BY IngestAssumption
<1>0. TypeOK
  BY DEF TypeInv
<1>1. CASE AgentConnects
  <2>1. PICK c \in Conns : status[c] = "new" /\ current' = c /\ status' = [status EXCEPT ![c] = "open"]
    BY <1>1 DEF AgentConnects
  <2>2. UNCHANGED <<step, inbox, batch, answers, seen, global_dedup, log, unacked, awaiting, acks, bounds>> /\ current = "none"
    BY <1>1 DEF AgentConnects
  <2>3. TypeOK'
    <3>1. status' \in [Conns -> {"new", "open", "closed"}]
      BY <2>1, <1>0 DEF TypeOK
    <3>2. QED
      BY <2>1, <2>2, <3>1, <1>0 DEF TypeOK, log, bounds
  <2>4. inbox[c] = <<>> /\ step[c] = "read" /\ acks = <<>> /\ awaiting = 0 /\ c # "none"
    BY <2>1, <2>2, <1>00 DEF TypeInv, Balance
  <2>5. Balance'
    BY <2>1, <2>2, <2>4, <1>0 DEF TypeInv, Balance, TypeOK, Outstanding
  <2>6. QED
    BY <2>3, <2>5 DEF TypeInv
<1>2. CASE AgentSends
  <2>0. PICK k \in 1 .. BatchMaxEvents : \E oldest \in [1 .. k -> unacked] :
          inbox' = [inbox EXCEPT ![current] = Append(inbox[current], oldest)]
    BY <1>2 DEF AgentSends
  <2>1. PICK oldest \in [1 .. k -> unacked] :
          inbox' = [inbox EXCEPT ![current] = Append(inbox[current], oldest)]
    BY <2>0
  <2>2. oldest \in Seq(Events)
    BY <1>0 DEF TypeOK
  <2>3. current \in Conns /\ inbox[current] \in Seq(Seq(Events))
    BY <1>2, <1>0 DEF AgentSends, TypeOK
  <2> HIDE DEF Events
  <2>4. /\ Append(inbox[current], oldest) \in Seq(Seq(Events))
        /\ Len(Append(inbox[current], oldest)) = Len(inbox[current]) + 1
    BY <2>2, <2>3
  <2>5. inbox' \in [Conns -> Seq(Seq(Events))]
    BY <2>1, <2>3, <2>4, UpdateType, <1>0 DEF TypeOK
  <2>6. /\ inbox'[current] = Append(inbox[current], oldest)
        /\ \A c \in Conns : c # current => inbox'[c] = inbox[c]
    BY <2>1, <2>3, <1>0 DEF TypeOK
  <2>7. /\ awaiting' = awaiting + 1 /\ awaiting < MaxInFlight /\ current # "none"
        /\ UNCHANGED <<status, step, batch, answers, seen, global_dedup, log, current, unacked, acks, bounds>>
    BY <1>2 DEF AgentSends
  <2>8. awaiting' \in 0 .. MaxInFlight
    BY <2>7, <1>0, <1>00 DEF TypeOK
  <2>9. TypeOK'
    BY <1>0, <2>5, <2>7, <2>8 DEF TypeOK, log, bounds
  <2>10. \A c \in Conns : status[c] = "new" => c # current
    BY <2>7 DEF TypeInv, Balance
  <2>11. /\ Len(inbox'[current]) + Len(acks) <= awaiting + 1
         /\ step[current] # "read" => Len(inbox'[current]) + Len(acks) < awaiting + 1
    <3>1. Len(inbox[current]) \in Nat /\ Len(acks) \in Nat /\ awaiting \in Nat
      BY <2>3, <1>0 DEF TypeOK
    <3>2. /\ Len(inbox[current]) + Len(acks) <= awaiting
          /\ step[current] # "read" => Len(inbox[current]) + Len(acks) < awaiting
      BY <2>7 DEF TypeInv, Balance, Outstanding
    <3> DEFINE l == Len(inbox[current])
               m == Len(inbox'[current])
               a == Len(acks)
    <3>3. m = l + 1 /\ l \in Nat /\ a \in Nat /\ l + a <= awaiting /\ (step[current] # "read" => l + a < awaiting)
      BY <3>1, <3>2, <2>4, <2>6
    <3> HIDE DEF l, m, a
    <3>4. m + a <= awaiting + 1 /\ (step[current] # "read" => m + a < awaiting + 1)
      BY <3>1, <3>3
    <3>5. QED
      BY <3>4 DEF m, a
  <2>12. Balance'
    BY <2>6, <2>7, <2>10, <2>11 DEF TypeInv, Balance, Outstanding
  <2>13. QED
    BY <2>9, <2>12 DEF TypeInv
<1>3. CASE AgentTakesAck
  <2>0. /\ acks # <<>> /\ acks' = Tail(acks) /\ awaiting' = awaiting - 1 /\ unacked' \subseteq unacked
        /\ UNCHANGED <<conn, global_dedup, log, current, bounds>>
    BY <1>3 DEF AgentTakesAck
  <2>1. acks \in Seq(Seq(Events)) /\ Len(acks) \in Nat \ {0}
        /\ Tail(acks) \in Seq(Seq(Events)) /\ Len(Tail(acks)) = Len(acks) - 1
    <3> HIDE DEF Events
    <3>1. acks \in Seq(Seq(Events))
      BY <1>0 DEF TypeOK
    <3>2. QED
      BY <3>1, <2>0
  <2>2. current # "none" /\ current \in Conns /\ Len(inbox[current]) \in Nat
    BY <2>0, <1>0 DEF TypeOK, TypeInv, Balance
  <2>3. /\ Len(inbox[current]) + Len(acks) <= awaiting
        /\ step[current] # "read" => Len(inbox[current]) + Len(acks) < awaiting
    BY <2>2 DEF TypeInv, Balance, Outstanding
  <2>4. awaiting - 1 \in 0 .. MaxInFlight
    BY <2>1, <2>2, <2>3, <1>0, <1>00 DEF TypeOK
  <2>5. TypeOK'
    BY <1>0, <2>0, <2>1, <2>4 DEF TypeOK, conn, log, bounds
  <2>6. /\ Len(inbox[current]) + Len(Tail(acks)) <= awaiting - 1
        /\ step[current] # "read" => Len(inbox[current]) + Len(Tail(acks)) < awaiting - 1
    BY <2>1, <2>2, <2>3, <1>0 DEF TypeOK
  <2>7. Balance'
    BY <2>0, <2>2, <2>6 DEF TypeInv, Balance, Outstanding, conn
  <2>8. QED
    BY <2>5, <2>7 DEF TypeInv
<1>4. CASE AgentLeaves
  BY <1>4, <1>00 DEF AgentLeaves, TypeInv, Balance, TypeOK, conn, log, bounds
<1>5. ASSUME NEW c \in Conns, ReadBatch(c) PROVE TypeInv'
  <2>0. /\ inbox[c] # <<>> /\ step[c] = "read" /\ inbox' = [inbox EXCEPT ![c] = Tail(inbox[c])]
        /\ batch' = [batch EXCEPT ![c] = Head(inbox[c])] /\ answers' = [answers EXCEPT ![c] = Head(inbox[c])]
        /\ step' = [step EXCEPT ![c] = "dedup"] /\ UNCHANGED <<status, seen, global_dedup, log, agent, bounds>>
    BY <1>5 DEF ReadBatch
  <2>1. /\ Head(inbox[c]) \in Seq(Events) /\ Tail(inbox[c]) \in Seq(Seq(Events))
        /\ Len(Tail(inbox[c])) = Len(inbox[c]) - 1 /\ Len(inbox[c]) \in Nat
    <3> HIDE DEF Events
    <3>1. inbox[c] \in Seq(Seq(Events)) /\ inbox[c] # <<>>
      BY <2>0, <1>0 DEF TypeOK
    <3>2. QED
      BY <3>1, TailRange
  <2>2. /\ inbox' \in [Conns -> Seq(Seq(Events))] /\ batch' \in [Conns -> Seq(Events)]
        /\ answers' \in [Conns -> Seq(Events)] /\ step' \in [Conns -> {"read", "dedup", "write", "emit"}]
    BY <1>0, <2>0, <2>1, UpdateType DEF TypeOK
  <2>3. /\ inbox'[c] = Tail(inbox[c]) /\ step'[c] = "dedup"
        /\ \A d \in Conns : d # c => inbox'[d] = inbox[d] /\ step'[d] = step[d] /\ batch'[d] = batch[d]
    BY <1>0, <2>0 DEF TypeOK
  <2>4. TypeOK'
    BY ZenonT(60), <1>0, <2>0, <2>2, <2>3 DEF TypeOK, log, agent, bounds
  <2>5. Len(acks) \in Nat /\ UNCHANGED <<status, current, awaiting, acks>>
    BY <1>0, <2>0 DEF TypeOK, agent
  <2>6. \A n \in Nat :
             Outstanding(c, n) => /\ Len(inbox'[c]) + Len(acks') <= n
                                  /\ step'[c] # "read" => Len(inbox'[c]) + Len(acks') < n
    <3>1. Len(inbox'[c]) = Len(inbox[c]) - 1 /\ Len(acks') = Len(acks)
      BY <2>1, <2>3, <2>5
    <3>2. QED
      BY <2>1, <2>5, <3>1 DEF Outstanding
  <2>61. Len(inbox'[c]) \in Nat /\ Len(acks') \in Nat
    BY <2>1, <2>3, <2>5
  <2>7. Balance'
    BY <2>0, <2>3, <2>5, <2>6, <2>61, ServerBalance
  <2>8. QED
    BY <2>4, <2>7 DEF TypeInv
<1>6. ASSUME NEW c \in Conns, Dedup(c) PROVE TypeInv'
  <2>1. batch[c] # <<>> /\ step[c] = "dedup" /\ Head(batch[c]) \in Events
    BY <1>6, <1>0, TailRange DEF Dedup, TypeOK
  <2> DEFINE e == Head(batch[c])
  <2>2. /\ seen' \in {seen, [seen EXCEPT ![c] = Inserted(seen[c], e, SessionCapacity)]}
        /\ global_dedup' \in {global_dedup, Inserted(global_dedup, e, GlobalCapacity)}
    BY <1>6 DEF Dedup
  <2>3. /\ seen' \in [Conns -> Seq(Events)] /\ \A d \in Conns : Len(seen'[d]) <= SessionCapacity
        /\ global_dedup' \in Seq(Events) /\ Len(global_dedup') <= GlobalCapacity
    <3>0. /\ seen[c] \in Seq(Events) /\ Len(seen[c]) <= SessionCapacity /\ e \in Events
          /\ global_dedup \in Seq(Events) /\ Len(global_dedup) <= GlobalCapacity
      BY <1>0, <2>1 DEF TypeOK
    <3> HIDE DEF e, Inserted, Events
    <3>1. /\ Inserted(seen[c], e, SessionCapacity) \in Seq(Events)
          /\ Len(Inserted(seen[c], e, SessionCapacity)) <= SessionCapacity
      BY <3>0, <1>00, InsertedType
    <3>2. /\ Inserted(global_dedup, e, GlobalCapacity) \in Seq(Events)
          /\ Len(Inserted(global_dedup, e, GlobalCapacity)) <= GlobalCapacity
      BY <3>0, <1>00, InsertedType
    <3>3. /\ seen \in [Conns -> Seq(Events)] /\ \A d \in Conns : Len(seen[d]) <= SessionCapacity
      BY <1>0 DEF TypeOK
    <3>4. global_dedup' \in Seq(Events) /\ Len(global_dedup') <= GlobalCapacity
      BY <2>2, <3>0, <3>2
    <3>5. CASE seen' = seen
      BY <3>3, <3>4, <3>5
    <3>6. CASE seen' = [seen EXCEPT ![c] = Inserted(seen[c], e, SessionCapacity)]
      BY <3>1, <3>3, <3>4, <3>6
    <3>7. QED
      BY <2>2, <3>5, <3>6
  <2>4. NextEvent(c) \/ (step' = [step EXCEPT ![c] = "write"] /\ UNCHANGED batch)
    BY <1>6 DEF Dedup
  <2>5. /\ step' \in [Conns -> {"read", "dedup", "write", "emit"}] /\ batch' \in [Conns -> Seq(Events)]
        /\ step'[c] \in {"dedup", "write"} /\ \A d \in Conns : d # c => step'[d] = step[d] /\ batch'[d] = batch[d]
        /\ step'[c] = "write" => batch'[c] # <<>>
    BY <1>0, <2>1, <2>4, NextEventType DEF TypeOK
  <2>6. UNCHANGED <<status, inbox, answers, log, agent, bounds>>
    BY <1>6 DEF Dedup
  <2>7. TypeOK'
    BY <1>0, <2>3, <2>5, <2>6 DEF TypeOK, log, agent, bounds
  <2>8. Len(inbox[c]) \in Nat /\ Len(acks) \in Nat /\ UNCHANGED <<status, inbox, current, awaiting, acks>>
    BY <1>0, <2>6 DEF TypeOK, agent
  <2>81. \A n \in Nat :
             Outstanding(c, n) => /\ Len(inbox'[c]) + Len(acks') <= n
                                  /\ step'[c] # "read" => Len(inbox'[c]) + Len(acks') < n
    BY <2>1, <2>8 DEF Outstanding
  <2>9. Balance'
    BY <2>1, <2>5, <2>8, <2>81, ServerBalance
  <2>10. QED
    BY <2>7, <2>9 DEF TypeInv
<1>7. ASSUME NEW c \in Conns, Write(c) \/ EmitToBus(c) PROVE TypeInv'
  <2>1. batch[c] # <<>> /\ step[c] \in {"write", "emit"} /\ Head(batch[c]) \in Events
    BY <1>7, <1>0, TailRange DEF Write, EmitToBus, TypeOK
  <2>2. NextEvent(c) \/ (step' = [step EXCEPT ![c] = "emit"] /\ UNCHANGED batch)
    BY <1>7 DEF Write, EmitToBus
  <2>3. /\ step' \in [Conns -> {"read", "dedup", "write", "emit"}] /\ batch' \in [Conns -> Seq(Events)]
        /\ step'[c] \in {"dedup", "emit"} /\ \A d \in Conns : d # c => step'[d] = step[d] /\ batch'[d] = batch[d]
        /\ step'[c] = "emit" => batch'[c] # <<>>
    BY <1>0, <2>1, <2>2, NextEventType DEF TypeOK
  <2>4. /\ stored' \subseteq Events /\ lost' \subseteq Events /\ emitted' \in [Events -> Nat]
        /\ restarts' \in Nat /\ write_errors' \in Nat
    <3>1. /\ stored' \in {stored, stored \cup {Head(batch[c])}} /\ lost' \in {lost, lost \cup {Head(batch[c])}}
          /\ emitted' \in {emitted, [emitted EXCEPT ![Head(batch[c])] = emitted[Head(batch[c])] + 1]}
          /\ restarts' = restarts /\ write_errors' \in {write_errors, write_errors + 1}
      BY <1>7 DEF Write, EmitToBus, bounds, log
    <3>2. stored \subseteq Events /\ lost \subseteq Events /\ emitted \in [Events -> Nat] /\ restarts \in Nat /\ write_errors \in Nat
      BY <1>0 DEF TypeOK
    <3> HIDE DEF Events
    <3>3. emitted' \in [Events -> Nat]
      BY <2>1, <3>1, <3>2
    <3>4. QED
      BY <2>1, <3>1, <3>2, <3>3
  <2>5. UNCHANGED <<status, inbox, answers, seen, global_dedup, agent>>
    BY <1>7 DEF Write, EmitToBus
  <2>6. TypeOK'
    BY <1>0, <2>3, <2>4, <2>5 DEF TypeOK, agent
  <2>7. Len(inbox[c]) \in Nat /\ Len(acks) \in Nat /\ UNCHANGED <<status, inbox, current, awaiting, acks>>
    BY <1>0, <2>5 DEF TypeOK, agent
  <2>71. \A n \in Nat :
             Outstanding(c, n) => /\ Len(inbox'[c]) + Len(acks') <= n
                                  /\ step'[c] # "read" => Len(inbox'[c]) + Len(acks') < n
    BY <2>1, <2>7 DEF Outstanding
  <2>8. Balance'
    BY <2>1, <2>3, <2>7, <2>71, ServerBalance
  <2>9. QED
    BY <2>6, <2>8 DEF TypeInv
<1>8. ASSUME NEW c \in Conns, SendAck(c) PROVE TypeInv'
  <2>0. /\ step[c] = "dedup" /\ step' = [step EXCEPT ![c] = "read"]
        /\ status' \in {status, [status EXCEPT ![c] = "closed"]}
        /\ UNCHANGED <<inbox, batch, answers, seen, global_dedup, log, current, unacked, awaiting, bounds>>
    BY <1>8 DEF SendAck
  <2>1. \/ c = current /\ acks' = Append(acks, answers[c]) /\ UNCHANGED status
        \/ c # current /\ UNCHANGED acks
    BY <1>8 DEF SendAck
  <2>2. /\ Append(acks, answers[c]) \in Seq(Seq(Events)) /\ Len(Append(acks, answers[c])) = Len(acks) + 1
        /\ Len(acks) \in Nat /\ acks \in Seq(Seq(Events))
    <3> HIDE DEF Events
    <3>1. acks \in Seq(Seq(Events)) /\ answers[c] \in Seq(Events)
      BY <1>0 DEF TypeOK
    <3>2. QED
      BY <3>1
  <2>3. /\ step' \in [Conns -> {"read", "dedup", "write", "emit"}] /\ step'[c] = "read"
        /\ status' \in [Conns -> {"new", "open", "closed"}] /\ acks' \in Seq(Seq(Events))
        /\ \A d \in Conns : d # c => step'[d] = step[d] /\ status'[d] = status[d]
        /\ status'[c] \in {status[c], "closed"}
    BY <1>0, <2>0, <2>1, <2>2 DEF TypeOK
  <2>4. TypeOK'
    BY <1>0, <2>0, <2>1, <2>2, <2>3 DEF TypeOK, log, bounds
  <2>5. Len(inbox[c]) \in Nat
    BY <1>0 DEF TypeOK
  <2>6. CASE c = current
    <3>1. /\ Len(acks') = Len(acks) + 1 /\ Len(acks') \in Nat /\ UNCHANGED <<status, inbox, current, awaiting>>
      BY <2>0, <2>1, <2>2, <2>6
    <3>2. \A n \in Nat :
             Outstanding(c, n) => /\ Len(inbox'[c]) + Len(acks') <= n
                                  /\ step'[c] # "read" => Len(inbox'[c]) + Len(acks') < n
      <4> DEFINE l == Len(inbox[c])
                 a == Len(acks)
      <4>1. l \in Nat /\ a \in Nat /\ Len(inbox'[c]) = l /\ Len(acks') = a + 1 /\ step[c] # "read" /\ step'[c] = "read"
        BY <2>0, <2>2, <2>3, <2>5, <3>1
      <4>2. \A n \in Nat : Outstanding(c, n) => l + a < n
        BY <4>1 DEF Outstanding
      <4> HIDE DEF l, a
      <4>3. QED
        BY <4>1, <4>2
    <3>3. Balance'
      BY <2>0, <2>3, <2>5, <2>6, <3>1, <3>2, ServerBalance
    <3>4. QED
      BY <2>4, <3>3 DEF TypeInv
  <2>7. CASE c # current
    <3>1. UNCHANGED <<inbox, current, awaiting, acks>>
      BY <2>0, <2>1, <2>7
    <3>2. Balance'
      BY SMTT(40), <1>0, <2>0, <2>3, <2>7, <3>1 DEF TypeInv, Balance, TypeOK, Outstanding
    <3>3. QED
      BY <2>4, <3>2 DEF TypeInv
  <2>8. QED
    BY <2>6, <2>7
<1>9. ASSUME NEW c \in Conns, Close(c) PROVE TypeInv'
  <2>0. /\ c # current /\ status' = [status EXCEPT ![c] = "closed"] /\ inbox' = [inbox EXCEPT ![c] = <<>>]
        /\ UNCHANGED <<step, batch, answers, seen, global_dedup, log, agent, bounds>>
    BY <1>9 DEF Close
  <2>1. inbox' \in [Conns -> Seq(Seq(Events))] /\ status' \in [Conns -> {"new", "open", "closed"}]
    BY SMTT(40), <1>0, <2>0 DEF TypeOK
  <2>2. TypeOK'
    BY <1>0, <2>0, <2>1 DEF TypeOK, log, agent, bounds
  <2>3. \A d \in Conns : d # c => inbox'[d] = inbox[d] /\ status'[d] = status[d]
    BY <1>0, <2>0 DEF TypeOK
  <2>4. status'[c] = "closed" /\ (current # "none" => current \in Conns)
    BY <1>0, <2>0 DEF TypeOK
  <2>5. Balance'
    BY <2>0, <2>3, <2>4 DEF TypeInv, Balance, Outstanding, agent
  <2>6. QED
    BY <2>2, <2>5 DEF TypeInv
<1>10. CASE Restart
  <2>1. \A c \in Conns : step[c] = "write" => Head(batch[c]) \in Events
    BY <1>0, TailRange DEF TypeOK
  <2>2. /\ status' = [c \in Conns |-> IF status[c] = "open" THEN "closed" ELSE status[c]]
        /\ step' = [c \in Conns |-> "read"] /\ batch' = [c \in Conns |-> <<>>]
        /\ inbox' = [c \in Conns |-> <<>>] /\ global_dedup' = <<>>
        /\ lost' = lost \cup {Head(batch[c]) : c \in {d \in Conns : step[d] = "write"}}
        /\ current' = "none" /\ awaiting' = 0 /\ acks' = <<>> /\ restarts' = restarts + 1
        /\ UNCHANGED <<answers, seen, stored, emitted, unacked, write_errors>>
    BY <1>10 DEF Restart
  <2>3. /\ batch' \in [Conns -> Seq(Events)] /\ inbox' \in [Conns -> Seq(Seq(Events))]
        /\ global_dedup' \in Seq(Events) /\ acks' \in Seq(Seq(Events)) /\ Len(global_dedup') = 0
    <3> HIDE DEF Events
    <3>1. \A S : <<>> \in Seq(S) /\ Len(<<>>) = 0
      OBVIOUS
    <3>2. QED
      BY <2>2, <3>1
  <2>4. lost' \subseteq Events
    BY <1>0, <2>1, <2>2 DEF TypeOK
  <2>5. TypeOK'
    BY <1>0, <1>00, <2>2, <2>3, <2>4 DEF TypeOK
  <2>6. Balance'
    BY <1>0, <2>2 DEF Balance, TypeOK
  <2>7. QED
    BY <2>5, <2>6 DEF TypeInv
<1>11. CASE UNCHANGED vars
  BY <1>11 DEF vars, TypeInv, Balance, TypeOK, Outstanding, conn, log, agent, bounds
<1>12. QED
  BY <1>1, <1>2, <1>3, <1>4, <1>5, <1>6, <1>7, <1>8, <1>9, <1>10, <1>11 DEF Next, Server

(* Types, the capacities of both windows, and a balance: no more batches   *)
(* of the agent's connection are in its socket, with its task or on their  *)
(* way back as acks than the agent counts in awaiting, so an ack never     *)
(* takes that count below zero; and no other connection's task answers it. *)
THEOREM TypeCorrect == Spec => [](TypeOK /\ Balance)
<1>1. TypeInv => TypeOK /\ Balance
  BY DEF TypeInv
<1>2. QED
  BY <1>1, InitTypes, NextTypes, PTL DEF Spec

(***************************************************************************)
(* Nothing the agent may forget was skipped.                               *)
(***************************************************************************)
(* What the server has taken charge of: it is refused, in the log, lost to *)
(* a failed write, or in the hands of a connection about to write or emit. *)
Settled ==
  Derived \cup stored \cup lost
    \cup {Head(batch[c]) : c \in {d \in Conns : step[d] \in {"write", "emit"}}}

(* What the windows hold, what is left behind in a batch and what is being *)
(* acknowledged is settled, and so is what the agent has forgotten.        *)
AckInv ==
  /\ \A c \in Conns : step[c] = "emit" => Head(batch[c]) \in stored
  /\ \A c \in Conns : \A e \in Range(seen[c]) : e \in Settled
  /\ \A e \in Range(global_dedup) : e \in Settled
  /\ \A c \in Conns : step[c] # "read" =>
       \A e \in Range(answers[c]) : e \in Range(batch[c]) \/ e \in Settled
  /\ \A b \in Range(acks) : \A e \in Range(b) : e \in Settled
  /\ \A e \in Events : e \notin unacked => e \in Settled

(* What is settled stays so when one connection moves and finishes its own *)
(* claim, if it has one, in the log or among the lost.                     *)
LEMMA SettledKept ==
  ASSUME NEW c \in Conns,
         \A d \in Conns : d # c => batch'[d] = batch[d] /\ step'[d] = step[d],
         stored \subseteq stored', lost \subseteq lost',
         \A e : Claims(c, e) => e \in stored' \cup lost' \/ (step'[c] \in {"write", "emit"} /\ Head(batch'[c]) = e)
  PROVE  Settled \subseteq Settled'
<1> SUFFICES ASSUME NEW e \in Settled PROVE e \in Settled'
  OBVIOUS
<1>1. CASE e \in Derived \cup stored \cup lost
  BY <1>1 DEF Settled
<1>2. ASSUME NEW d \in Conns, step[d] \in {"write", "emit"}, Head(batch[d]) = e
      PROVE  e \in Settled'
  <2>1. CASE d = c
    BY <1>2, <2>1 DEF Settled, Claims
  <2>2. CASE d # c
    BY <1>2, <2>2 DEF Settled
  <2>3. QED
    BY <2>1, <2>2
<1>3. QED
  BY <1>1, <1>2 DEF Settled

LEMMA InitAck == Init => AckInv
<1> SUFFICES ASSUME Init PROVE AckInv
  OBVIOUS
<1>1. Range(<<>>) = {}
  BY DEF Range
<1>2. QED
  BY <1>1 DEF Init, AckInv

LEMMA NextAck == TypeInv /\ AckInv /\ [Next]_vars => AckInv'
<1> SUFFICES ASSUME TypeInv, AckInv, [Next]_vars PROVE AckInv'
  OBVIOUS
<1>0. TypeOK
  BY DEF TypeInv
<1>1. CASE AgentConnects \/ AgentSends \/ UNCHANGED vars
  BY <1>1 DEF AgentConnects, AgentSends, vars, conn, log, agent, AckInv, Settled
<1>2. CASE AgentTakesAck
  <2>0. /\ acks # <<>> /\ acks' = Tail(acks) /\ unacked' = unacked \ Range(Head(acks))
        /\ UNCHANGED <<conn, global_dedup, log>>
    BY <1>2 DEF AgentTakesAck
  <2>1. Settled = Settled'
    BY <2>0 DEF Settled, conn, log
  <2>2. Range(acks) = {Head(acks)} \cup Range(Tail(acks))
    <3> HIDE DEF Events
    <3>1. acks \in Seq(Seq(Events))
      BY <1>0 DEF TypeOK
    <3>2. QED
      BY <3>1, <2>0, TailRange
  <2>3. \A e \in Range(Head(acks)) : e \in Settled
    BY <2>2 DEF AckInv
  <2>4. \A e \in Events : e \notin unacked' => e \in Settled
    BY <2>0, <2>3 DEF AckInv
  <2>5. \A b \in Range(acks') : \A e \in Range(b) : e \in Settled
    BY <2>0, <2>2 DEF AckInv
  <2>6. QED
    BY <2>0, <2>1, <2>4, <2>5 DEF AckInv, conn, log
<1>3. CASE AgentLeaves
  <2>1. Settled = Settled'
    BY <1>3 DEF AgentLeaves, Settled, conn, log
  <2>2. Range(acks') = {}
    BY <1>3 DEF AgentLeaves, Range
  <2>3. QED
    BY <1>3, <2>1, <2>2 DEF AgentLeaves, AckInv, conn, log
<1>4. ASSUME NEW c \in Conns, ReadBatch(c) PROVE AckInv'
  <2>0. /\ step[c] = "read" /\ batch' = [batch EXCEPT ![c] = Head(inbox[c])]
        /\ answers' = [answers EXCEPT ![c] = Head(inbox[c])] /\ step' = [step EXCEPT ![c] = "dedup"]
        /\ UNCHANGED <<seen, global_dedup, stored, lost, unacked, acks>>
    BY <1>4 DEF ReadBatch, log, agent
  <2>1. /\ batch'[c] = answers'[c] /\ step'[c] = "dedup"
        /\ \A d \in Conns : d # c => batch'[d] = batch[d] /\ step'[d] = step[d] /\ answers'[d] = answers[d]
    BY <1>0, <2>0 DEF TypeOK
  <2>2. Settled \subseteq Settled'
    BY <2>0, <2>1, SettledKept DEF Claims
  <2>3. QED
    BY <2>0, <2>1, <2>2 DEF AckInv
<1>5. ASSUME NEW c \in Conns, Dedup(c) PROVE AckInv'
  <2> DEFINE e == Head(batch[c])
  <2>0. /\ step[c] = "dedup" /\ batch[c] # <<>>
        /\ UNCHANGED <<inbox, answers, stored, lost, unacked, acks>>
    BY <1>5 DEF Dedup, log, agent
  <2>1. /\ batch[c] \in Seq(Events) /\ e \in Events /\ Range(batch[c]) = {e} \cup Range(Tail(batch[c]))
    BY <1>0, <2>0, TailRange DEF TypeOK
  <2>2. NextEvent(c) \/ (step' = [step EXCEPT ![c] = "write"] /\ UNCHANGED batch)
    BY <1>5 DEF Dedup
  <2>3. \A d \in Conns : d # c => batch'[d] = batch[d] /\ step'[d] = step[d]
    BY <1>0, <2>2 DEF TypeOK, NextEvent
  <2>4. Settled \subseteq Settled'
    BY <2>0, <2>3, SettledKept DEF Claims
  <2>5. e \in Settled'
    <3>1. CASE e \in Range(seen[c]) \/ e \in Range(global_dedup)
      BY <2>4, <3>1 DEF AckInv
    <3>2. CASE e \notin Range(seen[c]) /\ e \notin Range(global_dedup) /\ e \in Derived
      BY <3>2 DEF Settled
    <3>3. CASE e \notin Range(seen[c]) /\ e \notin Range(global_dedup) /\ e \notin Derived
      <4>1. step' = [step EXCEPT ![c] = "write"] /\ batch' = batch
        BY <1>5, <3>3 DEF Dedup
      <4>2. step'[c] = "write" /\ Head(batch'[c]) = e
        BY <4>1, <1>0 DEF TypeOK
      <4>3. QED
        BY <4>2 DEF Settled
    <3>4. QED
      BY <3>1, <3>2, <3>3
  <2>6. /\ \A d \in Conns : Range(seen'[d]) \subseteq Range(seen[d]) \cup {e}
        /\ Range(global_dedup') \subseteq Range(global_dedup) \cup {e}
    <3>0. /\ seen[c] \in Seq(Events) /\ Len(seen[c]) <= SessionCapacity /\ e \in Events
          /\ global_dedup \in Seq(Events) /\ Len(global_dedup) <= GlobalCapacity
          /\ seen \in [Conns -> Seq(Events)]
      BY <1>0, <2>1 DEF TypeOK
    <3>1. /\ seen' \in {seen, [seen EXCEPT ![c] = Inserted(seen[c], e, SessionCapacity)]}
          /\ global_dedup' \in {global_dedup, Inserted(global_dedup, e, GlobalCapacity)}
      BY <1>5 DEF Dedup
    <3>2. SessionCapacity \in Nat \ {0} /\ GlobalCapacity \in Nat \ {0}
      BY IngestAssumption
    <3> HIDE DEF e, Inserted, Events
    <3>3. Range(Inserted(seen[c], e, SessionCapacity)) \subseteq Range(seen[c]) \cup {e}
      BY <3>0, <3>2, InsertedType
    <3>4. Range(Inserted(global_dedup, e, GlobalCapacity)) \subseteq Range(global_dedup) \cup {e}
      BY <3>0, <3>2, InsertedType
    <3>5. \A d \in Conns : seen'[d] = seen[d] \/ (d = c /\ seen'[d] = Inserted(seen[c], e, SessionCapacity))
      BY <3>0, <3>1
    <3>6. QED
      BY <3>1, <3>3, <3>4, <3>5
  <2>7. \A d \in Conns : step'[d] # "read" => \A f \in Range(answers'[d]) : f \in Range(batch'[d]) \/ f \in Settled'
    <3>1. CASE NextEvent(c)
      <4>1. batch'[c] = Tail(batch[c]) /\ step'[c] = "dedup"
        BY <1>0, <3>1 DEF TypeOK, NextEvent
      <4> HIDE DEF e
      <4>2. QED
        BY <2>0, <2>1, <2>3, <2>4, <2>5, <4>1 DEF AckInv
    <3>2. CASE step' = [step EXCEPT ![c] = "write"] /\ UNCHANGED batch
      BY <2>0, <2>3, <2>4, <3>2 DEF AckInv
    <3>3. QED
      BY <2>2, <3>1, <3>2
  <2>8. \A d \in Conns : step'[d] = "emit" => Head(batch'[d]) \in stored'
    <3>1. step'[c] # "emit"
      BY <2>2, <1>0 DEF TypeOK, NextEvent
    <3>2. QED
      BY <2>0, <2>3, <3>1 DEF AckInv
  <2> HIDE DEF e
  <2>9. QED
    BY <2>0, <2>4, <2>5, <2>6, <2>7, <2>8 DEF AckInv
<1>6. ASSUME NEW c \in Conns, Write(c) \/ EmitToBus(c) PROVE AckInv'
  <2> DEFINE e == Head(batch[c])
  <2>0. /\ step[c] \in {"write", "emit"} /\ UNCHANGED <<answers, seen, global_dedup, unacked, acks>>
        /\ stored \subseteq stored' /\ lost \subseteq lost'
    BY <1>6 DEF Write, EmitToBus, agent
  <2>1. batch[c] # <<>> /\ Range(batch[c]) = {e} \cup Range(Tail(batch[c]))
    BY <1>0, <2>0, TailRange DEF TypeOK
  <2>2. \/ NextEvent(c) /\ e \in stored' \cup lost'
        \/ step' = [step EXCEPT ![c] = "emit"] /\ UNCHANGED batch /\ e \in stored'
    BY <1>6 DEF Write, EmitToBus, AckInv
  <2>3. \A d \in Conns : d # c => batch'[d] = batch[d] /\ step'[d] = step[d]
    BY <1>0, <2>2 DEF TypeOK, NextEvent
  <2>4. e \in stored' \cup lost'
    BY <2>2
  <2>5. Settled \subseteq Settled'
    BY <2>0, <2>3, <2>4, SettledKept DEF Claims
  <2>6. e \in Settled'
    BY <2>4 DEF Settled
  <2>7. \A d \in Conns : step'[d] # "read" => \A f \in Range(answers'[d]) : f \in Range(batch'[d]) \/ f \in Settled'
    <3>1. CASE NextEvent(c)
      <4>1. batch'[c] = Tail(batch[c]) /\ step'[c] = "dedup"
        BY <1>0, <3>1 DEF TypeOK, NextEvent
      <4> HIDE DEF e
      <4>2. QED
        BY <2>0, <2>1, <2>3, <2>5, <2>6, <4>1 DEF AckInv
    <3>2. CASE step' = [step EXCEPT ![c] = "emit"] /\ UNCHANGED batch
      BY <2>0, <2>3, <2>5, <3>2 DEF AckInv
    <3>3. QED
      BY <2>2, <3>1, <3>2
  <2>8. \A d \in Conns : step'[d] = "emit" => Head(batch'[d]) \in stored'
    <3>1. step'[c] = "emit" => Head(batch'[c]) \in stored'
      BY <2>2, <1>0 DEF TypeOK, NextEvent
    <3>2. QED
      BY <2>0, <2>3, <3>1 DEF AckInv
  <2> HIDE DEF e
  <2>9. QED
    BY <2>0, <2>5, <2>7, <2>8 DEF AckInv
<1>7. ASSUME NEW c \in Conns, SendAck(c) PROVE AckInv'
  <2>0. /\ step[c] = "dedup" /\ batch[c] = <<>> /\ step' = [step EXCEPT ![c] = "read"]
        /\ acks' \in {acks, Append(acks, answers[c])}
        /\ UNCHANGED <<batch, answers, seen, global_dedup, stored, lost, unacked>>
    BY <1>7 DEF SendAck, log
  <2>1. step'[c] = "read" /\ \A d \in Conns : d # c => step'[d] = step[d]
    BY <1>0, <2>0 DEF TypeOK
  <2>2. Settled \subseteq Settled'
    BY <2>0, <2>1, SettledKept DEF Claims
  <2>3. \A e \in Range(answers[c]) : e \in Settled
    <3>1. Range(batch[c]) = {}
      BY <2>0 DEF Range
    <3>2. QED
      BY <2>0, <3>1 DEF AckInv
  <2>4. Range(Append(acks, answers[c])) = Range(acks) \cup {answers[c]}
    <3> HIDE DEF Events
    <3>1. acks \in Seq(Seq(Events)) /\ answers[c] \in Seq(Events)
      BY <1>0 DEF TypeOK
    <3>2. QED
      BY <3>1, AppendRange
  <2>5. \A b \in Range(acks') : \A e \in Range(b) : e \in Settled
    BY <2>0, <2>3, <2>4 DEF AckInv
  <2>6. QED
    BY <2>0, <2>1, <2>2, <2>5 DEF AckInv
<1>8. ASSUME NEW c \in Conns, Close(c) PROVE AckInv'
  BY <1>8 DEF Close, log, agent, AckInv, Settled
<1>9. CASE Restart
  <2>0. /\ step' = [c \in Conns |-> "read"] /\ global_dedup' = <<>> /\ acks' = <<>>
        /\ lost' = lost \cup {Head(batch[c]) : c \in {d \in Conns : step[d] = "write"}}
        /\ UNCHANGED <<seen, stored, unacked>>
    BY <1>9 DEF Restart
  <2>1. Settled \subseteq Settled'
    <3>1. ASSUME NEW c \in Conns, step[c] \in {"write", "emit"} PROVE Head(batch[c]) \in stored \cup lost'
      BY <2>0, <3>1 DEF AckInv
    <3>2. QED
      BY <2>0, <3>1 DEF Settled
  <2>2. Range(global_dedup') = {} /\ Range(acks') = {}
    BY <2>0 DEF Range
  <2>3. QED
    BY <2>0, <2>1, <2>2 DEF AckInv
<1>10. QED
  BY <1>1, <1>2, <1>3, <1>4, <1>5, <1>6, <1>7, <1>8, <1>9 DEF Next, Server

(* What the agent has been told it may forget is in the audit log, or in a *)
(* connection's hands on the way there, or its write was lost (Dedup,      *)
(* Write, SendAck, Restart), whatever the connections, batches and windows.*)
THEOREM AckedIsStored == Spec => []AckedStored
<1>1. AckInv => AckedStored
  BY DEF AckInv, AckedStored, Settled, OnItsWay, Claims
<1>2. QED
  BY <1>1, InitTypes, NextTypes, InitAck, NextAck, PTL DEF Spec

(***************************************************************************)
(* An event is emitted once in a lifetime of the server.                   *)
(***************************************************************************)
(* The events some connection is about to write or to emit.                *)
InHand == {Head(batch[c]) : c \in {d \in Conns : step[d] \in {"write", "emit"}}}

(* What an id in the window stands for, as long as the window is large     *)
(* enough to forget nothing.                                               *)
OnceInv ==
  /\ \A i, j \in 1 .. Len(global_dedup) : i # j => global_dedup[i] # global_dedup[j]
  /\ InHand \subseteq Range(global_dedup)
  /\ \A c, d \in Conns :
       /\ step[c] \in {"write", "emit"} /\ step[d] \in {"write", "emit"}
       /\ Head(batch[c]) = Head(batch[d])
       => c = d
  /\ \A e \in Events :
       \/ emitted[e] <= restarts
       \/ emitted[e] <= restarts + 1 /\ e \in Range(global_dedup) \ InHand
  /\ \A e \in Events : emitted[e] > 0 => e \in stored

(* A list of different events, one of them left out, is shorter than the   *)
(* list of all.                                                            *)
LEMMA RoomLeft ==
  ASSUME NEW w \in Seq(Events), NEW e \in Events, e \notin Range(w),
         \A i, j \in 1 .. Len(w) : i # j => w[i] # w[j]
  PROVE  Len(w) < MaxEvents
<1> DEFINE S == Events \ {e}
           D == 1 .. Len(w)
<1>1. Len(w) \in Nat /\ MaxEvents \in Nat /\ MaxEvents >= 1
  <2>1. MaxEvents \in Nat
    BY IngestAssumption
  <2>2. e \in 1 .. MaxEvents
    BY DEF Events
  <2>3. Len(w) \in Nat
    OBVIOUS
  <2>4. QED
    BY <2>1, <2>2, <2>3
<1>2. /\ IsFiniteSet(Events) /\ Cardinality(Events) = MaxEvents
      /\ IsFiniteSet(D) /\ Cardinality(D) = Len(w)
  <2>1. \A n \in Nat : IsFiniteSet(1 .. n) /\ Cardinality(1 .. n) = n
    BY FS_Interval
  <2>2. QED
    BY <1>1, <2>1 DEF Events
<1>3. IsFiniteSet(S) /\ Cardinality(S) = MaxEvents - 1
  BY <1>2, FS_RemoveElement
<1>4. w \in Injection(D, S)
  <2>1. w \in [D -> Events]
    <3> HIDE DEF Events
    <3>1. QED
      OBVIOUS
  <2>2. \A i \in D : w[i] \in Range(w)
    BY <2>1 DEF Range
  <2>3. w \in [D -> S]
    BY <2>1, <2>2
  <2>4. QED
    BY <2>3 DEF Injection, IsInjective
<1> HIDE DEF S, D
<1>5. Cardinality(D) <= Cardinality(S)
  BY <1>2, <1>3, <1>4, FS_Injection
<1>6. QED
  BY <1>1, <1>2, <1>3, <1>5

LEMMA InitOnce == Init => OnceInv
<1> SUFFICES ASSUME Init PROVE OnceInv
  OBVIOUS
<1>1. Len(<<>>) = 0
  OBVIOUS
<1>2. InHand = {}
  BY DEF Init, InHand
<1>3. QED
  BY <1>1, <1>2 DEF Init, OnceInv

(* A step that claims nothing, emits nothing and leaves the window alone.  *)
LEMMA OnceKept ==
  ASSUME OnceInv, stored \subseteq stored',
         UNCHANGED <<global_dedup, emitted, restarts>>,
         NEW c \in Conns,
         \A d \in Conns : d # c => batch'[d] = batch[d] /\ step'[d] = step[d],
         \/ step'[c] \in {"read", "dedup"}
         \/ step[c] \in {"write", "emit"} /\ batch'[c] = batch[c]
  PROVE  OnceInv'
<1>1. InHand' \subseteq InHand
  <2> SUFFICES ASSUME NEW d \in Conns, step'[d] \in {"write", "emit"}
               PROVE  Head(batch'[d]) \in InHand
    BY DEF InHand
  <2>1. QED
    BY DEF InHand
<1>2. \A d \in Conns : step'[d] \in {"write", "emit"} =>
        step[d] \in {"write", "emit"} /\ batch'[d] = batch[d]
  OBVIOUS
<1>3. QED
  BY <1>1, <1>2 DEF OnceInv

LEMMA NextOnce ==
  ASSUME MaxEvents <= GlobalCapacity, TypeInv, AckInv, OnceInv, [Next]_vars
  PROVE  OnceInv'
<1>0. TypeOK
  BY DEF TypeInv
<1>1. CASE AgentConnects \/ AgentSends \/ AgentTakesAck \/ AgentLeaves \/ UNCHANGED vars
  <2>1. UNCHANGED <<step, batch, global_dedup, stored, emitted, restarts>>
    BY <1>1 DEF AgentConnects, AgentSends, AgentTakesAck, AgentLeaves, vars, conn, log, bounds
  <2>2. InHand' = InHand
    BY <2>1 DEF InHand
  <2>3. QED
    BY <2>1, <2>2 DEF OnceInv
<1>2. ASSUME NEW c \in Conns, ReadBatch(c) \/ SendAck(c) \/ Close(c) PROVE OnceInv'
  <2>1. /\ UNCHANGED <<global_dedup, stored, emitted, restarts>> /\ step[c] \in {"read", "dedup"}
        /\ \E v \in {"read", "dedup"} : step' = [step EXCEPT ![c] = v]
        /\ \E v : batch' = [batch EXCEPT ![c] = v]
    <3>1. batch = [batch EXCEPT ![c] = batch[c]] /\ step = [step EXCEPT ![c] = step[c]]
      BY <1>0 DEF TypeOK
    <3>2. CASE ReadBatch(c)
      BY <3>2 DEF ReadBatch, log, bounds
    <3>3. CASE SendAck(c)
      BY <3>1, <3>3 DEF SendAck, log, bounds
    <3>4. CASE Close(c)
      BY <3>1, <3>4 DEF Close, log, bounds
    <3>5. QED
      BY <1>2, <3>2, <3>3, <3>4
  <2>2. step'[c] \in {"read", "dedup"} /\ \A d \in Conns : d # c => batch'[d] = batch[d] /\ step'[d] = step[d]
    BY <1>0, <2>1 DEF TypeOK
  <2>3. QED
    BY <2>1, <2>2, OnceKept
<1>3. ASSUME NEW c \in Conns, Dedup(c) PROVE OnceInv'
  <2> DEFINE h == Head(batch[c])
  <2>0. step[c] = "dedup" /\ batch[c] # <<>> /\ UNCHANGED <<stored, emitted, restarts>>
    BY <1>3 DEF Dedup, log, bounds
  <2>1. h \in Events
    BY <1>0, <2>0, TailRange DEF TypeOK
  <2>2. CASE h \in Range(seen[c]) \/ h \in Range(global_dedup)
    <3>1. NextEvent(c) /\ UNCHANGED global_dedup
      BY <1>3, <2>2 DEF Dedup
    <3>2. step'[c] = "dedup" /\ \A d \in Conns : d # c => batch'[d] = batch[d] /\ step'[d] = step[d]
      BY <1>0, <3>1 DEF TypeOK, NextEvent
    <3>3. QED
      BY <2>0, <3>1, <3>2, OnceKept
  <2>3. CASE h \notin Range(seen[c]) /\ h \notin Range(global_dedup)
    <3>1. /\ global_dedup' = Inserted(global_dedup, h, GlobalCapacity)
          /\ NextEvent(c) \/ (step' = [step EXCEPT ![c] = "write"] /\ UNCHANGED batch)
      BY <1>3, <2>3 DEF Dedup
    <3>2. Len(global_dedup) < GlobalCapacity
      <4>1. Len(global_dedup) < MaxEvents
        BY <1>0, <2>1, <2>3, RoomLeft DEF TypeOK, OnceInv
      <4>2. MaxEvents \in Nat /\ GlobalCapacity \in Nat /\ Len(global_dedup) \in Nat
        BY <1>0, IngestAssumption DEF TypeOK
      <4>3. QED
        BY <4>1, <4>2
    <3>3. global_dedup' = Append(global_dedup, h)
      <4>1. GlobalCapacity \in Nat /\ Len(global_dedup) \in Nat
        BY <1>0, IngestAssumption DEF TypeOK
      <4>2. QED
        BY <3>1, <3>2, <4>1 DEF Inserted
    <3>4. /\ Range(global_dedup') = Range(global_dedup) \cup {h}
          /\ Len(global_dedup') = Len(global_dedup) + 1
      <4>1. global_dedup \in Seq(Events)
        BY <1>0 DEF TypeOK
      <4> HIDE DEF h, Events
      <4>2. QED
        BY <2>1, <3>3, <4>1, AppendRange
    <3>5. \A i, j \in 1 .. Len(global_dedup') : i # j => global_dedup'[i] # global_dedup'[j]
      <4>1. global_dedup \in Seq(Events)
        BY <1>0 DEF TypeOK
      <4> HIDE DEF h, Events
      <4>2. \A i \in 1 .. Len(global_dedup) : global_dedup'[i] = global_dedup[i] /\ global_dedup[i] \in Range(global_dedup)
        BY <2>1, <3>3, <4>1 DEF Range
      <4>3. global_dedup'[Len(global_dedup) + 1] = h
        BY <2>1, <3>3, <4>1
      <4>4. \A i \in 1 .. Len(global_dedup') : i \in 1 .. Len(global_dedup) \/ i = Len(global_dedup) + 1
        BY <3>4, <4>1
      <4>5. QED
        BY <2>3, <4>2, <4>3, <4>4 DEF OnceInv
    <3>6. /\ \A d \in Conns : d # c => batch'[d] = batch[d] /\ step'[d] = step[d]
          /\ step'[c] = "dedup" \/ (step'[c] = "write" /\ batch'[c] = batch[c])
      BY <1>0, <3>1 DEF TypeOK, NextEvent
    <3>7. InHand' \subseteq InHand \cup {h}
      <4> SUFFICES ASSUME NEW d \in Conns, step'[d] \in {"write", "emit"}
                   PROVE  Head(batch'[d]) \in InHand \cup {h}
        BY DEF InHand
      <4>1. CASE d = c
        BY <3>6, <4>1
      <4>2. CASE d # c
        BY <3>6, <4>2 DEF InHand
      <4>3. QED
        BY <4>1, <4>2
    <3>8. h \notin InHand
      BY <2>3 DEF OnceInv
    <3>9. \A d, f \in Conns :
            /\ step'[d] \in {"write", "emit"} /\ step'[f] \in {"write", "emit"}
            /\ Head(batch'[d]) = Head(batch'[f])
            => d = f
      <4>1. \A d \in Conns : d # c /\ step'[d] \in {"write", "emit"} => Head(batch'[d]) \in InHand
        BY <3>6 DEF InHand
      <4>2. step'[c] \in {"write", "emit"} => Head(batch'[c]) = h
        BY <3>6
      <4> HIDE DEF h
      <4>3. QED
        BY <3>6, <3>8, <4>1, <4>2 DEF OnceInv
    <3>10. \A e \in Events :
             \/ emitted'[e] <= restarts'
             \/ emitted'[e] <= restarts' + 1 /\ e \in Range(global_dedup') \ InHand'
      <4> SUFFICES ASSUME NEW e \in Events, ~(emitted[e] <= restarts)
                   PROVE  emitted[e] <= restarts + 1 /\ e \in Range(global_dedup') \ InHand'
        BY <2>0
      <4>1. emitted[e] <= restarts + 1 /\ e \in Range(global_dedup) \ InHand
        BY DEF OnceInv
      <4> HIDE DEF h
      <4>2. QED
        BY <2>3, <3>4, <3>7, <4>1
    <3> HIDE DEF h
    <3>11. QED
      BY <2>0, <3>4, <3>5, <3>7, <3>9, <3>10 DEF OnceInv
  <2>4. QED
    BY <2>2, <2>3
<1>4. ASSUME NEW c \in Conns, Write(c) PROVE OnceInv'
  <2>1. /\ UNCHANGED <<global_dedup, emitted, restarts>> /\ step[c] = "write" /\ stored \subseteq stored'
        /\ NextEvent(c) \/ (step' = [step EXCEPT ![c] = "emit"] /\ UNCHANGED batch)
    BY <1>4 DEF Write
  <2>2. /\ \A d \in Conns : d # c => batch'[d] = batch[d] /\ step'[d] = step[d]
        /\ step'[c] = "dedup" \/ (step'[c] = "emit" /\ batch'[c] = batch[c])
    BY <1>0, <2>1 DEF TypeOK, NextEvent
  <2>3. QED
    BY <2>1, <2>2, OnceKept
<1>5. ASSUME NEW c \in Conns, EmitToBus(c) PROVE OnceInv'
  <2> DEFINE h == Head(batch[c])
  <2>1. /\ UNCHANGED <<global_dedup, stored, restarts>> /\ step[c] = "emit" /\ NextEvent(c)
        /\ emitted' = [emitted EXCEPT ![h] = emitted[h] + 1]
    BY <1>5 DEF EmitToBus, bounds
  <2>2. step'[c] = "dedup" /\ \A d \in Conns : d # c => batch'[d] = batch[d] /\ step'[d] = step[d]
    BY <1>0, <2>1 DEF TypeOK, NextEvent
  <2>3. h \in InHand /\ h \in Range(global_dedup) /\ h \in stored
    BY <2>1 DEF InHand, OnceInv, AckInv
  <2>4. InHand' \subseteq InHand \ {h}
    <3> SUFFICES ASSUME NEW d \in Conns, step'[d] \in {"write", "emit"}
                 PROVE  Head(batch'[d]) \in InHand \ {h}
      BY DEF InHand
    <3>1. d # c
      BY <2>2
    <3>2. step[d] \in {"write", "emit"} /\ batch'[d] = batch[d]
      BY <2>2, <3>1
    <3>3. Head(batch[d]) \in InHand
      BY <3>2 DEF InHand
    <3>4. Head(batch[d]) # h
      BY <2>1, <3>1, <3>2 DEF OnceInv
    <3>5. QED
      BY <3>2, <3>3, <3>4
  <2>5. emitted[h] <= restarts
    BY <1>0, <2>3 DEF TypeOK, OnceInv
  <2>6. /\ h \in Events /\ emitted'[h] = emitted[h] + 1 /\ emitted[h] \in Nat /\ restarts \in Nat
        /\ \A e \in Events : e # h => emitted'[e] = emitted[e]
    BY <1>0, <2>1, <2>3 DEF TypeOK
  <2> HIDE DEF h
  <2>7. \A e \in Events :
          \/ emitted'[e] <= restarts'
          \/ emitted'[e] <= restarts' + 1 /\ e \in Range(global_dedup') \ InHand'
    <3>1. emitted'[h] <= restarts' + 1 /\ h \in Range(global_dedup') \ InHand'
      BY <2>1, <2>3, <2>4, <2>5, <2>6
    <3>2. \A e \in Events : e # h =>
            \/ emitted'[e] <= restarts'
            \/ emitted'[e] <= restarts' + 1 /\ e \in Range(global_dedup') \ InHand'
      BY <2>1, <2>4, <2>6 DEF OnceInv
    <3>3. QED
      BY <3>1, <3>2
  <2>8. \A e \in Events : emitted'[e] > 0 => e \in stored'
    BY <2>1, <2>3, <2>6 DEF OnceInv
  <2>9. \A d, f \in Conns :
          /\ step'[d] \in {"write", "emit"} /\ step'[f] \in {"write", "emit"}
          /\ Head(batch'[d]) = Head(batch'[f])
          => d = f
    BY <2>2 DEF OnceInv
  <2>10. QED
    BY <2>1, <2>4, <2>7, <2>8, <2>9 DEF OnceInv
<1>6. CASE Restart
  <2>1. /\ step' = [c \in Conns |-> "read"] /\ global_dedup' = <<>> /\ restarts' = restarts + 1
        /\ UNCHANGED <<stored, emitted>>
    BY <1>6 DEF Restart
  <2>2. InHand' = {} /\ Len(<<>>) = 0
    BY <2>1 DEF InHand
  <2>3. \A e \in Events : emitted[e] <= restarts + 1
    BY <1>0 DEF OnceInv, TypeOK
  <2>4. QED
    BY <2>1, <2>2, <2>3 DEF OnceInv
<1>7. QED
  BY <1>1, <1>2, <1>3, <1>4, <1>5, <1>6 DEF Next, Server

(* As long as the window has room for every id, an event is emitted at     *)
(* most once in a lifetime of the server, after it was stored, and no two  *)
(* connections ever hold it at once (Dedup, Write, EmitToBus, Restart).    *)
THEOREM EmittedOncePerLife ==
  ASSUME MaxEvents <= GlobalCapacity
  PROVE  Spec => []EmittedOnce
<1>1. TypeInv /\ OnceInv => EmittedOnce
  <2> SUFFICES ASSUME TypeInv, OnceInv PROVE EmittedOnce
    OBVIOUS
  <2>1. \A e \in Events : emitted[e] \in Nat /\ restarts \in Nat
    BY DEF TypeInv, TypeOK
  <2>2. \A e \in Events : emitted[e] <= 1 + restarts
    BY <2>1 DEF OnceInv
  <2>3. QED
    BY <2>2 DEF OnceInv, EmittedOnce, Claims
<1>2. QED
  BY <1>1, InitTypes, NextTypes, InitAck, NextAck, InitOnce, NextOnce, PTL DEF Spec
=============================================================================

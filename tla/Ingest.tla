------------------------------- MODULE Ingest -------------------------------
(***************************************************************************)
(* The server's ingest path, crates/aegis-server/src/ingest.rs: one task   *)
(* per connection reads event batches, drops the events it has seen,       *)
(* writes the others to the audit log, puts them on the bus and answers    *)
(* with a BatchAck.  Tasks of several connections run at once, and share   *)
(* the de-dup window of accept_loop.                                       *)
(*                                                                         *)
(* The peer is one agent, as its forwarder behaves: it sends the oldest    *)
(* events it still holds, forgets them when the BatchAck arrives, and      *)
(* sends them again after a reconnect, or at once when max_in_flight lets  *)
(* it.  What an abandoned connection had delivered to the server's socket  *)
(* is still read there.                                                    *)
(***************************************************************************)
EXTENDS Naturals, Sequences, FiniteSets, SequencesExt

CONSTANTS
  Conns,           (* connections that get past the handshake              *)
  Derived,         (* events whose kind is_ingestible refuses              *)
  SessionCapacity, (* DEDUP_CAPACITY                                       *)
  GlobalCapacity,  (* GLOBAL_DEDUP_CAPACITY                                *)
  BatchMaxEvents,  (* of the agent, and                                    *)
  MaxInFlight,     (* its batches sent and not acknowledged                *)
  \* bounds of the model
  MaxEvents, MaxRestarts, MaxWriteErrors

Events == 1 .. MaxEvents

ASSUME IngestAssumption ==
  /\ "none" \notin Conns
  /\ Derived \subseteq Events
  /\ {SessionCapacity, GlobalCapacity, BatchMaxEvents, MaxInFlight} \subseteq Nat \ {0}
  /\ {MaxEvents, MaxRestarts, MaxWriteErrors} \subseteq Nat

VARIABLES
  status,     (* status[c]: "new", "open" (read_loop runs), "closed"       *)
  step,       (* step[c]: "read", or what the batch loop does next         *)
  inbox,      (* inbox[c]: batches the server has not read yet             *)
  batch,      (* batch[c]: what is left of the batch being processed       *)
  answers,    (* answers[c]: the batch BatchAck will answer                *)
  seen,       (* seen[c]: the connection's own DedupWindow, oldest first   *)
  global_dedup,
  stored,     (* ids in the audit log                                      *)
  emitted,    (* emitted[e]: how often e was put on the bus                *)
  lost,       (* history: events whose write failed, or was cut off by a   *)
              (* restart                                                   *)
  current,    (* the agent's connection, or "none"                         *)
  unacked,    (* events the agent still holds                              *)
  awaiting,   (* batches that await their BatchAck                         *)
  acks,       (* BatchAcks in transit, as the batches they answer          *)
  restarts, write_errors

conn   == <<status, step, inbox, batch, answers, seen>>
log    == <<stored, emitted, lost>>
agent  == <<current, unacked, awaiting, acks>>
bounds == <<restarts, write_errors>>
vars   == <<conn, global_dedup, log, agent, bounds>>

Init ==
  /\ status = [c \in Conns |-> "new"] /\ step = [c \in Conns |-> "read"]
  /\ inbox = [c \in Conns |-> <<>>] /\ batch = [c \in Conns |-> <<>>]
  /\ answers = [c \in Conns |-> <<>>] /\ seen = [c \in Conns |-> <<>>]
  /\ global_dedup = <<>>
  /\ stored = {} /\ emitted = [e \in Events |-> 0] /\ lost = {}
  /\ current = "none" /\ unacked = Events /\ awaiting = 0 /\ acks = <<>>
  /\ restarts = 0 /\ write_errors = 0

(* DedupWindow::insert of an id that is not there.                         *)
Inserted(window, id, capacity) ==
  Append(IF Len(window) >= capacity THEN Tail(window) ELSE window, id)

(***************************************************************************)
(* The agent.                                                              *)
(***************************************************************************)
AgentConnects ==
  /\ current = "none"
  /\ \E c \in Conns : /\ status[c] = "new" /\ current' = c
                      /\ status' = [status EXCEPT ![c] = "open"]
  /\ UNCHANGED <<step, inbox, batch, answers, seen, global_dedup, log,
                 unacked, awaiting, acks, bounds>>

(* The oldest events it holds; how many depends on when they were made.    *)
AgentSends ==
  /\ current # "none" /\ awaiting < MaxInFlight /\ awaiting' = awaiting + 1
  /\ \E k \in 1 .. BatchMaxEvents : \E oldest \in [1 .. k -> unacked] :
       /\ \A i, j \in 1 .. k : i < j => oldest[i] < oldest[j]
       /\ \A e \in unacked : e <= oldest[k] => e \in Range(oldest)
       /\ inbox' = [inbox EXCEPT ![current] = Append(@, oldest)]
  /\ UNCHANGED <<status, step, batch, answers, seen, global_dedup, log,
                 current, unacked, acks, bounds>>

AgentTakesAck ==
  /\ acks # <<>> /\ acks' = Tail(acks)
  /\ unacked' = unacked \ Range(Head(acks)) /\ awaiting' = awaiting - 1
  /\ UNCHANGED <<conn, global_dedup, log, current, bounds>>

(* The agent gives a connection up: read error, silence, ack timeout.      *)
AgentLeaves ==
  /\ current # "none" /\ current' = "none" /\ awaiting' = 0 /\ acks' = <<>>
  /\ UNCHANGED <<conn, global_dedup, log, unacked, bounds>>

(***************************************************************************)
(* read_loop.                                                              *)
(***************************************************************************)
ReadBatch(c) ==
  /\ status[c] = "open" /\ step[c] = "read" /\ inbox[c] # <<>>
  /\ inbox' = [inbox EXCEPT ![c] = Tail(@)]
  /\ batch' = [batch EXCEPT ![c] = Head(inbox[c])]
  /\ answers' = [answers EXCEPT ![c] = Head(inbox[c])]
  /\ step' = [step EXCEPT ![c] = "dedup"]
  /\ UNCHANGED <<status, seen, global_dedup, log, agent, bounds>>

NextEvent(c) == batch' = [batch EXCEPT ![c] = Tail(@)] /\ step' = [step EXCEPT ![c] = "dedup"]

(* Mutated form: only the connection's own window is consulted.            *)
Dedup_SessionOnly(c) ==
  /\ step[c] = "dedup" /\ batch[c] # <<>>
  /\ LET e == Head(batch[c])
     IN IF e \in Range(seen[c])
          THEN NextEvent(c) /\ UNCHANGED seen
          ELSE /\ seen' = [seen EXCEPT ![c] = Inserted(@, e, SessionCapacity)]
               /\ IF e \in Derived THEN NextEvent(c)
                  ELSE step' = [step EXCEPT ![c] = "write"] /\ UNCHANGED batch
  /\ UNCHANGED <<status, inbox, answers, global_dedup, log, agent, bounds>>

(* Both windows, then the kind allowlist: an id is recorded as seen before *)
(* anything is done with the event.                                        *)
Dedup(c) ==
  /\ step[c] = "dedup" /\ batch[c] # <<>>
  /\ LET e == Head(batch[c])
     IN IF e \in Range(seen[c])
          THEN NextEvent(c) /\ UNCHANGED <<seen, global_dedup>>
          ELSE /\ seen' = [seen EXCEPT ![c] = Inserted(@, e, SessionCapacity)]
               /\ IF e \in Range(global_dedup)
                    THEN NextEvent(c) /\ UNCHANGED global_dedup
                    ELSE /\ global_dedup' = Inserted(global_dedup, e, GlobalCapacity)
                         /\ IF e \in Derived THEN NextEvent(c)
                            ELSE step' = [step EXCEPT ![c] = "write"] /\ UNCHANGED batch
  /\ UNCHANGED <<status, inbox, answers, log, agent, bounds>>

(* store.write_event.  An error skips the event.                           *)
Write(c) ==
  /\ step[c] = "write"
  /\ \/ /\ stored' = stored \cup {Head(batch[c])}
        /\ step' = [step EXCEPT ![c] = "emit"] /\ UNCHANGED <<batch, lost, write_errors>>
     \/ /\ write_errors < MaxWriteErrors /\ write_errors' = write_errors + 1
        /\ NextEvent(c) /\ lost' = lost \cup {Head(batch[c])} /\ UNCHANGED stored
  /\ UNCHANGED <<status, inbox, answers, seen, global_dedup, emitted, agent, restarts>>

EmitToBus(c) ==
  /\ step[c] = "emit"
  /\ emitted' = [emitted EXCEPT ![Head(batch[c])] = @ + 1]
  /\ NextEvent(c)
  /\ UNCHANGED <<status, inbox, answers, seen, global_dedup, stored, lost, agent, bounds>>

(* Mutated forms: the ack goes out before the batch is processed; a batch  *)
(* of nothing but duplicates is not acknowledged.                          *)
SendAck_Early(c) ==
  /\ step[c] = "dedup" /\ answers[c] # <<>> /\ c = current
  /\ acks' = Append(acks, answers[c]) /\ answers' = [answers EXCEPT ![c] = <<>>]
  /\ step' = IF batch[c] = <<>> THEN [step EXCEPT ![c] = "read"] ELSE step
  /\ UNCHANGED <<status, inbox, batch, seen, global_dedup, log, current, unacked,
                 awaiting, bounds>>
SendAck_OnlyNew(c) ==
  /\ step[c] = "dedup" /\ batch[c] = <<>>
  /\ step' = [step EXCEPT ![c] = "read"]
  /\ acks' = IF c = current /\ Range(answers[c]) \cap Range(global_dedup) = {}
               THEN Append(acks, answers[c]) ELSE acks
  /\ UNCHANGED <<status, inbox, batch, answers, seen, global_dedup, log, current, unacked,
                 awaiting, bounds>>

(* The whole batch is acknowledged, whatever became of its events.  On a   *)
(* connection the agent has left the write goes nowhere, or fails and ends *)
(* the loop.                                                               *)
SendAck(c) ==
  /\ step[c] = "dedup" /\ batch[c] = <<>>
  /\ step' = [step EXCEPT ![c] = "read"]
  /\ \/ c = current /\ acks' = Append(acks, answers[c]) /\ UNCHANGED status
     \/ c # current /\ UNCHANGED acks
        /\ status' \in {status, [status EXCEPT ![c] = "closed"]}
  /\ UNCHANGED <<inbox, batch, answers, seen, global_dedup, log, current, unacked,
                 awaiting, bounds>>

(* EOF or a read error: the agent has left; what was still buffered may be *)
(* lost with the connection.                                               *)
Close(c) ==
  /\ status[c] = "open" /\ step[c] = "read" /\ c # current
  /\ status' = [status EXCEPT ![c] = "closed"] /\ inbox' = [inbox EXCEPT ![c] = <<>>]
  /\ UNCHANGED <<step, batch, answers, seen, global_dedup, log, agent, bounds>>

(* The server process ends and starts again: the audit log is on disk, the *)
(* window and the connections are not.                                     *)
Restart ==
  /\ restarts < MaxRestarts /\ restarts' = restarts + 1
  /\ status' = [c \in Conns |-> IF status[c] = "open" THEN "closed" ELSE status[c]]
  /\ step' = [c \in Conns |-> "read"] /\ batch' = [c \in Conns |-> <<>>]
  /\ inbox' = [c \in Conns |-> <<>>] /\ global_dedup' = <<>>
  /\ lost' = lost \cup {Head(batch[c]) : c \in {d \in Conns : step[d] = "write"}}
  /\ current' = "none" /\ awaiting' = 0 /\ acks' = <<>>
  /\ UNCHANGED <<answers, seen, stored, emitted, unacked, write_errors>>

Server(c) == ReadBatch(c) \/ Dedup(c) \/ Write(c) \/ EmitToBus(c) \/ SendAck(c)
Next ==
  \/ AgentConnects \/ AgentSends \/ AgentTakesAck \/ AgentLeaves
  \/ \E c \in Conns : Server(c) \/ Close(c)
  \/ Restart

Spec == Init /\ [][Next]_vars

(* Connection tasks are polled, and an agent with events to send connects, *)
(* sends and reads its answers.                                            *)
FairSpec ==
  /\ Spec /\ WF_vars(AgentConnects) /\ WF_vars(AgentSends) /\ WF_vars(AgentTakesAck)
  /\ \A c \in Conns : WF_vars(Server(c))

-----------------------------------------------------------------------------
TypeOK ==
  /\ status \in [Conns -> {"new", "open", "closed"}]
  /\ step \in [Conns -> {"read", "dedup", "write", "emit"}]
  /\ inbox \in [Conns -> Seq(Seq(Events))]
  /\ batch \in [Conns -> Seq(Events)] /\ answers \in [Conns -> Seq(Events)]
  /\ \A c \in Conns : step[c] \in {"write", "emit"} => batch[c] # <<>>
  /\ seen \in [Conns -> Seq(Events)] /\ \A c \in Conns : Len(seen[c]) <= SessionCapacity
  /\ global_dedup \in Seq(Events) /\ Len(global_dedup) <= GlobalCapacity
  /\ stored \subseteq Events /\ lost \subseteq Events /\ emitted \in [Events -> Nat]
  /\ current \in Conns \cup {"none"} /\ unacked \subseteq Events
  /\ awaiting \in 0 .. MaxInFlight /\ acks \in Seq(Seq(Events))
  /\ restarts \in Nat /\ write_errors \in Nat

(* The event a connection has claimed and not finished with.               *)
Claims(c, e) == step[c] \in {"write", "emit"} /\ Head(batch[c]) = e

OnItsWay(e) == \E c \in Conns : Claims(c, e)

(* What the agent may forget is in the audit log, or on its way there in   *)
(* some connection's hands (which need not be the one that acknowledged    *)
(* it), or its write was lost: an ack never covers an event that was       *)
(* merely skipped.                                                         *)
AckedStored ==
  \A e \in Events \ Derived : e \notin unacked => e \in stored \cup lost \/ OnItsWay(e)

(* Exactly once at the bus: however many connections carry an event, it is *)
(* emitted once in a lifetime of the server, and it is in the log first.   *)
EmittedOnce ==
  \A e \in Events :
    /\ emitted[e] <= 1 + restarts
    /\ emitted[e] > 0 => e \in stored
    /\ \A c, d \in Conns : Claims(c, e) /\ Claims(d, e) => c = d

(* An agent that stays connected gets everything acknowledged.             *)
AgentDrains == \A c \in Conns : current = c ~> (unacked = {} \/ current # c)
=============================================================================

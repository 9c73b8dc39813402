----------------------------- MODULE Forwarder -----------------------------
(***************************************************************************)
(* plugin-transport: the agent's forwarder.  The bus offers events to an   *)
(* in-memory ring; one connection actor moves them to the disk spill and   *)
(* over a session to the server, and deletes spill rows when the server    *)
(* acknowledges a batch.  The module models the plugin (lib.rs), the ring, *)
(* the spill and the actor (actor.rs) with process crashes, host shutdown, *)
(* reconnects and disk errors.  The server is the external peer: it reads  *)
(* the batches of a connection in order, keeps the events it had not seen  *)
(* and answers each batch with a BatchAck.                                 *)
(***************************************************************************)
EXTENDS Spill

CONSTANTS
  RingCapacity,   (* ring_capacity                                         *)
  MaxInFlight,    (* max_in_flight                                         *)
  MaxFrameBytes,  (* aegis_proto::MAX_FRAME_BYTES                          *)
  \* bounds of the model, not of the code
  MaxEvents,      (* events the bus offers                                 *)
  MaxSessions,    (* sessions that get past the handshake                  *)
  MaxStarts,      (* times the agent process starts                        *)
  MaxFaults,      (* disk operations that fail                             *)
  Faulty          (* which of them may: "open", "drain", "push", "ack"     *)

ASSUME ForwarderAssumption ==
  /\ RingCapacity \in Nat \ {0}
  /\ {BatchMaxEvents, BatchMaxBytes, SpillMaxBytes, MaxFrameBytes} \subseteq Nat \ {0}
  /\ {MaxInFlight, MaxEvents, MaxSessions, MaxStarts, MaxFaults} \subseteq Nat
  /\ Faulty \subseteq {"open", "drain", "push", "ack"}
  /\ Size \in [1 .. MaxEvents -> Nat \ {0}]

VARIABLES
  phase,        (* what the process and its actor are doing                *)
  shutdown,     (* the Shutdown flag                                       *)
  ring,         (* Ring::inner                                             *)
  rows,         (* the spill table: key -> event                           *)
  write_cursor, (* Spill::write_cursor                                     *)
  batch,        (* try_flush's events, as the rows they cover              *)
  overflow,     (* try_flush's events that did not fit, not yet spilled    *)
  pending,      (* batches awaiting BatchAck, in the order they were sent  *)
  sess,         (* number of the current or last session                   *)
  conns,        (* batches in transit to the server, by session            *)
  acks,         (* ids of the BatchAcks in transit on the current session  *)
  sent,         (* batches sent so far: the next batch id                  *)
  delivered,    (* events the server has taken                             *)
  offered,      (* events offered so far                                   *)
  fate,         (* how an event left the forwarder's buffers unsent        *)
  starts, faults

buffers == <<ring, rows, write_cursor, batch, overflow>>
session == <<pending, sess, conns, acks, sent>>
bounds  == <<starts, faults>>
vars == <<phase, shutdown, buffers, session, delivered, offered, fate, bounds>>

Events   == 1 .. MaxEvents
Sessions == 1 .. MaxSessions

(* "off": no process; "buffering": not enrolled (spawn_buffer_only);       *)
(* "backoff": between connections; "connecting": TCP, TLS, handshake;      *)
(* "online" and the steps of try_flush "topup", "spilling", "sending";     *)
(* "exiting": run() left its loop; "stopped": no task serves the ring.     *)
Phases == {"off", "buffering", "backoff", "connecting", "online", "topup",
           "spilling", "sending", "exiting", "stopped"}
InSession == {"online", "topup", "spilling", "sending"}
Fates     == {"none", "ring_full", "spill_cap", "oversize", "disk_error", "process_exit"}

Elems(f) == {f[i] : i \in DOMAIN f}
Lost(es, why) == [e \in DOMAIN fate |-> IF e \in es /\ fate[e] = "none" THEN why ELSE fate[e]]

Init ==
  /\ phase = "off" /\ shutdown = FALSE
  /\ ring = <<>> /\ rows = NoRows /\ write_cursor = 0
  /\ batch = NoRows /\ overflow = <<>>
  /\ pending = <<>> /\ sess = 0 /\ conns = [s \in Sessions |-> <<>>] /\ acks = <<>> /\ sent = 0
  /\ delivered = {} /\ offered = 0 /\ fate = [e \in Events |-> "none"]
  /\ starts = 0 /\ faults = 0

(***************************************************************************)
(* Disk access.  A failing push may leave the cursor advanced over rows    *)
(* its aborted transaction never wrote, or fail after the commit, while    *)
(* enforcing the cap.                                                      *)
(***************************************************************************)
Fault(op) == op \in Faulty /\ faults < MaxFaults /\ faults' = faults + 1

PushTo(evs) ==
  /\ rows' = Pushed(rows, write_cursor, evs)
  /\ write_cursor' = write_cursor + Len(evs)
  /\ UNCHANGED faults

PushFails(evs) ==
  /\ Fault("push") /\ evs # <<>>
  /\ \/ rows' = rows /\ write_cursor' \in write_cursor .. (write_cursor + Len(evs))
     \/ rows' = Appended(rows, write_cursor, evs) /\ write_cursor' = write_cursor + Len(evs)

(* What a push loses: rows the cap evicted, and events it did not write.   *)
PushLoss(evs) ==
  LET gone == (Elems(rows) \cup Elems(evs)) \ Elems(rows')
  IN fate' = [e \in DOMAIN fate |->
                IF fate[e] # "none" \/ e \notin gone THEN fate[e]
                ELSE IF e \in Elems(evs) /\ faults' > faults THEN "disk_error"
                ELSE "spill_cap"]

PushOrFail(evs) == (PushTo(evs) \/ PushFails(evs)) /\ PushLoss(evs)

(***************************************************************************)
(* The plugin and the process.                                             *)
(***************************************************************************)

(* TransportPlugin::handle -> Ring::offer.  The host has stopped calling   *)
(* handle by the time it calls shutdown.                                   *)
Offer ==
  /\ phase # "off" /\ ~shutdown /\ offered < MaxEvents
  /\ offered' = offered + 1
  /\ IF Len(ring) >= RingCapacity
       THEN /\ ring' = Append(Tail(ring), offered + 1)
            /\ fate' = Lost({Head(ring)}, "ring_full")
       ELSE /\ ring' = Append(ring, offered + 1)
            /\ UNCHANGED fate
  /\ UNCHANGED <<phase, shutdown, rows, write_cursor, batch, overflow, session, delivered, bounds>>

(* init: the process starts, opens the spill (an open that fails ends the  *)
(* task) and spawns the actor, or the buffering task when not enrolled.    *)
Start ==
  /\ phase = "off" /\ starts < MaxStarts /\ starts' = starts + 1
  /\ shutdown' = FALSE
  /\ \/ phase' \in {"backoff", "buffering"} /\ write_cursor' = NextKey(rows) /\ UNCHANGED faults
     \/ phase' = "stopped" /\ Fault("open") /\ UNCHANGED write_cursor
  /\ UNCHANGED <<ring, rows, batch, overflow, session, delivered, offered, fate>>

(* TransportPlugin::shutdown only fires the signal.                        *)
TriggerShutdown ==
  /\ phase # "off" /\ ~shutdown /\ shutdown' = TRUE
  /\ UNCHANGED <<phase, buffers, session, delivered, offered, fate, bounds>>

(* The end of the process takes every task with it, wherever it is: what   *)
(* was only in memory is gone.                                             *)
ProcessGone ==
  /\ phase # "off" /\ phase' = "off"
  /\ ring' = <<>> /\ overflow' = <<>> /\ batch' = NoRows
  /\ pending' = <<>> /\ acks' = <<>>
  /\ fate' = Lost((Elems(ring) \cup Elems(overflow)) \ Elems(rows), "process_exit")
  /\ UNCHANGED <<shutdown, rows, write_cursor, sess, conns, sent, delivered, offered, bounds>>

(* The host returns after Plugin::shutdown; nobody joins the actor.        *)
ProcessExit == shutdown /\ ProcessGone
Crash       == ~shutdown /\ ProcessGone

(***************************************************************************)
(* spawn_buffer_only: ring to spill until shutdown.                        *)
(***************************************************************************)
BufferRing ==
  /\ phase = "buffering"
  /\ ring # <<>> \/ shutdown
  /\ PushOrFail(ring) /\ ring' = <<>>
  /\ phase' \in {"buffering"} \cup (IF shutdown THEN {"stopped"} ELSE {})
  /\ UNCHANGED <<shutdown, batch, overflow, session, delivered, offered, starts>>

(***************************************************************************)
(* run and connect_and_serve.                                              *)
(***************************************************************************)
LeaveLoop ==
  /\ phase = "backoff" /\ shutdown /\ phase' = "exiting"
  /\ UNCHANGED <<shutdown, buffers, session, delivered, offered, fate, bounds>>

Connect ==
  /\ phase = "backoff" /\ ~shutdown /\ phase' = "connecting"
  /\ UNCHANGED <<shutdown, buffers, session, delivered, offered, fate, bounds>>

(* Nothing in connect_and_serve looks at the shutdown flag before the      *)
(* session is online.  Retry backs off; Fatal leaves the loop.             *)
ConnectFails ==
  /\ phase = "connecting" /\ phase' \in {"backoff", "exiting"}
  /\ UNCHANGED <<shutdown, buffers, session, delivered, offered, fate, bounds>>

HandshakeOk ==
  /\ phase = "connecting" /\ sess < MaxSessions
  /\ phase' = "online" /\ sess' = sess + 1
  /\ UNCHANGED <<shutdown, buffers, pending, conns, acks, sent, delivered, offered, fate, bounds>>

(* serve_online leaves its select loop: pending is dropped, because every  *)
(* batch in it has its rows in the spill.  What was written to the socket  *)
(* may still reach the server.                                             *)
EndSession(next) ==
  /\ phase' = next
  /\ pending' = <<>> /\ acks' = <<>>

(* Read error, keepalive send error, silent server or ack timeout.         *)
Disconnect ==
  /\ phase = "online" /\ EndSession("backoff")
  /\ UNCHANGED <<shutdown, buffers, sess, conns, sent, delivered, offered, fate, bounds>>

StopOnline ==
  /\ phase = "online" /\ shutdown /\ EndSession("exiting")
  /\ UNCHANGED <<shutdown, buffers, sess, conns, sent, delivered, offered, fate, bounds>>

(* After the loop, run persists what is left in the ring.                  *)
PersistLeftover ==
  /\ phase = "exiting" /\ phase' = "stopped"
  /\ PushOrFail(ring) /\ ring' = <<>>
  /\ UNCHANGED <<shutdown, batch, overflow, session, delivered, offered, starts>>

(***************************************************************************)
(* try_flush, one step per lock it takes.                                  *)
(***************************************************************************)
(* Mutated form: the ring goes first.                                      *)
FlushSpill_RingFirst ==
  /\ phase = "online" /\ Len(pending) < MaxInFlight /\ phase' = "topup"
  /\ batch' = IF ring = <<>> THEN Drained(rows) ELSE NoRows
  /\ UNCHANGED <<shutdown, ring, rows, write_cursor, overflow, session,
                 delivered, offered, fate, bounds>>

FlushSpill ==
  /\ phase = "online" /\ Len(pending) < MaxInFlight /\ phase' = "topup"
  /\ \/ batch' = Drained(rows) /\ UNCHANGED faults
     \/ batch' = NoRows /\ Fault("drain")
  /\ UNCHANGED <<shutdown, ring, rows, write_cursor, overflow, session,
                 delivered, offered, fate, starts>>

(* What is pulled from the ring: the part that fits is pushed and joins    *)
(* the batch under its new keys, the rest overflows.                       *)
TopUp ==
  /\ phase = "topup" /\ phase' = "spilling"
  /\ IF ~CanTopUp(batch) \/ ring = <<>>
       THEN UNCHANGED <<ring, rows, write_cursor, batch, overflow, fate, faults>>
       ELSE LET take  == Min({BatchMaxEvents - Cardinality(DOMAIN batch), Len(ring)})
                cands == SubSeq(ring, 1, take)
                keep  == SubSeq(cands, 1, KeepLen(batch, cands))
            IN /\ ring' = SubSeq(ring, take + 1, Len(ring))
               /\ overflow' = SubSeq(cands, Len(keep) + 1, take)
               /\ \/ PushTo(keep) /\ batch' = Appended(batch, write_cursor, keep)
                  \/ PushFails(keep) /\ UNCHANGED batch
               /\ PushLoss(keep)
  /\ UNCHANGED <<shutdown, session, delivered, offered, starts>>

SpillOverflow ==
  /\ phase = "spilling" /\ phase' = "sending"
  /\ PushOrFail(overflow) /\ overflow' = <<>>
  /\ UNCHANGED <<shutdown, ring, batch, session, delivered, offered, starts>>

Message == [id |-> sent, rows |-> batch]

SendBatch ==
  /\ phase = "sending" /\ DOMAIN batch # {} /\ Bytes(batch) <= MaxFrameBytes
  /\ sent' = sent + 1
  /\ conns' = [conns EXCEPT ![sess] = Append(@, Message)]
  /\ batch' = NoRows
  /\ \/ phase' = "online" /\ pending' = Append(pending, Message) /\ UNCHANGED acks
     \/ EndSession("backoff")     \* the write reported an error
  /\ UNCHANGED <<shutdown, ring, rows, write_cursor, overflow, sess,
                 delivered, offered, fate, bounds>>

(* Nothing to send, or a frame that could never be sent: its rows are      *)
(* acknowledged away.                                                      *)
SkipBatch ==
  /\ phase = "sending" /\ phase' = "online" /\ batch' = NoRows
  /\ \/ DOMAIN batch = {} /\ UNCHANGED <<rows, fate>>
        /\ UNCHANGED faults
     \/ /\ DOMAIN batch # {} /\ Bytes(batch) > MaxFrameBytes
        /\ \/ /\ rows' = AckedThrough(rows, batch) /\ UNCHANGED faults
              /\ fate' = Lost(Elems(batch), "oversize")
           \/ Fault("ack") /\ UNCHANGED <<rows, fate>>
  /\ UNCHANGED <<shutdown, ring, write_cursor, overflow, session, delivered, offered, starts>>

(* Mutated form: the acknowledged batch stays in pending.                  *)
Ack_KeepsPending ==
  /\ phase = "online" /\ acks # <<>> /\ acks' = Tail(acks)
  /\ \E i \in DOMAIN pending :
       /\ pending[i].id = Head(acks)
       /\ rows' = AckedThrough(rows, pending[i].rows)
  /\ UNCHANGED <<phase, shutdown, ring, write_cursor, batch, overflow, pending, sess, conns,
                 sent, delivered, offered, fate, bounds>>

(* A BatchAck reaches the serve loop.  An ack_through that fails is only   *)
(* logged; the rows stay.                                                  *)
Ack ==
  /\ phase = "online" /\ acks # <<>> /\ acks' = Tail(acks)
  /\ \E i \in DOMAIN pending :
       /\ pending[i].id = Head(acks)
       /\ pending' = SubSeq(pending, 1, i - 1) \o SubSeq(pending, i + 1, Len(pending))
       /\ \/ rows' = AckedThrough(rows, pending[i].rows) /\ UNCHANGED faults
          \/ rows' = rows /\ Fault("ack")
  /\ UNCHANGED <<phase, shutdown, ring, write_cursor, batch, overflow, sess, conns, sent,
                 delivered, offered, fate, starts>>

(***************************************************************************)
(* The peer.                                                               *)
(***************************************************************************)
ServerTakes(s) ==
  /\ conns[s] # <<>>
  /\ conns' = [conns EXCEPT ![s] = Tail(@)]
  /\ delivered' = delivered \cup Elems(Head(conns[s]).rows)
  /\ acks' = IF s = sess /\ phase \in InSession THEN Append(acks, Head(conns[s]).id) ELSE acks
  /\ UNCHANGED <<phase, shutdown, buffers, pending, sess, sent, offered, fate, bounds>>

(* A connection that ended before the server read all of it.               *)
ConnectionDies(s) ==
  /\ conns[s] # <<>> /\ ~(s = sess /\ phase \in InSession)
  /\ conns' = [conns EXCEPT ![s] = <<>>]
  /\ UNCHANGED <<phase, shutdown, buffers, pending, sess, acks, sent, delivered, offered, fate, bounds>>

Process == Offer \/ Start \/ TriggerShutdown \/ ProcessExit \/ Crash \/ BufferRing
Actor   == LeaveLoop \/ Connect \/ ConnectFails \/ HandshakeOk \/ Disconnect \/ StopOnline
           \/ PersistLeftover \/ FlushSpill \/ TopUp \/ SpillOverflow \/ SendBatch
           \/ SkipBatch \/ Ack
Peer    == \E s \in Sessions : ServerTakes(s) \/ ConnectionDies(s)

Next == Process \/ Actor \/ Peer
Spec == Init /\ [][Next]_vars

(* A session's own steps are scheduled by tokio; select! polls its ready   *)
(* branches in random order, so an ack that keeps arriving between flushes *)
(* is eventually taken.  A live peer reads what it is sent.                *)
SessionFairness ==
  /\ WF_vars(FlushSpill) /\ WF_vars(TopUp) /\ WF_vars(SpillOverflow)
  /\ WF_vars(SendBatch \/ SkipBatch) /\ SF_vars(Ack)
  /\ \A s \in Sessions : WF_vars(ServerTakes(s))
FairSpec == Spec /\ SessionFairness

-----------------------------------------------------------------------------
AllBatches == Elems(pending) \cup UNION {Elems(conns[s]) : s \in Sessions}

(* Types; the keys in use lie below the write cursor while a process runs. *)
TypeOK ==
  /\ phase \in Phases /\ shutdown \in BOOLEAN
  /\ ring \in Seq(Events) /\ Len(ring) <= RingCapacity
  /\ overflow \in Seq(Events)
  /\ write_cursor \in Nat
  /\ DOMAIN rows \subseteq Nat /\ rows \in [DOMAIN rows -> Events]
  /\ DOMAIN batch \subseteq Nat /\ batch \in [DOMAIN batch -> Events]
  /\ phase \notin {"off", "stopped"} => DOMAIN rows \subseteq 0 .. (write_cursor - 1)
  /\ sess \in 0 .. MaxSessions /\ sent \in Nat
  /\ pending \in Seq(AllBatches) /\ conns \in [Sessions -> Seq(AllBatches)]
  /\ \A b \in AllBatches : /\ b.id \in Nat /\ DOMAIN b.rows \subseteq Nat
                           /\ b.rows \in [DOMAIN b.rows -> Events]
  /\ acks \in Seq(Nat)
  /\ delivered \subseteq Events /\ offered \in 0 .. MaxEvents
  /\ fate \in [Events -> Fates]
  /\ starts \in Nat /\ faults \in Nat

Buffered == Elems(ring) \cup Elems(overflow) \cup Elems(rows)

(* An offered event is in a buffer, or with the server, or was discarded   *)
(* for a reason the code logs or counts: an ack never deletes a row whose  *)
(* event the server has not taken (actor.rs:543-546: rows "are never       *)
(* deleted until a matching BatchAck").                                    *)
NoSilentLoss ==
  \A e \in 1 .. offered : e \in Buffered \cup delivered \/ fate[e] # "none"

(* The forwarder implements Delivery.                                      *)
Channel == INSTANCE Delivery WITH
  held      <- {e \in 1 .. offered : e \in Buffered \ delivered /\ fate[e] = "none"},
  delivered <- delivered,
  discarded <- {e \in 1 .. offered : e \notin delivered /\ fate[e] # "none"}
ImplementsDelivery == Channel!Spec

(* The order that is kept: inside a batch the rows are in bus order, and   *)
(* an event arrives after a newer one only if the cap had evicted its row  *)
(* while an earlier connection still carried it.                           *)
FifoUnlessEvicted ==
  [][/\ \A e \in delivered' \ delivered, d \in delivered : d < e \/ fate[e] = "spill_cap"
     /\ \A b \in AllBatches' : \A p, q \in DOMAIN b.rows :
          p < q => b.rows[p] < b.rows[q]]_vars

-----------------------------------------------------------------------------
(* A session that lasts drains the backlog: every row leaves the spill.    *)
SessionDrains ==
  \A e \in Events, s \in Sessions :
     (phase \in InSession /\ sess = s /\ e \in Elems(rows))
        ~> (e \notin Elems(rows) \/ sess # s \/ phase \notin InSession)
=============================================================================

------------------------------- MODULE Store --------------------------------
(***************************************************************************)
(* The server's datastore and who writes it: the tables of store.rs, each  *)
(* method one transaction under the lock; the ingest task (ingest.rs),     *)
(* which logs an agent's event and puts it on the bus; processors, which   *)
(* derive detections, scores and alerts; the store sink (sink.rs), which   *)
(* logs what it takes from the bus, then writes the table of its kind,     *)
(* then publishes it on the live feed; the hourly retention task; and      *)
(* operators who acknowledge alerts (api.rs).                              *)
(*                                                                         *)
(* A transaction is one step and survives; everything else is lost when    *)
(* the process ends, and writes may fail.  Rows are their keys: an event   *)
(* is its timestamp and its id, and what else a row holds follows from the *)
(* id.  An alert row has a fresh id, but comes from one event, which       *)
(* stands for it.  The agents' last_seen_ns is left out.                   *)
(***************************************************************************)
EXTENDS Naturals, Sequences, FiniteSets, SequencesExt

CONSTANTS
  Ids, Agents,
  Kind, AgentOf,   (* Kind[id], AgentOf[id]                                *)
  Stamp,           (* Stamp[id]: the agent's own clock on a raw event      *)
  Limit,           (* AGENT_EVENT_INDEX_LIMIT                              *)
  Retention,       (* RETENTION_NS                                         *)
  Skew,            (* MAX_TS_SKEW_NS                                       *)
  QueueDepth,      (* queue_depth: the sink's queue                        *)
  NoKey,
  \* bounds of the model
  MaxTime, MaxFaults, MaxRestarts

CellKinds    == {"detection", "score"}
DerivedKinds == CellKinds \cup {"alert"}
Raw     == {i \in Ids : Kind[i] \notin DerivedKinds}
Derived == Ids \ Raw

ASSUME StoreAssumption ==
  /\ Kind \in [Ids -> DerivedKinds \cup {"telemetry", "heartbeat"}]
  /\ AgentOf \in [Ids -> Agents] /\ Stamp \in [Raw -> Nat]
  /\ {Limit, QueueDepth} \subseteq Nat \ {0}
  /\ {Retention, Skew, MaxTime, MaxFaults, MaxRestarts} \subseteq Nat
  /\ NoKey \notin [ts : Nat, id : Ids]

VARIABLES
  now,        (* the server's clock                                        *)
  events,     (* EVENTS: a set of keys                                     *)
  index,      (* EVENTS_BY_AGENT: index[a], a sequence of keys             *)
  alerts,     (* ALERTS: alerts[k], whether it is acknowledged             *)
  cell,       (* DETECTIONS and SCORES: cell[<<kind, agent>>], the key of  *)
              (* the event it was set from                                 *)
  seen,       (* the ids ingest has seen since the start; derived ids      *)
  ingest,     (* the event read_loop has in hand                           *)
  emitting,   (* emitting[kind]: a processor's event, not yet on the bus   *)
  queue,      (* the sink's queue                                          *)
  sink,       (* sink.at: "idle", "audited", "stored"; sink.key            *)
  faults, restarts,
  evicted,    (* history: keys evicted from an index                       *)
  pruned,     (* history: the latest cutoff                                *)
  torn,       (* history: audited, but its own table was not written       *)
  confirmed   (* history: alerts whose acknowledgement was answered 200    *)

tables  == <<events, index, alerts, cell>>
tasks   == <<seen, ingest, emitting, queue, sink>>
history == <<evicted, pruned, torn, confirmed>>
storeVars == <<now, tables, tasks, faults, restarts, history>>

Keys  == [ts : 0 .. MaxTime, id : Ids]
Cells == CellKinds \X Agents
CellOf(k) == <<Kind[k.id], AgentOf[k.id]>>
Idle  == [at |-> "idle", key |-> NoKey]

StoreInit ==
  /\ now = 0
  /\ events = {} /\ index = [a \in Agents |-> <<>>] /\ alerts = <<>>
  /\ cell = [c \in Cells |-> NoKey]
  /\ seen = {} /\ ingest = NoKey /\ emitting = [d \in DerivedKinds |-> NoKey]
  /\ queue = <<>> /\ sink = Idle
  /\ faults = 0 /\ restarts = 0
  /\ evicted = {} /\ pruned = 0 /\ torn = {} /\ confirmed = {}

Tick ==
  /\ now < MaxTime /\ now' = now + 1
  /\ UNCHANGED <<tables, tasks, faults, restarts, history>>

(***************************************************************************)
(* write_event: the row and the agent's index, in one transaction.         *)
(***************************************************************************)
(* How many of the oldest entries the cap evicts.                          *)
Overflow(s) == IF Len(s) > Limit THEN Len(s) - Limit ELSE 0

WriteEvent(k) ==
  LET a == AgentOf[k.id]  keys == Append(index[a], k)  n == Overflow(keys)
  IN /\ events' = events \cup {k}
     /\ index' = [index EXCEPT ![a] = SubSeq(keys, n + 1, Len(keys))]
     /\ evicted' = evicted \cup {keys[i] : i \in 1 .. n}

(***************************************************************************)
(* Ingest.                                                                 *)
(***************************************************************************)
(* sanitize_ingest_fields: a timestamp too far from the server's clock is  *)
(* replaced by it.                                                         *)
Sanitized(i) ==
  [ts |-> IF Stamp[i] + Skew < now \/ Stamp[i] > now + Skew THEN now ELSE Stamp[i], id |-> i]

(* read_loop on an event that is not a duplicate: it is logged ...         *)
IngestWrites(i) ==
  /\ ingest = NoKey /\ i \in Raw \ seen /\ seen' = seen \cup {i}
  /\ \/ WriteEvent(Sanitized(i)) /\ ingest' = Sanitized(i) /\ UNCHANGED faults
     \/ /\ faults < MaxFaults /\ faults' = faults + 1
        /\ UNCHANGED <<events, index, evicted, ingest>>
  /\ UNCHANGED <<now, alerts, cell, emitting, queue, sink, restarts, pruned, torn, confirmed>>

(* ... and emitted, which for telemetry never waits.  Of an agent's events *)
(* only heartbeats go to the sink, when its queue has room.                *)
IngestEmits ==
  /\ ingest # NoKey /\ ingest' = NoKey
  /\ queue' = IF Kind[ingest.id] = "heartbeat" /\ Len(queue) < QueueDepth
                THEN Append(queue, ingest) ELSE queue
  /\ UNCHANGED <<now, tables, seen, emitting, sink, faults, restarts, history>>

(***************************************************************************)
(* Processors: the plugin that derives a kind has one event of it in hand  *)
(* at a time, and waits for the bus, which keeps critical kinds in order.  *)
(***************************************************************************)
Derive(i) ==
  /\ i \in Derived \ seen /\ seen' = seen \cup {i}
  /\ emitting[Kind[i]] = NoKey
  /\ emitting' = [emitting EXCEPT ![Kind[i]] = [ts |-> now, id |-> i]]
  /\ UNCHANGED <<now, tables, ingest, queue, sink, faults, restarts, history>>

EmitDerived(d) ==
  /\ emitting[d] # NoKey /\ Len(queue) < QueueDepth
  /\ queue' = Append(queue, emitting[d])
  /\ emitting' = [emitting EXCEPT ![d] = NoKey]
  /\ UNCHANGED <<now, tables, seen, ingest, sink, faults, restarts, history>>

(***************************************************************************)
(* StoreSink::handle, in three steps.                                      *)
(***************************************************************************)
(* Mutated form: a failing audit write is only logged.                     *)
SinkAudits_GoesOn ==
  /\ sink = Idle /\ queue # <<>> /\ queue' = Tail(queue)
  /\ sink' = [at |-> "audited", key |-> Head(queue)]
  /\ \/ WriteEvent(Head(queue)) /\ UNCHANGED faults
     \/ faults < MaxFaults /\ faults' = faults + 1 /\ UNCHANGED <<events, index, evicted>>
  /\ UNCHANGED <<now, alerts, cell, seen, ingest, emitting, restarts, pruned, torn, confirmed>>

(* Every event is part of the audit log.  If that fails, handle ends.      *)
SinkAudits ==
  /\ sink = Idle /\ queue # <<>> /\ queue' = Tail(queue)
  /\ \/ /\ WriteEvent(Head(queue)) /\ sink' = [at |-> "audited", key |-> Head(queue)]
        /\ UNCHANGED faults
     \/ /\ faults < MaxFaults /\ faults' = faults + 1
        /\ UNCHANGED <<events, index, evicted, sink>>
  /\ UNCHANGED <<now, alerts, cell, seen, ingest, emitting, restarts, pruned, torn, confirmed>>

(* append_alert: a new row, unacknowledged.                                *)
WithAlert(k) == [j \in DOMAIN alerts \cup {k} |-> IF j = k THEN FALSE ELSE alerts[j]]

(* upsert_detection, upsert_score, append_alert; a heartbeat touches the   *)
(* agent.                                                                  *)
SinkStores ==
  /\ sink.at = "audited" /\ sink' = [sink EXCEPT !.at = "stored"]
  /\ alerts' = IF Kind[sink.key.id] = "alert" THEN WithAlert(sink.key) ELSE alerts
  /\ cell' = IF Kind[sink.key.id] \in CellKinds
               THEN [cell EXCEPT ![CellOf(sink.key)] = sink.key] ELSE cell
  /\ UNCHANGED <<now, events, index, seen, ingest, emitting, queue, faults, restarts, history>>

(* That write fails, and handle ends.                                      *)
SinkFails ==
  /\ sink.at = "audited" /\ sink' = Idle
  /\ faults < MaxFaults /\ faults' = faults + 1
  /\ torn' = torn \cup {sink.key}
  /\ UNCHANGED <<now, tables, seen, ingest, emitting, queue, restarts, evicted, pruned, confirmed>>

(* Publish only after the durable write.                                   *)
Publishable == sink.at = "stored"

SinkPublishes ==
  /\ Publishable /\ sink' = Idle
  /\ UNCHANGED <<now, tables, seen, ingest, emitting, queue, faults, restarts, evicted, pruned,
                 torn, confirmed>>

(***************************************************************************)
(* Operators, retention, restarts.                                         *)
(***************************************************************************)
(* events_for_agent: a page of the index, walked backwards, with the rows  *)
(* that are there.                                                         *)
EventsForAgent(a, page, size) ==
  IF page * size >= Len(index[a]) THEN <<>>
  ELSE LET end == Len(index[a]) - page * size
           start == IF size < end THEN end - size ELSE 0
       IN SelectSeq(Reverse(SubSeq(index[a], start + 1, end)), LAMBDA k : k \in events)

(* PATCH /api/v1/alerts/:id/ack, of an alert that is there.                *)
AcknowledgeAlert(k) ==
  /\ k \in DOMAIN alerts
  /\ alerts' = [alerts EXCEPT ![k] = TRUE] /\ confirmed' = confirmed \cup {k}
  /\ UNCHANGED <<now, events, index, cell, tasks, faults, restarts, evicted, pruned, torn>>

(* Mutated forms: rows of the cutoff itself go; the index is left alone.   *)
KeptAlerts_Inclusive(cutoff) == {k \in DOMAIN alerts : k.ts > cutoff}
KeptIndex_All(s, cutoff) == s

KeptAlerts(cutoff) == {k \in DOMAIN alerts : k.ts >= cutoff}
KeptIndex(s, cutoff) == SelectSeq(s, LAMBDA k : k.ts >= cutoff)

(* compact: one transaction over the three tables.  The clock was read     *)
(* before the lock was taken, so the cutoff may lag behind it.             *)
Compact ==
  \E t \in Retention .. now :
    LET cutoff == t - Retention IN
      /\ events' = {k \in events : k.ts >= cutoff}
      /\ alerts' = [k \in KeptAlerts(cutoff) |-> alerts[k]]
      /\ index' = [a \in Agents |-> KeptIndex(index[a], cutoff)]
      /\ pruned' = IF cutoff > pruned THEN cutoff ELSE pruned
      /\ UNCHANGED <<now, cell, tasks, faults, restarts, evicted, torn, confirmed>>

(* The process ends, and is started again.  Agents re-send.                *)
Restart ==
  /\ restarts < MaxRestarts /\ restarts' = restarts + 1
  /\ seen' = seen \ Raw /\ ingest' = NoKey /\ emitting' = [d \in DerivedKinds |-> NoKey]
  /\ queue' = <<>> /\ sink' = Idle
  /\ torn' = IF sink.at = "audited" THEN torn \cup {sink.key} ELSE torn
  /\ UNCHANGED <<now, tables, faults, evicted, pruned, confirmed>>

-----------------------------------------------------------------------------
StoreNext ==
  \/ Tick \/ IngestEmits \/ SinkAudits \/ SinkStores \/ SinkFails \/ SinkPublishes
  \/ Compact \/ Restart
  \/ \E i \in Ids : IngestWrites(i) \/ Derive(i)
  \/ \E d \in DerivedKinds : EmitDerived(d)
  \/ \E k \in Keys : AcknowledgeAlert(k)

StoreSpec == StoreInit /\ [][StoreNext]_storeVars

-----------------------------------------------------------------------------
(* Types; the index of an agent and the sink's queue stay within their     *)
(* caps, and an agent's index lists no event of another.                   *)
StoreTypes ==
  /\ now \in 0 .. MaxTime
  /\ events \subseteq Keys /\ DOMAIN alerts \subseteq Keys
  /\ \A k \in DOMAIN alerts : alerts[k] \in BOOLEAN /\ Kind[k.id] = "alert"
  /\ \A a \in Agents : /\ index[a] \in Seq({k \in Keys : AgentOf[k.id] = a})
                       /\ Len(index[a]) <= Limit
  /\ \A c \in Cells : cell[c] \in {k \in Keys : CellOf(k) = c} \cup {NoKey}
  /\ seen \subseteq Ids /\ ingest \in Keys \cup {NoKey}
  /\ emitting \in [DerivedKinds -> Keys \cup {NoKey}]
  /\ queue \in Seq(Keys) /\ Len(queue) <= QueueDepth
  /\ sink \in [at : {"idle", "audited", "stored"}, key : Keys \cup {NoKey}]
  /\ faults \in 0 .. MaxFaults /\ restarts \in 0 .. MaxRestarts /\ pruned \in 0 .. MaxTime
  /\ evicted \cup torn \cup confirmed \subseteq Keys

(* An agent's pages, of any size, list its index from the newest entry to  *)
(* the oldest without a hole, and miss none of its rows but those the cap  *)
(* evicted, whoever wrote and pruned in between.                           *)
PagesExact ==
  \A a \in Agents :
    /\ \A size \in 1 .. Limit :
         FlattenSeq([p \in 1 .. Limit |-> EventsForAgent(a, p - 1, size)]) = Reverse(index[a])
    /\ {k \in events : AgentOf[k.id] = a} \subseteq Range(index[a]) \cup evicted

(* The tables agree: an alert in the feed is in the audit log, or due for  *)
(* the next sweep; an audited alert is in the feed, and an audited         *)
(* detection or score is not newer than its cell, unless the sink is       *)
(* between the two writes or was stopped there.                            *)
TablesAgree ==
  /\ \A k \in DOMAIN alerts : k \in events \/ k.ts < pruned
  /\ \A k \in {j \in events : Kind[j.id] \in DerivedKinds} :
       \/ k \in torn \/ sink = [at |-> "audited", key |-> k]
       \/ Kind[k.id] = "alert" /\ k \in DOMAIN alerts
       \/ Kind[k.id] \in CellKinds /\ cell[CellOf(k)] # NoKey /\ cell[CellOf(k)].ts >= k.ts

(* What an operator acknowledged stays acknowledged until retention takes  *)
(* the row, and nothing else takes it.                                     *)
AckHolds ==
  \A k \in confirmed : IF k \in DOMAIN alerts THEN alerts[k] ELSE k.ts < pruned

=============================================================================

------------------------------ MODULE EventBus ------------------------------
(***************************************************************************)
(* The plugin host's event bus: crates/aegis-core/src/bus.rs and the       *)
(* runtime half of host.rs.  One bounded ingress channel, a dispatcher     *)
(* that fans its events out in route order to one bounded queue per        *)
(* plugin, and a handler task per plugin that may itself emit.  Telemetry  *)
(* is dropped when a channel is full; alerts, detections and scores wait   *)
(* for a slot.  The host loads the plugins, runs, and stops its tasks in   *)
(* order.                                                                  *)
(*                                                                         *)
(* Channels are tokio's: senders that wait for a slot are served first     *)
(* come, first served, and a slot that has been promised to one of them is *)
(* not free for try_send.                                                  *)
(***************************************************************************)
EXTENDS Integers, Sequences, FiniteSets, SequencesExt

CONSTANTS
  Routes,     (* the plugins, in load order                                *)
  Producers,  (* the tasks plugins spawn, and the server's ingest sessions *)
  Host,       (* the task that runs the host: it emits during Plugin::init *)
  Kinds,      (* event kinds                                               *)
  Critical,   (* those of is_critical_kind: alert, detection, score        *)
  Subs,       (* Subs[p]: kinds plugin p subscribes to                     *)
  Emits,      (* Emits[t]: kinds task t emits                              *)
  Slow,       (* plugins whose handle may never return                     *)
  QueueDepth, (* queue_depth: of the ingress and of each queue             *)
  MaxEvents   (* bound of the model: events emitted                        *)

Plugins == Range(Routes)
Tasks   == Producers \cup Plugins \cup {Host}
Event   == [id : 1 .. MaxEvents, by : Tasks, kind : Kinds]

ASSUME EventBusAssumption ==
  /\ Routes \in Seq(Plugins) /\ IsInjective(Routes)
  /\ Host \notin Producers \cup Plugins
  /\ Critical \subseteq Kinds /\ Slow \subseteq Plugins
  /\ Subs \in [Plugins -> SUBSET Kinds] /\ Emits \in [Tasks -> SUBSET Kinds]
  /\ QueueDepth \in Nat \ {0} /\ MaxEvents \in Nat

VARIABLES
  phase,      (* "loading" (run), "running", "stopping" (shutdown), "down" *)
  loaded,     (* how many plugins run() has been through                   *)
  dispatcher, (* "off", "running", "stopped"                               *)
  handler,    (* handler[p]: "off", "idle", "busy", "stopped"              *)
  ingress,    (* the ingress channel                                       *)
  waiters,    (* events whose emitting task awaits an ingress slot         *)
  routing,    (* the event being fanned out, as a sequence of at most one  *)
  next_route, (* the route it comes to next                                *)
  queue,      (* queue[p]                                                  *)
  ingress_dropped_full, ingress_dropped_closed, fanout_dropped_full,
  emitted,    (* history: the events emitted                               *)
  received,   (* history: what the dispatcher took from the ingress        *)
  took        (* history: took[p], what p's handler was given              *)

channels == <<ingress, waiters, routing, next_route, queue>>
fanout   == <<routing, next_route>>
metrics  == <<ingress_dropped_full, ingress_dropped_closed, fanout_dropped_full>>
tasks    == <<phase, loaded, dispatcher, handler>>
vars     == <<tasks, channels, metrics, emitted, received, took>>

Init ==
  /\ phase = "loading" /\ loaded = 0 /\ dispatcher = "off"
  /\ handler = [p \in Plugins |-> "off"]
  /\ routing = <<>> /\ next_route = 1
  /\ ingress = <<>> /\ waiters = <<>> /\ queue = [p \in Plugins |-> <<>>]
  /\ ingress_dropped_full = 0 /\ ingress_dropped_closed = 0 /\ fanout_dropped_full = 0
  /\ emitted = {} /\ received = <<>> /\ took = [p \in Plugins |-> <<>>]

Waiting(t) == \E e \in Range(waiters) : e.by = t

(***************************************************************************)
(* Emitting.                                                               *)
(***************************************************************************)
(* A plugin emits from its handler, the host from the init of the next     *)
(* plugin, a spawned task as long as the process lives.                    *)
MayEmit(t) ==
  /\ ~Waiting(t)
  /\ t \in Plugins => handler[t] = "busy"
  /\ t = Host => phase = "loading" /\ loaded < Len(Routes)
  /\ t \in Producers => phase # "down"

Free == QueueDepth - Len(ingress)   (* slots, some of them promised        *)

TrySend(e) ==
  IF Free > Len(waiters)
    THEN ingress' = Append(ingress, e) /\ UNCHANGED <<waiters, metrics>>
    ELSE /\ ingress_dropped_full' = ingress_dropped_full + 1
         /\ UNCHANGED <<ingress, waiters, ingress_dropped_closed, fanout_dropped_full>>

(* Mutated form: critical kinds are not told apart.                        *)
Send_NeverWaits(e) == TrySend(e)

(* BusEmitter::emit: await a slot for a critical kind, try_send otherwise. *)
Send(e) ==
  IF dispatcher = "stopped"
    THEN /\ ingress_dropped_closed' = ingress_dropped_closed + 1
         /\ UNCHANGED <<ingress, waiters, ingress_dropped_full, fanout_dropped_full>>
    ELSE IF e.kind \in Critical
      THEN waiters' = Append(waiters, e) /\ UNCHANGED <<ingress, metrics>>
      ELSE TrySend(e)

Emit(t) ==
  /\ MayEmit(t) /\ Cardinality(emitted) < MaxEvents
  /\ \E k \in Emits[t] :
       LET e == [id |-> Cardinality(emitted) + 1, by |-> t, kind |-> k]
       IN Send(e) /\ emitted' = emitted \cup {e}
  /\ UNCHANGED <<tasks, fanout, queue, received, took>>

(* A waiting send that has been promised a slot completes.                 *)
Admit ==
  /\ \E i \in 1 .. Len(waiters) :
       /\ i <= Free
       /\ ingress' = Append(ingress, waiters[i]) /\ waiters' = RemoveAt(waiters, i)
  /\ UNCHANGED <<tasks, fanout, queue, metrics, emitted, received, took>>

(***************************************************************************)
(* Host::run.                                                              *)
(***************************************************************************)
(* The next plugin's init returns: its handler task starts, or the plugin  *)
(* is skipped because init failed or panicked.                             *)
InitPlugin ==
  /\ phase = "loading" /\ loaded < Len(Routes) /\ ~Waiting(Host)
  /\ loaded' = loaded + 1
  /\ \E st \in {"idle", "off"} : handler' = [handler EXCEPT ![Routes[loaded']] = st]
  /\ UNCHANGED <<phase, dispatcher, channels, metrics, emitted, received, took>>

SpawnDispatcher ==
  /\ phase = "loading" /\ loaded = Len(Routes)
  /\ phase' = "running" /\ dispatcher' = "running"
  /\ UNCHANGED <<loaded, handler, channels, metrics, emitted, received, took>>

(***************************************************************************)
(* The dispatcher.                                                         *)
(***************************************************************************)
DispatchRecv ==
  /\ dispatcher = "running" /\ routing = <<>> /\ ingress # <<>>
  /\ routing' = <<Head(ingress)>>
  /\ ingress' = Tail(ingress) /\ received' = Append(received, Head(ingress))
  /\ UNCHANGED <<tasks, waiters, next_route, queue, metrics, emitted, took>>

Enqueue(e, p) == queue' = [queue EXCEPT ![p] = Append(@, e)] /\ UNCHANGED fanout_dropped_full
Skip          == UNCHANGED <<queue, fanout_dropped_full>>

(* Mutated forms: a stopped handler's queue is not seen to be closed; every *)
(* kind waits for a slot.                                                  *)
Deliver_NeverClosed(e, p) ==
  \/ Len(queue[p]) < QueueDepth  /\ Enqueue(e, p)
  \/ Len(queue[p]) >= QueueDepth /\ e.kind \notin Critical /\ UNCHANGED queue
     /\ fanout_dropped_full' = fanout_dropped_full + 1
Deliver_AlwaysWaits(e, p) ==
  \/ handler[p] = "stopped" /\ Skip
  \/ handler[p] # "stopped" /\ Len(queue[p]) < QueueDepth /\ Enqueue(e, p)

(* A queue whose handler has stopped is closed: the event is dropped and   *)
(* no counter moves.  On a full queue telemetry is dropped and counted,    *)
(* and a critical event waits, which keeps the dispatcher where it is.     *)
Deliver(e, p) ==
  \/ handler[p] = "stopped" /\ Skip
  \/ handler[p] # "stopped" /\ Len(queue[p]) < QueueDepth /\ Enqueue(e, p)
  \/ /\ handler[p] # "stopped" /\ Len(queue[p]) >= QueueDepth /\ e.kind \notin Critical
     /\ fanout_dropped_full' = fanout_dropped_full + 1 /\ UNCHANGED queue

(* Mutated form: a critical event that finds a full queue goes back to the *)
(* end of the line.                                                        *)
FanOut_Requeues ==
  /\ routing # <<>> /\ next_route <= Len(Routes)
  /\ LET e == routing[1]  p == Routes[next_route]
     IN IF handler[p] = "off" \/ e.kind \notin Subs[p]
          THEN next_route' = next_route + 1 /\ Skip /\ UNCHANGED <<routing, waiters>>
        ELSE IF Len(queue[p]) >= QueueDepth /\ e.kind \in Critical
          THEN waiters' = Append(waiters, e) /\ routing' = <<>> /\ next_route' = 1 /\ Skip
        ELSE next_route' = next_route + 1 /\ Deliver(e, p) /\ UNCHANGED <<routing, waiters>>
  /\ UNCHANGED <<tasks, ingress, ingress_dropped_full, ingress_dropped_closed,
                 emitted, received, took>>

(* The loop over the routes; a plugin whose init failed has none.          *)
FanOut ==
  /\ routing # <<>> /\ next_route <= Len(Routes)
  /\ next_route' = next_route + 1
  /\ LET e == routing[1]  p == Routes[next_route]
     IN IF handler[p] = "off" \/ e.kind \notin Subs[p] THEN Skip ELSE Deliver(e, p)
  /\ UNCHANGED <<tasks, ingress, waiters, routing, ingress_dropped_full,
                 ingress_dropped_closed, emitted, received, took>>

FanOutEnds ==
  /\ routing # <<>> /\ next_route > Len(Routes)
  /\ routing' = <<>> /\ next_route' = 1
  /\ UNCHANGED <<tasks, ingress, waiters, queue, metrics, emitted, received, took>>

(* The select picks the shutdown branch: the receiver is dropped with what *)
(* is still in the channel, and every waiting send fails.                  *)
StopDispatcher ==
  /\ phase = "stopping" /\ dispatcher = "running" /\ routing = <<>>
  /\ dispatcher' = "stopped"
  /\ ingress' = <<>> /\ waiters' = <<>>
  /\ ingress_dropped_closed' = ingress_dropped_closed + Len(waiters)
  /\ UNCHANGED <<phase, loaded, handler, fanout, queue, ingress_dropped_full,
                 fanout_dropped_full, emitted, received, took>>

(***************************************************************************)
(* A plugin's handler task.                                                *)
(***************************************************************************)
Handle(p) ==
  /\ handler[p] = "idle" /\ queue[p] # <<>>
  /\ handler' = [handler EXCEPT ![p] = "busy"]
  /\ took' = [took EXCEPT ![p] = Append(@, Head(queue[p]))]
  /\ queue' = [queue EXCEPT ![p] = Tail(@)]
  /\ UNCHANGED <<phase, loaded, dispatcher, ingress, waiters, fanout, metrics, emitted, received>>

HandleReturns(p) ==
  /\ handler[p] = "busy" /\ ~Waiting(p)
  /\ handler' = [handler EXCEPT ![p] = "idle"]
  /\ UNCHANGED <<phase, loaded, dispatcher, channels, metrics, emitted, received, took>>

(* The select picks the shutdown branch, or the queue is empty and closed. *)
StopHandler(p) ==
  /\ phase = "stopping" /\ handler[p] = "idle"
  /\ handler' = [handler EXCEPT ![p] = "stopped"]
  /\ queue' = [queue EXCEPT ![p] = <<>>]
  /\ UNCHANGED <<phase, loaded, dispatcher, ingress, waiters, fanout, metrics,
                 emitted, received, took>>

(***************************************************************************)
(* RunningHost::shutdown.                                                  *)
(***************************************************************************)
Shutdown ==
  /\ phase = "running" /\ phase' = "stopping"
  /\ UNCHANGED <<loaded, dispatcher, handler, channels, metrics, emitted, received, took>>

(* Mutated form: the handlers are not joined.                              *)
ShutdownPlugins_NoJoin ==
  /\ phase = "stopping" /\ dispatcher = "stopped" /\ phase' = "down"
  /\ UNCHANGED <<loaded, dispatcher, handler, channels, metrics, emitted, received, took>>

(* Dispatcher and handlers have been joined: Plugin::shutdown is called on *)
(* each plugin and the process ends.                                       *)
ShutdownPlugins ==
  /\ phase = "stopping" /\ dispatcher = "stopped"
  /\ \A p \in Plugins : handler[p] \in {"off", "stopped"}
  /\ phase' = "down"
  /\ UNCHANGED <<loaded, dispatcher, handler, channels, metrics, emitted, received, took>>

Next ==
  \/ \E t \in Tasks : Emit(t)
  \/ Admit \/ InitPlugin \/ SpawnDispatcher
  \/ DispatchRecv \/ FanOut \/ FanOutEnds \/ StopDispatcher
  \/ \E p \in Plugins : Handle(p) \/ HandleReturns(p) \/ StopHandler(p)
  \/ Shutdown \/ ShutdownPlugins

Spec == Init /\ [][Next]_vars

(* Tokio polls every ready task, and select! picks among ready branches at *)
(* random, so the shutdown branch is taken eventually even while events    *)
(* keep coming.  Nothing bounds how long a slow handler takes.             *)
Fairness ==
  /\ WF_vars(Admit) /\ WF_vars(InitPlugin) /\ WF_vars(SpawnDispatcher)
  /\ WF_vars(DispatchRecv) /\ WF_vars(FanOut \/ FanOutEnds) /\ SF_vars(StopDispatcher)
  /\ WF_vars(ShutdownPlugins)
  /\ \A p \in Plugins : WF_vars(Handle(p)) /\ SF_vars(StopHandler(p))
  /\ \A p \in Plugins \ Slow : WF_vars(HandleReturns(p))
FairSpec == Spec /\ Fairness

-----------------------------------------------------------------------------
(* Types; the channels stay within their depth.                            *)
TypeOK ==
  /\ phase \in {"loading", "running", "stopping", "down"}
  /\ loaded \in 0 .. Len(Routes)
  /\ dispatcher \in {"off", "running", "stopped"}
  /\ handler \in [Plugins -> {"off", "idle", "busy", "stopped"}]
  /\ ingress \in Seq(Event) /\ Len(ingress) <= QueueDepth
  /\ waiters \in Seq(Event)
  /\ routing \in Seq(Event) /\ Len(routing) <= 1 /\ next_route \in 1 .. Len(Routes) + 1
  /\ queue \in [Plugins -> Seq(Event)] /\ \A p \in Plugins : Len(queue[p]) <= QueueDepth
  /\ ingress_dropped_full \in Nat /\ ingress_dropped_closed \in Nat /\ fanout_dropped_full \in Nat
  /\ emitted \subseteq Event /\ received \in Seq(Event) /\ took \in [Plugins -> Seq(Event)]

Up == phase \in {"loading", "running"}

(* Where an event that p subscribes to is, if it is not lost to p.         *)
NotAtDispatcher(e) == e \in Range(waiters) \cup Range(ingress)
OnTheWay(e, p)     == \/ routing = <<e>> /\ \E i \in next_route .. Len(Routes) : Routes[i] = p
                      \/ e \in Range(queue[p]) \cup Range(took[p])
Owed(e, p) == handler[p] # "off" /\ e.kind \in Subs[p]

(* Until the host is told to stop, no critical event is lost to any of its *)
(* subscribers, however full the channels are.                             *)
CriticalKept ==
  Up => \A e \in emitted, p \in Plugins :
          e.kind \in Critical /\ Owed(e, p) => NotAtDispatcher(e) \/ OnTheWay(e, p)

(* All plugins see the events they share in one order, and the events of   *)
(* one task in the order it emitted them.                                  *)
Earlier(e, f, s) == \E i, j \in DOMAIN s : i < j /\ s[i] = e /\ s[j] = f
OneOrder ==
  \A p, q \in Plugins : \A e, f \in Range(took[p]) :
    /\ Earlier(e, f, took[p]) => ~Earlier(f, e, took[q])
    /\ Earlier(e, f, took[p]) /\ e.by = f.by => e.id < f.id

(* No handler runs once Plugin::shutdown may have been called.             *)
NoHandleAfterShutdown ==
  [][phase = "down" \/ phase' = "down" =>
       /\ took' = took
       /\ \A p \in Plugins : handler'[p] # "busy"]_vars

(* The dispatcher awaits a slot in p's queue for a critical event.         *)
AwaitsSlot(p) ==
  /\ routing # <<>> /\ next_route <= Len(Routes) /\ p = Routes[next_route]
  /\ routing[1].kind \in Critical \cap Subs[p]
  /\ handler[p] = "busy" /\ Len(queue[p]) = QueueDepth

(* The two waits that may never end: for a slow handler, and for a handler *)
(* that itself awaits a slot in the ingress, which is full.                *)
SlowAtWork == \E p \in Slow : handler[p] = "busy"
WaitCycle  == Free = 0 /\ \E p \in Plugins : AwaitsSlot(p) /\ Waiting(p)

(* A stop that never completes is held up by a slow handler that stays at  *)
(* work, or by a dispatcher and a handler that have come to wait for each  *)
(* other: nothing else stands in the way of RunningHost::shutdown.         *)
ShutdownCompletes == <>[](phase = "stopping") => <>[](SlowAtWork \/ WaitCycle)

(* While the host runs, an event that waits to be dispatched for ever      *)
(* waits for one of the two: a handler that never returns holds up only    *)
(* the critical kinds it takes, and what comes behind them.                *)
Undispatched == ingress # <<>> \/ waiters # <<>>
DispatcherKeepsUp ==
  <>[](phase = "running" /\ Undispatched) =>
    <>[](WaitCycle \/ \E p \in Slow : AwaitsSlot(p))
=============================================================================

--------------------------- MODULE EventBusProofs ---------------------------
(* Theorems of EventBus, for every set of plugins, every wiring of what    *)
(* they subscribe to and emit, and every queue depth.                      *)
EXTENDS EventBus, SequenceFacts, FiniteSetTheorems

(* The inductive form of TypeOK: emitting numbers an event by counting the *)
(* earlier ones, so there must be finitely many of them.                   *)
TypeInv == TypeOK /\ IsFiniteSet(emitted)

LEMMA InitTypeInv == Init => TypeInv
<1> SUFFICES ASSUME Init PROVE TypeInv
  OBVIOUS
<1> USE EventBusAssumption
<1>1. IsFiniteSet(emitted)
  BY FS_EmptySet DEF Init
<1>2. Len(Routes) \in Nat
  OBVIOUS
<1>3. QED
  BY <1>1, <1>2 DEF TypeInv, TypeOK, Init

(* What one emission may change.                                           *)
LEMMA SendTypes ==
  ASSUME TypeOK, NEW e \in Event, Send(e)
  PROVE  /\ ingress' \in Seq(Event) /\ Len(ingress') <= QueueDepth
         /\ waiters' \in Seq(Event)
         /\ ingress_dropped_full' \in Nat /\ ingress_dropped_closed' \in Nat
         /\ fanout_dropped_full' \in Nat
<1> USE EventBusAssumption DEF TypeOK, metrics
<1>1. CASE dispatcher = "stopped"
  BY <1>1 DEF Send
<1>2. CASE dispatcher # "stopped" /\ e.kind \in Critical
  <2>1. waiters' = Append(waiters, e) /\ UNCHANGED <<ingress, metrics>>
    BY <1>2 DEF Send
  <2>2. waiters' \in Seq(Event)
    BY <2>1
  <2>3. QED
    BY <2>1, <2>2
<1>3. CASE dispatcher # "stopped" /\ e.kind \notin Critical
  <2>1. TrySend(e)
    BY <1>3 DEF Send
  <2>2. CASE Free > Len(waiters)
    <3>1. Len(ingress) + 1 <= QueueDepth
      <4>1. Len(ingress) \in Nat /\ Len(waiters) \in Nat
        OBVIOUS
      <4>2. QED
        BY <2>2, <4>1 DEF Free
    <3>2. ingress' = Append(ingress, e) /\ UNCHANGED <<waiters, metrics>>
      BY <2>1, <2>2 DEF TrySend
    <3>3. ingress' \in Seq(Event) /\ Len(ingress') <= QueueDepth
      BY <3>1, <3>2
    <3>4. QED
      BY <3>2, <3>3
  <2>3. CASE ~(Free > Len(waiters))
    BY <2>1, <2>3 DEF TrySend
  <2>4. QED
    BY <2>2, <2>3
<1>4. QED
  BY <1>1, <1>2, <1>3

LEMMA NextTypeInv == TypeInv /\ [Next]_vars => TypeInv'
<1> SUFFICES ASSUME TypeInv, [Next]_vars PROVE TypeInv'
  OBVIOUS
<1> USE EventBusAssumption
<1>0. /\ TypeOK /\ IsFiniteSet(emitted) /\ Len(Routes) \in Nat
      /\ \A i \in 1 .. Len(Routes) : Routes[i] \in Plugins
  BY DEF TypeInv
<1>1. ASSUME NEW t \in Tasks, Emit(t) PROVE TypeInv'
  <2>1. PICK k \in Emits[t] :
          LET e == [id |-> Cardinality(emitted) + 1, by |-> t, kind |-> k]
          IN Send(e) /\ emitted' = emitted \cup {e}
    BY <1>1 DEF Emit
  <2> DEFINE e == [id |-> Cardinality(emitted) + 1, by |-> t, kind |-> k]
  <2>2. k \in Kinds
    OBVIOUS
  <2>3. Cardinality(emitted) + 1 \in 1 .. MaxEvents
    <3>1. Cardinality(emitted) \in Nat
      BY <1>0, FS_CardinalityType
    <3>2. QED
      BY <3>1, <1>1 DEF Emit
  <2>4. e \in Event
    BY <2>2, <2>3 DEF Event
  <2>5. /\ ingress' \in Seq(Event) /\ Len(ingress') <= QueueDepth
        /\ waiters' \in Seq(Event)
        /\ ingress_dropped_full' \in Nat /\ ingress_dropped_closed' \in Nat
        /\ fanout_dropped_full' \in Nat
    BY <1>0, <2>1, <2>4, SendTypes
  <2>6. IsFiniteSet(emitted') /\ emitted' \subseteq Event
    <3>1. emitted \subseteq Event
      BY <1>0 DEF TypeOK
    <3>2. QED
      BY <1>0, <2>1, <2>4, <3>1, FS_AddElement
  <2>7. QED
    BY <1>0, <1>1, <2>5, <2>6 DEF TypeInv, TypeOK, Emit, tasks, fanout
<1>2. CASE Admit
  <2>1. PICK i \in 1 .. Len(waiters) :
          /\ i <= Free
          /\ ingress' = Append(ingress, waiters[i]) /\ waiters' = RemoveAt(waiters, i)
    BY <1>2 DEF Admit
  <2>2. ingress \in Seq(Event) /\ waiters \in Seq(Event) /\ waiters[i] \in Event
    BY SMTT(40), <1>0 DEF TypeOK
  <2>3. Len(ingress) + 1 <= QueueDepth
    BY <2>1, <2>2 DEF Free
  <2>4. ingress' \in Seq(Event) /\ Len(ingress') <= QueueDepth
    BY <2>1, <2>2, <2>3, AppendRange
  <2>5. waiters' \in Seq(Event)
    BY <2>1, <2>2, RemoveAtRange
  <2>6. QED
    BY <1>0, <1>2, <2>4, <2>5 DEF TypeInv, TypeOK, Admit, tasks, fanout, metrics
<1>3. CASE InitPlugin
  <2>0. /\ loaded \in 0 .. Len(Routes) /\ loaded < Len(Routes) /\ loaded' = loaded + 1
        /\ handler \in [Plugins -> {"off", "idle", "busy", "stopped"}]
        /\ \E st \in {"idle", "off"} : handler' = [handler EXCEPT ![Routes[loaded']] = st]
    BY Zenon, <1>0, <1>3 DEF InitPlugin, TypeOK
  <2>1. loaded' = loaded + 1 /\ loaded' \in 1 .. Len(Routes) /\ loaded' \in 0 .. Len(Routes)
    BY <1>0, <2>0
  <2>2. handler' \in [Plugins -> {"off", "idle", "busy", "stopped"}]
    BY <2>0
  <2>3. QED
    BY Zenon, <1>0, <1>3, <2>1, <2>2 DEF TypeInv, TypeOK, InitPlugin, channels, metrics
<1>4. CASE SpawnDispatcher
  BY <1>0, <1>4 DEF TypeInv, TypeOK, SpawnDispatcher, channels, metrics
<1>5. CASE DispatchRecv
  <2>1. ingress \in Seq(Event) /\ received \in Seq(Event) /\ ingress # <<>>
    BY <1>0, <1>5 DEF TypeOK, DispatchRecv
  <2>2. Head(ingress) \in Event /\ Tail(ingress) \in Seq(Event) /\ Len(Tail(ingress)) = Len(ingress) - 1
    BY <2>1, TailRange
  <2>3. received' \in Seq(Event) /\ ingress' \in Seq(Event) /\ Len(ingress') <= QueueDepth
    BY <1>0, <1>5, <2>1, <2>2 DEF DispatchRecv, TypeOK
  <2>4. routing' \in Seq(Event) /\ Len(routing') <= 1
    BY <1>5, <2>2 DEF DispatchRecv
  <2>5. QED
    BY <1>0, <1>5, <2>3, <2>4 DEF TypeInv, TypeOK, DispatchRecv, tasks, metrics
<1>6. CASE FanOut
  <2> DEFINE e == routing[1]
             p == Routes[next_route]
  <2>1. e \in Event /\ p \in Plugins /\ next_route' \in 1 .. Len(Routes) + 1
    <3>1. routing \in Seq(Event) /\ routing # <<>> /\ next_route \in 1 .. Len(Routes)
      BY <1>0, <1>6 DEF FanOut, TypeOK
    <3>2. QED
      BY <1>0, <1>6, <3>1 DEF FanOut
  <2>2. Skip \/ Deliver(e, p)
    BY <1>6 DEF FanOut
  <2>3. /\ queue' \in [Plugins -> Seq(Event)] /\ \A q \in Plugins : Len(queue'[q]) <= QueueDepth
        /\ fanout_dropped_full' \in Nat
    <3>1. CASE Skip
      BY <1>0, <3>1 DEF Skip, TypeOK
    <3>2. CASE Len(queue[p]) < QueueDepth /\ Enqueue(e, p)
      <4>1. queue[p] \in Seq(Event)
        BY <1>0, <2>1 DEF TypeOK
      <4>2. Append(queue[p], e) \in Seq(Event) /\ Len(Append(queue[p], e)) <= QueueDepth
        BY <2>1, <3>2, <4>1, AppendRange
      <4>3. queue' = [queue EXCEPT ![p] = Append(queue[p], e)] /\ fanout_dropped_full' = fanout_dropped_full
        BY <3>2 DEF Enqueue
      <4> HIDE DEF e, p
      <4>4. QED
        BY <1>0, <2>1, <4>2, <4>3 DEF TypeOK
    <3>3. CASE fanout_dropped_full' = fanout_dropped_full + 1 /\ UNCHANGED queue
      BY <1>0, <3>3 DEF TypeOK
    <3>4. QED
      BY <2>2, <3>1, <3>2, <3>3 DEF Deliver
  <2>4. QED
    BY <1>0, <1>6, <2>1, <2>3 DEF TypeInv, TypeOK, FanOut, tasks
<1>7. CASE FanOutEnds
  BY <1>0, <1>7 DEF TypeInv, TypeOK, FanOutEnds, tasks, metrics
<1>8. CASE StopDispatcher
  <2>1. waiters \in Seq(Event) /\ ingress_dropped_closed \in Nat
    BY <1>0 DEF TypeOK
  <2>2. ingress_dropped_closed' \in Nat
    BY <1>8, <2>1 DEF StopDispatcher
  <2>3. ingress' = <<>> /\ waiters' = <<>> /\ dispatcher' = "stopped"
    BY <1>8 DEF StopDispatcher
  <2>4. QED
    BY <1>0, <1>8, <2>2, <2>3 DEF TypeInv, TypeOK, StopDispatcher, fanout
<1>9. ASSUME NEW p \in Plugins, Handle(p) PROVE TypeInv'
  <2>1. queue[p] \in Seq(Event) /\ queue[p] # <<>> /\ took[p] \in Seq(Event) /\ Len(queue[p]) <= QueueDepth
    BY <1>0, <1>9 DEF TypeOK, Handle
  <2>2. /\ Head(queue[p]) \in Event /\ Tail(queue[p]) \in Seq(Event)
        /\ Len(Tail(queue[p])) <= QueueDepth
    BY <2>1, TailRange
  <2>3. Append(took[p], Head(queue[p])) \in Seq(Event)
    BY <2>1, <2>2, AppendRange
  <2>4. queue' = [queue EXCEPT ![p] = Tail(queue[p])] /\ took' = [took EXCEPT ![p] = Append(took[p], Head(queue[p]))]
    BY <1>9 DEF Handle
  <2>5. queue' \in [Plugins -> Seq(Event)] /\ \A q \in Plugins : Len(queue'[q]) <= QueueDepth
    BY <1>0, <2>2, <2>4 DEF TypeOK
  <2>6. took' \in [Plugins -> Seq(Event)] /\ handler' \in [Plugins -> {"off", "idle", "busy", "stopped"}]
    <3>1. /\ took \in [Plugins -> Seq(Event)]
          /\ handler \in [Plugins -> {"off", "idle", "busy", "stopped"}]
          /\ handler' = [handler EXCEPT ![p] = "busy"]
      BY Zenon, <1>0, <1>9 DEF TypeOK, Handle
    <3>2. QED
      BY <2>3, <2>4, <3>1
  <2>7. QED
    BY <1>0, <1>9, <2>5, <2>6 DEF TypeInv, TypeOK, Handle, fanout, metrics
<1>10. ASSUME NEW p \in Plugins, HandleReturns(p) PROVE TypeInv'
  BY <1>0, <1>10 DEF TypeInv, TypeOK, HandleReturns, channels, metrics
<1>11. ASSUME NEW p \in Plugins, StopHandler(p) PROVE TypeInv'
  <2>1. queue' \in [Plugins -> Seq(Event)] /\ \A q \in Plugins : Len(queue'[q]) <= QueueDepth
    <3>1. /\ queue \in [Plugins -> Seq(Event)] /\ \A q \in Plugins : Len(queue[q]) <= QueueDepth
          /\ queue' = [queue EXCEPT ![p] = <<>>] /\ QueueDepth \in Nat
      BY <1>0, <1>11, EventBusAssumption DEF TypeOK, StopHandler
    <3>2. <<>> \in Seq(Event) /\ Len(<<>>) = 0
      BY Zenon, EmptySeq
    <3>3. QED
      BY <3>1, <3>2
  <2>2. handler' \in [Plugins -> {"off", "idle", "busy", "stopped"}]
    BY <1>0, <1>11 DEF TypeOK, StopHandler
  <2>3. QED
    BY <1>0, <1>11, <2>1, <2>2 DEF TypeInv, TypeOK, StopHandler, fanout, metrics
<1>12. CASE Shutdown
  BY <1>0, <1>12 DEF TypeInv, TypeOK, Shutdown, channels, metrics
<1>13. CASE ShutdownPlugins
  BY <1>0, <1>13 DEF TypeInv, TypeOK, ShutdownPlugins, channels, metrics
<1>14. CASE UNCHANGED vars
  BY <1>0, <1>14 DEF TypeInv, TypeOK, vars, tasks, channels, metrics
<1>15. QED
  BY <1>1, <1>2, <1>3, <1>4, <1>5, <1>6, <1>7, <1>8, <1>9, <1>10, <1>11, <1>12, <1>13, <1>14
     DEF Next

LEMMA TypeInvariant == Spec => []TypeInv
BY InitTypeInv, NextTypeInv, PTL DEF Spec

(* Every variable keeps its type; in particular neither the ingress nor a  *)
(* plugin's queue ever exceeds queue_depth, waiting senders or not.        *)
THEOREM TypeCorrect == Spec => []TypeOK
<1>1. TypeInv => TypeOK
  BY DEF TypeInv
<1>2. QED
  BY <1>1, TypeInvariant, PTL

-----------------------------------------------------------------------------
(* No critical event is lost while the host is up.                         *)

IsCritical(e) == e.kind \in Critical
Kept(e, p)    == NotAtDispatcher(e) \/ OnTheWay(e, p)

(* Until shutdown every task is there; until the dispatcher is spawned no  *)
(* critical event has left the ingress, so a plugin that is loaded late    *)
(* has missed none; and an idle dispatcher starts at the first route.      *)
KeptInv ==
  /\ TypeInv
  /\ Up => dispatcher # "stopped" /\ \A p \in Plugins : handler[p] # "stopped"
  /\ phase = "loading" => dispatcher = "off"
  /\ phase = "loading" => \A e \in emitted : IsCritical(e) => NotAtDispatcher(e)
  /\ routing = <<>> => next_route = 1
  /\ CriticalKept

LEMMA InitKeptInv == Init => KeptInv
<1> SUFFICES ASSUME Init PROVE KeptInv
  OBVIOUS
<1>1. TypeInv
  BY InitTypeInv
<1>2. QED
  BY <1>1 DEF Init, KeptInv, CriticalKept, Plugins

(* Where an event goes when it is emitted.                                 *)
LEMMA EmitKeeps ==
  ASSUME KeptInv, NEW t \in Tasks, Emit(t), Up
  PROVE  /\ Range(ingress) \cup Range(waiters) \subseteq Range(ingress') \cup Range(waiters')
         /\ \A e \in emitted' : IsCritical(e) => e \in emitted \/ e \in Range(waiters')
<1>1. PICK k \in Emits[t] :
        LET e == [id |-> Cardinality(emitted) + 1, by |-> t, kind |-> k]
        IN Send(e) /\ emitted' = emitted \cup {e}
  BY DEF Emit
<1> DEFINE e == [id |-> Cardinality(emitted) + 1, by |-> t, kind |-> k]
<1>2. dispatcher # "stopped" /\ ingress \in Seq(Event) /\ waiters \in Seq(Event)
  BY DEF KeptInv, TypeInv, TypeOK
<1>3. e \in Event
  <2>1. Cardinality(emitted) + 1 \in 1 .. MaxEvents
    <3>1. Cardinality(emitted) \in Nat
      BY FS_CardinalityType DEF KeptInv, TypeInv
    <3>2. QED
      BY <3>1, EventBusAssumption DEF Emit
  <2>2. QED
    BY <2>1, EventBusAssumption DEF Event
<1> HIDE DEF e
<1>4. CASE IsCritical(e)
  <2>1. waiters' = Append(waiters, e) /\ ingress' = ingress
    BY <1>1, <1>2, <1>4 DEF Send, IsCritical, e
  <2>2. Range(waiters') = Range(waiters) \cup {e}
    BY <1>2, <1>3, <2>1, AppendRange
  <2>3. QED
    BY <1>1, <2>1, <2>2 DEF e
<1>5. CASE ~IsCritical(e)
  <2>1. TrySend(e)
    BY <1>1, <1>2, <1>5 DEF Send, IsCritical, e
  <2>2. waiters' = waiters /\ (ingress' = Append(ingress, e) \/ ingress' = ingress)
    BY <2>1 DEF TrySend
  <2>3. Range(ingress) \subseteq Range(ingress')
    <3>1. Range(Append(ingress, e)) = Range(ingress) \cup {e}
      BY <1>2, <1>3, AppendRange
    <3>2. CASE ingress' = Append(ingress, e)
      BY <3>1, <3>2
    <3>3. CASE ingress' = ingress
      BY <3>3
    <3>4. QED
      BY <2>2, <3>2, <3>3
  <2>4. \A f \in emitted' : IsCritical(f) => f \in emitted
    BY <1>1, <1>5 DEF e
  <2>5. QED
    BY <2>2, <2>3, <2>4
<1>6. QED
  BY <1>4, <1>5

LEMMA NextKeptInv == KeptInv /\ [Next]_vars => KeptInv'
<1> SUFFICES ASSUME KeptInv, [Next]_vars PROVE KeptInv'
  OBVIOUS
<1>0. TypeInv /\ TypeOK /\ TypeInv'
  BY NextTypeInv DEF KeptInv, TypeInv
<1>1. ASSUME NEW t \in Tasks, Emit(t) PROVE KeptInv'
  <2>1. UNCHANGED <<tasks, fanout, queue, received, took>>
    BY <1>1 DEF Emit
  <2>2. Up => /\ Range(ingress) \cup Range(waiters) \subseteq Range(ingress') \cup Range(waiters')
              /\ \A e \in emitted' : IsCritical(e) => e \in emitted \/ e \in Range(waiters')
    BY <1>1, EmitKeeps
  <2>3. CriticalKept'
    <3> SUFFICES ASSUME Up, NEW e \in emitted', NEW p \in Plugins, IsCritical(e), Owed(e, p)
                 PROVE  Kept(e, p)'
      BY <2>1 DEF CriticalKept, IsCritical, Kept, Up, Owed, tasks
    <3>1. e \in emitted => Kept(e, p)
      BY DEF KeptInv, CriticalKept, IsCritical, Kept
    <3>2. QED
      BY <2>1, <2>2, <3>1 DEF Kept, NotAtDispatcher, OnTheWay, fanout
  <2>4. phase = "loading" => \A e \in emitted' : IsCritical(e) => NotAtDispatcher(e)'
    BY <2>2 DEF KeptInv, Up, NotAtDispatcher
  <2>5. QED
    BY <1>0, <2>1, <2>3, <2>4 DEF KeptInv, Up, tasks, fanout, IsCritical
<1>2. CASE Admit
  <2>1. PICK i \in 1 .. Len(waiters) :
          ingress' = Append(ingress, waiters[i]) /\ waiters' = RemoveAt(waiters, i)
    BY <1>2 DEF Admit
  <2>2. ingress \in Seq(Event) /\ waiters \in Seq(Event) /\ waiters[i] \in Event
    BY <1>0 DEF TypeOK
  <2>3. Range(waiters) = Range(waiters') \cup {waiters[i]}
    BY SMTT(40), <2>1, <2>2, RemoveAtRange
  <2>4. Range(ingress') = Range(ingress) \cup {waiters[i]}
    BY <2>1, <2>2, AppendRange
  <2>5. \A e : NotAtDispatcher(e) <=> NotAtDispatcher(e)'
    BY <2>3, <2>4 DEF NotAtDispatcher
  <2>6. UNCHANGED <<tasks, fanout, queue, took, emitted>>
    BY <1>2 DEF Admit
  <2>7. \A e, p : OnTheWay(e, p) <=> OnTheWay(e, p)'
    BY <2>6 DEF OnTheWay, fanout
  <2>8. QED
    BY <1>0, <2>5, <2>6, <2>7 DEF KeptInv, CriticalKept, Owed, Up, IsCritical, tasks, fanout
<1>3. CASE InitPlugin
  <2>1. /\ phase = "loading" /\ phase' = "loading" /\ dispatcher' = dispatcher
        /\ UNCHANGED <<ingress, waiters, routing, next_route, queue, emitted, took>>
    BY <1>3 DEF InitPlugin, channels
  <2>2. \A p \in Plugins : handler'[p] = handler[p] \/ handler'[p] \in {"idle", "off"}
    BY <1>0, <1>3 DEF InitPlugin, TypeOK
  <2>3. \A e \in emitted : IsCritical(e) => NotAtDispatcher(e)'
    BY <2>1 DEF KeptInv, NotAtDispatcher
  <2>4. QED
    BY <1>0, <2>1, <2>2, <2>3 DEF KeptInv, CriticalKept, IsCritical, Up
<1>4. CASE SpawnDispatcher
  <2>1. /\ phase = "loading" /\ phase' = "running" /\ dispatcher' = "running"
        /\ UNCHANGED <<handler, ingress, waiters, routing, next_route, queue, emitted, took>>
    BY <1>4 DEF SpawnDispatcher, channels
  <2>2. \A e \in emitted : IsCritical(e) => NotAtDispatcher(e)'
    BY <2>1 DEF KeptInv, NotAtDispatcher
  <2>3. QED
    BY <1>0, <2>1, <2>2 DEF KeptInv, CriticalKept, IsCritical, Up
<1>5. CASE DispatchRecv
  <2>1. /\ dispatcher = "running" /\ routing = <<>> /\ ingress # <<>> /\ next_route = 1
        /\ routing' = <<Head(ingress)>> /\ ingress' = Tail(ingress)
        /\ UNCHANGED <<phase, dispatcher, handler, waiters, next_route, queue, emitted, took>>
    BY <1>5 DEF DispatchRecv, KeptInv, tasks
  <2>2. Range(ingress) = {Head(ingress)} \cup Range(ingress')
    BY <1>0, <2>1, TailRange DEF TypeOK
  <2>3. CriticalKept'
    <3> SUFFICES ASSUME Up, NEW e \in emitted, NEW p \in Plugins, IsCritical(e), Owed(e, p)
                 PROVE  Kept(e, p)'
      BY <2>1 DEF CriticalKept, IsCritical, Kept, Up, Owed
    <3>1. Kept(e, p)
      BY DEF KeptInv, CriticalKept, IsCritical, Kept
    <3>2. CASE e = Head(ingress)
      <4>1. PICK i \in 1 .. Len(Routes) : Routes[i] = p
        BY EventBusAssumption DEF Plugins, Range
      <4>2. QED
        BY <2>1, <3>2, <4>1 DEF Kept, OnTheWay
    <3>3. CASE e # Head(ingress)
      <4>1. routing # <<e>>
        BY <2>1
      <4>2. QED
        BY <2>1, <2>2, <3>1, <3>3, <4>1 DEF Kept, OnTheWay, NotAtDispatcher
    <3>4. QED
      BY <3>2, <3>3
  <2>4. phase # "loading"
    BY <2>1 DEF KeptInv
  <2>5. routing' # <<>>
    BY <2>1
  <2>6. QED
    BY <1>0, <2>1, <2>3, <2>4, <2>5 DEF KeptInv, Up
<1>6. CASE FanOut
  <2> DEFINE f == routing[1]
             q == Routes[next_route]
  <2>1. /\ routing # <<>> /\ next_route \in 1 .. Len(Routes) /\ next_route' = next_route + 1
        /\ UNCHANGED <<phase, dispatcher, handler, ingress, waiters, routing, emitted, took>>
        /\ IF handler[q] = "off" \/ f.kind \notin Subs[q] THEN Skip ELSE Deliver(f, q)
    BY <1>0, <1>6 DEF FanOut, tasks, TypeOK
  <2>2. routing = <<f>> /\ f \in Event /\ q \in Plugins
    <3>1. routing \in Seq(Event) /\ Len(routing) <= 1 /\ routing # <<>>
      BY <1>0, <2>1 DEF TypeOK
    <3>2. q \in Plugins
      BY <2>1, EventBusAssumption
    <3>3. f \in Event /\ routing = <<f>>
      BY <3>1, Singleton
    <3>4. QED
      BY <3>2, <3>3
  <2> HIDE DEF f, q
  <2>3. \A p \in Plugins : Range(queue[p]) \subseteq Range(queue'[p])
    <3>1. CASE UNCHANGED queue
      BY <3>1
    <3>2. CASE Enqueue(f, q)
      <4>1. Range(Append(queue[q], f)) = Range(queue[q]) \cup {f}
        BY <1>0, <2>2, AppendRange DEF TypeOK
      <4>2. QED
        BY <1>0, <2>2, <3>2, <4>1 DEF Enqueue, TypeOK
    <3>3. QED
      BY <2>1, <3>1, <3>2 DEF Deliver, Skip
  <2>4. Up /\ IsCritical(f) /\ Owed(f, q) => f \in Range(queue'[q])
    <3> SUFFICES ASSUME Up, IsCritical(f), Owed(f, q) PROVE f \in Range(queue'[q])
      OBVIOUS
    <3>1. Deliver(f, q) /\ handler[q] # "stopped"
      BY <2>1, <2>2 DEF Owed, KeptInv
    <3>2. Enqueue(f, q)
      BY <3>1 DEF Deliver, IsCritical
    <3>3. Range(Append(queue[q], f)) = Range(queue[q]) \cup {f}
      BY <1>0, <2>2, AppendRange DEF TypeOK
    <3>4. QED
      BY <1>0, <2>2, <3>2, <3>3 DEF Enqueue, TypeOK
  <2>5. CriticalKept'
    <3> SUFFICES ASSUME Up, NEW e \in emitted, NEW p \in Plugins, IsCritical(e), Owed(e, p)
                 PROVE  Kept(e, p)'
      BY <2>1 DEF CriticalKept, IsCritical, Kept, Up, Owed
    <3>1. Kept(e, p)
      BY DEF KeptInv, CriticalKept, IsCritical, Kept
    <3>2. CASE NotAtDispatcher(e) \/ e \in Range(queue[p]) \cup Range(took[p])
      BY <2>1, <2>3, <3>2 DEF Kept, NotAtDispatcher, OnTheWay
    <3>3. CASE routing = <<e>> /\ \E i \in next_route .. Len(Routes) : Routes[i] = p
      <4>1. PICK i \in next_route .. Len(Routes) : Routes[i] = p
        BY <3>3
      <4>2. e = f
        BY <2>2, <3>3
      <4>3. CASE i = next_route
        BY <2>4, <4>1, <4>2, <4>3 DEF Kept, OnTheWay, q
      <4>4. CASE i # next_route
        <5>1. i \in next_route' .. Len(Routes)
          BY <2>1, <4>4
        <5>2. QED
          BY <2>1, <3>3, <4>1, <5>1 DEF Kept, OnTheWay
      <4>5. QED
        BY <4>3, <4>4
    <3>4. QED
      BY <3>1, <3>2, <3>3 DEF Kept, OnTheWay
  <2>6. QED
    BY <1>0, <2>1, <2>5 DEF KeptInv, Up, NotAtDispatcher
<1>7. CASE FanOutEnds
  <2>1. /\ next_route > Len(Routes) /\ next_route' = 1
        /\ UNCHANGED <<phase, dispatcher, handler, ingress, waiters, queue, emitted, took>>
    BY <1>7 DEF FanOutEnds, tasks
  <2>2. \A i \in next_route .. Len(Routes) : FALSE
    BY <1>0, <2>1 DEF TypeOK
  <2>3. \A e, p : Kept(e, p) => Kept(e, p)'
    BY <2>1, <2>2 DEF Kept, NotAtDispatcher, OnTheWay
  <2>4. QED
    BY <1>0, <2>1, <2>3 DEF KeptInv, CriticalKept, Kept, Up, NotAtDispatcher, Owed
<1>8. CASE StopDispatcher
  BY <1>0, <1>8 DEF KeptInv, StopDispatcher, Up, CriticalKept, fanout
<1>9. ASSUME NEW q \in Plugins, Handle(q) PROVE KeptInv'
  <2>1. UNCHANGED <<phase, dispatcher, ingress, waiters, routing, next_route, emitted>>
    BY <1>9 DEF Handle, fanout
  <2>2. \A p \in Plugins : handler'[p] = handler[p] \/ (handler[p] = "idle" /\ handler'[p] = "busy")
    BY <1>0, <1>9 DEF Handle, TypeOK
  <2>3. \A p \in Plugins : Range(queue[p]) \cup Range(took[p]) \subseteq Range(queue'[p]) \cup Range(took'[p])
    <3>1. queue[q] \in Seq(Event) /\ queue[q] # <<>> /\ took[q] \in Seq(Event)
      BY <1>0, <1>9 DEF TypeOK, Handle
    <3>2. Head(queue[q]) \in Event /\ Range(queue[q]) = {Head(queue[q])} \cup Range(Tail(queue[q]))
      BY <3>1, TailRange
    <3>3. Range(Append(took[q], Head(queue[q]))) = Range(took[q]) \cup {Head(queue[q])}
      BY <3>1, <3>2, AppendRange
    <3>4. \A p \in Plugins : p # q => queue'[p] = queue[p] /\ took'[p] = took[p]
      BY <1>0, <1>9 DEF Handle, TypeOK
    <3>5. queue'[q] = Tail(queue[q]) /\ took'[q] = Append(took[q], Head(queue[q]))
      BY <1>0, <1>9 DEF Handle, TypeOK
    <3>6. QED
      BY <3>2, <3>3, <3>4, <3>5
  <2>4. \A e \in emitted, p \in Plugins : Kept(e, p) => Kept(e, p)'
    BY <2>1, <2>3 DEF Kept, NotAtDispatcher, OnTheWay
  <2>5. CriticalKept'
    <3> SUFFICES ASSUME Up, NEW e \in emitted, NEW p \in Plugins, IsCritical(e), Owed(e, p)
                 PROVE  Kept(e, p)'
      BY <2>1, <2>2 DEF CriticalKept, IsCritical, Kept, Up, Owed
    <3>1. Kept(e, p)
      BY DEF KeptInv, CriticalKept, IsCritical, Kept
    <3>2. QED
      BY <2>4, <3>1
  <2>6. QED
    BY <1>0, <2>1, <2>2, <2>5 DEF KeptInv, Up, NotAtDispatcher
<1>10. ASSUME NEW q \in Plugins, HandleReturns(q) PROVE KeptInv'
  <2>1. UNCHANGED <<phase, dispatcher, ingress, waiters, routing, next_route, queue, emitted, took>>
    BY <1>10 DEF HandleReturns, channels
  <2>2. \A p \in Plugins : handler'[p] = handler[p] \/ (handler[p] = "busy" /\ handler'[p] = "idle")
    BY <1>0, <1>10 DEF HandleReturns, TypeOK
  <2>3. \A e, p : Kept(e, p) <=> Kept(e, p)'
    BY <2>1 DEF Kept, NotAtDispatcher, OnTheWay
  <2>4. QED
    BY <1>0, <2>1, <2>2, <2>3 DEF KeptInv, CriticalKept, Kept, Up, NotAtDispatcher, Owed
<1>11. ASSUME NEW q \in Plugins, StopHandler(q) PROVE KeptInv'
  BY <1>0, <1>11 DEF KeptInv, StopHandler, Up, CriticalKept, fanout
<1>12. CASE Shutdown
  BY <1>0, <1>12 DEF KeptInv, Shutdown, Up, CriticalKept, channels
<1>13. CASE ShutdownPlugins
  BY <1>0, <1>13 DEF KeptInv, ShutdownPlugins, Up, CriticalKept, channels
<1>14. CASE UNCHANGED vars
  BY <1>0, <1>14 DEF KeptInv, vars, tasks, channels, CriticalKept, Owed, Up, NotAtDispatcher, OnTheWay
<1>15. QED
  BY <1>1, <1>2, <1>3, <1>4, <1>5, <1>6, <1>7, <1>8, <1>9, <1>10, <1>11, <1>12, <1>13, <1>14
     DEF Next

(* However small the channels and however slow the plugins, an alert,      *)
(* detection or score that was emitted is on its way to every plugin that  *)
(* subscribes to it, or has been handed to it, as long as the host is up.  *)
THEOREM CriticalNeverDropped == Spec => []CriticalKept
<1>1. KeptInv => CriticalKept
  BY DEF KeptInv
<1>2. QED
  BY <1>1, InitKeptInv, NextKeptInv, PTL DEF Spec

-----------------------------------------------------------------------------
(* Once the plugins are told to shut down every handler task is over.      *)
DownInv == TypeInv /\ (phase = "down" => \A p \in Plugins : handler[p] \in {"off", "stopped"})

LEMMA NextDownInv ==
  ASSUME DownInv, [Next]_vars
  PROVE  /\ DownInv'
         /\ phase = "down" \/ phase' = "down" =>
              took' = took /\ \A p \in Plugins : handler'[p] # "busy"
<1> DEFINE Goal == /\ phase' = "down" => \A p \in Plugins : handler'[p] \in {"off", "stopped"}
                   /\ phase = "down" \/ phase' = "down" => took' = took
                   /\ phase = "down" => phase' = "down"
<1>1. TypeInv'
  BY NextTypeInv DEF DownInv
<1>2. Goal
  <2>1. CASE UNCHANGED <<phase, handler, took>>
    BY <2>1 DEF DownInv
  <2>2. CASE InitPlugin \/ SpawnDispatcher \/ Shutdown
    BY <2>2 DEF InitPlugin, SpawnDispatcher, Shutdown
  <2>3. CASE ShutdownPlugins
    BY <2>3 DEF ShutdownPlugins
  <2>4. ASSUME NEW p \in Plugins, Handle(p) \/ HandleReturns(p) \/ StopHandler(p) PROVE Goal
    BY <2>4 DEF Handle, HandleReturns, StopHandler, DownInv
  <2>5. ASSUME NEW t \in Tasks, Emit(t) PROVE UNCHANGED <<phase, handler, took>>
    BY <2>5 DEF Emit, tasks
  <2>6. Admit \/ DispatchRecv \/ FanOut \/ FanOutEnds \/ StopDispatcher \/ UNCHANGED vars
          => UNCHANGED <<phase, handler, took>>
    BY DEF Admit, DispatchRecv, FanOut, FanOutEnds, StopDispatcher, vars, tasks
  <2>7. QED
    BY <2>1, <2>2, <2>3, <2>4, <2>5, <2>6 DEF Next
<1>3. QED
  BY <1>1, <1>2 DEF DownInv

(* Plugin::shutdown is only called when no handler runs, and none runs     *)
(* again: a plugin never handles an event after it was shut down.          *)
THEOREM ShutdownIsLast == Spec => NoHandleAfterShutdown
<1>1. Init => DownInv
  BY InitTypeInv DEF Init, DownInv
<1>2. DownInv /\ [Next]_vars => DownInv'
  BY NextDownInv
<1>3. DownInv /\ [Next]_vars =>
        [phase = "down" \/ phase' = "down" =>
           took' = took /\ \A p \in Plugins : handler'[p] # "busy"]_vars
  BY NextDownInv
<1>4. QED
  BY <1>1, <1>2, <1>3, PTL DEF Spec, NoHandleAfterShutdown

-----------------------------------------------------------------------------
(***************************************************************************)
(* One order.  Ids grow along what was received and is in the ingress,     *)
(* task by task; a waiter is its task's last event.  What a plugin took    *)
(* and has queued follows what the dispatcher received, and has nothing    *)
(* yet of the event under way if the plugin's route is still to come.      *)
(***************************************************************************)
Ascending(s) == \A i, j \in DOMAIN s : i < j /\ s[i].by = s[j].by => s[i].id < s[j].id

Follows(s, log) ==
  /\ Range(s) \subseteq Range(log)
  /\ \A i, j \in DOMAIN s : i < j => Earlier(s[i], s[j], log)

Numbered(stream, line, count) ==
  /\ \A e \in Range(stream) \cup Range(line) : e.id <= count
  /\ Ascending(stream)
  /\ \A i, j \in DOMAIN line : line[i].by = line[j].by => i = j
  /\ \A e \in Range(stream), f \in Range(line) : e.by = f.by => e.id < f.id

Lined(lines, log, way, next) ==
  /\ \A p \in Plugins : Follows(lines[p], log)
  /\ way # <<>> =>
       /\ log # <<>> /\ way[1] = log[Len(log)]
       /\ \A i \in next .. Len(Routes) : way[1] \notin Range(lines[Routes[i]])

Stream == received \o ingress
Count  == Cardinality(emitted)
Lines  == [p \in Plugins |-> took[p] \o queue[p]]

OrderInv ==
  /\ TypeInv
  /\ \A e \in emitted : e.id <= Count
  /\ Numbered(Stream, waiters, Count)
  /\ Lined(Lines, received, routing, next_route)

(* Sequences of events.                                                    *)
LEMMA AppendPlaces ==
  ASSUME NEW s \in Seq(Event), NEW x \in Event
  PROVE  /\ Append(s, x) \in Seq(Event) /\ Len(s) \in Nat /\ DOMAIN s = 1 .. Len(s)
         /\ DOMAIN Append(s, x) = 1 .. Len(s) + 1 /\ Len(Append(s, x)) = Len(s) + 1
         /\ Append(s, x)[Len(s) + 1] = x /\ \A i \in 1 .. Len(s) : Append(s, x)[i] = s[i]
         /\ \A i \in 1 .. Len(s) + 1 : i \in 1 .. Len(s) \/ i = Len(s) + 1
OBVIOUS

LEMMA InRange ==
  ASSUME NEW s \in Seq(Event)
  PROVE  /\ \A e \in Range(s) : e \in Event /\ \E i \in 1 .. Len(s) : s[i] = e
         /\ \A i \in 1 .. Len(s) : s[i] \in Range(s)
         /\ DOMAIN s = 1 .. Len(s)
<1>1. DOMAIN s = 1 .. Len(s) /\ \A i \in 1 .. Len(s) : s[i] \in Event
  OBVIOUS
<1>2. QED
  BY <1>1 DEF Range

LEMMA RangeOfConcat ==
  ASSUME NEW s \in Seq(Event), NEW t \in Seq(Event)
  PROVE  Range(s \o t) = Range(s) \cup Range(t)
<1>1. s \o t \in Seq(Event) /\ Range(s) \cup Range(t) \subseteq Range(s \o t)
  BY ConcatRange
<1>2. Range(s \o t) \subseteq Range(s) \cup Range(t)
  <2> SUFFICES ASSUME NEW i \in 1 .. Len(s) + Len(t) PROVE (s \o t)[i] \in Range(s) \cup Range(t)
    <3>1. DOMAIN (s \o t) = 1 .. Len(s) + Len(t)
      BY ConcatPlaces
    <3>2. QED
      BY <3>1 DEF Range
  <2>1. CASE i \in 1 .. Len(s)
    BY <2>1, ConcatPlaces, InRange
  <2>2. CASE i - Len(s) \in 1 .. Len(t)
    <3>1. i = Len(s) + (i - Len(s))
      OBVIOUS
    <3>2. (s \o t)[Len(s) + (i - Len(s))] = t[i - Len(s)]
      BY <2>2, ConcatPlaces
    <3>3. QED
      BY <2>2, <3>1, <3>2, InRange
  <2>3. QED
    BY <2>1, <2>2, ConcatPlaces
<1>3. QED
  BY <1>1, <1>2

LEMMA AscendingAppend ==
  ASSUME NEW s \in Seq(Event), NEW x \in Event, Ascending(s),
         \A e \in Range(s) : e.by = x.by => e.id < x.id
  PROVE  Ascending(Append(s, x))
<1> SUFFICES ASSUME NEW i \in 1 .. Len(s) + 1, NEW j \in 1 .. Len(s) + 1, i < j,
                    Append(s, x)[i].by = Append(s, x)[j].by
             PROVE  Append(s, x)[i].id < Append(s, x)[j].id
  BY AppendPlaces DEF Ascending
<1>1. i \in 1 .. Len(s) /\ Append(s, x)[i] = s[i]
  BY AppendPlaces
<1>2. CASE j \in 1 .. Len(s)
  BY <1>1, <1>2, AppendPlaces DEF Ascending
<1>3. CASE j = Len(s) + 1
  <2>1. s[i] \in Range(s) /\ Append(s, x)[j] = x
    BY <1>1, <1>3, InRange, AppendPlaces
  <2>2. QED
    BY <1>1, <2>1
<1>4. QED
  BY <1>2, <1>3, AppendPlaces

LEMMA AscendingPrefix ==
  ASSUME NEW s \in Seq(Event), NEW t \in Seq(Event), Ascending(s \o t)
  PROVE  Ascending(s)
<1> SUFFICES ASSUME NEW i \in 1 .. Len(s), NEW j \in 1 .. Len(s), i < j, s[i].by = s[j].by
             PROVE  s[i].id < s[j].id
  BY InRange DEF Ascending
<1>1. (s \o t)[i] = s[i] /\ (s \o t)[j] = s[j]
  BY ConcatPlaces
<1>2. i \in DOMAIN (s \o t) /\ j \in DOMAIN (s \o t)
  <2>1. DOMAIN (s \o t) = 1 .. Len(s) + Len(t)
    BY ConcatPlaces
  <2>2. Len(s) \in Nat /\ Len(t) \in Nat
    OBVIOUS
  <2>3. QED
    BY <2>1, <2>2
<1>3. QED
  BY <1>1, <1>2 DEF Ascending

LEMMA FollowsLonger ==
  ASSUME NEW s, NEW log \in Seq(Event), NEW x \in Event, Follows(s, log)
  PROVE  Follows(s, Append(log, x))
<1>1. Range(s) \subseteq Range(Append(log, x))
  BY AppendRange DEF Follows
<1>2. ASSUME NEW e, NEW f, Earlier(e, f, log) PROVE Earlier(e, f, Append(log, x))
  <2>1. PICK i, j \in DOMAIN log : i < j /\ log[i] = e /\ log[j] = f
    BY <1>2 DEF Earlier
  <2>2. /\ i \in DOMAIN Append(log, x) /\ j \in DOMAIN Append(log, x)
        /\ Append(log, x)[i] = e /\ Append(log, x)[j] = f
    BY <2>1, AppendPlaces
  <2>3. QED
    BY <2>1, <2>2 DEF Earlier
<1>3. QED
  BY <1>1, <1>2 DEF Follows

LEMMA FollowsAppend ==
  ASSUME NEW s \in Seq(Event), NEW log \in Seq(Event), log # <<>>, Follows(s, log),
         log[Len(log)] \notin Range(s)
  PROVE  Follows(Append(s, log[Len(log)]), log)
<1> DEFINE x == log[Len(log)]
<1>1. x \in Event /\ Len(log) \in DOMAIN log /\ x \in Range(log)
  <2>1. Len(log) \in 1 .. Len(log)
    OBVIOUS
  <2>2. QED
    BY <2>1, InRange
<1>2. \A i \in DOMAIN log : i < Len(log) \/ i = Len(log)
  OBVIOUS
<1> HIDE DEF x
<1>3. Range(Append(s, x)) \subseteq Range(log)
  BY <1>1, AppendRange DEF Follows
<1>4. ASSUME NEW i \in 1 .. Len(s) + 1, NEW j \in 1 .. Len(s) + 1, i < j
      PROVE  Earlier(Append(s, x)[i], Append(s, x)[j], log)
  <2>1. i \in 1 .. Len(s) /\ Append(s, x)[i] = s[i]
    BY <1>1, <1>4, AppendPlaces
  <2>2. CASE j \in 1 .. Len(s)
    BY <1>1, <1>4, <2>1, <2>2, AppendPlaces DEF Follows
  <2>3. CASE j = Len(s) + 1
    <3>1. Append(s, x)[j] = x
      BY <1>1, <2>3, AppendPlaces
    <3>2. s[i] \in Range(s)
      BY <2>1, InRange
    <3>3. PICK k \in DOMAIN log : log[k] = s[i]
      BY <3>2, InRange DEF Follows
    <3>4. k < Len(log)
      BY <1>2, <3>2, <3>3
    <3>5. log[Len(log)] = x
      BY DEF x
    <3>6. QED
      BY <1>1, <2>1, <3>1, <3>3, <3>4, <3>5 DEF Earlier
  <2>4. QED
    BY <1>1, <2>2, <2>3, AppendPlaces
<1>5. QED
  BY <1>1, <1>3, <1>4, AppendPlaces DEF Follows, x

LEMMA FollowsPrefix ==
  ASSUME NEW s \in Seq(Event), NEW t \in Seq(Event), NEW log, Follows(s \o t, log)
  PROVE  Follows(s, log)
<1>1. Range(s) \subseteq Range(log)
  BY RangeOfConcat DEF Follows
<1>2. \A i \in DOMAIN s : i \in DOMAIN (s \o t) /\ (s \o t)[i] = s[i]
  <2>1. DOMAIN (s \o t) = 1 .. Len(s) + Len(t) /\ \A i \in 1 .. Len(s) : (s \o t)[i] = s[i]
    BY ConcatPlaces
  <2>2. Len(s) \in Nat /\ Len(t) \in Nat /\ DOMAIN s = 1 .. Len(s)
    OBVIOUS
  <2>3. QED
    BY <2>1, <2>2
<1>3. QED
  BY <1>1, <1>2 DEF Follows

LEMMA Ids ==
  /\ \A e \in Event : e.id \in Nat
  /\ \A s \in Seq(Event) : \A e \in Range(s) : e.id \in Nat
<1>1. \A e \in Event : e.id \in Nat
  BY EventBusAssumption DEF Event
<1>2. QED
  BY <1>1, InRange

(* The two ways of an emission, the admission of a waiter, and the end.    *)
LEMMA NumberedStream ==
  ASSUME NEW stream \in Seq(Event), NEW line \in Seq(Event), NEW x \in Event, NEW count \in Nat,
         Numbered(stream, line, count), count < x.id, \A f \in Range(line) : f.by # x.by
  PROVE  Numbered(Append(stream, x), line, x.id)
<1>1. \A e \in Range(stream) \cup Range(line) : e.id \in Nat /\ e.id < x.id
  BY Ids DEF Numbered
<1>2. Range(Append(stream, x)) = Range(stream) \cup {x} /\ x.id \in Nat
  BY AppendRange, Ids
<1>3. Ascending(Append(stream, x))
  BY <1>1, AscendingAppend DEF Numbered
<1>4. \A e \in Range(Append(stream, x)) \cup Range(line) : e.id <= x.id
  BY <1>1, <1>2
<1>5. QED
  BY <1>2, <1>3, <1>4 DEF Numbered

LEMMA NumberedWait ==
  ASSUME NEW stream \in Seq(Event), NEW line \in Seq(Event), NEW x \in Event, NEW count \in Nat,
         Numbered(stream, line, count), count < x.id, \A f \in Range(line) : f.by # x.by
  PROVE  Numbered(stream, Append(line, x), x.id)
<1>1. \A e \in Range(stream) \cup Range(line) : e.id \in Nat /\ e.id < x.id
  BY Ids DEF Numbered
<1>2. Range(Append(line, x)) = Range(line) \cup {x} /\ x.id \in Nat
  BY AppendRange, Ids
<1>3. \A i, j \in DOMAIN Append(line, x) :
        Append(line, x)[i].by = Append(line, x)[j].by => i = j
  <2>1. \A i \in 1 .. Len(line) : line[i].by # x.by
    BY InRange
  <2>2. QED
    BY <2>1, AppendPlaces DEF Numbered
<1>4. \A e \in Range(stream) \cup Range(Append(line, x)) : e.id <= x.id
  BY <1>1, <1>2
<1>5. \A e \in Range(stream), f \in Range(Append(line, x)) : e.by = f.by => e.id < f.id
  BY <1>1, <1>2 DEF Numbered
<1>6. QED
  BY <1>3, <1>4, <1>5 DEF Numbered

LEMMA NumberedMore ==
  ASSUME NEW stream \in Seq(Event), NEW line \in Seq(Event), NEW count \in Nat, NEW more \in Nat,
         Numbered(stream, line, count), count <= more
  PROVE  Numbered(stream, line, more)
<1>1. \A e \in Range(stream) \cup Range(line) : e.id \in Nat
  BY Ids
<1>2. \A e \in Range(stream) \cup Range(line) : e.id <= more
  BY <1>1 DEF Numbered
<1>3. QED
  BY <1>2 DEF Numbered

LEMMA NumberedAdmit ==
  ASSUME NEW stream \in Seq(Event), NEW line \in Seq(Event), NEW count,
         Numbered(stream, line, count), NEW i \in 1 .. Len(line)
  PROVE  Numbered(Append(stream, line[i]), RemoveAt(line, i), count)
<1> DEFINE x == line[i]
           rest == RemoveAt(line, i)
<1>1. x \in Event /\ x \in Range(line)
  BY InRange
<1>2. /\ rest \in Seq(Event) /\ Range(line) = Range(rest) \cup {x} /\ DOMAIN rest = 1 .. Len(line) - 1
      /\ \A j \in 1 .. i - 1 : rest[j] = line[j]
      /\ \A j \in i .. Len(line) - 1 : rest[j] = line[j + 1]
  BY RemoveAtRange
<1>3. \A j \in 1 .. Len(line) - 1 : \E k \in 1 .. Len(line) :
        rest[j] = line[k] /\ k # i /\ k = IF j < i THEN j ELSE j + 1
  <2> TAKE j \in 1 .. Len(line) - 1
  <2>1. CASE j < i
    <3>1. j \in 1 .. i - 1 /\ j \in 1 .. Len(line)
      BY <2>1
    <3>2. QED
      BY <1>2, <2>1, <3>1
  <2>2. CASE ~(j < i)
    <3>1. j \in i .. Len(line) - 1 /\ j + 1 \in 1 .. Len(line) /\ j + 1 # i
      BY <2>2
    <3>2. QED
      BY <1>2, <2>2, <3>1
  <2>3. QED
    BY <2>1, <2>2
<1>4. \A j, k \in DOMAIN line : line[j].by = line[k].by => j = k
  BY DEF Numbered
<1>5. DOMAIN line = 1 .. Len(line)
  BY InRange
<1> HIDE DEF rest
<1>6. \A j, k \in DOMAIN rest : rest[j].by = rest[k].by => j = k
  <2> SUFFICES ASSUME NEW j \in 1 .. Len(line) - 1, NEW k \in 1 .. Len(line) - 1,
                      rest[j].by = rest[k].by
               PROVE  j = k
    BY <1>2
  <2>1. PICK m \in 1 .. Len(line) : rest[j] = line[m] /\ m = IF j < i THEN j ELSE j + 1
    BY <1>3
  <2>2. PICK n \in 1 .. Len(line) : rest[k] = line[n] /\ n = IF k < i THEN k ELSE k + 1
    BY <1>3
  <2>3. m = n
    BY <1>4, <1>5, <2>1, <2>2
  <2>4. QED
    BY <2>1, <2>2, <2>3
<1>7. \A f \in Range(rest) : f.by # x.by
  <2> SUFFICES ASSUME NEW j \in 1 .. Len(line) - 1 PROVE rest[j].by # x.by
    <3> SUFFICES ASSUME NEW f \in Range(rest) PROVE f.by # x.by
      OBVIOUS
    <3>1. PICK j \in 1 .. Len(line) - 1 : rest[j] = f
      BY Zenon, <1>2 DEF Range
    <3>2. QED
      BY Zenon, <3>1
  <2>1. PICK m \in 1 .. Len(line) : rest[j] = line[m] /\ m # i
    BY <1>3
  <2>2. QED
    BY <1>4, <1>5, <2>1
<1> HIDE DEF x
<1>8. Range(Append(stream, x)) = Range(stream) \cup {x}
  BY <1>1, AppendRange
<1>9. Ascending(Append(stream, x))
  BY <1>1, AscendingAppend DEF Numbered
<1>10. QED
  BY <1>1, <1>2, <1>6, <1>7, <1>8, <1>9 DEF Numbered, x, rest

LEMMA NumberedPrefix ==
  ASSUME NEW s \in Seq(Event), NEW t \in Seq(Event), NEW line, NEW count,
         Numbered(s \o t, line, count)
  PROVE  Numbered(s, <<>>, count)
<1>1. Ascending(s)
  BY AscendingPrefix DEF Numbered
<1>2. Range(s) \subseteq Range(s \o t)
  BY RangeOfConcat
<1>3. Range(<<>>) = {} /\ DOMAIN <<>> = {}
  BY DEF Range
<1>4. QED
  BY <1>1, <1>2, <1>3 DEF Numbered

(* The types of what is followed.                                          *)
LEMMA OrderTypes ==
  ASSUME TypeInv
  PROVE  /\ received \in Seq(Event) /\ ingress \in Seq(Event) /\ waiters \in Seq(Event)
         /\ Stream \in Seq(Event) /\ Count \in Nat /\ Lines \in [Plugins -> Seq(Event)]
         /\ \A p \in Plugins : took[p] \in Seq(Event) /\ queue[p] \in Seq(Event)
<1>1. received \in Seq(Event) /\ ingress \in Seq(Event) /\ waiters \in Seq(Event)
  BY DEF TypeInv, TypeOK
<1>2. \A p \in Plugins : took[p] \in Seq(Event) /\ queue[p] \in Seq(Event)
  BY DEF TypeInv, TypeOK
<1>3. Stream \in Seq(Event)
  BY <1>1, ConcatPlaces DEF Stream
<1>4. Count \in Nat
  BY FS_CardinalityType DEF Count, TypeInv
<1>5. \A p \in Plugins : took[p] \o queue[p] \in Seq(Event)
  BY <1>2, ConcatPlaces
<1>6. QED
  BY <1>1, <1>2, <1>3, <1>4, <1>5 DEF Lines

LEMMA OrderEmit ==
  ASSUME OrderInv, NEW t \in Tasks, Emit(t)
  PROVE  /\ \A e \in emitted' : e.id <= Count'
         /\ Numbered(Stream', waiters', Count')
         /\ UNCHANGED <<Lines, received, routing, next_route>>
<1>0. UNCHANGED <<fanout, queue, received, took>>
  BY DEF Emit
<1>t. /\ received \in Seq(Event) /\ ingress \in Seq(Event) /\ waiters \in Seq(Event)
      /\ Stream \in Seq(Event) /\ Count \in Nat
  BY OrderTypes DEF OrderInv
<1>1. PICK k \in Emits[t] :
        LET e == [id |-> Cardinality(emitted) + 1, by |-> t, kind |-> k]
        IN Send(e) /\ emitted' = emitted \cup {e}
  BY DEF Emit
<1> DEFINE x == [id |-> Count + 1, by |-> t, kind |-> k]
<1>2. Send(x) /\ emitted' = emitted \cup {x} /\ x.id = Count + 1 /\ x.by = t
  BY <1>1 DEF Count
<1>3. x \in Event
  <2>1. Count + 1 \in 1 .. MaxEvents
    BY <1>t, EventBusAssumption DEF Emit, Count
  <2>2. QED
    BY <2>1, EventBusAssumption DEF Event
<1> HIDE DEF x
<1>4. x \notin emitted
  <2>1. ~(x.id <= Count)
    BY <1>2, <1>t
  <2>2. QED
    BY <2>1 DEF OrderInv
<1>5. Count' = Count + 1
  BY <1>2, <1>4, FS_AddElement DEF Count, OrderInv, TypeInv
<1>6. \A e \in emitted' : e.id <= Count'
  <2>1. \A e \in emitted : e.id \in Nat
    BY DEF OrderInv, TypeInv, TypeOK, Event
  <2>2. QED
    BY <1>2, <1>5, <1>t, <2>1 DEF OrderInv
<1>7. \A f \in Range(waiters) : f.by # x.by
  BY <1>2 DEF Emit, MayEmit, Waiting
<1>8. Numbered(Stream, waiters, Count) /\ Count < x.id
  BY <1>2, <1>t DEF OrderInv
<1>9. Numbered(Stream', waiters', Count')
  <2>1. CASE UNCHANGED <<ingress, waiters>>
    <3>1. Stream' = Stream
      BY <1>0, <2>1 DEF Stream
    <3>2. QED
      BY <1>5, <1>8, <1>t, <2>1, <3>1, NumberedMore
  <2>2. CASE waiters' = Append(waiters, x) /\ UNCHANGED ingress
    <3>1. Stream' = Stream
      BY <1>0, <2>2 DEF Stream
    <3>2. QED
      BY <1>2, <1>3, <1>5, <1>7, <1>8, <1>t, <2>2, <3>1, NumberedWait
  <2>3. CASE ingress' = Append(ingress, x) /\ UNCHANGED waiters
    <3>1. Stream' = Append(Stream, x)
      <4>1. received \o Append(ingress, x) = Append(received \o ingress, x)
        BY <1>3, <1>t, ConcatMoves
      <4>2. QED
        BY <1>0, <2>3, <4>1 DEF Stream
    <3>2. QED
      BY <1>2, <1>3, <1>5, <1>7, <1>8, <1>t, <2>3, <3>1, NumberedStream
  <2>4. QED
    BY <1>2, <2>1, <2>2, <2>3 DEF Send, TrySend
<1>10. QED
  BY <1>0, <1>6, <1>9 DEF Lines, fanout

LEMMA OrderAdmit ==
  ASSUME OrderInv, Admit
  PROVE  Numbered(Stream', waiters', Count)
<1>t. received \in Seq(Event) /\ ingress \in Seq(Event) /\ waiters \in Seq(Event) /\ Stream \in Seq(Event)
  BY OrderTypes DEF OrderInv
<1>1. PICK i \in 1 .. Len(waiters) :
        ingress' = Append(ingress, waiters[i]) /\ waiters' = RemoveAt(waiters, i)
  BY DEF Admit
<1>2. received' = received /\ waiters[i] \in Event
  BY <1>t DEF Admit
<1>3. Stream' = Append(Stream, waiters[i])
  <2>1. received \o Append(ingress, waiters[i]) = Append(received \o ingress, waiters[i])
    BY SMTT(40), <1>2, <1>t, ConcatMoves
  <2>2. QED
    BY <1>1, <1>2, <2>1 DEF Stream
<1>4. Numbered(Append(Stream, waiters[i]), RemoveAt(waiters, i), Count)
  BY <1>t, NumberedAdmit DEF OrderInv
<1>5. QED
  BY <1>1, <1>3, <1>4

LEMMA OrderRecv ==
  ASSUME OrderInv, DispatchRecv
  PROVE  /\ UNCHANGED <<Stream, waiters, emitted>>
         /\ Lined(Lines', received', routing', next_route')
<1> DEFINE x == Head(ingress)
<1>t. /\ received \in Seq(Event) /\ ingress \in Seq(Event) /\ ingress # <<>>
      /\ Stream \in Seq(Event) /\ Lines \in [Plugins -> Seq(Event)]
  BY OrderTypes DEF OrderInv, DispatchRecv
<1>0. /\ routing' = <<x>> /\ ingress' = Tail(ingress) /\ received' = Append(received, x)
      /\ UNCHANGED <<waiters, emitted, queue, took>>
  BY DEF DispatchRecv
<1>1. x \in Event
  BY <1>t, TailRange
<1>2. Stream' = Stream
  <2>1. Append(received, Head(ingress)) \o Tail(ingress) = received \o ingress
    BY <1>t, ConcatMoves
  <2>2. QED
    BY <1>0, <2>1 DEF Stream
<1>3. Lines' = Lines
  BY <1>0 DEF Lines
<1> HIDE DEF x
<1>4. x \notin Range(received)
  <2> SUFFICES ASSUME NEW i \in 1 .. Len(received), received[i] = x PROVE FALSE
    BY <1>t, InRange
  <2>1. Ascending(Append(received, x))
    <3>1. Append(received, x) \in Seq(Event) /\ Tail(ingress) \in Seq(Event)
      BY <1>1, <1>t, AppendRange, TailRange
    <3>2. Ascending(Append(received, x) \o Tail(ingress))
      BY <1>0, <1>2 DEF OrderInv, Numbered, Stream
    <3>3. QED
      BY <3>1, <3>2, AscendingPrefix
  <2>2. /\ Append(received, x)[i] = x /\ Append(received, x)[Len(received) + 1] = x
        /\ i \in DOMAIN Append(received, x) /\ Len(received) + 1 \in DOMAIN Append(received, x)
        /\ i < Len(received) + 1
    BY <1>1, <1>t, AppendPlaces
  <2>3. x.id < x.id
    BY <2>1, <2>2 DEF Ascending
  <2>4. QED
    BY <1>1, <2>3, Ids
<1>5. ASSUME NEW p \in Plugins PROVE Follows(Lines[p], received') /\ x \notin Range(Lines[p])
  <2>1. Follows(Lines[p], received)
    BY DEF OrderInv, Lined
  <2>2. QED
    BY <1>0, <1>1, <1>4, <1>t, <2>1, FollowsLonger DEF Follows
<1>6. received' # <<>> /\ received'[Len(received')] = x /\ routing'[1] = x
  <2>1. Len(received') = Len(received) + 1 /\ received'[Len(received) + 1] = x
    BY <1>0, <1>1, <1>t, AppendPlaces
  <2>2. received' # <<>>
    <3>1. Len(received') # 0
      <4>1. Len(received) \in Nat
        BY Zenon, <1>t, LenProperties
      <4>2. QED
        BY <2>1, <4>1
    <3>2. QED
      BY Zenon, <3>1, EmptySeq
  <2>3. routing'[1] = x
    BY <1>0
  <2>4. QED
    BY Zenon, <2>1, <2>2, <2>3
<1>7. \A i \in next_route' .. Len(Routes) : x \notin Range(Lines[Routes[i]])
  <2>1. Routes \in Seq(Plugins) /\ Len(Routes) \in Nat
    BY Zenon, EventBusAssumption, LenProperties
  <2>2. \A i \in next_route' .. Len(Routes) : Routes[i] \in Plugins
    <3>1. next_route \in 1 .. Len(Routes) + 1 /\ next_route' = next_route
      BY Zenon DEF DispatchRecv, OrderInv, TypeInv, TypeOK
    <3>2. \A i \in next_route' .. Len(Routes) : i \in 1 .. Len(Routes)
      BY <2>1, <3>1
    <3>3. QED
      BY Zenon, <2>1, <3>2, ElementOfSeq
  <2>3. QED
    BY <1>5, <2>2
<1>8. QED
  BY <1>0, <1>2, <1>3, <1>5, <1>6, <1>7 DEF Lined

LEMMA OrderFanOut ==
  ASSUME OrderInv, FanOut
  PROVE  /\ UNCHANGED <<Stream, waiters, emitted>>
         /\ Lined(Lines', received', routing', next_route')
<1> DEFINE x == routing[1]
           p == Routes[next_route]
<1>t. /\ received \in Seq(Event) /\ Lines \in [Plugins -> Seq(Event)]
      /\ \A q \in Plugins : took[q] \in Seq(Event) /\ queue[q] \in Seq(Event)
      /\ next_route \in 1 .. Len(Routes) /\ Len(Routes) \in Nat
      /\ queue \in [Plugins -> Seq(Event)]
  <2>1. TypeInv /\ Len(Routes) \in Nat
    BY EventBusAssumption DEF OrderInv
  <2>2. next_route \in 1 .. Len(Routes)
    BY <2>1 DEF FanOut, TypeInv, TypeOK
  <2>3. queue \in [Plugins -> Seq(Event)]
    BY <2>1 DEF TypeInv, TypeOK
  <2>4. QED
    BY <2>1, <2>2, <2>3, OrderTypes
<1>0. /\ routing' = routing /\ routing # <<>> /\ next_route' = next_route + 1
      /\ UNCHANGED <<received, ingress, waiters, emitted, took>>
      /\ (Skip \/ Deliver(x, p))
  BY DEF FanOut
<1>1. /\ received # <<>> /\ x = received[Len(received)]
      /\ \A i \in next_route .. Len(Routes) : x \notin Range(Lines[Routes[i]])
  BY <1>0 DEF OrderInv, Lined
<1>2. p \in Plugins /\ \A i \in next_route + 1 .. Len(Routes) : Routes[i] \in Plugins /\ Routes[i] # p
  <2>1. \A i \in 1 .. Len(Routes) : Routes[i] \in Plugins
    BY EventBusAssumption
  <2>2. \A i, j \in 1 .. Len(Routes) : Routes[i] = Routes[j] => i = j
    BY EventBusAssumption DEF IsInjective
  <2>3. QED
    BY <1>t, <2>1, <2>2
<1>3. x \in Event
  <2>1. Len(received) \in 1 .. Len(received)
    BY <1>1, <1>t
  <2>2. QED
    BY <1>1, <1>t, <2>1
<1> HIDE DEF x, p
<1>4. x \notin Range(Lines[p])
  BY <1>1, <1>t DEF p
<1>5. CASE UNCHANGED queue
  <2>1. Lines' = Lines
    BY <1>0, <1>5 DEF Lines
  <2>2. \A i \in next_route + 1 .. Len(Routes) : i \in next_route .. Len(Routes)
    BY <1>t
  <2>3. QED
    BY <1>0, <1>1, <2>1, <2>2 DEF OrderInv, Lined, Stream, x
<1>6. CASE Enqueue(x, p)
  <2>1. queue' = [queue EXCEPT ![p] = Append(queue[p], x)]
    BY <1>6 DEF Enqueue
  <2>2. Lines'[p] = Append(Lines[p], x)
    <3>1. took[p] \o Append(queue[p], x) = Append(took[p] \o queue[p], x)
      BY ZenonT(60), <1>2, <1>3, <1>t, ConcatMoves
    <3>2. Lines'[p] = took'[p] \o queue'[p] /\ Lines[p] = took[p] \o queue[p]
      BY <1>2 DEF Lines
    <3>3. QED
      BY <1>0, <1>2, <1>t, <2>1, <3>1, <3>2
  <2>3. \A q \in Plugins \ {p} : Lines'[q] = Lines[q]
    <3>1. \A q \in Plugins \ {p} : queue'[q] = queue[q]
      BY <1>t, <2>1
    <3>2. QED
      BY <1>0, <3>1 DEF Lines
  <2>4. Follows(Lines'[p], received)
    <3>1. Follows(Lines[p], received) /\ Lines[p] \in Seq(Event)
      BY <1>2, <1>t DEF OrderInv, Lined
    <3>2. QED
      BY <1>1, <1>4, <1>t, <2>2, <3>1, FollowsAppend
  <2>5. \A q \in Plugins : Follows(Lines'[q], received)
    BY <2>3, <2>4 DEF OrderInv, Lined
  <2>6. \A i \in next_route + 1 .. Len(Routes) : x \notin Range(Lines'[Routes[i]])
    <3>1. \A i \in next_route + 1 .. Len(Routes) : i \in next_route .. Len(Routes)
      BY <1>t
    <3>2. QED
      BY <1>1, <1>2, <2>3, <3>1
  <2>7. QED
    BY <1>0, <1>1, <2>5, <2>6 DEF Lined, Stream, x
<1>7. QED
  BY <1>0, <1>5, <1>6 DEF Skip, Deliver

LEMMA OrderHandle ==
  ASSUME OrderInv, NEW p \in Plugins, Handle(p)
  PROVE  UNCHANGED <<Stream, waiters, emitted, Lines, received, routing, next_route>>
<1>t. /\ queue \in [Plugins -> Seq(Event)] /\ took \in [Plugins -> Seq(Event)]
  BY DEF OrderInv, TypeInv, TypeOK
<1>0. /\ took' = [took EXCEPT ![p] = Append(took[p], Head(queue[p]))]
      /\ queue' = [queue EXCEPT ![p] = Tail(queue[p])]
      /\ queue[p] # <<>> /\ UNCHANGED <<ingress, waiters, fanout, emitted, received>>
  BY DEF Handle
<1>1. Append(took[p], Head(queue[p])) \o Tail(queue[p]) = took[p] \o queue[p]
  <2>1. took[p] \in Seq(Event) /\ queue[p] \in Seq(Event) /\ queue[p] # <<>>
    BY <1>0, <1>t
  <2>2. QED
    BY <2>1, ConcatMoves
<1>2. ASSUME NEW q \in Plugins PROVE took'[q] \o queue'[q] = took[q] \o queue[q]
  <2>1. CASE q = p
    <3>1. took'[p] = Append(took[p], Head(queue[p])) /\ queue'[p] = Tail(queue[p])
      BY <1>0, <1>t
    <3>2. QED
      BY <1>1, <2>1, <3>1
  <2>2. CASE q # p
    BY <1>0, <1>t, <2>2
  <2>3. QED
    BY <2>1, <2>2
<1>3. Lines' = Lines
  BY <1>2 DEF Lines
<1>4. QED
  BY <1>0, <1>3 DEF Stream, fanout

LEMMA OrderStopHandler ==
  ASSUME OrderInv, NEW p \in Plugins, StopHandler(p)
  PROVE  /\ UNCHANGED <<Stream, waiters, emitted>>
         /\ Lined(Lines', received', routing', next_route')
<1>t. /\ queue \in [Plugins -> Seq(Event)] /\ took \in [Plugins -> Seq(Event)]
      /\ next_route \in 1 .. Len(Routes) + 1 /\ Len(Routes) \in Nat
  BY EventBusAssumption DEF OrderInv, TypeInv, TypeOK
<1>0. /\ queue' = [queue EXCEPT ![p] = <<>>]
      /\ UNCHANGED <<ingress, waiters, fanout, emitted, received, took>>
  BY DEF StopHandler
<1>1. Lines'[p] = took[p]
  <2>1. Lines'[p] = took'[p] \o queue'[p]
    BY DEF Lines
  <2>2. queue'[p] = <<>> /\ took'[p] = took[p] /\ took[p] \in Seq(Event)
    BY <1>0, <1>t
  <2>3. QED
    BY <2>1, <2>2
<1>2. \A q \in Plugins \ {p} : Lines'[q] = Lines[q]
  <2>1. \A q \in Plugins \ {p} : queue'[q] = queue[q]
    BY <1>0, <1>t
  <2>2. \A q \in Plugins : Lines'[q] = took'[q] \o queue'[q] /\ Lines[q] = took[q] \o queue[q]
    BY DEF Lines
  <2>3. took' = took
    BY <1>0
  <2>4. QED
    BY <2>1, <2>2, <2>3
<1>3. Lines[p] = took[p] \o queue[p]
  BY DEF Lines
<1>4. Follows(Lines'[p], received) /\ Range(Lines'[p]) \subseteq Range(Lines[p])
  <2>1. Follows(took[p] \o queue[p], received)
    BY <1>3 DEF OrderInv, Lined
  <2>2. Follows(took[p], received)
    BY <1>t, <2>1, FollowsPrefix
  <2>3. Range(took[p]) \subseteq Range(took[p] \o queue[p])
    BY <1>t, RangeOfConcat
  <2>4. QED
    BY <1>1, <1>3, <2>2, <2>3
<1>5. \A q \in Plugins : Follows(Lines'[q], received) /\ Range(Lines'[q]) \subseteq Range(Lines[q])
  BY <1>2, <1>4 DEF OrderInv, Lined
<1>6. \A i \in next_route .. Len(Routes) : Routes[i] \in Plugins
  BY <1>t, EventBusAssumption
<1>7. routing # <<>> => \A i \in next_route .. Len(Routes) : routing[1] \notin Range(Lines'[Routes[i]])
  BY <1>5, <1>6 DEF OrderInv, Lined
<1>8. QED
  BY <1>0, <1>5, <1>7 DEF Lined, OrderInv, Stream, fanout

LEMMA NextOrderInv == OrderInv /\ [Next]_vars => OrderInv'
<1> SUFFICES ASSUME OrderInv, [Next]_vars PROVE OrderInv'
  OBVIOUS
<1>0. TypeInv'
  BY NextTypeInv DEF OrderInv
<1>s. ASSUME UNCHANGED <<Stream, waiters, emitted>>, Lined(Lines', received', routing', next_route')
      PROVE  OrderInv'
  BY <1>0, <1>s DEF OrderInv, Count
<1>1. ASSUME NEW t \in Tasks, Emit(t) PROVE OrderInv'
  BY <1>0, <1>1, OrderEmit DEF OrderInv
<1>2. CASE Admit
  <2>1. UNCHANGED <<emitted, received, routing, next_route, took, queue>>
    BY <1>2 DEF Admit, fanout
  <2>2. QED
    BY <1>0, <1>2, <2>1, OrderAdmit DEF OrderInv, Count, Lines
<1>3. CASE InitPlugin \/ SpawnDispatcher \/ Shutdown \/ ShutdownPlugins \/ UNCHANGED vars
           \/ \E p \in Plugins : HandleReturns(p)
  BY <1>3, <1>s DEF InitPlugin, SpawnDispatcher, Shutdown, ShutdownPlugins, HandleReturns, vars,
                    channels, OrderInv, Stream, Lines
<1>4. CASE DispatchRecv
  BY <1>4, <1>s, OrderRecv
<1>5. CASE FanOut
  BY <1>5, <1>s, OrderFanOut
<1>6. CASE FanOutEnds
  BY <1>6, <1>s DEF FanOutEnds, OrderInv, Lined, Stream, Lines
<1>7. CASE StopDispatcher
  <2>1. /\ waiters' = <<>> /\ ingress' = <<>> /\ routing = <<>>
        /\ UNCHANGED <<emitted, received, routing, next_route, took, queue>>
    BY <1>7 DEF StopDispatcher, fanout
  <2>2. received \in Seq(Event) /\ ingress \in Seq(Event)
    BY OrderTypes DEF OrderInv
  <2>3. Stream' = received
    BY <2>1, <2>2 DEF Stream
  <2>4. Numbered(Stream', waiters', Count')
    BY <2>1, <2>2, <2>3, NumberedPrefix DEF OrderInv, Stream, Count
  <2>5. QED
    BY <1>0, <2>1, <2>4 DEF OrderInv, Count, Lines
<1>8. ASSUME NEW p \in Plugins, Handle(p) \/ StopHandler(p) PROVE OrderInv'
  <2>1. CASE Handle(p)
    BY <1>s, <2>1, OrderHandle DEF OrderInv
  <2>2. CASE StopHandler(p)
    BY <1>s, <2>2, OrderStopHandler
  <2>3. QED
    BY <1>8, <2>1, <2>2
<1>9. QED
  BY <1>1, <1>2, <1>3, <1>4, <1>5, <1>6, <1>7, <1>8 DEF Next

LEMMA InitOrderInv == Init => OrderInv
<1> SUFFICES ASSUME Init PROVE OrderInv
  OBVIOUS
<1>1. /\ received = <<>> /\ ingress = <<>> /\ waiters = <<>> /\ routing = <<>> /\ emitted = {}
      /\ took = [p \in Plugins |-> <<>>] /\ queue = [p \in Plugins |-> <<>>]
  BY DEF Init
<1>2. Stream = <<>> /\ DOMAIN Stream = {} /\ DOMAIN waiters = {}
  BY <1>1 DEF Stream
<1>3. \A p \in Plugins : Lines[p] = <<>> /\ DOMAIN Lines[p] = {}
  BY <1>1 DEF Lines
<1>4. Numbered(Stream, waiters, Count)
  BY <1>2 DEF Numbered, Ascending, Range
<1>5. Lined(Lines, received, routing, next_route)
  BY <1>1, <1>3 DEF Lined, Follows, Range
<1>6. QED
  BY <1>1, <1>4, <1>5, InitTypeInv DEF OrderInv

(* The dispatcher serves one event at a time: for every wiring, depth and  *)
(* set of plugins, two plugins that see the same two events see them in    *)
(* one order, which for the events of one task is that of their emission.  *)
THEOREM EventsInOneOrder == Spec => []OneOrder
<1>1. OrderInv => OneOrder
  <2> SUFFICES ASSUME OrderInv PROVE OneOrder
    OBVIOUS
  <2>t. received \in Seq(Event) /\ \A p \in Plugins : took[p] \in Seq(Event) /\ queue[p] \in Seq(Event)
    BY OrderTypes DEF OrderInv
  <2>1. Ascending(received)
    BY OrderTypes, AscendingPrefix DEF OrderInv, Numbered, Stream
  <2>2. ASSUME NEW p \in Plugins PROVE Follows(took[p], received)
    <3>1. Follows(took[p] \o queue[p], received)
      BY DEF OrderInv, Lined, Lines
    <3>2. QED
      BY <2>t, <3>1, FollowsPrefix
  <2>3. ASSUME NEW p \in Plugins, NEW e, NEW f, Earlier(e, f, took[p])
        PROVE  Earlier(e, f, received)
    BY <2>2, <2>3 DEF Earlier, Follows
  <2>4. ASSUME NEW i \in DOMAIN received, NEW j \in DOMAIN received, received[i] = received[j]
        PROVE  i = j
    <3>1. received[i].id \in Nat /\ i \in 1 .. Len(received) /\ j \in 1 .. Len(received)
      BY <2>t, Ids
    <3>2. ~(i < j) /\ ~(j < i)
      BY <2>1, <2>4, <3>1 DEF Ascending
    <3>3. QED
      BY <3>1, <3>2
  <2>5. ASSUME NEW p \in Plugins, NEW q \in Plugins, NEW e, NEW f,
               Earlier(e, f, took[p]), Earlier(f, e, took[q])
        PROVE  FALSE
    <3>1. PICK i, j \in DOMAIN received : i < j /\ received[i] = e /\ received[j] = f
      BY <2>3, <2>5 DEF Earlier
    <3>2. PICK k, l \in DOMAIN received : k < l /\ received[k] = f /\ received[l] = e
      BY <2>3, <2>5 DEF Earlier
    <3>3. i = l /\ j = k
      BY <2>4, <3>1, <3>2
    <3>4. i \in Nat /\ j \in Nat
      BY <2>t
    <3>5. QED
      BY <3>1, <3>2, <3>3, <3>4
  <2>6. ASSUME NEW p \in Plugins, NEW e, NEW f, Earlier(e, f, took[p]), e.by = f.by
        PROVE  e.id < f.id
    BY <2>1, <2>3, <2>6 DEF Earlier, Ascending
  <2>7. QED
    BY <2>5, <2>6 DEF OneOrder
<1>2. QED
  BY <1>1, InitOrderInv, NextOrderInv, PTL DEF Spec
=============================================================================

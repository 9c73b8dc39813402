---------------------------- MODULE AgentProofs -----------------------------
(***************************************************************************)
(* Proofs about the agent's machine: AgentProcess and the loader it drives *)
(* (only vetted plugins run, and an orderly return leaves no task behind   *)
(* that the agent joins), the command line, and the hardened deployment    *)
(* (Endpoint: no command meets a lock, an uninstall removes the install    *)
(* the token records, a healthy agent is quiet).                           *)
(* They hold for every list of plugins, every configuration, every queue   *)
(* depth, every install path and any number of commands, faults and kills. *)
(***************************************************************************)
EXTENDS AgentCommands, Endpoint, SequenceFacts

-----------------------------------------------------------------------------
(* The loader.                                                             *)
Unique == \A i, j \in DOMAIN loaded : loaded[i].name = loaded[j].name => i = j

LoaderInv ==
  /\ explicit \in Seq(Names) /\ order \in Seq(Names)
  /\ declared \in Seq(Range(Declared)) /\ loaded \in Seq(Plugins)
  /\ LoadedIsVetted

LEMMA DeclaredPlugins == Range(Declared) \subseteq Plugins /\ Declared \in Seq(Range(Declared))
<1> DEFINE Declarations == [name : Names, lib : Libs]
<1>1. Declared \in Seq(Declarations) /\ DOMAIN Declared = 1 .. Len(Declared)
  BY LoaderAssumption
<1>2. Declarations \subseteq Plugins
  BY DEF Plugins
<1> HIDE DEF Declarations
<1>3. Declared \in [1 .. Len(Declared) -> Range(Declared)] /\ Len(Declared) \in Nat
  BY <1>1 DEF Range
<1>4. \A i \in DOMAIN Declared : Declared[i] \in Declarations
  BY <1>1
<1>5. QED
  BY <1>2, <1>3, <1>4 DEF Range

LEMMA StaticPlugin ==
  ASSUME NEW n \in Names
  PROVE  Static(n) \in Plugins /\ Static(n).name = n /\ Static(n).lib = "none"
BY DEF Static, Plugins

(* A plugin whose name is enabled and free may join those that are loaded. *)
LEMMA AppendVetted ==
  ASSUME loaded \in Seq(Plugins), Unique, NEW p \in Plugins, Wanted(p.name),
         loaded' = Append(loaded, p)
  PROVE  /\ loaded' \in Seq(Plugins) /\ Unique'
         /\ Range(loaded') = Range(loaded) \cup {p}
         /\ Seen' = Seen \cup {p.name}
<1>1. /\ loaded' \in Seq(Plugins) /\ Range(loaded') = Range(loaded) \cup {p}
  BY AppendRange
<1>2. Seen' = Seen \cup {p.name}
  BY <1>1 DEF Seen
<1>3. /\ DOMAIN loaded' = 1 .. Len(loaded) + 1 /\ DOMAIN loaded = 1 .. Len(loaded)
      /\ Len(loaded) \in Nat
      /\ loaded'[Len(loaded) + 1] = p
      /\ \A i \in 1 .. Len(loaded) : loaded'[i] = loaded[i]
  OBVIOUS
<1>4. \A i \in 1 .. Len(loaded) : loaded[i].name # p.name
  BY <1>3 DEF Wanted, Seen, Range
<1>5. \A i \in 1 .. Len(loaded) + 1 : i = Len(loaded) + 1 \/ i \in 1 .. Len(loaded)
  BY <1>3
<1>6. Unique'
  BY <1>3, <1>4, <1>5 DEF Unique
<1>7. QED
  BY <1>1, <1>2, <1>6

LEMMA LoadKeepsInv == ASSUME LoaderInv, Load PROVE LoaderInv'
<1> USE DEF LoaderInv
<1>0. Unique /\ disabled' = disabled
  BY DEF LoadedIsVetted, Unique, Load, LoadExplicit, ExplicitDone, SkipDynamic, LoadFails,
         DropPlugins, LoadDynamic, DynamicDone, LoadStatic, Built
<1>1. CASE LoadExplicit
  <2> DEFINE name == Head(explicit)
  <2>1. name \in Names /\ explicit' \in Seq(Names)
    BY <1>1, TailRange DEF LoadExplicit
  <2>2. CASE Wanted(name)
    <3>1. loaded' = Append(loaded, Static(name)) /\ building' # "failing"
      BY <1>1, <2>2 DEF LoadExplicit
    <3>2. /\ loaded' \in Seq(Plugins) /\ Unique'
          /\ Range(loaded') = Range(loaded) \cup {Static(name)}
          /\ Seen' = Seen \cup {name}
      <4>1. Static(name) \in Plugins /\ Static(name).name = name
        BY <2>1, StaticPlugin
      <4>2. QED
        BY <1>0, <2>2, <3>1, <4>1, AppendVetted
    <3>3. UNCHANGED <<building, order, declared, mapped, ran>> /\ building = "explicit"
      BY <1>1 DEF LoadExplicit
    <3>4. QED
      BY <1>0, <2>1, <2>2, <3>2, <3>3, StaticPlugin DEF LoadedIsVetted, Wanted, IsEnabled, Unique
  <2>3. CASE ~Wanted(name)
    BY <1>1, <2>1, <2>3 DEF LoadExplicit, LoadedIsVetted, Seen
  <2>4. QED
    BY <2>2, <2>3
<1>2. CASE ExplicitDone \/ DynamicDone \/ Built
  BY <1>2 DEF ExplicitDone, DynamicDone, Built, LoadedIsVetted, Seen
<1>3. CASE SkipDynamic
  <2>1. declared' \in Seq(Range(Declared))
    BY <1>3, TailRange DEF SkipDynamic
  <2>2. QED
    BY <1>3, <2>1 DEF SkipDynamic, LoadedIsVetted, Seen
<1>4. ASSUME declared # <<>>, MayOpen(Declaration)
      PROVE  /\ Declaration \in Range(Declared) /\ Declaration \in Plugins
             /\ Declaration.lib # "none" /\ Tail(declared) \in Seq(Range(Declared))
             /\ \A i \in DOMAIN Declared : Declared[i].lib = Declaration.lib => Declared[i].name \notin disabled
  <2>1. Declaration \in Range(Declared) /\ Tail(declared) \in Seq(Range(Declared))
    BY <1>4, TailRange DEF Declaration
  <2>2. PICK k \in DOMAIN Declared : Declaration = Declared[k]
    BY <2>1 DEF Range
  <2>3. QED
    BY <1>4, <2>1, <2>2, DeclaredPlugins, LoaderAssumption DEF MayOpen, Wanted, IsEnabled
<1>5. CASE LoadFails
  <2>1. ran' \subseteq ran \cup {Declaration.lib} /\ building' = "failing"
    BY <1>5 DEF LoadFails
  <2>2. UNCHANGED <<explicit, order, declared, disabled, loaded>>
    BY <1>5 DEF LoadFails
  <2>3. \A i \in DOMAIN Declared : Declared[i].name \in disabled => Declared[i].lib \notin ran'
    BY <1>4, <1>5, <2>1 DEF LoadFails, LoadedIsVetted
  <2>4. QED
    BY <2>1, <2>2, <2>3 DEF LoadedIsVetted, Seen
<1>6. CASE DropPlugins
  BY <1>6 DEF DropPlugins, LoadedIsVetted, Seen, Range
<1>7. CASE LoadDynamic
  <2>1. /\ declared' \in Seq(Range(Declared)) /\ UNCHANGED <<building, explicit, order, disabled>>
        /\ building # "failing"
        /\ mapped' = mapped \cup {Declaration.lib} /\ ran' = ran \cup {Declaration.lib}
    BY <1>4, <1>7 DEF LoadDynamic
  <2>2. \A i \in DOMAIN Declared : Declared[i].name \in disabled => Declared[i].lib \notin ran'
    BY <1>4, <1>7, <2>1 DEF LoadDynamic, LoadedIsVetted
  <2>3. CASE loaded' = Append(loaded, Declaration)
    <3>1. /\ loaded' \in Seq(Plugins) /\ Unique'
          /\ Range(loaded') = Range(loaded) \cup {Declaration}
          /\ Seen' = Seen \cup {Declaration.name}
      BY <1>0, <1>4, <1>7, <2>3, AppendVetted DEF LoadDynamic, MayOpen
    <3>2. QED
      BY <1>7, <2>1, <2>2, <3>1 DEF LoadDynamic, LoadedIsVetted, MayOpen, Wanted, IsEnabled, Unique
  <2>4. CASE UNCHANGED loaded
    BY <2>1, <2>2, <2>4 DEF LoadedIsVetted, Seen
  <2>5. QED
    BY <1>7, <2>3, <2>4 DEF LoadDynamic
<1>8. CASE LoadStatic
  <2> DEFINE name == Head(order)
  <2>1. name \in Names /\ order' \in Seq(Names)
    BY <1>8, TailRange DEF LoadStatic
  <2>2. UNCHANGED <<building, explicit, declared, disabled, mapped, ran>> /\ building = "static"
    BY <1>8 DEF LoadStatic
  <2>3. CASE Wanted(name) /\ loaded' = Append(loaded, Static(name))
    <3>1. /\ loaded' \in Seq(Plugins) /\ Unique'
          /\ Range(loaded') = Range(loaded) \cup {Static(name)}
          /\ Seen' = Seen \cup {name}
      <4>1. Static(name) \in Plugins /\ Static(name).name = name
        BY <2>1, StaticPlugin
      <4>2. QED
        BY <1>0, <2>3, <4>1, AppendVetted
    <3>2. QED
      BY <2>1, <2>2, <2>3, <3>1, StaticPlugin DEF LoadedIsVetted, Wanted, IsEnabled, Unique
  <2>4. CASE UNCHANGED loaded
    BY <2>1, <2>2, <2>4 DEF LoadedIsVetted, Seen
  <2>5. QED
    BY <1>8, <2>3, <2>4 DEF LoadStatic
<1>9. QED
  BY <1>1, <1>2, <1>3, <1>5, <1>6, <1>7, <1>8 DEF Load

(* Nothing but Build moves the loader; InitFails counts a failed init.     *)
LEMMA OthersLeaveLoader ==
  ASSUME [Next]_vars
  PROVE  (Build /\ Load)
           \/ UNCHANGED <<building, explicit, order, declared, disabled, loaded, mapped, ran>>
BY DEF Next, vars, loader, Idle, Main, Scanner, Tripwire, Build, BeginInit, InitAlert, InitPlugin,
       StartRunning, BeginShutdown, Joined, BeginPluginShutdown, PluginShutdown, Return,
       EndProcess, Recorder, RecorderEmits, RecorderEnds, ReadReturns, InitFails,
       Dispatch, ScanTick, ScanEmits, ScanGoesOn, ScanLeaves, ArmTripwire, TripwireStops,
       TripwireWakes, TripwireAlerts, TripwireExits, Heartbeat, WatchStops, ActorStops,
       DispatcherStops, JoinHandler, Signal, ProcessesComeAndGo

LEMMA NextLoaderInv == LoaderInv /\ [Next]_vars => LoaderInv'
<1> SUFFICES ASSUME LoaderInv, [Next]_vars PROVE LoaderInv'
  OBVIOUS
<1>1. CASE Load
  BY <1>1, LoadKeepsInv
<1>2. CASE UNCHANGED <<building, explicit, order, declared, disabled, loaded, mapped, ran>>
  BY <1>2 DEF LoaderInv, LoadedIsVetted, Seen
<1>3. QED
  BY <1>1, <1>2, OthersLeaveLoader

LEMMA InitLoaderInv == Init => LoaderInv
<1> SUFFICES ASSUME LoaderInit PROVE LoaderInv
  BY DEF Init
<1>1. order \in Seq(Names) /\ explicit \in Seq(Names)
  BY LoaderAssumption DEF LoaderInit
<1>2. loaded = <<>> /\ Range(loaded) = {} /\ Seen = {}
  BY DEF LoaderInit, Seen, Range
<1>3. QED
  BY <1>1, <1>2, DeclaredPlugins DEF LoaderInit, LoaderInv, LoadedIsVetted

(* Whatever plugins are handed over, declared, built in and disabled, and  *)
(* whatever loading them brings: no name is taken twice, nothing disabled  *)
(* is loaded or run, and the code of every plugin stays mapped.            *)
THEOREM Vetted == Spec => []LoadedIsVetted
<1>1. LoaderInv => LoadedIsVetted
  BY DEF LoaderInv
<1>2. QED
  BY <1>1, InitLoaderInv, NextLoaderInv, PTL DEF Spec
-----------------------------------------------------------------------------
(* The shutdown.  A task belongs to an entry, and an entry that main has   *)
(* gone past has been told and its tasks have ended.                       *)
Entry(name) == \E p \in Range(entries) : Runs(p, name)

Settled(p) == p.name \in told /\ TasksEnded(p)

ReturnInv ==
  /\ loaded \in Seq(Plugins) /\ todo \in Seq(Plugins) /\ entries \in Seq(Plugins)
  /\ scan # "off" => Entry("process")
  /\ watch # "off" \/ tripwire # "off" => Entry("tamper")
  /\ actor # "off" => Entry("transport")
  /\ main = "teardown" => /\ dispatcher = "ended"
                          /\ \A p \in Range(entries) : p \in Range(todo) \/ Settled(p)

(* Most steps leave the list of entries alone and, once main tears down,   *)
(* only end tasks and tell plugins.                                        *)
LEMMA QuietStep ==
  ASSUME ReturnInv, UNCHANGED <<loaded, entries, todo>>,
         main' # "teardown" \/ (main' = main /\ dispatcher' \in {dispatcher, "ended"}),
         told \subseteq told',
         scan' = scan \/ scan \notin {"off", "ended"},
         watch' = watch \/ watch \notin {"off", "ended"},
         tripwire' = tripwire \/ tripwire \notin {"off", "ended"},
         actor' = actor \/ actor # "off"
  PROVE  ReturnInv'
<1>1. \A p \in Plugins : Settled(p) => Settled(p)'
  BY DEF Settled, TasksEnded, Runs
<1>2. Range(entries) \subseteq Plugins
  <2>1. DOMAIN entries = 1 .. Len(entries) /\ \A i \in 1 .. Len(entries) : entries[i] \in Plugins
    BY DEF ReturnInv
  <2>2. QED
    BY <2>1 DEF Range
<1>3. \A name : Entry(name) => Entry(name)'
  BY DEF Entry, Runs
<1>4. QED
  BY <1>1, <1>2, <1>3 DEF ReturnInv

LEMMA NextReturnInv == LoaderInv /\ ReturnInv /\ [Next]_vars => ReturnInv'
<1> SUFFICES ASSUME LoaderInv, LoaderInv', ReturnInv, [Next]_vars PROVE ReturnInv'
  BY NextLoaderInv
<1>1. CASE Build
  <2>1. /\ main = "build" /\ main' \in {"build", "ended"}
        /\ UNCHANGED <<scan, todo, entries, dispatcher, told, watch, tripwire, actor>>
        /\ loaded' \in Seq(Plugins)
    BY <1>1 DEF Build, sampler, tasks, LoaderInv
  <2>2. QED
    BY <2>1 DEF ReturnInv, Entry
<1>2. CASE BeginInit
  BY <1>2 DEF BeginInit, ReturnInv, Entry, sampler, tasks, loader
<1>3. CASE InitAlert \/ StartRunning \/ Dispatch \/ Heartbeat \/ Signal \/ ProcessesComeAndGo
           \/ Recorder \/ EndProcess
  BY <1>3, QuietStep
     DEF InitAlert, StartRunning, Dispatch, Heartbeat, Signal, ProcessesComeAndGo, Fork, Exit, Idle,
         Recorder, RecorderEmits, RecorderEnds, ReadReturns, EndProcess,
         loader, sampler, host, tasks
<1>4. CASE InitFails
  <2>1. todo' \in Seq(Plugins)
    BY <1>4, TailRange DEF InitFails, ReturnInv
  <2>2. QED
    BY <1>4, <2>1 DEF InitFails, ReturnInv, Entry, sampler, tasks
<1>5. CASE InitPlugin
  <2>1. /\ todo' \in Seq(Plugins) /\ entries' \in Seq(Plugins)
        /\ Range(entries') = Range(entries) \cup {Current}
    BY <1>5, TailRange, AppendRange DEF InitPlugin, ReturnInv, Current
  <2>2. main = "init" /\ UNCHANGED <<main, loaded>>
    BY <1>5 DEF InitPlugin, loader
  <2>3. \A name : Entry(name) => Entry(name)'
    BY <2>1 DEF Entry, Runs
  <2>4. \A name : Runs(Current, name) => Entry(name)'
    BY <2>1 DEF Entry, Runs
  <2>5. /\ scan' = scan \/ Runs(Current, "process")
        /\ (watch' = watch /\ tripwire' = tripwire) \/ Runs(Current, "tamper")
        /\ actor' = actor \/ Runs(Current, "transport")
    BY <1>5 DEF InitPlugin, Spawns
  <2>6. QED
    BY <2>1, <2>2, <2>3, <2>4, <2>5 DEF ReturnInv
<1>6. CASE Scanner
  BY <1>6, QuietStep
     DEF Scanner, ScanTick, ScanEmits, ScanGoesOn, ScanLeaves, Sample, EmitExec, BatchDone, ScanStops,
         Idle, loader, host, tasks
<1>7. CASE Tripwire \/ WatchStops \/ ActorStops
  BY <1>7, QuietStep
     DEF Tripwire, ArmTripwire, TripwireStops, TripwireWakes, TripwireAlerts, TripwireExits,
         WatchStops, ActorStops, Idle, loader, sampler, host, tasks
<1>8. CASE BeginShutdown
  BY <1>8 DEF BeginShutdown, ReturnInv, Entry, loader, sampler, tasks
<1>9. CASE DispatcherStops
  BY <1>9, QuietStep DEF DispatcherStops, loader, sampler, tasks
<1>10. CASE JoinHandler
  <2>1. todo' \in Seq(Plugins)
    BY <1>10, TailRange DEF JoinHandler, ReturnInv
  <2>2. QED
    BY <1>10, <2>1 DEF JoinHandler, ReturnInv, Entry, loader, sampler, tasks
<1>11. CASE Joined
  BY <1>11 DEF Joined, ReturnInv, Entry, loader, sampler, tasks
<1>12. CASE BeginPluginShutdown
  BY <1>12, QuietStep DEF BeginPluginShutdown, loader, sampler, tasks
<1>13. CASE PluginShutdown
  <2>1. todo' \in Seq(Plugins) /\ Range(todo) = {Current} \cup Range(todo')
    BY <1>13, TailRange DEF PluginShutdown, ReturnInv, Current
  <2>2. Settled(Current)
    BY <1>13 DEF PluginShutdown, Settled
  <2>3. UNCHANGED <<loaded, main, entries, dispatcher, told, scan, watch, tripwire, actor>>
    BY <1>13 DEF PluginShutdown, loader, sampler, tasks
  <2>4. \A p : Settled(p) => Settled(p)'
    BY <2>3 DEF Settled, TasksEnded, Runs
  <2>5. QED
    BY <2>1, <2>2, <2>3, <2>4 DEF ReturnInv, Entry
<1>14. CASE Return
  BY <1>14 DEF Return, ReturnInv, Entry, loader, sampler, tasks
<1>15. CASE UNCHANGED vars
  BY <1>15, QuietStep DEF vars, loader, sampler, host, tasks
<1>16. QED
  BY <1>1, <1>2, <1>3, <1>4, <1>5, <1>6, <1>7, <1>8, <1>9, <1>10, <1>11, <1>12, <1>13, <1>14, <1>15
     DEF Next, Main

LEMMA ReturnFindsAllEnded ==
  ReturnInv /\ Return =>
    /\ dispatcher = "ended"
    /\ scan \in {"off", "ended"} /\ watch \in {"off", "ended"} /\ tripwire \in {"off", "ended"}
    /\ actor = "up" => "transport" \in told
<1> SUFFICES ASSUME ReturnInv, main = "teardown", todo = <<>>
             PROVE  /\ dispatcher = "ended"
                    /\ scan \in {"off", "ended"} /\ watch \in {"off", "ended"}
                    /\ tripwire \in {"off", "ended"}
                    /\ actor = "up" => "transport" \in told
  BY DEF Return
<1>1. \A p \in Range(entries) : Settled(p)
  BY DEF ReturnInv, Range
<1>2. \A name : Entry(name) => \E p \in Range(entries) : Runs(p, name) /\ Settled(p)
  BY <1>1 DEF Entry
<1>3. QED
  BY <1>2 DEF ReturnInv, Settled, TasksEnded, Runs

(* Whatever plugins there are, however many signals come and whichever     *)
(* task is behind: when main returns, the dispatcher, the process          *)
(* collector and the tamper tasks have ended, and the forwarder has been   *)
(* told to.  The tty collector alone may go on: it is not joined, and what *)
(* it still emits finds the ingress closed.                                *)
THEOREM ReturnIsOrderly == Spec => OrderlyReturn
<1>1. Init => LoaderInv /\ ReturnInv
  <2>1. Init => loaded = <<>> /\ todo = <<>> /\ entries = <<>>
    BY DEF Init, LoaderInit
  <2>2. Init => ReturnInv
    BY <2>1 DEF Init, SamplerInit, ReturnInv
  <2>3. QED
    BY <2>2, InitLoaderInv
<1>2. LoaderInv /\ ReturnInv /\ [Next]_vars => (LoaderInv /\ ReturnInv)'
  BY NextLoaderInv, NextReturnInv
<1>3. ReturnInv =>
        [Return => /\ dispatcher = "ended"
                   /\ scan \in {"off", "ended"} /\ watch \in {"off", "ended"}
                   /\ tripwire \in {"off", "ended"}
                   /\ actor = "up" => "transport" \in told]_vars
  BY ReturnFindsAllEnded
<1>4. QED
  BY <1>1, <1>2, <1>3, PTL DEF Spec, OrderlyReturn

-----------------------------------------------------------------------------
(* The ingress, which the inits of several plugins, their tasks and the    *)
(* tripwire fill while the dispatcher may not yet, or no longer, drain it. *)
LEMMA RoomForOne ==
  ASSUME depth \in Nat, ingress \in 0 .. depth
  PROVE  Fits(1) \in 0 .. depth /\ (HasRoom => ingress + 1 \in 0 .. depth)
BY DEF Fits, HasRoom

Recorders == {"off", "pipe", "shell", "reading", "ended"}

LEMMA NextTypeOK == TypeOK /\ [Next]_vars => TypeOK'
<1> SUFFICES ASSUME TypeOK, [Next]_vars PROVE TypeOK'
  OBVIOUS
<1>a. /\ depth \in Nat /\ ingress \in 0 .. depth
      /\ Fits(1) \in 0 .. depth /\ (HasRoom => ingress + 1 \in 0 .. depth)
      /\ MaxSignals \in Nat
  BY ProcessAssumption, RoomForOne DEF TypeOK
<1> DEFINE Flags == warned \in BOOLEAN /\ tripped \in BOOLEAN /\ interrupted \in BOOLEAN
<1>b. Flags
  BY DEF TypeOK
<1>1. CASE Build \/ BeginInit \/ InitAlert
  <2>1. /\ main' \in {main, "init", "ended"} /\ ingress' \in 0 .. depth
        /\ UNCHANGED <<depth, dispatcher, tasks, handled, signals>>
    BY <1>1, <1>a DEF Build, BeginInit, InitAlert, signal
  <2>2. Flags'
    BY <1>1, <1>b DEF Build, BeginInit, InitAlert, signal
  <2> HIDE DEF Flags
  <2>3. QED
    BY <2>1, <2>2 DEF TypeOK, Flags, tasks
<1>2. CASE InitPlugin
  <2>1. /\ main' = main /\ depth' = depth /\ dispatcher' = dispatcher /\ handled' = handled
        /\ signals' = signals /\ watch' \in {watch, "up"} /\ tripwire' \in {tripwire, "spawned"}
        /\ actor' \in {actor, "up"} /\ ingress' \in 0 .. depth /\ recorder' \in Recorders
    BY <1>2, <1>a, ProcessAssumption DEF InitPlugin, Spawns, signal, TypeOK, Recorders
  <2>2. Flags'
    BY <1>2, <1>b DEF InitPlugin, signal
  <2> HIDE DEF Flags
  <2>3. QED
    BY <2>1, <2>2 DEF TypeOK, Flags, Recorders
<1>3. CASE StartRunning
  BY <1>3 DEF StartRunning, tasks, signal, TypeOK, Signals
<1>4. CASE BeginShutdown \/ Joined \/ BeginPluginShutdown \/ PluginShutdown \/ Return \/ EndProcess
  <2>1. /\ main' \in {"stopping", "teardown", "returned", "ended", main}
        /\ recorder' \in {recorder, "reading", "ended"}
        /\ UNCHANGED <<depth, ingress, dispatcher, watch, tripwire, actor, handled, signals>>
    BY <1>4 DEF BeginShutdown, Joined, BeginPluginShutdown, PluginShutdown, Return, EndProcess,
                tasks, signal
  <2>2. Flags'
    BY <1>4, <1>b DEF BeginShutdown, Joined, BeginPluginShutdown, PluginShutdown, Return, EndProcess,
                      tasks, signal
  <2> HIDE DEF Flags
  <2>3. QED
    BY <2>1, <2>2 DEF TypeOK, Flags
<1>5. CASE InitFails \/ JoinHandler
  BY <1>5 DEF InitFails, JoinHandler, tasks, signal, TypeOK
<1>6. CASE Dispatch \/ DispatcherStops
  BY <1>6, <1>a DEF Dispatch, DispatcherStops, host, tasks, signal, TypeOK
<1>7. CASE Scanner
  BY <1>7, <1>a DEF Scanner, ScanTick, ScanEmits, ScanGoesOn, ScanLeaves, Idle, host, tasks, signal,
                    TypeOK
<1>8. CASE Tripwire
  <2>1. ingress' \in {ingress, Fits(1)} /\ depth' = depth /\ signals' = signals
    BY <1>8 DEF Tripwire, ArmTripwire, TripwireStops, TripwireWakes, TripwireAlerts, TripwireExits,
                Idle, host, signal
  <2>2. /\ main' \in {main, "ended"} /\ UNCHANGED <<dispatcher, watch, actor, recorder>>
        /\ tripwire' \in {tripwire, "armed", "ended", "alerting", "exiting"}
        /\ handled' \in {handled, Signals}
    BY <1>8 DEF Tripwire, ArmTripwire, TripwireStops, TripwireWakes, TripwireAlerts, TripwireExits,
                Idle, host, tasks, signal
  <2>3. Flags'
    BY <1>8, <1>b DEF Tripwire, ArmTripwire, TripwireStops, TripwireWakes, TripwireAlerts,
                      TripwireExits, Idle, host, tasks, signal
  <2> HIDE DEF Flags
  <2>4. ingress' \in 0 .. depth'
    BY <2>1, <1>a
  <2>5. QED
    BY <2>1, <2>2, <2>3, <2>4 DEF TypeOK, Flags
<1>9. CASE Heartbeat \/ WatchStops \/ ActorStops
  BY <1>9, <1>a DEF Heartbeat, WatchStops, ActorStops, Idle, host, tasks, signal, TypeOK
<1>10. CASE Signal
  <2>1. /\ UNCHANGED <<depth, ingress, dispatcher, watch, tripwire, actor, recorder, handled, warned>>
        /\ main' \in {main, "ended"} /\ signals < MaxSignals /\ signals' = signals + 1
    BY <1>10 DEF Signal, tasks
  <2>2. tripped' \in BOOLEAN /\ interrupted' \in BOOLEAN
    BY ZenonT(60), <1>10, <1>b DEF Signal
  <2>3. QED
    BY <2>1, <2>2, <1>a DEF TypeOK
<1>11. CASE ProcessesComeAndGo
  BY <1>11 DEF ProcessesComeAndGo, Idle, host, tasks, signal, TypeOK
<1>12. CASE Recorder
  <2>1. /\ ingress' \in {ingress, Fits(1)} /\ recorder' \in {recorder, "ended"}
        /\ UNCHANGED <<main, depth, dispatcher, watch, tripwire, actor, handled, signals>>
    BY <1>12 DEF Recorder, RecorderEmits, RecorderEnds, ReadReturns, Idle, host, tasks, signal
  <2>2. Flags'
    BY <1>12, <1>b DEF Recorder, RecorderEmits, RecorderEnds, ReadReturns, Idle, host, signal
  <2> HIDE DEF Flags
  <2>3. QED
    BY <2>1, <2>2, <1>a DEF TypeOK, Flags
<1>13. CASE UNCHANGED vars
  BY <1>13 DEF vars, host, tasks, signal, TypeOK
<1>14. QED
  BY <1>1, <1>2, <1>3, <1>4, <1>5, <1>6, <1>7, <1>8, <1>9, <1>10, <1>11, <1>12, <1>13 DEF Next, Main

(* Whichever tasks emit, and whether the dispatcher is there to drain it,  *)
(* the ingress never holds more than queue_depth events, and every         *)
(* variable of the agent's host has its type.                              *)
THEOREM WithinDepth == Spec => []TypeOK
<1>1. Init => TypeOK
  <2> SUFFICES ASSUME Init PROVE TypeOK
    OBVIOUS
  <2>1. depth \in Nat /\ 0 \in 0 .. depth /\ 0 \in 0 .. MaxSignals
    BY ProcessAssumption DEF Init
  <2>2. QED
    BY <2>1 DEF Init, TypeOK
<1>2. QED
  BY <1>1, NextTypeOK, PTL DEF Spec

-----------------------------------------------------------------------------
(* The process collector.  An identity that is to be emitted was seen, has *)
(* not come onto the bus yet, and is that of a process that was started.   *)
(* What came onto the bus stays seen while its process is alive, and a     *)
(* process that has gone is not found by a sample again.                   *)
ScanInv ==
  /\ forked \subseteq Procs /\ alive \subseteq forked
  /\ reports \in [Procs -> Nat]
  /\ batch \subseteq seen
  /\ \A p \in Procs : Key(p) \in batch => reports[p] = 0 /\ p \in forked
  /\ \A p \in Procs : reports[p] > 0 => p \in forked /\ (p \in alive => Key(p) \in seen)
  /\ ReportedOnce

(* A start time that was read tells identities apart.                      *)
LEMMA KeysDiffer ==
  ASSUME NEW p \in Procs, NEW q \in Procs
  PROVE  /\ Key(p) = Key(q) => p = q
         /\ Key(p) # NoStart(q)
<1>1. p # 0
  BY SamplerAssumption
<1>2. Key(p).start = p /\ Key(q).start = q /\ NoStart(q).start = 0
  BY DEF Key, NoStart
<1>3. QED
  BY <1>1, <1>2

LEMMA SampleKeeps == ASSUME ScanInv, Sample PROVE ScanInv'
<1>1. PICK dying \in SUBSET alive :
        LET keys(P) == {IF p \in dying THEN NoStart(p) ELSE Key(p) : p \in P}
            kept    == Pruned(keys(alive))
        IN /\ batch' = keys(alive \ Ignored) \ kept
           /\ seen' = kept \cup batch'
           /\ alive' = alive \ dying
  BY DEF Sample
<1> DEFINE keys(P) == {IF p \in dying THEN NoStart(p) ELSE Key(p) : p \in P}
           kept    == Pruned(keys(alive))
<1>2. /\ batch' = keys(alive \ Ignored) \ kept /\ seen' = kept \cup batch'
      /\ alive' = alive \ dying /\ forked' = forked /\ reports' = reports
  BY <1>1 DEF Sample
<1>3. alive \subseteq Procs
  BY DEF ScanInv
<1>4. ASSUME NEW p \in Procs, NEW P \in SUBSET alive, Key(p) \in keys(P)
      PROVE  p \in P
  <2>1. PICK q \in P : Key(p) = IF q \in dying THEN NoStart(q) ELSE Key(q)
    BY <1>4
  <2>2. q \in Procs
    BY <1>3
  <2>3. QED
    BY <2>1, <2>2, KeysDiffer
<1>5. ASSUME NEW p \in alive \ dying, Key(p) \in seen
      PROVE  Key(p) \in kept
  <2>1. Key(p) \in keys(alive)
    OBVIOUS
  <2>2. QED
    BY <1>5, <2>1 DEF Pruned
<1>6. ASSUME NEW p \in Procs, Key(p) \in keys(alive \ Ignored), Key(p) \notin kept
      PROVE  reports[p] = 0 /\ p \in forked
  <2>1. p \in alive
    BY <1>4, <1>6
  <2>2. p \notin dying
    <3>1. PICK q \in alive \ Ignored : Key(p) = IF q \in dying THEN NoStart(q) ELSE Key(q)
      BY <1>6
    <3>2. q \in Procs
      BY <1>3
    <3>3. QED
      BY <3>1, <3>2, KeysDiffer
  <2>3. Key(p) \notin seen
    BY <2>1, <2>2, <1>5, <1>6
  <2>4. QED
    BY <2>1, <2>3 DEF ScanInv
<1>7. \A p \in Procs : reports[p] > 0 => p \in forked /\ (p \in alive' => Key(p) \in seen')
  BY <1>2, <1>5 DEF ScanInv
<1> HIDE DEF keys, kept
<1>8. QED
  BY <1>2, <1>6, <1>7 DEF ScanInv, ReportedOnce

LEMMA EmitKeeps == ASSUME ScanInv, NEW onto_bus \in BOOLEAN, EmitExec(onto_bus) PROVE ScanInv'
<1>1. PICK k \in batch :
        /\ batch' = batch \ {k}
        /\ reports' = [p \in Procs |-> reports[p] + IF onto_bus /\ k = Key(p) THEN 1 ELSE 0]
  BY DEF EmitExec
<1>2. UNCHANGED <<forked, alive, seen>>
  BY DEF EmitExec
<1>3. \A p \in Procs : reports'[p] = reports[p] \/ (k = Key(p) /\ reports[p] = 0 /\ reports'[p] = 1)
  BY <1>1 DEF ScanInv
<1>4. \A p \in Procs : Key(p) \in batch' => k # Key(p) /\ Key(p) \in batch
  BY <1>1
<1>5. reports' \in [Procs -> Nat]
  BY <1>1 DEF ScanInv
<1>6. \A p \in Procs : k = Key(p) => p \in forked /\ Key(p) \in seen
  BY DEF ScanInv
<1>7. ReportedOnce'
  BY <1>3 DEF ScanInv, ReportedOnce
<1>8. QED
  BY <1>1, <1>2, <1>3, <1>4, <1>5, <1>6, <1>7 DEF ScanInv

LEMMA NextScanInv == ScanInv /\ [Next]_vars => ScanInv'
<1> SUFFICES ASSUME ScanInv, [Next]_vars PROVE ScanInv'
  OBVIOUS
<1>1. CASE UNCHANGED <<forked, alive, seen, batch, reports>>
  BY <1>1 DEF ScanInv, ReportedOnce
<1>2. CASE ProcessesComeAndGo
  <2>1. UNCHANGED <<seen, batch, reports>> /\ (Fork \/ Exit)
    BY <1>2 DEF ProcessesComeAndGo, Fork, Exit
  <2>2. CASE Exit
    BY <2>1, <2>2 DEF Exit, ScanInv, ReportedOnce
  <2>3. CASE Fork
    <3>1. PICK p \in Procs \ forked : forked' = forked \cup {p} /\ alive' = alive \cup {p}
      BY <2>3 DEF Fork
    <3>2. ~(reports[p] > 0)
      BY DEF ScanInv
    <3>3. QED
      BY <2>1, <3>1, <3>2 DEF ScanInv, ReportedOnce
  <2>4. QED
    BY <2>1, <2>2, <2>3
<1>3. CASE ScanTick
  BY <1>3, SampleKeeps DEF ScanTick
<1>4. CASE ScanEmits
  <2>1. HasRoom \in BOOLEAN
    BY DEF HasRoom
  <2>2. QED
    BY <1>4, <2>1, EmitKeeps DEF ScanEmits
<1>5. CASE ScanGoesOn \/ ScanLeaves
  BY <1>5, <1>1 DEF ScanGoesOn, ScanLeaves, BatchDone, ScanStops
<1>6. CASE Main
  BY <1>6, <1>1 DEF Main, sampler, Build, BeginInit, InitAlert, InitPlugin, StartRunning,
       BeginShutdown, Joined, BeginPluginShutdown, PluginShutdown, Return, EndProcess
<1>7. CASE Tripwire
  BY <1>7, <1>1 DEF Tripwire, sampler, ArmTripwire, TripwireStops, TripwireWakes, TripwireAlerts,
       TripwireExits
<1>8. CASE \/ InitFails \/ Dispatch \/ Heartbeat \/ WatchStops \/ ActorStops \/ Recorder
           \/ DispatcherStops \/ JoinHandler \/ Signal \/ UNCHANGED vars
  BY <1>8, <1>1 DEF sampler, vars, InitFails, Dispatch, Heartbeat, WatchStops, ActorStops,
       DispatcherStops, JoinHandler, Signal, Recorder, RecorderEmits, RecorderEnds, ReadReturns
<1>9. QED
  BY <1>2, <1>3, <1>4, <1>5, <1>6, <1>7, <1>8 DEF Next, Scanner

(* No process comes onto the bus twice while its start time can be read,   *)
(* however few identities the collector remembers, however often pids are  *)
(* reused, and whatever exits while it walks /proc.                        *)
THEOREM ReportsAreUnique == Spec => []ReportedOnce
<1>1. Init => ScanInv
  BY DEF Init, SamplerInit, ScanInv, ReportedOnce
<1>2. ScanInv => ReportedOnce
  BY DEF ScanInv
<1>3. QED
  BY <1>1, <1>2, NextScanInv, PTL DEF Spec

-----------------------------------------------------------------------------
(* Whichever command the binary is started for, its host does what Spec    *)
(* allows, if anything: all that is proved of Spec is true of both.        *)
THEOREM CommandsHost == CommandSpec => Spec
<1>1. CommandInit => Init
  BY DEF CommandInit
<1>2. [Run(Next) \/ Tty(TerminalNext)]_commandVars => [Next]_vars
  BY DEF Run, Tty, commandVars
<1>3. QED
  BY <1>1, <1>2, PTL DEF CommandSpec, Spec

-----------------------------------------------------------------------------
(***************************************************************************)
(* Endpoint.                                                               *)
(*                                                                         *)
(* A command works through a plan, and nobody else touches the disk while  *)
(* it does.  The invariant says what every step that is behind the command *)
(* has left: a file unlocked, as long as the plan has not begun to lock; a *)
(* file written, a file locked, a file removed; the manifest taken of what *)
(* was written; the units stopped.                                         *)
(***************************************************************************)
Data      == {"none", "whole", "part", "edited"}
AnyFile   == [type : {"absent", "file", "other"}, data : Data, flags : SUBSET {"immutable"}]
Baselines == UNION {[D -> Data] : D \in SUBSET Paths}
Ops       == {"unlock", "write", "hash", "lock", "remove", "reload", "enable", "disable"}
PlanSteps == [op : Ops, path : Paths \cup {"units"}, try : BOOLEAN]
OnFile    == {"unlock", "write", "hash", "lock", "remove"}

EndpointForm ==
  /\ disk \in [Paths -> AnyFile] /\ baseline \in Baselines /\ recorded \in Bins
  /\ enabled \in BOOLEAN /\ unit \in [Units -> {"inactive", "active", "restart"}]
  /\ tamper \in [baseline : Baselines, settled : BOOLEAN]

Busying == job # NoCommand
JobForm ==
  /\ job \in [plan : Seq(PlanSteps), at : Nat, bin : Bins \cup {"none"}]
  /\ Busying => /\ job.bin \in Bins /\ job.at \in 1 .. Len(job.plan)
                /\ job.plan \in {InstallPlan(job.bin), UninstallPlan(job.bin)}

Whole(p)  == disk[p].type = "file" /\ disk[p].data = "whole"
Stopped   == ~enabled /\ \A u \in Units : unit[u] = "inactive"
Pristine(bin) == [p \in Protected(bin) |-> "whole"]
BinInUse  == IF "token" \in degraded THEN DefaultBin ELSE recorded

(* What step i of a plan has left behind, when the steps before the n-th   *)
(* are done.                                                               *)
NoLock(plan, n) == \A j \in 1 .. n - 1 : plan[j].op # "lock"
StepDone(plan, bin, i, n) ==
  LET s == plan[i]
  IN /\ s.op \in {"write", "hash"} => Whole(s.path)
     /\ s.op = "lock" => CheckImmutable(disk, s.path)
     /\ s.op = "hash" => baseline = Pristine(bin)
     /\ s.op = "write" /\ s.path = "token" => recorded = bin
     /\ s.op = "unlock" /\ NoLock(plan, n) => ~CheckImmutable(disk, s.path)
     /\ s.op = "remove" => ~Exists(disk, s.path)
     /\ s.op = "disable" /\ "systemctl" \notin degraded => Stopped

Behind(plan, bin, n) == \A i \in 1 .. n - 1 : StepDone(plan, bin, i, n)

JobDone == Busying => Behind(job.plan, job.bin, job.at)

Removal == Busying /\ job.plan = UninstallPlan(job.bin) => job.bin = BinInUse

NeverLocked == \A p \in {"token", "state"} : ~CheckImmutable(disk, p)

HealthyDisk ==
  Installed => /\ \A p \in Protected(recorded) : Whole(p) /\ CheckImmutable(disk, p)
               /\ Whole("manifest") /\ baseline = Pristine(recorded)

SettledAgent ==
  tamper.settled => /\ Installed /\ recorded = DefaultBin
                    /\ tamper.baseline = baseline /\ raised = {}

EndpointInv ==
  /\ EndpointForm /\ JobForm /\ JobDone /\ Removal /\ NeverLocked
  /\ HealthyDisk /\ SettledAgent /\ UninstallRemoves

(***************************************************************************)
(* The plans, step by step.                                                *)
(***************************************************************************)
(* r is s, of length m, followed by t, of length n.                        *)
IsJoined(r, s, m, t, n, S) ==
  /\ r \in Seq(S) /\ Len(r) = m + n
  /\ \A i \in 1 .. m : r[i] = s[i]
  /\ \A i \in 1 .. n : r[m + i] = t[i]

LEMMA TwoJoined ==
  ASSUME NEW S, NEW s \in Seq(S), NEW t \in Seq(S)
  PROVE  IsJoined(s \o t, s, Len(s), t, Len(t), S)
BY DEF IsJoined

LEMMA IndexedSeq ==
  ASSUME NEW S, NEW n \in Nat, NEW s \in [1 .. n -> S]
  PROVE  s \in Seq(S) /\ Len(s) = n
<1>1. s \in Seq(S) /\ DOMAIN s = 1 .. n
  OBVIOUS
<1>2. QED
  BY <1>1

Does(P, k, op, path) == P[k].op = op /\ P[k].path = path

LEMMA StepForm ==
  ASSUME NEW op \in Ops, NEW path \in Paths \cup {"units"}, NEW try \in BOOLEAN
  PROVE  /\ Step(op, path, try) \in PlanSteps
         /\ Step(op, path, try).op = op /\ Step(op, path, try).path = path
  BY DEF Step, PlanSteps

LEMMA BinPaths ==
  ASSUME NEW bin \in Bins
  PROVE  /\ bin \in Paths /\ {"service", "guardian", "manifest", "token", "state"} \subseteq Paths
         /\ Protected(bin) = {bin, "service", "guardian"}
         /\ bin \notin {"service", "guardian", "manifest", "token", "state"}
<1>1. DOMAIN ProtectedPaths(bin) = 1 .. 3
  BY DEF ProtectedPaths
<1>2. /\ ProtectedPaths(bin)[1] = bin /\ ProtectedPaths(bin)[2] = "service"
      /\ ProtectedPaths(bin)[3] = "guardian"
  BY DEF ProtectedPaths
<1>3. \A i \in 1 .. 3 : i = 1 \/ i = 2 \/ i = 3
  OBVIOUS
<1>4. Protected(bin) = {bin, "service", "guardian"}
  BY <1>1, <1>2, <1>3 DEF Protected, Range
<1>5. QED
  BY <1>4, EndpointAssumption DEF Paths

LEMMA LockedPaths ==
  ASSUME NEW bin \in Bins
  PROVE  /\ Locked(bin) \in [1 .. 4 -> Paths]
         /\ Locked(bin)[1] = bin /\ Locked(bin)[2] = "service"
         /\ Locked(bin)[3] = "guardian" /\ Locked(bin)[4] = "manifest"
<1> DEFINE s == ProtectedPaths(bin)
           t == <<"manifest">>
<1>1. /\ s \in Seq(Paths) /\ Len(s) = 3 /\ s[1] = bin /\ s[2] = "service" /\ s[3] = "guardian"
      /\ t \in Seq(Paths) /\ Len(t) = 1 /\ t[1] = "manifest"
  BY BinPaths DEF ProtectedPaths
<1>2. Locked(bin) = s \o t
  BY DEF Locked
<1> HIDE DEF s, t
<1> DEFINE r == Locked(bin)
<1> HIDE DEF s, t, r
<1>3. IsJoined(r, s, 3, t, 1, Paths)
  <2>1. s \in Seq(Paths) /\ t \in Seq(Paths) /\ Len(s) = 3 /\ Len(t) = 1
    BY <1>1
  <2>2. QED
    BY <2>1, <1>2, TwoJoined, ZenonT(30) DEF r
<1>4. /\ r \in Seq(Paths) /\ Len(r) = 4
      /\ r[1] = s[1] /\ r[2] = s[2] /\ r[3] = s[3] /\ r[3 + 1] = t[1]
  BY <1>3 DEF IsJoined
<1>5. r \in [1 .. 4 -> Paths]
  <2>1. \A q \in Seq(Paths) : q \in [1 .. Len(q) -> Paths]
    OBVIOUS
  <2>2. QED
    BY <1>4, <2>1, ZenonT(30)
<1>6. r[1] = bin /\ r[2] = "service" /\ r[3] = "guardian" /\ r[4] = "manifest"
  <2>1. r[4] = t[1]
    BY <1>4
  <2>2. QED
    BY <1>1, <1>4, <2>1, ZenonT(30)
<1>7. QED
  BY <1>5, <1>6 DEF r

LEMMA LockedSteps ==
  ASSUME NEW bin \in Bins, NEW op \in Ops, NEW try \in BOOLEAN
  PROVE  LET q == ForEach(op, Locked(bin), try)
         IN /\ q \in Seq(PlanSteps) /\ Len(q) = 4
            /\ q[1] = Step(op, bin, try) /\ q[2] = Step(op, "service", try)
            /\ q[3] = Step(op, "guardian", try) /\ q[4] = Step(op, "manifest", try)
<1> DEFINE q == ForEach(op, Locked(bin), try)
           f(p) == Step(op, p, try)
<1>1. \A p \in Paths : f(p) \in PlanSteps
  BY StepForm
<1>2. q = [i \in DOMAIN Locked(bin) |-> f(Locked(bin)[i])]
  BY DEF ForEach
<1> HIDE DEF q, f
<1>3. q \in [1 .. 4 -> PlanSteps] /\ \A i \in 1 .. 4 : q[i] = f(Locked(bin)[i])
  BY <1>1, <1>2, LockedPaths
<1>4. q \in Seq(PlanSteps) /\ Len(q) = 4
  BY <1>3, IndexedSeq
<1>5. q[1] = f(bin) /\ q[2] = f("service") /\ q[3] = f("guardian") /\ q[4] = f("manifest")
  BY <1>3, LockedPaths
<1>6. QED
  BY <1>4, <1>5 DEF q, f

LEMMA InstallSteps ==
  ASSUME NEW bin \in Bins
  PROVE  LET P == InstallPlan(bin)
         IN /\ P \in Seq(PlanSteps) /\ Len(P) = 15
            /\ Does(P, 1, "unlock", bin) /\ Does(P, 2, "write", bin)
            /\ Does(P, 3, "unlock", "service") /\ Does(P, 4, "unlock", "guardian")
            /\ Does(P, 5, "write", "service") /\ Does(P, 6, "write", "guardian")
            /\ Does(P, 7, "unlock", "manifest") /\ Does(P, 8, "hash", "manifest")
            /\ Does(P, 9, "write", "token")
            /\ Does(P, 10, "reload", "units") /\ Does(P, 11, "enable", "units")
            /\ Does(P, 12, "lock", bin) /\ Does(P, 13, "lock", "service")
            /\ Does(P, 14, "lock", "guardian") /\ Does(P, 15, "lock", "manifest")
<1> DEFINE u(p) == Step("unlock", p, TRUE)
           w(p) == Step("write", p, FALSE)
           h == Step("hash", "manifest", FALSE)
           r == Step("reload", "units", FALSE)
           e == Step("enable", "units", FALSE)
           k(p) == Step("lock", p, FALSE)
           s == <<u(bin), w(bin), u("service"), u("guardian"), w("service"), w("guardian"),
                  u("manifest"), h, w("token"), r, e>>
           t == ForEach("lock", Locked(bin), FALSE)
           P == InstallPlan(bin)
<1>1. P = s \o t
  BY DEF InstallPlan
<1>2. /\ t \in Seq(PlanSteps) /\ Len(t) = 4
      /\ t[1] = k(bin) /\ t[2] = k("service") /\ t[3] = k("guardian") /\ t[4] = k("manifest")
  BY LockedSteps DEF Ops
<1>3. /\ \A p \in Paths : u(p) \in PlanSteps /\ w(p) \in PlanSteps
      /\ h \in PlanSteps /\ r \in PlanSteps /\ e \in PlanSteps
      /\ \A p \in Paths : u(p).op = "unlock" /\ u(p).path = p /\ w(p).op = "write" /\ w(p).path = p
      /\ h.op = "hash" /\ h.path = "manifest" /\ r.op = "reload" /\ r.path = "units"
      /\ e.op = "enable" /\ e.path = "units"
      /\ \A p \in Paths : k(p).op = "lock" /\ k(p).path = p
  <2>1. {"unlock", "write", "hash", "reload", "enable", "lock"} \subseteq Ops /\ "manifest" \in Paths
    BY BinPaths DEF Ops
  <2>2. QED
    BY ZenonT(60), <2>1, StepForm
<1> HIDE DEF u, w, h, r, e, k, t, P
<1>4. s \in Seq(PlanSteps)
  BY <1>3, BinPaths
<1>5. /\ Len(s) = 11 /\ s[1] = u(bin) /\ s[2] = w(bin) /\ s[3] = u("service")
      /\ s[4] = u("guardian") /\ s[5] = w("service") /\ s[6] = w("guardian")
      /\ s[7] = u("manifest") /\ s[8] = h /\ s[9] = w("token") /\ s[10] = r /\ s[11] = e
  OBVIOUS
<1> HIDE DEF s
<1>6. IsJoined(P, s, 11, t, 4, PlanSteps)
  <2>1. t \in Seq(PlanSteps) /\ Len(t) = 4 /\ Len(s) = 11
    BY <1>2, <1>5
  <2>2. QED
    BY <2>1, <1>1, <1>4, TwoJoined, ZenonT(30)
<1>7. /\ P \in Seq(PlanSteps) /\ Len(P) = 15
      /\ \A i \in 1 .. 11 : P[i] = s[i]
      /\ P[12] = t[1] /\ P[13] = t[2] /\ P[14] = t[3] /\ P[15] = t[4]
  BY <1>6 DEF IsJoined
<1>8. /\ P \in Seq(PlanSteps) /\ Len(P) = 15
      /\ P[1] = u(bin) /\ P[2] = w(bin) /\ P[3] = u("service")
      /\ P[4] = u("guardian") /\ P[5] = w("service") /\ P[6] = w("guardian")
      /\ P[7] = u("manifest") /\ P[8] = h /\ P[9] = w("token") /\ P[10] = r /\ P[11] = e
      /\ P[12] = k(bin) /\ P[13] = k("service") /\ P[14] = k("guardian") /\ P[15] = k("manifest")
  BY <1>2, <1>5, <1>7
<1>9. QED
  BY <1>3, <1>8, BinPaths DEF P, Does

LEMMA UninstallSteps ==
  ASSUME NEW bin \in Bins
  PROVE  LET P == UninstallPlan(bin)
         IN /\ P \in Seq(PlanSteps) /\ Len(P) = 13
            /\ Does(P, 1, "unlock", bin) /\ Does(P, 2, "unlock", "service")
            /\ Does(P, 3, "unlock", "guardian") /\ Does(P, 4, "unlock", "manifest")
            /\ Does(P, 5, "disable", "units") /\ Does(P, 6, "reload", "units")
            /\ Does(P, 7, "remove", "service") /\ Does(P, 8, "remove", "guardian")
            /\ Does(P, 9, "remove", bin) /\ Does(P, 10, "remove", "manifest")
            /\ Does(P, 11, "remove", "token")
            /\ Does(P, 12, "remove", "state") /\ Does(P, 13, "reload", "units")
<1> DEFINE u(p) == Step("unlock", p, TRUE)
           x(p) == Step("remove", p, FALSE)
           y == Step("disable", "units", TRUE)
           r == Step("reload", "units", TRUE)
           z == Step("remove", "state", TRUE)
           a == ForEach("unlock", Locked(bin), TRUE)
           b == <<y, r>>
           f == <<"service", "guardian", bin, "manifest", "token">>
           c == ForEach("remove", f, FALSE)
           d == <<z, r>>
           P == UninstallPlan(bin)
<1>1. P = ((a \o b) \o c) \o d
  BY DEF UninstallPlan
<1>2. /\ a \in Seq(PlanSteps) /\ Len(a) = 4
      /\ a[1] = u(bin) /\ a[2] = u("service") /\ a[3] = u("guardian") /\ a[4] = u("manifest")
  BY LockedSteps DEF Ops
<1>3. /\ \A p \in Paths : x(p) \in PlanSteps
      /\ y \in PlanSteps /\ r \in PlanSteps /\ z \in PlanSteps
      /\ \A p \in Paths : u(p).op = "unlock" /\ u(p).path = p /\ x(p).op = "remove" /\ x(p).path = p
      /\ y.op = "disable" /\ y.path = "units" /\ r.op = "reload" /\ r.path = "units"
      /\ z.op = "remove" /\ z.path = "state"
  <2>1. {"unlock", "remove", "disable", "reload"} \subseteq Ops /\ "state" \in Paths
    BY BinPaths DEF Ops
  <2>2. \A p \in Paths : u(p).op = "unlock" /\ u(p).path = p
    <3>1. "unlock" \in Ops /\ TRUE \in BOOLEAN /\ \A p \in Paths : p \in Paths \cup {"units"}
      BY <2>1
    <3>2. QED
      BY <3>1, StepForm
  <2>3. \A p \in Paths : x(p) \in PlanSteps /\ x(p).op = "remove" /\ x(p).path = p
    <3>1. "remove" \in Ops /\ FALSE \in BOOLEAN /\ \A p \in Paths : p \in Paths \cup {"units"}
      BY <2>1
    <3>2. QED
      BY <3>1, StepForm
  <2>4. y \in PlanSteps /\ y.op = "disable" /\ y.path = "units"
    <3>1. "disable" \in Ops /\ "units" \in Paths \cup {"units"} /\ TRUE \in BOOLEAN
      BY <2>1
    <3>2. QED
      BY <3>1, StepForm
  <2>5. r \in PlanSteps /\ r.op = "reload" /\ r.path = "units"
    <3>1. "reload" \in Ops /\ "units" \in Paths \cup {"units"} /\ TRUE \in BOOLEAN
      BY <2>1
    <3>2. QED
      BY <3>1, StepForm
  <2>6. z \in PlanSteps /\ z.op = "remove" /\ z.path = "state"
    <3>1. "remove" \in Ops /\ "state" \in Paths \cup {"units"} /\ TRUE \in BOOLEAN
      BY <2>1
    <3>2. QED
      BY <3>1, StepForm
  <2>7. QED
    BY <2>2, <2>3, <2>4, <2>5, <2>6
<1>4. c = [i \in DOMAIN f |-> x(f[i])]
  BY DEF ForEach
<1> HIDE DEF u, x, y, r, z, a, c, P
<1>5. /\ b \in Seq(PlanSteps) /\ Len(b) = 2 /\ b[1] = y /\ b[2] = r
      /\ d \in Seq(PlanSteps) /\ Len(d) = 2 /\ d[1] = z /\ d[2] = r
  BY <1>3
<1>6. /\ f \in [1 .. 5 -> Paths] /\ f[1] = "service" /\ f[2] = "guardian" /\ f[3] = bin
      /\ f[4] = "manifest" /\ f[5] = "token"
  <2>1. f \in Seq(Paths) /\ Len(f) = 5
    BY BinPaths
  <2>2. QED
    BY <2>1
<1> HIDE DEF b, d, f
<1>7. c \in [1 .. 5 -> PlanSteps] /\ \A i \in 1 .. 5 : c[i] = x(f[i])
  <2>1. DOMAIN f = 1 .. 5 /\ \A i \in 1 .. 5 : f[i] \in Paths
    BY <1>6
  <2>2. \A i \in 1 .. 5 : x(f[i]) \in PlanSteps
    BY <2>1, <1>3
  <2>3. c = [i \in 1 .. 5 |-> x(f[i])]
    BY <1>4, <2>1
  <2>4. QED
    BY <2>2, <2>3
<1>8. c \in Seq(PlanSteps) /\ Len(c) = 5
  <2>1. c \in [1 .. 5 -> PlanSteps] /\ 5 \in Nat
    BY <1>7
  <2>2. QED
    BY <2>1, IndexedSeq, ZenonT(30)
<1> DEFINE ab == a \o b
           abc == ab \o c
<1>s. /\ a \in Seq(PlanSteps) /\ Len(a) = 4 /\ b \in Seq(PlanSteps) /\ Len(b) = 2
      /\ c \in Seq(PlanSteps) /\ Len(c) = 5 /\ d \in Seq(PlanSteps) /\ Len(d) = 2
  BY <1>2, <1>5, <1>8
<1>9. IsJoined(ab, a, 4, b, 2, PlanSteps)
  BY <1>s, TwoJoined, ZenonT(30)
<1> HIDE DEF ab
<1>10. /\ ab \in Seq(PlanSteps) /\ Len(ab) = 6 /\ \A i \in 1 .. 4 : ab[i] = a[i]
       /\ ab[5] = b[1] /\ ab[6] = b[2]
  BY <1>9 DEF IsJoined
<1>11. IsJoined(abc, ab, 6, c, 5, PlanSteps)
  BY <1>s, <1>10, TwoJoined, ZenonT(30)
<1>12. P = abc \o d
  BY <1>1 DEF ab
<1> HIDE DEF abc
<1>13. /\ abc \in Seq(PlanSteps) /\ Len(abc) = 11 /\ \A i \in 1 .. 6 : abc[i] = ab[i]
       /\ abc[7] = c[1] /\ abc[8] = c[2] /\ abc[9] = c[3] /\ abc[10] = c[4] /\ abc[11] = c[5]
  BY <1>11 DEF IsJoined
<1>14. IsJoined(P, abc, 11, d, 2, PlanSteps)
  BY <1>s, <1>12, <1>13, TwoJoined, ZenonT(30)
<1>c. /\ P \in Seq(PlanSteps) /\ Len(P) = 13 /\ \A i \in 1 .. 11 : P[i] = abc[i]
      /\ P[12] = d[1] /\ P[13] = d[2]
  BY <1>14 DEF IsJoined
<1>15. /\ P \in Seq(PlanSteps) /\ Len(P) = 13
       /\ \A i \in 1 .. 4 : P[i] = a[i]
       /\ P[5] = b[1] /\ P[6] = b[2]
       /\ P[7] = c[1] /\ P[8] = c[2] /\ P[9] = c[3] /\ P[10] = c[4] /\ P[11] = c[5]
       /\ P[12] = d[1] /\ P[13] = d[2]
  <2>1. \A i \in 1 .. 4 : P[i] = a[i]
    <3>1. \A i \in 1 .. 4 : i \in 1 .. 6 /\ i \in 1 .. 11
      OBVIOUS
    <3>2. QED
      BY Zenon, <1>10, <1>13, <1>c, <3>1
  <2>2. P[5] = b[1] /\ P[6] = b[2]
    <3>1. {5, 6} \subseteq 1 .. 6 /\ {5, 6} \subseteq 1 .. 11
      OBVIOUS
    <3>2. QED
      BY Zenon, <1>10, <1>13, <1>c, <3>1
  <2>3. P[7] = c[1] /\ P[8] = c[2] /\ P[9] = c[3] /\ P[10] = c[4] /\ P[11] = c[5]
    <3>1. {7, 8, 9, 10, 11} \subseteq 1 .. 11
      OBVIOUS
    <3>2. QED
      BY Zenon, <1>13, <1>c, <3>1
  <2>4. QED
    BY Zenon, <2>1, <2>2, <2>3, <1>c
<1>16. /\ P[1] = u(bin) /\ P[2] = u("service") /\ P[3] = u("guardian") /\ P[4] = u("manifest")
       /\ P[5] = y /\ P[6] = r
       /\ P[7] = x("service") /\ P[8] = x("guardian") /\ P[9] = x(bin) /\ P[10] = x("manifest")
       /\ P[11] = x("token") /\ P[12] = z /\ P[13] = r
  <2>1. P[1] = u(bin) /\ P[2] = u("service") /\ P[3] = u("guardian") /\ P[4] = u("manifest")
    <3>1. {1, 2, 3, 4} \subseteq 1 .. 4
      OBVIOUS
    <3>2. QED
      BY Zenon, <1>2, <1>15, <3>1
  <2>2. P[5] = y /\ P[6] = r /\ P[12] = z /\ P[13] = r
    BY Zenon, <1>5, <1>15
  <2>3. /\ P[7] = x("service") /\ P[8] = x("guardian") /\ P[9] = x(bin) /\ P[10] = x("manifest")
        /\ P[11] = x("token")
    <3>1. P[7] = c[1] /\ P[8] = c[2] /\ P[9] = c[3] /\ P[10] = c[4] /\ P[11] = c[5]
      BY <1>15
    <3>2. c[1] = x("service") /\ c[2] = x("guardian") /\ c[3] = x(bin) /\ c[4] = x("manifest")
          /\ c[5] = x("token")
      <4>1. {1, 2, 3, 4, 5} \subseteq 1 .. 5
        OBVIOUS
      <4>2. QED
        BY Zenon, <1>6, <1>7, <4>1
    <3>3. QED
      BY Zenon, <3>1, <3>2
  <2>4. QED
    BY Zenon, <2>1, <2>2, <2>3
<1>17. QED
  BY <1>3, <1>15, <1>16, BinPaths DEF P, Does

(* What the two plans have in common: nothing but locks comes after a      *)
(* lock; what is written or removed was unlocked before, but for the two   *)
(* files that are never locked; the manifest is taken after everything it  *)
(* covers was written; a plan that removes or stops writes nothing and     *)
(* starts nothing.                                                         *)
SoundPlan(P, bin) ==
  /\ P[Len(P)].op \in {"lock", "reload"}
  /\ \A i \in 1 .. Len(P) :
       /\ P[i] \in PlanSteps /\ (P[i].op \in OnFile => P[i].path \in Paths)
       /\ P[i].op # "lock" => NoLock(P, i)
       /\ P[i].op = "lock" => P[i].path \notin {"token", "state"}
       /\ P[i].op \in {"write", "hash", "remove"} =>
            \/ P[i].path \in {"token", "state"}
            \/ \E k \in 1 .. i - 1 : P[k].op = "unlock" /\ P[k].path = P[i].path
       /\ P[i].op = "hash" =>
            \A p \in Protected(bin) :
              \E k \in 1 .. i - 1 : P[k].op = "write" /\ P[k].path = p
       /\ P[i].op \in {"remove", "disable"} =>
            \A k \in 1 .. Len(P) : P[k].op \notin {"write", "hash", "lock", "enable"}

LEMMA InstallIsSound ==
  ASSUME NEW bin \in Bins
  PROVE  SoundPlan(InstallPlan(bin), bin)
<1> DEFINE P == InstallPlan(bin)
<1>1. /\ P \in Seq(PlanSteps) /\ Len(P) = 15
      /\ P[1].op = "unlock" /\ P[3].op = "unlock" /\ P[4].op = "unlock" /\ P[7].op = "unlock"
      /\ P[2].op = "write" /\ P[5].op = "write" /\ P[6].op = "write" /\ P[9].op = "write"
      /\ P[8].op = "hash" /\ P[10].op = "reload" /\ P[11].op = "enable"
      /\ P[12].op = "lock" /\ P[13].op = "lock" /\ P[14].op = "lock" /\ P[15].op = "lock"
  BY InstallSteps DEF Does
<1>2. /\ P[1].path = bin /\ P[3].path = "service" /\ P[4].path = "guardian"
      /\ P[7].path = "manifest"
      /\ P[2].path = bin /\ P[5].path = "service" /\ P[6].path = "guardian"
      /\ P[9].path = "token" /\ P[8].path = "manifest"
      /\ P[12].path = bin /\ P[13].path = "service" /\ P[14].path = "guardian"
      /\ P[15].path = "manifest"
  BY InstallSteps DEF Does
<1> HIDE DEF P
<1>3. ASSUME NEW i \in 1 .. 15
      PROVE  \/ i \in {1, 3, 4, 7} /\ P[i].op = "unlock"
             \/ i \in {2, 5, 6, 9} /\ P[i].op = "write"
             \/ i = 8 /\ P[i].op = "hash"
             \/ i \in {10, 11} /\ P[i].op \in {"reload", "enable"}
             \/ i \in 12 .. 15 /\ P[i].op = "lock"
  <2>1. \/ i = 1 \/ i = 2 \/ i = 3 \/ i = 4 \/ i = 5 \/ i = 6 \/ i = 7 \/ i = 8 \/ i = 9
        \/ i = 10 \/ i = 11 \/ i = 12 \/ i = 13 \/ i = 14 \/ i = 15
    BY <1>3
  <2>2. CASE i = 1 \/ i = 3 \/ i = 4 \/ i = 7
    BY Zenon, <1>1, <2>2
  <2>3. CASE i = 2 \/ i = 5 \/ i = 6 \/ i = 9
    BY Zenon, <1>1, <2>3
  <2>4. CASE i = 8
    BY Zenon, <1>1, <2>4
  <2>5. CASE i = 10 \/ i = 11
    BY Zenon, <1>1, <2>5
  <2>6. CASE i = 12 \/ i = 13 \/ i = 14 \/ i = 15
    <3>1. i \in 12 .. 15
      BY <2>6
    <3>2. P[i].op = "lock"
      BY Zenon, <1>1, <2>6
    <3>3. QED
      BY Zenon, <3>1, <3>2
  <2>7. QED
    BY Zenon, <2>1, <2>2, <2>3, <2>4, <2>5, <2>6
<1>4. /\ bin \in Paths /\ {"service", "guardian", "manifest", "token", "state"} \subseteq Paths
      /\ Protected(bin) = {bin, "service", "guardian"}
      /\ bin \notin {"service", "guardian", "manifest", "token", "state"}
  BY BinPaths
<1>5. ASSUME NEW i \in 1 .. 15
      PROVE  /\ P[i] \in PlanSteps /\ (P[i].op \in OnFile => P[i].path \in Paths)
             /\ P[i].op # "lock" => NoLock(P, i)
             /\ P[i].op = "lock" => P[i].path \notin {"token", "state"}
             /\ P[i].op \in {"write", "hash", "remove"} =>
                  \/ P[i].path \in {"token", "state"}
                  \/ \E k \in 1 .. i - 1 : P[k].op = "unlock" /\ P[k].path = P[i].path
             /\ P[i].op = "hash" =>
                  \A p \in Protected(bin) :
                    \E k \in 1 .. i - 1 : P[k].op = "write" /\ P[k].path = p
             /\ P[i].op \in {"remove", "disable"} =>
                  \A k \in 1 .. 15 : P[k].op \notin {"write", "hash", "lock", "enable"}
  <2>0. P[i] \in PlanSteps
    <3>1. P \in Seq(PlanSteps)
      BY <1>1
    <3>2. \A k \in 1 .. Len(P) : P[k] \in PlanSteps
      BY <3>1
    <3>3. QED
      BY <1>1, <1>5, <3>2
  <2>1. CASE i \in {1, 3, 4, 7} /\ P[i].op = "unlock"
    <3>1. P[i].path \in Paths
      BY <1>2, <1>4, <2>1
    <3>2. NoLock(P, i)
      <4>1. ASSUME NEW j \in 1 .. i - 1 PROVE P[j].op # "lock"
        BY <1>3, <2>1, <4>1
      <4>2. QED
        BY <4>1 DEF NoLock
    <3>3. QED
      BY <2>0, <2>1, <3>1, <3>2
  <2>2. CASE i \in {2, 5, 6, 9} /\ P[i].op = "write"
    <3>1. P[i].path \in Paths
      BY <1>2, <1>4, <2>2
    <3>2. NoLock(P, i)
      <4>1. ASSUME NEW j \in 1 .. i - 1 PROVE P[j].op # "lock"
        BY <1>3, <2>2, <4>1
      <4>2. QED
        BY <4>1 DEF NoLock
    <3>3. \/ P[i].path \in {"token", "state"}
          \/ \E k \in 1 .. i - 1 : P[k].op = "unlock" /\ P[k].path = P[i].path
      <4>1. /\ P[2].path = P[1].path /\ 1 \in 1 .. 2 - 1 /\ P[5].path = P[3].path
            /\ 3 \in 1 .. 5 - 1 /\ P[6].path = P[4].path /\ 4 \in 1 .. 6 - 1
        BY <1>2
      <4>2. CASE i = 2
        BY Zenon, <1>1, <4>1, <4>2
      <4>3. CASE i = 5
        BY Zenon, <1>1, <4>1, <4>3
      <4>4. CASE i = 6
        BY Zenon, <1>1, <4>1, <4>4
      <4>5. CASE i = 9
        BY Zenon, <1>2, <4>5
      <4>6. QED
        BY Zenon, <2>2, <4>2, <4>3, <4>4, <4>5
    <3>4. QED
      BY <2>0, <2>2, <3>1, <3>2, <3>3
  <2>3. CASE i = 8 /\ P[i].op = "hash"
    <3>1. P[i].path \in Paths
      BY <1>2, <1>4, <2>3
    <3>2. NoLock(P, i)
      <4>1. ASSUME NEW j \in 1 .. i - 1 PROVE P[j].op # "lock"
        BY <1>3, <2>3, <4>1
      <4>2. QED
        BY <4>1 DEF NoLock
    <3>3. \E k \in 1 .. i - 1 : P[k].op = "unlock" /\ P[k].path = P[i].path
      <4>1. 7 \in 1 .. i - 1 /\ P[7].op = "unlock" /\ P[7].path = P[i].path
        BY <1>1, <1>2, <2>3
      <4>2. QED
        BY <4>1
    <3>4. ASSUME NEW p \in Protected(bin)
          PROVE  \E k \in 1 .. i - 1 : P[k].op = "write" /\ P[k].path = p
      <4>1. /\ 2 \in 1 .. i - 1 /\ 5 \in 1 .. i - 1 /\ 6 \in 1 .. i - 1
            /\ P[2].op = "write" /\ P[5].op = "write" /\ P[6].op = "write"
        BY <1>1, <2>3
      <4>2. p = P[2].path \/ p = P[5].path \/ p = P[6].path
        BY <1>2, <1>4, <3>4
      <4>3. QED
        BY <4>1, <4>2
    <3>5. QED
      BY <2>0, <2>3, <3>1, <3>2, <3>3, <3>4
  <2>4. CASE i \in {10, 11} /\ P[i].op \in {"reload", "enable"}
    <3>1. NoLock(P, i)
      <4>1. ASSUME NEW j \in 1 .. i - 1 PROVE P[j].op # "lock"
        BY <1>3, <2>4, <4>1
      <4>2. QED
        BY <4>1 DEF NoLock
    <3>2. QED
      BY <2>0, <2>4, <3>1 DEF OnFile
  <2>5. CASE i \in 12 .. 15 /\ P[i].op = "lock"
    <3>1. i = 12 \/ i = 13 \/ i = 14 \/ i = 15
      BY <2>5
    <3>2. P[i].path \in Paths /\ P[i].path \notin {"token", "state"}
      <4>1. CASE i = 12
        BY Zenon, <1>2, <1>4, <4>1
      <4>2. CASE i = 13
        BY <1>2, <1>4, <4>2
      <4>3. CASE i = 14
        BY <1>2, <1>4, <4>3
      <4>4. CASE i = 15
        BY <1>2, <1>4, <4>4
      <4>5. QED
        BY Zenon, <3>1, <4>1, <4>2, <4>3, <4>4
    <3>3. QED
      BY <2>0, <2>5, <3>2
  <2>6. QED
    BY <1>3, <1>5, <2>1, <2>2, <2>3, <2>4, <2>5
<1>6. P[Len(P)].op \in {"lock", "reload"}
  <2>1. Len(P) = 15
    BY <1>1
  <2>2. P[15].op = "lock"
    BY <1>1, ZenonT(30)
  <2>3. QED
    BY Zenon, <2>1, <2>2
<1>7. SoundPlan(P, bin)
  <2>1. Len(P) = 15
    BY <1>1
  <2>2. QED
    BY <1>5, <1>6, <2>1 DEF SoundPlan
<1>8. QED
  BY Zenon, <1>7 DEF P

LEMMA UninstallIsSound ==
  ASSUME NEW bin \in Bins
  PROVE  SoundPlan(UninstallPlan(bin), bin)
<1> DEFINE P == UninstallPlan(bin)
<1>1. /\ P \in Seq(PlanSteps) /\ Len(P) = 13
      /\ P[1].op = "unlock" /\ P[2].op = "unlock" /\ P[3].op = "unlock" /\ P[4].op = "unlock"
      /\ P[5].op = "disable" /\ P[6].op = "reload"
      /\ P[7].op = "remove" /\ P[8].op = "remove" /\ P[9].op = "remove" /\ P[10].op = "remove"
      /\ P[11].op = "remove" /\ P[12].op = "remove" /\ P[13].op = "reload"
  BY UninstallSteps DEF Does
<1>2. /\ P[1].path = bin /\ P[2].path = "service" /\ P[3].path = "guardian"
      /\ P[4].path = "manifest"
      /\ P[7].path = "service" /\ P[8].path = "guardian" /\ P[9].path = bin
      /\ P[10].path = "manifest" /\ P[11].path = "token" /\ P[12].path = "state"
  BY UninstallSteps DEF Does
<1> HIDE DEF P
<1>3. ASSUME NEW i \in 1 .. 13
      PROVE  \/ i \in {1, 2, 3, 4} /\ P[i].op = "unlock"
             \/ i \in {5, 6, 13} /\ P[i].op \in {"disable", "reload"}
             \/ i \in 7 .. 12 /\ P[i].op = "remove"
  <2>1. \/ i = 1 \/ i = 2 \/ i = 3 \/ i = 4 \/ i = 5 \/ i = 6 \/ i = 7 \/ i = 8 \/ i = 9
        \/ i = 10 \/ i = 11 \/ i = 12 \/ i = 13
    BY <1>3
  <2>2. CASE i = 1 \/ i = 2 \/ i = 3 \/ i = 4
    BY Zenon, <1>1, <2>2
  <2>3. CASE i = 5 \/ i = 6 \/ i = 13
    BY Zenon, <1>1, <2>3
  <2>4. CASE i = 7 \/ i = 8 \/ i = 9 \/ i = 10 \/ i = 11 \/ i = 12
    <3>1. i \in 7 .. 12
      BY <2>4
    <3>2. P[i].op = "remove"
      BY Zenon, <1>1, <2>4
    <3>3. QED
      BY Zenon, <3>1, <3>2
  <2>5. QED
    BY Zenon, <2>1, <2>2, <2>3, <2>4
<1>4. /\ bin \in Paths /\ {"service", "guardian", "manifest", "token", "state"} \subseteq Paths
  BY BinPaths
<1>5. \A k \in 1 .. 13 : P[k].op \notin {"write", "hash", "lock", "enable"}
  BY <1>3
<1>6. ASSUME NEW i \in 1 .. 13
      PROVE  /\ P[i] \in PlanSteps /\ (P[i].op \in OnFile => P[i].path \in Paths)
             /\ NoLock(P, i)
             /\ P[i].op = "remove" =>
                  \/ P[i].path \in {"token", "state"}
                  \/ \E k \in 1 .. i - 1 : P[k].op = "unlock" /\ P[k].path = P[i].path
  <2>0. P[i] \in PlanSteps
    <3>1. P \in Seq(PlanSteps)
      BY <1>1
    <3>2. \A k \in 1 .. Len(P) : P[k] \in PlanSteps
      BY <3>1
    <3>3. QED
      BY <1>1, <1>6, <3>2
  <2>1. NoLock(P, i)
    BY <1>5 DEF NoLock
  <2>2. CASE i \in {1, 2, 3, 4} /\ P[i].op = "unlock"
    BY <1>2, <1>4, <2>0, <2>1, <2>2
  <2>3. CASE i \in {5, 6, 13} /\ P[i].op \in {"disable", "reload"}
    BY <2>0, <2>1, <2>3 DEF OnFile
  <2>4. CASE i \in 7 .. 12 /\ P[i].op = "remove"
    <3>1. i = 7 \/ i = 8 \/ i = 9 \/ i = 10 \/ i = 11 \/ i = 12
      BY <2>4
    <3>2. P[i].path \in Paths
      BY <1>2, <1>4, <3>1
    <3>3. {1, 2, 3, 4} \subseteq 1 .. i - 1
      BY <3>1
    <3>4. \/ P[i].path \in {"token", "state"} \/ P[i].path = P[1].path
          \/ P[i].path = P[2].path \/ P[i].path = P[3].path \/ P[i].path = P[4].path
      BY <1>2, <3>1
    <3>5. \/ P[i].path \in {"token", "state"}
          \/ \E k \in 1 .. i - 1 : P[k].op = "unlock" /\ P[k].path = P[i].path
      <4>1. P[1].op = "unlock" /\ P[2].op = "unlock" /\ P[3].op = "unlock" /\ P[4].op = "unlock"
        BY <1>1
      <4>2. 1 \in 1 .. i - 1 /\ 2 \in 1 .. i - 1 /\ 3 \in 1 .. i - 1 /\ 4 \in 1 .. i - 1
        BY <3>3
      <4>3. QED
        BY Zenon, <3>4, <4>1, <4>2
    <3>6. QED
      BY <2>0, <2>1, <2>4, <3>2, <3>5
  <2>5. \/ i \in {1, 2, 3, 4} /\ P[i].op = "unlock"
        \/ i \in {5, 6, 13} /\ P[i].op \in {"disable", "reload"}
        \/ i \in 7 .. 12 /\ P[i].op = "remove"
    BY Zenon, <1>3
  <2>6. QED
    BY Zenon, <2>2, <2>3, <2>4, <2>5
<1>7. P[Len(P)].op \in {"lock", "reload"}
  <2>1. Len(P) = 13
    BY <1>1
  <2>2. P[13].op = "reload"
    BY <1>1, ZenonT(30)
  <2>3. QED
    BY Zenon, <2>1, <2>2
<1>8. SoundPlan(P, bin)
  <2>1. Len(P) = 13
    BY <1>1
  <2>2. QED
    BY <1>5, <1>6, <1>7, <2>1 DEF SoundPlan
<1>9. QED
  BY Zenon, <1>8 DEF P

(* What is behind a plan when it is finished, and that the two differ.     *)
Installs(P, bin) ==
  /\ \A p \in Protected(bin) : \E k \in 1 .. Len(P) : P[k].op = "write" /\ P[k].path = p
  /\ \A p \in Protected(bin) : \E k \in 1 .. Len(P) : P[k].op = "lock" /\ P[k].path = p
  /\ \E k \in 1 .. Len(P) : P[k].op = "hash" /\ P[k].path = "manifest"
  /\ \E k \in 1 .. Len(P) : P[k].op = "write" /\ P[k].path = "token"
Removes(P, bin) ==
  /\ \A p \in Protected(bin) \cup {"manifest", "token", "state"} :
       \E k \in 1 .. Len(P) : P[k].op = "remove" /\ P[k].path = p
  /\ \E k \in 1 .. Len(P) : P[k].op = "disable"

LEMMA InstallIsComplete ==
  ASSUME NEW bin \in Bins
  PROVE  Installs(InstallPlan(bin), bin)
<1> DEFINE P == InstallPlan(bin)
<1>1. /\ Len(P) = 15
      /\ P[2].op = "write" /\ P[5].op = "write" /\ P[6].op = "write" /\ P[9].op = "write"
      /\ P[2].path = bin /\ P[5].path = "service" /\ P[6].path = "guardian"
      /\ P[9].path = "token" /\ P[8].op = "hash" /\ P[8].path = "manifest"
      /\ P[12].op = "lock" /\ P[13].op = "lock" /\ P[14].op = "lock"
      /\ P[12].path = bin /\ P[13].path = "service" /\ P[14].path = "guardian"
  BY InstallSteps DEF Does
<1> HIDE DEF P
<1>2. {2, 5, 6, 8, 9, 12, 13, 14} \subseteq 1 .. Len(P)
  BY <1>1
<1>3. Protected(bin) = {bin, "service", "guardian"}
  BY BinPaths
<1>4. \A p \in Protected(bin) : \E k \in 1 .. Len(P) : P[k].op = "write" /\ P[k].path = p
  BY <1>1, <1>2, <1>3
<1>5. \A p \in Protected(bin) : \E k \in 1 .. Len(P) : P[k].op = "lock" /\ P[k].path = p
  BY <1>1, <1>2, <1>3
<1>6. /\ \E k \in 1 .. Len(P) : P[k].op = "hash" /\ P[k].path = "manifest"
      /\ \E k \in 1 .. Len(P) : P[k].op = "write" /\ P[k].path = "token"
  BY <1>1, <1>2
<1>7. QED
  BY <1>4, <1>5, <1>6, Zenon DEF Installs, P

LEMMA UninstallIsComplete ==
  ASSUME NEW bin \in Bins
  PROVE  Removes(UninstallPlan(bin), bin)
<1> DEFINE P == UninstallPlan(bin)
<1>1. /\ Len(P) = 13 /\ P[5].op = "disable"
      /\ P[7].op = "remove" /\ P[8].op = "remove" /\ P[9].op = "remove" /\ P[10].op = "remove"
      /\ P[11].op = "remove" /\ P[12].op = "remove"
      /\ P[7].path = "service" /\ P[8].path = "guardian" /\ P[9].path = bin
      /\ P[10].path = "manifest" /\ P[11].path = "token" /\ P[12].path = "state"
  BY UninstallSteps DEF Does
<1> HIDE DEF P
<1>2. {5, 7, 8, 9, 10, 11, 12} \subseteq 1 .. Len(P)
  BY <1>1
<1>3. Protected(bin) = {bin, "service", "guardian"}
  BY BinPaths
<1>4. \A p \in Protected(bin) \cup {"manifest", "token", "state"} :
        \E k \in 1 .. Len(P) : P[k].op = "remove" /\ P[k].path = p
  BY <1>1, <1>2, <1>3
<1>5. QED
  BY <1>1, <1>2, <1>4, Zenon DEF Removes, P

LEMMA PlansDiffer ==
  ASSUME NEW bin \in Bins
  PROVE  /\ InstallPlan(bin) # UninstallPlan(bin)
         /\ InstallPlan(bin) # <<>> /\ UninstallPlan(bin) # <<>>
         /\ Len(InstallPlan(bin)) = 15 /\ Len(UninstallPlan(bin)) = 13
         /\ InstallPlan(bin) \in Seq(PlanSteps) /\ UninstallPlan(bin) \in Seq(PlanSteps)
<1> DEFINE P == InstallPlan(bin)
           Q == UninstallPlan(bin)
<1>1. P \in Seq(PlanSteps) /\ Q \in Seq(PlanSteps) /\ Len(P) = 15 /\ Len(Q) = 13
  BY InstallSteps, UninstallSteps
<1> HIDE DEF P, Q
<1>2. P # Q /\ P # <<>> /\ Q # <<>>
  <2>1. 15 # 13 /\ 15 # 0 /\ 13 # 0 /\ Len(<<>>) = 0
    OBVIOUS
  <2>2. QED
    BY <1>1, <2>1, ZenonT(30)
<1>3. QED
  BY <1>1, <1>2 DEF P, Q

-----------------------------------------------------------------------------
(* The command.                                                            *)
Doing(P, b, n) == /\ job # NoCommand /\ job.plan = P /\ job.bin = b /\ job.at = n
                  /\ b \in Bins /\ n \in 1 .. Len(P) /\ P \in Seq(PlanSteps)
                  /\ P \in {InstallPlan(b), UninstallPlan(b)}
                  /\ Behind(P, b, n)

LEMMA SomeoneIsDoing ==
  ASSUME JobForm, JobDone, Busying
  PROVE  \E P, b, n : Doing(P, b, n) /\ SoundPlan(P, b)
<1> DEFINE P == job.plan
           b == job.bin
           n == job.at
<1>1. P \in Seq(PlanSteps) /\ b \in Bins /\ n \in 1 .. Len(P)
  BY DEF JobForm
<1>2. P \in {InstallPlan(b), UninstallPlan(b)}
  BY DEF JobForm
<1>3. Behind(P, b, n)
  BY DEF JobDone
<1>4. Doing(P, b, n)
  BY <1>1, <1>2, <1>3, Zenon DEF Doing, Busying
<1>5. SoundPlan(P, b)
  <2>1. CASE P = InstallPlan(b)
    BY <1>1, <2>1, InstallIsSound, Zenon
  <2>2. CASE P = UninstallPlan(b)
    BY <1>1, <2>2, UninstallIsSound, Zenon
  <2>3. QED
    BY <1>2, <2>1, <2>2
<1>6. QED
  BY <1>4, <1>5, Zenon

(* A step that is behind the command is not undone by one that changes     *)
(* nothing it speaks of.                                                   *)
LEMMA StaysDone ==
  ASSUME NEW P, NEW b, NEW i, NEW n \in Nat, NEW m, m = n + 1,
         StepDone(P, b, i, n),
         disk' = disk, baseline' = baseline, recorded' = recorded,
         degraded \subseteq degraded', Stopped => Stopped'
  PROVE  StepDone(P, b, i, m)'
<1>1. NoLock(P, m) => NoLock(P, n)
  BY DEF NoLock
<1>2. QED
  BY <1>1 DEF StepDone, Whole, CheckImmutable, Exists

(* The end of a successful step, and of the plan if it was the last.       *)
LEMMA AdvanceKeeps ==
  ASSUME NEW P, NEW b, NEW n, NEW m, m = n + 1, Doing(P, b, n), Advance,
         EndpointForm', NeverLocked', JobForm, ~(tamper'.settled),
         P = UninstallPlan(b) => b = BinInUse',
         \A i \in 1 .. n : StepDone(P, b, i, m)'
  PROVE  EndpointInv'
<1>0. /\ job # NoCommand /\ job.plan = P /\ job.bin = b /\ job.at = n
      /\ b \in Bins /\ n \in 1 .. Len(P) /\ P \in Seq(PlanSteps) /\ n \in Nat
      /\ P \in {InstallPlan(b), UninstallPlan(b)}
  BY DEF Doing
<1>1. SettledAgent'
  BY DEF SettledAgent
<1>2. CASE n = Len(P)
  <2>1. job' = NoCommand /\ last' = IF P = InstallPlan(b) THEN "installed" ELSE "removed"
    BY <1>0, <1>2, Zenon DEF Advance
  <2>2. JobForm' /\ JobDone' /\ Removal'
    <3>1. NoCommand \in [plan : Seq(PlanSteps), at : Nat, bin : Bins \cup {"none"}]
      <4>1. <<>> \in Seq(PlanSteps) /\ 1 \in Nat
        OBVIOUS
      <4>2. QED
        BY <4>1 DEF NoCommand
    <3>2. ~Busying'
      BY <2>1 DEF Busying
    <3>3. QED
      BY <2>1, <3>1, <3>2, Zenon DEF JobForm, JobDone, Removal
  <2>3. HealthyDisk'
    <3>1. SUFFICES ASSUME P = InstallPlan(b)
                   PROVE  HealthyDisk'
      BY <2>1 DEF HealthyDisk, Installed
    <3>2. /\ \A p \in Protected(b) : \E k \in 1 .. Len(P) : P[k].op = "write" /\ P[k].path = p
          /\ \A p \in Protected(b) : \E k \in 1 .. Len(P) : P[k].op = "lock" /\ P[k].path = p
          /\ \E k \in 1 .. Len(P) : P[k].op = "hash" /\ P[k].path = "manifest"
          /\ \E k \in 1 .. Len(P) : P[k].op = "write" /\ P[k].path = "token"
      <4>1. Installs(P, b)
        BY <1>0, <3>1, InstallIsComplete, Zenon
      <4>2. QED
        BY <4>1 DEF Installs
    <3>3. \A k \in 1 .. Len(P) : StepDone(P, b, k, m)'
      BY <1>2
    <3>4. recorded' = b
      BY <3>2, <3>3 DEF StepDone
    <3>5. (Whole("manifest"))' /\ baseline' = Pristine(b)
      BY <3>2, <3>3 DEF StepDone
    <3>6. \A p \in Protected(b) : Whole(p)'
      BY <3>2, <3>3 DEF StepDone
    <3>7. \A p \in Protected(b) : CheckImmutable(disk', p)
      BY <3>2, <3>3 DEF StepDone
    <3>8. QED
      BY <3>4, <3>5, <3>6, <3>7, Zenon DEF HealthyDisk
  <2>4. UninstallRemoves'
    <3>1. SUFFICES ASSUME P # InstallPlan(b)
                   PROVE  UninstallRemoves'
      BY <2>1 DEF UninstallRemoves, Removed
    <3>2. P = UninstallPlan(b) /\ b = BinInUse'
      BY <1>0, <3>1
    <3>3. /\ \A p \in Protected(b) \cup {"manifest", "token", "state"} :
               \E k \in 1 .. Len(P) : P[k].op = "remove" /\ P[k].path = p
          /\ \E k \in 1 .. Len(P) : P[k].op = "disable"
      <4>1. Removes(P, b)
        BY <1>0, <3>2, UninstallIsComplete, Zenon
      <4>2. QED
        BY <4>1 DEF Removes
    <3>4. \A k \in 1 .. Len(P) : StepDone(P, b, k, m)'
      BY <1>2
    <3>5. \A p \in Protected(b) \cup {"manifest", "token", "state"} : ~Exists(disk', p)
      <4> SUFFICES ASSUME NEW p \in Protected(b) \cup {"manifest", "token", "state"}
                   PROVE  ~Exists(disk', p)
        OBVIOUS
      <4>1. PICK k \in 1 .. Len(P) : P[k].op = "remove" /\ P[k].path = p
        BY Zenon, <3>3
      <4>2. StepDone(P, b, k, m)'
        BY Zenon, <3>4
      <4>3. QED
        BY <4>1, <4>2 DEF StepDone
    <3>6. "systemctl" \notin degraded' => Stopped'
      BY <3>3, <3>4 DEF StepDone
    <3>7. QED
      BY <3>2, <3>5, <3>6, Zenon DEF UninstallRemoves, Removed, BinInUse, Stopped
  <2>5. QED
    BY <1>1, <2>2, <2>3, <2>4 DEF EndpointInv
<1>3. CASE n # Len(P)
  <2>1. job' = [job EXCEPT !.at = n + 1] /\ last' = last
    <3>1. job' = [job EXCEPT !.at = @ + 1] /\ last' = last
      BY <1>0, <1>3, Zenon DEF Advance
    <3>2. QED
      BY <1>0, <3>1
  <2>2. /\ job' \in [plan : Seq(PlanSteps), at : Nat, bin : Bins \cup {"none"}]
        /\ job'.plan = P /\ job'.bin = b /\ job'.at = n + 1 /\ n + 1 \in 1 .. Len(P)
    BY <1>0, <1>3, <2>1 DEF JobForm
  <2>3. Busying'
    <3>1. P # <<>>
      BY <1>0, PlansDiffer, Zenon
    <3>2. QED
      BY <2>2, <3>1 DEF Busying, NoCommand
  <2>4. JobForm'
    BY <1>0, <2>2, Zenon DEF JobForm
  <2>5. JobDone'
    <3>1. Behind(P, b, m)'
      <4>1. m - 1 = n
        BY <1>0
      <4>2. QED
        BY <4>1, Zenon DEF Behind
    <3>2. QED
      BY <2>2, <3>1, Zenon DEF JobDone
  <2>6. Removal'
    BY <2>2, Zenon DEF Removal
  <2>7. HealthyDisk' /\ UninstallRemoves'
    BY <2>3, Zenon DEF HealthyDisk, UninstallRemoves, Removed, Installed, Busying
  <2>8. QED
    BY <1>1, <2>4, <2>5, <2>6, <2>7 DEF EndpointInv
<1>4. QED
  BY <1>2, <1>3

(* A command that goes no further leaves only what holds of every disk.    *)
LEMMA StoppingKeeps ==
  ASSUME EndpointForm', NeverLocked', job' = NoCommand, ~(tamper'.settled),
         last' \notin {"installed", "removed"}
  PROVE  EndpointInv'
<1>1. NoCommand \in [plan : Seq(PlanSteps), at : Nat, bin : Bins \cup {"none"}]
  <2>1. <<>> \in Seq(PlanSteps) /\ 1 \in Nat
    OBVIOUS
  <2>2. QED
    BY <2>1 DEF NoCommand
<1>2. ~Busying'
  BY DEF Busying
<1>3. JobForm' /\ JobDone' /\ Removal'
  BY <1>1, <1>2, Zenon DEF JobForm, JobDone, Removal
<1>4. HealthyDisk' /\ UninstallRemoves' /\ SettledAgent'
  BY DEF HealthyDisk, UninstallRemoves, Removed, SettledAgent, Installed
<1>5. QED
  BY <1>3, <1>4 DEF EndpointInv

(* While a command runs no agent counts as settled, and a command begins   *)
(* by saying so.                                                           *)
LEMMA BusyIsUnsettled ==
  ASSUME SettledAgent, Busying
  PROVE  ~tamper.settled
BY DEF SettledAgent, Installed, Busying

-----------------------------------------------------------------------------
(* What the operations on files do.                                        *)
LEMMA Unlocking ==
  ASSUME disk \in [Paths -> AnyFile], NEW p \in Paths, disk' = SetImmutable(disk, p, FALSE)
  PROVE  /\ disk' \in [Paths -> AnyFile] /\ ~CheckImmutable(disk', p)
         /\ \A q \in Paths : /\ (Whole(q))' <=> Whole(q)
                             /\ CheckImmutable(disk', q) => CheckImmutable(disk, q)
                             /\ ~Exists(disk, q) => ~Exists(disk', q)
<1>1. CASE Exists(disk, p)
  <2> DEFINE x == disk[p].flags \ {"immutable"}
  <2>0. disk[p] \in AnyFile
    OBVIOUS
  <2>1. disk' = [disk EXCEPT ![p].flags = x]
    BY <1>1 DEF SetImmutable, ApplyImmutable
  <2>2. [disk[p] EXCEPT !.flags = x] \in AnyFile
    <3>1. x \in SUBSET {"immutable"}
      BY <2>0 DEF AnyFile
    <3> HIDE DEF x
    <3>2. QED
      BY <2>0, <3>1 DEF AnyFile
  <2> HIDE DEF x
  <2>3. /\ disk'[p] = [disk[p] EXCEPT !.flags = x] /\ DOMAIN disk' = Paths
        /\ \A q \in Paths : q # p => disk'[q] = disk[q]
    BY <2>1
  <2>b. disk' \in [Paths -> AnyFile]
    <3>1. disk' = [q \in Paths |-> disk'[q]]
      BY <2>1
    <3>2. \A q \in Paths : disk'[q] \in AnyFile
      BY <2>2, <2>3
    <3>3. QED
      BY <3>1, <3>2
  <2>4. /\ disk'[p].flags = disk[p].flags \ {"immutable"}
        /\ disk'[p].type = disk[p].type /\ disk'[p].data = disk[p].data
        /\ \A q \in Paths : q # p => disk'[q] = disk[q]
    BY <2>0, <2>3 DEF AnyFile, x
  <2>5. QED
    BY <1>1, <2>b, <2>4 DEF Whole, CheckImmutable, Exists
<1>2. CASE ~Exists(disk, p)
  BY <1>2 DEF SetImmutable, Exists, CheckImmutable, Absent, Whole
<1>3. QED
  BY <1>1, <1>2

LEMMA Locking ==
  ASSUME disk \in [Paths -> AnyFile], NEW p \in Paths, disk' = SetImmutable(disk, p, TRUE)
  PROVE  /\ disk' \in [Paths -> AnyFile]
         /\ Exists(disk, p) => CheckImmutable(disk', p)
         /\ \A q \in Paths : /\ (Whole(q))' <=> Whole(q)
                             /\ CheckImmutable(disk, q) => CheckImmutable(disk', q)
                             /\ q # p => disk'[q] = disk[q]
<1>1. CASE Exists(disk, p)
  <2> DEFINE x == disk[p].flags \cup {"immutable"}
  <2>0. disk[p] \in AnyFile
    OBVIOUS
  <2>1. disk' = [disk EXCEPT ![p].flags = x]
    BY <1>1 DEF SetImmutable, ApplyImmutable
  <2>2. [disk[p] EXCEPT !.flags = x] \in AnyFile
    <3>1. x \in SUBSET {"immutable"}
      BY <2>0 DEF AnyFile
    <3> HIDE DEF x
    <3>2. QED
      BY <2>0, <3>1 DEF AnyFile
  <2> HIDE DEF x
  <2>3. /\ disk'[p] = [disk[p] EXCEPT !.flags = x] /\ DOMAIN disk' = Paths
        /\ \A q \in Paths : q # p => disk'[q] = disk[q]
    BY <2>1
  <2>b. disk' \in [Paths -> AnyFile]
    <3>1. disk' = [q \in Paths |-> disk'[q]]
      BY <2>1
    <3>2. \A q \in Paths : disk'[q] \in AnyFile
      BY <2>2, <2>3
    <3>3. QED
      BY <3>1, <3>2
  <2>4. /\ disk'[p].flags = disk[p].flags \cup {"immutable"}
        /\ disk'[p].type = disk[p].type /\ disk'[p].data = disk[p].data
        /\ \A q \in Paths : q # p => disk'[q] = disk[q]
    BY <2>0, <2>3 DEF AnyFile, x
  <2>5. QED
    BY <2>b, <2>4 DEF Whole, CheckImmutable
<1>2. CASE ~Exists(disk, p)
  BY <1>2 DEF SetImmutable, Whole, CheckImmutable
<1>3. QED
  BY <1>1, <1>2

LEMMA Writing ==
  ASSUME disk \in [Paths -> AnyFile], NEW p \in Paths, NEW x \in Data,
         disk' = Write(disk, p, x)
  PROVE  /\ disk' \in [Paths -> AnyFile]
         /\ disk'[p].type = "file" /\ disk'[p].data = x
         /\ \A q \in Paths : CheckImmutable(disk', q) <=> CheckImmutable(disk, q)
         /\ \A q \in Paths : q # p => disk'[q] = disk[q]
<1>1. disk' = [disk EXCEPT ![p] = [type |-> "file", data |-> x, flags |-> disk[p].flags]]
  BY DEF Write
<1>2. [type |-> "file", data |-> x, flags |-> disk[p].flags] \in AnyFile
  BY DEF AnyFile
<1>3. QED
  BY <1>1, <1>2 DEF CheckImmutable

LEMMA Removing ==
  ASSUME disk \in [Paths -> AnyFile], NEW p \in Paths, disk' = [disk EXCEPT ![p] = Absent]
  PROVE  /\ disk' \in [Paths -> AnyFile] /\ ~Exists(disk', p)
         /\ \A q \in Paths : CheckImmutable(disk', q) => CheckImmutable(disk, q)
         /\ \A q \in Paths : q # p => disk'[q] = disk[q]
<1>1. Absent \in AnyFile /\ Absent.flags = {}
  BY DEF Absent, AnyFile, Data
<1>2. QED
  BY <1>1 DEF Exists, CheckImmutable

-----------------------------------------------------------------------------
(* The step a command is at.                                               *)
LEMMA TheStep ==
  ASSUME NEW P, NEW b, NEW n, Doing(P, b, n), SoundPlan(P, b)
  PROVE  /\ n \in Nat /\ n \in 1 .. Len(P) /\ job.bin = b /\ b \in Bins /\ Busying
         /\ \A op : At(op) <=> P[n].op = op
         /\ Here = P[n].path /\ job.plan[job.at] = P[n]
         /\ P[n].op \in OnFile => P[n].path \in Paths
         /\ \A i \in 1 .. n - 1 : i \in 1 .. Len(P) /\ (P[i].op \in OnFile => P[i].path \in Paths)
         /\ P[n].op # "lock" => NoLock(P, n)
         /\ \A i \in 1 .. n - 1 : StepDone(P, b, i, n)
<1>1. /\ job # NoCommand /\ job.plan = P /\ job.bin = b /\ job.at = n
      /\ b \in Bins /\ n \in 1 .. Len(P) /\ P \in Seq(PlanSteps)
  BY DEF Doing
<1>2. n \in Nat /\ \A i \in 1 .. n - 1 : i \in 1 .. Len(P)
  <2>1. Len(P) \in Nat
    BY <1>1
  <2>2. QED
    BY <1>1, <2>1
<1>3. \A op : At(op) <=> P[n].op = op
  BY <1>1 DEF At
<1>4. Here = P[n].path /\ job.plan[job.at] = P[n]
  BY <1>1 DEF Here
<1>5. /\ \A i \in 1 .. Len(P) : P[i].op \in OnFile => P[i].path \in Paths
      /\ P[n].op # "lock" => NoLock(P, n)
  BY <1>1 DEF SoundPlan
<1>6. \A i \in 1 .. n - 1 : StepDone(P, b, i, n)
  BY Zenon DEF Doing, Behind
<1>7. QED
  BY <1>1, <1>2, <1>3, <1>4, <1>5, <1>6 DEF Busying

LEMMA FreeOfLocks ==
  ASSUME NEW P, NEW b, NEW n, Doing(P, b, n), SoundPlan(P, b), NeverLocked,
         P[n].op \in {"write", "hash", "remove"}
  PROVE  ~CheckImmutable(disk, P[n].path)
<1>1. \/ P[n].path \in {"token", "state"}
      \/ \E k \in 1 .. n - 1 : P[k].op = "unlock" /\ P[k].path = P[n].path
  BY TheStep DEF SoundPlan
<1>2. ASSUME NEW k \in 1 .. n - 1, P[k].op = "unlock", P[k].path = P[n].path
      PROVE  ~CheckImmutable(disk, P[n].path)
  <2>1. StepDone(P, b, k, n) /\ NoLock(P, n)
    BY TheStep
  <2>2. QED
    BY <1>2, <2>1 DEF StepDone
<1>3. QED
  BY <1>1, <1>2 DEF NeverLocked

LEMMA NoLockBefore ==
  ASSUME NEW P, NEW n \in Nat, NEW m, m = n + 1, NoLock(P, m), n \in 1 .. Len(P)
  PROVE  NoLock(P, n) /\ P[n].op # "lock"
BY DEF NoLock

(* Reporting on the disk, the units and the manifest goes on where the     *)
(* install path of an uninstall does not change.                           *)
LEMMA SameRemoval ==
  ASSUME NEW P, NEW b, NEW n, Doing(P, b, n), Removal, recorded' = recorded,
         "token" \in degraded' <=> "token" \in degraded
  PROVE  P = UninstallPlan(b) => b = BinInUse'
<1>1. job # NoCommand /\ job.plan = P /\ job.bin = b
  BY DEF Doing
<1>2. P = UninstallPlan(b) => b = BinInUse
  BY <1>1, Zenon DEF Removal, Busying
<1>3. BinInUse' = BinInUse
  BY DEF BinInUse
<1>4. QED
  BY <1>2, <1>3

LEMMA UnlockKeeps ==
  ASSUME EndpointInv, NEW P, NEW b, NEW n, Doing(P, b, n), SoundPlan(P, b), Unlock
  PROVE  EndpointInv'
<1> DEFINE p == P[n].path
<1>0. PICK m : m = n + 1
  OBVIOUS
<1>1. EndpointForm /\ JobForm /\ NeverLocked /\ Removal /\ SettledAgent
  BY DEF EndpointInv
<1>2. /\ n \in Nat /\ n \in 1 .. Len(P) /\ P[n].op = "unlock" /\ p \in Paths /\ NoLock(P, n)
      /\ \A i \in 1 .. n - 1 : P[i].op \in OnFile => P[i].path \in Paths
      /\ \A i \in 1 .. n - 1 : StepDone(P, b, i, n)
      /\ disk' = SetImmutable(disk, p, FALSE) /\ Busying
  <2>1. (At("unlock") <=> P[n].op = "unlock") /\ Here = p
    BY TheStep
  <2>2. /\ P[n].op = "unlock" /\ disk' = SetImmutable(disk, p, FALSE)
    BY <2>1 DEF Unlock
  <2>3. QED
    BY <2>2, TheStep DEF OnFile
<1>3. /\ baseline' = baseline /\ recorded' = recorded /\ degraded' = degraded
      /\ enabled' = enabled /\ unit' = unit /\ tamper' = tamper /\ Advance
  BY DEF Unlock, systemd, agent
<1> HIDE DEF p
<1>4. /\ disk' \in [Paths -> AnyFile] /\ ~CheckImmutable(disk', p)
      /\ \A q \in Paths : /\ (Whole(q))' <=> Whole(q)
                          /\ CheckImmutable(disk', q) => CheckImmutable(disk, q)
                          /\ ~Exists(disk, q) => ~Exists(disk', q)
  BY <1>1, <1>2, Unlocking DEF EndpointForm
<1>5. EndpointForm' /\ NeverLocked'
  <2>1. EndpointForm'
    BY <1>1, <1>3, <1>4 DEF EndpointForm
  <2>2. NeverLocked'
    BY <1>1, <1>4 DEF NeverLocked, Paths
  <2>3. QED
    BY <2>1, <2>2
<1>6. ASSUME NEW i \in 1 .. n PROVE StepDone(P, b, i, m)'
  <2>1. CASE i = n
    BY <1>2, <1>4, <2>1 DEF StepDone, p
  <2>2. CASE i # n
    <3>1. i \in 1 .. n - 1
      BY <1>2, <2>2
    <3>2. StepDone(P, b, i, n) /\ P[i].op # "lock" /\ (P[i].op \in OnFile => P[i].path \in Paths)
      BY <1>2, <3>1 DEF NoLock
    <3>3. Stopped' <=> Stopped
      BY <1>3 DEF Stopped
    <3>4. QED
      BY <1>2, <1>3, <1>4, <3>2, <3>3 DEF StepDone, OnFile
  <2>3. QED
    BY <2>1, <2>2
<1>7. P = UninstallPlan(b) => b = BinInUse'
  BY <1>1, <1>3, SameRemoval
<1>8. ~tamper'.settled
  BY <1>1, <1>2, <1>3, BusyIsUnsettled
<1>9. QED
  BY <1>0, <1>1, <1>3, <1>5, <1>6, <1>7, <1>8, AdvanceKeeps, Zenon

LEMMA LockKeeps ==
  ASSUME EndpointInv, NEW P, NEW b, NEW n, Doing(P, b, n), SoundPlan(P, b), Lock
  PROVE  EndpointInv'
<1> DEFINE p == P[n].path
<1>0. PICK m : m = n + 1
  OBVIOUS
<1>1. EndpointForm /\ JobForm /\ NeverLocked /\ Removal /\ SettledAgent
  BY DEF EndpointInv
<1>2. /\ n \in Nat /\ n \in 1 .. Len(P) /\ P[n].op = "lock" /\ p \in Paths
      /\ \A i \in 1 .. n - 1 : P[i].op \in OnFile => P[i].path \in Paths
      /\ \A i \in 1 .. n - 1 : StepDone(P, b, i, n)
      /\ disk' = SetImmutable(disk, p, TRUE) /\ Busying
      /\ IF Exists(disk, p) THEN Advance ELSE Abort
  <2>1. (At("lock") <=> P[n].op = "lock") /\ Here = p
    BY TheStep
  <2>2. /\ P[n].op = "lock" /\ disk' = SetImmutable(disk, p, TRUE)
        /\ IF Exists(disk, p) THEN Advance ELSE Abort
    BY <2>1 DEF Lock
  <2>3. QED
    BY <2>2, TheStep DEF OnFile
<1>3. /\ baseline' = baseline /\ recorded' = recorded /\ degraded' = degraded
      /\ enabled' = enabled /\ unit' = unit /\ tamper' = tamper
  BY DEF Lock, systemd, agent
<1>a. p \notin {"token", "state"} /\ \A k \in 1 .. Len(P) : P[k].op # "remove"
  BY <1>2 DEF SoundPlan
<1> HIDE DEF p
<1>4. /\ disk' \in [Paths -> AnyFile]
      /\ Exists(disk, p) => CheckImmutable(disk', p)
      /\ \A q \in Paths : /\ (Whole(q))' <=> Whole(q)
                          /\ CheckImmutable(disk, q) => CheckImmutable(disk', q)
                          /\ q # p => disk'[q] = disk[q]
  BY <1>1, <1>2, Locking DEF EndpointForm
<1>5. EndpointForm' /\ NeverLocked'
  <2>1. EndpointForm'
    BY <1>1, <1>3, <1>4 DEF EndpointForm
  <2>2. NeverLocked'
    BY <1>1, <1>a, <1>4 DEF NeverLocked, Paths, CheckImmutable
  <2>3. QED
    BY <2>1, <2>2
<1>8. ~tamper'.settled
  BY <1>1, <1>2, <1>3, BusyIsUnsettled
<1>b. CASE ~Exists(disk, p)
  <2>1. job' = NoCommand /\ last' \notin {"installed", "removed"}
    BY <1>2, <1>b DEF Abort
  <2>2. QED
    BY <1>5, <1>8, <2>1, StoppingKeeps
<1>c. CASE Exists(disk, p)
  <2>a. Advance
    BY <1>2, <1>c
  <2>b. ASSUME NEW i \in 1 .. n PROVE StepDone(P, b, i, m)'
    <3>0. ~NoLock(P, m)
      BY <1>0, <1>2, NoLockBefore
    <3>1. CASE i = n
      BY <1>2, <1>4, <1>c, <3>0, <3>1 DEF StepDone, p
    <3>2. CASE i # n
      <4>1. i \in 1 .. n - 1 /\ i \in 1 .. Len(P)
        BY <1>2, <3>2
      <4>2. StepDone(P, b, i, n) /\ P[i].op # "remove" /\ (P[i].op \in OnFile => P[i].path \in Paths)
        BY <1>2, <1>a, <4>1
      <4>3. Stopped' <=> Stopped
        BY <1>3 DEF Stopped
      <4>4. QED
        BY <1>3, <1>4, <3>0, <4>2, <4>3 DEF StepDone, OnFile
    <3>3. QED
      BY <3>1, <3>2
  <2>c. P = UninstallPlan(b) => b = BinInUse'
    BY <1>1, <1>3, SameRemoval
  <2>d. QED
    BY <1>0, <1>1, <1>5, <1>8, <2>a, <2>b, <2>c, AdvanceKeeps, Zenon
<1>d. QED
  BY <1>b, <1>c

LEMMA WriteFileKeeps ==
  ASSUME EndpointInv, NEW P, NEW b, NEW n, Doing(P, b, n), SoundPlan(P, b), WriteFile
  PROVE  EndpointInv'
<1> DEFINE p == P[n].path
<1>0. PICK m : m = n + 1
  OBVIOUS
<1>1. EndpointForm /\ JobForm /\ NeverLocked /\ Removal /\ SettledAgent
  BY DEF EndpointInv
<1>2. /\ n \in Nat /\ n \in 1 .. Len(P) /\ P[n].op \in {"write", "hash"} /\ p \in Paths
      /\ \A i \in 1 .. n - 1 : P[i].op \in OnFile => P[i].path \in Paths
      /\ \A i \in 1 .. n - 1 : StepDone(P, b, i, n)
      /\ NoLock(P, n) /\ Busying /\ b \in Bins /\ b \in Paths
      /\ disk' = Write(disk, p, "whole") /\ Advance
      /\ baseline' = IF P[n].op = "hash" THEN FromPaths(disk, Protected(b)) ELSE baseline
      /\ recorded' = IF p = "token" THEN b ELSE recorded
  <2>1. /\ At("write") <=> P[n].op = "write"
        /\ At("hash") <=> P[n].op = "hash"
        /\ Here = p /\ job.bin = b
    BY TheStep
  <2>2. /\ P[n].op \in {"write", "hash"}
        /\ disk' = Write(disk, p, "whole") /\ Advance
        /\ baseline' = IF P[n].op = "hash" THEN FromPaths(disk, Protected(b)) ELSE baseline
        /\ recorded' = IF p = "token" THEN b ELSE recorded
    BY <2>1 DEF WriteFile
  <2>3. QED
    BY <2>2, TheStep DEF OnFile, Paths
<1>3. degraded' = degraded /\ enabled' = enabled /\ unit' = unit /\ tamper' = tamper
  BY DEF WriteFile, systemd, agent
<1>a. \A k \in 1 .. Len(P) : P[k].op \notin {"remove", "disable"}
  BY <1>2 DEF SoundPlan
<1>b. P[n].op = "hash" => \A q \in Protected(b) : \E k \in 1 .. n - 1 : P[k].op = "write" /\ P[k].path = q
  BY <1>2 DEF SoundPlan
<1> HIDE DEF p
<1>4. /\ disk' \in [Paths -> AnyFile]
      /\ disk'[p].type = "file" /\ disk'[p].data = "whole"
      /\ \A q \in Paths : CheckImmutable(disk', q) <=> CheckImmutable(disk, q)
      /\ \A q \in Paths : q # p => disk'[q] = disk[q]
  <2>1. "whole" \in Data
    BY DEF Data
  <2>2. QED
    BY <1>1, <1>2, <2>1, Writing DEF EndpointForm
<1>c. P[n].op = "hash" => baseline' = Pristine(b)
  <2>1. SUFFICES ASSUME P[n].op = "hash" PROVE baseline' = Pristine(b)
    OBVIOUS
  <2>2. \A q \in Protected(b) : disk[q].data = "whole"
    BY <1>2, <1>b, <2>1 DEF StepDone, Whole
  <2>3. baseline' = FromPaths(disk, Protected(b))
    BY <1>2, <2>1
  <2>4. QED
    BY <2>2, <2>3 DEF FromPaths, Pristine
<1>5. EndpointForm' /\ NeverLocked'
  <2>0. Pristine(b) \in Baselines
    <3>1. Protected(b) \in SUBSET Paths
      BY <1>2, BinPaths DEF Paths
    <3>2. Pristine(b) \in [Protected(b) -> Data]
      BY DEF Pristine, Data
    <3>3. QED
      BY <3>1, <3>2 DEF Baselines
  <2>1. baseline' \in Baselines /\ recorded' \in Bins
    BY <1>1, <1>2, <1>c, <2>0 DEF EndpointForm
  <2>2. EndpointForm'
    BY <1>1, <1>3, <1>4, <2>1 DEF EndpointForm
  <2>3. NeverLocked'
    BY <1>1, <1>4 DEF NeverLocked, Paths
  <2>4. QED
    BY <2>2, <2>3
<1>8. ~tamper'.settled
  BY <1>1, <1>2, <1>3, BusyIsUnsettled
<1>6. ASSUME NEW i \in 1 .. n PROVE StepDone(P, b, i, m)'
  <2>0. NoLock(P, m) => NoLock(P, n)
    BY <1>0, <1>2, NoLockBefore
  <2>1. CASE i = n
    BY <1>2, <1>4, <1>c, <2>1 DEF StepDone, Whole, p
  <2>2. CASE i # n
    <3>1. i \in 1 .. n - 1 /\ i \in 1 .. Len(P)
      BY <1>2, <2>2
    <3>2. /\ StepDone(P, b, i, n) /\ P[i].op \notin {"remove", "lock", "disable"}
          /\ P[i].op \in OnFile => P[i].path \in Paths
      BY <1>2, <1>a, <3>1 DEF NoLock
    <3>3. P[i].path \in Paths /\ Whole(P[i].path) => (Whole(P[i].path))'
      BY <1>4 DEF Whole
    <3>4. P[i].op = "hash" => baseline' = Pristine(b)
      BY <1>2, <1>c, <3>2 DEF StepDone
    <3>5. P[i].op = "write" /\ P[i].path = "token" => recorded' = b
      BY <1>2, <3>2 DEF StepDone
    <3>6. QED
      BY <1>2, <1>4, <2>0, <3>2, <3>3, <3>4, <3>5 DEF StepDone, OnFile
  <2>3. QED
    BY <2>1, <2>2
<1>7. P # UninstallPlan(b)
  <2>1. ASSUME P = UninstallPlan(b) PROVE FALSE
    <3>1. Removes(P, b)
      BY <1>2, <2>1, UninstallIsComplete, Zenon
    <3>2. QED
      BY <1>a, <3>1 DEF Removes
  <2>2. QED
    BY <2>1
<1>9. QED
  BY <1>0, <1>1, <1>2, <1>5, <1>6, <1>7, <1>8, AdvanceKeeps, Zenon

LEMMA RemoveFileKeeps ==
  ASSUME EndpointInv, NEW P, NEW b, NEW n, Doing(P, b, n), SoundPlan(P, b), RemoveFile
  PROVE  EndpointInv'
<1> DEFINE p == P[n].path
<1>0. PICK m : m = n + 1
  OBVIOUS
<1>1. EndpointForm /\ JobForm /\ NeverLocked /\ Removal /\ SettledAgent
  BY DEF EndpointInv
<1>2. /\ n \in Nat /\ n \in 1 .. Len(P) /\ P[n].op = "remove" /\ p \in Paths
      /\ \A i \in 1 .. n - 1 : P[i].op \in OnFile => P[i].path \in Paths
      /\ \A i \in 1 .. n - 1 : StepDone(P, b, i, n)
      /\ Busying /\ disk' = [disk EXCEPT ![p] = Absent] /\ Advance
  <2>1. (At("remove") <=> P[n].op = "remove") /\ Here = p
    BY TheStep
  <2>2. P[n].op = "remove"
    BY <2>1 DEF RemoveFile
  <2>3. MayRemove(disk, p)
    BY <1>1, <2>2, FreeOfLocks DEF MayRemove
  <2>4. disk' = [disk EXCEPT ![p] = Absent] /\ Advance
    BY <2>1, <2>3 DEF RemoveFile
  <2>5. QED
    BY <2>2, <2>4, TheStep DEF OnFile
<1>3. /\ baseline' = baseline /\ recorded' = recorded /\ degraded' = degraded
      /\ enabled' = enabled /\ unit' = unit /\ tamper' = tamper
  BY DEF RemoveFile, systemd, agent
<1>a. \A k \in 1 .. Len(P) : P[k].op \notin {"write", "hash", "lock"}
  BY <1>2 DEF SoundPlan
<1> HIDE DEF p
<1>4. /\ disk' \in [Paths -> AnyFile] /\ ~Exists(disk', p)
      /\ \A q \in Paths : CheckImmutable(disk', q) => CheckImmutable(disk, q)
      /\ \A q \in Paths : q # p => disk'[q] = disk[q]
  BY <1>1, <1>2, Removing DEF EndpointForm
<1>5. EndpointForm' /\ NeverLocked'
  <2>1. EndpointForm'
    BY <1>1, <1>3, <1>4 DEF EndpointForm
  <2>2. NeverLocked'
    BY <1>1, <1>4 DEF NeverLocked, Paths
  <2>3. QED
    BY <2>1, <2>2
<1>6. ASSUME NEW i \in 1 .. n PROVE StepDone(P, b, i, m)'
  <2>0. NoLock(P, m) => NoLock(P, n)
    BY <1>0, <1>2, NoLockBefore
  <2>1. CASE i = n
    BY <1>2, <1>4, <2>1 DEF StepDone, p
  <2>2. CASE i # n
    <3>1. i \in 1 .. n - 1 /\ i \in 1 .. Len(P)
      BY <1>2, <2>2
    <3>2. /\ StepDone(P, b, i, n) /\ P[i].op \notin {"write", "hash", "lock"}
          /\ P[i].op \in OnFile => P[i].path \in Paths
      BY <1>2, <1>a, <3>1
    <3>3. Stopped' <=> Stopped
      BY <1>3 DEF Stopped
    <3>4. P[i].path \in Paths /\ ~Exists(disk, P[i].path) => ~Exists(disk', P[i].path)
      BY <1>4 DEF Exists
    <3>5. QED
      BY <1>2, <1>3, <1>4, <2>0, <3>2, <3>3, <3>4 DEF StepDone, OnFile
  <2>3. QED
    BY <2>1, <2>2
<1>7. P = UninstallPlan(b) => b = BinInUse'
  BY <1>1, <1>3, SameRemoval
<1>8. ~tamper'.settled
  BY <1>1, <1>2, <1>3, BusyIsUnsettled
<1>9. QED
  BY <1>0, <1>1, <1>2, <1>5, <1>6, <1>7, <1>8, AdvanceKeeps, Zenon

(* A step about the units leaves the files alone, and so all that was said *)
(* of them; it must not start what the command has stopped.                *)
LEMMA UnitStepKeeps ==
  ASSUME EndpointInv, NEW P, NEW b, NEW n, Doing(P, b, n), SoundPlan(P, b),
         P[n].op \in {"reload", "enable", "disable"}, Advance,
         disk' = disk, baseline' = baseline, recorded' = recorded,
         degraded \subseteq degraded', degraded' \subseteq degraded \cup {"systemctl"},
         EndpointForm', ~(tamper'.settled),
         P[n].op # "enable" => (Stopped => Stopped'),
         P[n].op = "disable" => "systemctl" \in degraded' \/ Stopped'
  PROVE  EndpointInv'
<1>0. PICK m : m = n + 1
  OBVIOUS
<1>1. JobForm /\ NeverLocked /\ Removal
  BY DEF EndpointInv
<1>2. /\ n \in Nat /\ n \in 1 .. Len(P)
      /\ \A i \in 1 .. n - 1 : i \in 1 .. Len(P) /\ StepDone(P, b, i, n)
  BY TheStep
<1>3. NeverLocked'
  BY <1>1 DEF NeverLocked, CheckImmutable
<1>4. ASSUME NEW i \in 1 .. n PROVE StepDone(P, b, i, m)'
  <2>1. CASE i = n
    BY <2>1 DEF StepDone
  <2>2. CASE i # n
    <3>1. i \in 1 .. n - 1 /\ i \in 1 .. Len(P)
      BY <1>2, <2>2
    <3>2. StepDone(P, b, i, n)
      BY <1>2, <3>1
    <3>3. CASE P[n].op # "enable"
      BY <1>0, <1>2, <3>2, <3>3, StaysDone
    <3>4. CASE P[n].op = "enable"
      <4>1. P[i].op # "disable"
        BY <1>2, <3>1, <3>4 DEF SoundPlan
      <4>2. NoLock(P, m) => NoLock(P, n)
        BY <1>0, <1>2, NoLockBefore
      <4>3. QED
        BY <3>2, <4>1, <4>2 DEF StepDone, Whole, CheckImmutable, Exists
    <3>5. QED
      BY <3>3, <3>4
  <2>3. QED
    BY <2>1, <2>2
<1>5. P = UninstallPlan(b) => b = BinInUse'
  <2>1. "token" \in degraded' <=> "token" \in degraded
    OBVIOUS
  <2>2. QED
    BY <1>1, <2>1, SameRemoval
<1>6. QED
  BY <1>0, <1>1, <1>3, <1>4, <1>5, AdvanceKeeps, Zenon

LEMMA NoBaselineForm == NoBaseline \in Baselines
<1>1. NoBaseline \in [{} -> Data] /\ {} \in SUBSET Paths
  BY DEF NoBaseline
<1>2. QED
  BY <1>1 DEF Baselines

(* An agent that starts raises no alert after a finished install.          *)
LEMMA StartingUnits ==
  ASSUME EndpointForm, HealthyDisk, NEW us \in SUBSET Units, StartUnits(us)
  PROVE  /\ unit' \in [Units -> {"inactive", "active", "restart"}]
         /\ \/ UNCHANGED agent
            \/ /\ tamper' \in [baseline : Baselines, settled : BOOLEAN]
               /\ tamper'.settled =>
                    /\ Installed /\ recorded = DefaultBin
                    /\ tamper'.baseline = baseline /\ raised' = {}
<1>1. unit' \in [Units -> {"inactive", "active", "restart"}]
  BY DEF StartUnits, SetUnits, EndpointForm
<1>2. SUFFICES ASSUME Started
               PROVE  /\ tamper' \in [baseline : Baselines, settled : BOOLEAN]
                      /\ tamper'.settled =>
                           /\ Installed /\ recorded = DefaultBin
                           /\ tamper'.baseline = baseline /\ raised' = {}
  BY <1>1 DEF StartUnits
<1> DEFINE bl == IF disk["manifest"].data = "whole" THEN baseline ELSE NoBaseline
           st == job = NoCommand /\ last = "installed" /\ recorded = DefaultBin
<1>3. tamper' = [baseline |-> bl, settled |-> st]
  BY <1>2, Zenon DEF Started
<1>4. bl \in Baselines /\ st \in BOOLEAN
  BY NoBaselineForm DEF EndpointForm
<1>5. st <=> Installed /\ recorded = DefaultBin
  BY DEF Installed
<1>6. st => bl = baseline
  BY <1>5 DEF HealthyDisk, Whole
<1>7. st => raised' = {}
  <2>1. SUFFICES ASSUME st PROVE raised' = {}
    OBVIOUS
  <2>2. \A p \in Watched : CheckImmutable(disk, p)
    BY <1>5, <2>1 DEF Watched, HealthyDisk
  <2>3. NotImmutable = {}
    BY <2>2 DEF NotImmutable
  <2>4. QED
    BY <1>2, <2>3 DEF Started
<1> HIDE DEF bl, st
<1>8. QED
  BY <1>3, <1>4, <1>5, <1>6, <1>7

LEMMA ReloadKeeps ==
  ASSUME EndpointInv, NEW P, NEW b, NEW n, Doing(P, b, n), SoundPlan(P, b), Reload
  PROVE  EndpointInv'
<1>1. P[n].op = "reload" /\ Busying
  <2>1. At("reload") <=> P[n].op = "reload"
    BY TheStep
  <2>2. QED
    BY <2>1, TheStep DEF Reload
<1>2. /\ disk' = disk /\ baseline' = baseline /\ recorded' = recorded /\ degraded' = degraded
      /\ enabled' = enabled /\ unit' = unit /\ tamper' = tamper /\ Advance
  BY DEF Reload, agent
<1>3. EndpointForm' /\ (Stopped => Stopped') /\ ~tamper'.settled
  BY <1>1, <1>2, BusyIsUnsettled DEF EndpointInv, EndpointForm, Stopped
<1>4. QED
  BY <1>1, <1>2, <1>3, UnitStepKeeps

LEMMA EnableKeeps ==
  ASSUME EndpointInv, NEW P, NEW b, NEW n, Doing(P, b, n), SoundPlan(P, b), Enable
  PROVE  EndpointInv'
<1>1. P[n].op = "enable" /\ Busying
  <2>1. At("enable") <=> P[n].op = "enable"
    BY TheStep
  <2>2. QED
    BY <2>1, TheStep DEF Enable
<1>2. /\ disk' = disk /\ baseline' = baseline /\ recorded' = recorded /\ degraded' = degraded
  BY DEF Enable
<1>3. EndpointForm /\ NeverLocked /\ HealthyDisk /\ ~tamper.settled
  BY <1>1, BusyIsUnsettled DEF EndpointInv
<1>4. CASE Startable
  <2>1. enabled' = TRUE /\ Advance
    BY <1>4 DEF Enable
  <2>2. PICK us \in SUBSET Units : StartUnits(us)
    BY <1>4 DEF Enable
  <2>3. /\ unit' \in [Units -> {"inactive", "active", "restart"}]
        /\ \/ UNCHANGED agent
           \/ /\ tamper' \in [baseline : Baselines, settled : BOOLEAN]
              /\ tamper'.settled => Installed
    BY <1>3, <2>2, StartingUnits
  <2>4. tamper' \in [baseline : Baselines, settled : BOOLEAN] /\ ~tamper'.settled
    BY <1>1, <1>3, <2>3 DEF agent, EndpointForm, Installed, Busying
  <2>5. EndpointForm'
    BY <1>2, <1>3, <2>1, <2>3, <2>4 DEF EndpointForm
  <2>6. QED
    BY <1>1, <1>2, <2>1, <2>4, <2>5, UnitStepKeeps
<1>5. CASE ~Startable
  <2>1. job' = NoCommand /\ last' = "failed" /\ enabled' = enabled /\ unit' = unit /\ tamper' = tamper
    BY <1>5 DEF Enable, Abort, agent
  <2>2. EndpointForm' /\ NeverLocked' /\ ~tamper'.settled
    BY <1>2, <1>3, <2>1 DEF EndpointForm, NeverLocked, CheckImmutable
  <2>3. last' \notin {"installed", "removed"}
    BY <2>1
  <2>4. QED
    BY <2>1, <2>2, <2>3, StoppingKeeps
<1>6. QED
  BY <1>4, <1>5

LEMMA DisableKeeps ==
  ASSUME EndpointInv, NEW P, NEW b, NEW n, Doing(P, b, n), SoundPlan(P, b), Disable
  PROVE  EndpointInv'
<1>1. P[n].op = "disable"
  <2>1. At("disable") <=> P[n].op = "disable"
    BY TheStep
  <2>2. QED
    BY <2>1 DEF Disable
<1>2. /\ disk' = disk /\ baseline' = baseline /\ recorded' = recorded /\ degraded' = degraded
      /\ enabled' = FALSE /\ unit' = [u \in Units |-> "inactive"] /\ Advance
      /\ tamper' = [baseline |-> NoBaseline, settled |-> FALSE]
  BY DEF Disable, SetUnits, StopUnits, Gone
<1>3. Stopped'
  BY <1>2 DEF Stopped
<1>4. EndpointForm'
  <2>1. EndpointForm
    BY DEF EndpointInv
  <2>2. tamper' \in [baseline : Baselines, settled : BOOLEAN]
    BY <1>2, NoBaselineForm
  <2>3. QED
    BY <1>2, <2>1, <2>2 DEF EndpointForm
<1>5. ~tamper'.settled
  BY <1>2
<1>6. QED
  BY <1>1, <1>2, <1>3, <1>4, <1>5, UnitStepKeeps

LEMMA SystemctlFailsKeeps ==
  ASSUME EndpointInv, NEW P, NEW b, NEW n, Doing(P, b, n), SoundPlan(P, b), SystemctlFails
  PROVE  EndpointInv'
<1>1. /\ P[n].op \in {"reload", "enable", "disable"} /\ Busying
      /\ degraded' = degraded \cup IF P[n].op = "disable" THEN {"systemctl"} ELSE {}
  <2>1. /\ At("reload") <=> P[n].op = "reload"
        /\ At("enable") <=> P[n].op = "enable"
        /\ At("disable") <=> P[n].op = "disable"
    BY TheStep
  <2>2. QED
    BY <2>1, TheStep DEF SystemctlFails
<1>2. /\ disk' = disk /\ baseline' = baseline /\ recorded' = recorded
      /\ enabled' = enabled /\ unit' = unit /\ tamper' = tamper
      /\ Advance \/ Abort
  BY DEF SystemctlFails, FailStep, systemd, agent
<1>3. EndpointForm' /\ (Stopped => Stopped') /\ ~tamper'.settled /\ NeverLocked'
  BY <1>1, <1>2, BusyIsUnsettled DEF EndpointInv, EndpointForm, Stopped, NeverLocked, CheckImmutable
<1>4. CASE Advance
  BY <1>1, <1>2, <1>3, <1>4, UnitStepKeeps
<1>5. CASE Abort
  <2>1. job' = NoCommand /\ last' \notin {"installed", "removed"}
    BY <1>5 DEF Abort
  <2>2. QED
    BY <1>3, <2>1, StoppingKeeps
<1>6. QED
  BY <1>2, <1>4, <1>5

LEMMA AbortKeeps ==
  ASSUME EndpointInv, Busying, WriteRefused \/ WriteFails \/ CommandDies
  PROVE  EndpointInv'
<1>1. /\ job' = NoCommand /\ last' = "failed" /\ baseline' = baseline /\ recorded' = recorded
      /\ enabled' = enabled /\ unit' = unit /\ tamper' = tamper
  BY DEF WriteRefused, WriteFails, CommandDies, Abort, systemd, agent
<1>2. EndpointForm /\ NeverLocked /\ ~tamper.settled
  BY BusyIsUnsettled DEF EndpointInv
<1>3. disk' \in [Paths -> AnyFile] /\ NeverLocked'
  <2>1. CASE disk' = disk
    BY <1>2, <2>1 DEF EndpointForm, NeverLocked, CheckImmutable
  <2>2. CASE WriteFails
    <3>1. PICK P, b, n : Doing(P, b, n) /\ SoundPlan(P, b)
      BY SomeoneIsDoing DEF EndpointInv
    <3>2. /\ At("write") <=> P[n].op = "write"
          /\ At("hash") <=> P[n].op = "hash"
          /\ P[n].op \in OnFile => P[n].path \in Paths
          /\ Here = P[n].path
      BY <3>1, TheStep
    <3>3. PICK p : p = P[n].path
      OBVIOUS
    <3>4. p \in Paths /\ disk' = Write(disk, p, "part")
      BY <2>2, <3>2, <3>3 DEF WriteFails, OnFile
    <3>5. /\ disk' \in [Paths -> AnyFile]
          /\ \A q \in Paths : CheckImmutable(disk', q) <=> CheckImmutable(disk, q)
      <4>1. "part" \in Data /\ disk \in [Paths -> AnyFile]
        BY <1>2 DEF Data, EndpointForm
      <4>2. QED
        BY <3>4, <4>1, Writing
    <3>6. QED
      BY <1>2, <3>5 DEF NeverLocked, Paths
  <2>3. QED
    BY <2>1, <2>2 DEF WriteRefused, CommandDies
<1>4. EndpointForm'
  BY <1>1, <1>2, <1>3 DEF EndpointForm
<1>5. ~tamper'.settled /\ last' \notin {"installed", "removed"}
  BY <1>1, <1>2
<1>6. QED
  BY <1>1, <1>3, <1>4, <1>5, StoppingKeeps

(* A command begins: nothing is behind it, and nothing else changes.       *)
LEMMA BeginKeeps ==
  ASSUME EndpointInv, job = NoCommand, NEW b \in Bins,
         NEW P \in {InstallPlan(b), UninstallPlan(b)},
         job' = [plan |-> P, at |-> 1, bin |-> b],
         tamper' = [tamper EXCEPT !.settled = FALSE],
         UNCHANGED <<disk, baseline, recorded, last, enabled, unit>>,
         P = UninstallPlan(b) => b = BinInUse'
  PROVE  EndpointInv'
<1>1. P \in Seq(PlanSteps) /\ P # <<>> /\ Len(P) \in {13, 15}
  BY PlansDiffer
<1>2. /\ job' \in [plan : Seq(PlanSteps), at : Nat, bin : Bins \cup {"none"}]
      /\ job'.plan = P /\ job'.at = 1 /\ job'.bin = b
  BY <1>1
<1>3. Busying'
  BY <1>1, <1>2 DEF Busying, NoCommand
<1>4. JobForm'
  <2>1. 1 \in 1 .. Len(P)
    BY <1>1
  <2>2. QED
    BY <1>2, <2>1, Zenon DEF JobForm
<1>5. JobDone'
  <2>1. PICK m : m = 1
    OBVIOUS
  <2>2. Behind(P, b, m)'
    <3>1. 1 .. m - 1 = {}
      BY <2>1
    <3>2. QED
      BY <3>1, Zenon DEF Behind
  <2>3. QED
    BY <1>2, <2>1, <2>2, Zenon DEF JobDone
<1>6. Removal'
  BY <1>2, Zenon DEF Removal
<1>7. EndpointForm /\ NeverLocked
  BY DEF EndpointInv
<1>8. tamper' \in [baseline : Baselines, settled : BOOLEAN] /\ ~tamper'.settled
  BY <1>7 DEF EndpointForm
<1>9. EndpointForm' /\ NeverLocked'
  BY <1>7, <1>8 DEF EndpointForm, NeverLocked, CheckImmutable
<1>10. SettledAgent'
  BY <1>8 DEF SettledAgent
<1>11. HealthyDisk' /\ UninstallRemoves'
  BY <1>3, Zenon DEF HealthyDisk, UninstallRemoves, Removed, Installed, Busying
<1>12. QED
  BY <1>4, <1>5, <1>6, <1>9, <1>10, <1>11 DEF EndpointInv

LEMMA BeginInstallKeeps ==
  ASSUME EndpointInv, NEW b \in Bins, BeginInstall(b)
  PROVE  EndpointInv'
<1>1. InstallPlan(b) # UninstallPlan(b)
  BY PlansDiffer
<1>2. /\ job = NoCommand /\ job' = [plan |-> InstallPlan(b), at |-> 1, bin |-> b]
      /\ tamper' = [tamper EXCEPT !.settled = FALSE]
      /\ UNCHANGED <<disk, baseline, recorded, last, enabled, unit>>
  BY DEF BeginInstall, systemd
<1>3. PICK P : P = InstallPlan(b)
  OBVIOUS
<1>4. /\ P \in {InstallPlan(b), UninstallPlan(b)} /\ P # UninstallPlan(b)
      /\ job' = [plan |-> P, at |-> 1, bin |-> b]
  BY <1>1, <1>2, <1>3
<1>5. QED
  BY <1>2, <1>4, BeginKeeps

LEMMA BeginUninstallKeeps == ASSUME EndpointInv, BeginUninstall PROVE EndpointInv'
<1>1. PICK b : b = EffectiveBin(DefaultBin)
  OBVIOUS
<1>2. /\ job = NoCommand /\ job' = [plan |-> UninstallPlan(b), at |-> 1, bin |-> b]
      /\ tamper' = [tamper EXCEPT !.settled = FALSE]
      /\ UNCHANGED <<disk, baseline, recorded, last, enabled, unit>>
      /\ degraded' = IF disk["token"].data = "whole" THEN {} ELSE {"token"}
  BY <1>1, Zenon DEF BeginUninstall, systemd
<1>3. b \in Bins
  BY <1>1, EndpointAssumption DEF EffectiveBin, EndpointInv, EndpointForm
<1>4. b = BinInUse'
  BY <1>1, <1>2 DEF EffectiveBin, BinInUse
<1>5. PICK P : P = UninstallPlan(b)
  OBVIOUS
<1>6. /\ P \in {InstallPlan(b), UninstallPlan(b)}
      /\ job' = [plan |-> P, at |-> 1, bin |-> b]
  BY <1>2, <1>5
<1>7. QED
  BY <1>2, <1>3, <1>4, <1>6, BeginKeeps

-----------------------------------------------------------------------------
(* The agent, systemd and root.                                            *)

(* What leaves the disk and the commands alone, and stops or restarts only *)
(* what runs, must still keep its word about the agent.                    *)
LEMMA RestKeeps ==
  ASSUME EndpointInv, UNCHANGED <<disk, baseline, recorded, job, last, degraded, enabled>>,
         unit' \in [Units -> {"inactive", "active", "restart"}],
         tamper' \in [baseline : Baselines, settled : BOOLEAN],
         Stopped => unit' = unit, SettledAgent'
  PROVE  EndpointInv'
<1>1. Stopped => Stopped'
  BY DEF Stopped
<1>2. EndpointForm' /\ NeverLocked' /\ JobForm'
  BY DEF EndpointInv, EndpointForm, NeverLocked, CheckImmutable, JobForm, Busying
<1>3. Removal' /\ HealthyDisk'
  <2>1. /\ BinInUse' = BinInUse /\ (Busying' <=> Busying) /\ (Installed' <=> Installed)
        /\ (Whole("manifest"))' <=> Whole("manifest")
        /\ \A p : Whole(p)' <=> Whole(p)
    BY DEF BinInUse, Busying, Installed, Whole
  <2>2. QED
    BY <2>1 DEF EndpointInv, Removal, HealthyDisk, CheckImmutable
<1>4. UninstallRemoves'
  <2>1. SUFFICES ASSUME last = "removed", job = NoCommand PROVE UninstallRemoves'
    BY DEF UninstallRemoves, Removed
  <2>2. /\ \A p \in Protected(BinInUse) \cup {"manifest", "token", "state"} : ~Exists(disk, p)
        /\ "systemctl" \notin degraded => Stopped
    BY <2>1, Zenon DEF EndpointInv, UninstallRemoves, Removed, BinInUse, Stopped
  <2>3. BinInUse' = BinInUse
    BY DEF BinInUse
  <2>4. /\ \A p \in Protected(BinInUse') \cup {"manifest", "token", "state"} : ~Exists(disk', p)
        /\ "systemctl" \notin degraded' => Stopped'
    BY <1>1, <2>2, <2>3 DEF Exists
  <2>5. QED
    BY <2>4, Zenon DEF UninstallRemoves, Removed, BinInUse, Stopped
<1>5. JobDone'
  <2>1. SUFFICES ASSUME Busying PROVE JobDone'
    BY DEF JobDone, Busying
  <2>2. PICK P, b, n : P = job.plan /\ b = job.bin /\ n = job.at
    OBVIOUS
  <2>3. Behind(P, b, n)
    BY <2>1, <2>2, Zenon DEF EndpointInv, JobDone
  <2>4. ASSUME NEW i \in 1 .. n - 1 PROVE StepDone(P, b, i, n)'
    <3>1. StepDone(P, b, i, n)
      BY <2>3, Zenon DEF Behind
    <3>2. QED
      BY <1>1, <3>1 DEF StepDone, Whole, CheckImmutable, Exists
  <2>5. Behind(P, b, n)'
    BY <2>4, Zenon DEF Behind
  <2>6. job'.plan = P /\ job'.bin = b /\ job'.at = n
    BY <2>2
  <2>7. QED
    BY <2>5, <2>6, Zenon DEF JobDone
<1>6. QED
  BY <1>2, <1>3, <1>4, <1>5 DEF EndpointInv

LEMMA TickKeeps == ASSUME EndpointInv, Tick PROVE EndpointInv'
<1>1. /\ EndpointForm /\ HealthyDisk /\ SettledAgent /\ raised' = Check
      /\ UNCHANGED <<disk, baseline, recorded, job, last, degraded, enabled, unit, tamper>>
  BY DEF EndpointInv, Tick, systemd
<1>2. SettledAgent'
  <2>1. SUFFICES ASSUME tamper.settled PROVE raised' = {}
    BY <1>1 DEF SettledAgent, Installed
  <2>2. /\ recorded = DefaultBin /\ tamper.baseline = Pristine(DefaultBin)
        /\ \A p \in Watched : Whole(p) /\ CheckImmutable(disk, p)
    BY <1>1, <2>1 DEF SettledAgent, HealthyDisk, Watched
  <2>3. NotImmutable = {}
    BY <2>2 DEF NotImmutable
  <2>4. DOMAIN tamper.baseline = Watched /\ \A p \in Watched : tamper.baseline[p] = "whole"
    BY <2>2 DEF Pristine, Watched
  <2>5. \A p \in Watched : VerifyEntry(tamper.baseline[p], disk[p]) = "ok"
    BY <2>2, <2>4 DEF VerifyEntry, Whole, Absent
  <2>6. Verify(tamper.baseline, disk) = {}
    BY <2>4, <2>5 DEF Verify
  <2>7. Watched \ DOMAIN tamper.baseline = {}
    BY <2>4
  <2>8. QED
    BY <1>1, <2>3, <2>6, <2>7 DEF Check
<1>3. /\ unit' \in [Units -> {"inactive", "active", "restart"}]
      /\ tamper' \in [baseline : Baselines, settled : BOOLEAN]
  BY <1>1 DEF EndpointForm
<1>4. QED
  BY <1>1, <1>2, <1>3, RestKeeps

LEMMA GoneForm ==
  ASSUME Gone
  PROVE  tamper' \in [baseline : Baselines, settled : BOOLEAN] /\ SettledAgent'
BY NoBaselineForm DEF Gone, SettledAgent

LEMMA SameAgent ==
  ASSUME SettledAgent, UNCHANGED <<baseline, recorded, job, last>>, UNCHANGED agent
  PROVE  SettledAgent'
BY DEF SettledAgent, Installed, agent

LEMMA KillKeeps == ASSUME EndpointInv, NEW u \in Units, Kill(u) PROVE EndpointInv'
<1>1. /\ EndpointForm /\ SettledAgent /\ unit[u] = "active"
      /\ UNCHANGED <<disk, baseline, recorded, job, last, degraded, enabled>>
      /\ Gone \/ UNCHANGED agent
  BY DEF EndpointInv, Kill
<1>2. unit' \in [Units -> {"inactive", "active", "restart"}]
  <2>1. \/ unit' = [unit EXCEPT ![u] = "restart"]
        \/ unit' = StopUnits
        \/ unit' = [unit EXCEPT ![u] = "inactive"]
    BY Zenon DEF Kill, SetUnits
  <2>2. QED
    BY <1>1, <2>1 DEF EndpointForm, StopUnits
<1>3. tamper' \in [baseline : Baselines, settled : BOOLEAN] /\ SettledAgent'
  BY <1>1, GoneForm, SameAgent DEF agent, EndpointForm
<1>4. ~Stopped
  BY <1>1 DEF Stopped
<1>5. QED
  BY <1>1, <1>2, <1>3, <1>4, RestKeeps

LEMMA StartKeeps ==
  ASSUME EndpointInv, NEW us \in SUBSET Units, StartUnits(us), ~Stopped,
         UNCHANGED <<disk, baseline, recorded, job, last, degraded, enabled>>
  PROVE  EndpointInv'
<1>1. EndpointForm /\ HealthyDisk /\ SettledAgent
  BY DEF EndpointInv
<1>2. /\ unit' \in [Units -> {"inactive", "active", "restart"}]
      /\ \/ UNCHANGED agent
         \/ /\ tamper' \in [baseline : Baselines, settled : BOOLEAN]
            /\ tamper'.settled =>
                 /\ Installed /\ recorded = DefaultBin
                 /\ tamper'.baseline = baseline /\ raised' = {}
  BY <1>1, StartingUnits
<1>3. tamper' \in [baseline : Baselines, settled : BOOLEAN] /\ SettledAgent'
  <2>1. CASE UNCHANGED agent
    BY <1>1, <2>1, SameAgent DEF agent, EndpointForm
  <2>2. CASE ~UNCHANGED agent
    BY <1>2, <2>2 DEF SettledAgent, Installed
  <2>3. QED
    BY <2>1, <2>2
<1>4. QED
  BY <1>2, <1>3, RestKeeps

LEMMA RestartKeeps == ASSUME EndpointInv, NEW u \in Units, Restart(u) PROVE EndpointInv'
<1>1. unit[u] = "restart" /\ {u} \in SUBSET Units /\ StartUnits({u})
  BY DEF Restart
<1>2. ~Stopped
  BY <1>1 DEF Stopped
<1>3. UNCHANGED <<disk, baseline, recorded, job, last, degraded, enabled>>
  BY DEF Restart
<1>4. QED
  BY <1>1, <1>2, <1>3, StartKeeps

LEMMA GuardKeeps == ASSUME EndpointInv, Guard PROVE EndpointInv'
<1>1. unit["guardian"] = "active" /\ {"service"} \in SUBSET Units /\ StartUnits({"service"})
  BY DEF Guard, Units
<1>2. ~Stopped
  BY <1>1 DEF Stopped, Units
<1>3. UNCHANGED <<disk, baseline, recorded, job, last, degraded, enabled>>
  BY DEF Guard
<1>4. QED
  BY <1>1, <1>2, <1>3, StartKeeps

(* Root at work: whatever the disk becomes, no command has finished since. *)
LEMMA AlterKeeps ==
  ASSUME EndpointInv, NEW p \in Paths \ {"token", "state"}, Alter(p)
  PROVE  EndpointInv'
<1>1. /\ EndpointForm /\ NeverLocked /\ job' = NoCommand /\ last' = "altered"
      /\ tamper' = [tamper EXCEPT !.settled = FALSE]
      /\ UNCHANGED <<baseline, recorded, enabled, unit>>
  BY DEF EndpointInv, Alter, systemd
<1>2. disk \in [Paths -> AnyFile] /\ p \in Paths
  BY <1>1 DEF EndpointForm
<1>3. /\ disk' \in [Paths -> AnyFile]
      /\ \A q \in Paths : q # p /\ CheckImmutable(disk', q) => CheckImmutable(disk, q)
  <2>1. \/ disk' = SetImmutable(disk, p, FALSE)
        \/ disk' = Write(disk, p, "edited")
        \/ disk' = Write(disk, p, "part")
        \/ disk' = [disk EXCEPT ![p] = Absent]
        \/ disk' = [disk EXCEPT ![p].type = "other"]
    BY DEF Alter
  <2>2. CASE disk' = SetImmutable(disk, p, FALSE)
    BY <1>2, <2>2, Unlocking
  <2>3. CASE disk' = Write(disk, p, "edited")
    <3>1. "edited" \in Data
      BY DEF Data
    <3>2. QED
      BY <1>2, <2>3, <3>1, Writing
  <2>4. CASE disk' = Write(disk, p, "part")
    <3>1. "part" \in Data
      BY DEF Data
    <3>2. QED
      BY <1>2, <2>4, <3>1, Writing
  <2>5. CASE disk' = [disk EXCEPT ![p] = Absent]
    BY <1>2, <2>5, Removing
  <2>6. CASE disk' = [disk EXCEPT ![p].type = "other"]
    <3>1. disk[p] \in AnyFile
      BY <1>2
    <3>2. [disk[p] EXCEPT !.type = "other"] \in AnyFile
      BY <3>1 DEF AnyFile
    <3>3. /\ disk' = [q \in Paths |-> disk'[q]]
          /\ disk'[p] = [disk[p] EXCEPT !.type = "other"]
          /\ \A q \in Paths : q # p => disk'[q] = disk[q]
      BY <1>2, <2>6
    <3>4. \A q \in Paths : disk'[q] \in AnyFile
      BY <1>2, <3>2, <3>3
    <3>5. QED
      BY <3>3, <3>4 DEF CheckImmutable
  <2>7. QED
    BY <2>1, <2>2, <2>3, <2>4, <2>5, <2>6
<1>4. NeverLocked'
  BY <1>1, <1>3 DEF NeverLocked, Paths
<1>5. EndpointForm' /\ ~tamper'.settled
  BY <1>1, <1>3 DEF EndpointForm
<1>6. last' \notin {"installed", "removed"}
  BY <1>1
<1>7. QED
  BY <1>1, <1>4, <1>5, <1>6, StoppingKeeps

LEMMA StopByRootKeeps == ASSUME EndpointInv, StopByRoot PROVE EndpointInv'
<1>1. /\ EndpointForm /\ NeverLocked /\ job' = NoCommand /\ last' = "stopped" /\ Gone
      /\ unit' = [u \in Units |-> "inactive"]
      /\ UNCHANGED <<disk, baseline, recorded, enabled>>
  BY DEF EndpointInv, StopByRoot, StopUnits, SetUnits
<1>2. tamper' \in [baseline : Baselines, settled : BOOLEAN] /\ ~tamper'.settled
  BY <1>1, GoneForm DEF Gone
<1>3. EndpointForm' /\ NeverLocked'
  BY <1>1, <1>2 DEF EndpointForm, NeverLocked, CheckImmutable
<1>4. last' \notin {"installed", "removed"}
  BY <1>1
<1>5. QED
  BY <1>1, <1>2, <1>3, <1>4, StoppingKeeps

LEMMA RebootKeeps == ASSUME EndpointInv, Reboot PROVE EndpointInv'
<1>1. /\ EndpointForm /\ NeverLocked /\ job' = NoCommand /\ Gone
      /\ last' = IF job = NoCommand THEN last ELSE "failed"
      /\ unit' = [u \in Units |-> IF enabled THEN "restart" ELSE "inactive"]
      /\ UNCHANGED <<disk, baseline, recorded, degraded, enabled>>
  BY DEF EndpointInv, Reboot, SetUnits
<1>2. /\ tamper' \in [baseline : Baselines, settled : BOOLEAN] /\ SettledAgent'
      /\ ~tamper'.settled
  BY <1>1, GoneForm DEF Gone
<1>3. unit' \in [Units -> {"inactive", "active", "restart"}]
  BY <1>1
<1>4. CASE job = NoCommand
  <2>1. Stopped => unit' = unit
    <3>1. Stopped => \A u \in Units : unit'[u] = unit[u]
      BY <1>1 DEF Stopped
    <3>2. QED
      BY <1>1, <1>3, <3>1 DEF EndpointForm
  <2>2. job' = job /\ last' = last
    BY <1>1, <1>4
  <2>3. QED
    BY <1>1, <1>2, <1>3, <2>1, <2>2, RestKeeps
<1>5. CASE job # NoCommand
  <2>1. EndpointForm' /\ NeverLocked'
    BY <1>1, <1>2, <1>3 DEF EndpointForm, NeverLocked, CheckImmutable
  <2>2. last' \notin {"installed", "removed"}
    BY <1>1, <1>5
  <2>3. QED
    BY <1>1, <1>2, <2>1, <2>2, StoppingKeeps
<1>6. QED
  BY <1>4, <1>5

-----------------------------------------------------------------------------
LEMMA EndpointInitInv == ASSUME EndpointInit PROVE EndpointInv
<1>1. /\ disk = [p \in Paths |-> IF p = "state" THEN Plain("whole") ELSE Absent]
      /\ baseline = NoBaseline /\ recorded = DefaultBin /\ job = NoCommand /\ last = "never"
      /\ enabled = FALSE /\ unit = [u \in Units |-> "inactive"]
      /\ tamper = [baseline |-> NoBaseline, settled |-> FALSE]
  BY DEF EndpointInit
<1>2. /\ Plain("whole") \in AnyFile /\ Absent \in AnyFile
      /\ Plain("whole").flags = {} /\ Absent.flags = {}
  BY DEF Plain, Absent, AnyFile, Data
<1>3. EndpointForm
  <2>1. disk \in [Paths -> AnyFile]
    BY <1>1, <1>2
  <2>2. tamper \in [baseline : Baselines, settled : BOOLEAN] /\ baseline \in Baselines
    BY <1>1, NoBaselineForm
  <2>3. QED
    BY <1>1, <2>1, <2>2, EndpointAssumption DEF EndpointForm
<1>4. NeverLocked
  BY <1>1, <1>2 DEF NeverLocked, CheckImmutable, Paths
<1>5. ~Busying
  BY <1>1 DEF Busying
<1>6. JobForm /\ JobDone /\ Removal
  <2>1. NoCommand \in [plan : Seq(PlanSteps), at : Nat, bin : Bins \cup {"none"}]
    <3>1. <<>> \in Seq(PlanSteps) /\ 1 \in Nat
      OBVIOUS
    <3>2. QED
      BY <3>1 DEF NoCommand
  <2>2. QED
    BY <1>1, <1>5, <2>1, Zenon DEF JobForm, JobDone, Removal
<1>7. HealthyDisk /\ SettledAgent /\ UninstallRemoves
  BY <1>1 DEF HealthyDisk, SettledAgent, UninstallRemoves, Removed, Installed
<1>8. QED
  BY <1>3, <1>4, <1>6, <1>7 DEF EndpointInv

LEMMA CommandKeeps ==
  ASSUME EndpointInv, CommandStep \/ SystemctlFails \/ WriteFails \/ CommandDies
  PROVE  EndpointInv'
<1>1. Busying
  BY DEF CommandStep, Unlock, Lock, WriteFile, WriteRefused, RemoveFile, Reload, Enable,
         Disable, SystemctlFails, WriteFails, CommandDies, At, Busying
<1>2. PICK P, b, n : Doing(P, b, n) /\ SoundPlan(P, b)
  BY <1>1, SomeoneIsDoing DEF EndpointInv
<1>3. CASE Unlock
  BY <1>2, <1>3, UnlockKeeps
<1>4. CASE Lock
  BY <1>2, <1>4, LockKeeps
<1>5. CASE WriteFile
  BY <1>2, <1>5, WriteFileKeeps
<1>6. CASE RemoveFile
  BY <1>2, <1>6, RemoveFileKeeps
<1>7. CASE Reload
  BY <1>2, <1>7, ReloadKeeps
<1>8. CASE Enable
  BY <1>2, <1>8, EnableKeeps
<1>9. CASE Disable
  BY <1>2, <1>9, DisableKeeps
<1>10. CASE SystemctlFails
  BY <1>2, <1>10, SystemctlFailsKeeps
<1>11. CASE WriteRefused \/ WriteFails \/ CommandDies
  BY <1>1, <1>11, AbortKeeps
<1>12. QED
  BY <1>3, <1>4, <1>5, <1>6, <1>7, <1>8, <1>9, <1>10, <1>11 DEF CommandStep

LEMMA EndpointStutter == ASSUME EndpointInv, UNCHANGED endpointVars PROVE EndpointInv'
<1>1. /\ UNCHANGED <<disk, baseline, recorded, job, last, degraded, enabled>>
      /\ unit' = unit /\ tamper' = tamper /\ UNCHANGED agent
  BY DEF endpointVars, agent
<1>2. EndpointForm /\ SettledAgent
  BY DEF EndpointInv
<1>3. /\ unit' \in [Units -> {"inactive", "active", "restart"}]
      /\ tamper' \in [baseline : Baselines, settled : BOOLEAN]
  BY <1>1, <1>2 DEF EndpointForm
<1>4. SettledAgent'
  BY <1>1, <1>2, SameAgent
<1>5. QED
  BY <1>1, <1>3, <1>4, RestKeeps

LEMMA EndpointInvariant == EndpointSpec => []EndpointInv
<1>1. EndpointInit => EndpointInv
  BY EndpointInitInv
<1>2. EndpointInv /\ [EndpointNext]_endpointVars => EndpointInv'
  <2> SUFFICES ASSUME EndpointInv, [EndpointNext]_endpointVars PROVE EndpointInv'
    OBVIOUS
  <2>1. CASE \E bin \in Bins : BeginInstall(bin)
    BY <2>1, BeginInstallKeeps
  <2>2. CASE BeginUninstall
    BY <2>2, BeginUninstallKeeps
  <2>3. CASE CommandStep \/ SystemctlFails \/ WriteFails \/ CommandDies
    BY <2>3, CommandKeeps
  <2>4. CASE Reboot
    BY <2>4, RebootKeeps
  <2>5. CASE Tick
    BY <2>5, TickKeeps
  <2>6. CASE \E p \in Paths \ {"token", "state"} : Alter(p)
    BY <2>6, AlterKeeps
  <2>7. CASE \E u \in Units : Kill(u) \/ Restart(u)
    BY <2>7, KillKeeps, RestartKeeps
  <2>8. CASE Guard
    BY <2>8, GuardKeeps
  <2>9. CASE StopByRoot
    BY <2>9, StopByRootKeeps
  <2>10. CASE UNCHANGED endpointVars
    BY <2>10, EndpointStutter
  <2>11. QED
    BY <2>1, <2>2, <2>3, <2>4, <2>5, <2>6, <2>7, <2>8, <2>9, <2>10 DEF EndpointNext
<1>3. QED
  BY <1>1, <1>2, PTL DEF EndpointSpec

(* Whatever was installed, interrupted or half removed before, neither     *)
(* command meets a lock an earlier one left (install.rs:320-321, 411).     *)
THEOREM NoLockInTheWay == EndpointSpec => []NeverBlocked
<1>1. EndpointInv => NeverBlocked
  <2>1. SUFFICES ASSUME EndpointInv, At("write") \/ At("hash") \/ At("remove")
                 PROVE  ~CheckImmutable(disk, Here)
    BY DEF NeverBlocked
  <2>2. Busying
    BY <2>1 DEF At, Busying
  <2>3. PICK P, b, n : Doing(P, b, n) /\ SoundPlan(P, b)
    BY <2>1, <2>2, SomeoneIsDoing DEF EndpointInv
  <2>4. /\ At("write") <=> P[n].op = "write"
        /\ At("hash") <=> P[n].op = "hash"
        /\ At("remove") <=> P[n].op = "remove"
        /\ Here = P[n].path
    BY <2>3, TheStep
  <2>5. P[n].op \in {"write", "hash", "remove"}
    BY <2>1, <2>4
  <2>6. NeverLocked
    BY <2>1 DEF EndpointInv
  <2>7. QED
    BY <2>3, <2>4, <2>5, <2>6, FreeOfLocks
<1>2. QED
  BY <1>1, EndpointInvariant, PTL

(* An uninstall that reports success has removed what the token recorded,  *)
(* or the default install when it could not read the token, and nothing of *)
(* it runs or will run, unless systemctl failed (install.rs uninstall).    *)
THEOREM UninstallIsThorough == EndpointSpec => []UninstallRemoves
<1>1. EndpointInv => UninstallRemoves
  BY DEF EndpointInv
<1>2. QED
  BY <1>1, EndpointInvariant, PTL

(* An agent that started after a finished install raises no tamper alert   *)
(* until a command or root has been at work again (lib.rs init, run).      *)
THEOREM NoFalseAlarm == EndpointSpec => []HealthyIsQuiet
<1>1. EndpointInv => HealthyIsQuiet
  BY DEF EndpointInv, SettledAgent, HealthyIsQuiet
<1>2. QED
  BY <1>1, EndpointInvariant, PTL
=============================================================================

---------------------------- MODULE AgentProcess ----------------------------
(***************************************************************************)
(* The life of the agent process: run of crates/aegis-agent/src/main.rs    *)
(* and what it drives, Host::run and RunningHost::shutdown of              *)
(* aegis-core/src/host.rs, with the init, the spawned tasks and the        *)
(* shutdown of the built-in plugins.  The loader and the process collector *)
(* are modules of their own.  What the dispatcher does with an event is    *)
(* EventBus's business; here the ingress only fills and drains.            *)
(*                                                                         *)
(* Plugins are initialised one after the other, and their tasks run while  *)
(* later ones initialise; the dispatcher starts after the last.  A signal  *)
(* without a handler kills.  The tripwire of plugin-tamper and the ctrl_c  *)
(* of main both listen for SIGINT.                                         *)
(***************************************************************************)
EXTENDS PluginLoader, ProcessSampler

CONSTANTS
  QueueDepths, (* the values queue_depth may have                          *)
  WarningSets, (* built-in plugins whose init may have to alert            *)
  TtyModes,    (* the modes the tty collector may be configured for        *)
  MaxSignals   (* bound of the model: signals sent                         *)

ASSUME ProcessAssumption ==
  /\ QueueDepths \subseteq Nat /\ MaxSignals \in Nat
  /\ TtyModes \subseteq {"off", "pipe", "shell"}

Signals == {"INT", "TERM"}

VARIABLES
  main,       (* "build", "init", "running", "stopping", "teardown",       *)
              (* "returned", "ended"                                       *)
  depth,      (* queue_depth                                               *)
  todo,       (* plugins still to be initialised, or to be shut down       *)
  warns,      (* the plugins whose init has something to alert about       *)
  warned,     (* the init under way has emitted its alert                  *)
  entries,    (* the plugins that run, in load order                       *)
  dispatcher, (* "off", "up", "ended"                                      *)
  ingress,    (* how many events the ingress channel holds                 *)
  told,       (* plugins whose shutdown has signalled their tasks          *)
  watch,      (* the tamper watch loop: "off", "up", "ended"               *)
  tripwire,   (* "off", "spawned", "armed", "alerting", "exiting", "ended" *)
  actor,      (* the transport's task: "off", "up", "ended"                *)
  recorder,   (* the tty collector's task or thread: "off", "pipe",        *)
              (* "shell", "reading" (its runtime waits for it), "ended"    *)
  handled,    (* signals the process has a handler for                     *)
  signals,    (* signals sent                                              *)
  tripped,    (* a signal waits for the tripwire                           *)
  interrupted (* a SIGINT waits for main's ctrl_c                          *)

host == <<main, depth, todo, warns, warned, entries, dispatcher, told>>
tasks == <<watch, tripwire, actor, recorder>>
signal == <<handled, signals, tripped, interrupted>>
vars == <<loader, sampler, host, ingress, tasks, signal>>

Init ==
  /\ LoaderInit /\ SamplerInit
  /\ main = "build" /\ depth \in QueueDepths
  /\ todo = <<>> /\ warns \in WarningSets /\ warned = FALSE /\ entries = <<>>
  /\ dispatcher = "off" /\ ingress = 0 /\ told = {}
  /\ watch = "off" /\ tripwire = "off" /\ actor = "off" /\ recorder = "off"
  /\ handled = {} /\ signals = 0 /\ tripped = FALSE /\ interrupted = FALSE

(* The runtime polls its tasks until main has returned; threads and signal *)
(* handlers last as long as the process.                                   *)
Alive == main \notin {"returned", "ended"}

(***************************************************************************)
(* The bus, as the tasks see it.                                           *)
(***************************************************************************)
HasRoom == dispatcher # "ended" /\ ingress < depth
Fits(n) == IF HasRoom THEN ingress + n ELSE ingress

(* A critical event waits for room; a closed ingress takes none.           *)
MayEmitCritical == dispatcher = "ended" \/ HasRoom

Dispatch ==
  /\ Alive /\ dispatcher = "up" /\ ingress > 0
  /\ ingress' = ingress - 1
  /\ UNCHANGED <<loader, sampler, host, tasks, signal>>

(***************************************************************************)
(* Building and initialising.                                              *)
(***************************************************************************)
Build ==
  /\ main = "build" /\ Load
  /\ main' = IF building' = "failed" THEN "ended" ELSE main
  /\ UNCHANGED <<sampler, depth, todo, warns, warned, entries, dispatcher, told,
                 ingress, tasks, signal>>

BeginInit ==
  /\ main = "build" /\ building = "done"
  /\ main' = "init" /\ todo' = loaded
  /\ UNCHANGED <<loader, sampler, depth, warns, warned, entries, dispatcher, told,
                 ingress, tasks, signal>>

Current == Head(todo)

(* A weak posture, or the default salt, is an alert the init waits for     *)
(* before it does anything else.                                           *)
OwesAlert == Current.lib = "none" /\ Current.name \in warns /\ ~warned
InitAlert ==
  /\ main = "init" /\ todo # <<>> /\ OwesAlert
  /\ HasRoom /\ ingress' = ingress + 1 /\ warned' = TRUE
  /\ UNCHANGED <<loader, sampler, main, depth, todo, warns, entries, dispatcher, told,
                 tasks, signal>>

(* An init that fails or panics costs its own plugin.                      *)
InitFails ==
  /\ main = "init" /\ todo # <<>> /\ ~warned
  /\ todo' = Tail(todo) /\ Fails
  /\ UNCHANGED <<building, explicit, order, declared, disabled, loaded, mapped, ran, sampler, main, depth,
                 warns, warned, entries, dispatcher, told, ingress, tasks, signal>>

Runs(p, name) == p.lib = "none" /\ p.name = name

(* The tasks the current plugin's init spawns; a session.start of the      *)
(* session collector is telemetry.                                         *)
Spawns ==
  /\ scan' = IF Runs(Current, "process") THEN "idle" ELSE scan
  /\ IF Runs(Current, "tamper")
       THEN watch' = "up" /\ tripwire' = "spawned"
       ELSE UNCHANGED <<watch, tripwire>>
  /\ actor' = IF Runs(Current, "transport") THEN "up" ELSE actor
  /\ IF Runs(Current, "tty") THEN recorder' \in TtyModes ELSE UNCHANGED recorder
  /\ ingress' = IF Runs(Current, "session") THEN Fits(1) ELSE ingress

(* The rest of an init, then the plugin's handler task.                    *)
InitPlugin ==
  /\ main = "init" /\ todo # <<>> /\ ~OwesAlert
  /\ Spawns
  /\ entries' = Append(entries, Current)
  /\ todo' = Tail(todo) /\ warned' = FALSE
  /\ UNCHANGED <<loader, forked, alive, seen, batch, reports, main, depth, warns,
                 dispatcher, told, signal>>

(* All are initialised: the dispatcher starts, and main awaits ctrl_c.     *)
StartRunning ==
  /\ main = "init" /\ todo = <<>>
  /\ main' = "running" /\ dispatcher' = "up" /\ handled' = handled \cup {"INT"}
  /\ UNCHANGED <<loader, sampler, depth, todo, warns, warned, entries, told,
                 ingress, tasks, signals, tripped, interrupted>>

(***************************************************************************)
(* The tasks.                                                              *)
(***************************************************************************)
Idle == UNCHANGED <<loader, host>>

ProcessesComeAndGo ==
  /\ Alive /\ signals = 0 /\ (Fork \/ Exit)
  /\ Idle /\ UNCHANGED <<ingress, tasks, signal>>

ScanTick ==
  /\ Alive /\ Sample
  /\ Idle /\ UNCHANGED <<ingress, tasks, signal>>

(* Telemetry that finds no room is dropped.                                *)
ScanEmits ==
  /\ Alive /\ EmitExec(HasRoom) /\ ingress' = Fits(1)
  /\ Idle /\ UNCHANGED <<tasks, signal>>

ScanGoesOn ==
  /\ Alive /\ BatchDone
  /\ Idle /\ UNCHANGED <<ingress, tasks, signal>>

ScanLeaves ==
  /\ Alive /\ "process" \in told /\ ScanStops
  /\ Idle /\ UNCHANGED <<ingress, tasks, signal>>

(* The tripwire's task runs for the first time and takes over both signals. *)
ArmTripwire ==
  /\ Alive /\ tripwire = "spawned"
  /\ tripwire' = "armed" /\ handled' = Signals
  /\ Idle /\ UNCHANGED <<sampler, ingress, watch, actor, recorder, signals, tripped, interrupted>>

(* Mutated form: the tripwire is not told of the host's shutdown.          *)
TripwireStops_Never == FALSE /\ UNCHANGED vars

(* Its select takes whichever has happened: the shutdown, ...              *)
TripwireStops ==
  /\ Alive /\ tripwire = "armed" /\ "tamper" \in told
  /\ tripwire' = "ended"
  /\ Idle /\ UNCHANGED <<sampler, ingress, watch, actor, recorder, signal>>

(* ... or a signal, which is an alert first and the end of the process     *)
(* 200 ms later.                                                           *)
TripwireWakes ==
  /\ Alive /\ tripwire = "armed" /\ tripped
  /\ tripwire' = "alerting" /\ tripped' = FALSE
  /\ Idle /\ UNCHANGED <<sampler, ingress, watch, actor, recorder, handled, signals, interrupted>>

TripwireAlerts ==
  /\ Alive /\ tripwire = "alerting" /\ MayEmitCritical
  /\ tripwire' = "exiting" /\ ingress' = Fits(1)
  /\ Idle /\ UNCHANGED <<sampler, watch, actor, recorder, signal>>

TripwireExits ==
  /\ Alive /\ tripwire = "exiting" /\ main' = "ended"
  /\ UNCHANGED <<loader, sampler, depth, todo, warns, warned, entries, dispatcher, told,
                 ingress, tasks, signal>>

(* A heartbeat of the watch loop is telemetry; its alerts are Endpoint's.  *)
Heartbeat ==
  /\ Alive /\ watch = "up" /\ HasRoom /\ ingress' = Fits(1)
  /\ Idle /\ UNCHANGED <<sampler, tasks, signal>>

WatchStops ==
  /\ Alive /\ watch = "up" /\ "tamper" \in told
  /\ watch' = "ended"
  /\ Idle /\ UNCHANGED <<sampler, ingress, tripwire, actor, recorder, signal>>

(* The forwarder's task persists its ring and ends; nobody waits for it.   *)
ActorStops ==
  /\ Alive /\ actor = "up" /\ "transport" \in told
  /\ actor' = "ended"
  /\ Idle /\ UNCHANGED <<sampler, ingress, watch, tripwire, recorder, signal>>

(* The tty collector, a task that reads a pipe or a thread that serves a   *)
(* shell, emits telemetry until its input ends, with a session's end or,   *)
(* when a read fails, without.  Nobody holds its handle or tells it to     *)
(* stop: the plugin has no shutdown of its own.                            *)
Recording == (recorder = "pipe" /\ Alive) \/ (recorder = "shell" /\ main # "ended")

RecorderEmits ==
  /\ Recording /\ HasRoom /\ ingress' = Fits(1)
  /\ Idle /\ UNCHANGED <<sampler, tasks, signal>>

RecorderEnds ==
  /\ Recording /\ recorder' = "ended" /\ ingress' \in {ingress, Fits(1)}
  /\ Idle /\ UNCHANGED <<sampler, watch, tripwire, actor, signal>>

(***************************************************************************)
(* Signals and the shutdown.                                               *)
(***************************************************************************)
Signal ==
  /\ main # "ended" /\ signals < MaxSignals /\ signals' = signals + 1
  /\ \E s \in Signals :
       IF s \notin handled
         THEN main' = "ended" /\ UNCHANGED <<tripped, interrupted>>
         ELSE /\ tripped' = (tripped \/ tripwire = "armed")
              /\ interrupted' = (interrupted \/ (s = "INT" /\ main = "running"))
              /\ UNCHANGED main
  /\ UNCHANGED <<loader, sampler, depth, todo, warns, warned, entries, dispatcher, told,
                 ingress, tasks, handled>>

BeginShutdown ==
  /\ main = "running" /\ interrupted
  /\ main' = "stopping" /\ interrupted' = FALSE /\ todo' = entries
  /\ UNCHANGED <<loader, sampler, depth, warns, warned, entries, dispatcher, told,
                 ingress, tasks, handled, signals, tripped>>

DispatcherStops ==
  /\ main = "stopping" /\ dispatcher = "up"
  /\ dispatcher' = "ended" /\ ingress' = 0
  /\ UNCHANGED <<loader, sampler, main, depth, todo, warns, warned, entries, told, tasks, signal>>

(* The handler tasks are joined in load order, once the dispatcher is.     *)
JoinHandler ==
  /\ main = "stopping" /\ dispatcher = "ended" /\ todo # <<>>
  /\ todo' = Tail(todo)
  /\ UNCHANGED <<loader, sampler, main, depth, warns, warned, entries, dispatcher, told,
                 ingress, tasks, signal>>

Joined ==
  /\ main = "stopping" /\ dispatcher = "ended" /\ todo = <<>>
  /\ main' = "teardown" /\ todo' = entries
  /\ UNCHANGED <<loader, sampler, depth, warns, warned, entries, dispatcher, told,
                 ingress, tasks, signal>>

(* Plugin::shutdown, in load order: signal the plugin's tasks, ...         *)
BeginPluginShutdown ==
  /\ main = "teardown" /\ todo # <<>> /\ Current.name \notin told
  /\ told' = told \cup {Current.name}
  /\ UNCHANGED <<loader, sampler, main, depth, todo, warns, warned, entries, dispatcher, 
                 ingress, tasks, signal>>

(* Mutated form: the tasks are signalled and not awaited.                  *)
TasksEnded_Unjoined(p) == TRUE

TasksEnded(p) ==
  /\ Runs(p, "process") => scan = "ended"
  /\ Runs(p, "tamper") => watch = "ended" /\ tripwire = "ended"

(* ... and, but for the transport's, await them.                           *)
PluginShutdown ==
  /\ main = "teardown" /\ todo # <<>> /\ Current.name \in told /\ TasksEnded(Current)
  /\ todo' = Tail(todo)
  /\ UNCHANGED <<loader, sampler, main, depth, warns, warned, entries, dispatcher, told,
                 ingress, tasks, signal>>

(* main returns, and its runtime drops the tasks that are left.  A read of *)
(* a pipe that is under way it cannot drop: it waits for the read to       *)
(* return, and a fifo nobody writes to never does.                         *)
Return ==
  /\ main = "teardown" /\ todo = <<>> /\ main' = "returned"
  /\ IF recorder = "pipe" THEN recorder' \in {"reading", "ended"} ELSE UNCHANGED recorder
  /\ UNCHANGED <<loader, sampler, depth, todo, warns, warned, entries, dispatcher, told,
                 ingress, watch, tripwire, actor, signal>>

ReadReturns ==
  /\ main = "returned" /\ recorder = "reading" /\ recorder' = "ended"
  /\ Idle /\ UNCHANGED <<sampler, ingress, watch, tripwire, actor, signal>>

EndProcess ==
  /\ main = "returned" /\ recorder # "reading" /\ main' = "ended"
  /\ UNCHANGED <<loader, sampler, depth, todo, warns, warned, entries, dispatcher, told,
                 ingress, tasks, signal>>

Main ==
  \/ Build \/ BeginInit \/ InitAlert \/ InitPlugin \/ StartRunning \/ BeginShutdown \/ Joined
  \/ BeginPluginShutdown \/ PluginShutdown \/ Return \/ EndProcess
Scanner  == ScanTick \/ ScanEmits \/ ScanGoesOn \/ ScanLeaves
Recorder == RecorderEmits \/ RecorderEnds \/ ReadReturns
Tripwire == ArmTripwire \/ TripwireStops \/ TripwireWakes \/ TripwireAlerts \/ TripwireExits

Next ==
  \/ Main \/ InitFails \/ Dispatch \/ Scanner \/ Tripwire \/ Heartbeat \/ WatchStops
  \/ ActorStops \/ Recorder \/ DispatcherStops \/ JoinHandler \/ Signal \/ ProcessesComeAndGo

Spec == Init /\ [][Next]_vars

(***************************************************************************)
(* Properties.                                                             *)
(***************************************************************************)
TypeOK ==
  /\ main \in {"build", "init", "running", "stopping", "teardown", "returned", "ended"}
  /\ depth \in QueueDepths /\ ingress \in 0 .. depth /\ signals \in 0 .. MaxSignals
  /\ dispatcher \in {"off", "up", "ended"} /\ watch \in {"off", "up", "ended"}
  /\ tripwire \in {"off", "spawned", "armed", "alerting", "exiting", "ended"}
  /\ actor \in {"off", "up", "ended"} /\ handled \subseteq Signals
  /\ recorder \in {"off", "pipe", "shell", "reading", "ended"}
  /\ warned \in BOOLEAN /\ tripped \in BOOLEAN /\ interrupted \in BOOLEAN

(* When main returns from an orderly shutdown (RunningHost::shutdown,      *)
(* Plugin::shutdown), the dispatcher, the process collector and both tasks *)
(* of the tamper plugin have ended and the forwarder has been told to.     *)
(* The tty collector is the one that may go on: it is not stopped, and     *)
(* what it still emits finds the ingress closed (plugin-tty lib.rs:139).   *)
OrderlyReturn ==
  [][Return => /\ dispatcher = "ended"
               /\ scan \in {"off", "ended"} /\ watch \in {"off", "ended"}
               /\ tripwire \in {"off", "ended"}
               /\ actor = "up" => "transport" \in told]_vars

(* An init has to alert and finds the ingress full, with the dispatcher    *)
(* not yet there to drain it (host.rs:234): it waits for ever.             *)
InitStuck == main = "init" /\ todo # <<>> /\ OwesAlert /\ ~HasRoom

(* A signal, whenever it comes and whichever of the handlers it wakes,     *)
(* ends the process: at once, by the tripwire or by main's return.  A      *)
(* process that lives on for ever is stuck in an init, or in a read of the *)
(* tty collector that its runtime waits for: nothing else keeps it.        *)
SignalEnds ==
  <>[](signals > 0 /\ main # "ended") => <>[](InitStuck \/ recorder = "reading")
=============================================================================

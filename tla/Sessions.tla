------------------------------ MODULE Sessions ------------------------------
(***************************************************************************)
(* The sessions of one agent with the server: connection permits and the   *)
(* handshake (ingest.rs), the router that maps the agent to the command    *)
(* channel of its session (registry.rs), the session's writer task, HTTP   *)
(* requests that queue commands (api.rs), and the agent's reader with its  *)
(* dispatch tasks (actor.rs).                                              *)
(*                                                                         *)
(* The agent has one connection at a time, but the server may still run    *)
(* the tasks of earlier ones: an agent that leaves is noticed late, or     *)
(* never.  Each server task, each request and each dispatch runs at its    *)
(* own pace.                                                               *)
(***************************************************************************)
EXTENDS Naturals, Sequences, FiniteSets, Functions

CONSTANTS
  Conns,               (* the connections the agent opens                  *)
  Commands,            (* the commands an operator posts                   *)
  Stuck,               (* those whose dispatch may wait for the bus for    *)
                       (* ever: Isolate raises an alert                    *)
  None,                (* no connection                                    *)
  MaxConnections,      (* MAX_CONNECTIONS                                  *)
  CommandQueueDepth,   (* COMMAND_QUEUE_DEPTH                              *)
  MaxInflightCommands  (* MAX_INFLIGHT_COMMANDS                            *)

ASSUME SessionsAssumption ==
  /\ None \notin Conns /\ Stuck \subseteq Commands
  /\ {"accepted", "refused"} \cap Commands = {}
  /\ {MaxConnections, CommandQueueDepth, MaxInflightCommands} \subseteq Nat \ {0}

VARIABLES
  client,    (* client[c]: "none", "handshake", "online", "left"           *)
  server,    (* server[c], the task: "none", "tls", "auth", "accepted"     *)
             (* (ServerHello written), "serving", "leaving" (unregistered),*)
             (* "ended"                                                    *)
  broken,    (* connections whose end the server's socket can tell         *)
  wire,      (* wire[c]: frames on their way to the agent                  *)
  router,    (* the connection whose channel the router holds              *)
  writer,    (* writer[c]: "off", "running", "stopped"                     *)
  commands,  (* commands[c]: the command channel                           *)
  writing,   (* writing[c]: the command in the writer's hands, if any      *)
  request,   (* request[k]: "new", "found", or the answer to the operator  *)
  target,    (* target[k]: the connection whose channel was looked up      *)
  running,   (* running[c]: commands whose dispatch task runs              *)
  got,       (* history: commands that were dispatched                     *)
  dropped,   (* history: commands dropped for want of a permit             *)
  last       (* history: the connection registered last                    *)

ends     == <<client, server, broken, wire>>
channel  == <<writer, commands, writing>>
requests == <<request, target>>
dispatch == <<running, got, dropped>>
vars     == <<ends, router, last, channel, requests, dispatch>>

Live == {c \in Conns : server[c] \notin {"none", "ended"}}

Init ==
  /\ client = [c \in Conns |-> "none"] /\ server = [c \in Conns |-> "none"]
  /\ broken = {} /\ wire = [c \in Conns |-> <<>>]
  /\ router = None /\ last = None
  /\ writer = [c \in Conns |-> "off"]
  /\ commands = [c \in Conns |-> <<>>] /\ writing = [c \in Conns |-> <<>>]
  /\ request = [k \in Commands |-> "new"] /\ target = [k \in Commands |-> None]
  /\ running = [c \in Conns |-> {}] /\ got = {} /\ dropped = {}

(***************************************************************************)
(* Connecting and leaving.                                                 *)
(***************************************************************************)
(* TCP.  Other agents hold some of the permits; without a permit the       *)
(* server drops the connection at once.                                    *)
Connect(c) ==
  /\ client[c] = "none" /\ \A d \in Conns : client[d] \in {"none", "left"}
  /\ client' = [client EXCEPT ![c] = "handshake"]
  /\ \E others \in 0 .. MaxConnections - Cardinality(Live) :
       server' = [server EXCEPT ![c] = IF Cardinality(Live) + others < MaxConnections
                                         THEN "tls" ELSE "ended"]
  /\ UNCHANGED <<broken, wire, router, last, channel, requests, dispatch>>

(* acceptor.accept, for which there is no deadline ...                     *)
TlsAccept(c) ==
  /\ server[c] = "tls" /\ server' = [server EXCEPT ![c] = "auth"]
  /\ UNCHANGED <<client, broken, wire, router, last, channel, requests, dispatch>>

(* ... so that only the end of the connection ends it.                     *)
TlsFails(c) ==
  /\ server[c] = "tls" /\ c \in broken
  /\ server' = [server EXCEPT ![c] = "ended"]
  /\ UNCHANGED <<client, broken, wire, router, last, channel, requests, dispatch>>

(* handle_conn: the challenge is answered and verified, or the session is  *)
(* refused, or the deadline of a frame passes.  The agent's answer may     *)
(* have come from an agent that has left since.                            *)
Accept(c) ==
  /\ server[c] = "auth" /\ server' = [server EXCEPT ![c] = "accepted"]
  /\ wire' = [wire EXCEPT ![c] = Append(@, "accepted")]
  /\ UNCHANGED <<client, broken, router, last, channel, requests, dispatch>>

Refuse(c) ==
  /\ server[c] = "auth" /\ server' = [server EXCEPT ![c] = "ended"]
  /\ wire' \in {wire, [wire EXCEPT ![c] = Append(@, "refused")]}
  /\ UNCHANGED <<client, broken, router, last, channel, requests, dispatch>>

(* run_session: touch_agent, then Router::register: the last writer wins.  *)
Register(c) ==
  /\ server[c] = "accepted" /\ server' = [server EXCEPT ![c] = "serving"]
  /\ router' = c /\ last' = c
  /\ writer' = [writer EXCEPT ![c] = "running"]
  /\ UNCHANGED <<client, broken, wire, commands, writing, requests, dispatch>>

ReadHello(c) ==
  /\ client[c] = "handshake" /\ wire[c] # <<>>
  /\ client' = [client EXCEPT ![c] = IF Head(wire[c]) = "accepted" THEN "online" ELSE "left"]
  /\ wire' = [wire EXCEPT ![c] = Tail(@)]
  /\ UNCHANGED <<server, broken, router, last, channel, requests, dispatch>>

(* Read or write error, silent server, ack timeout, shutdown.  Dispatch    *)
(* tasks are detached and go on.                                           *)
Leave(c) ==
  /\ client[c] \in {"handshake", "online"}
  /\ client' = [client EXCEPT ![c] = "left"]
  /\ UNCHANGED <<server, broken, wire, router, last, channel, requests, dispatch>>

(* The server's socket comes to know: a FIN or a reset, or never.          *)
Notice(c) ==
  /\ client[c] = "left" /\ c \notin broken /\ broken' = broken \cup {c}
  /\ UNCHANGED <<client, server, wire, router, last, channel, requests, dispatch>>

(* Mutated form: whoever ends removes the agent's entry.                   *)
Unregistered_Always(c) == None

(* Router::unregister leaves a newer session in place.                     *)
Unregistered(c) == IF router = c THEN None ELSE router

(* Mutated form: read_loop waits for the socket alone, without a timeout.  *)
Unregister_NoTimeout(c) ==
  /\ server[c] = "serving" /\ c \in broken
  /\ server' = [server EXCEPT ![c] = "leaving"] /\ router' = Unregistered(c)
  /\ UNCHANGED <<client, broken, wire, last, channel, requests, dispatch>>

(* read_loop returns: the socket ends, or nothing was read for             *)
(* SESSION_IDLE_TIMEOUT, because the agent is gone or because it stalls.   *)
Unregister(c) ==
  /\ server[c] = "serving"
  /\ server' = [server EXCEPT ![c] = "leaving"] /\ router' = Unregistered(c)
  /\ UNCHANGED <<client, broken, wire, last, channel, requests, dispatch>>

(* Mutated form: the writer is awaited without being aborted.  It waits    *)
(* for a channel that this task keeps open.                                *)
StopWriter_JoinOnly(c) ==
  /\ server[c] = "leaving" /\ writer[c] = "stopped"
  /\ server' = [server EXCEPT ![c] = "ended"]
  /\ UNCHANGED <<client, broken, wire, router, last, channel, requests, dispatch>>

(* The writer is aborted at an await, with what it holds and what is       *)
(* queued, and the permit is released.                                     *)
StopWriter(c) ==
  /\ server[c] = "leaving" /\ server' = [server EXCEPT ![c] = "ended"]
  /\ writer' = [writer EXCEPT ![c] = "stopped"]
  /\ commands' = [commands EXCEPT ![c] = <<>>] /\ writing' = [writing EXCEPT ![c] = <<>>]
  /\ UNCHANGED <<client, broken, wire, router, last, requests, dispatch>>

(***************************************************************************)
(* A command's way to the agent.                                           *)
(***************************************************************************)
(* Router::send, first half: the sender is cloned under the read lock.     *)
Lookup(k) ==
  /\ request[k] = "new"
  /\ request' = [request EXCEPT ![k] = IF router = None THEN "not_connected" ELSE "found"]
  /\ target' = [target EXCEPT ![k] = router]
  /\ UNCHANGED <<ends, router, last, channel, dispatch>>

(* Mutated form: a full channel makes room.                                *)
TrySend_DropOldest(k) ==
  /\ request[k] = "found"
  /\ LET c == target[k]  open == writer[c] # "stopped"
     IN /\ request' = [request EXCEPT ![k] = IF open THEN "queued" ELSE "not_connected"]
        /\ commands' = IF ~open THEN commands
                       ELSE [commands EXCEPT ![c] =
                               IF Len(@) < CommandQueueDepth THEN Append(@, k)
                               ELSE Append(Tail(@), k)]
  /\ UNCHANGED <<ends, router, last, writer, writing, target, dispatch>>

(* Second half, the lock released: try_send.                               *)
TrySend(k) ==
  /\ request[k] = "found"
  /\ LET c == target[k]
     IN \/ /\ writer[c] = "stopped"
           /\ request' = [request EXCEPT ![k] = "not_connected"] /\ UNCHANGED commands
        \/ /\ writer[c] # "stopped" /\ Len(commands[c]) >= CommandQueueDepth
           /\ request' = [request EXCEPT ![k] = "full"] /\ UNCHANGED commands
        \/ /\ writer[c] # "stopped" /\ Len(commands[c]) < CommandQueueDepth
           /\ request' = [request EXCEPT ![k] = "queued"]
           /\ commands' = [commands EXCEPT ![c] = Append(@, k)]
  /\ UNCHANGED <<ends, router, last, writer, writing, target, dispatch>>

WriterTakes(c) ==
  /\ writer[c] = "running" /\ writing[c] = <<>> /\ commands[c] # <<>>
  /\ writing' = [writing EXCEPT ![c] = <<Head(commands[c])>>]
  /\ commands' = [commands EXCEPT ![c] = Tail(@)]
  /\ UNCHANGED <<ends, router, last, writer, requests, dispatch>>

(* A frame goes out, which on a broken connection reaches nobody ...       *)
WriterSends(c) ==
  /\ writer[c] = "running" /\ writing[c] # <<>>
  /\ wire' = [wire EXCEPT ![c] = @ \o writing[c]]
  /\ writing' = [writing EXCEPT ![c] = <<>>]
  /\ UNCHANGED <<client, server, broken, router, last, writer, commands, requests, dispatch>>

(* ... or fails, and the writer ends while the read loop may go on.        *)
WriterFails(c) ==
  /\ writer[c] = "running" /\ writing[c] # <<>> /\ c \in broken
  /\ writer' = [writer EXCEPT ![c] = "stopped"]
  /\ commands' = [commands EXCEPT ![c] = <<>>] /\ writing' = [writing EXCEPT ![c] = <<>>]
  /\ UNCHANGED <<ends, router, last, requests, dispatch>>

(* Mutated form: the reader waits for a permit.                            *)
ReadCommand_Waits(c) ==
  /\ client[c] = "online" /\ wire[c] # <<>> /\ wire' = [wire EXCEPT ![c] = Tail(@)]
  /\ Cardinality(running[c]) < MaxInflightCommands
  /\ running' = [running EXCEPT ![c] = @ \cup {Head(wire[c])}]
  /\ got' = got \cup {Head(wire[c])} /\ UNCHANGED dropped
  /\ UNCHANGED <<client, server, broken, router, last, channel, requests>>

(* The agent's reader: each command gets a task of its own, if there is a  *)
(* permit; otherwise it is dropped with a log line, and no result is sent. *)
ReadCommand(c) ==
  /\ client[c] = "online" /\ wire[c] # <<>> /\ wire' = [wire EXCEPT ![c] = Tail(@)]
  /\ \/ /\ Cardinality(running[c]) < MaxInflightCommands
        /\ running' = [running EXCEPT ![c] = @ \cup {Head(wire[c])}]
        /\ got' = got \cup {Head(wire[c])} /\ UNCHANGED dropped
     \/ /\ Cardinality(running[c]) >= MaxInflightCommands
        /\ dropped' = dropped \cup {Head(wire[c])} /\ UNCHANGED <<running, got>>
  /\ UNCHANGED <<client, server, broken, router, last, channel, requests>>

(* dispatch_command returns and its result is sent, or fails to be.        *)
DispatchEnds(c, k) ==
  /\ k \in running[c] /\ running' = [running EXCEPT ![c] = @ \ {k}]
  /\ UNCHANGED <<ends, router, last, channel, requests, got, dropped>>

ServerTask(c) ==
  \/ TlsAccept(c) \/ TlsFails(c) \/ Accept(c) \/ Refuse(c)
  \/ Register(c) \/ Unregister(c) \/ StopWriter(c)
WriterTask(c) == WriterTakes(c) \/ WriterSends(c) \/ WriterFails(c)

Next ==
  \/ \E c \in Conns : Connect(c) \/ ReadHello(c) \/ Leave(c) \/ Notice(c) \/ ReadCommand(c)
  \/ \E c \in Conns : ServerTask(c) \/ WriterTask(c)
  \/ \E k \in Commands : Lookup(k) \/ TrySend(k)
  \/ \E c \in Conns, k \in Commands : DispatchEnds(c, k)

Spec == Init /\ [][Next]_vars

(* Tasks are polled, and deadlines pass: FIRST_FRAME_TIMEOUT in the        *)
(* handshake, SESSION_IDLE_TIMEOUT once the agent is silent, the agent's   *)
(* own when the server is.  Nothing makes an agent finish TLS, leave while *)
(* it is served, or a socket notice its end.                               *)
FairSpec ==
  /\ Spec
  /\ \A c \in Conns : /\ WF_vars(TlsFails(c)) /\ WF_vars(Accept(c) \/ Refuse(c))
                      /\ WF_vars(Register(c)) /\ WF_vars(StopWriter(c))
                      /\ WF_vars(client[c] = "left" /\ Unregister(c))
                      /\ WF_vars(server[c] = "ended" /\ Leave(c))
                      /\ WF_vars(WriterTask(c)) /\ WF_vars(ReadHello(c)) /\ WF_vars(ReadCommand(c))
  /\ \A c \in Conns, k \in Commands \ Stuck : WF_vars(DispatchEnds(c, k))

-----------------------------------------------------------------------------
(* Types, and the three caps: permits, command queue, dispatch tasks.      *)
TypeOK ==
  /\ client \in [Conns -> {"none", "handshake", "online", "left"}]
  /\ server \in [Conns -> {"none", "tls", "auth", "accepted", "serving", "leaving", "ended"}]
  /\ broken \subseteq Conns
  /\ wire \in [Conns -> Seq({"accepted", "refused"} \cup Commands)]
  /\ router \in Conns \cup {None} /\ last \in Conns \cup {None}
  /\ writer \in [Conns -> {"off", "running", "stopped"}]
  /\ commands \in [Conns -> Seq(Commands)]
  /\ writing \in [Conns -> Seq(Commands)]
  /\ \A c \in Conns : Len(commands[c]) <= CommandQueueDepth
  /\ request \in [Commands -> {"new", "found", "queued", "not_connected", "full"}]
  /\ target \in [Commands -> Conns \cup {None}]
  /\ \A k \in Commands : request[k] \in {"found", "queued"} => target[k] \in Conns
  /\ running \in [Conns -> SUBSET Commands]
  /\ \A c \in Conns : Cardinality(running[c]) <= MaxInflightCommands
  /\ got \subseteq Commands /\ dropped \subseteq Commands
  /\ Cardinality(Live) <= MaxConnections

(* The router holds the session registered last for as long as that one is *)
(* served, and nothing otherwise: teardowns of older sessions, however     *)
(* late, never touch the entry, and a session that ends leaves none.       *)
RouterHoldsLast ==
  /\ router # None => router = last /\ server[router] = "serving"
  /\ last # None /\ server[last] = "serving" => router = last

(* A command the operator was told is queued (202) is on its way in its    *)
(* session or has been read by the agent, unless that session's writer     *)
(* has ended: with a command in its hands, or with commands queued.        *)
Unread(k, c) == k \in Range(commands[c]) \cup Range(writing[c]) \cup Range(wire[c])
QueuedIsKept ==
  \A k \in Commands : request[k] = "queued" =>
     Unread(k, target[k]) \/ k \in got \cup dropped \/ writer[target[k]] = "stopped"

(* A dispatch that hangs on the bus does not hold up the reader: as long   *)
(* as the session lasts, every queued command is dispatched or dropped.    *)
ReaderKeepsUp ==
  \A k \in Commands, c \in Conns :
     (request[k] = "queued" /\ target[k] = c /\ client[c] = "online")
        ~> (k \in got \cup dropped \/ client[c] = "left")

(* A connection the agent has left gives its permit back, whether or not   *)
(* the server's socket is told, once it is past TLS.                       *)
PermitReturned ==
  \A c \in Conns : client[c] = "left" /\ server[c] # "tls" ~> server[c] \in {"none", "ended"}

=============================================================================

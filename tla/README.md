# A verification project for the insider-threat profiler

The program is an agent and a server. Both are hosts of plugins around one
in-process event bus. On the agent, collectors observe terminals, sessions and
processes, processors turn that into detections and risk scores, and one sink,
`plugin-transport`, forwards everything over TLS to the server. On the server
the ingest task accepts agents, writes what they send to an audit log (redb)
and puts it on the server's own bus, where a store sink and further plugins
subscribe; an HTTP API reads the store and queues commands for live agents.

The modules here are TLA+ specifications translated from that code, with TLC
configurations that check small instances and proofs checked by the TLA+ proof
system. What matters to this system is that a security event is not lost,
reordered or duplicated without anybody noticing, that no component can stop
another, that the agent stays installed, running and able to leave, and that what
an operator is shown is what is stored: the models concentrate on those questions.

## 1. Inventory

| component | code | state | operations | interacts with |
|---|---|---|---|---|
| event bus, plugin host | `aegis-core/src/{bus,host}.rs` | ingress channel, one queue per plugin, shutdown signal, drop counters | `emit`, dispatcher loop, handler tasks, `run`, `shutdown` | every plugin, through `Emitter` and `Plugin::handle` |
| forwarder | `plugin-transport/src/{actor,spill,ring,lib}.rs` | ring, spill table and write cursor, pending batches, connection phase | `handle`, connect, handshake, `try_flush`, ack, keepalive, shutdown, buffering without identity | bus (above), server (over TLS) |
| identity and authentication | `plugin-transport/src/{auth,identity}.rs`, `aegis-server/src/enroll.rs` | key file, token table, agent table | create, revoke, enroll, challenge, verify | forwarder, ingest, store |
| server ingest | `aegis-server/src/ingest.rs` | per connection: task, de-dup window; shared: window, connection permits | accept, handshake, `read_loop`, session writer, certificate bootstrap | store, bus, router |
| command router | `aegis-server/src/registry.rs` | map from agent to command channel | register, unregister, send | ingest sessions, HTTP handlers |
| audit store | `aegis-server/src/store.rs` | redb tables: events, indexes, detections, scores, alerts, agents, tokens | one write transaction per operation, compaction | ingest, sink, API, enrollment |
| store sink | `aegis-server/src/sink.rs` | broadcast channel | persist derived events, hourly compaction | bus, store, live feed |
| HTTP API, dashboard | `aegis-server/src/{api,dashboard}.rs` | none of its own | queries, token and command endpoints, SSE | store, router |
| risk scoring | `plugin-scoring/src/lib.rs` | score per subject | bump with decay, remove, alert | detections and process events in, scores and alerts out |
| agent detection | `plugin-agent-detect/src` | feature window per session, baseline | observe, emit every n events, evict idle, escalate | session and tty events in, detections out |
| collectors | `plugin-{tty,session,process}/src` | line buffer and clocks, set of seen processes | read, poll | bus |
| detector evaluation | `plugin-agent-detect/src/{features,model,synth,eval}.rs` | accumulator of a session, sequential test | feature vector, verdict, replay, metrics, escape costs, ablation | the detector whose verdicts it re-creates |
| tamper protection | `plugin-tamper/src` | protected files with their flags, manifest, install token, units, watch and tripwire tasks | install, uninstall, periodic check, signal tripwire | systemd, file system, bus |
| plugin loader | `aegis-core/src/{host,loader,config}.rs`, `aegis-sdk/src/plugin.rs` | plugin objects, mapped libraries | load explicit, declared, built-in plugins | every plugin |
| agent process | `aegis-agent/src/main.rs` | the host, the tasks of its plugins, signal handlers | build, init, run, stop on a signal, return | loader, bus, collectors, tamper tasks, forwarder |
| wire protocol | `aegis-proto/src` | none | framing, TLS configuration, pins | forwarder, ingest |
| command line client | `aegis-cli/src` | none | listings, acknowledge, tokens, commands | API |
| server entry point, SDK types, example | `aegis-server/src/main.rs`, `aegis-sdk`, `example-plugin` | none | start, stop | |

### What is hard

* **The bus** is two layers of bounded channels. Telemetry is dropped when one is
  full, critical kinds wait. Handlers emit while they are being fed, so a queue
  can wait on the ingress and the ingress on the queue. Shutdown stops tasks
  that may be waiting for each other.
* **The forwarder** moves events through ring, disk and network under crashes,
  disk errors, ack timeouts, reconnects with old connections still draining, and
  a cap that evicts rows a batch in flight may cover. Deletion is by key range
  ("everything through the highest key of this batch"), so anything that puts a
  batch's highest key above a row it does not contain loses that row.
* **Ingest** records an event as seen before it is stored, runs one task per
  connection over a shared window, and acknowledges whole batches. Retransmission,
  a second connection and a restart may come between any two of those steps.
* **Sessions**: the router entry of an agent, the sessions that think they own
  it, and requests that looked a channel up before it was replaced.
* **Enrollment**: two parties, a single-use token and a response that may be lost;
  a key pair in two files that are written one after the other.
* **Scoring and detection**: results that arrive after the session they belong to.
* **Install and uninstall** are sequences of steps on immutable files, each of which
  can fail or be the last; what one leaves behind is what the next one meets.
* **The agent process** starts the tasks of one plugin while the next initialises,
  before anything drains the bus; two tasks listen for the same signal; the shutdown
  awaits tasks that may be waiting for the bus.
* **The dashboard** applies polls and a live feed that come on different
  connections, late, twice or not at all.
* **The detector's harness** restates in a second place what the plugin does live,
  with thresholds, counters and a latch that are easily off by one.

### What makes each component correct

* bus: critical events reach every subscriber while the host is up; plugins agree
  on order; a plugin is never called after its shutdown; a slow plugin holds up nobody
  else; a stop completes.
* forwarder: an event leaves only by delivery or by a logged discard; order; the
  backlog drains.
* ingest: what is acknowledged is stored; the bus sees an event once; an agent is
  always answered.
* router: the entry is the session that is live; a teardown never removes a newer
  session; a command accepted for a lasting session reaches the agent.
* enrollment: a token makes at most one agent, revocation wins or loses as a whole,
  an agent that holds an identity is one the server knows.
* store: indexes and rows agree; compaction removes from all or none.
* scoring and detection: every verdict is scored once and in order; no alert without
  the evidence for it; nothing is kept of a session that is over.
* tamper protection: no command is blocked by a lock an earlier one left; an
  uninstall removes the install it finds; no alert on a healthy machine; the agent
  comes back.
* loader and agent process: no plugin that is disabled or a duplicate runs, and no code
  is unmapped under a plugin; a process is reported once; start-up and signals end;
  what the shutdown joins has ended when main returns.
* console: the page ends with what is stored and claims no acknowledgement that was
  not made; both front ends list the same rows.
* evaluation: the harness gives the verdicts the plugin gives; its numbers mean what
  their names say.

## 2. Modules

| module | models | kind |
|---|---|---|
| `Spill` | `spill.rs` and the batch arithmetic of `actor.rs` | operators |
| `Forwarder` | `lib.rs`, `ring.rs`, `actor.rs` of plugin-transport, on `Spill` | state machine |
| `Delivery` | what a forwarder promises: hold, deliver, discard | abstract specification |
| `MCForwarder` | event sizes for the forwarder runs: equal, or one too large for a frame | instance |
| `EventBus` | `bus.rs` and the runtime half of `host.rs` | state machine |
| `MCEventBus` | plugins, subscriptions and emitters for the bus run: the scoring chain as it is shipped | instance |
| `Ingest` | `read_loop`, the de-dup windows, `write_event` as ingest uses it | state machine |
| `Sessions` | permits, handshake outcome, `registry.rs`, session writer, `post_command`, the agent's reader and dispatch tasks | state machine |
| `Enrollment` | certificate bootstrap (`ingest.rs`), tokens and `enroll_txn` (`store.rs`, `api.rs`), the agent's `enroll` command, `identity.rs`, the challenge handshake | state machine |
| `MCEnrollment` | symmetry for the enrollment run | instance |
| `Store` | the event, alert, detection and score tables of `store.rs` with retention and paging, `sink.rs`, and what `ingest.rs`, `api.rs` and the processors do to them | state machine |
| `MCStore` | events for the store run | instance |
| `Detection` | session windows and verdicts (`plugin-agent-detect/lib.rs`), `RiskState` and alerts (`plugin-scoring/lib.rs`), the collectors that feed them and the bus between | state machine |
| `ProtectedFiles` | `manifest.rs`, `immutable.rs` of plugin-tamper, and what the kernel allows on locked files | operators |
| `Endpoint` | `install.rs`, the periodic check of `plugin-tamper/lib.rs`, the rendered units as systemd runs them, on `ProtectedFiles` | state machine |
| `MCEndpoint` | data sizes for the endpoint run | instance |
| `PluginLoader` | `HostBuilder::build`, `load_dynamic`, `is_enabled`, plugin registration | state machine, part of `AgentProcess` |
| `ProcessSampler` | the loop of plugin-process | state machine, part of `AgentProcess` |
| `AgentProcess` | `run` of `aegis-agent/main.rs`, `Host::run`, `RunningHost::shutdown`, init, tasks and shutdown of the built-in plugins; composes the two above | state machine |
| `Terminal` | the tty collector: `analyzer.rs`, pump and pipe of `runtime.rs`, the edit distance | state machine, part of `AgentCommands` |
| `AgentCommands` | what the agent binary is started for: `run` (`AgentProcess`) or a tty session (`Terminal`) | composition |
| `MCAgentCommands` | plugins, libraries, processes, alerting inits and bytes for the agent run | instance |
| `Console` | listings, acknowledgement and live feed of `api.rs`, `app.js` of the dashboard, the listings of `aegis-cli` | state machine |
| `MCConsole` | rows, their agents and request bounds for the console run | instance |
| `Logistic` | sigmoid, tanh, logit and exp, as tables on integers | operators |
| `Features` | `features.rs`: accumulator and feature vector | operators |
| `Model` | `model.rs`: weighted evidence, rules, verdict | operators |
| `Synth` | `synth.rs`: profiles, evasion, sessions from draws | operators |
| `Evaluation` | `eval.rs`: replay, sequential test, metrics, cost to evade, ablation, on `Model` and `Synth` | state machine |
| `MCEvaluation` | draws and measurements for the evaluation run | instance |
| `SequenceFacts` | lemmas on ranges and places of `Append`, `Tail`, `RemoveAt` and concatenation | proofs |
| `EventBusProofs` | four theorems about `EventBus` | proofs |
| `ServerProofs` | three theorems about `Sessions`, two about `Store`, one about `Console` | proofs |
| `AgentProofs` | five theorems about `AgentProcess`, its loader, its sampler and `AgentCommands`, three about `Endpoint` | proofs |
| `IngestProofs` | three theorems about `Ingest` | proofs |
| `ForwarderProofs` | four theorems about `Forwarder`, that it implements `Delivery` among them | proofs |
| `EnrollmentProofs` | four theorems about `Enrollment` | proofs |
| `DetectionProofs` | four theorems about `Detection` | proofs |

Names follow the source. A variable is a field or a local of the code
(`ring`, `rows`, `write_cursor`, `pending`; `ingress`, `queue`; `seen`,
`global_dedup`), an action is a handler or the stretch of one between two points
where another task can run.

### Forwarder

`phase` says where the actor is: `backoff`, `connecting`, `online`, the three
steps of `try_flush` (`topup`, `spilling`, `sending`: one per acquisition of the
spill lock or the socket), `exiting` (after the loop of `run`, before the ring is
persisted), `stopped`, or `buffering` for an agent without identity. The spill is
a function from keys to events, exactly the redb table. Events are numbered in the
order the bus offers them, and a constant gives each a size.

Process ends are of two kinds. `Crash` may come anywhere. `ProcessExit` needs the
shutdown flag, and nothing else, because nothing waits for the actor: `init` drops
its join handle and the host returns after `Plugin::shutdown`, which only signals.

A peer takes batches from each connection in order and acknowledges them on the
current one. An abandoned connection keeps what was written to it, and may still
deliver it, in part or not at all.

`connecting` stands for TCP, TLS, pin check and the challenge handshake: one step
that succeeds, is retried, or is fatal. A handshake that never answers is a
behaviour that stays in `connecting`.

`fate` is a history variable: why an event left the buffers without being sent.
Each value is a place where the code logs or counts the loss (`ring_full`,
`spill_cap`, `oversize`, `disk_error`, `process_exit`).

### EventBus

Channels are tokio's: a send that waits is served in order, and a slot promised to
it is not free for `try_send` (`Free > Len(waiters)`). The dispatcher is three
steps per event, one per route, so a critical event waits in the middle of its
fan-out with the plugins before it served and those behind it not. Loading is the
loop of `Host::run`: `init` may emit (the `Host` task), may fail (the plugin has no
route), and the dispatcher is spawned after the last. `shutdown` is joined in the
code's order: dispatcher, handlers, then `Plugin::shutdown`. `WaitCycle` is the state in which
the dispatcher waits for a queue and the handler behind that queue for the ingress.

### Ingest

One `step` per connection: `read`, `dedup`, `write`, `emit`. Both window updates
and the allowlist are one step (nothing awaits between them but the window's
mutex), the store transaction is one step, the emit is one. The agent is the
forwarder reduced to what the server sees: it sends its oldest events, forgets
them on an ack, and may leave and come back with everything it still holds.

### Sessions

`client` is the agent's view of a connection and `server` the state of the task
that serves it; they drift apart when the agent leaves, and `broken` is when the
server's socket comes to know. A task goes through `tls` (no deadline), `auth` (each
frame has one), `accepted` (ServerHello written, not yet registered), `serving` (ended
by the socket or by SESSION_IDLE_TIMEOUT), `leaving` and `ended`. Permits are shared with other agents' connections,
which appear only in the choice of `Connect`. `Router::send` is two steps, because
the sender is cloned under the lock and used after it. Teardown is two steps:
`Unregister`, then `StopWriter`, with requests and the writer running in between.
The challenge is one step of the server (`Accept` or `Refuse`); what matters here is
that writing the `ServerHello` and registering are not atomic, and neither are the
agent's reading of it and anything else. A dispatch that emits an alert may wait for
the bus for ever (`Stuck`).

### Enrollment

Everything that is persisted is a variable of its own, because it is written by
itself: `tls.crt` and `tls.key` (`crt`, `key`), `identity.json` and the key file
(`identity`, `keyfile`), the tables (`tokens`, `agents`). Key pairs are numbered, so
"these two files belong together" and "this is the key the agent enrolled with" are
equalities; 0 is a file that is missing or torn. `persist` truncates a file and then
writes it, twice, so the enroll command has five steps after the server's answer was
sent, and may end at each. `load` reads the two files one after the other and may run
between any two of these. A server start is `LoadCert` or `WriteCert` and `WriteKey`;
the server may stop anywhere, which loses the answers that are on their way.
`settled` is a history variable: the last enroll command that touched the
endpoint's files reported success.

### Store

Every method of `Store` is one transaction under one lock, so it is one step; what
can be torn is a caller that makes two. `StoreSink::handle` is three steps (audit
log, the table of the kind, the live feed), ingest two (log, emit). A row is its key,
the timestamp and the event's id, because the tables are related by nothing else; the
processors stamp an event before they wait for the bus, one event of a kind at a
time, and ingest replaces timestamps too far from its clock. The retention sweep
reads the clock before it takes the lock, so its cutoff may be any that was due. A
restart loses what is in memory, including ingest's de-dup window: a heartbeat may be
logged again, under another timestamp. Histories: `evicted` (by the index cap),
`pruned` (latest cutoff), `torn` (the second write failed or the process ended before
it), `confirmed` (acknowledgements answered).

### Detection

`detect_q` and `score_q` are the queues of the two plugins, `ingress` the bus in
front of them; `EventBus` has the bus in detail, so here the fan-out of an event is one
step. A detection that finds the scoring queue full waits at the head of the ingress
(in the code it has left it: the ingress has one slot less here). The handler of a
session's end is three steps, because it waits for the bus between the verdict and the
removal: `DetectEnd`, `DetectEmits`, `DetectForgets`; nothing else runs on its task
meanwhile (`emitting`, `ending`). Keystrokes and commands are one kind of input, and
enough evidence is a number of inputs. `p_agent` is any of `Probabilities`; verdict and
confidence follow from it by the model's thresholds. The EWMA of its logit is kept as a
probability that lies between its last value and the new one, which is all an EWMA
says. Scores are hundredths, rounded down. `Idle` is a pause of any length up to just over the
TTL, which ages all known sessions; a TTL of 0 disables eviction. What scoring emits goes to
the sinks and is not followed, and its two emissions do not wait here: what their waiting does
to the dispatcher is `EventBus`'s subject (run `bus`), and as the handler takes
one event at a time the order of what it scores is the same. Histories:
`assessed`, `scored` per session, `evidence` (risk added to a subject since
its score was last dropped), `alerts`, and `lost` (which plugin was not given the end of
which session, because the bus dropped it or the collector failed).

### Endpoint

A command (`install`, `uninstall`; `job` is the one at work) is a plan: the sequence of steps the code makes,
each an operation on a path (`unlock`, `write`, `hash`, `lock`, `remove`, `reload`,
`enable`, `disable`) and whether its failure is only logged. The plan is worked off one
step at a time, and the command may fail, be killed or be cut off by a reboot at each;
the units, the agent with its tamper plugin and root at the keyboard go on meanwhile.
A file is absent or has a type, data and inode flags, and the kernel's rules about
immutable files, symlinks and executed files are `MayWrite` and `MayRemove`. The units
do what the directives rendered into them say (`Restart=`, `Requires=`, `BindsTo=`):
systemd is external, and modelled by no more than these. `image` is the binary each running
unit executes, which may be that of an earlier install: an install takes any path and reads no
token. An uninstall plans with the
install path of the token, or with the default if the token cannot be read. The plugin
reads its baseline when the agent starts (`tamper`) and compares at each `Tick`.
`degraded` is a history of what an uninstall had to do without.

### PluginLoader, ProcessSampler, AgentProcess

`build` takes plugins from three places in turn: handed over, declared (a shared
library, whose code runs as it is opened), built in. `loaded`, `seen` and `libs` of the
code are `loaded`, `Seen` and `mapped`; `ran` is a history. An error of a library ends the
build, and drops the libraries before the plugins they hold code for, because locals are
dropped in reverse order (`LoadFails`, then `DropPlugins`).

The sampler's identity of a process is its pid with its start time; a process that exits
while `/proc` is walked has start time 0. `Sample` is one tick: read, prune, select.
`EmitExec` is one emit each, with the bus taking the event or dropping it.

`AgentProcess` follows `main` from the build to the return. `init` of a plugin spawns its
tasks and may emit an alert while the dispatcher is not yet there; the ingress is a
number (`EventBus` has the bus in detail). The tripwire waits for either signal or for
shutdown, alerts and exits the process; `ctrl_c` of main listens for SIGINT as well, and
both are woken by one. `warns` are the plugins whose init has to alert first (a weak posture
for tamper, the default salt for session and tty); such an init waits for room, whatever it
would do next (`OwesAlert`). The shutdown joins in the code's order: dispatcher, handlers, then
`Plugin::shutdown` in two steps, tell the tasks and await them (the transport's is not
awaited). `recorder` is the tty plugin's collector, of which nobody holds a handle: a task
that reads a pipe, or a thread that serves a shell. main `returned` is not yet the end of the
process: the runtime drops its tasks, but waits for a read of the pipe that is under way
(`reading`); the signal handlers stay until the process ends.

### Terminal, AgentCommands

The same binary hosts the plugins (`run`) or one terminal (`shell`); `command` says which, and
a behaviour is that of one of them. A byte is printable, an erasure, CR, LF or another. Reads
of a terminal have any length up to the buffer, those of a pipe are lines with an LF put at
the end of each (`parse_pipe_line`). `OnRead` is the analyzer's `on_read`: line buffer, edits, `last_was_cr`, all of which
outlast a read. `CommandsAsTyped` compares what was reported with a definition over
the bytes alone that knows neither reads nor a state, so it says that commands do not depend on
how the bytes are cut. The edit distance is `levenshtein`'s, row after row;
`LevenshteinAssumption` compares it with the least number of edits over all alignments, for all
lines up to three characters. After the input ends the shell is waited for (`waitpid`), so a
session whose shell stays never reports its end. The shell's output and all times are left out.

### Console

Server, live feed, page and aegisctl. The page keeps collections (`shown`), has GETs in
flight (`fetches`, each with the answer once the server has read it, so that an answer
may be old when it arrives, or overtaken by a later one), a stream that lags (`ring`
drops its oldest) or reconnects, and acknowledgements in flight (`clicks`). A response
replaces a collection; a live event adds or replaces one row, as `app.js` does it. Rows
are versions, alerts numbers, and each row belongs to an agent. aegisctl's filters are
`CmdRows` and `CmdAlerts`.

### Evaluation

The harness measures one thing in a behaviour (`Measurements`), session by session:
`Synth` turns draws into events, `Features` accumulates them, `Model` gives a
probability and a verdict, and the sequential test counts and latches as `eval.rs`
does it; beside it runs the test of `lib.rs` on the same events (`live`). Numbers are
percentages and tens of milliseconds, the transcendental functions tables, so the model is
exact about which samples enter a feature, when a feature counts, what is compared with
which threshold, and in which order; it is not about digits. A draw says whether
the line is pasted, corrected, and how its gaps deviate. AUC is the rank formula of the
code, compared with the definition over pairs.

## 3. Runs

Most runs stop when their bounds are used up, so deadlock is not checked: a state
in which every event was offered and every process life is over is a legal end. It is
checked in the console run, which never stops (the page polls).
Elsewhere blocking is checked where it matters, as liveness (`ShutdownCompletes`,
`DispatcherKeepsUp`, `SessionDrains`, `AgentDrains`, `ReaderKeepsUp`,
`PermitReturned`, `AgentComesBack`, `SignalEnds`).

| run | instance | shows |
|---|---|---|
| `forwarder` | 4 events of one size, ring 2, batch 2, cap 3, two batches in flight, two sessions, two process lives, one failing open, push or ack | `NoSilentLoss`, `FifoUnlessEvicted`, and that the forwarder implements `Delivery` |
| `forwarder_drains` | 3 events, one of them larger than a frame, a failing ack or drain | a session that lasts empties the spill |
| `bus` | the scoring chain as it is shipped: a detector's task emits telemetry and detections, scoring takes detections and awaits the scores its handler emits, a forwarder that may be slow takes everything; 5 events, depth 1, fairness | critical events kept, one order, nothing after shutdown; whatever waits for the dispatcher for ever, and a stop that never completes, is held up by a slow handler or a `WaitCycle` (section 5, *Deadlock*), and by nothing else |
| `ingest` | 3 events (one derived), 2 connections, two batches in flight, one restart, one failing write | acknowledged is stored or lost in a write; emitted once per server life; the agent is answered |
| `sessions` | 2 connections, 2 commands (one whose dispatch may hang), queue and dispatch cap 1, 2 permits | the router holds the last session; a queued command is kept while its session lasts; a hanging dispatch does not stop the reader; permits come back |
| `enrollment` | 2 endpoints, 2 tokens, 3 enroll commands, 3 server starts, clock 0..2 and validity 1 | a token has one fate; a fingerprint given out stays good; an identity whose enroll reported success is never refused |
| `store` | a heartbeat, two scores, an alert; index cap 2, queue 1, clock 0..2, retention and skew 1, one failing write, one restart | pages have no holes and miss only what the cap took; the tables of one event agree; acknowledgements hold until retention |
| `detection` | 2 sessions, 3 inputs, 1 process event, queues of 2, a verdict every 2 inputs, evidence at 2, a TTL of 1 and a pause of 1 or 2, p_agent of 20, 60 or 90 % | verdicts are scored once and in order; alerts rest on evidence since the subject was dropped; a session that is over is remembered only if its end was lost |
| `endpoint` | 2 install paths, 3 commands on any of them, one fault, 2 kills, one alteration by root | no command meets a lock; a successful uninstall leaves nothing of the recorded install; a healthy machine is quiet; the agent comes back |
| `agent` | a console sink, 2 declared libraries (one disabled, one with a taken name), the built-in plugins, the inits of session and tty alerting, a tty collector on a pipe, depth 2, 2 processes that share a pid, seen set of 1, a signal, one fault; or a terminal or pipe with up to 4 bytes, reads of up to 2, a line buffer of 2 | vetted plugins only; one report per process; what the shutdown joins has ended when main returns; a signal ends the process, or it is stuck in an init or kept by a read (section 5, *Silent pipe*); commands as typed |
| `console` | 2 rows of 2 agents, live ring 1, alert window 1, 2 writes, one fault, two overlapping GETs, every limit and minimum of a listing | no claimed acknowledgement nobody made; the page converges; for one agent, aegisctl and the API list the same rows |
| `evaluation` | every corpus of the draws below: metrics of 2 sessions at full evasion, cost to evade over 0, 50, 100, ablation of three tactics with one session | the harness reports what the plugin reports; escape costs are ordered; AUC counts pairs |

**Why the bounds are enough.** The forwarder's hazards need a batch in flight, a
later batch, an eviction and a reconnect or restart: two sessions, two lives, four
events with a cap of three and a ring of two make each of them happen. The bus
needs a full ingress, a full queue and a waiter behind another, which depth 1 gives with
four events; the wait cycle takes a fifth: one detection being handled, one in the scorer's
queue, one with the dispatcher, and two in or before the ingress. No `init` emits in this run;
the agent run follows inits that wait. Ingest needs an event carried by two connections at once and
an ack lost: two connections and two batches. `GlobalCapacity` equals the number of
events, so the shared window never evicts in these runs: the code's window of
262 144 ids (`GLOBAL_DEDUP_CAPACITY`, ingest.rs:89) bounds how late a replay is recognised, and `EmittedOnce` is a statement
about replays inside it. The window of one connection (2) does evict.
Detection needs a human, a leaning and a clear verdict (one probability each), a verdict
while the session lasts and one at its end (three inputs), and full queues (depth 2);
a session evicted by another's event needs two sessions, and one kept over a pause a TTL of 1
with pauses of 1 and 2.
The store needs a sweep that prunes part of what is there (three clock values), an
index that overflows (three writes at a cap of two) and a write that fails or is cut
off once. Enrollment needs two endpoints with one token, a second command on one of them, and a
bootstrap that died between its files and was repeated: three commands and three
starts. Sessions needs an old task, a new one and a request that looked up the old: two
connections; a full queue and a used-up dispatch cap need two commands at
capacities of one.

Endpoint needs a command interrupted, one that meets what it left, perhaps on another
path, and an uninstall: three commands on two paths, with one failing step and two kills
of units; two sizes of data tell a changed length from changed content. The agent
needs a pid that is reused and a seen set that is pruned (two processes, cap 1), a full
ingress before the dispatcher is there (depth 2: an init that alerts finds room unless a
collector or an init before it took it), and a signal in any state. A tty collector in a shell differs in that its thread ends with the
process; `OrderlyReturn` is proved for it too. A CR and an LF in different reads, an erasure, a line longer than the buffer
and a second command to compare with the first take four bytes in reads of two. Names of plugins matter only as equal or not, so a disabled
name and a taken one suffice. Console needs a response overtaken by another (two
GETs), a live event lost (ring 1) and an alert that leaves the window (window 1, two
alerts). The listings need a row of another agent that a limit would count
first: two rows of two agents, and every limit up to two. Evaluation takes the limits of the code down in proportion (SAMPLE_CAP 6,
MIN_KEYSTROKES 5, MIN_COMMANDS 3, MIN_COMMANDS_ROBUST 6, assess_every 4) so that sessions of 3 and of
7 commands fall on either side of each, and the accumulator overflows; two draws, a pasted
fast line and a typed slow one, reach all verdicts.

**Fairness.** Tasks are polled (tokio), so an enabled step of a task is weakly
fair. `select!` polls its ready branches in random order, so a branch that is ready
again and again is taken: strong fairness for `Ack`, `StopDispatcher` and
`StopHandler`. Handlers of plugins in `Slow` get none, faults, crashes,
disconnects and shutdown get none, and a peer is fair only towards what was sent
to it. `SessionDrains` is about a session that lasts, `AgentDrains` about an
agent that stays, `ReaderKeepsUp` about one that stays online and `PermitReturned`
about a connection the agent has left, because nothing guarantees any of these.
`PermitReturned` needs no more than that because `read_loop` has an idle timeout
(and a write nobody takes ends with TCP's own); the TLS stage has none, and is left
out of it. Endpoint: a command goes on (`CommandStep`) and systemd restarts what it is
told to (`Restart`), nothing else is fair. Agent: main, the dispatcher and every task are
weakly fair; `ScanLeaves` and `Tripwire` are strongly fair, because the collector's `select!`
finds shutdown ready again and again, and because a send that waits at the ingress is
served in order. The tty collector owes nothing: its input may stay silent for ever. So
`SignalEnds` says how a signalled process may live on, and that there is no other way: an `init`
that has to alert and finds the ingress full waits for a dispatcher that is not there
(`InitStuck`, host.rs:234, 289), or a read of the collector is under way when main returns.
`ShutdownCompletes` and `DispatcherKeepsUp` likewise name the wait cycle and a slow handler. Console: the page polls, the server answers and answers arrive; the
live feed, clicks and writes owe nothing, so `DashboardConverges` rests on the poll.

## 4. Proofs

`EventBusProofs` proves for every set of plugins, tasks and kinds, every
subscription, every depth and every bound on the events, from
`EventBusAssumption` alone:

* `TypeCorrect`: `Spec => []TypeOK`. Ingress and queues never exceed
  `queue_depth`, because `Free` leaves promised slots alone. Events are numbered by
  counting those emitted, so `TypeInv` adds that there are finitely many.
* `CriticalNeverDropped`: `Spec => []CriticalKept`. `CriticalKept` says where a
  critical event is for each subscriber it is owed to: waiting, in the ingress,
  being routed with that subscriber's route ahead, in its queue, or taken. Alone it
  is not inductive. `KeptInv` adds that dispatcher and handlers do not stop while
  the host is up (else a queue could be thrown away), that nothing is dispatched
  while plugins are still being loaded (else a plugin loaded later would have
  missed it), and that a new fan-out starts at the first route.
* `ShutdownIsLast`: `Spec => NoHandleAfterShutdown`, from `DownInv`: when the host is
  down every handler is stopped or was never started, and stays so.
* `EventsInOneOrder`: `Spec => []OneOrder`, from `OrderInv`: what the
  dispatcher has received and what is still in the ingress is one line, in which the events of a
  task ascend and a waiting one is behind them all (`Numbered`); what a plugin took and has
  queued is a part of that line in its order (`Lined`).

`ServerProofs` proves, for any set of connections and commands and any capacities,
from `SessionsAssumption`:

* `RouterIsExact`: `Spec => []RouterHoldsLast`. `RouterInv` adds that a connection
  that was not made has no task: a connection registers once.
* `QueuedCommandKept`: `Spec => []QueuedIsKept`. `HelloInv` is the strengthening:
  the first frame the agent reads on a connection is the answer to its hello, so the
  handshake never swallows a command; and a writer runs only while its session does
  and is never started again, so an ended writer stays ended.
* `CapsHold`: `Spec => []TypeOK`, of which the three caps are what matters: permits, the
  command queue, dispatch tasks. `CapsInv` adds that what follows the answer to the hello
  on a connection is commands (`CommandsFollow`: else the reader would start a task for
  something else), and that the tasks that live, and those of each connection, are finitely
  many: neither connections nor commands are assumed to be.

for any agents and events of any kinds, any depths, retention, failing writes and
restarts, from `StoreAssumption` (the key of no row is the name for its absence):

* `TablesStayInStep`: `StoreSpec => []TablesAgree`, and `AcknowledgementsStay`:
  `StoreSpec => []AckHolds`. Both are about an event that reaches its own table later than the
  audit log, perhaps behind newer ones: a score replaces the row of its subject, an alert is
  inserted as not acknowledged. `StoreInv` says why neither takes anything back
  (`StoreLine`): what is not yet stored of a kind stands in one line, the event the sink has
  audited, the queue, what the processor has in hand, and along this line, which begins with
  what is stored, timestamps never decrease and no event comes twice. Hence a row is only ever
  replaced by a later one, and an alert is never inserted again once it is acknowledged.
  `StorePlaces` adds that a table holds rows of its kind, and that the sink's event is in the
  log unless retention took it.

and for any rows, alerts, requests, failures and capacities, from `ConsoleAssumption`:

* `ShownAcksAreTrue`: `ConsoleSpec => []ShownAcksHold`. An alert is settled when it is
  acknowledged, or was raised and is gone; no step unsettles one, as numbers are not given
  again. `ConsoleInv` says that whatever calls an alert acknowledged, the page, an answer on
  its way however old, or a granted click, names a settled one.

`AgentProofs` proves, for any plugins handed over, declared, built in and
disabled, any processes, depths and numbers of signals and faults, from `LoaderAssumption`
(no two declarations are of the same library), `SamplerAssumption` (a start time is not 0) and
`ProcessAssumption` (depths are numbers, the tty collector has one of its modes):

* `Vetted`: `Spec => []LoadedIsVetted`. The property is inductive once the lists
  are known to hold what they are made of: `LoaderInv` adds that names still to come are
  names, that what is still declared is from the configuration, and that `loaded` holds
  plugin objects. That no code of a disabled library has run needs the assumption: were
  one library declared under two names, the enabled one would run it.
* `ReturnIsOrderly`: `Spec => OrderlyReturn`. `ReturnInv` adds that each task belongs to an
  entry, and that during the teardown every entry is still to come or is told with its tasks
  ended (`Settled`); `QuietStep` says once that steps which leave the entries alone and only
  end tasks keep it. At the return nothing is to come. The theorem is about what the shutdown
  joins or tells: dispatcher, process collector, watch loop, tripwire, forwarder. The tty
  collector is none of these, and is excepted.
* `ReportsAreUnique`: `Spec => []ReportedOnce`. `ScanInv` adds that an identity
  waiting to be emitted is in the seen set and was not reported before, and that one that was
  reported stays in the seen set while its process is alive: pruning takes only the dead.
* `WithinDepth`: `Spec => []TypeOK`: the ingress never holds more than `queue_depth`, though
  inits, their tasks and the tripwire fill it while nothing may drain it.
* `CommandsHost`: `CommandSpec => Spec`. A behaviour of the binary is one of the host, which
  merely stutters while a terminal is served, so the theorems above hold of what the run checks.

and for any install paths, data and numbers of commands, failures, kills and alterations,
from `EndpointAssumption` (no binary has the path of a unit, the manifest, the token or the state):

* `NoLockInTheWay`: `EndpointSpec => []NeverBlocked`, `UninstallIsThorough`:
  `EndpointSpec => []UninstallRemoves` (of the install the last token records, whatever was
  installed on other paths before; those binaries may stay), `NoFalseAlarm`: `EndpointSpec => []HealthyIsQuiet`. One
  invariant carries all three. `EndpointInv` says of each step behind the running
  command what it has left (`StepDone`): a file is unlocked as long as the plan has not begun to
  lock, a file written is whole, one locked is immutable, one removed is gone, the manifest is
  of what was written, the units are stopped. The lemmas on plans supply the rest, for any
  path: before a step that writes or removes a file the plan has unlocked it
  (`InstallIsSound`, `UninstallIsSound`), and at its end a plan has been over all that
  it has to (`InstallIsComplete`, `UninstallIsComplete`). Between commands,
  `HealthyDisk` says that a finished install has left its files whole, locked and as the
  manifest has them, `SettledAgent` that the agent has read that manifest and watches
  those paths, and `NeverLocked` that token and state are never locked, so that a command
  killed anywhere leaves a disk the next one can work on.

`IngestProofs` proves for any events, connections, batches, windows, restarts and failing
writes, from `IngestAssumption`:

* `TypeCorrect`: `Spec => [](TypeOK /\ Balance)`. No more batches of the agent's connection are in
  its socket, with its task or on their way back as acks than the agent counts (`Balance`), which
  is why an ack never takes that count below zero. Permits are `Sessions`'s (`CapsHold`).
* `AckedIsStored`: `Spec => []AckedStored`. `AckInv` says of what is in a window, of what a task has
  left behind in its batch, and of what an ack on its way names, that it is stored, lost or in a
  connection's hands; `SettledKept` says once that a step of one connection keeps this.
* `EmittedOncePerLife`: `MaxEvents <= GlobalCapacity /\ Spec => []EmittedOnce`. The
  hypothesis says the shared window never evicts. Without it the property is false, as the code
  means it to be: a replay older than the window is taken for new.

`ForwarderProofs` proves for any sizes of events, batches and buffers, any number of
sessions, process lives and faults, from `ForwarderAssumption`:

* `TypeCorrect`: `Spec => []TypeOK`, with the shape of `batch` in each phase (`Phased`).
* `NothingDisappears`: `Spec => []NoSilentLoss`. `LossInv` says that a batch in flight covers
  whatever its ack deletes (`Covering`) and that a batch id names one batch, an ack one the
  server took (`Named`). Hypotheses: `drain` is not
  in `Faulty`, and `StopsAlike`: a drain that stops with rows left has filled the batch.
  These are the cases *Gap* (actor.rs:617) and of a failing drain (actor.rs:610) of section 5; the lemma `CountStops` shows that
  `StopsAlike` holds where the count binds before the bytes (`CountBinds`).
* `DeliversAsPromised`: `Spec => ImplementsDelivery` under the same hypotheses, each step a step of
  `Delivery` or a stutter. `DeliveryInv` adds the order in which batches, acks and
  connections hold what they hold (`Ordered`), that what is held was offered (`Offered`), and
  that nothing older than what a batch carries or the server has is left behind without a fate
  (`Complete`).
* `FirstInFirstOut`: `Spec => FifoUnlessEvicted` where also `CountBinds` and no batch is larger than
  a frame, by `FifoInv`: the one fate an event can have on disk or in a batch is
  `spill_cap` (`Fated`), and a batch holds no more rows than the count allows.
  The sum of the sizes in a batch stays an unexpanded `Bytes`: it is a fold, and facts about
  it would need induction.

The configuration of the forwarder run satisfies all these hypotheses.

`EnrollmentProofs` proves for any endpoints, tokens, clocks and numbers of commands and
starts, from `EnrollmentAssumption`:

* `TypeCorrect`: `Spec => []TypeOK`, and no two agents have one public key (`OwnKeys`).
* `TokenHasOneFate`: `Spec => []OneFate`. `FateInv` adds that every token in a table was handed out.
* `PinIsKept`: `Spec => []PinKept`. `PinInv` adds that a key on disk belongs to the certificate on
  disk, and that once a fingerprint was handed out there is a key, and it is of that pair (`OnePair`).
* `EnrolledStaysServed`: `Spec => []EnrolledIsServed`. `ServedInv` follows the key from the
  request (`Asked`) over the answer into the files (`Filed`) and out of them (`Loaded`).

`DetectionProofs` proves for any sessions, subjects, depths, thresholds and bounds, from
`DetectionAssumption`:

* `TypeCorrect`: `Spec => []TypeOK`, and the detector knows no session that has not begun (`Began`).
* `OverIsForgotten`: `Spec => []KnownIsLive`. `LiveInv`: on the way to the detector a session's start
  stays ahead of its end, so a session that was forgotten is not made known again.
* `AlertsAreBacked`: `Spec => []AlertsRestOnEvidence`. `BackedInv`: no score exceeds the
  evidence since the subject was dropped, which decay and rounding only lower.
* `VerdictsArrive`: `Spec => []VerdictsScored`. `VerdictInv`: the verdicts of a session on their
  way from the handler over the ingress to the scoring queue carry, in this order, just the
  numbers after the last one scored; all are of a critical kind, so the bus drops none.

`SequenceFacts` holds the lemmas about sequences these rest on.

Model-checked only:

* Everything under fairness (`ShutdownCompletes`, `DispatcherKeepsUp`, `SessionDrains`,
  `AgentDrains`, `ReaderKeepsUp`, `PermitReturned`, `AgentComesBack`, `SignalEnds`,
  `DashboardConverges`): the prover has no rules for fairness and ENABLED.
* What recursion over data computes: all of `Evaluation`, `CommandsAsTyped`,
  `PagesExact` and `ListingsAgree` (both filter sequences), and what `Bytes` sums up.

A module's `TypeOK` documents its variables; those of `EventBus`, `Ingest`, `Forwarder`,
`Enrollment`, `Detection`, `Sessions` and `AgentProcess` are proved, `Store`, `Console` and
`Endpoint` have theirs in the invariants of their proofs (`StoreForm`, `ConsoleForm`,
`EndpointForm`), and no run spends a property on one.

## 5. Where the code and its documents part

Met while the code was translated; each can be followed in the module named. The properties
of the runs except them by name, or are checked where the matter does not arise, as said here.

* *Gap* (`Forwarder`): a batch cut short by the byte budget with rows still on
  disk is topped up from the ring (actor.rs:617); its ack deletes through the
  highest key, the skipped rows included (actor.rs:473, 647);
  the run `forwarder` checks `NoSilentLoss` with events of one size for this reason.
* *Deadlock* (`EventBus`): host.rs:380 says tasks are awaited; with a handler
  waiting for the ingress and the dispatcher waiting for that handler's queue they
  never end. Scoring's handler is such a one (plugin-scoring lib.rs:223-247), and the run `bus`
  reaches the state (`WaitCycle`). `DispatcherKeepsUp` and `ShutdownCompletes` say that no other
  wait, beside that for a slow handler, holds up the dispatcher or a stop.
* *Write error* (`Ingest`): an event is marked seen before it is
  stored, so a failed write is acknowledged and refused ever after (`lost_writes`).
* *Late registration*: sessions replace each other in the order
  their tasks reach `register`, so one the agent has left can displace the live one;
  when it ends, the agent has no entry while it is online. registry.rs:59-64 has
  only the other order in mind. (`Sessions`: both connections accepted, then `Register`
  of the second before `Register` of the first.)
* *Lingering scores*: scoring drops a session's score at session.end so that it does
  "not linger in the map" (plugin-scoring lib.rs:157), but agent-detect gives its final
  verdict while it handles the same event, so scoring always takes that verdict
  afterwards: the entry is created anew and stays, and the risk gathered before is
  gone when the last verdict arrives. `KnownIsLive` holds of the detector's map; its
  counterpart for `scores` does not.
* *An idle session is lost for good*: every handler evicts before it looks up its own
  session (plugin-agent-detect lib.rs:247), so the first input after a pause longer than
  the TTL evicts its own session, is dropped as unknown, and no later one is assessed;
  lib.rs:67 speaks of sessions "with no further events".
* With the default thresholds an `Uncertain` verdict has a confidence of at least 0.7, so
  `uncertain_min_confidence` (0.5, plugin-scoring lib.rs:47-50) filters nothing.
* A read error (bytes that are not UTF-8) ends `run_pipe` without the "final SessionEnd"
  its comment promises (runtime.rs:48, 82): `ReadFails`.
* A heartbeat is logged by ingest and again by the sink, so its key is twice in the
  agent's index and on its pages, and the cap of 10 000 is reached early
  (ingest.rs:781, sink.rs:126). `PagesExact` is about the index as it is.
* The pages of an agent are in the order in which its events were written, not
  "newest first" by timestamp (store.rs:555, api.rs); alerts are by timestamp.
* The sink sets last_seen_ns to a heartbeat's own timestamp after ingest set it to its
  clock (sink.rs:190, ingest.rs:789), so it may go back.
* A crash between the sink's two transactions leaves a detection, score or alert in
  the audit log and in no other table for good (`torn`).
* *Orderly stop*: transport-design.md:600 promises that shutdown flushes to disk
  ("lossless for buffered data"). `TransportPlugin::shutdown` only signals (lib.rs:151)
  and nobody joins the actor, so the process may end first: `ProcessExit` may come
  before `PersistLeftover`, and the ring's events end with fate `process_exit`.
* *Torn re-enrollment*: enrolling an endpoint again replaces identity.json before the
  key file (identity.rs:119). A crash between them leaves the new id with the old key:
  it loads, and every handshake is refused. `EnrolledIsServed` therefore speaks of
  commands that reported success.
* A lost enroll answer spends the token (the agent row stays, with a key nobody has);
  transport-design.md's redemption that is idempotent per public key is not
  implemented. The operator mints another. Nor has the command a timeout on its read.
* A `drain_batch` that fails (actor.rs:610) leaves a batch of ring events only; its
  ack deletes every older row unsent. (`NoSilentLoss` is checked with the faults
  open, push and ack.)
* "With `max_in_flight == 1` delivery is strict FIFO" (actor.rs:15) fails when the
  cap evicts a row that an abandoned connection still carries; `FifoUnlessEvicted`
  is what holds.
* With more than one batch in flight a flush drains the pending rows again, which
  actor.rs:581-583 does not mention.
* Keys start again at 0 when the spill is reopened empty; spill.rs:15-16 calls the
  sequence monotonic.
* The ring drops its oldest event on overflow (ring.rs:44-47); config.rs:98-99 and
  transport-design.md:595 say it spills to disk.
* A slow subscriber of a critical kind holds up everyone (host.rs:306), against
  bus.rs:5-7. Events dropped at a closed queue and events left in channels at
  shutdown are not counted (host.rs:306-323), against bus.rs:23-24.
* A critical event emitted from `init` with the ingress full waits for a dispatcher
  that is not yet there (host.rs:234, 289), and loading never completes.
* The shared de-dup window is not persisted, against transport-design.md:697-700.
* A duplicate is acknowledged while another connection still has the event in hand
  (ingest.rs:753); a restart at that point loses it. `AckedStored` counts such an
  event as lost with its write.
* `Shutdown::wait` tests the flag before it registers for the notification
  (actor.rs:65-70), so a trigger in between is missed.
* "the server retries idempotent commands" (actor.rs:764): nothing on the server
  does; a command dropped for want of a dispatch permit was answered 202 and is gone.
  server-design.md:421 calls the delivery fire-and-forget.
* main.rs:217 speaks of draining the host; shutdown drops what is queued.
* *Reinstall while running* (`Endpoint`): install unlocks the installed binary
  (install.rs:343) and then cannot open it for writing, because it is being executed; it
  ends with an error and the binary unlocked. install.rs:323 calls it idempotent.
* *Lost token* (`Endpoint`): a reinstall on another path whose token write fails leaves a
  truncated token; uninstall falls back to the default paths and reports success while
  the other binary stays (install.rs:419 against 408-410). `UninstallRemoves` excepts it.
* *Superseded path* (`Endpoint`): an install on another path overwrites the token and removes
  nothing; a later uninstall knows the last path only, reports success (install.rs:419) and leaves
  the first binary locked on disk, against the "removes all artifacts" contract of
  install.rs:462-466. `UninstallRemoves` and its theorem are about the recorded install.
* The watched paths come from `InstallSpec::default()` (aegis-agent main.rs:291), so an agent
  on another path watches files that are not its own.
* A first check between the start of the units (install.rs:388) and the locking of their
  files alerts on a healthy machine; `HealthyIsQuiet` starts with the finished install.
* Uninstall removes the spill under the state directory, the unit starts the agent
  with the default data directory: what install.rs:461-466 is about survives.
* `BindsTo=` stops the guardian with the service, so it never brings a stopped service
  back, against install.rs:94-96.
* *SIGINT* (`AgentProcess`) wakes the tripwire and main; the tripwire may exit in the
  middle of main's shutdown. SIGTERM never leads to an orderly shutdown (lib.rs:384
  against 216, 362).
* *Silent pipe* (`AgentProcess`): the tty plugin spawns its collector without keeping a handle and
  has no shutdown (plugin-tty lib.rs:139-154). When main has returned, the runtime waits for the
  collector's blocking read; on a fifo nobody writes to the process stays, and its signal handlers
  swallow further signals, against main.rs:273 "press Ctrl-C to stop"; `SignalEnds` excepts it. What the
  collector emits after the dispatcher has stopped, the session's end included, is lost.
* A command the session writer has taken from the channel when its write fails or it is aborted
  was answered as queued and reaches nobody (ingest.rs:683); `QueuedIsKept` excepts sessions
  whose writer has ended.
* An early return of `build` closes libraries before it drops the plugins they made
  (host.rs:55): `LoadedIsVetted` excepts the state `failing`.
* A process enters the seen set before its event is emitted (plugin-process lib.rs:169): one
  that the full bus drops is never reported again. `ReportedOnce` is "at most once".
* The live feed skips events for a slow subscriber without telling it (api.rs:606) and a
  reconnection re-reads nothing (app.js:644), against api.rs:60-63 (`Console`).
* With `--json`, aegisctl prints the rows of one agent before it filters them
  (aegis-cli main.rs:394 against 374-377).
* `crossing` starts at the first budget of the grid, not at 0.0 (eval.rs:462 against 457).
* `reaction_floor_hits` is divided by all commands (features.rs:191 against 407-411); the
  temporal features are gated by the number of commands, not of gaps (features.rs:194
  against 142-146).
* A session the plugin reported as an agent in mid-session, and that ends otherwise, is not
  caught for the harness (eval.rs:798): `HarnessIsLive` states one direction.

* *One line ending* (`Terminal`): a CR at the end of one read and an LF at the start of the next end
  one line (analyzer.rs:153), which is what makes `CommandsAsTyped` true; the comment of a test
  (analyzer.rs:530-532) says the LF begins a line of its own.

## 6. Not modelled

* TLS, signatures, framing and pins: values in the models, or one step.
* The server's `main`, which starts the same host and its listeners in order; the example
  plugin; argument parsing, printing and rendering; static files.
* The learned baseline of the detector (`baseline.rs`) and `compare_models`: floating-point
  averages whose properties are numerical.
* Of the tty collector: raw mode and its restoration, the hang-up of a terminal, what the
  shell writes, clocks, and the hash of a command. Its bytes and commands are in `Terminal`, what
  becomes of its events in `Detection`.
* Posture probes of the tamper plugin other than the manifest (debugger, loader
  variables, service state): each is one read and one alert.
* systemd's limit on restarts (`StartLimitBurst`), which the units do not set: `AgentComesBack` is
  about as many restarts as systemd makes.
* Other values than the defaults of agent-detect's `assess_on_session_end` and
  `assess_on_missing_session`; the numbers of the ablation, about which no property is.
* Keepalive and backoff timing of the forwarder; `last_seen_ns` of the store.

`PROJECT.json` lists every part with what is left out of it.

## 7. What is left

1. End to end: forwarder and ingest against one specification, at-least-once with the
   exceptions listed above.
2. Proofs of `PagesExact` and `ListingsAgree`, for which the provers need facts about
   `SelectSeq` that take induction. Every other safety property a run checks is proved, but
   for what `Terminal` and `Evaluation` compute by recursion.

The runs are few on purpose, one to a question.

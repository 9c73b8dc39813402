------------------------------ MODULE Console -------------------------------
(***************************************************************************)
(* The operator's view: the JSON API and the live feed of api.rs, one open *)
(* dashboard (app.js) that follows both, and aegisctl's listings.          *)
(*                                                                         *)
(* The dashboard reads whole collections with GETs, once when it boots,    *)
(* then every POLL_MS; between the polls it applies what the live feed     *)
(* pushes.  Responses and the feed travel on connections of their own, so  *)
(* a response may arrive after a newer response or a newer live event.     *)
(* The feed is a broadcast ring: a subscriber that falls behind loses the  *)
(* oldest events, and one that reconnects starts with the next.            *)
(*                                                                         *)
(* A score or detection row is its version, an alert its number; times and *)
(* layout are left out.  Store has the tables themselves.                  *)
(***************************************************************************)
EXTENDS Naturals, Sequences, FiniteSets, SequencesExt

CONSTANTS
  RowKeys,       (* keys of the score and detection rows, in store order   *)
  OwnerOf,       (* OwnerOf[c]: the agent whose row it is                  *)
  Owners,        (* the agents                                             *)
  Capacity,      (* LIVE_CHANNEL_CAPACITY                                  *)
  Window,        (* DEFAULT_ALERT_LIMIT, and the dashboard's own limit     *)
  Nothing,
  \* bounds of the model
  MaxRequests,   (* MaxRequests[r]: requests in flight for collection r    *)
  MaxWrites, MaxFailures

CellSet   == Range(RowKeys)
AlertIds  == 1 .. MaxWrites
Resources == {"cells", "alerts", "agents"}

ASSUME ConsoleAssumption ==
  /\ OwnerOf \in [CellSet -> Owners] /\ IsInjective(RowKeys)
  /\ {Capacity, Window} \subseteq Nat \ {0} /\ MaxRequests \in [Resources -> Nat \ {0}]
  /\ {MaxWrites, MaxFailures} \subseteq Nat

VARIABLES
  version,     (* DETECTIONS, SCORES: version[c], 0 for no row             *)
  alertLog,    (* ALERTS: a sequence of ids, the oldest first              *)
  raised,      (* how many alerts there were                               *)
  acked,       (* the ids stored as acknowledged                           *)
  roster,      (* AGENTS                                                   *)
  publishing,  (* the event the sink has stored and not yet published      *)
  booted,      (* whether refreshAll's first responses are in              *)
  stream,      (* EventSource: "none", "connecting", "open"                *)
  ring,        (* the live events this subscriber has not received         *)
  fetches,     (* fetches[r]: GETs in flight, with their answers           *)
  clicks,      (* clicks[id]: the PATCH in flight for an alert             *)
  shown,       (* app.js's state, by collection                            *)
  writes,      (* rows written and heartbeats, for the bound                *)
  failures

stored == <<version, alertLog, raised, acked, roster>>
page   == <<booted, stream, clicks, shown>>
consoleVars == <<stored, publishing, page, ring, fetches, writes, failures>>

CellEvents  == [kind : {"cell"}, cell : CellSet, version : 1 .. MaxWrites]
AlertEvents == [kind : {"alert"}, id : AlertIds]
SeenEvents  == [kind : {"agent_seen"}, agent : Owners]
LiveEvents  == CellEvents \cup AlertEvents \cup SeenEvents
Unanswered  == [at |-> "sent", body |-> Nothing]

ConsoleInit ==
  /\ version = [c \in CellSet |-> 0] /\ alertLog = <<>> /\ raised = 0 /\ acked = {} /\ roster = {}
  /\ publishing = Nothing
  /\ booted = FALSE /\ stream = "none" /\ ring = <<>>
  /\ fetches = [r \in Resources |-> <<[Unanswered EXCEPT !.at = "boot"]>>]
  /\ clicks = [i \in AlertIds |-> "none"]
  /\ shown = [cells |-> [c \in CellSet |-> 0], alerts |-> <<>>, agents |-> {}]
  /\ writes = 0 /\ failures = 0

(***************************************************************************)
(* The server: what is stored, then published.                             *)
(***************************************************************************)
Stores(e) == publishing = Nothing /\ publishing' = e /\ UNCHANGED <<page, ring, fetches, failures>>

Upsert(c) ==
  /\ writes < MaxWrites /\ writes' = writes + 1 /\ version' = [version EXCEPT ![c] = @ + 1]
  /\ Stores([kind |-> "cell", cell |-> c, version |-> version[c] + 1])
  /\ UNCHANGED <<alertLog, raised, acked, roster>>

AppendAlert ==
  /\ writes < MaxWrites /\ writes' = writes + 1
  /\ raised' = raised + 1 /\ alertLog' = Append(alertLog, raised + 1)
  /\ Stores([kind |-> "alert", id |-> raised + 1])
  /\ UNCHANGED <<version, acked, roster>>

Heartbeat(a) ==
  /\ a \in roster /\ writes < MaxWrites /\ writes' = writes + 1
  /\ Stores([kind |-> "agent_seen", agent |-> a]) /\ UNCHANGED stored

Enroll(a) ==
  /\ a \notin roster /\ roster' = roster \cup {a}
  /\ writes < MaxWrites /\ writes' = writes + 1
  /\ UNCHANGED <<version, alertLog, raised, acked, publishing, page, ring, fetches, failures>>

(* The retention sweep.                                                    *)
PruneOldest ==
  /\ alertLog # <<>> /\ alertLog' = Tail(alertLog) /\ acked' = acked \ {Head(alertLog)}
  /\ UNCHANGED <<version, raised, roster, publishing, page, ring, fetches, writes, failures>>

(* broadcast::send: the oldest event makes room, whoever still needs it;   *)
(* sse_live skips the gap (Lagged) and goes on.                            *)
Publish ==
  /\ publishing # Nothing /\ publishing' = Nothing
  /\ ring' = CASE stream # "open"        -> <<>>
               [] Len(ring) < Capacity   -> Append(ring, publishing)
               [] OTHER                  -> Append(Tail(ring), publishing)
  /\ UNCHANGED <<stored, page, fetches, writes, failures>>

(***************************************************************************)
(* The handlers of the GETs, and the listings of aegisctl.                 *)
(***************************************************************************)
First(rows, n)        == SubSeq(rows, 1, IF n < Len(rows) THEN n ELSE Len(rows))
Truncate(rows, limit) == IF limit = Nothing THEN rows ELSE First(rows, limit)

(* store.scores() and scores_for_agent(), in the order of their keys.      *)
Rows           == SelectSeq(RowKeys, LAMBDA c : version[c] > 0)
RowsOfAgent(a) == SelectSeq(Rows, LAMBDA c : OwnerOf[c] = a)

(* rows.retain(|r| r.score >= min), in the handler and in aegisctl.        *)
AtLeast(rows, min) == IF min = Nothing THEN rows ELSE SelectSeq(rows, LAMBDA c : version[c] >= min)

(* list_scores, list_detections.                                           *)
ListRows(min, limit) == Truncate(AtLeast(Rows, min), limit)

(* Mutated form: the server's limit comes before the agent's rows are      *)
(* picked out of the whole listing.                                        *)
CmdRows_LimitFirst(agent, min, limit, json) ==
  SelectSeq(ListRows(min, limit), LAMBDA c : agent \in {Nothing, OwnerOf[c]})

(* cmd_scores, cmd_detections: with --agent the rows come from the agent's *)
(* own route, which has no filters, and aegisctl filters what it prints;   *)
(* --json prints what came.                                                *)
CmdRows(agent, min, limit, json) ==
  CASE agent = Nothing           -> ListRows(min, limit)
    [] agent # Nothing /\ json   -> RowsOfAgent(agent)
    [] OTHER                     -> Truncate(AtLeast(RowsOfAgent(agent), min), limit)

(* list_alerts: the filter is applied to a window of the newest alerts.    *)
AlertsRecent(n) == First(Reverse(alertLog), n)
ListAlerts(limit, acknowledged) ==
  LET n == IF limit = Nothing THEN Window ELSE limit
      recent == AlertsRecent(IF n > Window THEN n ELSE Window)
  IN Truncate(IF acknowledged = Nothing THEN recent
              ELSE SelectSeq(recent, LAMBDA i : (i \in acked) = acknowledged), n)

(* cmd_alerts: --unacknowledged is a filter of the server's.               *)
CmdAlerts(limit, unacknowledged) == ListAlerts(limit, IF unacknowledged THEN FALSE ELSE Nothing)

(* renderAlerts: the page's own filter, on the alerts it has loaded.       *)
RenderAlerts(loaded, unackedOnly) == {i \in DOMAIN loaded : ~(unackedOnly /\ loaded[i])}

(* What each collection's GET would answer now.                            *)
Body(r) ==
  CASE r = "cells"  -> version
    [] r = "alerts" -> [i \in Range(ListAlerts(Window, Nothing)) |-> i \in acked]
    [] r = "agents" -> roster

Serve(r, i) ==
  /\ fetches[r][i].body = Nothing
  /\ fetches' = [fetches EXCEPT ![r][i].body = Body(r)]
  /\ UNCHANGED <<stored, publishing, page, ring, writes, failures>>

(* ack_alert: 200, or 404 when no alert has that id.                       *)
AckAlert(i) ==
  /\ clicks[i] = "sent"
  /\ IF i \in Range(alertLog)
       THEN acked' = acked \cup {i} /\ clicks' = [clicks EXCEPT ![i] = "ok"]
       ELSE clicks' = [clicks EXCEPT ![i] = "not found"] /\ UNCHANGED acked
  /\ UNCHANGED <<version, alertLog, raised, roster, publishing, booted, stream, shown, ring, fetches,
                 writes, failures>>

(***************************************************************************)
(* The dashboard.                                                          *)
(***************************************************************************)
Asked(rs) == [r \in Resources |-> IF r \in rs THEN Append(fetches[r], Unanswered) ELSE fetches[r]]
CanAsk(rs) == \A r \in rs : Len(fetches[r]) < MaxRequests[r]

(* Mutated form: scores and detections are left to the live feed.          *)
Polled_NoCells == {"alerts", "agents"}

(* What refreshAll gets.                                                   *)
Polled == {"cells", "alerts", "agents"}

Poll ==
  /\ CanAsk(Polled) /\ fetches' = Asked(Polled)
  /\ UNCHANGED <<stored, publishing, page, ring, writes, failures>>

(* load*: the collection is replaced by the response.                      *)
Arrive(r, i) ==
  /\ fetches[r][i].body # Nothing
  /\ fetches' = [fetches EXCEPT ![r] = RemoveAt(@, i)]
  /\ shown' = [shown EXCEPT ![r] = fetches[r][i].body]
  /\ UNCHANGED <<stored, publishing, booted, stream, clicks, ring, writes, failures>>

(* catch(noop): a request that fails is forgotten.                         *)
Fails(r, i) ==
  /\ failures < MaxFailures /\ failures' = failures + 1
  /\ fetches' = [fetches EXCEPT ![r] = RemoveAt(@, i)]
  /\ UNCHANGED <<stored, publishing, page, ring, writes>>

(* boot: the feed is opened when each of the first responses is in.        *)
OpenLiveFeed ==
  /\ ~booted /\ \A r \in Resources : \A i \in DOMAIN fetches[r] : fetches[r][i].at # "boot"
  /\ booted' = TRUE /\ stream' = "connecting"
  /\ UNCHANGED <<stored, publishing, clicks, shown, ring, fetches, writes, failures>>

(* live_tx.subscribe(): nothing from before.  onopen asks for nothing.     *)
ConnectFeed ==
  /\ stream = "connecting" /\ stream' = "open" /\ ring' = <<>>
  /\ UNCHANGED <<stored, publishing, booted, clicks, shown, fetches, writes, failures>>

Disconnect ==
  /\ stream = "open" /\ failures < MaxFailures /\ failures' = failures + 1
  /\ stream' = "connecting" /\ ring' = <<>>
  /\ UNCHANGED <<stored, publishing, booted, clicks, shown, fetches, writes>>

Received(kind) ==
  /\ stream = "open" /\ ring # <<>> /\ Head(ring).kind = kind /\ ring' = Tail(ring)
  /\ UNCHANGED <<stored, publishing, booted, stream, clicks, writes, failures>>

(* onScore, onDetection                                                    *)
OnCell ==
  /\ Received("cell") /\ shown' = [shown EXCEPT !.cells[Head(ring).cell] = Head(ring).version]
  /\ UNCHANGED fetches

(* The event has neither the alert's id nor its state.                     *)
OnAlert ==
  /\ Received("alert") /\ CanAsk({"alerts"}) /\ fetches' = Asked({"alerts"})
  /\ UNCHANGED shown

OnAgentSeen ==
  /\ Received("agent_seen") /\ UNCHANGED shown
  /\ IF Head(ring).agent \in shown.agents
       THEN UNCHANGED fetches
       ELSE CanAsk({"agents"}) /\ fetches' = Asked({"agents"})

(* Mutated form: acknowledged as soon as it is clicked.                    *)
ShownAtClick_Acked(i) == [shown EXCEPT !.alerts[i] = TRUE]

(* What a click itself changes on the page.                                *)
ShownAtClick(i) == shown

ClickAck(i) ==
  /\ i \in DOMAIN shown.alerts /\ ~shown.alerts[i] /\ clicks[i] = "none"
  /\ clicks' = [clicks EXCEPT ![i] = "sent"] /\ shown' = ShownAtClick(i)
  /\ UNCHANGED <<stored, publishing, booted, stream, ring, fetches, writes, failures>>

AckAnswered(i) ==
  /\ clicks[i] \in {"ok", "not found"} /\ clicks' = [clicks EXCEPT ![i] = "none"]
  /\ shown' = [shown EXCEPT !.alerts =
       IF clicks[i] = "ok" THEN [j \in DOMAIN @ |-> @[j] \/ j = i]
                           ELSE [j \in DOMAIN @ \ {i} |-> @[j]]]
  /\ UNCHANGED <<stored, publishing, booted, stream, ring, fetches, writes, failures>>

AckFails(i) ==
  /\ clicks[i] # "none" /\ failures < MaxFailures /\ failures' = failures + 1
  /\ clicks' = [clicks EXCEPT ![i] = "none"]
  /\ UNCHANGED <<stored, publishing, booted, stream, shown, ring, fetches, writes>>

-----------------------------------------------------------------------------
ConsoleNext ==
  \/ \E c \in CellSet : Upsert(c)
  \/ \E a \in Owners : Heartbeat(a) \/ Enroll(a)
  \/ AppendAlert \/ PruneOldest \/ Publish
  \/ \E r \in Resources : \E i \in DOMAIN fetches[r] : Serve(r, i) \/ Arrive(r, i) \/ Fails(r, i)
  \/ \E i \in AlertIds : AckAlert(i) \/ ClickAck(i) \/ AckAnswered(i) \/ AckFails(i)
  \/ Poll \/ OpenLiveFeed \/ ConnectFeed \/ Disconnect \/ OnCell \/ OnAlert \/ OnAgentSeen

(* The server answers, the network delivers, and the interval fires again  *)
(* and again; nothing obliges operators, agents or the live feed.          *)
Fairness ==
  /\ WF_consoleVars(Poll)
  /\ \A r \in Resources : /\ WF_consoleVars(\E i \in DOMAIN fetches[r] : Serve(r, i))
                          /\ WF_consoleVars(\E i \in DOMAIN fetches[r] : Arrive(r, i))

ConsoleSpec == ConsoleInit /\ [][ConsoleNext]_consoleVars /\ Fairness

-----------------------------------------------------------------------------
(* Types; the ring and the requests in flight stay within their bounds.    *)
ConsoleTypes ==
  /\ version \in [CellSet -> 0 .. MaxWrites]
  /\ alertLog \in Seq(AlertIds) /\ raised \in 0 .. MaxWrites
  /\ acked \subseteq Range(alertLog) /\ roster \subseteq Owners
  /\ publishing = Nothing \/ publishing \in LiveEvents
  /\ booted \in BOOLEAN /\ stream \in {"none", "connecting", "open"}
  /\ ring \in Seq(LiveEvents) /\ Len(ring) <= Capacity
  /\ \A r \in Resources : /\ Len(fetches[r]) <= MaxRequests[r]
                          /\ \A i \in DOMAIN fetches[r] : fetches[r][i].at \in {"boot", "sent"}
  /\ clicks \in [AlertIds -> {"none", "sent", "ok", "not found"}]
  /\ shown.cells \in [CellSet -> 0 .. MaxWrites]
  /\ DOMAIN shown.alerts \subseteq AlertIds /\ shown.agents \subseteq Owners
  /\ writes \in 0 .. MaxWrites /\ failures \in 0 .. MaxFailures

(* An alert the page calls acknowledged is acknowledged in the store, or   *)
(* gone from it: no response that is late, lost or a 404 makes an operator *)
(* believe that somebody took care of an alert nobody did.                 *)
ShownAcksHold ==
  \A i \in DOMAIN shown.alerts : shown.alerts[i] => i \in acked \/ i \notin Range(alertLog)

(* The two front ends and the server filter alike: aegisctl's listing of   *)
(* one agent's rows is that agent's part of the whole listing, with the    *)
(* same flags, and its listing of open alerts is what the page's filter    *)
(* leaves of the alerts it has loaded.                                     *)
ListingsAgree ==
  /\ \A a \in Owners, min \in {Nothing} \cup 1 .. MaxWrites, limit \in {Nothing} \cup 0 .. Len(RowKeys) :
       CmdRows(a, min, limit, FALSE)
         = Truncate(SelectSeq(ListRows(min, Nothing), LAMBDA c : OwnerOf[c] = a), limit)
  /\ \A open \in BOOLEAN : Range(CmdAlerts(Nothing, open)) = RenderAlerts(Body("alerts"), open)

(* When the store has come to rest, the page shows what is stored, for     *)
(* good: whatever the feed skipped, whatever a reconnection missed, and    *)
(* however late a response that was read before overwrote a newer row.     *)
DashboardConverges ==
  <>[](shown = [cells |-> Body("cells"), alerts |-> Body("alerts"), agents |-> Body("agents")])
=============================================================================

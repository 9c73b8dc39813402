----------------------------- MODULE Enrollment -----------------------------
(***************************************************************************)
(* How an endpoint becomes an agent the server knows: the server's TLS     *)
(* material (ingest.rs), one-time tokens and the burn-and-enroll           *)
(* transaction (enroll.rs, store.rs), the `enroll` command of the agent    *)
(* (aegis-agent/src/main.rs), the two identity files (identity.rs) and the *)
(* challenge handshake a loaded identity has to pass (actor.rs, ingest.rs).*)
(*                                                                         *)
(* Both sides may die between any two steps, and an answer may be lost.    *)
(* What is on disk survives: the server's tables and PEM files, the        *)
(* endpoint's identity.json and key file.  One `enroll` command runs at a  *)
(* time on an endpoint; the forwarder may start and stop beside it.        *)
(*                                                                         *)
(* Key pairs are numbered as they are generated, those of the server and   *)
(* those of the agents; 0 stands for a file that is absent or that does    *)
(* not parse, which `load` treats alike: the forwarder only buffers.       *)
(***************************************************************************)
EXTENDS Naturals, Sequences, FiniteSets, Functions

CONSTANTS
  Endpoints,
  Tokens,        (* the random strings that will be minted                 *)
  NoToken,
  Validity,      (* TOKEN_VALIDITY_NS                                      *)
  \* bounds of the model
  MaxTime, MaxBoots, MaxAttempts

ASSUME EnrollmentAssumption ==
  /\ NoToken \notin Tokens
  /\ {Validity, MaxTime, MaxBoots, MaxAttempts} \subseteq Nat

VARIABLES
  now,        (* the server's clock, which may be set                      *)
  crt, key,   (* tls.crt and tls.key: the pair each belongs to             *)
  server,     (* "down", "bootstrap" (tls.crt written), "up"               *)
  pin,        (* fingerprint of the certificate in use                     *)
  boots,      (* how often the server was started                          *)
  pairs,      (* how many pairs it generated                               *)
  tokens,     (* ENROLL_TOKENS                                             *)
  agents,     (* AGENTS; an agent_id is a position                         *)
  handed,     (* history: the fingerprint given out with each token        *)
  revoked,    (* history: tokens whose revocation was confirmed            *)
  step,       (* step[e]: where the enroll command is                      *)
  attempt,    (* attempt[e]: its token, pin, key, and the id in its answer *)
  attempts,   (* how many commands were started                            *)
  identity,   (* identity[e]: identity.json                                *)
  keyfile,    (* keyfile[e]: agent_ed25519.key                             *)
  settled,    (* history: the last enroll to touch e's files reported      *)
              (* success                                                   *)
  loaded,     (* loaded[e]: what the forwarder loaded, and whether the     *)
              (* files were settled then; key 0 between the two reads      *)
  session     (* session[e]: outcome of its last handshake                 *)

tls      == <<crt, key, server, pin, boots, pairs>>
tables   == <<tokens, agents, handed, revoked>>
command  == <<step, attempt, attempts>>
files    == <<identity, keyfile, settled>>
forward  == <<loaded, session>>
vars     == <<now, tls, tables, command, files, forward>>

NoIdentity == [id |-> 0, pin |-> 0]
NoAttempt  == [token |-> NoToken, pin |-> 0, key |-> 0, id |-> 0]
NotLoaded  == [id |-> 0, pin |-> 0, key |-> 0, settled |-> FALSE]

Init ==
  /\ now = 0
  /\ crt = 0 /\ key = 0 /\ server = "down" /\ pin = 0 /\ boots = 0 /\ pairs = 0
  /\ tokens = <<>> /\ agents = <<>> /\ handed = <<>> /\ revoked = {}
  /\ step = [e \in Endpoints |-> "idle"] /\ attempt = [e \in Endpoints |-> NoAttempt]
  /\ attempts = 0
  /\ identity = [e \in Endpoints |-> NoIdentity] /\ keyfile = [e \in Endpoints |-> 0]
  /\ settled = [e \in Endpoints |-> FALSE]
  /\ loaded = [e \in Endpoints |-> NotLoaded] /\ session = [e \in Endpoints |-> "none"]

(***************************************************************************)
(* The server's certificate.                                               *)
(***************************************************************************)
(* Mutated form: a certificate that is there is kept.                      *)
NextCert_Kept == IF crt = 0 THEN pairs + 1 ELSE crt

(* The certificate of the pair just generated.                             *)
NextCert == pairs + 1

(* load_or_create_server_cert finds a file missing: a new pair, and the    *)
(* certificate is renamed into place.                                      *)
WriteCert ==
  /\ server = "down" /\ boots < MaxBoots /\ (crt = 0 \/ key = 0)
  /\ pairs' = pairs + 1 /\ crt' = NextCert
  /\ server' = "bootstrap" /\ boots' = boots + 1
  /\ UNCHANGED <<key, pin, now, tables, command, files, forward>>

(* Then the key.                                                           *)
WriteKey ==
  /\ server = "bootstrap"
  /\ key' = pairs /\ pin' = crt /\ server' = "up"
  /\ UNCHANGED <<crt, boots, pairs, now, tables, command, files, forward>>

(* Both files are there: they are loaded.                                  *)
LoadCert ==
  /\ server = "down" /\ boots < MaxBoots /\ crt # 0 /\ key # 0
  /\ pin' = crt /\ server' = "up" /\ boots' = boots + 1
  /\ UNCHANGED <<crt, key, pairs, now, tables, command, files, forward>>

(* The process ends, at any point; so do its connections.                  *)
StopServer ==
  /\ server # "down" /\ server' = "down"
  /\ step' = [e \in Endpoints |-> IF step[e] \in {"asking", "answered"} THEN "idle" ELSE step[e]]
  /\ session' = [e \in Endpoints |-> "none"]
  /\ UNCHANGED <<now, crt, key, pin, boots, pairs, tables, attempt, attempts, files, loaded>>

SetClock ==
  /\ \E t \in 0 .. MaxTime : now' = t
  /\ UNCHANGED <<tls, tables, command, files, forward>>

(***************************************************************************)
(* Tokens.                                                                 *)
(***************************************************************************)
(* POST /api/v1/tokens: the row is written and the token handed out with   *)
(* the fingerprint.  Thirty-two random bytes do not repeat.                *)
CreateToken(t) ==
  /\ server = "up" /\ t \notin DOMAIN handed
  /\ tokens' = [u \in DOMAIN tokens \cup {t} |->
                  IF u = t THEN [created |-> now, used |-> FALSE] ELSE tokens[u]]
  /\ handed' = [u \in DOMAIN handed \cup {t} |-> IF u = t THEN pin ELSE handed[u]]
  /\ UNCHANGED <<agents, revoked, now, tls, command, files, forward>>

(* Mutated form: a token that was used can be revoked as well.             *)
Revocable_Used(t) == t \in DOMAIN tokens

(* revoke_token_if_unused; 409 otherwise.                                  *)
Revocable(t) == t \in DOMAIN tokens /\ ~tokens[t].used

(* DELETE /api/v1/tokens/:token.                                           *)
RevokeToken(t) ==
  /\ server = "up" /\ Revocable(t)
  /\ tokens' = Restrict(tokens, DOMAIN tokens \ {t})
  /\ revoked' = revoked \cup {t}
  /\ UNCHANGED <<agents, handed, now, tls, command, files, forward>>

(***************************************************************************)
(* The enroll command.                                                     *)
(***************************************************************************)
(* generate_key.                                                           *)
FreshKey(e) == attempts + 1

(* The operator runs it with a token and its fingerprint.  A connection    *)
(* needs the server, and its certificate to match; without it the command  *)
(* ends, having done nothing.                                              *)
SendEnrollRequest(e, t) ==
  /\ step[e] = "idle" /\ attempts < MaxAttempts
  /\ t \in DOMAIN handed /\ server = "up" /\ handed[t] = pin
  /\ attempts' = attempts + 1
  /\ attempt' = [attempt EXCEPT ![e] = [token |-> t, pin |-> pin, key |-> FreshKey(e), id |-> 0]]
  /\ step' = [step EXCEPT ![e] = "asking"]
  /\ UNCHANGED <<now, tls, tables, files, forward>>

(* enroll_txn's checks: the token is there, unused, and not expired (the   *)
(* subtraction saturates).                                                 *)
Enrolls(t) ==
  /\ t \in DOMAIN tokens /\ ~tokens[t].used
  /\ now <= tokens[t].created + Validity

Burned(t) == [tokens EXCEPT ![t].used = TRUE]

(* handle_conn on an EnrollRequest: one transaction burns the token and    *)
(* writes the agent, and the answer is on its way.                         *)
Enroll(e) ==
  /\ step[e] = "asking" /\ Enrolls(attempt[e].token)
  /\ tokens' = Burned(attempt[e].token)
  /\ agents' = Append(agents, [pubkey |-> attempt[e].key, token |-> attempt[e].token])
  /\ attempt' = [attempt EXCEPT ![e].id = Len(agents) + 1]
  /\ step' = [step EXCEPT ![e] = "answered"]
  /\ UNCHANGED <<handed, revoked, attempts, now, tls, files, forward>>

(* EnrollResponse{accepted: false}: the command ends.                      *)
Reject(e) ==
  /\ step[e] = "asking" /\ ~Enrolls(attempt[e].token)
  /\ step' = [step EXCEPT ![e] = "idle"]
  /\ UNCHANGED <<attempt, attempts, now, tls, tables, files, forward>>

(* The accepting answer arrives; persist opens, and empties, identity.json.*)
(* A load that is between its two reads no longer counts as settled.       *)
OpenIdentity(e) ==
  /\ step[e] = "answered" /\ step' = [step EXCEPT ![e] = "identity"]
  /\ identity' = [identity EXCEPT ![e] = NoIdentity]
  /\ settled' = [settled EXCEPT ![e] = FALSE]
  /\ loaded' = [loaded EXCEPT ![e].settled = @ /\ loaded[e].key # 0]
  /\ UNCHANGED <<keyfile, session, attempt, attempts, now, tls, tables>>

(* Mutated form: success is reported once identity.json is written.        *)
WriteIdentity_Reports(e) ==
  /\ step[e] = "identity" /\ step' = [step EXCEPT ![e] = "written"]
  /\ identity' = [identity EXCEPT ![e] = [id |-> attempt[e].id, pin |-> attempt[e].pin]]
  /\ settled' = [settled EXCEPT ![e] = TRUE]
  /\ UNCHANGED <<keyfile, attempt, attempts, now, tls, tables, forward>>

WriteIdentity(e) ==
  /\ step[e] = "identity" /\ step' = [step EXCEPT ![e] = "written"]
  /\ identity' = [identity EXCEPT ![e] = [id |-> attempt[e].id, pin |-> attempt[e].pin]]
  /\ UNCHANGED <<keyfile, settled, attempt, attempts, now, tls, tables, forward>>

(* write_private truncates the key file, then writes it.                   *)
OpenKey(e) ==
  /\ step[e] = "written" /\ step' = [step EXCEPT ![e] = "key"]
  /\ keyfile' = [keyfile EXCEPT ![e] = 0]
  /\ UNCHANGED <<identity, settled, attempt, attempts, now, tls, tables, forward>>

(* The command prints the agent_id and ends.                               *)
WritePrivateKey(e) ==
  /\ step[e] = "key" /\ step' = [step EXCEPT ![e] = "idle"]
  /\ keyfile' = [keyfile EXCEPT ![e] = attempt[e].key]
  /\ settled' = [settled EXCEPT ![e] = TRUE]
  /\ UNCHANGED <<identity, attempt, attempts, now, tls, tables, forward>>

(* The connection breaks, the command is killed, or a write fails.  What   *)
(* it had already written stays.                                           *)
EnrollFails(e) ==
  /\ step[e] # "idle" /\ step' = [step EXCEPT ![e] = "idle"]
  /\ UNCHANGED <<attempt, attempts, now, tls, tables, files, forward>>

(***************************************************************************)
(* The forwarder on the endpoint.                                          *)
(***************************************************************************)
(* TransportPlugin::init, identity::load: first identity.json,             *)
ReadIdentity(e) ==
  /\ loaded[e] = NotLoaded /\ identity[e] # NoIdentity
  /\ loaded' = [loaded EXCEPT ![e] = [id |-> identity[e].id, pin |-> identity[e].pin,
                                      key |-> 0, settled |-> settled[e]]]
  /\ UNCHANGED <<session, now, tls, tables, command, files>>

(* then the key file; without one there is no identity.                    *)
ReadKey(e) ==
  /\ loaded[e] # NotLoaded /\ loaded[e].key = 0
  /\ loaded' = [loaded EXCEPT ![e] = IF keyfile[e] = 0 THEN NotLoaded
                                     ELSE [@ EXCEPT !.key = keyfile[e]]]
  /\ UNCHANGED <<session, now, tls, tables, command, files>>

AgentStops(e) ==
  /\ loaded[e] # NotLoaded /\ loaded' = [loaded EXCEPT ![e] = NotLoaded]
  /\ session' = [session EXCEPT ![e] = "none"]
  /\ UNCHANGED <<now, tls, tables, command, files>>

(* PinnedVerifier: the served leaf has the pinned fingerprint.             *)
PinVerified(i) == i.pin = pin

(* handle_conn: the agent is known, and the key it presents is the one it  *)
(* enrolled with.                                                          *)
Known(i) == i.id \in DOMAIN agents /\ agents[i.id].pubkey = i.key

(* The agent signs the challenge with its key, under the fingerprint of    *)
(* the certificate it was served; the server verifies with the enrolled    *)
(* key, under the fingerprint of its own.                                  *)
Signed(i)                == [key |-> i.key, digest |-> crt]
VerifyChallenge(i, sig)  == sig = [key |-> agents[i.id].pubkey, digest |-> pin]

Handshake(e) ==
  /\ loaded[e].key # 0 /\ server = "up"
  /\ LET i == loaded[e] IN
     session' = [session EXCEPT ![e] =
                   CASE ~PinVerified(i)                -> "pin mismatch"
                     [] PinVerified(i) /\ ~Known(i)    -> "rejected"
                     [] PinVerified(i) /\ Known(i)     ->
                          IF VerifyChallenge(i, Signed(i)) THEN "online" ELSE "rejected"]
  /\ UNCHANGED <<loaded, now, tls, tables, command, files>>

-----------------------------------------------------------------------------
Next ==
  \/ WriteCert \/ WriteKey \/ LoadCert \/ StopServer \/ SetClock
  \/ \E t \in Tokens : CreateToken(t) \/ RevokeToken(t)
  \/ \E e \in Endpoints :
       \/ \E t \in Tokens : SendEnrollRequest(e, t)
       \/ Enroll(e) \/ Reject(e) \/ EnrollFails(e)
       \/ OpenIdentity(e) \/ WriteIdentity(e) \/ OpenKey(e) \/ WritePrivateKey(e)
       \/ ReadIdentity(e) \/ ReadKey(e) \/ AgentStops(e) \/ Handshake(e)

Spec == Init /\ [][Next]_vars

-----------------------------------------------------------------------------
(* Types; every agent has a key of its own, made for one attempt.          *)
TypeOK ==
  /\ now \in 0 .. MaxTime /\ server \in {"down", "bootstrap", "up"}
  /\ boots \in 0 .. MaxBoots /\ pairs \in 0 .. boots /\ {crt, key, pin} \subseteq 0 .. pairs
  /\ DOMAIN tokens \subseteq Tokens /\ DOMAIN handed \subseteq Tokens /\ revoked \subseteq Tokens
  /\ \A t \in DOMAIN tokens : tokens[t] \in [created : 0 .. MaxTime, used : BOOLEAN]
  /\ \A t \in DOMAIN handed : handed[t] \in 0 .. pairs
  /\ agents \in Seq([pubkey : 1 .. attempts, token : Tokens])
  /\ \A i, j \in DOMAIN agents : agents[i].pubkey = agents[j].pubkey => i = j
  /\ attempts \in 0 .. MaxAttempts
  /\ step \in [Endpoints -> {"idle", "asking", "answered", "identity", "written", "key"}]
  /\ attempt \in [Endpoints -> [token : Tokens \cup {NoToken}, pin : 0 .. pairs,
                                 key : 0 .. attempts, id : 0 .. Len(agents)]]
  /\ identity \in [Endpoints -> [id : 0 .. Len(agents), pin : 0 .. pairs]]
  /\ keyfile \in [Endpoints -> 0 .. attempts] /\ settled \in [Endpoints -> BOOLEAN]
  /\ loaded \in [Endpoints -> [id : 0 .. Len(agents), pin : 0 .. pairs,
                                key : 0 .. attempts, settled : BOOLEAN]]
  /\ session \in [Endpoints -> {"none", "pin mismatch", "rejected", "online"}]

(* A token has one fate: open, burned for exactly one agent, or revoked    *)
(* and no agent's.  Concurrent enrolls, a revocation and a crash of either *)
(* side between the request and its answer do not mix them.                *)
AgentsOf(t) == {i \in DOMAIN agents : agents[i].token = t}
OneFate ==
  \A t \in DOMAIN handed :
    \/ t \in DOMAIN tokens /\ t \notin revoked /\ ~tokens[t].used /\ AgentsOf(t) = {}
    \/ t \in DOMAIN tokens /\ t \notin revoked /\ tokens[t].used /\ Cardinality(AgentsOf(t)) = 1
    \/ t \notin DOMAIN tokens /\ t \in revoked /\ AgentsOf(t) = {}

(* A fingerprint that was handed out stays good: whenever the server is    *)
(* up, after whatever crashes, it serves the certificate it belongs to,    *)
(* with the key of the same pair.                                          *)
PinKept ==
  server = "up" => /\ crt = key /\ pin = crt
                   /\ \A t \in DOMAIN handed : handed[t] = pin

(* An identity loaded after an enroll that reported success is never       *)
(* refused, whatever was restarted, revoked, expired or enrolled since.    *)
EnrolledIsServed ==
  \A e \in Endpoints :
    loaded[e].settled => session[e] \in {"none", "online"}
=============================================================================

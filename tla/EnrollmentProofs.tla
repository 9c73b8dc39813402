-------------------------- MODULE EnrollmentProofs --------------------------
(***************************************************************************)
(* Theorems about Enrollment: the fate of a token, the fingerprint that is *)
(* handed out with it, and what an endpoint that enrolled is told later.   *)
(***************************************************************************)
EXTENDS Enrollment, FiniteSetTheorems, TLAPS

(***************************************************************************)
(* Types.                                                                  *)
(***************************************************************************)
TokenRows == [created : 0 .. MaxTime, used : BOOLEAN]
AgentRows == [pubkey : 1 .. attempts, token : Tokens]

ServerTypes ==
  /\ now \in 0 .. MaxTime /\ server \in {"down", "bootstrap", "up"}
  /\ boots \in 0 .. MaxBoots /\ pairs \in 0 .. boots
  /\ crt \in 0 .. pairs /\ key \in 0 .. pairs /\ pin \in 0 .. pairs

TableTypes ==
  /\ DOMAIN tokens \subseteq Tokens /\ DOMAIN handed \subseteq Tokens /\ revoked \subseteq Tokens
  /\ \A t \in DOMAIN tokens : tokens[t] \in TokenRows
  /\ \A t \in DOMAIN handed : handed[t] \in 0 .. pairs
  /\ agents \in Seq(AgentRows)

EndpointTypes ==
  /\ attempts \in 0 .. MaxAttempts
  /\ step \in [Endpoints -> {"idle", "asking", "answered", "identity", "written", "key"}]
  /\ attempt \in [Endpoints -> [token : Tokens \cup {NoToken}, pin : 0 .. pairs,
                                 key : 0 .. attempts, id : 0 .. Len(agents)]]
  /\ identity \in [Endpoints -> [id : 0 .. Len(agents), pin : 0 .. pairs]]
  /\ keyfile \in [Endpoints -> 0 .. attempts] /\ settled \in [Endpoints -> BOOLEAN]
  /\ loaded \in [Endpoints -> [id : 0 .. Len(agents), pin : 0 .. pairs,
                                key : 0 .. attempts, settled : BOOLEAN]]
  /\ session \in [Endpoints -> {"none", "pin mismatch", "rejected", "online"}]

(* Every agent's key was made for one attempt.                             *)
OwnKeys ==
  /\ \A i, j \in DOMAIN agents : agents[i].pubkey = agents[j].pubkey => i = j
  /\ \A e \in Endpoints : step[e] = "asking" =>
       /\ attempt[e].key > 0 /\ attempt[e].token \in Tokens
       /\ \A i \in DOMAIN agents : agents[i].pubkey # attempt[e].key
       /\ \A d \in Endpoints : step[d] = "asking" /\ attempt[d].key = attempt[e].key => d = e

TypeInv == ServerTypes /\ TableTypes /\ EndpointTypes /\ OwnKeys

(***************************************************************************)
(* Tokens.                                                                 *)
(***************************************************************************)
Minted ==
  /\ DOMAIN tokens \subseteq DOMAIN handed /\ revoked \subseteq DOMAIN handed
  /\ \A i \in DOMAIN agents : agents[i].token \in DOMAIN handed

FateInv == TypeInv /\ Minted /\ OneFate

(***************************************************************************)
(* The certificate.                                                        *)
(***************************************************************************)
OnePair ==
  /\ key # 0 => crt = key
  /\ server = "bootstrap" => key = 0 /\ crt = pairs /\ crt # 0
  /\ server = "up" => key # 0 /\ pin = crt
  /\ \A t \in DOMAIN handed : key # 0 /\ handed[t] = key

PinInv == TypeInv /\ OnePair

(***************************************************************************)
(* The identity.                                                           *)
(***************************************************************************)
(* Of these agents, served with this pair, the one with this id, this      *)
(* fingerprint and this key is let in.                                     *)
Served(id, fingerprint, pubkey, fleet, pair) ==
  /\ id \in DOMAIN fleet /\ fleet[id].pubkey = pubkey /\ pubkey # 0
  /\ pair # 0 /\ fingerprint = pair

(* An attempt has the fingerprint of the server; once answered, the id and *)
(* the key of an agent.                                                    *)
AskedAt(s, a, fleet, pair) ==
  /\ s # "idle" => pair # 0 /\ a.pin = pair
  /\ s \in {"answered", "identity", "written", "key"} => Served(a.id, a.pin, a.key, fleet, pair)

(* The files, when settled, are those of an agent.                         *)
FiledAt(s, a, i, k, done, fleet, pair) ==
  /\ s \in {"identity", "written", "key"} => ~done
  /\ s \in {"written", "key"} => i.id = a.id /\ i.pin = a.pin
  /\ done => Served(i.id, i.pin, k, fleet, pair)

(* So is what was loaded from them, half of it or all.                     *)
LoadedAt(l, outcome, i, done, fleet, pair) ==
  /\ l.key = 0 => outcome = "none"
  /\ l.settled /\ l.key = 0 => done /\ l.id = i.id /\ l.pin = i.pin
  /\ l.settled /\ l.key # 0 => Served(l.id, l.pin, l.key, fleet, pair)
  /\ l.settled => outcome \in {"none", "online"}

Asked  == \A e \in Endpoints : AskedAt(step[e], attempt[e], agents, key)
Filed  == \A e \in Endpoints :
            FiledAt(step[e], attempt[e], identity[e], keyfile[e], settled[e], agents, key)
Loaded == \A e \in Endpoints :
            LoadedAt(loaded[e], session[e], identity[e], settled[e], agents, key)

ServedInv == PinInv /\ Asked /\ Filed /\ Loaded

-----------------------------------------------------------------------------
LEMMA Numbers ==
  ASSUME ServerTypes
  PROVE  /\ boots \in Nat /\ pairs \in Nat /\ crt \in Nat /\ key \in Nat /\ pin \in Nat
         /\ now \in Nat
BY EnrollmentAssumption DEF ServerTypes

LEMMA WiderSeq ==
  ASSUME NEW S, NEW T, S \subseteq T, NEW s \in Seq(S)
  PROVE  s \in Seq(T)
<1>1. s \in [1 .. Len(s) -> S] /\ Len(s) \in Nat
  OBVIOUS
<1>2. s \in [1 .. Len(s) -> T]
  BY <1>1
<1>3. QED
  BY <1>1, <1>2

(* What a step leaves alone keeps its type, though more pairs, attempts    *)
(* and agents there may be.                                                *)
Grown ==
  /\ pairs \in Nat /\ attempts \in Nat /\ pairs' \in Nat /\ attempts' \in Nat
  /\ Len(agents) \in Nat /\ Len(agents)' \in Nat
  /\ pairs <= pairs' /\ attempts <= attempts' /\ Len(agents) <= Len(agents)'

LEMMA TablesKept ==
  ASSUME TableTypes, Grown, UNCHANGED tables
  PROVE  TableTypes'
<1>0. tokens' = tokens /\ handed' = handed /\ revoked' = revoked /\ agents' = agents
  BY DEF tables
<1>1. AgentRows \subseteq AgentRows'
  BY DEF AgentRows, Grown
<1>2. agents' \in Seq(AgentRows')
  BY <1>0, <1>1, WiderSeq DEF TableTypes
<1>3. \A t \in DOMAIN handed' : handed'[t] \in 0 .. pairs'
  BY <1>0 DEF TableTypes, Grown
<1>4. QED
  BY <1>0, <1>2, <1>3 DEF TableTypes, TokenRows

Attempts   == [token : Tokens \cup {NoToken}, pin : 0 .. pairs, key : 0 .. attempts, id : 0 .. Len(agents)]
Identities == [id : 0 .. Len(agents), pin : 0 .. pairs]
Loads      == [id : 0 .. Len(agents), pin : 0 .. pairs, key : 0 .. attempts, settled : BOOLEAN]

LEMMA Wider ==
  ASSUME Grown
  PROVE  /\ Attempts \subseteq Attempts' /\ Identities \subseteq Identities'
         /\ Loads \subseteq Loads' /\ 0 .. attempts \subseteq 0 .. attempts'
BY DEF Grown, Attempts, Identities, Loads

LEMMA AttemptsKept ==
  ASSUME EndpointTypes, Grown
  PROVE  attempt \in [Endpoints -> Attempts']
BY Wider DEF EndpointTypes, Attempts

LEMMA FilesKept ==
  ASSUME EndpointTypes, Grown
  PROVE  identity \in [Endpoints -> Identities'] /\ keyfile \in [Endpoints -> 0 .. attempts']
BY Wider DEF EndpointTypes, Identities

LEMMA LoadsKept ==
  ASSUME EndpointTypes, Grown
  PROVE  loaded \in [Endpoints -> Loads']
BY Wider DEF EndpointTypes, Loads

LEMMA EndpointsKept ==
  ASSUME EndpointTypes, Grown, UNCHANGED <<command, files, forward>>
  PROVE  EndpointTypes'
<1>0. /\ attempts' = attempts /\ step' = step /\ attempt' = attempt /\ identity' = identity
      /\ keyfile' = keyfile /\ settled' = settled /\ loaded' = loaded /\ session' = session
  BY DEF command, files, forward
<1>1. attempt' \in [Endpoints -> Attempts'] 
  BY <1>0, AttemptsKept
<1>2. identity' \in [Endpoints -> Identities'] /\ keyfile' \in [Endpoints -> 0 .. attempts']
  BY <1>0, FilesKept
<1>3. loaded' \in [Endpoints -> Loads']
  BY <1>0, LoadsKept
<1>4. settled' \in [Endpoints -> BOOLEAN]
  BY <1>0, Zenon DEF EndpointTypes
<1>5. QED
  BY <1>0, <1>1, <1>2, <1>3, <1>4 DEF EndpointTypes, Attempts, Identities, Loads

LEMMA OwnKeysKept ==
  ASSUME OwnKeys, agents' = agents, attempt' = attempt,
         \A e \in Endpoints : step'[e] = "asking" => step[e] = "asking"
  PROVE  OwnKeys'
BY DEF OwnKeys

Ground ==
  /\ pairs \in Nat /\ attempts \in Nat /\ Len(agents) \in Nat

LEMMA Grounded == ASSUME TypeInv PROVE Ground
<1>1. pairs \in Nat
  BY Numbers DEF TypeInv
<1>2. attempts \in Nat
  <2>1. attempts \in 0 .. MaxAttempts
    BY DEF TypeInv, EndpointTypes
  <2>2. MaxAttempts \in Nat
    BY EnrollmentAssumption
  <2>3. QED
    BY <2>1, <2>2
<1>3. Len(agents) \in Nat
  BY DEF TypeInv, TableTypes
<1>4. QED
  BY <1>1, <1>2, <1>3 DEF Ground

(* The server's own steps.                                                 *)
LEMMA TypeServer ==
  ASSUME TypeInv, WriteCert \/ WriteKey \/ LoadCert \/ SetClock
  PROVE  TypeInv'
<1>0. /\ UNCHANGED <<tables, command, files, forward>>
      /\ agents' = agents /\ attempts' = attempts /\ attempt' = attempt /\ step' = step
  BY DEF WriteCert, WriteKey, LoadCert, SetClock, tables, command
<1>1. ServerTypes'
  <2>0. ServerTypes /\ MaxBoots \in Nat
    BY EnrollmentAssumption DEF TypeInv
  <2>1. CASE WriteCert
    BY <2>0, <2>1, Numbers DEF WriteCert, NextCert, ServerTypes
  <2>2. CASE WriteKey
    BY <2>0, <2>2, Numbers DEF WriteKey, ServerTypes
  <2>3. CASE LoadCert
    BY <2>0, <2>3, Numbers DEF LoadCert, ServerTypes
  <2>4. CASE SetClock
    BY <2>0, <2>4 DEF SetClock, ServerTypes, tls
  <2>5. QED
    BY <2>1, <2>2, <2>3, <2>4
<1>2. Grown
  <2>1. pairs' \in Nat /\ pairs <= pairs'
    BY Numbers DEF TypeInv, WriteCert, WriteKey, LoadCert, SetClock, tls
  <2>2. QED
    BY <1>0, <2>1, Grounded DEF Ground, Grown
<1>3. TableTypes' /\ EndpointTypes'
  BY <1>0, <1>2, TablesKept, EndpointsKept DEF TypeInv
<1>4. OwnKeys'
  BY <1>0, OwnKeysKept DEF TypeInv
<1>5. QED
  BY <1>1, <1>3, <1>4 DEF TypeInv

LEMMA TypeStopServer ==
  ASSUME TypeInv, StopServer
  PROVE  TypeInv'
<1>0. /\ UNCHANGED tables /\ agents' = agents
      /\ now' = now /\ crt' = crt /\ key' = key /\ pin' = pin /\ boots' = boots /\ pairs' = pairs
      /\ server' = "down" /\ attempt' = attempt /\ attempts' = attempts
      /\ identity' = identity /\ keyfile' = keyfile /\ settled' = settled /\ loaded' = loaded
  BY DEF StopServer, tables, files
<1>1. ServerTypes'
  BY <1>0 DEF TypeInv, ServerTypes
<1>2. Grown
  BY <1>0, Grounded DEF Ground, Grown
<1>3. TableTypes'
  BY <1>0, <1>2, TablesKept DEF TypeInv
<1>4. EndpointTypes'
  <2>1. step' \in [Endpoints -> {"idle", "asking", "answered", "identity", "written", "key"}]
    BY DEF StopServer, TypeInv, EndpointTypes
  <2>2. session' \in [Endpoints -> {"none", "pin mismatch", "rejected", "online"}]
    BY DEF StopServer
  <2>3. settled' \in [Endpoints -> BOOLEAN]
    BY <1>0, Zenon DEF TypeInv, EndpointTypes
  <2>4. QED
    BY <1>0, <2>1, <2>2, <2>3 DEF TypeInv, EndpointTypes
<1>5. OwnKeys'
  <2>1. \A e \in Endpoints : step'[e] = "asking" => step[e] = "asking"
    BY DEF StopServer
  <2>2. QED
    BY <1>0, <2>1, OwnKeysKept DEF TypeInv
<1>6. QED
  BY <1>1, <1>3, <1>4, <1>5 DEF TypeInv

(* The tokens.                                                             *)
LEMMA TypeTokens ==
  ASSUME TypeInv, NEW t \in Tokens, CreateToken(t) \/ RevokeToken(t)
  PROVE  TypeInv'
<1>0. /\ UNCHANGED <<now, tls, command, files, forward>> /\ agents' = agents
      /\ step' = step /\ attempt' = attempt /\ attempts' = attempts /\ pairs' = pairs /\ pin' = pin
  BY DEF CreateToken, RevokeToken, command, tls
<1>1. ServerTypes'
  BY <1>0 DEF TypeInv, ServerTypes, tls
<1>2. Grown
  BY <1>0, Grounded DEF Ground, Grown
<1>3. TableTypes'
  <2>1. CASE CreateToken(t)
    <3>1. /\ tokens' = [u \in DOMAIN tokens \cup {t} |->
                          IF u = t THEN [created |-> now, used |-> FALSE] ELSE tokens[u]]
          /\ handed' = [u \in DOMAIN handed \cup {t} |-> IF u = t THEN pin ELSE handed[u]]
          /\ revoked' = revoked
      BY <2>1 DEF CreateToken
    <3>2. [created |-> now, used |-> FALSE] \in TokenRows
      BY DEF TypeInv, ServerTypes, TokenRows
    <3>3. \A u \in DOMAIN tokens' : tokens'[u] \in TokenRows
      BY <3>1, <3>2 DEF TypeInv, TableTypes
    <3>4. \A u \in DOMAIN handed' : handed'[u] \in 0 .. pairs
      BY <3>1 DEF TypeInv, TableTypes, ServerTypes
    <3>5. QED
      BY <1>0, <3>1, <3>3, <3>4 DEF TypeInv, TableTypes, AgentRows, TokenRows
  <2>2. CASE RevokeToken(t)
    <3>1. /\ tokens' = [u \in DOMAIN tokens \ {t} |-> tokens[u]]
          /\ revoked' = revoked \cup {t} /\ handed' = handed
      BY <2>2 DEF RevokeToken, Restrict
    <3>2. QED
      BY <1>0, <3>1 DEF TypeInv, TableTypes, AgentRows, TokenRows
  <2>3. QED
    BY <2>1, <2>2
<1>4. EndpointTypes'
  BY <1>0, <1>2, EndpointsKept DEF TypeInv
<1>5. OwnKeys'
  BY <1>0, OwnKeysKept DEF TypeInv
<1>6. QED
  BY <1>1, <1>3, <1>4, <1>5 DEF TypeInv

(* The enroll command.                                                     *)
LEMMA TypeSend ==
  ASSUME TypeInv, NEW e \in Endpoints, NEW t \in Tokens, SendEnrollRequest(e, t)
  PROVE  TypeInv'
<1>0. /\ UNCHANGED <<now, tls, tables, files, forward>>
      /\ agents' = agents /\ pairs' = pairs /\ pin' = pin
      /\ identity' = identity /\ keyfile' = keyfile /\ settled' = settled
      /\ loaded' = loaded /\ session' = session
  BY DEF SendEnrollRequest, tls, tables, files, forward
<1>s. /\ attempts' = attempts + 1 /\ attempts < MaxAttempts
      /\ attempt' = [attempt EXCEPT ![e] = [token |-> t, pin |-> pin, key |-> attempts + 1, id |-> 0]]
      /\ step' = [step EXCEPT ![e] = "asking"]
  BY DEF SendEnrollRequest, FreshKey
<1>n. attempts \in Nat /\ attempts + 1 \in 0 .. MaxAttempts
  BY <1>s, Grounded, EnrollmentAssumption DEF Ground
<1>1. ServerTypes'
  BY <1>0 DEF TypeInv, ServerTypes, tls
<1>2. Grown
  BY <1>0, <1>s, <1>n, Grounded DEF Ground, Grown
<1>3. TableTypes'
  BY <1>0, <1>2, TablesKept DEF TypeInv
<1>4. EndpointTypes'
  <2>1. attempt' \in [Endpoints -> Attempts']
    <3>1. attempt \in [Endpoints -> Attempts']
      BY <1>2, AttemptsKept DEF TypeInv
    <3>2. [token |-> t, pin |-> pin, key |-> attempts + 1, id |-> 0] \in Attempts'
      BY <1>0, <1>s, <1>n, Grounded DEF Attempts, Ground, TypeInv, ServerTypes
    <3>3. QED
      BY <3>1, <3>2, <1>s
  <2>2. identity' \in [Endpoints -> Identities'] /\ keyfile' \in [Endpoints -> 0 .. attempts']
    BY <1>0, <1>2, FilesKept DEF TypeInv
  <2>3. loaded' \in [Endpoints -> Loads']
    BY <1>0, <1>2, LoadsKept DEF TypeInv
  <2>4. settled' \in [Endpoints -> BOOLEAN]
    BY <1>0, Zenon DEF TypeInv, EndpointTypes
  <2>5. step' \in [Endpoints -> {"idle", "asking", "answered", "identity", "written", "key"}]
    BY <1>s DEF TypeInv, EndpointTypes
  <2>6. attempts' \in 0 .. MaxAttempts /\ session' \in [Endpoints -> {"none", "pin mismatch", "rejected", "online"}]
    BY <1>0, <1>s, <1>n DEF TypeInv, EndpointTypes
  <2>7. QED
    BY <2>1, <2>2, <2>3, <2>4, <2>5, <2>6 DEF EndpointTypes, Attempts, Identities, Loads
<1>5. OwnKeys'
  <2>a. \A i \in DOMAIN agents : agents[i].pubkey \in 1 .. attempts
    <3>1. agents \in Seq(AgentRows)
      BY DEF TypeInv, TableTypes
    <3>2. \A i \in DOMAIN agents : agents[i] \in AgentRows
      BY <3>1
    <3>3. QED
      BY <3>2 DEF AgentRows
  <2>b. \A d \in Endpoints : attempt[d].key \in 0 .. attempts
    BY DEF TypeInv, EndpointTypes
  <2>0. /\ \A i \in DOMAIN agents : agents[i].pubkey \in 1 .. attempts
        /\ \A d \in Endpoints : attempt[d].key \in 0 .. attempts
    BY <2>a, <2>b
  <2>1. \A d \in Endpoints : attempt'[d] =
          IF d = e THEN [token |-> t, pin |-> pin, key |-> attempts + 1, id |-> 0] ELSE attempt[d]
    BY <1>s DEF TypeInv, EndpointTypes
  <2>2. \A d \in Endpoints : step'[d] = IF d = e THEN "asking" ELSE step[d]
    BY <1>s DEF TypeInv, EndpointTypes
  <2>3. ASSUME NEW d \in Endpoints, step'[d] = "asking"
        PROVE  /\ attempt'[d].key > 0 /\ attempt'[d].token \in Tokens
               /\ \A i \in DOMAIN agents : agents[i].pubkey # attempt'[d].key
               /\ \A c \in Endpoints : step'[c] = "asking" /\ attempt'[c].key = attempt'[d].key => c = d
    <3>1. CASE d = e
      <4>1. attempt'[d].key = attempts + 1 /\ attempt'[d].token = t
        BY <2>1, <3>1
      <4>2. \A i \in DOMAIN agents : agents[i].pubkey # attempts + 1
        BY <2>0, <1>n
      <4>3. \A c \in Endpoints : c # e => attempt'[c].key # attempts + 1
        BY <2>0, <2>1, <1>n
      <4>4. QED
        BY <4>1, <4>2, <4>3, <3>1, <1>n
    <3>2. CASE d # e
      <4>1. attempt'[d] = attempt[d] /\ step[d] = "asking" /\ attempt[d].key # attempts + 1
        BY <2>0, <2>1, <2>2, <2>3, <3>2, <1>n
      <4>2. \A c \in Endpoints : c = e => attempt'[c].key = attempts + 1
        BY <2>1
      <4>3. QED
        BY <4>1, <4>2, <2>1, <2>2 DEF TypeInv, OwnKeys
    <3>3. QED
      BY <3>1, <3>2
  <2>4. QED
    BY <2>3, <1>0 DEF TypeInv, OwnKeys
<1>6. QED
  BY <1>1, <1>3, <1>4, <1>5 DEF TypeInv

LEMMA TypeEnroll ==
  ASSUME TypeInv, NEW e \in Endpoints, Enroll(e)
  PROVE  TypeInv'
<1>0. /\ UNCHANGED <<now, tls, files, forward>>
      /\ handed' = handed /\ revoked' = revoked /\ attempts' = attempts /\ pairs' = pairs
      /\ identity' = identity /\ keyfile' = keyfile /\ settled' = settled
      /\ loaded' = loaded /\ session' = session
  BY DEF Enroll, tls, files, forward
<1>s. /\ step[e] = "asking"
      /\ attempt[e].token \in DOMAIN tokens
      /\ tokens' = [tokens EXCEPT ![attempt[e].token].used = TRUE]
      /\ agents' = Append(agents, [pubkey |-> attempt[e].key, token |-> attempt[e].token])
      /\ attempt' = [attempt EXCEPT ![e].id = Len(agents) + 1]
      /\ step' = [step EXCEPT ![e] = "answered"]
  BY DEF Enroll, Enrolls, Burned
<1>k. /\ attempt[e].key \in 1 .. attempts /\ attempt[e].token \in Tokens
      /\ attempt[e].pin \in 0 .. pairs
  <2>1. attempt[e].key \in 0 .. attempts /\ attempt[e].pin \in 0 .. pairs
    BY DEF TypeInv, EndpointTypes
  <2>2. attempt[e].key > 0 /\ attempt[e].token \in Tokens
    BY <1>s DEF TypeInv, OwnKeys
  <2>3. attempts \in Nat
    BY Grounded DEF Ground
  <2>4. QED
    BY <2>1, <2>2, <2>3
<1>r. [pubkey |-> attempt[e].key, token |-> attempt[e].token] \in AgentRows
  BY <1>k DEF AgentRows
<1>a. /\ agents \in Seq(AgentRows) /\ agents' \in Seq(AgentRows) /\ Len(agents') = Len(agents) + 1
      /\ \A i \in DOMAIN agents : i \in DOMAIN agents' /\ agents'[i] = agents[i]
      /\ agents'[Len(agents) + 1].pubkey = attempt[e].key
      /\ DOMAIN agents' = DOMAIN agents \cup {Len(agents) + 1}
      /\ Len(agents) \in Nat
  <2>1. agents \in Seq(AgentRows)
    BY DEF TypeInv, TableTypes
  <2>2. QED
    BY <2>1, <1>r, <1>s
<1>1. ServerTypes'
  BY <1>0 DEF TypeInv, ServerTypes, tls
<1>2. Grown
  BY <1>0, <1>a, Grounded DEF Ground, Grown
<1>3. TableTypes'
  <2>1. \A u \in DOMAIN tokens' : tokens'[u] \in TokenRows
    BY ZenonT(60), <1>s DEF TypeInv, TableTypes, TokenRows
  <2>2. DOMAIN tokens' = DOMAIN tokens
    BY <1>s
  <2>3. agents' \in Seq(AgentRows')
    BY <1>0, <1>a DEF AgentRows
  <2>4. QED
    BY <1>0, <2>1, <2>2, <2>3 DEF TypeInv, TableTypes, TokenRows
<1>4. EndpointTypes'
  <2>1. attempt' \in [Endpoints -> Attempts']
    <3>1. attempt \in [Endpoints -> Attempts']
      BY <1>2, AttemptsKept DEF TypeInv
    <3>2. Len(agents) + 1 \in 0 .. Len(agents')
      BY <1>a
    <3>3. QED
      BY ZenonT(60), <3>1, <3>2, <1>s DEF Attempts
  <2>2. identity' \in [Endpoints -> Identities'] /\ keyfile' \in [Endpoints -> 0 .. attempts']
    BY <1>0, <1>2, FilesKept DEF TypeInv
  <2>3. loaded' \in [Endpoints -> Loads']
    BY <1>0, <1>2, LoadsKept DEF TypeInv
  <2>4. settled' \in [Endpoints -> BOOLEAN]
    BY <1>0, Zenon DEF TypeInv, EndpointTypes
  <2>5. step' \in [Endpoints -> {"idle", "asking", "answered", "identity", "written", "key"}]
    BY <1>s DEF TypeInv, EndpointTypes
  <2>6. attempts' \in 0 .. MaxAttempts /\ session' \in [Endpoints -> {"none", "pin mismatch", "rejected", "online"}]
    BY <1>0 DEF TypeInv, EndpointTypes
  <2>7. QED
    BY <2>1, <2>2, <2>3, <2>4, <2>5, <2>6 DEF EndpointTypes, Attempts, Identities, Loads
<1>5. OwnKeys'
  <2>1. \A d \in Endpoints : step'[d] = "asking" => d # e /\ step[d] = "asking"
    BY <1>s DEF TypeInv, EndpointTypes
  <2>2. \A d \in Endpoints : d # e => attempt'[d] = attempt[d]
    BY <1>s DEF TypeInv, EndpointTypes
  <2>3. \A d \in Endpoints : step'[d] = "asking" => attempt[d].key # attempt[e].key
    BY <2>1, <1>s DEF TypeInv, OwnKeys
  <2>4. \A i \in DOMAIN agents : agents[i].pubkey # attempt[e].key
    BY <1>s DEF TypeInv, OwnKeys
  <2>5. \A i, j \in DOMAIN agents' : agents'[i].pubkey = agents'[j].pubkey => i = j
    BY <1>a, <2>4 DEF TypeInv, OwnKeys
  <2>6. ASSUME NEW d \in Endpoints, step'[d] = "asking"
        PROVE  /\ attempt'[d].key > 0 /\ attempt'[d].token \in Tokens
               /\ \A i \in DOMAIN agents' : agents'[i].pubkey # attempt'[d].key
               /\ \A c \in Endpoints : step'[c] = "asking" /\ attempt'[c].key = attempt'[d].key => c = d
    <3>1. attempt'[d] = attempt[d] /\ step[d] = "asking" /\ attempt[d].key # attempt[e].key
      BY <2>1, <2>2, <2>3, <2>6
    <3>2. \A i \in DOMAIN agents' : agents'[i].pubkey # attempt[d].key
      BY <1>a, <3>1 DEF TypeInv, OwnKeys
    <3>3. QED
      BY <3>1, <3>2, <2>1, <2>2 DEF TypeInv, OwnKeys
  <2>7. QED
    BY <2>5, <2>6 DEF OwnKeys
<1>6. QED
  BY <1>1, <1>3, <1>4, <1>5 DEF TypeInv

(* The other steps of a command and of the forwarder are on the endpoint   *)
(* alone, and begin no attempt.                                            *)
Steps    == {"idle", "asking", "answered", "identity", "written", "key"}
Outcomes == {"none", "pin mismatch", "rejected", "online"}

LEMMA TypeLocal ==
  ASSUME TypeInv, UNCHANGED <<now, tls, tables, attempts, attempt>>,
         step' \in [Endpoints -> Steps],
         \A e \in Endpoints : step'[e] = "asking" => step[e] = "asking",
         identity' \in [Endpoints -> Identities], keyfile' \in [Endpoints -> 0 .. attempts],
         settled' \in [Endpoints -> BOOLEAN],
         loaded' \in [Endpoints -> Loads], session' \in [Endpoints -> Outcomes]
  PROVE  TypeInv'
<1>0. agents' = agents /\ pairs' = pairs /\ attempts' = attempts /\ attempt' = attempt
  BY DEF tables, tls
<1>1. ServerTypes'
  BY DEF TypeInv, ServerTypes, tls
<1>2. Grown
  BY <1>0, Grounded DEF Ground, Grown
<1>3. TableTypes'
  BY <1>2, TablesKept DEF TypeInv
<1>4. EndpointTypes'
  BY <1>0 DEF TypeInv, EndpointTypes, Steps, Outcomes, Identities, Loads
<1>5. OwnKeys'
  BY <1>0, OwnKeysKept DEF TypeInv
<1>6. QED
  BY <1>1, <1>3, <1>4, <1>5 DEF TypeInv

LEMMA Local ==
  ASSUME TypeInv
  PROVE  /\ step \in [Endpoints -> Steps] /\ attempt \in [Endpoints -> Attempts]
         /\ identity \in [Endpoints -> Identities] /\ keyfile \in [Endpoints -> 0 .. attempts]
         /\ loaded \in [Endpoints -> Loads] /\ session \in [Endpoints -> Outcomes]
BY DEF TypeInv, EndpointTypes, Steps, Outcomes, Attempts, Identities, Loads

LEMMA LocalSettled == TypeInv => settled \in [Endpoints -> BOOLEAN]
BY Zenon DEF TypeInv, EndpointTypes

LEMMA Nothing ==
  ASSUME Ground
  PROVE  NoIdentity \in Identities /\ NotLoaded \in Loads
BY DEF Ground, NoIdentity, NotLoaded, Identities, Loads

LEMMA TypeEnds ==
  ASSUME TypeInv, NEW e \in Endpoints, Reject(e) \/ EnrollFails(e)
  PROVE  TypeInv'
<1>1. /\ UNCHANGED <<now, tls, tables, attempts, attempt, files, forward>>
      /\ step' = [step EXCEPT ![e] = "idle"]
  BY DEF Reject, EnrollFails
<1>2. step' \in [Endpoints -> Steps] /\ \A d \in Endpoints : step'[d] = "asking" => step[d] = "asking"
  BY <1>1, Local DEF Steps
<1>3. QED
  BY <1>1, <1>2, Local, LocalSettled, TypeLocal DEF files, forward

LEMMA TypeOpenIdentity ==
  ASSUME TypeInv, NEW e \in Endpoints, OpenIdentity(e)
  PROVE  TypeInv'
<1>1. UNCHANGED <<now, tls, tables, attempts, attempt, keyfile, session>>
  BY DEF OpenIdentity
<1>2. step' \in [Endpoints -> Steps] /\ \A d \in Endpoints : step'[d] = "asking" => step[d] = "asking"
  BY Local DEF OpenIdentity, Steps
<1>3. identity' \in [Endpoints -> Identities]
  BY Local, Grounded, Nothing DEF OpenIdentity
<1>4. settled' \in [Endpoints -> BOOLEAN]
  <2>1. settled \in [Endpoints -> BOOLEAN] /\ settled' = [settled EXCEPT ![e] = FALSE]
    BY LocalSettled DEF OpenIdentity
  <2>2. QED
    BY <2>1
<1>5. loaded' \in [Endpoints -> Loads]
  <2>1. loaded[e] \in Loads
    BY Local
  <2>2. [loaded[e] EXCEPT !.settled = loaded[e].settled /\ loaded[e].key # 0] \in Loads
    BY <2>1 DEF Loads
  <2>3. loaded' = [loaded EXCEPT ![e] =
                     [loaded[e] EXCEPT !.settled = loaded[e].settled /\ loaded[e].key # 0]]
    BY Local DEF OpenIdentity
  <2>4. QED
    BY <2>2, <2>3, Local
<1>6. QED
  BY <1>1, <1>2, <1>3, <1>4, <1>5, Local, TypeLocal

LEMMA TypeWriteIdentity ==
  ASSUME TypeInv, NEW e \in Endpoints, WriteIdentity(e)
  PROVE  TypeInv'
<1>1. UNCHANGED <<now, tls, tables, attempts, attempt, keyfile, settled, forward>>
  BY DEF WriteIdentity
<1>2. step' \in [Endpoints -> Steps] /\ \A d \in Endpoints : step'[d] = "asking" => step[d] = "asking"
  BY Local DEF WriteIdentity, Steps
<1>3. identity' \in [Endpoints -> Identities]
  <2>1. [id |-> attempt[e].id, pin |-> attempt[e].pin] \in Identities
    BY Local DEF Attempts, Identities
  <2>2. QED
    BY <2>1, Local DEF WriteIdentity
<1>4. QED
  BY <1>1, <1>2, <1>3, Local, LocalSettled, TypeLocal DEF forward

LEMMA TypeOpenKey ==
  ASSUME TypeInv, NEW e \in Endpoints, OpenKey(e)
  PROVE  TypeInv'
<1>1. UNCHANGED <<now, tls, tables, attempts, attempt, identity, settled, forward>>
  BY DEF OpenKey
<1>2. step' \in [Endpoints -> Steps] /\ \A d \in Endpoints : step'[d] = "asking" => step[d] = "asking"
  BY Local DEF OpenKey, Steps
<1>3. keyfile' \in [Endpoints -> 0 .. attempts]
  BY Local, Grounded DEF OpenKey, Ground
<1>4. QED
  BY <1>1, <1>2, <1>3, Local, LocalSettled, TypeLocal DEF forward

LEMMA TypeWritePrivateKey ==
  ASSUME TypeInv, NEW e \in Endpoints, WritePrivateKey(e)
  PROVE  TypeInv'
<1>1. UNCHANGED <<now, tls, tables, attempts, attempt, identity, forward>>
  BY DEF WritePrivateKey
<1>2. step' \in [Endpoints -> Steps] /\ \A d \in Endpoints : step'[d] = "asking" => step[d] = "asking"
  BY Local DEF WritePrivateKey, Steps
<1>3. keyfile' \in [Endpoints -> 0 .. attempts]
  <2>1. attempt[e].key \in 0 .. attempts
    BY Local DEF Attempts
  <2>2. QED
    BY <2>1, Local DEF WritePrivateKey
<1>4. settled' \in [Endpoints -> BOOLEAN]
  <2>1. settled \in [Endpoints -> BOOLEAN] /\ settled' = [settled EXCEPT ![e] = TRUE]
    BY LocalSettled DEF WritePrivateKey
  <2>2. QED
    BY <2>1
<1>5. QED
  BY <1>1, <1>2, <1>3, <1>4, Local, TypeLocal DEF forward

(* The forwarder.                                                          *)
LEMMA TypeForward ==
  ASSUME TypeInv, UNCHANGED <<now, tls, tables, command, files>>,
         loaded' \in [Endpoints -> Loads], session' \in [Endpoints -> Outcomes]
  PROVE  TypeInv'
BY Local, LocalSettled, TypeLocal DEF command, files

LEMMA TypeReadIdentity ==
  ASSUME TypeInv, NEW e \in Endpoints, ReadIdentity(e)
  PROVE  TypeInv'
<1>1. [id |-> identity[e].id, pin |-> identity[e].pin, key |-> 0, settled |-> settled[e]] \in Loads
  <2>1. identity[e] \in Identities /\ settled[e] \in BOOLEAN
    BY Local, LocalSettled
  <2>2. 0 \in 0 .. attempts
    BY Grounded DEF Ground
  <2>3. QED
    BY <2>1, <2>2 DEF Identities, Loads
<1>2. loaded' \in [Endpoints -> Loads] /\ session' \in [Endpoints -> Outcomes]
  BY <1>1, Local DEF ReadIdentity
<1>3. QED
  BY <1>2, TypeForward DEF ReadIdentity

LEMMA TypeReadKey ==
  ASSUME TypeInv, NEW e \in Endpoints, ReadKey(e)
  PROVE  TypeInv'
<1>1. loaded[e] \in Loads /\ keyfile[e] \in 0 .. attempts
  BY Local
<1>2. [loaded[e] EXCEPT !.key = keyfile[e]] \in Loads
  BY <1>1 DEF Loads
<1>3. NotLoaded \in Loads
  BY Grounded, Nothing
<1>4. loaded' \in [Endpoints -> Loads] /\ session' \in [Endpoints -> Outcomes]
  <2>1. loaded' = [loaded EXCEPT ![e] = IF keyfile[e] = 0 THEN NotLoaded
                                        ELSE [loaded[e] EXCEPT !.key = keyfile[e]]]
    BY Local DEF ReadKey
  <2>2. QED
    BY <2>1, <1>2, <1>3, Local DEF ReadKey
<1>5. QED
  BY <1>4, TypeForward DEF ReadKey

LEMMA TypeAgentStops ==
  ASSUME TypeInv, NEW e \in Endpoints, AgentStops(e)
  PROVE  TypeInv'
<1>1. NotLoaded \in Loads
  BY Grounded, Nothing
<1>2. loaded' \in [Endpoints -> Loads] /\ session' \in [Endpoints -> Outcomes]
  BY <1>1, Local DEF AgentStops, Outcomes
<1>3. QED
  BY <1>2, TypeForward DEF AgentStops

(* What a handshake comes to.                                              *)
Outcome(i) ==
  IF i.pin # pin THEN "pin mismatch"
  ELSE IF i.id \in DOMAIN agents /\ agents[i.id].pubkey = i.key /\ crt = pin
       THEN "online" ELSE "rejected"

LEMMA HandshakeOutcome ==
  ASSUME NEW e \in Endpoints, Handshake(e)
  PROVE  session' = [session EXCEPT ![e] = Outcome(loaded[e])]
<1>1. PinVerified(loaded[e]) <=> loaded[e].pin = pin
  BY DEF PinVerified
<1>2. Known(loaded[e]) <=>
        loaded[e].id \in DOMAIN agents /\ agents[loaded[e].id].pubkey = loaded[e].key
  BY DEF Known
<1>3. Known(loaded[e]) => (VerifyChallenge(loaded[e], Signed(loaded[e])) <=> crt = pin)
  BY DEF Known, VerifyChallenge, Signed
<1>4. QED
  BY <1>1, <1>2, <1>3 DEF Handshake, Outcome

LEMMA TypeHandshake ==
  ASSUME TypeInv, NEW e \in Endpoints, Handshake(e)
  PROVE  TypeInv'
<1>1. Outcome(loaded[e]) \in Outcomes
  BY DEF Outcome, Outcomes
<1>2. session' \in [Endpoints -> Outcomes]
  BY <1>1, HandshakeOutcome, Local
<1>3. loaded' \in [Endpoints -> Loads]
  BY Local DEF Handshake
<1>4. QED
  BY <1>2, <1>3, TypeForward DEF Handshake

LEMMA TypeInit == Init => TypeInv
<1> SUFFICES ASSUME Init PROVE TypeInv
  OBVIOUS
<1>n. 0 \in 0 .. MaxTime /\ 0 \in 0 .. MaxBoots /\ 0 \in 0 .. MaxAttempts
  BY EnrollmentAssumption
<1>0. agents = <<>> /\ Len(agents) = 0 /\ pairs = 0 /\ attempts = 0 /\ boots = 0
      /\ tokens = <<>> /\ handed = <<>> /\ revoked = {}
  BY DEF Init
<1>d. DOMAIN tokens = {} /\ DOMAIN handed = {} /\ DOMAIN agents = {}
  BY <1>0
<1>1. ServerTypes
  BY <1>n DEF Init, ServerTypes
<1>2. TableTypes
  <2>1. agents \in Seq(AgentRows)
    BY <1>0
  <2>2. QED
    BY <1>0, <1>d, <2>1 DEF TableTypes
<1>3. EndpointTypes
  <2>1. settled \in [Endpoints -> BOOLEAN]
    BY DEF Init
  <2>2. step \in [Endpoints -> Steps] /\ session \in [Endpoints -> Outcomes]
    BY DEF Init, Steps, Outcomes
  <2>3. NoAttempt \in Attempts /\ NoIdentity \in Identities /\ NotLoaded \in Loads
    BY <1>0 DEF NoAttempt, NoIdentity, NotLoaded, Attempts, Identities, Loads
  <2>4. /\ attempt \in [Endpoints -> Attempts] /\ identity \in [Endpoints -> Identities]
        /\ loaded \in [Endpoints -> Loads] /\ keyfile \in [Endpoints -> 0 .. attempts]
    BY <1>0, <2>3 DEF Init
  <2>5. QED
    BY <1>n, <1>0, <2>1, <2>2, <2>4
    DEF EndpointTypes, Steps, Outcomes, Attempts, Identities, Loads
<1>4. OwnKeys
  <2>1. \A e \in Endpoints : step[e] # "asking"
    BY DEF Init
  <2>2. QED
    BY <1>d, <2>1 DEF OwnKeys
<1>5. QED
  BY <1>1, <1>2, <1>3, <1>4 DEF TypeInv

LEMMA TypeStutter ==
  ASSUME TypeInv, UNCHANGED vars
  PROVE  TypeInv'
BY Local, LocalSettled, TypeLocal DEF vars, command, files, forward

LEMMA TypeStep == TypeInv /\ [Next]_vars => TypeInv'
<1> SUFFICES ASSUME TypeInv, [Next]_vars PROVE TypeInv'
  OBVIOUS
<1>1. CASE WriteCert \/ WriteKey \/ LoadCert \/ SetClock
  BY <1>1, TypeServer
<1>2. CASE StopServer
  BY <1>2, TypeStopServer
<1>3. CASE \E t \in Tokens : CreateToken(t) \/ RevokeToken(t)
  BY <1>3, TypeTokens
<1>4. CASE \E e \in Endpoints : \E t \in Tokens : SendEnrollRequest(e, t)
  BY <1>4, TypeSend
<1>5. CASE \E e \in Endpoints : Enroll(e) \/ Reject(e) \/ EnrollFails(e)
  BY <1>5, TypeEnroll, TypeEnds
<1>6. CASE \E e \in Endpoints : OpenIdentity(e) \/ WriteIdentity(e) \/ OpenKey(e) \/ WritePrivateKey(e)
  BY <1>6, TypeOpenIdentity, TypeWriteIdentity, TypeOpenKey, TypeWritePrivateKey
<1>7. CASE \E e \in Endpoints : ReadIdentity(e) \/ ReadKey(e) \/ AgentStops(e) \/ Handshake(e)
  BY <1>7, TypeReadIdentity, TypeReadKey, TypeAgentStops, TypeHandshake
<1>8. CASE UNCHANGED vars
  BY <1>8, TypeStutter
<1>9. QED
  BY <1>1, <1>2, <1>3, <1>4, <1>5, <1>6, <1>7, <1>8 DEF Next

(* Every variable has its type, and no two agents have one key: every      *)
(* attempt makes its own, and an attempt that was answered asks no more.   *)
THEOREM TypeCorrect == Spec => []TypeOK
<1>1. TypeInv => TypeOK
  <2> SUFFICES ASSUME TypeInv PROVE TypeOK
    OBVIOUS
  <2>1. {crt, key, pin} \subseteq 0 .. pairs
    BY DEF TypeInv, ServerTypes
  <2>2. QED
    BY <2>1, Zenon DEF TypeOK, TypeInv, ServerTypes, TableTypes, EndpointTypes, OwnKeys, TokenRows, AgentRows
<1>2. QED
  BY <1>1, TypeInit, TypeStep, PTL DEF Spec

-----------------------------------------------------------------------------
(* What became of token t, if fleet are the agents, rows the tokens and    *)
(* gone the revoked ones.                                                  *)
Fate(t, rows, gone, fleet) ==
  LET holders == {i \in DOMAIN fleet : fleet[i].token = t} IN
    \/ t \in DOMAIN rows /\ t \notin gone /\ ~rows[t].used /\ holders = {}
    \/ t \in DOMAIN rows /\ t \notin gone /\ rows[t].used /\ Cardinality(holders) = 1
    \/ t \notin DOMAIN rows /\ t \in gone /\ holders = {}

LEMMA OneFateIs ==
  /\ OneFate <=> \A t \in DOMAIN handed : Fate(t, tokens, revoked, agents)
  /\ OneFate' <=> \A t \in DOMAIN handed' : Fate(t, tokens', revoked', agents')
<1>1. OneFate <=> \A t \in DOMAIN handed : Fate(t, tokens, revoked, agents)
  BY DEF OneFate, Fate, AgentsOf
<1>2. OneFate' <=> \A t \in DOMAIN handed' : Fate(t, tokens', revoked', agents')
  BY DEF OneFate, Fate, AgentsOf
<1>3. QED
  BY <1>1, <1>2

LEMMA FateKept ==
  ASSUME FateInv, UNCHANGED tables
  PROVE  Minted' /\ OneFate'
BY ZenonT(60) DEF FateInv, Minted, OneFate, AgentsOf, tables

LEMMA FateCreate ==
  ASSUME FateInv, NEW t \in Tokens, CreateToken(t)
  PROVE  Minted' /\ OneFate'
<1>0. /\ tokens' = [u \in DOMAIN tokens \cup {t} |->
                      IF u = t THEN [created |-> now, used |-> FALSE] ELSE tokens[u]]
      /\ handed' = [u \in DOMAIN handed \cup {t} |-> IF u = t THEN pin ELSE handed[u]]
      /\ agents' = agents /\ revoked' = revoked /\ t \notin DOMAIN handed
  BY DEF CreateToken
<1>d. DOMAIN handed' = DOMAIN handed \cup {t} /\ DOMAIN tokens' = DOMAIN tokens \cup {t}
  BY <1>0
<1>1. Minted'
  BY <1>0, <1>d DEF FateInv, Minted
<1>2. Fate(t, tokens', revoked', agents')
  <2>1. {i \in DOMAIN agents : agents[i].token = t} = {} /\ t \notin revoked
    BY <1>0 DEF FateInv, Minted
  <2>2. ~ tokens'[t].used
    BY <1>0
  <2>3. QED
    BY <2>1, <2>2, <1>0, <1>d DEF Fate
<1>3. ASSUME NEW u \in DOMAIN handed PROVE Fate(u, tokens', revoked', agents')
  <2>1. Fate(u, tokens, revoked, agents) /\ u # t
    BY <1>0, OneFateIs DEF FateInv
  <2>2. (u \in DOMAIN tokens' <=> u \in DOMAIN tokens) /\ (u \in DOMAIN tokens => tokens'[u] = tokens[u])
    BY <2>1, <1>0
  <2>3. QED
    BY <2>1, <2>2, <1>0 DEF Fate
<1>4. QED
  BY <1>1, <1>2, <1>3, <1>d, OneFateIs

LEMMA FateRevoke ==
  ASSUME FateInv, NEW t \in Tokens, RevokeToken(t)
  PROVE  Minted' /\ OneFate'
<1>0. /\ tokens' = [u \in DOMAIN tokens \ {t} |-> tokens[u]] /\ revoked' = revoked \cup {t}
      /\ agents' = agents /\ handed' = handed /\ t \in DOMAIN tokens /\ ~tokens[t].used
  BY DEF RevokeToken, Revocable, Restrict
<1>d. DOMAIN tokens' = DOMAIN tokens \ {t} /\ t \in DOMAIN handed
  BY <1>0 DEF FateInv, Minted
<1>1. Minted'
  BY <1>0, <1>d DEF FateInv, Minted
<1>2. Fate(t, tokens', revoked', agents')
  <2>1. Fate(t, tokens, revoked, agents)
    BY <1>d, OneFateIs DEF FateInv
  <2>2. {i \in DOMAIN agents : agents[i].token = t} = {}
    BY <2>1, <1>0 DEF Fate
  <2>3. QED
    BY <2>2, <1>0, <1>d DEF Fate
<1>3. ASSUME NEW u \in DOMAIN handed, u # t PROVE Fate(u, tokens', revoked', agents')
  <2>1. Fate(u, tokens, revoked, agents)
    BY OneFateIs DEF FateInv
  <2>2. /\ u \in DOMAIN tokens' <=> u \in DOMAIN tokens
        /\ u \in DOMAIN tokens => tokens'[u] = tokens[u]
        /\ u \in revoked' <=> u \in revoked
    BY <1>3, <1>0
  <2>3. QED
    BY <2>1, <2>2, <1>0 DEF Fate
<1>4. QED
  BY <1>0, <1>1, <1>2, <1>3, OneFateIs

LEMMA FateEnroll ==
  ASSUME FateInv, NEW e \in Endpoints, Enroll(e)
  PROVE  Minted' /\ OneFate'
<1> DEFINE t   == attempt[e].token
           row == [pubkey |-> attempt[e].key, token |-> t]
           top == Len(agents) + 1
<1>0. /\ t \in DOMAIN tokens /\ ~tokens[t].used
      /\ tokens' = [tokens EXCEPT ![t].used = TRUE]
      /\ agents' = Append(agents, row) /\ handed' = handed /\ revoked' = revoked
  BY DEF Enroll, Enrolls, Burned
<1>a. /\ agents \in Seq(AgentRows) /\ Len(agents) \in Nat
      /\ \A u \in DOMAIN tokens : tokens[u] \in TokenRows
  BY DEF FateInv, TypeInv, TableTypes
<1>t. t \in DOMAIN handed
  BY <1>0 DEF FateInv, Minted
<1>r. row.token = t
  OBVIOUS
<1>d. DOMAIN tokens' = DOMAIN tokens
  BY <1>0
<1>u. tokens'[t].used /\ \A u \in DOMAIN tokens : u # t => tokens'[u] = tokens[u]
  <2>1. tokens'[t] = [tokens[t] EXCEPT !.used = TRUE]
    BY <1>0
  <2>2. tokens[t] \in TokenRows
    BY <1>0, <1>a
  <2>3. QED
    BY <1>0, <2>1, <2>2 DEF TokenRows
<1> HIDE DEF row, t
<1>b. /\ DOMAIN agents' = DOMAIN agents \cup {top} /\ agents'[top] = row
      /\ \A i \in DOMAIN agents : agents'[i] = agents[i]
      /\ top \notin DOMAIN agents
  <2>1. DOMAIN agents = 1 .. Len(agents)
    BY <1>a
  <2>2. Len(agents') = top /\ DOMAIN agents' = 1 .. top
    BY <1>0, <1>a
  <2>3. QED
    BY <1>0, <1>a, <2>1, <2>2
<1>1. Minted'
  <2>1. \A i \in DOMAIN agents' : agents'[i].token \in DOMAIN handed
    BY <1>b, <1>r, <1>t DEF FateInv, Minted
  <2>2. QED
    BY <2>1, <1>0, <1>d DEF FateInv, Minted
<1> HIDE DEF top
<1>2. Fate(t, tokens', revoked', agents')
  <2>1. Fate(t, tokens, revoked, agents)
    BY <1>t, OneFateIs DEF FateInv
  <2>2. {i \in DOMAIN agents : agents[i].token = t} = {} /\ t \notin revoked
    BY <2>1, <1>0 DEF Fate
  <2>3. {i \in DOMAIN agents' : agents'[i].token = t} = {top}
    BY <2>2, <1>b, <1>r
  <2>4. Cardinality({top}) = 1
    BY FS_Singleton
  <2>5. QED
    BY <2>2, <2>3, <2>4, <1>0, <1>d, <1>u DEF Fate
<1>3. ASSUME NEW u \in DOMAIN handed, u # t PROVE Fate(u, tokens', revoked', agents')
  <2>1. Fate(u, tokens, revoked, agents)
    BY OneFateIs DEF FateInv
  <2>2. {i \in DOMAIN agents' : agents'[i].token = u} = {i \in DOMAIN agents : agents[i].token = u}
    BY <1>3, <1>b, <1>r
  <2>3. u \in DOMAIN tokens => tokens'[u] = tokens[u]
    BY <1>3, <1>u
  <2>4. QED
    BY <2>1, <2>2, <2>3, <1>0, <1>d DEF Fate
<1>4. QED
  BY <1>0, <1>1, <1>2, <1>3, OneFateIs

LEMMA FateStep == FateInv /\ [Next]_vars => FateInv'
<1> SUFFICES ASSUME FateInv, [Next]_vars PROVE Minted' /\ OneFate'
  BY TypeStep DEF FateInv
<1>1. CASE \E t \in Tokens : CreateToken(t) \/ RevokeToken(t)
  BY <1>1, FateCreate, FateRevoke
<1>2. CASE \E e \in Endpoints : Enroll(e)
  BY <1>2, FateEnroll
<1>3. CASE UNCHANGED tables
  BY <1>3, FateKept
<1>4. QED
  <2>1. CASE WriteCert \/ WriteKey \/ LoadCert \/ StopServer \/ SetClock \/ UNCHANGED vars
    BY <2>1, <1>3 DEF WriteCert, WriteKey, LoadCert, StopServer, SetClock, vars
  <2>2. ASSUME NEW e \in Endpoints,
               \/ \E t \in Tokens : SendEnrollRequest(e, t)
               \/ Reject(e) \/ EnrollFails(e)
               \/ OpenIdentity(e) \/ WriteIdentity(e) \/ OpenKey(e) \/ WritePrivateKey(e)
               \/ ReadIdentity(e) \/ ReadKey(e) \/ AgentStops(e) \/ Handshake(e)
        PROVE  UNCHANGED tables
    BY <2>2 DEF SendEnrollRequest, Reject, EnrollFails, OpenIdentity, WriteIdentity, OpenKey,
                WritePrivateKey, ReadIdentity, ReadKey, AgentStops, Handshake
  <2>3. QED
    BY <1>1, <1>2, <1>3, <2>1, <2>2 DEF Next

(* A token that was handed out is open, was burned for exactly one agent,  *)
(* or was revoked and is no agent's: enroll_txn checks it, burns it and    *)
(* writes the agent in one transaction, and only an unused token is        *)
(* revoked.                                                                *)
THEOREM TokenHasOneFate == Spec => []OneFate
<1>1. Init => FateInv
  <2> SUFFICES ASSUME Init PROVE FateInv
    OBVIOUS
  <2>1. DOMAIN handed = {} /\ DOMAIN tokens = {} /\ DOMAIN agents = {} /\ revoked = {}
    BY DEF Init
  <2>2. QED
    BY <2>1, TypeInit DEF FateInv, Minted, OneFate
<1>2. FateInv => OneFate
  BY DEF FateInv
<1>3. QED
  BY <1>1, <1>2, FateStep, PTL DEF Spec

-----------------------------------------------------------------------------
LEMMA PairKept ==
  ASSUME PinInv, UNCHANGED <<tls, handed>>
  PROVE  OnePair'
BY DEF PinInv, OnePair, tls

LEMMA PairStep == PinInv /\ [Next]_vars => PinInv'
<1> SUFFICES ASSUME PinInv, [Next]_vars PROVE OnePair'
  BY TypeStep DEF PinInv
<1>0. OnePair /\ pairs \in Nat /\ crt \in Nat /\ key \in Nat
  BY Numbers DEF PinInv, TypeInv
<1>1. CASE WriteCert
  <2>1. /\ crt' = pairs + 1 /\ pairs' = pairs + 1 /\ key' = key /\ handed' = handed
        /\ server' = "bootstrap" /\ (crt = 0 \/ key = 0)
    BY <1>1 DEF WriteCert, NextCert, tables
  <2>2. key = 0
    BY <1>0, <2>1 DEF OnePair
  <2>3. QED
    BY <1>0, <2>1, <2>2 DEF OnePair
<1>2. CASE WriteKey
  BY <1>0, <1>2 DEF WriteKey, tables, OnePair
<1>3. CASE LoadCert
  BY <1>0, <1>3 DEF LoadCert, tables, OnePair
<1>4. CASE StopServer
  BY <1>0, <1>4 DEF StopServer, tables, OnePair
<1>5. ASSUME NEW t \in Tokens, CreateToken(t) PROVE OnePair'
  <2>1. /\ handed' = [u \in DOMAIN handed \cup {t} |-> IF u = t THEN pin ELSE handed[u]]
        /\ UNCHANGED <<crt, key, server, pin, pairs>> /\ server = "up"
    BY <1>5 DEF CreateToken, tls
  <2>2. pin = key /\ key # 0
    BY <1>0, <2>1 DEF OnePair
  <2>3. \A u \in DOMAIN handed' : handed'[u] = key
    BY <1>0, <2>1, <2>2 DEF OnePair
  <2>4. QED
    BY <1>0, <2>1, <2>2, <2>3 DEF OnePair
<1>6. CASE SetClock \/ (\E t \in Tokens : RevokeToken(t)) \/ UNCHANGED vars
  BY <1>6, PairKept DEF SetClock, RevokeToken, vars, tables
<1>7. ASSUME NEW e \in Endpoints,
             \/ \E t \in Tokens : SendEnrollRequest(e, t)
             \/ Enroll(e) \/ Reject(e) \/ EnrollFails(e)
             \/ OpenIdentity(e) \/ WriteIdentity(e) \/ OpenKey(e) \/ WritePrivateKey(e)
             \/ ReadIdentity(e) \/ ReadKey(e) \/ AgentStops(e) \/ Handshake(e)
      PROVE  OnePair'
  <2>1. UNCHANGED <<tls, handed>>
    BY <1>7 DEF SendEnrollRequest, Enroll, Reject, EnrollFails, OpenIdentity, WriteIdentity, OpenKey,
                WritePrivateKey, ReadIdentity, ReadKey, AgentStops, Handshake, tables
  <2>2. QED
    BY <2>1, PairKept
<1>8. QED
  BY <1>1, <1>2, <1>3, <1>4, <1>5, <1>6, <1>7 DEF Next

(* Whatever crashed while the certificate and its key were being written,  *)
(* a server that is up serves the certificate whose fingerprint went out   *)
(* with every token, and has its key.                                      *)
THEOREM PinIsKept == Spec => []PinKept
<1>1. Init => PinInv
  <2> SUFFICES ASSUME Init PROVE OnePair
    BY TypeInit DEF PinInv
  <2>1. DOMAIN handed = {} /\ key = 0 /\ server = "down"
    BY DEF Init
  <2>2. QED
    BY <2>1 DEF OnePair
<1>2. PinInv => PinKept
  BY DEF PinInv, OnePair, PinKept
<1>3. QED
  BY <1>1, <1>2, PairStep, PTL DEF Spec

-----------------------------------------------------------------------------
(* Agents stay, and so does a pair that is complete.                       *)
Grows ==
  /\ key # 0 => key' = key
  /\ \A i \in DOMAIN agents : i \in DOMAIN agents' /\ agents'[i] = agents[i]

LEMMA Growth ==
  ASSUME PinInv, [Next]_vars
  PROVE  Grows
<1>1. CASE UNCHANGED <<key, agents>>
  BY <1>1 DEF Grows
<1>2. CASE WriteKey
  BY <1>2 DEF WriteKey, tables, Grows, PinInv, OnePair
<1>3. ASSUME NEW e \in Endpoints, Enroll(e) PROVE Grows
  <2>1. /\ agents' = Append(agents, [pubkey |-> attempt[e].key, token |-> attempt[e].token])
        /\ key' = key
    BY <1>3 DEF Enroll, tls
  <2>2. agents \in Seq(AgentRows)
    BY DEF PinInv, TypeInv, TableTypes
  <2>3. QED
    BY <2>1, <2>2 DEF Grows
<1>4. CASE WriteCert \/ LoadCert \/ StopServer \/ SetClock \/ UNCHANGED vars
  BY <1>4, <1>1 DEF WriteCert, LoadCert, StopServer, SetClock, vars, tls, tables
<1>5. CASE \E t \in Tokens : CreateToken(t) \/ RevokeToken(t)
  BY <1>5, <1>1 DEF CreateToken, RevokeToken, tls
<1>6. ASSUME NEW e \in Endpoints,
             \/ \E t \in Tokens : SendEnrollRequest(e, t)
             \/ Reject(e) \/ EnrollFails(e)
             \/ OpenIdentity(e) \/ WriteIdentity(e) \/ OpenKey(e) \/ WritePrivateKey(e)
             \/ ReadIdentity(e) \/ ReadKey(e) \/ AgentStops(e) \/ Handshake(e)
      PROVE  Grows
  <2>1. UNCHANGED <<tls, tables>>
    BY <1>6 DEF SendEnrollRequest, Reject, EnrollFails, OpenIdentity, WriteIdentity, OpenKey,
                WritePrivateKey, ReadIdentity, ReadKey, AgentStops, Handshake
  <2>2. QED
    BY <2>1, <1>1 DEF tls, tables
<1>7. QED
  BY <1>2, <1>3, <1>4, <1>5, <1>6 DEF Next

LEMMA ServedStays ==
  ASSUME Grows, NEW id, NEW fingerprint, NEW pubkey,
         Served(id, fingerprint, pubkey, agents, key)
  PROVE  Served(id, fingerprint, pubkey, agents', key')
BY DEF Grows, Served

LEMMA AskedStays ==
  ASSUME Grows, NEW s, NEW a, AskedAt(s, a, agents, key)
  PROVE  AskedAt(s, a, agents', key')
<1>1. key # 0 => key' = key
  BY DEF Grows
<1>2. QED
  BY <1>1, ServedStays DEF AskedAt

LEMMA FiledStays ==
  ASSUME Grows, NEW s, NEW a, NEW i, NEW k, NEW done \in BOOLEAN,
         FiledAt(s, a, i, k, done, agents, key)
  PROVE  FiledAt(s, a, i, k, done, agents', key')
BY ServedStays DEF FiledAt

LEMMA LoadedStays ==
  ASSUME Grows, NEW l \in Loads, NEW outcome, NEW i, NEW done \in BOOLEAN,
         LoadedAt(l, outcome, i, done, agents, key)
  PROVE  LoadedAt(l, outcome, i, done, agents', key')
BY ServedStays DEF LoadedAt

(* What is asked of one endpoint.                                          *)
Sound(s, a, i, k, done, l, outcome, fleet, pair) ==
  /\ AskedAt(s, a, fleet, pair) /\ FiledAt(s, a, i, k, done, fleet, pair)
  /\ LoadedAt(l, outcome, i, done, fleet, pair)

Before(e) == Sound(step[e], attempt[e], identity[e], keyfile[e], settled[e], loaded[e],
                   session[e], agents, key)
Still(e)  == Sound(step[e], attempt[e], identity[e], keyfile[e], settled[e], loaded[e],
                   session[e], agents', key')
After(e)  == Sound(step'[e], attempt'[e], identity'[e], keyfile'[e], settled'[e], loaded'[e],
                   session'[e], agents', key')

LEMMA ServedIs ==
  /\ ServedInv <=> PinInv /\ \A e \in Endpoints : Before(e)
  /\ ServedInv' <=> PinInv' /\ \A e \in Endpoints : After(e)
<1>1. ServedInv <=> PinInv /\ \A e \in Endpoints : Before(e)
  BY DEF ServedInv, Asked, Filed, Loaded, Before, Sound
<1>2. ServedInv' <=> PinInv' /\ \A e \in Endpoints : After(e)
  BY DEF ServedInv, Asked, Filed, Loaded, After, Sound
<1>3. QED
  BY <1>1, <1>2

LEMMA StillSound ==
  ASSUME ServedInv, Grows, NEW e \in Endpoints
  PROVE  Still(e)
<1>1. Before(e) /\ loaded[e] \in Loads
  BY ServedIs, Local DEF ServedInv, PinInv
<1>2. settled[e] \in BOOLEAN
  BY LocalSettled DEF ServedInv, PinInv
<1>3. QED
  BY <1>1, <1>2, AskedStays, FiledStays, LoadedStays DEF Before, Still, Sound

(* Endpoints a step does not touch.                                        *)
LEMMA Elsewhere ==
  ASSUME ServedInv, Grows, NEW e \in Endpoints, step'[e] = step[e], attempt'[e] = attempt[e],
         identity'[e] = identity[e], keyfile'[e] = keyfile[e], settled'[e] = settled[e],
         loaded'[e] = loaded[e], session'[e] = session[e]
  PROVE  After(e)
BY StillSound DEF Still, After

LEMMA SoundUntouched ==
  ASSUME ServedInv, Grows, UNCHANGED <<command, files, forward>>
  PROVE  \A e \in Endpoints : After(e)
BY Elsewhere DEF command, files, forward

LEMMA SoundStop ==
  ASSUME ServedInv, Grows, StopServer
  PROVE  \A e \in Endpoints : After(e)
<1> SUFFICES ASSUME NEW e \in Endpoints PROVE After(e)
  OBVIOUS
<1>1. /\ step'[e] = step[e] \/ step'[e] = "idle"
      /\ session'[e] = "none" /\ attempt' = attempt /\ identity' = identity
      /\ keyfile' = keyfile /\ settled' = settled /\ loaded' = loaded
  BY DEF StopServer, files
<1>2. Still(e)
  BY StillSound
<1>3. AskedAt(step'[e], attempt'[e], agents', key')
  BY <1>1, <1>2 DEF Still, Sound, AskedAt
<1>4. FiledAt(step'[e], attempt'[e], identity'[e], keyfile'[e], settled'[e], agents', key')
  BY <1>1, <1>2 DEF Still, Sound, FiledAt
<1>5. LoadedAt(loaded'[e], session'[e], identity'[e], settled'[e], agents', key')
  BY <1>1, <1>2 DEF Still, Sound, LoadedAt
<1>6. QED
  BY <1>3, <1>4, <1>5 DEF After, Sound

(* A step of endpoint e.                                                   *)
LEMMA SoundHere ==
  ASSUME ServedInv, Grows, NEW e \in Endpoints, After(e),
         \A d \in Endpoints \ {e} :
           /\ step'[d] = step[d] /\ attempt'[d] = attempt[d] /\ identity'[d] = identity[d]
           /\ keyfile'[d] = keyfile[d] /\ settled'[d] = settled[d] /\ loaded'[d] = loaded[d]
           /\ session'[d] = session[d]
  PROVE  \A d \in Endpoints : After(d)
BY Elsewhere

LEMMA SoundSend ==
  ASSUME ServedInv, Grows, NEW e \in Endpoints, NEW t \in Tokens, SendEnrollRequest(e, t)
  PROVE  \A d \in Endpoints : After(d)
<1>0. /\ UNCHANGED <<files, forward>> /\ server = "up" /\ key' = key
      /\ attempt' = [attempt EXCEPT ![e] = [token |-> t, pin |-> pin, key |-> attempts + 1, id |-> 0]]
      /\ step' = [step EXCEPT ![e] = "asking"]
  BY DEF SendEnrollRequest, FreshKey, tls
<1>t. step \in [Endpoints -> Steps] /\ attempt \in [Endpoints -> Attempts]
  BY Local DEF ServedInv, PinInv
<1>1. step'[e] = "asking" /\ attempt'[e].pin = pin
  BY <1>0, <1>t
<1>2. pin = key /\ key # 0
  BY <1>0 DEF ServedInv, PinInv, OnePair
<1>3. Still(e)
  BY StillSound
<1>4. AskedAt(step'[e], attempt'[e], agents', key')
  BY <1>0, <1>1, <1>2 DEF AskedAt
<1>5. FiledAt(step'[e], attempt'[e], identity'[e], keyfile'[e], settled'[e], agents', key')
  BY <1>0, <1>1, <1>3 DEF Still, Sound, FiledAt, files
<1>6. After(e)
  BY <1>0, <1>3, <1>4, <1>5 DEF Still, After, Sound, files, forward
<1>7. QED
  BY <1>0, <1>t, <1>6, SoundHere DEF files, forward

LEMMA SoundEnroll ==
  ASSUME ServedInv, Grows, NEW e \in Endpoints, Enroll(e)
  PROVE  \A d \in Endpoints : After(d)
<1>0. /\ UNCHANGED <<files, forward>> /\ key' = key /\ step[e] = "asking"
      /\ agents' = Append(agents, [pubkey |-> attempt[e].key, token |-> attempt[e].token])
      /\ attempt' = [attempt EXCEPT ![e].id = Len(agents) + 1]
      /\ step' = [step EXCEPT ![e] = "answered"]
  BY DEF Enroll, tls
<1>t. step \in [Endpoints -> Steps] /\ attempt \in [Endpoints -> Attempts] /\ agents \in Seq(AgentRows)
  BY Local DEF ServedInv, PinInv, TypeInv, TableTypes
<1>1. /\ step'[e] = "answered" /\ attempt'[e].pin = attempt[e].pin
      /\ attempt'[e].key = attempt[e].key /\ attempt'[e].id = Len(agents) + 1
  BY <1>0, <1>t DEF Attempts
<1>2. attempt[e].pin = key /\ key # 0
  BY <1>0, ServedIs DEF Before, Sound, AskedAt
<1>3. attempt[e].key # 0
  <2>1. attempt[e].key > 0
    BY <1>0 DEF ServedInv, PinInv, TypeInv, OwnKeys
  <2>2. QED
    BY <2>1
<1>4. Len(agents) + 1 \in DOMAIN agents' /\ agents'[Len(agents) + 1].pubkey = attempt[e].key
  BY <1>0, <1>t
<1>5. Still(e)
  BY StillSound
<1>6. AskedAt(step'[e], attempt'[e], agents', key')
  BY <1>0, <1>1, <1>2, <1>3, <1>4 DEF AskedAt, Served
<1>7. FiledAt(step'[e], attempt'[e], identity'[e], keyfile'[e], settled'[e], agents', key')
  BY <1>0, <1>1, <1>5 DEF Still, Sound, FiledAt, files
<1>8. After(e)
  BY <1>0, <1>5, <1>6, <1>7 DEF Still, After, Sound, files, forward
<1>9. QED
  BY <1>0, <1>t, <1>8, SoundHere DEF files, forward

LEMMA SoundEnds ==
  ASSUME ServedInv, Grows, NEW e \in Endpoints, Reject(e) \/ EnrollFails(e)
  PROVE  \A d \in Endpoints : After(d)
<1>0. UNCHANGED <<attempt, files, forward>> /\ step' = [step EXCEPT ![e] = "idle"]
  BY DEF Reject, EnrollFails
<1>t. step \in [Endpoints -> Steps]
  BY Local DEF ServedInv, PinInv
<1>1. Still(e) /\ step'[e] = "idle"
  BY <1>0, <1>t, StillSound
<1>2. After(e)
  BY <1>0, <1>1 DEF Still, After, Sound, AskedAt, FiledAt, files, forward
<1>3. QED
  BY <1>0, <1>t, <1>2, SoundHere DEF files, forward

LEMMA SoundOpenIdentity ==
  ASSUME ServedInv, Grows, NEW e \in Endpoints, OpenIdentity(e)
  PROVE  \A d \in Endpoints : After(d)
<1>0. /\ step[e] = "answered" /\ step' = [step EXCEPT ![e] = "identity"]
      /\ identity' = [identity EXCEPT ![e] = NoIdentity]
      /\ settled' = [settled EXCEPT ![e] = FALSE]
      /\ UNCHANGED <<keyfile, session, attempt>>
  BY DEF OpenIdentity
<1>l. loaded' = [loaded EXCEPT ![e] =
                   [loaded[e] EXCEPT !.settled = loaded[e].settled /\ loaded[e].key # 0]]
  BY Local DEF OpenIdentity, ServedInv, PinInv
<1>t. /\ step \in [Endpoints -> Steps] /\ identity \in [Endpoints -> Identities]
      /\ loaded \in [Endpoints -> Loads]
  BY Local DEF ServedInv, PinInv
<1>s. settled \in [Endpoints -> BOOLEAN]
  BY LocalSettled DEF ServedInv, PinInv
<1>1. step'[e] = "identity" /\ ~settled'[e] /\ Still(e)
  BY <1>0, <1>t, <1>s, StillSound
<1>2. /\ loaded'[e].id = loaded[e].id /\ loaded'[e].pin = loaded[e].pin
      /\ loaded'[e].key = loaded[e].key
      /\ loaded'[e].settled => loaded[e].settled /\ loaded[e].key # 0
  <2>1. loaded'[e] = [loaded[e] EXCEPT !.settled = loaded[e].settled /\ loaded[e].key # 0]
    BY <1>l, <1>t
  <2>2. loaded[e] \in Loads
    BY <1>t
  <2>3. QED
    BY <2>1, <2>2 DEF Loads
<1>3. AskedAt(step'[e], attempt'[e], agents', key')
  BY <1>0, <1>1 DEF Still, Sound, AskedAt
<1>4. FiledAt(step'[e], attempt'[e], identity'[e], keyfile'[e], settled'[e], agents', key')
  BY <1>1 DEF FiledAt
<1>5. LoadedAt(loaded'[e], session'[e], identity'[e], settled'[e], agents', key')
  BY <1>0, <1>1, <1>2 DEF Still, Sound, LoadedAt
<1>6. After(e)
  BY <1>3, <1>4, <1>5 DEF After, Sound
<1>7. QED
  BY <1>0, <1>l, <1>t, <1>s, <1>6, SoundHere

LEMMA SoundWriteIdentity ==
  ASSUME ServedInv, Grows, NEW e \in Endpoints, WriteIdentity(e)
  PROVE  \A d \in Endpoints : After(d)
<1>0. /\ step[e] = "identity" /\ step' = [step EXCEPT ![e] = "written"]
      /\ identity' = [identity EXCEPT ![e] = [id |-> attempt[e].id, pin |-> attempt[e].pin]]
      /\ UNCHANGED <<keyfile, settled, attempt, forward>>
  BY DEF WriteIdentity
<1>t. step \in [Endpoints -> Steps] /\ identity \in [Endpoints -> Identities]
  BY Local DEF ServedInv, PinInv
<1>1. /\ step'[e] = "written" /\ identity'[e].id = attempt[e].id
      /\ identity'[e].pin = attempt[e].pin /\ Still(e)
  BY <1>0, <1>t, StillSound
<1>2. ~settled[e]
  BY <1>0, <1>1 DEF Still, Sound, FiledAt
<1>3. AskedAt(step'[e], attempt'[e], agents', key')
  BY <1>0, <1>1 DEF Still, Sound, AskedAt
<1>4. FiledAt(step'[e], attempt'[e], identity'[e], keyfile'[e], settled'[e], agents', key')
  BY <1>0, <1>1, <1>2 DEF FiledAt
<1>5. LoadedAt(loaded'[e], session'[e], identity'[e], settled'[e], agents', key')
  BY <1>0, <1>1, <1>2 DEF Still, Sound, LoadedAt, forward
<1>6. After(e)
  BY <1>3, <1>4, <1>5 DEF After, Sound
<1>7. QED
  BY <1>0, <1>t, <1>6, SoundHere DEF forward

LEMMA SoundOpenKey ==
  ASSUME ServedInv, Grows, NEW e \in Endpoints, OpenKey(e)
  PROVE  \A d \in Endpoints : After(d)
<1>0. /\ step[e] = "written" /\ step' = [step EXCEPT ![e] = "key"]
      /\ keyfile' = [keyfile EXCEPT ![e] = 0]
      /\ UNCHANGED <<identity, settled, attempt, forward>>
  BY DEF OpenKey
<1>t. step \in [Endpoints -> Steps] /\ keyfile \in [Endpoints -> 0 .. attempts]
  BY Local DEF ServedInv, PinInv
<1>1. step'[e] = "key" /\ Still(e)
  BY <1>0, <1>t, StillSound
<1>2. ~settled[e]
  BY <1>0, <1>1 DEF Still, Sound, FiledAt
<1>3. AskedAt(step'[e], attempt'[e], agents', key')
  BY <1>0, <1>1 DEF Still, Sound, AskedAt
<1>4. FiledAt(step'[e], attempt'[e], identity'[e], keyfile'[e], settled'[e], agents', key')
  BY <1>0, <1>1, <1>2 DEF Still, Sound, FiledAt
<1>5. LoadedAt(loaded'[e], session'[e], identity'[e], settled'[e], agents', key')
  BY <1>0, <1>1, <1>2 DEF Still, Sound, LoadedAt, forward
<1>6. After(e)
  BY <1>3, <1>4, <1>5 DEF After, Sound
<1>7. QED
  BY <1>0, <1>t, <1>6, SoundHere DEF forward

LEMMA SoundWritePrivateKey ==
  ASSUME ServedInv, Grows, NEW e \in Endpoints, WritePrivateKey(e)
  PROVE  \A d \in Endpoints : After(d)
<1>0. /\ step[e] = "key" /\ step' = [step EXCEPT ![e] = "idle"]
      /\ keyfile' = [keyfile EXCEPT ![e] = attempt[e].key]
      /\ settled' = [settled EXCEPT ![e] = TRUE]
      /\ UNCHANGED <<identity, attempt, forward>>
  BY DEF WritePrivateKey
<1>t. step \in [Endpoints -> Steps] /\ keyfile \in [Endpoints -> 0 .. attempts]
  BY Local DEF ServedInv, PinInv
<1>s. settled \in [Endpoints -> BOOLEAN]
  BY LocalSettled DEF ServedInv, PinInv
<1>1. step'[e] = "idle" /\ keyfile'[e] = attempt[e].key /\ Still(e)
  BY <1>0, <1>t, StillSound
<1>2. ~settled[e] /\ identity[e].id = attempt[e].id /\ identity[e].pin = attempt[e].pin
  BY <1>0, <1>1 DEF Still, Sound, FiledAt
<1>3. AskedAt(step'[e], attempt'[e], agents', key')
  BY <1>1 DEF AskedAt
<1>4. FiledAt(step'[e], attempt'[e], identity'[e], keyfile'[e], settled'[e], agents', key')
  BY <1>0, <1>1, <1>2 DEF Still, Sound, AskedAt, FiledAt
<1>5. LoadedAt(loaded'[e], session'[e], identity'[e], settled'[e], agents', key')
  BY <1>0, <1>1, <1>2 DEF Still, Sound, LoadedAt, forward
<1>6. After(e)
  BY <1>3, <1>4, <1>5 DEF After, Sound
<1>7. QED
  BY <1>0, <1>t, <1>s, <1>6, SoundHere DEF forward

(* The forwarder leaves the command and the files alone.                   *)
LEMMA SoundForward ==
  ASSUME ServedInv, Grows, NEW e \in Endpoints, UNCHANGED <<command, files>>,
         \A d \in Endpoints \ {e} : loaded'[d] = loaded[d] /\ session'[d] = session[d],
         LoadedAt(loaded'[e], session'[e], identity[e], settled[e], agents', key')
  PROVE  \A d \in Endpoints : After(d)
<1>1. After(e)
  BY StillSound DEF Still, After, Sound, command, files
<1>2. QED
  BY <1>1, SoundHere DEF command, files

LEMMA SoundReadIdentity ==
  ASSUME ServedInv, Grows, NEW e \in Endpoints, ReadIdentity(e)
  PROVE  \A d \in Endpoints : After(d)
<1>0. /\ loaded[e] = NotLoaded /\ UNCHANGED <<session, command, files>>
      /\ loaded' = [loaded EXCEPT ![e] = [id |-> identity[e].id, pin |-> identity[e].pin,
                                          key |-> 0, settled |-> settled[e]]]
  BY DEF ReadIdentity
<1>t. loaded \in [Endpoints -> Loads]
  BY Local DEF ServedInv, PinInv
<1>1. session[e] = "none"
  BY <1>0, StillSound DEF Still, Sound, LoadedAt, NotLoaded
<1>2. LoadedAt(loaded'[e], session'[e], identity[e], settled[e], agents', key')
  BY <1>0, <1>t, <1>1 DEF LoadedAt
<1>3. QED
  BY <1>0, <1>t, <1>2, SoundForward

LEMMA SoundReadKey ==
  ASSUME ServedInv, Grows, NEW e \in Endpoints, ReadKey(e)
  PROVE  \A d \in Endpoints : After(d)
<1>0. /\ loaded[e].key = 0 /\ UNCHANGED <<session, command, files>>
      /\ loaded' = [loaded EXCEPT ![e] = IF keyfile[e] = 0 THEN NotLoaded
                                         ELSE [@ EXCEPT !.key = keyfile[e]]]
  BY DEF ReadKey
<1>t. loaded \in [Endpoints -> Loads]
  BY Local DEF ServedInv, PinInv
<1>1. session[e] = "none" /\ Still(e)
  BY <1>0, StillSound DEF Still, Sound, LoadedAt
<1>2. LoadedAt(loaded'[e], session'[e], identity[e], settled[e], agents', key')
  <2>1. CASE keyfile[e] = 0
    BY <1>0, <1>t, <1>1, <2>1 DEF LoadedAt, NotLoaded
  <2>2. CASE keyfile[e] # 0
    <3>1. /\ loaded'[e].key = keyfile[e] /\ loaded'[e].id = loaded[e].id
          /\ loaded'[e].pin = loaded[e].pin /\ loaded'[e].settled = loaded[e].settled
      BY <1>0, <1>t, <2>2 DEF Loads
    <3>2. loaded[e].settled =>
            settled[e] /\ loaded[e].id = identity[e].id /\ loaded[e].pin = identity[e].pin
      BY <1>0, <1>1 DEF Still, Sound, LoadedAt
    <3>3. settled[e] => Served(identity[e].id, identity[e].pin, keyfile[e], agents', key')
      BY <1>1 DEF Still, Sound, FiledAt
    <3>4. QED
      BY <1>0, <1>1, <2>2, <3>1, <3>2, <3>3 DEF LoadedAt
  <2>3. QED
    BY <2>1, <2>2
<1>3. QED
  BY <1>0, <1>t, <1>2, SoundForward

LEMMA SoundAgentStops ==
  ASSUME ServedInv, Grows, NEW e \in Endpoints, AgentStops(e)
  PROVE  \A d \in Endpoints : After(d)
<1>0. /\ loaded' = [loaded EXCEPT ![e] = NotLoaded] /\ session' = [session EXCEPT ![e] = "none"]
      /\ UNCHANGED <<command, files>>
  BY DEF AgentStops
<1>t. loaded \in [Endpoints -> Loads] /\ session \in [Endpoints -> Outcomes]
  BY Local DEF ServedInv, PinInv
<1>1. LoadedAt(loaded'[e], session'[e], identity[e], settled[e], agents', key')
  BY <1>0, <1>t DEF LoadedAt, NotLoaded
<1>2. QED
  BY <1>0, <1>t, <1>1, SoundForward

LEMMA SoundHandshake ==
  ASSUME ServedInv, Grows, NEW e \in Endpoints, Handshake(e)
  PROVE  \A d \in Endpoints : After(d)
<1>0. /\ loaded[e].key # 0 /\ server = "up" /\ UNCHANGED <<loaded, command, files>>
      /\ session' = [session EXCEPT ![e] = Outcome(loaded[e])]
  BY HandshakeOutcome DEF Handshake
<1>t. session \in [Endpoints -> Outcomes]
  BY Local DEF ServedInv, PinInv
<1>1. pin = key /\ crt = key
  BY <1>0 DEF ServedInv, PinInv, OnePair
<1>2. loaded[e].settled => Served(loaded[e].id, loaded[e].pin, loaded[e].key, agents, key)
  BY <1>0, ServedIs DEF Before, Sound, LoadedAt
<1>3. loaded[e].settled => session'[e] = "online"
  BY <1>0, <1>t, <1>1, <1>2 DEF Served, Outcome
<1>4. LoadedAt(loaded'[e], session'[e], identity[e], settled[e], agents', key')
  BY <1>0, <1>3, StillSound DEF Still, Sound, LoadedAt
<1>5. QED
  BY <1>0, <1>t, <1>4, SoundForward

LEMMA ServedStep == ServedInv /\ [Next]_vars => ServedInv'
<1> SUFFICES ASSUME ServedInv, [Next]_vars PROVE \A e \in Endpoints : After(e)
  BY PairStep, ServedIs
<1>g. Grows
  BY Growth DEF ServedInv
<1>1. CASE WriteCert \/ WriteKey \/ LoadCert \/ SetClock \/ UNCHANGED vars
  BY <1>1, <1>g, SoundUntouched DEF WriteCert, WriteKey, LoadCert, SetClock, vars
<1>2. CASE StopServer
  BY <1>2, <1>g, SoundStop
<1>3. CASE \E t \in Tokens : CreateToken(t) \/ RevokeToken(t)
  BY <1>3, <1>g, SoundUntouched DEF CreateToken, RevokeToken
<1>4. CASE \E e \in Endpoints : \E t \in Tokens : SendEnrollRequest(e, t)
  BY <1>4, <1>g, SoundSend
<1>5. CASE \E e \in Endpoints : Enroll(e) \/ Reject(e) \/ EnrollFails(e)
  BY <1>5, <1>g, SoundEnroll, SoundEnds
<1>6. CASE \E e \in Endpoints : OpenIdentity(e) \/ WriteIdentity(e) \/ OpenKey(e) \/ WritePrivateKey(e)
  BY <1>6, <1>g, SoundOpenIdentity, SoundWriteIdentity, SoundOpenKey, SoundWritePrivateKey
<1>7. CASE \E e \in Endpoints : ReadIdentity(e) \/ ReadKey(e) \/ AgentStops(e) \/ Handshake(e)
  BY <1>7, <1>g, SoundReadIdentity, SoundReadKey, SoundAgentStops, SoundHandshake
<1>8. QED
  BY <1>1, <1>2, <1>3, <1>4, <1>5, <1>6, <1>7 DEF Next

(* An agent that loads the files of an enroll that reported success is     *)
(* never refused: the pair they pin stays the server's, and the id and the *)
(* key in them stay those of one row of AGENTS, whatever is killed,        *)
(* revoked, expired or enrolled in between.                                *)
THEOREM EnrolledStaysServed == Spec => []EnrolledIsServed
<1>1. Init => ServedInv
  <2> SUFFICES ASSUME Init PROVE ServedInv
    OBVIOUS
  <2>1. OnePair
    <3>1. DOMAIN handed = {} /\ key = 0 /\ server = "down"
      BY DEF Init
    <3>2. QED
      BY <3>1 DEF OnePair
  <2>2. ASSUME NEW e \in Endpoints PROVE Before(e)
    <3>1. step[e] = "idle" /\ session[e] = "none" /\ loaded[e] = NotLoaded
      BY DEF Init
    <3>2. ~settled[e]
      BY DEF Init
    <3>3. QED
      BY <3>1, <3>2 DEF Before, Sound, AskedAt, FiledAt, LoadedAt, NotLoaded
  <2>3. QED
    BY <2>1, <2>2, TypeInit, ServedIs DEF PinInv
<1>2. ServedInv => EnrolledIsServed
  BY DEF ServedInv, Loaded, LoadedAt, EnrolledIsServed
<1>3. QED
  BY <1>1, <1>2, ServedStep, PTL DEF Spec
=============================================================================

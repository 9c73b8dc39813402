---------------------------- MODULE ServerProofs ----------------------------
(* Theorems of the server's parts: of Sessions, for any number of          *)
(* connections and commands and any capacities; of Store, for any number   *)
(* of agents and events; and of Console, for any number of rows and        *)
(* alerts.                                                                 *)
EXTENDS Sessions, Store, Console, SequenceFacts, FiniteSetTheorems

-----------------------------------------------------------------------------
(***************************************************************************)
(* Sessions.                                                               *)
(***************************************************************************)
Frames == {"accepted", "refused"} \cup Commands

(* The part of TypeOK that the arguments below need.                       *)
Types ==
  /\ client \in [Conns -> {"none", "handshake", "online", "left"}]
  /\ server \in [Conns -> {"none", "tls", "auth", "accepted", "serving", "leaving", "ended"}]
  /\ wire \in [Conns -> Seq(Frames)]
  /\ router \in Conns \cup {None} /\ last \in Conns \cup {None}
  /\ writer \in [Conns -> {"off", "running", "stopped"}]
  /\ commands \in [Conns -> Seq(Commands)]
  /\ writing \in [Conns -> Seq(Commands)] /\ \A c \in Conns : Len(writing[c]) <= 1
  /\ request \in [Commands -> {"new", "found", "queued", "not_connected", "full"}]
  /\ target \in [Commands -> Conns \cup {None}]
  /\ \A k \in Commands : request[k] \in {"found", "queued"} => target[k] \in Conns

(* Updating a function at one point with a value of its type.              *)
LEMMA ExceptType ==
  ASSUME NEW D, NEW S, NEW f \in [D -> S], NEW d \in D, NEW v \in S
  PROVE  [f EXCEPT ![d] = v] \in [D -> S]
  OBVIOUS

LEMMA InitTypes == Init => Types
  BY SessionsAssumption DEF Init, Types, Frames

LEMMA NextTypes == Types /\ [Next]_vars => Types'
<1> SUFFICES ASSUME Types, [Next]_vars PROVE Types'
  OBVIOUS
<1> USE SessionsAssumption DEF Types
<1>1. ASSUME NEW c \in Conns, Connect(c) PROVE Types'
  BY <1>1 DEF Connect, channel, requests
<1>2. ASSUME NEW c \in Conns, ReadHello(c) PROVE Types'
  BY <1>2, TailRange DEF ReadHello, channel, requests
<1>3. ASSUME NEW c \in Conns, Leave(c) \/ Notice(c) PROVE Types'
  BY <1>3 DEF Leave, Notice, channel, requests
<1>4. ASSUME NEW c \in Conns, ReadCommand(c) PROVE Types'
  BY <1>4, TailRange DEF ReadCommand, channel, requests
<1>5. ASSUME NEW c \in Conns, Accept(c) \/ Refuse(c) PROVE Types'
  <2> DEFINE Sent(f) == [wire EXCEPT ![c] = Append(wire[c], f)]
  <2>1. ASSUME NEW f \in Frames PROVE Sent(f) \in [Conns -> Seq(Frames)]
    <3>1. Append(wire[c], f) \in Seq(Frames)
      OBVIOUS
    <3>2. QED
      BY <3>1, ExceptType
  <2>2. wire' \in {wire, Sent("accepted"), Sent("refused")}
    BY <1>5 DEF Accept, Refuse
  <2>3. "accepted" \in Frames /\ "refused" \in Frames
    BY DEF Frames
  <2>4. wire' \in [Conns -> Seq(Frames)]
    <3> HIDE DEF Sent
    <3>1. QED
      BY <2>1, <2>2, <2>3
  <2>5. QED
    BY <1>5, <2>4 DEF Accept, Refuse, channel, requests
<1>6. ASSUME NEW c \in Conns, Register(c) PROVE Types'
  BY <1>6 DEF Register, requests
<1>7. ASSUME NEW c \in Conns, Unregister(c) PROVE Types'
  BY <1>7 DEF Unregister, Unregistered, channel, requests
<1>8. ASSUME NEW c \in Conns, StopWriter(c) PROVE Types'
  BY SMTT(40), <1>8 DEF StopWriter, requests
<1>9. ASSUME NEW c \in Conns, WriterTakes(c) PROVE Types'
  <2>1. Head(commands[c]) \in Commands /\ Tail(commands[c]) \in Seq(Commands)
    BY <1>9, TailRange DEF WriterTakes
  <2>2. <<Head(commands[c])>> \in Seq(Commands) /\ Len(<<Head(commands[c])>>) = 1
    BY <2>1
  <2>3. QED
    BY SMTT(40), <1>9, <2>1, <2>2 DEF WriterTakes, ends, requests
<1>10. ASSUME NEW c \in Conns, WriterSends(c) PROVE Types'
  <2>1. writing[c] \in Seq(Frames)
    BY DEF Frames
  <2>2. wire[c] \o writing[c] \in Seq(Frames)
    BY <2>1
  <2>3. QED
    <3>1. wire' \in [Conns -> Seq(Frames)]
      BY Zenon, <1>10, <2>2, ExceptType DEF WriterSends
    <3>2. <<>> \in Seq(Commands) /\ Len(<<>>) = 0
      BY Zenon, EmptySeq
    <3>3. writing' \in [Conns -> Seq(Commands)] /\ \A d \in Conns : Len(writing'[d]) <= 1
      BY <1>10, <3>2 DEF WriterSends
    <3>4. QED
      BY Zenon, <1>10, <3>1, <3>3 DEF WriterSends, requests
<1>11. ASSUME NEW c \in Conns, WriterFails(c) PROVE Types'
  BY <1>11 DEF WriterFails, ends, requests
<1>12. ASSUME NEW k \in Commands, Lookup(k) PROVE Types'
  BY <1>12 DEF Lookup, ends, channel
<1>13. ASSUME NEW k \in Commands, TrySend(k) PROVE Types'
  <2>1. target[k] \in Conns /\ Append(commands[target[k]], k) \in Seq(Commands)
    BY <1>13 DEF TrySend
  <2>2. QED
    <3>2. /\ request' \in [Commands -> {"new", "found", "queued", "not_connected", "full"}]
          /\ \A j \in Commands : j # k => request'[j] = request[j]
      BY <1>13 DEF TrySend
    <3>3. commands' \in [Conns -> Seq(Commands)]
      <4>1. commands' = commands \/ commands' = [commands EXCEPT ![target[k]] = Append(commands[target[k]], k)]
        BY Zenon, <1>13 DEF TrySend
      <4>2. QED
        <5>1. commands \in [Conns -> Seq(Commands)]
          BY Zenon
        <5>2. [commands EXCEPT ![target[k]] = Append(commands[target[k]], k)] \in [Conns -> Seq(Commands)]
          <6> HIDE DEF Types
          <6>1. QED
            BY <2>1, <5>1, ExceptType
        <5>3. QED
          BY Zenon, <4>1, <5>1, <5>2
    <3>4. \A j \in Commands : request'[j] \in {"found", "queued"} => target[j] \in Conns
      BY Zenon, <2>1, <3>2
    <3>5. UNCHANGED <<ends, router, last, writer, writing, target>>
      BY Zenon, <1>13 DEF TrySend
    <3>6. QED
      BY Zenon, <3>2, <3>3, <3>4, <3>5 DEF ends
<1>14. ASSUME NEW c \in Conns, NEW k \in Commands, DispatchEnds(c, k) PROVE Types'
  BY <1>14 DEF DispatchEnds, ends, channel, requests
<1>15. ASSUME NEW c \in Conns, TlsAccept(c) \/ TlsFails(c) PROVE Types'
  BY <1>15 DEF TlsAccept, TlsFails, channel, requests
<1>16. CASE UNCHANGED vars
  BY <1>16 DEF vars, ends, channel, requests
<1>17. QED
  BY <1>1, <1>2, <1>3, <1>4, <1>5, <1>6, <1>7, <1>8, <1>9, <1>10, <1>11, <1>12, <1>13, <1>14,
     <1>15, <1>16 DEF Next, ServerTask, WriterTask

(***************************************************************************)
(* The router.                                                             *)
(***************************************************************************)
(* A connection that was not made has no task: registering and leaving     *)
(* happen once per connection.                                             *)
RouterInv ==
  /\ Types
  /\ \A c \in Conns : client[c] = "none" => server[c] = "none"
  /\ RouterHoldsLast

LEMMA NextRouterInv == RouterInv /\ [Next]_vars => RouterInv'
<1> SUFFICES ASSUME RouterInv, [Next]_vars PROVE RouterInv'
  OBVIOUS
<1> USE SessionsAssumption DEF RouterInv, RouterHoldsLast
<1>0. Types'
  BY NextTypes
<1> DEFINE Rest == (\A c \in Conns : client[c] = "none" => server[c] = "none") /\ RouterHoldsLast
<1>1. ASSUME NEW c \in Conns, Connect(c) PROVE Rest'
  <2>1. server[c] = "none" /\ server' \in [Conns -> {"none", "tls", "auth", "accepted",
                                                     "serving", "leaving", "ended"}]
    BY <1>0, <1>1 DEF Connect, Types
  <2>2. \A d \in Conns : server'[d] = "serving" <=> server[d] = "serving"
    BY <1>1, <2>1 DEF Connect, Types
  <2>3. \A d \in Conns \ {c} : client'[d] = client[d] /\ server'[d] = server[d]
    BY <1>1 DEF Connect, Types
  <2>4. client'[c] = "handshake" /\ router' = router /\ last' = last
    BY <1>1 DEF Connect, Types
  <2>5. QED
    BY ZenonT(60), <2>2, <2>3, <2>4 DEF Types
<1>2. ASSUME NEW c \in Conns, TlsAccept(c) \/ TlsFails(c) \/ Accept(c) \/ Refuse(c) PROVE Rest'
  <2>1. server[c] \in {"tls", "auth"} /\ server'[c] \in {"auth", "accepted", "ended"}
        /\ \A d \in Conns \ {c} : server'[d] = server[d]
    BY <1>2 DEF TlsAccept, TlsFails, Accept, Refuse, Types
  <2>2. client' = client /\ router' = router /\ last' = last
    BY <1>2 DEF TlsAccept, TlsFails, Accept, Refuse
  <2>3. QED
    BY <2>1, <2>2 DEF Types
<1>3. ASSUME NEW c \in Conns, Register(c) PROVE Rest'
  BY <1>3 DEF Register, Types
<1>4. ASSUME NEW c \in Conns, Unregister(c) PROVE Rest'
  BY <1>4 DEF Unregister, Unregistered, Types
<1>5. ASSUME NEW c \in Conns, StopWriter(c) PROVE Rest'
  BY <1>5 DEF StopWriter, Types
<1>6. ASSUME NEW c \in Conns, ReadHello(c) \/ Leave(c) PROVE Rest'
  <2>1. /\ client[c] \in {"handshake", "online"} /\ client'[c] \in {"online", "left"}
        /\ \A d \in Conns \ {c} : client'[d] = client[d]
    BY <1>6 DEF ReadHello, Leave, Types
  <2>2. server' = server /\ router' = router /\ last' = last
    BY Zenon, <1>6 DEF ReadHello, Leave
  <2>3. QED
    BY <2>1, <2>2 DEF Types
<1>7. ASSUME UNCHANGED <<client, server, router, last>> PROVE Rest'
  <2>1. client' = client /\ server' = server /\ router' = router /\ last' = last
    BY <1>7
  <2>2. QED
    BY <2>1
<1>8. ASSUME NEW c \in Conns, Notice(c) \/ ReadCommand(c) \/ WriterTask(c)
      PROVE  UNCHANGED <<client, server, router, last>>
  BY <1>8 DEF Notice, ReadCommand, WriterTask, WriterTakes, WriterSends, WriterFails, ends
<1>9. ASSUME NEW k \in Commands, Lookup(k) \/ TrySend(k)
      PROVE  UNCHANGED <<client, server, router, last>>
  BY <1>9 DEF Lookup, TrySend, ends
<1>10. ASSUME NEW c \in Conns, NEW k \in Commands, DispatchEnds(c, k)
       PROVE  UNCHANGED <<client, server, router, last>>
  BY <1>10 DEF DispatchEnds, ends
<1>11. UNCHANGED vars => UNCHANGED <<client, server, router, last>>
  BY DEF vars, ends
<1>12. Rest'
  BY <1>1, <1>2, <1>3, <1>4, <1>5, <1>6, <1>7, <1>8, <1>9, <1>10, <1>11 DEF Next, ServerTask
<1>13. QED
  BY <1>0, <1>12

(* However late the tasks of earlier connections register or end, the      *)
(* router holds the session registered last as long as it is served, and   *)
(* no session that is not.                                                 *)
THEOREM RouterIsExact == Spec => []RouterHoldsLast
<1>1. Init => RouterInv
  BY InitTypes, SessionsAssumption DEF RouterInv, RouterHoldsLast, Init
<1>2. RouterInv => RouterHoldsLast
  BY DEF RouterInv
<1>3. QED
  BY <1>1, <1>2, NextRouterInv, PTL DEF Spec

(***************************************************************************)
(* Commands.                                                               *)
(***************************************************************************)
(* What the agent reads first on a connection is the answer to its hello:  *)
(* were it a command, the handshake would swallow it.  A writer runs only  *)
(* while its session does, and is never started again.                     *)
HelloFirst(c) ==
  /\ server[c] \in {"none", "tls", "auth"} => wire[c] = <<>>
  /\ server[c] \in {"none", "tls", "auth", "accepted"} => writer[c] = "off"
  /\ writer[c] = "running" => server[c] \in {"serving", "leaving"}
  /\ client[c] = "none" => server[c] = "none"
  /\ client[c] = "handshake" /\ server[c] \in {"accepted", "serving", "leaving"} => wire[c] # <<>>
  /\ client[c] = "handshake" /\ wire[c] # <<>> => Head(wire[c]) \in {"accepted", "refused"}

HelloInv == Types /\ \A c \in Conns : HelloFirst(c)

LEMMA NextHelloInv == HelloInv /\ [Next]_vars => HelloInv'
<1> SUFFICES ASSUME HelloInv, [Next]_vars PROVE HelloInv'
  OBVIOUS
<1> USE DEF HelloInv
<1>0. Types'
  BY NextTypes
<1> SUFFICES ASSUME NEW d \in Conns PROVE HelloFirst(d)'
  BY <1>0
<1>a. Types /\ HelloFirst(d)
  OBVIOUS
<1>1. ASSUME NEW c \in Conns, Connect(c) PROVE HelloFirst(d)'
  BY <1>1, <1>a DEF Connect, channel, Types, HelloFirst
<1>2. ASSUME NEW c \in Conns, ReadHello(c) PROVE HelloFirst(d)'
  <2>1. c # d => client'[d] = client[d] /\ wire'[d] = wire[d]
    BY <1>2 DEF ReadHello, Types
  <2>2. c = d => client[d] = "handshake" /\ client'[d] \in {"online", "left"} /\ wire[d] # <<>>
    BY <1>2 DEF ReadHello, Types
  <2>3. server' = server /\ writer' = writer
    BY <1>2 DEF ReadHello, channel
  <2>4. QED
    BY <2>1, <2>2, <2>3, <1>a DEF HelloFirst
<1>3. ASSUME NEW c \in Conns, Leave(c) \/ Notice(c) PROVE HelloFirst(d)'
  BY <1>3, <1>a DEF Leave, Notice, channel, Types, HelloFirst
<1>4. ASSUME NEW c \in Conns, ReadCommand(c) PROVE HelloFirst(d)'
  <2>1. c # d => wire'[d] = wire[d]
    BY <1>4 DEF ReadCommand, Types
  <2>2. c = d => client[d] = "online" /\ wire[d] # <<>>
    BY <1>4 DEF ReadCommand
  <2>3. client' = client /\ server' = server /\ writer' = writer
    BY <1>4 DEF ReadCommand, channel
  <2>4. QED
    BY <2>1, <2>2, <2>3, <1>a DEF HelloFirst
<1>5. ASSUME NEW c \in Conns, Accept(c) \/ Refuse(c) PROVE HelloFirst(d)'
  <2>1. c # d => server'[d] = server[d] /\ wire'[d] = wire[d]
    BY <1>5 DEF Accept, Refuse, Types
  <2>2. client' = client /\ writer' = writer
    BY <1>5 DEF Accept, Refuse, channel
  <2>3. CASE c # d
    BY <2>1, <2>2, <2>3, <1>a DEF HelloFirst
  <2>4. CASE c = d
    <3>1. server[d] = "auth" /\ wire[d] = <<>> /\ writer[d] = "off" /\ client[d] # "none"
      BY <1>5, <2>4, <1>a DEF Accept, Refuse, HelloFirst
    <3>2. \/ server'[d] = "accepted" /\ wire'[d] = Append(<<>>, "accepted")
          \/ server'[d] = "ended" /\ wire'[d] \in {<<>>, Append(<<>>, "refused")}
      <4>1. Accept(d) => server'[d] = "accepted" /\ wire'[d] = Append(<<>>, "accepted")
        BY <3>1 DEF Accept, Types
      <4>2. Refuse(d) => server'[d] = "ended" /\ wire'[d] \in {<<>>, Append(<<>>, "refused")}
        BY <3>1 DEF Refuse, Types
      <4>3. QED
        BY <1>5, <2>4, <4>1, <4>2
    <3>3. \A f : Append(<<>>, f) # <<>> /\ Head(Append(<<>>, f)) = f
      OBVIOUS
    <3>4. QED
      BY <3>1, <3>2, <3>3, <2>2 DEF HelloFirst
  <2>5. QED
    BY <2>3, <2>4
<1>6. ASSUME NEW c \in Conns, Register(c) \/ Unregister(c) \/ StopWriter(c) PROVE HelloFirst(d)'
  BY <1>6, <1>a DEF Register, Unregister, StopWriter, channel, Types, HelloFirst
<1>7. ASSUME NEW c \in Conns, WriterSends(c) PROVE HelloFirst(d)'
  <2>1. client' = client /\ server' = server /\ writer' = writer
    BY <1>7 DEF WriterSends
  <2>2. c # d => wire'[d] = wire[d]
    BY <1>7 DEF WriterSends, Types
  <2>3. CASE c = d
    <3>1. wire'[d] = wire[d] \o writing[d] /\ writer[d] = "running"
      BY <1>7, <2>3 DEF WriterSends, Types
    <3>2. writing[d] \in Seq(Frames) /\ wire[d] \in Seq(Frames)
      BY SMTT(40) DEF Types, Frames
    <3>3. wire[d] # <<>> => wire'[d] # <<>> /\ Head(wire'[d]) = Head(wire[d])
      BY ZenonT(60), <3>1, <3>2, ConcatRange
    <3>4. QED
      BY <2>1, <3>1, <3>3, <1>a DEF HelloFirst
  <2>4. QED
    BY <2>1, <2>2, <2>3, <1>a DEF HelloFirst
<1>8. ASSUME NEW c \in Conns, WriterTakes(c) \/ WriterFails(c) PROVE HelloFirst(d)'
  BY <1>8, <1>a DEF WriterTakes, WriterFails, ends, Types, HelloFirst
<1>9. ASSUME NEW k \in Commands, Lookup(k) \/ TrySend(k) PROVE HelloFirst(d)'
  BY <1>9, <1>a DEF Lookup, TrySend, ends, channel, HelloFirst
<1>10. ASSUME NEW c \in Conns, NEW k \in Commands, DispatchEnds(c, k) PROVE HelloFirst(d)'
  BY <1>10, <1>a DEF DispatchEnds, ends, channel, HelloFirst
<1>11. ASSUME UNCHANGED vars PROVE HelloFirst(d)'
  BY <1>11, <1>a DEF vars, ends, channel, HelloFirst
<1>12. ASSUME NEW c \in Conns, TlsAccept(c) \/ TlsFails(c) PROVE HelloFirst(d)'
  BY SMTT(40), <1>12, <1>a DEF TlsAccept, TlsFails, channel, Types, HelloFirst
<1>13. QED
  BY <1>1, <1>2, <1>3, <1>4, <1>5, <1>6, <1>7, <1>8, <1>9, <1>10, <1>11, <1>12
     DEF Next, ServerTask, WriterTask

KeptInv == HelloInv /\ QueuedIsKept

(* Where one queued command is.                                            *)
Kept(k) == Unread(k, target[k]) \/ k \in got \cup dropped \/ writer[target[k]] = "stopped"

LEMMA NextKept ==
  ASSUME KeptInv, [Next]_vars, NEW k \in Commands, request'[k] = "queued"
  PROVE  Kept(k)'
<1> DEFINE t == target'[k]
<1>a. Types /\ Types' /\ \A c \in Conns : HelloFirst(c)
  BY NextTypes DEF KeptInv, HelloInv
<1>b. t \in Conns
  BY <1>a DEF Types
<1>c. wire[t] \in Seq(Frames) /\ commands[t] \in Seq(Commands) /\ writing[t] \in Seq(Commands)
  BY <1>a, <1>b DEF Types
<1>f. /\ DOMAIN wire = Conns /\ DOMAIN writer = Conns
      /\ DOMAIN commands = Conns /\ DOMAIN writing = Conns
      /\ DOMAIN request = Commands /\ DOMAIN target = Commands
  BY <1>a DEF Types
<1>d. request[k] = "queued" => Kept(k)
  BY DEF KeptInv, QueuedIsKept, Kept
(* Nothing that holds a command gives it up.                               *)
<1>e. ASSUME request[k] = "queued", target' = target,
             Range(commands[t]) \subseteq Range(commands'[t]),
             Range(writing[t]) \subseteq Range(writing'[t]),
             Range(wire[t]) \subseteq Range(wire'[t]),
             got \subseteq got', dropped \subseteq dropped',
             writer[t] = "stopped" => writer'[t] = "stopped"
      PROVE  Kept(k)'
  BY <1>d, <1>e DEF Kept, Unread
<1>1. ASSUME NEW c \in Conns, \/ Connect(c) \/ Leave(c) \/ Notice(c) \/ Unregister(c)
                              \/ TlsAccept(c) \/ TlsFails(c)
      PROVE  Kept(k)'
  BY <1>1, <1>e DEF Connect, Leave, Notice, Unregister, TlsAccept, TlsFails, channel, requests,
                    dispatch
<1>2. ASSUME NEW c \in Conns, ReadHello(c) PROVE Kept(k)'
  <2>1. UNCHANGED <<channel, requests, dispatch>>
    BY <1>2 DEF ReadHello
  <2>2. Range(wire[t]) \ {"accepted", "refused"} \subseteq Range(wire'[t])
    <3>1. CASE c = t
      <4>1. Head(wire[t]) \in {"accepted", "refused"} /\ wire[t] # <<>>
        BY <1>2, <3>1, <1>a DEF ReadHello, HelloFirst
      <4>2. wire'[t] = Tail(wire[t])
        BY <1>2, <3>1, <1>a DEF ReadHello, Types
      <4>3. QED
        BY <4>1, <4>2, <1>c, TailRange
    <3>2. CASE c # t
      BY <1>2, <3>2, <1>b, <1>a DEF ReadHello, Types
    <3>3. QED
      BY <3>1, <3>2
  <2>3. k \notin {"accepted", "refused"}
    BY SessionsAssumption
  <2>4. QED
    BY <2>1, <2>2, <2>3, <1>d DEF Kept, Unread, channel, requests, dispatch
<1>3. ASSUME NEW c \in Conns, ReadCommand(c) PROVE Kept(k)'
  <2>1. UNCHANGED <<channel, requests>>
    BY <1>3 DEF ReadCommand
  <2>2. Range(wire[t]) \subseteq Range(wire'[t]) \cup got' \cup dropped'
    <3>1. CASE c = t
      <4>1. wire[t] # <<>> /\ wire'[t] = Tail(wire[t]) /\ Head(wire[t]) \in got' \cup dropped'
        <5>1. wire[t] # <<>> /\ wire' = [wire EXCEPT ![t] = Tail(@)]
          BY Zenon, <1>3, <3>1 DEF ReadCommand
        <5>2. wire \in [Conns -> Seq(Frames)]
          BY Zenon, <1>a DEF Types
        <5>3. wire'[t] = Tail(wire[t])
          BY <5>1, <5>2, <1>b
        <5>4. Head(wire[t]) \in got' \cup dropped'
          BY Zenon, <1>3, <3>1 DEF ReadCommand
        <5>5. QED
          BY Zenon, <5>1, <5>3, <5>4
      <4>2. QED
        BY <4>1, <1>c, TailRange
    <3>2. CASE c # t
      BY <1>3, <3>2, <1>b, <1>a DEF ReadCommand, Types
    <3>3. QED
      BY <3>1, <3>2
  <2>3. got \subseteq got' /\ dropped \subseteq dropped'
    BY <1>3 DEF ReadCommand
  <2>4. QED
    BY <2>1, <2>2, <2>3, <1>d DEF Kept, Unread, channel, requests
<1>4. ASSUME NEW c \in Conns, Accept(c) \/ Refuse(c) PROVE Kept(k)'
  <2>1. UNCHANGED <<channel, requests, dispatch>>
    BY <1>4 DEF Accept, Refuse
  <2>2. wire'[t] \in {wire[t], Append(wire[t], "accepted"), Append(wire[t], "refused")}
    <3>1. Accept(c) => wire'[t] \in {wire[t], Append(wire[t], "accepted")}
      BY <1>a, <1>b DEF Accept, Types
    <3>2. Refuse(c) => wire'[t] \in {wire[t], Append(wire[t], "refused")}
      <4>1. wire \in [Conns -> Seq(Frames)]
        BY Zenon, <1>a DEF Types
      <4>2. QED
        BY <4>1, <1>b DEF Refuse
    <3>3. QED
      BY <1>4, <3>1, <3>2
  <2>3. Range(wire[t]) \subseteq Range(wire'[t])
    <3>1. "accepted" \in Frames /\ "refused" \in Frames
      BY DEF Frames
    <3>2. /\ Range(wire[t]) \subseteq Range(Append(wire[t], "accepted"))
          /\ Range(wire[t]) \subseteq Range(Append(wire[t], "refused"))
      BY <3>1, <1>c, AppendRange
    <3>3. QED
      BY <2>2, <3>2
  <2>4. QED
    BY <2>1, <2>3, <1>e DEF channel, requests, dispatch
<1>5. ASSUME NEW c \in Conns, Register(c) PROVE Kept(k)'
  <2>1. writer[c] = "off"
    BY <1>5, <1>a DEF Register, HelloFirst
  <2>2. QED
    BY <1>5, <2>1, <1>a, <1>b, <1>e DEF Register, requests, dispatch, Types
<1>6. ASSUME NEW c \in Conns, StopWriter(c) \/ WriterFails(c) PROVE Kept(k)'
  <2>1. UNCHANGED <<wire, requests, dispatch>>
    BY <1>6 DEF StopWriter, WriterFails, ends
  <2>2. c = t => writer'[t] = "stopped"
    BY <1>6, <1>f DEF StopWriter, WriterFails
  <2>3. c # t => /\ commands'[t] = commands[t] /\ writing'[t] = writing[t]
                 /\ writer'[t] = writer[t]
    <3>1. CASE StopWriter(c)
      BY <3>1, <1>f, <1>b DEF StopWriter
    <3>2. CASE WriterFails(c)
      BY <3>2, <1>f, <1>b DEF WriterFails
    <3>3. QED
      BY <1>6, <3>1, <3>2
  <2>4. QED
    BY <2>1, <2>2, <2>3, <1>d DEF Kept, Unread, requests, dispatch
<1>7. ASSUME NEW c \in Conns, WriterTakes(c) PROVE Kept(k)'
  <2>1. UNCHANGED <<wire, writer, requests, dispatch>>
    BY <1>7 DEF WriterTakes, ends
  <2>2. c # t => commands'[t] = commands[t] /\ writing'[t] = writing[t]
    BY <1>7, <1>f, <1>b DEF WriterTakes
  <2>3. c = t => /\ commands[t] # <<>> /\ writing[t] = <<>>
                 /\ commands'[t] = Tail(commands[t])
                 /\ writing'[t] = <<Head(commands[t])>>
    BY <1>7, <1>f, <1>b DEF WriterTakes
  <2>4. Range(<<>>) = {} /\ \A x : Range(<<x>>) = {x}
    BY DEF Range
  <2>5. Range(commands[t]) \cup Range(writing[t]) \subseteq Range(commands'[t]) \cup Range(writing'[t])
    <3>1. CASE c = t
      <4>1. Range(commands[t]) = {Head(commands[t])} \cup Range(Tail(commands[t]))
        BY <2>3, <3>1, <1>c, TailRange
      <4>2. QED
        BY <2>3, <3>1, <2>4, <4>1
    <3>2. CASE c # t
      BY <2>2, <3>2
    <3>3. QED
      BY <3>1, <3>2
  <2>6. QED
    BY <2>1, <2>5, <1>d DEF Kept, Unread, requests, dispatch
<1>8. ASSUME NEW c \in Conns, WriterSends(c) PROVE Kept(k)'
  <2>1. UNCHANGED <<writer, commands, requests, dispatch>>
    BY <1>8 DEF WriterSends
  <2>2. c # t => wire'[t] = wire[t] /\ writing'[t] = writing[t]
    BY <1>8, <1>f, <1>b DEF WriterSends
  <2>3. c = t => wire'[t] = wire[t] \o writing[t]
    BY <1>8, <1>f, <1>b DEF WriterSends
  <2>4. writing[t] \in Seq(Frames)
    BY <1>c DEF Frames
  <2>5. Range(wire[t]) \cup Range(writing[t]) \subseteq Range(wire'[t]) \cup Range(writing'[t])
    BY <2>2, <2>3, <2>4, <1>c, ConcatRange
  <2>6. QED
    BY <2>1, <2>5, <1>d DEF Kept, Unread, requests, dispatch
<1>9. ASSUME NEW j \in Commands, Lookup(j) PROVE Kept(k)'
  <2>1. j # k
    BY <1>9, <1>f DEF Lookup
  <2>2. request'[k] = request[k] /\ target'[k] = target[k]
    BY <1>9, <2>1, <1>f DEF Lookup
  <2>3. UNCHANGED <<wire, channel, dispatch>>
    BY <1>9 DEF Lookup, ends
  <2>4. QED
    BY <2>2, <2>3, <1>d DEF Kept, Unread, channel, dispatch
<1>10. ASSUME NEW j \in Commands, TrySend(j) PROVE Kept(k)'
  <2>1. UNCHANGED <<wire, writer, writing, target, dispatch>>
    BY <1>10 DEF TrySend, ends
  <2>2. \/ commands' = commands
        \/ commands' = [commands EXCEPT ![target[j]] = Append(commands[target[j]], j)]
    BY <1>10 DEF TrySend
  <2>3. Range(commands[t]) \subseteq Range(commands'[t])
    <3>1. Range(commands[t]) \subseteq Range(Append(commands[t], j))
      BY <1>c, AppendRange
    <3>2. commands'[t] \in {commands[t], Append(commands[t], j)}
      <4>1. DOMAIN commands = Conns
        BY <1>a DEF Types
      <4>2. CASE commands' = commands
        BY <4>2
      <4>3. CASE commands' = [commands EXCEPT ![target[j]] = Append(commands[target[j]], j)]
        BY <4>1, <4>3, <1>b
      <4>4. QED
        BY <2>2, <4>2, <4>3
    <3>3. QED
      BY <3>1, <3>2
  <2>4. CASE j = k
    <3>1. request'[k] = "queued" => commands' = [commands EXCEPT ![t] = Append(commands[t], k)]
      BY <1>10, <2>4, <2>1, <1>f DEF TrySend
    <3>2. commands'[t] = Append(commands[t], k)
      BY <3>1, <1>a, <1>b DEF Types
    <3>3. k \in Range(commands'[t])
      BY <3>2, <1>c, AppendRange
    <3>4. QED
      BY <3>3 DEF Kept, Unread
  <2>5. CASE j # k
    <3>1. request[k] = "queued"
      BY <1>10, <2>5, <1>f DEF TrySend
    <3>2. QED
      BY <3>1, <2>1, <2>3, <1>e DEF dispatch
  <2>6. QED
    BY <2>4, <2>5
<1>11. ASSUME NEW c \in Conns, NEW j \in Commands, DispatchEnds(c, j) PROVE Kept(k)'
  BY <1>11, <1>e DEF DispatchEnds, ends, channel, requests
<1>12. ASSUME UNCHANGED vars PROVE Kept(k)'
  BY <1>12, <1>e DEF vars, ends, channel, requests, dispatch
<1>13. QED
  BY <1>1, <1>2, <1>3, <1>4, <1>5, <1>6, <1>7, <1>8, <1>9, <1>10, <1>11, <1>12
     DEF Next, ServerTask, WriterTask

(* A command the operator was told is queued is not lost while the writer  *)
(* of its session lives: it is queued, held by the writer, on the wire, or *)
(* the agent has read it.                                                  *)
THEOREM QueuedCommandKept == Spec => []QueuedIsKept
<1>1. Init => KeptInv
  <2> SUFFICES ASSUME Init PROVE KeptInv
    OBVIOUS
  <2>1. \A c \in Conns : HelloFirst(c)
    BY DEF Init, HelloFirst
  <2>2. QueuedIsKept
    BY DEF Init, QueuedIsKept
  <2>3. QED
    BY <2>1, <2>2, InitTypes DEF KeptInv, HelloInv
<1>2. KeptInv /\ [Next]_vars => KeptInv'
  <2> SUFFICES ASSUME KeptInv, [Next]_vars PROVE KeptInv'
    OBVIOUS
  <2>1. HelloInv'
    BY NextHelloInv DEF KeptInv
  <2>2. QueuedIsKept'
    BY NextKept DEF QueuedIsKept, Kept
  <2>3. QED
    BY <2>1, <2>2 DEF KeptInv
<1>3. KeptInv => QueuedIsKept
  BY DEF KeptInv
<1>4. QED
  BY <1>1, <1>2, <1>3, PTL DEF Spec

(***************************************************************************)
(* The three caps: permits, the command queue, the dispatch tasks.         *)
(***************************************************************************)
(* All that follows the answer to the hello on a connection is commands,   *)
(* so what the agent's reader starts a task for is one.                    *)
CommandsFollow(c) ==
  /\ client[c] = "online" => server[c] \notin {"none", "tls", "auth"}
  /\ \A i \in 1 .. Len(wire[c]) : client[c] = "online" \/ i > 1 => wire[c][i] \in Commands

(* What is in a queue and in another put behind it.                        *)
LEMMA ConcatFrom ==
  ASSUME NEW S, NEW C, NEW s \in Seq(S), NEW t \in Seq(S), \A i \in 1 .. Len(t) : t[i] \in C
  PROVE  \A i \in 1 .. Len(s \o t) :
           \/ i \in 1 .. Len(s) /\ (s \o t)[i] = s[i]
           \/ (s \o t)[i] \in C
<1> SUFFICES ASSUME NEW i \in 1 .. Len(s \o t), i \notin 1 .. Len(s)
             PROVE  (s \o t)[i] \in C
  BY ConcatPlaces
<1>1. i - Len(s) \in 1 .. Len(t) /\ Len(s) + (i - Len(s)) = i
  BY ConcatPlaces
<1>2. (s \o t)[Len(s) + (i - Len(s))] = t[i - Len(s)]
  BY <1>1, ConcatPlaces
<1>3. QED
  BY <1>1, <1>2

FollowInv == HelloInv /\ \A c \in Conns : CommandsFollow(c)

LEMMA NextFollowInv == FollowInv /\ [Next]_vars => FollowInv'
<1> SUFFICES ASSUME FollowInv, [Next]_vars PROVE FollowInv'
  OBVIOUS
<1>0. HelloInv'
  BY NextHelloInv DEF FollowInv
<1> SUFFICES ASSUME NEW d \in Conns PROVE CommandsFollow(d)'
  BY <1>0 DEF FollowInv
<1>a. Types /\ HelloFirst(d) /\ CommandsFollow(d)
  BY DEF FollowInv, HelloInv
<1>b. wire[d] \in Seq(Frames) /\ writing[d] \in Seq(Commands) /\ Len(wire[d]) \in Nat
  BY <1>a DEF Types
<1>c. DOMAIN client = Conns /\ DOMAIN server = Conns /\ DOMAIN wire = Conns
  BY <1>a DEF Types
(* Most steps leave alone what is on the connection, and no session goes   *)
(* back to its handshake.                                                  *)
<1>d. ASSUME wire'[d] = wire[d], client'[d] = "online" => client[d] = "online",
             server'[d] \in {"none", "tls", "auth"} => server[d] \in {"none", "tls", "auth"}
      PROVE  CommandsFollow(d)'
  BY <1>a, <1>d DEF CommandsFollow
<1>1. ASSUME NEW c \in Conns, \/ Connect(c) \/ Leave(c) \/ Notice(c) \/ TlsAccept(c) \/ TlsFails(c)
                              \/ Register(c) \/ Unregister(c) \/ StopWriter(c)
      PROVE  CommandsFollow(d)'
  <2>1. wire'[d] = wire[d]
    BY <1>1 DEF Connect, Leave, Notice, TlsAccept, TlsFails, Register, Unregister, StopWriter
  <2>2. client'[d] = "online" => client[d] = "online"
    BY <1>1, <1>c DEF Connect, Leave, Notice, TlsAccept, TlsFails, Register, Unregister, StopWriter
  <2>3. server'[d] \in {"none", "tls", "auth"} => server[d] \in {"none", "tls", "auth"}
    <3>1. Connect(c) => server[c] = "none"
      BY <1>a DEF Connect, FollowInv, HelloInv, HelloFirst
    <3>2. QED
      BY <1>1, <1>c, <3>1
         DEF Connect, Leave, Notice, TlsAccept, TlsFails, Register, Unregister, StopWriter
  <2>4. QED
    BY <2>1, <2>2, <2>3, <1>d
<1>2. ASSUME NEW c \in Conns, Accept(c) \/ Refuse(c) PROVE CommandsFollow(d)'
  <2>1. c # d => wire'[d] = wire[d] /\ server'[d] = server[d]
    BY <1>2, <1>c DEF Accept, Refuse
  <2>2. client' = client
    BY <1>2 DEF Accept, Refuse
  <2>3. CASE c # d
    BY <2>1, <2>2, <2>3, <1>d
  <2>4. CASE c = d
    <3>1. server[d] = "auth" /\ wire[d] = <<>> /\ client[d] # "online"
      BY <1>2, <2>4, <1>a DEF Accept, Refuse, HelloFirst, CommandsFollow
    <3>2. wire'[d] \in {<<>>, Append(<<>>, "accepted"), Append(<<>>, "refused")}
      BY <1>2, <2>4, <3>1, <1>c DEF Accept, Refuse
    <3>3. Len(wire'[d]) <= 1
      <4>1. wire'[d] = <<>> => Len(wire'[d]) <= 1
        OBVIOUS
      <4>2. ASSUME NEW f, wire'[d] = Append(<<>>, f) PROVE Len(wire'[d]) <= 1
        BY <4>2
      <4>3. QED
        BY Zenon, <3>2, <4>1, <4>2
    <3>4. Len(wire'[d]) \in Nat
      BY <1>0 DEF HelloInv, Types
    <3>5. QED
      BY <2>2, <3>1, <3>3, <3>4 DEF CommandsFollow
  <2>5. QED
    BY <2>3, <2>4
<1>3. ASSUME NEW c \in Conns, ReadHello(c) \/ ReadCommand(c) PROVE CommandsFollow(d)'
  <2>1. c # d => wire'[d] = wire[d] /\ client'[d] = client[d]
    BY <1>3, <1>c DEF ReadHello, ReadCommand
  <2>2. server' = server
    BY <1>3 DEF ReadHello, ReadCommand
  <2>3. CASE c # d
    BY <2>1, <2>2, <2>3, <1>d
  <2>4. CASE c = d
    <3>1. wire[d] # <<>> /\ wire'[d] = Tail(wire[d]) /\ client[d] # "none"
      BY <1>3, <2>4, <1>c DEF ReadHello, ReadCommand
    <3>2. Len(wire'[d]) = Len(wire[d]) - 1 /\ \A i \in 1 .. Len(wire[d]) - 1 : wire'[d][i] = wire[d][i + 1]
      BY <3>1, <1>b
    <3>3. ASSUME NEW i \in 1 .. Len(wire'[d]) PROVE wire'[d][i] \in Commands
      <4>1. i \in 1 .. Len(wire[d]) - 1 /\ i + 1 \in 1 .. Len(wire[d]) /\ i + 1 > 1
        BY <3>2, <1>b
      <4>2. QED
        BY <3>2, <4>1, <1>a DEF CommandsFollow
    <3>4. server[d] \notin {"none", "tls", "auth"}
      BY <3>1, <1>a DEF HelloFirst
    <3>5. QED
      BY <2>2, <3>3, <3>4 DEF CommandsFollow
  <2>5. QED
    BY <2>3, <2>4
<1>4. ASSUME NEW c \in Conns, WriterSends(c) PROVE CommandsFollow(d)'
  <2>1. c # d => wire'[d] = wire[d]
    BY <1>4, <1>c DEF WriterSends
  <2>2. client' = client /\ server' = server
    BY <1>4 DEF WriterSends
  <2>3. CASE c # d
    BY <2>1, <2>2, <2>3, <1>d
  <2>4. CASE c = d
    <3>1. wire'[d] = wire[d] \o writing[d]
      BY <1>4, <2>4, <1>c DEF WriterSends
    <3>2. writing[d] \in Seq(Frames)
      BY <1>b DEF Frames
    <3>3. \A i \in 1 .. Len(writing[d]) : writing[d][i] \in Commands
      BY <1>b
    <3>4. \A i \in 1 .. Len(wire'[d]) :
            \/ i \in 1 .. Len(wire[d]) /\ wire'[d][i] = wire[d][i]
            \/ wire'[d][i] \in Commands
      <4>1. wire[d] \in Seq(Frames)
        BY <1>b
      <4>2. QED
        BY Zenon, <3>1, <3>2, <3>3, <4>1, ConcatFrom
    <3>5. ASSUME NEW i \in 1 .. Len(wire'[d]), client'[d] = "online" \/ i > 1
          PROVE  wire'[d][i] \in Commands
      BY <3>4, <3>5, <2>2, <1>a DEF CommandsFollow
    <3>6. QED
      BY <3>5, <2>2, <1>a DEF CommandsFollow
  <2>5. QED
    BY <2>3, <2>4
<1>5. ASSUME UNCHANGED <<client, server, wire>> PROVE CommandsFollow(d)'
  BY <1>5, <1>d
<1>6. ASSUME NEW c \in Conns, WriterTakes(c) \/ WriterFails(c) PROVE CommandsFollow(d)'
  BY <1>5, <1>6 DEF WriterTakes, WriterFails, ends
<1>7. ASSUME NEW k \in Commands, Lookup(k) \/ TrySend(k) PROVE CommandsFollow(d)'
  BY <1>5, <1>7 DEF Lookup, TrySend, ends
<1>8. ASSUME NEW c \in Conns, NEW k \in Commands, DispatchEnds(c, k) PROVE CommandsFollow(d)'
  BY <1>5, <1>8 DEF DispatchEnds, ends
<1>9. ASSUME UNCHANGED vars PROVE CommandsFollow(d)'
  BY <1>5, <1>9 DEF vars, ends
<1>10. QED
  BY <1>1, <1>2, <1>3, <1>4, <1>6, <1>7, <1>8, <1>9 DEF Next, ServerTask, WriterTask

(* A permit for every task: the tasks that live are finitely many and no   *)
(* more than the permits.                                                  *)
Permits == IsFiniteSet(Live) /\ Cardinality(Live) <= MaxConnections

LEMMA NextPermits == ASSUME HelloInv, Permits, [Next]_vars PROVE Permits'
<1>a. Types /\ DOMAIN server = Conns /\ MaxConnections \in Nat /\ Cardinality(Live) \in Nat
  BY SessionsAssumption, FS_CardinalityType DEF HelloInv, Types, Permits
<1>b. ASSUME Live' \subseteq Live PROVE Permits'
  <2>1. IsFiniteSet(Live') /\ Cardinality(Live') <= Cardinality(Live)
    BY <1>b, FS_Subset DEF Permits
  <2>2. Cardinality(Live') \in Nat
    BY <2>1, FS_CardinalityType
  <2>3. QED
    BY <2>1, <2>2, <1>a DEF Permits
<1>1. ASSUME NEW c \in Conns, Connect(c) PROVE Permits'
  <2>1. c \notin Live
    BY <1>1 DEF Connect, Live, HelloInv, HelloFirst
  <2>2. CASE server' = [server EXCEPT ![c] = "ended"]
    BY <2>2, <1>a, <1>b DEF Live
  <2>3. CASE Cardinality(Live) < MaxConnections /\ server' = [server EXCEPT ![c] = "tls"]
    <3>1. Live' = Live \cup {c}
      BY <2>3, <1>a DEF Live
    <3>2. IsFiniteSet(Live \cup {c}) /\ Cardinality(Live \cup {c}) = Cardinality(Live) + 1
      BY <2>1, FS_AddElement DEF Permits
    <3>3. QED
      BY <2>3, <3>1, <3>2, <1>a DEF Permits
  <2>4. PICK others \in 0 .. MaxConnections - Cardinality(Live) :
          server' = [server EXCEPT ![c] = IF Cardinality(Live) + others < MaxConnections
                                            THEN "tls" ELSE "ended"]
    BY <1>1 DEF Connect
  <2>5. Cardinality(Live) + others < MaxConnections => Cardinality(Live) < MaxConnections
    BY <1>a
  <2>6. QED
    BY <2>2, <2>3, <2>4, <2>5
<1>2. ASSUME NEW c \in Conns, ServerTask(c) PROVE Permits'
  <2>1. c \in Live
    BY <1>2 DEF Live, ServerTask, TlsAccept, TlsFails, Accept, Refuse, Register, Unregister,
                StopWriter
  <2>2. \A e \in Conns \ {c} : server'[e] = server[e]
    BY <1>2, <1>a DEF ServerTask, TlsAccept, TlsFails, Accept, Refuse, Register, Unregister,
                      StopWriter
  <2>3. QED
    BY <2>1, <2>2, <1>b DEF Live
<1>3. ASSUME server' = server PROVE Permits'
  BY <1>3, <1>b DEF Live
<1>4. ASSUME NEW c \in Conns, \/ ReadHello(c) \/ Leave(c) \/ Notice(c) \/ ReadCommand(c)
                              \/ WriterTask(c)
      PROVE  server' = server
  BY <1>4 DEF ReadHello, Leave, Notice, ReadCommand, WriterTask, WriterTakes, WriterSends,
              WriterFails, ends
<1>5. ASSUME NEW k \in Commands, Lookup(k) \/ TrySend(k) PROVE server' = server
  BY <1>5 DEF Lookup, TrySend, ends
<1>6. ASSUME NEW c \in Conns, NEW k \in Commands, DispatchEnds(c, k) PROVE server' = server
  BY <1>6 DEF DispatchEnds, ends
<1>7. UNCHANGED vars => server' = server
  BY DEF vars, ends
<1>8. QED
  BY <1>1, <1>2, <1>3, <1>4, <1>5, <1>6, <1>7 DEF Next

(* The command channel and the agent's dispatch tasks.                     *)
QueueCapped == \A c \in Conns : Len(commands[c]) <= CommandQueueDepth

LEMMA NextQueueCapped == ASSUME Types, QueueCapped, [Next]_vars PROVE QueueCapped'
<1> SUFFICES ASSUME NEW d \in Conns PROVE Len(commands'[d]) <= CommandQueueDepth
  BY DEF QueueCapped
<1>a. /\ DOMAIN commands = Conns /\ commands[d] \in Seq(Commands) /\ Len(commands[d]) \in Nat
      /\ CommandQueueDepth \in Nat \ {0} /\ Len(commands[d]) <= CommandQueueDepth
  BY SessionsAssumption DEF Types, QueueCapped
<1>1. ASSUME commands'[d] \in {commands[d], <<>>} PROVE Len(commands'[d]) <= CommandQueueDepth
  BY <1>1, <1>a
<1>2. ASSUME NEW c \in Conns, \/ Connect(c) \/ ReadHello(c) \/ Leave(c) \/ Notice(c)
                              \/ ReadCommand(c) \/ TlsAccept(c) \/ TlsFails(c) \/ Accept(c)
                              \/ Refuse(c) \/ Register(c) \/ Unregister(c) \/ WriterSends(c)
      PROVE  commands'[d] \in {commands[d], <<>>}
  BY <1>2 DEF Connect, ReadHello, Leave, Notice, ReadCommand, TlsAccept, TlsFails, Accept,
              Refuse, Register, Unregister, WriterSends, channel
<1>3. ASSUME NEW c \in Conns, StopWriter(c) \/ WriterFails(c)
      PROVE  commands'[d] \in {commands[d], <<>>}
  BY <1>3, <1>a DEF StopWriter, WriterFails
<1>4. ASSUME NEW c \in Conns, WriterTakes(c) PROVE Len(commands'[d]) <= CommandQueueDepth
  <2>1. CASE c # d
    BY <1>4, <2>1, <1>a DEF WriterTakes
  <2>2. CASE c = d
    <3>1. commands[d] # <<>> /\ commands'[d] = Tail(commands[d])
      BY <1>4, <2>2, <1>a DEF WriterTakes
    <3>2. Len(commands'[d]) = Len(commands[d]) - 1
      BY <3>1, <1>a, TailRange
    <3>3. QED
      BY <3>2, <1>a
  <2>3. QED
    BY <2>1, <2>2
<1>5. ASSUME NEW k \in Commands, TrySend(k) PROVE Len(commands'[d]) <= CommandQueueDepth
  <2>1. \/ commands'[d] = commands[d]
        \/ Len(commands[d]) < CommandQueueDepth /\ commands'[d] = Append(commands[d], k)
    BY <1>5, <1>a DEF TrySend
  <2>2. Len(Append(commands[d], k)) = Len(commands[d]) + 1
    BY <1>a
  <2>3. QED
    BY <2>1, <2>2, <1>a
<1>6. ASSUME NEW k \in Commands, Lookup(k) PROVE commands'[d] \in {commands[d], <<>>}
  BY <1>6 DEF Lookup, channel
<1>7. ASSUME NEW c \in Conns, NEW k \in Commands, DispatchEnds(c, k)
      PROVE  commands'[d] \in {commands[d], <<>>}
  BY <1>7 DEF DispatchEnds, channel
<1>8. UNCHANGED vars => commands'[d] \in {commands[d], <<>>}
  BY DEF vars, channel
<1>9. QED
  BY <1>1, <1>2, <1>3, <1>4, <1>5, <1>6, <1>7, <1>8 DEF Next, ServerTask, WriterTask

TasksCapped ==
  /\ running \in [Conns -> SUBSET Commands] /\ got \subseteq Commands /\ dropped \subseteq Commands
  /\ \A c \in Conns : IsFiniteSet(running[c]) /\ Cardinality(running[c]) <= MaxInflightCommands

LEMMA NextTasksCapped == ASSUME FollowInv, TasksCapped, [Next]_vars PROVE TasksCapped'
<1>a. Types /\ MaxInflightCommands \in Nat
  BY SessionsAssumption DEF FollowInv, HelloInv
<1>1. ASSUME UNCHANGED dispatch PROVE TasksCapped'
  BY <1>1 DEF dispatch, TasksCapped
<1>2. ASSUME NEW c \in Conns, ReadCommand(c) PROVE TasksCapped'
  <2>1. Head(wire[c]) \in Commands
    <3>1. wire[c] # <<>> /\ wire[c] \in Seq(Frames) /\ client[c] = "online"
      BY <1>2, <1>a DEF ReadCommand, Types
    <3>2. 1 \in 1 .. Len(wire[c]) /\ Head(wire[c]) = wire[c][1]
      BY <3>1
    <3>3. QED
      BY <3>1, <3>2 DEF FollowInv, CommandsFollow
  <2>2. CASE /\ Cardinality(running[c]) < MaxInflightCommands
             /\ running' = [running EXCEPT ![c] = @ \cup {Head(wire[c])}]
             /\ got' = got \cup {Head(wire[c])} /\ UNCHANGED dropped
    <3> DEFINE more == running[c] \cup {Head(wire[c])}
    <3>1. IsFiniteSet(running[c]) /\ Cardinality(running[c]) \in Nat
      BY FS_CardinalityType DEF TasksCapped
    <3>2. IsFiniteSet(more) /\ Cardinality(more) <= Cardinality(running[c]) + 1
      <4>1. IsFiniteSet(more) /\ Cardinality(more) \in {Cardinality(running[c]), Cardinality(running[c]) + 1}
        BY <3>1, FS_AddElement
      <4>2. QED
        BY <4>1, <3>1
    <3>3. Cardinality(more) \in Nat
      BY <3>2, FS_CardinalityType
    <3>4. Cardinality(more) <= MaxInflightCommands
      BY <2>2, <3>1, <3>2, <3>3, <1>a
    <3>5. more \in SUBSET Commands /\ running' = [running EXCEPT ![c] = more]
      BY <2>1, <2>2 DEF TasksCapped
    <3> HIDE DEF more
    <3>6. QED
      BY <2>1, <2>2, <3>2, <3>4, <3>5 DEF TasksCapped
  <2>3. CASE dropped' = dropped \cup {Head(wire[c])} /\ UNCHANGED <<running, got>>
    BY <2>1, <2>3 DEF TasksCapped
  <2>4. QED
    BY <1>2, <2>2, <2>3 DEF ReadCommand
<1>3. ASSUME NEW c \in Conns, NEW k \in Commands, DispatchEnds(c, k) PROVE TasksCapped'
  <2> DEFINE less == running[c] \ {k}
  <2>1. IsFiniteSet(running[c]) /\ Cardinality(running[c]) \in Nat
        /\ Cardinality(running[c]) <= MaxInflightCommands
    BY FS_CardinalityType DEF TasksCapped
  <2>2. IsFiniteSet(less) /\ Cardinality(less) <= Cardinality(running[c])
    BY <2>1, FS_Subset
  <2>3. Cardinality(less) \in Nat
    BY <2>2, FS_CardinalityType
  <2>4. Cardinality(less) <= MaxInflightCommands
    BY <2>1, <2>2, <2>3, <1>a
  <2>5. less \in SUBSET Commands /\ running' = [running EXCEPT ![c] = less]
        /\ got' = got /\ dropped' = dropped
    BY <1>3 DEF DispatchEnds, TasksCapped
  <2> HIDE DEF less
  <2>6. QED
    BY <2>2, <2>4, <2>5 DEF TasksCapped
<1>4. ASSUME NEW c \in Conns, \/ Connect(c) \/ ReadHello(c) \/ Leave(c) \/ Notice(c)
                              \/ ServerTask(c) \/ WriterTask(c)
      PROVE  UNCHANGED dispatch
  BY <1>4 DEF Connect, ReadHello, Leave, Notice, ServerTask, TlsAccept, TlsFails, Accept, Refuse,
              Register, Unregister, StopWriter, WriterTask, WriterTakes, WriterSends, WriterFails
<1>5. ASSUME NEW k \in Commands, Lookup(k) \/ TrySend(k) PROVE UNCHANGED dispatch
  BY <1>5 DEF Lookup, TrySend
<1>6. UNCHANGED vars => UNCHANGED dispatch
  BY DEF vars
<1>7. QED
  BY <1>1, <1>2, <1>3, <1>4, <1>5, <1>6 DEF Next

CapsInv == FollowInv /\ Permits /\ QueueCapped /\ TasksCapped /\ broken \subseteq Conns

LEMMA NextCapsInv == CapsInv /\ [Next]_vars => CapsInv'
<1> SUFFICES ASSUME CapsInv, [Next]_vars PROVE CapsInv'
  OBVIOUS
<1>1. FollowInv' /\ Permits' /\ QueueCapped' /\ TasksCapped'
  BY NextFollowInv, NextPermits, NextQueueCapped, NextTasksCapped DEF CapsInv, FollowInv, HelloInv
<1>2. broken' \subseteq Conns
  <2>1. broken \subseteq Conns
    BY DEF CapsInv
  <2>2. ASSUME NEW c \in Conns, Notice(c) PROVE broken' \subseteq Conns
    BY <2>1, <2>2 DEF Notice
  <2>3. ASSUME NEW c \in Conns, \/ Connect(c) \/ ReadHello(c) \/ Leave(c) \/ ReadCommand(c)
                                \/ ServerTask(c) \/ WriterTask(c)
        PROVE  broken' = broken
    BY <2>3 DEF Connect, ReadHello, Leave, ReadCommand, ServerTask, TlsAccept, TlsFails, Accept,
                Refuse, Register, Unregister, StopWriter, WriterTask, WriterTakes, WriterSends,
                WriterFails, ends
  <2>4. ASSUME NEW k \in Commands, Lookup(k) \/ TrySend(k) PROVE broken' = broken
    BY <2>4 DEF Lookup, TrySend, ends
  <2>5. ASSUME NEW c \in Conns, NEW k \in Commands, DispatchEnds(c, k) PROVE broken' = broken
    BY <2>5 DEF DispatchEnds, ends
  <2>6. UNCHANGED vars => broken' = broken
    BY DEF vars, ends
  <2>7. QED
    BY <2>1, <2>2, <2>3, <2>4, <2>5, <2>6 DEF Next
<1>3. QED
  BY <1>1, <1>2 DEF CapsInv

(* However many connections the agent opens and however late their tasks   *)
(* end, the server holds no more than MAX_CONNECTIONS permits, a session's *)
(* channel no more than COMMAND_QUEUE_DEPTH commands, and the agent runs   *)
(* no more than MAX_INFLIGHT_COMMANDS dispatch tasks per connection, each  *)
(* for a command: every variable has its type.                             *)
THEOREM CapsHold == Spec => []TypeOK
<1>1. Init => CapsInv
  <2> SUFFICES ASSUME Init PROVE CapsInv
    OBVIOUS
  <2>1. Types
    BY InitTypes
  <2>2. ASSUME NEW c \in Conns PROVE HelloFirst(c) /\ CommandsFollow(c)
    BY DEF Init, HelloFirst, CommandsFollow
  <2>3. Permits
    <3>1. Live = {}
      BY DEF Init, Live
    <3>2. QED
      BY <3>1, FS_EmptySet, SessionsAssumption DEF Permits
  <2>4. QueueCapped
    BY SessionsAssumption DEF Init, QueueCapped
  <2>5. TasksCapped
    BY FS_EmptySet, SessionsAssumption DEF Init, TasksCapped
  <2>6. broken \subseteq Conns
    BY DEF Init
  <2>7. QED
    BY <2>1, <2>2, <2>3, <2>4, <2>5, <2>6 DEF CapsInv, FollowInv, HelloInv
<1>2. CapsInv => TypeOK
  BY DEF CapsInv, FollowInv, HelloInv, Types, Frames, Permits, QueueCapped, TasksCapped, TypeOK
<1>3. QED
  BY <1>1, <1>2, NextCapsInv, PTL DEF Spec

-----------------------------------------------------------------------------
(***************************************************************************)
(* Store.                                                                  *)
(*                                                                         *)
(* What the sink has yet to store of a kind is ahead of it in one line:    *)
(* the event it has audited, the queue, and what the processor has in      *)
(* hand.  The invariant says that along this line, which starts with what  *)
(* is stored, timestamps never decrease and no id comes twice.             *)
(***************************************************************************)
AnyKey == [ts : Nat, id : Ids]
KindOf(k) == Kind[k.id]
IsDerived(k) == KindOf(k) \in DerivedKinds

StoreForm ==
  /\ now \in Nat /\ pruned \in Nat /\ seen \subseteq Ids
  /\ events \subseteq AnyKey /\ confirmed \subseteq AnyKey
  /\ DOMAIN alerts \subseteq AnyKey /\ alerts \in [DOMAIN alerts -> BOOLEAN]
  /\ cell \in [Cells -> AnyKey \cup {NoKey}]
  /\ ingest \in AnyKey \cup {NoKey} /\ emitting \in [DerivedKinds -> AnyKey \cup {NoKey}]
  /\ queue \in Seq(AnyKey)
  /\ sink \in [at : {"idle", "audited", "stored"}, key : AnyKey \cup {NoKey}]
  /\ sink.at = "audited" => sink.key \in AnyKey

Follows(j, k) == k.ts <= j.ts /\ j.id # k.id

(* What is behind k in its line, from the queue's n-th place on.           *)
Leads(k, n) ==
  /\ IsDerived(k) /\ k.ts <= now /\ k.id \in seen
  /\ emitting[KindOf(k)] # NoKey => Follows(emitting[KindOf(k)], k)
  /\ \A j \in 1 .. Len(queue) : n <= j /\ KindOf(queue[j]) = KindOf(k) => Follows(queue[j], k)

InStore(k) ==
  \/ k \in DOMAIN alerts \cup confirmed
  \/ k # NoKey /\ \E c \in Cells : cell[c] = k

StoreLine ==
  /\ \A d \in DerivedKinds : emitting[d] # NoKey =>
       KindOf(emitting[d]) = d /\ emitting[d].ts <= now /\ emitting[d].id \in seen
  /\ \A i \in 1 .. Len(queue) : IsDerived(queue[i]) => Leads(queue[i], i + 1)
  /\ sink.at = "audited" /\ IsDerived(sink.key) => Leads(sink.key, 1)
  /\ \A k \in AnyKey : InStore(k) =>
       /\ Leads(k, 1)
       /\ sink.at = "audited" /\ KindOf(sink.key) = KindOf(k) => Follows(sink.key, k)

StorePlaces ==
  /\ \A k \in DOMAIN alerts \cup confirmed : KindOf(k) = "alert"
  /\ \A c \in Cells : cell[c] # NoKey => CellOf(cell[c]) = c
  /\ sink.at = "audited" => sink.key \in events \/ sink.key.ts < pruned

StoreInv == StoreForm /\ StoreLine /\ StorePlaces /\ TablesAgree /\ AckHolds

LEMMA StoreInitInv == StoreInit => StoreInv
<1> SUFFICES ASSUME StoreInit PROVE StoreInv
  OBVIOUS
<1> USE StoreAssumption DEF StoreInit
<1>1. StoreForm
  <2>1. DOMAIN alerts = {} /\ alerts \in [DOMAIN alerts -> BOOLEAN]
    OBVIOUS
  <2>2. QED
    BY <2>1 DEF StoreForm, Idle
<1>2. StoreLine
  BY DEF StoreLine, InStore, Idle
<1>3. StorePlaces
  BY DEF StorePlaces, Idle
<1>4. TablesAgree /\ AckHolds
  BY DEF TablesAgree, AckHolds
<1>5. QED
  BY <1>1, <1>2, <1>3, <1>4 DEF StoreInv

(* What the two writers of the audit log do, but for the agents' index.    *)
LEMMA Ingested ==
  ASSUME NEW i \in Ids, IngestWrites(i)
  PROVE  /\ i \in Raw /\ i \notin seen /\ seen' = seen \cup {i}
         /\ \/ events' = events \cup {Sanitized(i)} /\ ingest' = Sanitized(i)
            \/ events' = events /\ ingest' = ingest
         /\ UNCHANGED <<now, alerts, cell, emitting, queue, sink, pruned, torn, confirmed>>
<1>1. ASSUME NEW k, WriteEvent(k) PROVE events' = events \cup {k}
  BY <1>1 DEF WriteEvent
<1>2. QED
  BY <1>1 DEF IngestWrites

LEMMA Audited ==
  ASSUME SinkAudits
  PROVE  /\ sink = Idle /\ queue # <<>> /\ queue' = Tail(queue)
         /\ \/ /\ events' = events \cup {Head(queue)}
               /\ sink' = [at |-> "audited", key |-> Head(queue)]
            \/ events' = events /\ sink' = sink
         /\ UNCHANGED <<now, alerts, cell, seen, ingest, emitting, pruned, torn, confirmed>>
<1>1. ASSUME NEW k, WriteEvent(k) PROVE events' = events \cup {k}
  BY <1>1 DEF WriteEvent
<1>2. QED
  BY <1>1 DEF SinkAudits

LEMMA NextStoreForm == StoreForm /\ [StoreNext]_storeVars => StoreForm'
<1> SUFFICES ASSUME StoreForm, [StoreNext]_storeVars PROVE StoreForm'
  OBVIOUS
<1> USE StoreAssumption
<1>0. storeVars' = storeVars => StoreForm'
  BY DEF StoreForm, storeVars, tables, tasks, history
<1>1. Tick => StoreForm'
  BY DEF StoreForm, Tick, tables, tasks, history
<1>2. ASSUME NEW i \in Ids, IngestWrites(i) PROVE StoreForm'
  <2>1. i \in Raw /\ Stamp[i] \in Nat
    BY <1>2 DEF IngestWrites
  <2>2. Sanitized(i) \in AnyKey
    BY <2>1 DEF Sanitized, AnyKey, StoreForm
  <2>3. events' \subseteq AnyKey /\ ingest' \in AnyKey \cup {NoKey}
    <3>1. events \subseteq AnyKey /\ ingest \in AnyKey \cup {NoKey}
      BY Zenon DEF StoreForm
    <3>2. \/ events' = events \cup {Sanitized(i)} /\ ingest' = Sanitized(i)
          \/ events' = events /\ ingest' = ingest
      BY Zenon, <1>2, Ingested
    <3>3. QED
      BY Zenon, <2>2, <3>1, <3>2
  <2>4. /\ seen' \subseteq Ids
        /\ UNCHANGED <<now, alerts, cell, emitting, queue, sink, pruned, torn, confirmed>>
    <3>1. seen \subseteq Ids
      BY Zenon DEF StoreForm
    <3>2. /\ seen' = seen \cup {i}
          /\ UNCHANGED <<now, alerts, cell, emitting, queue, sink, pruned, torn, confirmed>>
      BY Zenon, <1>2, Ingested
    <3>3. QED
      BY Zenon, <3>1, <3>2
  <2>5. QED
    BY Zenon, <2>3, <2>4 DEF StoreForm
<1>3. ASSUME IngestEmits PROVE StoreForm'
  <2>1. ingest \in AnyKey
    BY <1>3 DEF IngestEmits, StoreForm
  <2>2. Append(queue, ingest) \in Seq(AnyKey)
    BY <2>1, AppendRange DEF StoreForm
  <2>3. queue' \in Seq(AnyKey)
    BY <1>3, <2>2 DEF StoreForm, IngestEmits
  <2>4. QED
    BY <1>3, <2>3 DEF StoreForm, IngestEmits, tables, history
<1>4. ASSUME NEW i \in Ids, Derive(i) PROVE StoreForm'
  <2>1. i \in Derived /\ Kind[i] \in DerivedKinds
    BY <1>4 DEF Derive, Derived, Raw
  <2>2. [ts |-> now, id |-> i] \in AnyKey
    BY DEF StoreForm, AnyKey
  <2>3. emitting' \in [DerivedKinds -> AnyKey \cup {NoKey}]
    BY <1>4, <2>1, <2>2 DEF StoreForm, Derive
  <2>4. QED
    BY <1>4, <2>3 DEF StoreForm, Derive, tables, history
<1>5. ASSUME NEW d \in DerivedKinds, EmitDerived(d) PROVE StoreForm'
  <2>1. emitting[d] \in AnyKey
    BY <1>5 DEF EmitDerived, StoreForm
  <2>2. Append(queue, emitting[d]) \in Seq(AnyKey)
    BY <2>1, AppendRange DEF StoreForm
  <2>3. queue' \in Seq(AnyKey) /\ emitting' \in [DerivedKinds -> AnyKey \cup {NoKey}]
    BY <1>5, <2>2 DEF StoreForm, EmitDerived
  <2>4. QED
    BY <1>5, <2>3 DEF StoreForm, EmitDerived, tables, history
<1>6. ASSUME SinkAudits PROVE StoreForm'
  <2>1. Head(queue) \in AnyKey /\ Tail(queue) \in Seq(AnyKey)
    BY <1>6, TailRange DEF SinkAudits, StoreForm
  <2>2. events' \subseteq AnyKey
    BY <1>6, <2>1, Audited DEF StoreForm
  <2>3. /\ sink' \in [at : {"idle", "audited", "stored"}, key : AnyKey \cup {NoKey}]
        /\ sink'.at = "audited" => sink'.key \in AnyKey
    BY <1>6, <2>1, Audited DEF StoreForm
  <2>4. QED
    BY <1>6, <2>1, <2>2, <2>3, Audited DEF StoreForm
<1>7. ASSUME SinkStores PROVE StoreForm'
  <2>1. sink.key \in AnyKey
    BY <1>7 DEF SinkStores, StoreForm
  <2>2. /\ DOMAIN WithAlert(sink.key) \subseteq AnyKey
        /\ WithAlert(sink.key) \in [DOMAIN WithAlert(sink.key) -> BOOLEAN]
    BY <2>1 DEF WithAlert, StoreForm
  <2>3. DOMAIN alerts' \subseteq AnyKey /\ alerts' \in [DOMAIN alerts' -> BOOLEAN]
    BY <1>7, <2>2 DEF SinkStores, StoreForm
  <2>4. cell' \in [Cells -> AnyKey \cup {NoKey}]
    BY <1>7, <2>1 DEF SinkStores, StoreForm
  <2>5. QED
    BY <1>7, <2>3, <2>4 DEF StoreForm, SinkStores, history
<1>8. ASSUME SinkFails \/ SinkPublishes PROVE StoreForm'
  BY <1>8 DEF StoreForm, SinkFails, SinkPublishes, tables, Idle
<1>9. ASSUME Compact PROVE StoreForm'
  <2>1. PICK t \in Retention .. now : LET cutoff == t - Retention IN
          /\ events' = {k \in events : k.ts >= cutoff}
          /\ alerts' = [k \in KeptAlerts(cutoff) |-> alerts[k]]
          /\ pruned' = IF cutoff > pruned THEN cutoff ELSE pruned
          /\ UNCHANGED <<now, cell, tasks, faults, restarts, evicted, torn, confirmed>>
    BY <1>9 DEF Compact
  <2>2. t - Retention \in Nat
    BY DEF StoreForm
  <2>3. DOMAIN alerts' \subseteq AnyKey /\ alerts' \in [DOMAIN alerts' -> BOOLEAN]
    BY <2>1 DEF StoreForm, KeptAlerts
  <2>4. QED
    BY <2>1, <2>2, <2>3 DEF StoreForm, tasks
<1>10. ASSUME Restart PROVE StoreForm'
  BY <1>10 DEF StoreForm, Restart, tables, Idle
<1>11. ASSUME NEW k \in Keys, AcknowledgeAlert(k) PROVE StoreForm'
  <2>1. k \in AnyKey /\ k \in DOMAIN alerts
    BY <1>11 DEF AcknowledgeAlert, StoreForm
  <2>2. DOMAIN alerts' \subseteq AnyKey /\ alerts' \in [DOMAIN alerts' -> BOOLEAN]
    BY <1>11 DEF StoreForm, AcknowledgeAlert
  <2>3. QED
    BY <1>11, <2>1, <2>2 DEF StoreForm, AcknowledgeAlert, tasks
<1>12. QED
  BY <1>0, <1>1, <1>2, <1>3, <1>4, <1>5, <1>6, <1>7, <1>8, <1>9, <1>10, <1>11 DEF StoreNext

(* A step that adds nothing to the line leaves it in order, and one that   *)
(* appends something new of another kind too.                              *)
LEMMA LineKept ==
  ASSUME StoreForm, StoreLine, StoreForm', now <= now', seen \cap Derived \subseteq seen',
         emitting' = emitting, queue' = queue, sink' = sink \/ sink'.at # "audited",
         \A k \in AnyKey : InStore(k)' => InStore(k)
  PROVE  StoreLine'
<1>1. ASSUME NEW k \in AnyKey, NEW n \in Nat, Leads(k, n) PROVE Leads(k, n)'
  <2>1. k.id \in Derived
    BY <1>1 DEF Leads, AnyKey, Derived, Raw, IsDerived, KindOf
  <2>2. k.id \in seen'
    BY <1>1, <2>1 DEF Leads
  <2>3. k.ts <= now'
    BY <1>1 DEF Leads, StoreForm, AnyKey
  <2>4. QED
    BY <1>1, <2>2, <2>3 DEF Leads
<1>2. \A d \in DerivedKinds : emitting'[d] # NoKey =>
        KindOf(emitting'[d]) = d /\ emitting'[d].ts <= now' /\ emitting'[d].id \in seen'
  <2>1. TAKE d \in DerivedKinds
  <2>2. HAVE emitting'[d] # NoKey
  <2>3. emitting[d] \in AnyKey /\ KindOf(emitting[d]) = d
    BY <2>2 DEF StoreForm, StoreLine
  <2>4. emitting[d].id \in Derived
    BY <2>3 DEF AnyKey, Derived, Raw, KindOf
  <2>5. QED
    BY <2>2, <2>3, <2>4 DEF StoreForm, StoreLine, AnyKey
<1>3. \A i \in 1 .. Len(queue') : IsDerived(queue'[i]) => Leads(queue[i], i + 1)'
  <2>1. TAKE i \in 1 .. Len(queue')
  <2>2. queue[i] \in AnyKey
    BY DEF StoreForm
  <2>3. QED
    BY <1>1, <2>2 DEF StoreLine
<1>4. sink'.at = "audited" /\ IsDerived(sink'.key) => Leads(sink.key, 1)'
  BY <1>1 DEF StoreLine, StoreForm
<1>5. \A k \in AnyKey : InStore(k)' =>
        /\ Leads(k, 1)'
        /\ sink'.at = "audited" /\ KindOf(sink'.key) = KindOf(k) => Follows(sink'.key, k)
  BY <1>1 DEF StoreLine
<1>6. QED
  BY <1>2, <1>3, <1>4, <1>5 DEF StoreLine

LEMMA LeadsLonger ==
  ASSUME StoreForm, NEW x \in AnyKey, NEW k \in AnyKey, NEW n \in Nat,
         Leads(k, n), KindOf(x) = KindOf(k) => Follows(x, k),
         queue' = Append(queue, x), emitting' \in [DerivedKinds -> AnyKey \cup {NoKey}],
         \A d \in DerivedKinds : emitting'[d] \in {emitting[d], NoKey},
         now' = now, seen' = seen
  PROVE  Leads(k, n)'
<1>1. /\ Len(queue') = Len(queue) + 1 /\ Len(queue) \in Nat
      /\ \A j \in 1 .. Len(queue) : queue'[j] = queue[j]
      /\ queue'[Len(queue) + 1] = x
  BY DEF StoreForm
<1>2. \A j \in 1 .. Len(queue') : n <= j /\ KindOf(queue'[j]) = KindOf(k) => Follows(queue'[j], k)
  <2>1. TAKE j \in 1 .. Len(queue')
  <2>2. CASE j \in 1 .. Len(queue)
    BY <1>1, <2>2 DEF Leads
  <2>3. CASE j = Len(queue) + 1
    BY <1>1, <2>3
  <2>4. QED
    BY <1>1, <2>2, <2>3
<1>3. KindOf(k) \in DerivedKinds
  BY DEF Leads, IsDerived
<1>4. QED
  BY <1>2, <1>3 DEF Leads

(* The emission of a derived event, and of a heartbeat.                    *)
LEMMA LineLonger ==
  ASSUME StoreForm, StoreLine, NEW x \in AnyKey, queue' = Append(queue, x),
         sink' = sink, now' = now, seen' = seen, alerts' = alerts, confirmed' = confirmed,
         cell' = cell,
         \/ emitting' = emitting /\ ~IsDerived(x)
         \/ \E d \in DerivedKinds : /\ emitting[d] = x
                                    /\ emitting' = [emitting EXCEPT ![d] = NoKey]
  PROVE  StoreLine'
<1> USE StoreAssumption
<1>0. x # NoKey
  BY DEF AnyKey
<1>1. /\ emitting' \in [DerivedKinds -> AnyKey \cup {NoKey}]
      /\ \A d \in DerivedKinds : emitting'[d] \in {emitting[d], NoKey}
      /\ KindOf(x) \in DerivedKinds => emitting[KindOf(x)] = x /\ emitting'[KindOf(x)] = NoKey
  <2>1. CASE emitting' = emitting /\ ~IsDerived(x)
    BY <2>1 DEF StoreForm, IsDerived
  <2>2. ASSUME NEW d \in DerivedKinds, emitting[d] = x, emitting' = [emitting EXCEPT ![d] = NoKey]
        PROVE  /\ emitting' \in [DerivedKinds -> AnyKey \cup {NoKey}]
               /\ \A e \in DerivedKinds : emitting'[e] \in {emitting[e], NoKey}
               /\ KindOf(x) \in DerivedKinds => emitting[KindOf(x)] = x /\ emitting'[KindOf(x)] = NoKey
    <3>1. KindOf(x) = d
      BY <1>0, <2>2 DEF StoreLine
    <3>2. QED
      BY <2>2, <3>1 DEF StoreForm
  <2>3. QED
    BY <2>1, <2>2
<1>2. ASSUME NEW k \in AnyKey, NEW n \in Nat, Leads(k, n) PROVE Leads(k, n)'
  <2>1. KindOf(x) = KindOf(k) => Follows(x, k)
    BY <1>0, <1>1, <1>2 DEF Leads, IsDerived
  <2>2. QED
    BY <1>1, <1>2, <2>1, LeadsLonger
<1>3. \A n \in Nat : IsDerived(x) /\ n = Len(queue) + 2 => Leads(x, n)'
  <2>1. SUFFICES ASSUME NEW n \in Nat, IsDerived(x), n = Len(queue) + 2
                  PROVE  Leads(x, n)'
    OBVIOUS
  <2>2. x.ts <= now /\ x.id \in seen
    BY <1>0, <1>1, <2>1 DEF StoreLine, IsDerived
  <2>3. Len(queue') = Len(queue) + 1 /\ Len(queue) \in Nat
    BY DEF StoreForm
  <2>4. QED
    BY <1>1, <2>1, <2>2, <2>3 DEF Leads, IsDerived
<1>4. \A i \in 1 .. Len(queue') : IsDerived(queue'[i]) => Leads(queue[i], i + 1)'
  <2>1. TAKE i \in 1 .. Len(queue')
  <2>2. HAVE IsDerived(queue'[i])
  <2>3. CASE i \in 1 .. Len(queue)
    <3>1. queue'[i] = queue[i] /\ queue[i] \in AnyKey /\ i + 1 \in Nat
      BY SMTT(40), <2>3 DEF StoreForm
    <3>2. PICK y \in AnyKey : y = queue[i]
      BY <3>1
    <3>3. Leads(y, i + 1)
      BY <2>2, <2>3, <3>1, <3>2 DEF StoreLine
    <3>4. Leads(y, i + 1)'
      BY <1>2, <3>1, <3>3
    <3>5. QED
      BY <3>1, <3>2, <3>4
  <2>4. CASE i = Len(queue) + 1
    <3>1. queue'[i] = x /\ i + 1 = Len(queue) + 2
      BY <2>4 DEF StoreForm
    <3>2. Leads(x, i + 1)'
      BY <1>3, <2>2, <3>1
    <3>3. QED
      BY <3>1, <3>2
  <2>5. QED
    <3>1. queue' = Append(queue, x) /\ queue \in Seq(AnyKey)
      BY Zenon DEF StoreForm
    <3>2. Len(queue') = Len(queue) + 1 /\ Len(queue) \in Nat
      BY <3>1
    <3>3. i \in 1 .. Len(queue) \/ i = Len(queue) + 1
      BY <2>1, <3>2
    <3>4. QED
      BY Zenon, <2>3, <2>4, <3>3
<1>5. sink'.at = "audited" /\ IsDerived(sink'.key) => Leads(sink.key, 1)'
  BY <1>2 DEF StoreLine, StoreForm
<1>6. \A k \in AnyKey : InStore(k)' =>
        /\ Leads(k, 1)'
        /\ sink'.at = "audited" /\ KindOf(sink'.key) = KindOf(k) => Follows(sink'.key, k)
  BY <1>2 DEF StoreLine, InStore
<1>7. \A d \in DerivedKinds : emitting'[d] # NoKey =>
        KindOf(emitting'[d]) = d /\ emitting'[d].ts <= now' /\ emitting'[d].id \in seen'
  BY <1>1 DEF StoreLine
<1>8. QED
  BY <1>4, <1>5, <1>6, <1>7 DEF StoreLine

LEMMA DeriveLine ==
  ASSUME StoreForm, StoreLine, NEW i \in Ids, Derive(i)
  PROVE  StoreLine'
<1> USE StoreAssumption
<1> DEFINE x == [ts |-> now, id |-> i]
<1>1. /\ i \notin seen /\ seen' = seen \cup {i} /\ Kind[i] \in DerivedKinds
      /\ emitting' = [emitting EXCEPT ![Kind[i]] = x]
      /\ now' = now /\ queue' = queue /\ sink' = sink
      /\ \A k \in AnyKey : InStore(k)' = InStore(k)
  BY DEF Derive, Derived, Raw, InStore, tables, history
<1>2. /\ x.ts = now /\ x.id = i
      /\ emitting' \in [DerivedKinds -> AnyKey \cup {NoKey}]
      /\ \A d \in DerivedKinds : emitting'[d] = IF d = Kind[i] THEN x ELSE emitting[d]
  BY <1>1 DEF StoreForm, AnyKey
<1> HIDE DEF x
<1>3. ASSUME NEW k \in AnyKey, NEW n \in Nat, Leads(k, n) PROVE Leads(k, n)'
  <2>1. KindOf(k) = Kind[i] => Follows(x, k)
    BY <1>1, <1>2, <1>3 DEF Leads, Follows
  <2>2. KindOf(k) \in DerivedKinds
    BY <1>3 DEF Leads, IsDerived
  <2>3. QED
    BY <1>1, <1>2, <1>3, <2>1, <2>2 DEF Leads
<1>4. \A d \in DerivedKinds : emitting'[d] # NoKey =>
        KindOf(emitting'[d]) = d /\ emitting'[d].ts <= now' /\ emitting'[d].id \in seen'
  <2>1. TAKE d \in DerivedKinds
  <2>2. HAVE emitting'[d] # NoKey
  <2>3. CASE d = Kind[i]
    BY <1>1, <1>2, <2>3 DEF KindOf, StoreForm
  <2>4. CASE d # Kind[i]
    BY <1>1, <1>2, <2>2, <2>4 DEF StoreLine
  <2>5. QED
    BY <2>3, <2>4
<1>5. \A j \in 1 .. Len(queue') : IsDerived(queue'[j]) => Leads(queue[j], j + 1)'
  <2>1. TAKE j \in 1 .. Len(queue')
  <2>2. PICK y \in AnyKey : y = queue[j]
    BY <1>1 DEF StoreForm
  <2>3. IsDerived(y) => Leads(y, j + 1)
    BY <1>1, <2>2 DEF StoreLine
  <2>4. IsDerived(y) => Leads(y, j + 1)'
    BY <1>3, <2>3
  <2>5. QED
    BY <1>1, <2>2, <2>4
<1>6. sink'.at = "audited" /\ IsDerived(sink'.key) => Leads(sink.key, 1)'
  BY <1>1, <1>3 DEF StoreLine, StoreForm
<1>7. \A k \in AnyKey : InStore(k)' =>
        /\ Leads(k, 1)'
        /\ sink'.at = "audited" /\ KindOf(sink'.key) = KindOf(k) => Follows(sink'.key, k)
  BY <1>1, <1>3 DEF StoreLine
<1>8. QED
  BY <1>4, <1>5, <1>6, <1>7 DEF StoreLine

(* The sink takes the head of its queue.                                   *)
LEMMA AuditLine ==
  ASSUME StoreForm, StoreLine, SinkAudits
  PROVE  StoreLine'
<1> USE StoreAssumption
<1>1. /\ queue \in Seq(AnyKey) /\ queue # <<>> /\ Len(queue) \in Nat \ {0}
      /\ Head(queue) = queue[1] /\ queue[1] \in AnyKey
      /\ Len(queue') = Len(queue) - 1 /\ queue' = Tail(queue)
      /\ \A j \in 1 .. Len(queue) - 1 : queue'[j] = queue[j + 1]
      /\ sink.at = "idle"
      /\ now' = now /\ seen' = seen /\ emitting' = emitting
      /\ \A k \in AnyKey : InStore(k)' = InStore(k)
      /\ sink' = sink \/ sink' = [at |-> "audited", key |-> Head(queue)]
  BY DEF SinkAudits, StoreForm, InStore, Idle
<1>2. ASSUME NEW k \in AnyKey, NEW n \in Nat \ {0}, Leads(k, n + 1) PROVE Leads(k, n)'
  <2>1. \A j \in 1 .. Len(queue) - 1 : n <= j /\ KindOf(queue[j + 1]) = KindOf(k)
          => Follows(queue[j + 1], k)
    <3>1. \A j \in 1 .. Len(queue) - 1 : j + 1 \in 1 .. Len(queue) /\ (n <= j => n + 1 <= j + 1)
      BY <1>1
    <3>2. \A j \in 1 .. Len(queue) : n + 1 <= j /\ KindOf(queue[j]) = KindOf(k) => Follows(queue[j], k)
      BY Zenon, <1>2 DEF Leads
    <3>3. QED
      BY Zenon, <3>1, <3>2
  <2>2. QED
    BY <1>1, <1>2, <2>1 DEF Leads
<1>3. ASSUME NEW k \in AnyKey, Leads(k, 1) PROVE Leads(k, 1)'
  <2>1. Leads(k, 1 + 1)
    <3>1. \A j \in 1 .. Len(queue) : 1 + 1 <= j => 1 <= j
      BY <1>1
    <3>2. QED
      BY Zenon, <1>3, <3>1 DEF Leads
  <2>2. QED
    BY <1>2, <2>1
<1>4. \A i \in 1 .. Len(queue') : IsDerived(queue'[i]) => Leads(queue[i], i + 1)'
  <2>1. SUFFICES ASSUME NEW i \in 1 .. Len(queue'), IsDerived(queue'[i])
                 PROVE  Leads(queue[i], i + 1)'
    OBVIOUS
  <2>2. PICK y \in AnyKey : y = queue[i + 1]
    BY <1>1
  <2>3. queue'[i] = y
    BY <1>1, <2>2
  <2>4. i + 1 \in 1 .. Len(queue) /\ i + 1 \in Nat \ {0} /\ IsDerived(queue[i + 1])
    BY <1>1, <2>1, <2>2, <2>3
  <2>5. Leads(y, (i + 1) + 1)
    BY <2>2, <2>4 DEF StoreLine
  <2>6. Leads(y, i + 1)'
    BY <1>2, <2>4, <2>5
  <2>7. QED
    BY <2>3, <2>6
<1>5. sink'.at = "audited" /\ IsDerived(sink'.key) => Leads(sink.key, 1)'
  <2>1. SUFFICES ASSUME sink'.at = "audited", IsDerived(sink'.key) PROVE Leads(sink.key, 1)'
    OBVIOUS
  <2>2. PICK y \in AnyKey : y = queue[1]
    BY <1>1
  <2>3. sink'.key = y
    BY <1>1, <2>1, <2>2
  <2>4. Leads(y, 2)
    BY <1>1, <2>1, <2>2, <2>3 DEF StoreLine
  <2>5. Leads(y, 1)'
    BY <1>2, <2>4
  <2>6. QED
    BY <2>3, <2>5
<1>6. \A k \in AnyKey : InStore(k)' =>
        /\ Leads(k, 1)'
        /\ sink'.at = "audited" /\ KindOf(sink'.key) = KindOf(k) => Follows(sink'.key, k)
  <2>1. SUFFICES ASSUME NEW k \in AnyKey, InStore(k)
                 PROVE  /\ Leads(k, 1)'
                        /\ sink'.at = "audited" /\ KindOf(sink'.key) = KindOf(k)
                             => Follows(sink'.key, k)
    BY <1>1
  <2>2. Leads(k, 1)
    BY <2>1 DEF StoreLine
  <2>3. sink'.at = "audited" => sink'.key = queue[1]
    BY <1>1
  <2>4. KindOf(queue[1]) = KindOf(k) => Follows(queue[1], k)
    BY <1>1, <2>2 DEF Leads
  <2>5. QED
    BY <1>3, <2>2, <2>3, <2>4
<1>7. \A d \in DerivedKinds : emitting'[d] # NoKey =>
        KindOf(emitting'[d]) = d /\ emitting'[d].ts <= now' /\ emitting'[d].id \in seen'
  BY <1>1 DEF StoreLine
<1>8. QED
  BY <1>4, <1>5, <1>6, <1>7 DEF StoreLine

(* What it stores was at the head of the line, and is now behind it.       *)
LEMMA StoresLine ==
  ASSUME StoreForm, StoreLine, SinkStores
  PROVE  StoreLine'
<1>1. /\ sink.at = "audited" /\ sink.key \in AnyKey /\ sink'.at = "stored"
      /\ now' = now /\ seen' = seen /\ emitting' = emitting /\ queue' = queue
      /\ confirmed' = confirmed
  BY DEF SinkStores, StoreForm, history
<1>2. ASSUME NEW k \in AnyKey, InStore(k)' PROVE InStore(k) \/ (k = sink.key /\ IsDerived(k))
  <2>1. CASE Kind[sink.key.id] = "alert"
    <3>1. /\ DOMAIN alerts' = DOMAIN alerts \cup {sink.key} /\ cell' = cell
      BY <2>1 DEF SinkStores, WithAlert, CellKinds
    <3>2. QED
      BY <1>1, <1>2, <2>1, <3>1 DEF InStore, IsDerived, KindOf, DerivedKinds
  <2>2. CASE Kind[sink.key.id] \in CellKinds
    <3>1. alerts' = alerts /\ cell' = [cell EXCEPT ![CellOf(sink.key)] = sink.key]
      BY <2>2 DEF SinkStores, CellKinds
    <3>2. \A c \in Cells : cell'[c] \in {cell[c], sink.key}
      BY <3>1 DEF StoreForm
    <3>3. QED
      BY <1>1, <1>2, <2>2, <3>1, <3>2 DEF InStore, IsDerived, KindOf, DerivedKinds
  <2>3. CASE Kind[sink.key.id] # "alert" /\ Kind[sink.key.id] \notin CellKinds
    BY <1>1, <1>2, <2>3 DEF SinkStores, InStore
  <2>4. QED
    BY <2>1, <2>2, <2>3
<1>3. ASSUME NEW k \in AnyKey, NEW n \in Nat, Leads(k, n) PROVE Leads(k, n)'
  BY <1>1, <1>3 DEF Leads
<1>4. \A k \in AnyKey : InStore(k)' => Leads(k, 1)'
  BY <1>1, <1>2, <1>3 DEF StoreLine
<1>5. \A i \in 1 .. Len(queue') : IsDerived(queue'[i]) => Leads(queue[i], i + 1)'
  <2>1. queue \in Seq(AnyKey) /\ Len(queue) \in Nat
    BY Zenon, LenProperties DEF StoreForm
  <2>2. SUFFICES ASSUME NEW i \in 1 .. Len(queue), IsDerived(queue[i]) PROVE Leads(queue[i], i + 1)'
    BY Zenon, <1>1
  <2>3. queue[i] \in AnyKey
    BY Zenon, <2>1, ElementOfSeq
  <2>4. i + 1 \in Nat
    BY <2>1
  <2>5. Leads(queue[i], i + 1)
    BY Zenon, <2>2 DEF StoreLine
  <2>6. QED
    <3>1. PICK y \in AnyKey : y = queue[i]
      BY Zenon, <2>3
    <3>2. Leads(y, i + 1)
      BY Zenon, <2>5, <3>1
    <3>3. Leads(y, i + 1)'
      BY Zenon, <1>3, <2>4, <3>2
    <3>4. y = queue'[i]
      BY Zenon, <1>1, <3>1
    <3>5. QED
      BY Zenon, <3>3, <3>4
<1>6. QED
  BY <1>1, <1>4, <1>5 DEF StoreLine

LEMMA RestartLine ==
  ASSUME StoreForm, StoreLine, Restart
  PROVE  StoreLine'
<1>1. /\ seen' = seen \ Raw /\ now' = now /\ Len(queue') = 0 /\ sink'.at = "idle"
      /\ \A d \in DerivedKinds : emitting'[d] = NoKey
      /\ \A k \in AnyKey : InStore(k)' = InStore(k)
  BY DEF Restart, Idle, InStore, tables
<1>2. ASSUME NEW k \in AnyKey, Leads(k, 1) PROVE Leads(k, 1)'
  <2>1. k.id \notin Raw
    BY <1>2 DEF Leads, IsDerived, KindOf, Raw
  <2>2. QED
    BY <1>1, <1>2, <2>1 DEF Leads, IsDerived
<1>3. QED
  BY <1>1, <1>2 DEF StoreLine

LEMMA NextStoreLine ==
  StoreForm /\ StoreLine /\ StorePlaces /\ [StoreNext]_storeVars => StoreLine'
<1> SUFFICES ASSUME StoreForm, StoreLine, StorePlaces, [StoreNext]_storeVars PROVE StoreLine'
  OBVIOUS
<1> USE StoreAssumption
<1>0. StoreForm'
  BY NextStoreForm
<1>1. CASE storeVars' = storeVars \/ Tick
  <2>1. now <= now' /\ seen' = seen /\ emitting' = emitting /\ queue' = queue /\ sink' = sink
    BY <1>1 DEF storeVars, Tick, tables, tasks, history, StoreForm
  <2>2. \A k \in AnyKey : InStore(k)' => InStore(k)
    BY <1>1 DEF storeVars, Tick, tables, tasks, history, InStore
  <2>3. QED
    BY <1>0, <2>1, <2>2, LineKept
<1>2. ASSUME NEW i \in Ids, IngestWrites(i) PROVE StoreLine'
  <2>1. /\ now' = now /\ seen \subseteq seen' /\ emitting' = emitting /\ queue' = queue
        /\ sink' = sink
    BY <1>2 DEF IngestWrites
  <2>2. \A k \in AnyKey : InStore(k)' => InStore(k)
    BY <1>2 DEF IngestWrites, InStore
  <2>3. QED
    BY <1>0, <2>1, <2>2, LineKept DEF StoreForm
<1>3. CASE IngestEmits
  <2>1. ingest \in AnyKey
    BY <1>3 DEF IngestEmits, StoreForm
  <2>2. /\ now' = now /\ seen' = seen /\ emitting' = emitting /\ sink' = sink /\ alerts' = alerts
        /\ confirmed' = confirmed /\ cell' = cell
    BY <1>3 DEF IngestEmits, tables, history
  <2>3. CASE queue' = queue
    <3>1. \A k \in AnyKey : InStore(k)' => InStore(k)
      BY <2>2 DEF InStore
    <3>2. QED
      BY <1>0, <2>2, <2>3, <3>1, LineKept DEF StoreForm
  <2>4. CASE Kind[ingest.id] = "heartbeat" /\ queue' = Append(queue, ingest)
    <3>1. ~IsDerived(ingest)
      BY <2>4 DEF IsDerived, KindOf, DerivedKinds, CellKinds
    <3>2. QED
      BY <2>1, <2>2, <2>4, <3>1, LineLonger
  <2>5. QED
    BY <1>3, <2>3, <2>4 DEF IngestEmits
<1>4. ASSUME NEW i \in Ids, Derive(i) PROVE StoreLine'
  BY <1>4, DeriveLine
<1>5. ASSUME NEW d \in DerivedKinds, EmitDerived(d) PROVE StoreLine'
  <2>1. emitting[d] \in AnyKey
    BY <1>5 DEF EmitDerived, StoreForm
  <2>2. /\ queue' = Append(queue, emitting[d]) /\ sink' = sink /\ now' = now /\ seen' = seen
        /\ alerts' = alerts /\ confirmed' = confirmed /\ cell' = cell
        /\ emitting' = [emitting EXCEPT ![d] = NoKey]
    BY <1>5 DEF EmitDerived, tables, history
  <2>3. QED
    BY <2>1, <2>2, LineLonger
<1>6. CASE SinkAudits
  BY <1>6, AuditLine
<1>7. CASE SinkStores
  BY <1>7, StoresLine
<1>8. CASE SinkFails \/ SinkPublishes
  <2>1. now' = now /\ seen' = seen /\ emitting' = emitting /\ queue' = queue /\ sink'.at = "idle"
    BY <1>8 DEF SinkFails, SinkPublishes, Idle
  <2>2. \A k \in AnyKey : InStore(k)' => InStore(k)
    BY <1>8 DEF SinkFails, SinkPublishes, tables, InStore
  <2>3. QED
    BY <1>0, <2>1, <2>2, LineKept DEF StoreForm
<1>9. CASE Compact
  <2>1. /\ DOMAIN alerts' \subseteq DOMAIN alerts
        /\ UNCHANGED <<now, cell, seen, emitting, queue, sink, confirmed>>
    BY <1>9 DEF Compact, KeptAlerts, tasks
  <2>2. \A k \in AnyKey : InStore(k)' => InStore(k)
    BY <2>1 DEF InStore
  <2>3. QED
    BY <1>0, <2>1, <2>2, LineKept DEF StoreForm
<1>10. CASE Restart
  BY <1>10, RestartLine
<1>11. ASSUME NEW k \in Keys, AcknowledgeAlert(k) PROVE StoreLine'
  <2>1. /\ DOMAIN alerts' = DOMAIN alerts /\ confirmed' \subseteq DOMAIN alerts \cup confirmed
        /\ UNCHANGED <<now, cell, seen, emitting, queue, sink>>
    BY <1>11 DEF AcknowledgeAlert, tasks
  <2>2. \A j \in AnyKey : InStore(j)' => InStore(j)
    BY <2>1 DEF InStore
  <2>3. QED
    BY <1>0, <2>1, <2>2, LineKept DEF StoreForm
<1>12. QED
  BY <1>1, <1>2, <1>3, <1>4, <1>5, <1>6, <1>7, <1>8, <1>9, <1>10, <1>11 DEF StoreNext

LEMMA NextStorePlaces ==
  StoreForm /\ StorePlaces /\ [StoreNext]_storeVars => StorePlaces'
<1> SUFFICES ASSUME StoreForm, StorePlaces, [StoreNext]_storeVars PROVE StorePlaces'
  OBVIOUS
<1> USE StoreAssumption
<1>1. CASE storeVars' = storeVars \/ Tick \/ IngestEmits
  BY <1>1 DEF storeVars, Tick, IngestEmits, tables, tasks, history, StorePlaces
<1>2. ASSUME NEW i \in Ids, IngestWrites(i) \/ Derive(i) PROVE StorePlaces'
  BY <1>2, Ingested DEF Derive, tables, history, StorePlaces
<1>3. ASSUME NEW d \in DerivedKinds, EmitDerived(d) PROVE StorePlaces'
  BY <1>3 DEF EmitDerived, tables, history, StorePlaces
<1>4. CASE SinkAudits
  <2>1. sink'.at = "audited" => sink'.key \in events'
    BY <1>4, Audited DEF Idle
  <2>2. QED
    BY <1>4, <2>1, Audited DEF StorePlaces
<1>5. CASE SinkStores
  <2>1. sink'.at = "stored" /\ sink.key \in AnyKey /\ confirmed' = confirmed
    BY <1>5 DEF SinkStores, StoreForm, history
  <2>2. \A k \in DOMAIN alerts' : k \in DOMAIN alerts \/ KindOf(k) = "alert"
    BY <1>5 DEF SinkStores, WithAlert, KindOf
  <2>3. \A c \in Cells : cell'[c] = cell[c] \/ (cell'[c] = sink.key /\ CellOf(sink.key) = c)
    BY <1>5 DEF SinkStores, StoreForm
  <2>4. QED
    BY <2>1, <2>2, <2>3 DEF StorePlaces
<1>6. CASE SinkFails \/ SinkPublishes
  BY <1>6 DEF SinkFails, SinkPublishes, tables, StorePlaces, Idle
<1>7. CASE Compact
  <2>1. PICK t \in Retention .. now : LET cutoff == t - Retention IN
          /\ events' = {k \in events : k.ts >= cutoff}
          /\ alerts' = [k \in KeptAlerts(cutoff) |-> alerts[k]]
          /\ pruned' = IF cutoff > pruned THEN cutoff ELSE pruned
          /\ UNCHANGED <<now, cell, tasks, faults, restarts, evicted, torn, confirmed>>
    BY <1>7 DEF Compact
  <2>2. sink' = sink /\ cell' = cell /\ confirmed' = confirmed /\ DOMAIN alerts' \subseteq DOMAIN alerts
    BY <2>1 DEF tasks, KeptAlerts
  <2>p. now \in Nat /\ pruned \in Nat /\ Retention \in Nat
    BY Zenon DEF StoreForm
  <2>3. t - Retention \in Nat /\ pruned' \in Nat /\ pruned' >= pruned /\ pruned' >= t - Retention
    <3>1. t - Retention \in Nat
      BY <2>p
    <3>2. pruned' = IF t - Retention > pruned THEN t - Retention ELSE pruned
      BY Zenon, <2>1
    <3>3. QED
      BY <2>p, <3>1, <3>2
  <2>4. sink.at = "audited" => sink.key \in events' \/ sink.key.ts < pruned'
    <3>1. HAVE sink.at = "audited"
    <3>2. sink.key.ts \in Nat
      BY <3>1 DEF StoreForm, AnyKey
    <3>3. CASE sink.key \in events
      <4>1. CASE sink.key.ts >= t - Retention
        BY Zenon, <2>1, <3>3, <4>1
      <4>2. CASE ~(sink.key.ts >= t - Retention)
        BY <2>3, <3>2, <4>2
      <4>3. QED
        BY Zenon, <4>1, <4>2
    <3>4. CASE sink.key.ts < pruned
      BY <2>3, <2>p, <3>2, <3>4
    <3>5. QED
      BY <3>1, <3>3, <3>4 DEF StorePlaces
  <2>5. QED
    BY <2>2, <2>4 DEF StorePlaces
<1>8. CASE Restart
  BY <1>8 DEF Restart, tables, StorePlaces, Idle
<1>9. ASSUME NEW k \in Keys, AcknowledgeAlert(k) PROVE StorePlaces'
  BY <1>9 DEF AcknowledgeAlert, tasks, StorePlaces
<1>10. QED
  BY <1>1, <1>2, <1>3, <1>4, <1>5, <1>6, <1>7, <1>8, <1>9 DEF StoreNext

(* An alert that is in the feed has its event in the audit log, and loses  *)
(* it to retention only together with the event.                           *)
LEMMA NextFeedAudited ==
  ASSUME StoreForm, StorePlaces, [StoreNext]_storeVars,
         \A k \in DOMAIN alerts : k \in events \/ k.ts < pruned
  PROVE  \A k \in DOMAIN alerts' : k \in events' \/ k.ts < pruned'
<1> USE StoreAssumption
<1>1. CASE storeVars' = storeVars \/ Tick \/ IngestEmits \/ SinkFails \/ SinkPublishes \/ Restart
  BY <1>1 DEF storeVars, Tick, IngestEmits, SinkFails, SinkPublishes, Restart, tables, tasks, history
<1>2. ASSUME NEW i \in Ids, IngestWrites(i) \/ Derive(i)
      PROVE  \A k \in DOMAIN alerts' : k \in events' \/ k.ts < pruned'
  BY <1>2, Ingested DEF Derive, tables, history
<1>3. ASSUME NEW d \in DerivedKinds, EmitDerived(d)
      PROVE  \A k \in DOMAIN alerts' : k \in events' \/ k.ts < pruned'
  BY <1>3 DEF EmitDerived, tables, history
<1>4. CASE SinkAudits
  BY <1>4, Audited
<1>5. CASE SinkStores
  <2>1. sink.key \in events \/ sink.key.ts < pruned
    BY <1>5 DEF SinkStores, StorePlaces
  <2>2. \A k \in DOMAIN alerts' : k \in DOMAIN alerts \/ k = sink.key
    BY <1>5 DEF SinkStores, WithAlert
  <2>3. QED
    BY <1>5, <2>1, <2>2 DEF SinkStores, history
<1>6. CASE Compact
  <2>1. PICK t \in Retention .. now : LET cutoff == t - Retention IN
          /\ events' = {k \in events : k.ts >= cutoff}
          /\ alerts' = [k \in KeptAlerts(cutoff) |-> alerts[k]]
          /\ pruned' = IF cutoff > pruned THEN cutoff ELSE pruned
    BY <1>6 DEF Compact
  <2>2. t - Retention \in Nat /\ now \in Nat /\ pruned \in Nat
    BY DEF StoreForm
  <2>3. \A k \in DOMAIN alerts' : k \in DOMAIN alerts /\ k.ts >= t - Retention /\ k.ts \in Nat
    BY <2>1 DEF KeptAlerts, StoreForm, AnyKey
  <2>4. ASSUME NEW k \in DOMAIN alerts' PROVE k \in events' \/ k.ts < pruned'
    <3>1. k \in events \/ k.ts < pruned
      BY Zenon, <2>3
    <3>2. CASE k \in events
      BY Zenon, <2>1, <2>3, <3>2
    <3>3. CASE k.ts < pruned
      <4>1. pruned' = IF t - Retention > pruned THEN t - Retention ELSE pruned
        BY Zenon, <2>1
      <4>2. k.ts \in Nat
        BY Zenon, <2>3
      <4>3. QED
        BY <2>2, <3>3, <4>1, <4>2
    <3>4. QED
      BY Zenon, <3>1, <3>2, <3>3
  <2>5. QED
    BY Zenon, <2>4
<1>7. ASSUME NEW k \in Keys, AcknowledgeAlert(k)
      PROVE  \A j \in DOMAIN alerts' : j \in events' \/ j.ts < pruned'
  BY <1>7 DEF AcknowledgeAlert
<1>8. QED
  BY <1>1, <1>2, <1>3, <1>4, <1>5, <1>6, <1>7 DEF StoreNext

(* What of an audited event must be there as well.                         *)
Reflected(k) ==
  \/ k \in torn \/ sink = [at |-> "audited", key |-> k]
  \/ Kind[k.id] = "alert" /\ k \in DOMAIN alerts
  \/ Kind[k.id] \in CellKinds /\ cell[CellOf(k)] # NoKey /\ cell[CellOf(k)].ts >= k.ts

LEMMA NextReflected ==
  ASSUME StoreForm, StoreLine, StorePlaces, [StoreNext]_storeVars,
         \A k \in {j \in events : Kind[j.id] \in DerivedKinds} : Reflected(k)
  PROVE  \A k \in {j \in events : Kind[j.id] \in DerivedKinds}' : Reflected(k)'
<1> USE StoreAssumption
<1>0. SUFFICES ASSUME NEW k \in events', Kind[k.id] \in DerivedKinds PROVE Reflected(k)'
  OBVIOUS
<1>k. k \in AnyKey
  BY NextStoreForm DEF StoreForm
<1>1. CASE storeVars' = storeVars \/ Tick \/ IngestEmits \/ (\E i \in Ids : Derive(i))
           \/ (\E d \in DerivedKinds : EmitDerived(d))
  <2>1. UNCHANGED <<events, torn, sink, alerts, cell>>
    BY <1>1 DEF storeVars, Tick, IngestEmits, Derive, EmitDerived, tables, tasks, history
  <2>2. QED
    BY <1>0, <2>1 DEF Reflected
<1>2. ASSUME NEW i \in Ids, IngestWrites(i) PROVE Reflected(k)'
  <2>1. i \in Raw /\ Sanitized(i).id = i
    BY <1>2 DEF IngestWrites, Sanitized
  <2>2. k \in events
    BY <1>0, <1>2, <2>1, Ingested DEF Raw
  <2>3. QED
    BY <1>0, <1>2, <2>2, Ingested DEF Reflected
<1>3. CASE SinkAudits
  <2>1. UNCHANGED <<torn, alerts, cell>> /\ sink = Idle
    BY <1>3, Audited
  <2>2. k \in events => Reflected(k)'
    BY <1>0, <2>1 DEF Reflected, Idle
  <2>3. k \in events \/ sink' = [at |-> "audited", key |-> k]
    BY <1>3, Audited
  <2>4. QED
    BY <2>2, <2>3 DEF Reflected
<1>4. CASE SinkStores
  <2>1. k \in events /\ torn' = torn /\ sink.at = "audited" /\ sink.key \in AnyKey
    BY <1>4 DEF SinkStores, StoreForm, history
  <2>2. Reflected(k)
    BY <1>0, <2>1
  <2>3. CASE k = sink.key
    <3>1. CASE Kind[k.id] = "alert"
      BY <1>4, <2>3, <3>1 DEF SinkStores, WithAlert, Reflected
    <3>2. CASE Kind[k.id] \in CellKinds
      <4>1. CellOf(k) \in Cells
        BY <1>k, <3>2 DEF CellOf, Cells, AnyKey
      <4>2. cell'[CellOf(k)] = k
        BY <1>4, <2>3, <3>2, <4>1 DEF SinkStores, StoreForm
      <4>3. k # NoKey /\ k.ts >= k.ts
        BY <1>k DEF AnyKey
      <4>4. QED
        BY <3>2, <4>2, <4>3 DEF Reflected
    <3>3. QED
      BY <1>0, <3>1, <3>2 DEF DerivedKinds
  <2>4. CASE k # sink.key
    <3>1. DOMAIN alerts \subseteq DOMAIN alerts'
      BY <1>4 DEF SinkStores, WithAlert
    <3>2. ASSUME Kind[k.id] \in CellKinds, cell[CellOf(k)] # NoKey, cell[CellOf(k)].ts >= k.ts
          PROVE  cell'[CellOf(k)] # NoKey /\ cell'[CellOf(k)].ts >= k.ts
      <4>1. CellOf(k) \in Cells
        BY <1>k, <3>2 DEF CellOf, Cells, AnyKey
      <4>2. PICK c \in AnyKey : c = cell[CellOf(k)]
        BY <3>2, <4>1 DEF StoreForm
      <4>3. InStore(c) /\ CellOf(c) = CellOf(k)
        BY <3>2, <4>1, <4>2 DEF InStore, StorePlaces
      <4>4. KindOf(sink.key) = KindOf(c) => c.ts <= sink.key.ts
        BY <2>1, <4>3 DEF StoreLine, Follows
      <4>5. cell'[CellOf(k)] = c \/ (cell'[CellOf(k)] = sink.key /\ CellOf(sink.key) = CellOf(k))
        BY <1>4, <4>1, <4>2 DEF SinkStores, StoreForm
      <4>6. CellOf(sink.key) = CellOf(k) => KindOf(sink.key) = KindOf(c)
        BY <4>3 DEF CellOf, KindOf
      <4>7. c.ts \in Nat /\ k.ts \in Nat /\ sink.key.ts \in Nat /\ sink.key # NoKey
        BY <1>k, <2>1 DEF AnyKey
      <4>8. QED
        BY <3>2, <4>2, <4>4, <4>5, <4>6, <4>7
    <3>3. QED
      BY <2>1, <2>2, <2>4, <3>1, <3>2 DEF Reflected
  <2>5. QED
    BY <2>3, <2>4
<1>5. CASE SinkFails \/ Restart
  <2>1. UNCHANGED <<events, alerts, cell>>
        /\ torn' \in {torn, torn \cup {sink.key}} /\ (sink.at = "audited" => sink.key \in torn')
    BY <1>5 DEF SinkFails, Restart, tables
  <2>2. QED
    BY <1>0, <2>1 DEF Reflected
<1>6. CASE SinkPublishes
  <2>1. UNCHANGED <<events, torn, alerts, cell>> /\ sink.at = "stored"
    BY <1>6 DEF SinkPublishes, Publishable, tables
  <2>2. QED
    BY <1>0, <2>1 DEF Reflected
<1>7. CASE Compact
  <2>1. PICK t \in Retention .. now : LET cutoff == t - Retention IN
          /\ events' = {j \in events : j.ts >= cutoff}
          /\ alerts' = [j \in KeptAlerts(cutoff) |-> alerts[j]]
          /\ UNCHANGED <<now, cell, tasks, faults, restarts, evicted, torn, confirmed>>
    BY <1>7 DEF Compact
  <2>2. k \in events /\ (k \in DOMAIN alerts => k \in DOMAIN alerts')
    BY <1>0, <2>1 DEF KeptAlerts
  <2>3. QED
    BY <1>0, <2>1, <2>2 DEF Reflected, tasks
<1>8. ASSUME NEW j \in Keys, AcknowledgeAlert(j) PROVE Reflected(k)'
  <2>1. UNCHANGED <<events, torn, sink, cell>> /\ DOMAIN alerts' = DOMAIN alerts
    BY <1>8 DEF AcknowledgeAlert, tasks
  <2>2. QED
    BY <1>0, <2>1 DEF Reflected
<1>9. QED
  BY <1>1, <1>2, <1>3, <1>4, <1>5, <1>6, <1>7, <1>8 DEF StoreNext

(* No later alert comes with the id of one that was acknowledged, so no    *)
(* write sets an acknowledged row back.                                    *)
LEMMA NextAckHolds ==
  ASSUME StoreForm, StoreLine, StorePlaces, [StoreNext]_storeVars, AckHolds
  PROVE  AckHolds'
<1> USE StoreAssumption
<1>1. CASE ~(SinkStores \/ Compact \/ \E k \in Keys : AcknowledgeAlert(k))
  <2>1. UNCHANGED <<alerts, confirmed, pruned>>
    BY <1>1 DEF StoreNext, storeVars, Tick, IngestEmits, SinkAudits, SinkFails, SinkPublishes,
         Restart, IngestWrites, Derive, EmitDerived, tables, tasks, history
  <2>2. QED
    BY <2>1 DEF AckHolds
<1>2. CASE SinkStores
  <2>1. UNCHANGED <<confirmed, pruned>> /\ sink.at = "audited" /\ sink.key \in AnyKey
    BY <1>2 DEF SinkStores, StoreForm, history
  <2>2. ASSUME NEW k \in confirmed PROVE IF k \in DOMAIN alerts' THEN alerts'[k] ELSE k.ts < pruned'
    <3>1. InStore(k) /\ k \in AnyKey /\ KindOf(k) = "alert"
      BY <2>2 DEF InStore, StoreForm, StorePlaces
    <3>2. KindOf(sink.key) = "alert" => sink.key # k
      BY <2>1, <3>1 DEF StoreLine, Follows
    <3>3. /\ k \in DOMAIN alerts' <=> k \in DOMAIN alerts
          /\ k \in DOMAIN alerts => alerts'[k] = alerts[k]
      BY <1>2, <3>2 DEF SinkStores, WithAlert, KindOf
    <3>4. QED
      BY <2>1, <2>2, <3>3 DEF AckHolds
  <2>3. QED
    BY <2>1, <2>2 DEF AckHolds
<1>3. CASE Compact
  <2>1. PICK t \in Retention .. now : LET cutoff == t - Retention IN
          /\ alerts' = [j \in KeptAlerts(cutoff) |-> alerts[j]]
          /\ pruned' = IF cutoff > pruned THEN cutoff ELSE pruned
          /\ confirmed' = confirmed
    BY <1>3 DEF Compact
  <2>2. ASSUME NEW k \in confirmed PROVE IF k \in DOMAIN alerts' THEN alerts'[k] ELSE k.ts < pruned'
    <3>1. k.ts \in Nat /\ pruned \in Nat /\ t - Retention \in Nat
      BY DEF StoreForm, AnyKey
    <3>2. CASE k \in DOMAIN alerts'
      BY <2>1, <2>2, <3>2 DEF AckHolds, KeptAlerts
    <3>3. CASE k \in DOMAIN alerts /\ k \notin DOMAIN alerts'
      BY <2>1, <3>1, <3>3 DEF KeptAlerts
    <3>4. CASE k \notin DOMAIN alerts
      BY <2>1, <2>2, <3>1, <3>4 DEF AckHolds, KeptAlerts
    <3>5. QED
      BY <3>2, <3>3, <3>4
  <2>3. QED
    BY <2>1, <2>2 DEF AckHolds
<1>4. ASSUME NEW k \in Keys, AcknowledgeAlert(k) PROVE AckHolds'
  <2>1. /\ k \in DOMAIN alerts /\ alerts' = [alerts EXCEPT ![k] = TRUE]
        /\ confirmed' = confirmed \cup {k} /\ pruned' = pruned
    BY <1>4 DEF AcknowledgeAlert
  <2>2. DOMAIN alerts' = DOMAIN alerts /\ alerts'[k] = TRUE
        /\ \A j \in DOMAIN alerts : j # k => alerts'[j] = alerts[j]
    BY <2>1
  <2>3. QED
    BY <2>1, <2>2 DEF AckHolds
<1>5. QED
  BY <1>1, <1>2, <1>3, <1>4

LEMMA NextStoreInv == StoreInv /\ [StoreNext]_storeVars => StoreInv'
<1> SUFFICES ASSUME StoreInv, [StoreNext]_storeVars PROVE StoreInv'
  OBVIOUS
<1>1. StoreForm' /\ StoreLine' /\ StorePlaces'
  BY NextStoreForm, NextStoreLine, NextStorePlaces DEF StoreInv
<1>2. TablesAgree'
  BY NextFeedAudited, NextReflected DEF StoreInv, TablesAgree, Reflected
<1>3. AckHolds'
  BY NextAckHolds DEF StoreInv
<1>4. QED
  BY <1>1, <1>2, <1>3 DEF StoreInv

(* An alert in the operators' feed is in the audit log or was due for the  *)
(* sweep with it, and an audited detection, score or alert is in its own   *)
(* table unless handle was stopped between its two writes (sink.rs): with  *)
(* any number of agents and events, whatever is pruned, fails or is        *)
(* restarted in between.                                                   *)
THEOREM TablesStayInStep == StoreSpec => []TablesAgree
<1>1. StoreInit => StoreInv
  BY StoreInitInv
<1>2. StoreInv /\ [StoreNext]_storeVars => StoreInv'
  BY NextStoreInv
<1>3. StoreInv => TablesAgree
  BY DEF StoreInv
<1>4. QED
  BY <1>1, <1>2, <1>3, PTL DEF StoreSpec

(* An acknowledgement that was answered with 200 (api.rs) stays until      *)
(* retention takes the row: no write of the sink sets the row back.        *)
THEOREM AcknowledgementsStay == StoreSpec => []AckHolds
<1>1. StoreInit => StoreInv
  BY StoreInitInv
<1>2. StoreInv /\ [StoreNext]_storeVars => StoreInv'
  BY NextStoreInv
<1>3. StoreInv => AckHolds
  BY DEF StoreInv
<1>4. QED
  BY <1>1, <1>2, <1>3, PTL DEF StoreSpec

-----------------------------------------------------------------------------
(***************************************************************************)
(* Console.                                                                *)
(*                                                                         *)
(* An alert is settled when it is acknowledged in the store, or was raised *)
(* and is gone from it; no step unsettles one, since an alert's number is  *)
(* not given again.  The invariant says that whatever calls an alert       *)
(* acknowledged, the page, an answer that is still on its way or an        *)
(* acknowledgement that was granted, names a settled one.                  *)
(***************************************************************************)
Flags  == UNION {[D -> BOOLEAN] : D \in SUBSET Nat}
Bodies == {Nothing} \cup [CellSet -> Nat] \cup (SUBSET Owners) \cup Flags
Fetch  == [at : {"boot", "sent"}, body : Bodies]

ConsoleForm ==
  /\ raised \in Nat /\ alertLog \in Seq(Nat) /\ IsInjective(alertLog)
  /\ Range(alertLog) \subseteq 1 .. raised
  /\ version \in [CellSet -> Nat] /\ roster \subseteq Owners
  /\ fetches \in [Resources -> Seq(Fetch)]
  /\ clicks \in [AlertIds -> {"none", "sent", "ok", "not found"}]
  /\ shown \in [Resources -> {shown[r] : r \in Resources}]

Settled(i) == i \in 1 .. raised /\ (i \in acked \/ i \notin Range(alertLog))
Truthful(f) == f \in Flags /\ \A i \in DOMAIN f : f[i] => Settled(i)

ConsoleInv ==
  /\ ConsoleForm
  /\ \A x \in Range(fetches["alerts"]) : x.body # Nothing => Truthful(x.body)
  /\ \A i \in AlertIds : clicks[i] = "ok" => Settled(i)
  /\ Truthful(shown["alerts"])

(* What the server answers about alerts, when it reads its tables.         *)
LEMMA FirstRange ==
  ASSUME NEW S, NEW s \in Seq(S), NEW n \in Nat
  PROVE  First(s, n) \in Seq(S) /\ Range(First(s, n)) \subseteq Range(s)
<1> DEFINE m == IF n < Len(s) THEN n ELSE Len(s)
<1>1. m \in 0 .. Len(s) /\ First(s, n) = SubSeq(s, 1, m)
  BY DEF First
<1> HIDE DEF m
<1>2. /\ SubSeq(s, 1, m) \in Seq(S) /\ Len(SubSeq(s, 1, m)) = m
      /\ \A i \in 1 .. m : SubSeq(s, 1, m)[i] = s[i]
  BY <1>1
<1>3. QED
  BY <1>1, <1>2 DEF Range

LEMMA ReverseRange ==
  ASSUME NEW S, NEW s \in Seq(S)
  PROVE  Reverse(s) \in Seq(S) /\ Range(Reverse(s)) \subseteq Range(s)
<1>1. /\ Reverse(s) = [i \in 1 .. Len(s) |-> s[(Len(s) - i) + 1]] /\ Len(s) \in Nat
      /\ \A i \in 1 .. Len(s) : (Len(s) - i) + 1 \in 1 .. Len(s)
  BY DEF Reverse
<1>2. QED
  BY <1>1 DEF Range

LEMMA AlertsAnswered ==
  ASSUME ConsoleForm
  PROVE  Range(ListAlerts(Window, Nothing)) \subseteq Range(alertLog)
<1> USE ConsoleAssumption
<1> DEFINE recent == AlertsRecent(Window)
<1>1. Window \in Nat
  OBVIOUS
<1>2. recent \in Seq(Nat) /\ Range(recent) \subseteq Range(alertLog)
  <2>1. Reverse(alertLog) \in Seq(Nat) /\ Range(Reverse(alertLog)) \subseteq Range(alertLog)
    BY ReverseRange DEF ConsoleForm
  <2>2. QED
    BY <1>1, <2>1, FirstRange DEF AlertsRecent
<1>3. ListAlerts(Window, Nothing) = Truncate(recent, Window)
  BY <1>1 DEF ListAlerts
<1>4. Truncate(recent, Window) \in {recent, First(recent, Window)}
  BY DEF Truncate
<1> HIDE DEF recent
<1>5. Range(First(recent, Window)) \subseteq Range(recent)
  BY <1>1, <1>2, FirstRange
<1>6. QED
  BY <1>2, <1>3, <1>4, <1>5

LEMMA BodyForm ==
  ASSUME ConsoleForm
  PROVE  /\ \A r \in Resources : Body(r) \in Bodies
         /\ Truthful(Body("alerts"))
<1> DEFINE ids == Range(ListAlerts(Window, Nothing))
<1>1. ids \subseteq 1 .. raised /\ ids \subseteq Range(alertLog)
  BY AlertsAnswered DEF ConsoleForm
<1>2. Body("alerts") = [i \in ids |-> i \in acked]
  BY DEF Body
<1> HIDE DEF ids
<1>3. ids \in SUBSET Nat
  <2>1. raised \in Nat
    BY DEF ConsoleForm
  <2>2. 1 .. raised \subseteq Nat
    BY <2>1
  <2>3. QED
    BY <1>1, <2>2, Zenon
<1>4. Body("alerts") \in [ids -> BOOLEAN]
  <2>1. \A i \in ids : (i \in acked) \in BOOLEAN
    OBVIOUS
  <2>2. QED
    BY <1>2, <2>1, Zenon
<1>5. Body("alerts") \in Flags
  BY <1>3, <1>4 DEF Flags
<1>6. \A i \in ids : i \in acked => Settled(i)
  BY <1>1 DEF Settled
<1>7. Truthful(Body("alerts"))
  BY <1>2, <1>5, <1>6, Zenon DEF Truthful
<1>8. Body("cells") = version /\ Body("agents") = roster
  BY DEF Body
<1>9. Body("cells") \in Bodies /\ Body("agents") \in Bodies
  BY <1>8 DEF Bodies, ConsoleForm
<1>10. QED
  BY <1>5, <1>7, <1>9 DEF Resources, Bodies

LEMMA ConsoleInitInv == ConsoleInit => ConsoleInv
<1> SUFFICES ASSUME ConsoleInit PROVE ConsoleInv
  OBVIOUS
<1> USE ConsoleAssumption DEF ConsoleInit
<1>1. [Unanswered EXCEPT !.at = "boot"] = [at |-> "boot", body |-> Nothing]
  BY DEF Unanswered
<1>2. [at |-> "boot", body |-> Nothing] \in Fetch
  BY DEF Fetch, Bodies
<1> DEFINE b == [at |-> "boot", body |-> Nothing]
<1>3. b.body = Nothing /\ fetches = [r \in Resources |-> <<b>>]
  BY <1>1
<1> HIDE DEF b
<1>4. <<b>> \in Seq(Fetch) /\ Range(<<b>>) = {b}
  BY <1>2 DEF Range, b
<1>5. fetches \in [Resources -> Seq(Fetch)] /\ Range(fetches["alerts"]) = {b}
  BY <1>3, <1>4 DEF Resources
<1>6. IsInjective(alertLog) /\ Range(alertLog) = {} /\ alertLog \in Seq(Nat)
  BY DEF IsInjective, Range
<1>7. shown \in [Resources -> {shown[r] : r \in Resources}]
  <2>1. DOMAIN shown = Resources
    BY DEF Resources
  <2>2. shown = [r \in DOMAIN shown |-> shown[r]]
    OBVIOUS
  <2>3. QED
    BY <2>1, <2>2
<1>8. shown["alerts"] = <<>>
  OBVIOUS
<1>9. Truthful(<<>>)
  <2>1. <<>> \in [{} -> BOOLEAN] /\ {} \in SUBSET Nat
    OBVIOUS
  <2>2. <<>> \in Flags
    BY <2>1 DEF Flags
  <2>3. QED
    BY <2>2 DEF Truthful
<1>10. ConsoleForm
  BY <1>5, <1>6, <1>7 DEF ConsoleForm
<1>11. \A i \in AlertIds : clicks[i] # "ok"
  OBVIOUS
<1>12. QED
  BY <1>3, <1>5, <1>8, <1>9, <1>10, <1>11 DEF ConsoleInv

(* No step unsettles an alert.                                             *)
LEMMA SettledStays ==
  ASSUME ConsoleForm, [ConsoleNext]_consoleVars, NEW i, Settled(i)
  PROVE  Settled(i)'
<1> USE ConsoleAssumption
<1>0. i \in 1 .. raised /\ raised \in Nat
  BY DEF Settled, ConsoleForm
<1>1. CASE UNCHANGED <<alertLog, raised, acked>>
  BY <1>1 DEF Settled
<1>2. CASE AppendAlert
  <2>1. alertLog' = Append(alertLog, raised + 1) /\ raised' = raised + 1 /\ acked' = acked
    BY <1>2 DEF AppendAlert
  <2>2. alertLog \in Seq(Nat)
    BY DEF ConsoleForm
  <2>3. Range(alertLog') = Range(alertLog) \cup {raised + 1}
    <3>1. raised + 1 \in Nat
      BY <1>0
    <3>2. QED
      BY Zenon, <2>1, <2>2, <3>1, AppendRange
  <2>4. QED
    BY <1>0, <2>1, <2>3 DEF Settled
<1>3. CASE PruneOldest
  <2>1. /\ alertLog \in Seq(Nat) /\ alertLog # <<>> /\ alertLog' = Tail(alertLog)
        /\ raised' = raised /\ acked' = acked \ {Head(alertLog)}
    BY <1>3 DEF PruneOldest, ConsoleForm
  <2>2. Range(alertLog) = {Head(alertLog)} \cup Range(Tail(alertLog))
    BY <2>1, TailRange
  <2>3. Head(alertLog) \notin Range(Tail(alertLog))
    <3>1. /\ Head(alertLog) = alertLog[1] /\ Len(alertLog) \in Nat \ {0}
          /\ DOMAIN alertLog = 1 .. Len(alertLog)
          /\ DOMAIN Tail(alertLog) = 1 .. Len(alertLog) - 1
          /\ \A j \in 1 .. Len(alertLog) - 1 : Tail(alertLog)[j] = alertLog[j + 1]
      <4>1. Head(alertLog) = alertLog[1]
        BY <2>1
      <4>2. /\ Len(alertLog) \in Nat \ {0} /\ Tail(alertLog) \in Seq(Nat)
            /\ Len(Tail(alertLog)) = Len(alertLog) - 1
            /\ \A j \in 1 .. Len(Tail(alertLog)) : Tail(alertLog)[j] = alertLog[j + 1]
        BY Zenon, <2>1, EmptySeq, HeadTailProperties
      <4>3. /\ DOMAIN alertLog = 1 .. Len(alertLog)
            /\ DOMAIN Tail(alertLog) = 1 .. Len(Tail(alertLog))
        BY Zenon, <2>1, <4>2, LenProperties
      <4>4. QED
        BY Zenon, <4>1, <4>2, <4>3
    <3>2. \A j \in 1 .. Len(alertLog) - 1 : alertLog[j + 1] # alertLog[1]
      <4>1. TAKE j \in 1 .. Len(alertLog) - 1
      <4>2. 1 \in DOMAIN alertLog /\ j + 1 \in DOMAIN alertLog /\ j + 1 # 1
        BY <3>1
      <4>3. QED
        BY <4>2 DEF ConsoleForm, IsInjective
    <3>3. QED
      BY <3>1, <3>2 DEF Range
  <2>4. QED
    BY <2>1, <2>2, <2>3 DEF Settled
<1>4. ASSUME NEW j \in AlertIds, AckAlert(j) PROVE Settled(i)'
  <2>1. alertLog' = alertLog /\ raised' = raised /\ acked \subseteq acked'
    BY <1>4 DEF AckAlert
  <2>2. QED
    BY <2>1 DEF Settled
<1>5. ASSUME consoleVars' # consoleVars, ~AppendAlert, ~PruneOldest, ~\E j \in AlertIds : AckAlert(j)
      PROVE  UNCHANGED <<alertLog, raised, acked>>
  <2>1. CASE \E c \in CellSet : Upsert(c)
    BY <2>1 DEF Upsert
  <2>2. CASE \E a \in Owners : Heartbeat(a) \/ Enroll(a)
    BY <2>2 DEF Heartbeat, Enroll, stored
  <2>3. CASE Publish \/ Poll \/ OpenLiveFeed \/ ConnectFeed \/ Disconnect
    BY <2>3 DEF Publish, Poll, OpenLiveFeed, ConnectFeed, Disconnect, stored
  <2>4. CASE \E r \in Resources : \E j \in DOMAIN fetches[r] : Serve(r, j) \/ Arrive(r, j) \/ Fails(r, j)
    BY <2>4 DEF Serve, Arrive, Fails, stored
  <2>5. CASE \E j \in AlertIds : ClickAck(j) \/ AckAnswered(j) \/ AckFails(j)
    BY <2>5 DEF ClickAck, AckAnswered, AckFails, stored
  <2>6. CASE OnCell \/ OnAlert \/ OnAgentSeen
    BY <2>6 DEF OnCell, OnAlert, OnAgentSeen, Received, stored
  <2>7. QED
    BY <1>5, <2>1, <2>2, <2>3, <2>4, <2>5, <2>6 DEF ConsoleNext
<1>6. CASE consoleVars' = consoleVars
  BY <1>6 DEF consoleVars, stored, Settled
<1>7. QED
  BY <1>1, <1>2, <1>3, <1>4, <1>5, <1>6

LEMMA TruthfulStays ==
  ASSUME ConsoleForm, [ConsoleNext]_consoleVars, NEW f, Truthful(f)
  PROVE  Truthful(f)'
  BY SettledStays DEF Truthful

(* Requests: what is asked, answered and forgotten.                        *)
LEMMA AskedForm ==
  ASSUME ConsoleForm, NEW rs, fetches' = Asked(rs)
  PROVE  /\ fetches' \in [Resources -> Seq(Fetch)]
         /\ \A x \in Range(fetches'["alerts"]) : x \in Range(fetches["alerts"]) \/ x.body = Nothing
<1>1. Unanswered \in Fetch /\ Unanswered.body = Nothing
  BY DEF Unanswered, Fetch, Bodies
<1>f. fetches \in [Resources -> Seq(Fetch)]
  BY DEF ConsoleForm
<1>2. \A r \in Resources : /\ Append(fetches[r], Unanswered) \in Seq(Fetch)
                           /\ Range(Append(fetches[r], Unanswered)) = Range(fetches[r]) \cup {Unanswered}
  BY <1>1, <1>f, AppendRange
<1>3. /\ fetches' \in [Resources -> Seq(Fetch)]
      /\ \A r \in Resources : Range(fetches'[r]) \subseteq Range(fetches[r]) \cup {Unanswered}
  BY <1>2, <1>f DEF Asked
<1>4. "alerts" \in Resources
  BY DEF Resources
<1>5. QED
  BY <1>1, <1>3, <1>4

LEMMA ServedForm ==
  ASSUME ConsoleForm, NEW r \in Resources, NEW i \in DOMAIN fetches[r],
         fetches' = [fetches EXCEPT ![r][i].body = Body(r)]
  PROVE  /\ fetches' \in [Resources -> Seq(Fetch)]
         /\ \A x \in Range(fetches'["alerts"]) :
              x \in Range(fetches["alerts"]) \/ x.body = Body("alerts")
<1> DEFINE q == fetches[r]
           y == [q[i] EXCEPT !.body = Body(r)]
           p == [q EXCEPT ![i] = y]
<1>f. fetches \in [Resources -> Seq(Fetch)]
  BY DEF ConsoleForm
<1>1. q \in Seq(Fetch) /\ q[i] \in Fetch /\ Body(r) \in Bodies
  BY <1>f, BodyForm
<1>2. y \in Fetch /\ y.body = Body(r)
  BY <1>1 DEF Fetch
<1>3. fetches' = [fetches EXCEPT ![r] = p]
  OBVIOUS
<1> HIDE DEF y
<1>4. p \in Seq(Fetch) /\ Range(p) \subseteq Range(q) \cup {y}
  BY <1>1, <1>2 DEF Range
<1> HIDE DEF p, q
<1>5. fetches' \in [Resources -> Seq(Fetch)]
  BY <1>f, <1>3, <1>4
<1>6. fetches'["alerts"] = IF r = "alerts" THEN p ELSE fetches["alerts"]
  BY <1>f, <1>3 DEF Resources
<1>7. QED
  BY <1>2, <1>4, <1>5, <1>6 DEF q

LEMMA ForgottenForm ==
  ASSUME ConsoleForm, NEW r \in Resources, NEW i \in DOMAIN fetches[r],
         fetches' = [fetches EXCEPT ![r] = RemoveAt(@, i)]
  PROVE  /\ fetches' \in [Resources -> Seq(Fetch)]
         /\ Range(fetches'["alerts"]) \subseteq Range(fetches["alerts"])
<1> DEFINE p == RemoveAt(fetches[r], i)
<1>f. fetches \in [Resources -> Seq(Fetch)]
  BY DEF ConsoleForm
<1>1. fetches[r] \in Seq(Fetch) /\ i \in 1 .. Len(fetches[r])
  BY <1>f
<1>2. p \in Seq(Fetch) /\ Range(p) \subseteq Range(fetches[r])
  <2>1. ASSUME NEW s \in Seq(Fetch), NEW j \in 1 .. Len(s)
        PROVE  RemoveAt(s, j) \in Seq(Fetch) /\ Range(s) = Range(RemoveAt(s, j)) \cup {s[j]}
    BY RemoveAtRange
  <2>2. p \in Seq(Fetch) /\ Range(fetches[r]) = Range(p) \cup {fetches[r][i]}
    BY Zenon, <1>1, <2>1
  <2>3. QED
    BY Zenon, <2>2
<1>3. fetches' = [fetches EXCEPT ![r] = p]
  OBVIOUS
<1> HIDE DEF p
<1>4. fetches' \in [Resources -> Seq(Fetch)]
  BY <1>f, <1>2, <1>3
<1>5. fetches'["alerts"] = IF r = "alerts" THEN p ELSE fetches["alerts"]
  BY <1>f, <1>3 DEF Resources
<1>6. QED
  BY <1>2, <1>4, <1>5

LEMMA NextAlertLog ==
  ASSUME ConsoleForm, [ConsoleNext]_consoleVars
  PROVE  /\ raised' \in Nat /\ alertLog' \in Seq(Nat) /\ IsInjective(alertLog')
         /\ Range(alertLog') \subseteq 1 .. raised'
         /\ version' \in [CellSet -> Nat] /\ roster' \subseteq Owners
<1>0. /\ raised \in Nat /\ alertLog \in Seq(Nat) /\ IsInjective(alertLog)
      /\ Range(alertLog) \subseteq 1 .. raised
      /\ version \in [CellSet -> Nat] /\ roster \subseteq Owners
  BY DEF ConsoleForm
<1>1. CASE AppendAlert
  <2>1. /\ alertLog' = Append(alertLog, raised + 1) /\ raised' = raised + 1
        /\ version' = version /\ roster' = roster
    BY <1>1 DEF AppendAlert
  <2>2. alertLog' \in Seq(Nat) /\ Range(alertLog') = Range(alertLog) \cup {raised + 1}
    <3>1. alertLog \in Seq(Nat) /\ raised + 1 \in Nat
      BY <1>0
    <3>2. QED
      BY Zenon, <2>1, <3>1, AppendRange
  <2>3. IsInjective(alertLog')
    <3>1. raised + 1 \notin Range(alertLog)
      BY <1>0
    <3>2. /\ Len(alertLog) \in Nat /\ DOMAIN alertLog' = 1 .. Len(alertLog) + 1
          /\ DOMAIN alertLog = 1 .. Len(alertLog)
          /\ \A j \in 1 .. Len(alertLog) : alertLog'[j] = alertLog[j]
          /\ alertLog'[Len(alertLog) + 1] = raised + 1
      BY <1>0, <2>1
    <3>3. \A j \in DOMAIN alertLog : alertLog[j] # raised + 1
      BY <3>1 DEF Range
    <3>4. SUFFICES ASSUME NEW a \in DOMAIN alertLog', NEW b \in DOMAIN alertLog',
                          alertLog'[a] = alertLog'[b]
                   PROVE  a = b
      BY DEF IsInjective
    <3>5. \/ a \in DOMAIN alertLog /\ b \in DOMAIN alertLog
          \/ a = Len(alertLog) + 1 /\ b = Len(alertLog) + 1
      BY <3>2, <3>3, <3>4
    <3>6. CASE a \in DOMAIN alertLog /\ b \in DOMAIN alertLog
      BY <1>0, <3>2, <3>4, <3>6 DEF IsInjective
    <3>7. QED
      BY <3>5, <3>6
  <2>4. QED
    BY <1>0, <2>1, <2>2, <2>3
<1>2. CASE PruneOldest
  <2>1. /\ alertLog' = Tail(alertLog) /\ alertLog # <<>> /\ raised' = raised
        /\ version' = version /\ roster' = roster
    BY <1>2 DEF PruneOldest
  <2>2. alertLog' \in Seq(Nat) /\ Range(alertLog') \subseteq Range(alertLog)
    BY <1>0, <2>1, TailRange
  <2>3. IsInjective(alertLog')
    <3>1. /\ Len(alertLog) \in Nat \ {0} /\ DOMAIN alertLog' = 1 .. Len(alertLog) - 1
          /\ \A j \in 1 .. Len(alertLog) - 1 : alertLog'[j] = alertLog[j + 1]
      BY <1>0, <2>1
    <3>2. SUFFICES ASSUME NEW a \in DOMAIN alertLog', NEW b \in DOMAIN alertLog',
                          alertLog'[a] = alertLog'[b]
                   PROVE  a = b
      BY DEF IsInjective
    <3>3. a \in 1 .. Len(alertLog) - 1 /\ b \in 1 .. Len(alertLog) - 1
      BY <3>1, <3>2
    <3>4. alertLog[a + 1] = alertLog[b + 1]
      BY <3>1, <3>2, <3>3
    <3>5. a + 1 \in DOMAIN alertLog /\ b + 1 \in DOMAIN alertLog
      BY <1>0, <3>1, <3>3
    <3>6. a + 1 = b + 1
      BY <1>0, <3>4, <3>5 DEF IsInjective
    <3>7. QED
      BY <3>1, <3>3, <3>6
  <2>4. QED
    BY <1>0, <2>1, <2>2, <2>3
<1>3. ASSUME NEW c \in CellSet, Upsert(c)
      PROVE  alertLog' = alertLog /\ raised' = raised /\ version' \in [CellSet -> Nat] /\ roster' = roster
  BY <1>0, <1>3 DEF Upsert
<1>4. ASSUME NEW a \in Owners, Heartbeat(a) \/ Enroll(a)
      PROVE  alertLog' = alertLog /\ raised' = raised /\ version' = version /\ roster' \subseteq Owners
  BY <1>0, <1>4 DEF Heartbeat, Enroll, stored
<1>5. ASSUME ~AppendAlert, ~PruneOldest, ~(\E c \in CellSet : Upsert(c)),
             ~(\E a \in Owners : Heartbeat(a) \/ Enroll(a))
      PROVE  UNCHANGED <<alertLog, raised, version, roster>>
  <2>1. CASE Publish \/ Poll \/ OpenLiveFeed \/ ConnectFeed \/ Disconnect
    BY <2>1 DEF Publish, Poll, OpenLiveFeed, ConnectFeed, Disconnect, stored
  <2>2. CASE \E r \in Resources : \E j \in DOMAIN fetches[r] : Serve(r, j) \/ Arrive(r, j) \/ Fails(r, j)
    BY <2>2 DEF Serve, Arrive, Fails, stored
  <2>3. CASE \E j \in AlertIds : AckAlert(j) \/ ClickAck(j) \/ AckAnswered(j) \/ AckFails(j)
    BY <2>3 DEF AckAlert, ClickAck, AckAnswered, AckFails, stored
  <2>4. CASE OnCell \/ OnAlert \/ OnAgentSeen
    BY <2>4 DEF OnCell, OnAlert, OnAgentSeen, Received, stored
  <2>5. CASE consoleVars' = consoleVars
    BY <2>5 DEF consoleVars, stored
  <2>6. QED
    BY <1>5, <2>1, <2>2, <2>3, <2>4, <2>5 DEF ConsoleNext
<1>6. QED
  BY <1>0, <1>1, <1>2, <1>3, <1>4, <1>5

LEMMA NextFetches ==
  ASSUME ConsoleForm, [ConsoleNext]_consoleVars
  PROVE  /\ fetches' \in [Resources -> Seq(Fetch)]
         /\ \A x \in Range(fetches'["alerts"]) :
              x \in Range(fetches["alerts"]) \/ x.body \in {Nothing, Body("alerts")}
<1>0. fetches \in [Resources -> Seq(Fetch)]
  BY DEF ConsoleForm
<1>1. ASSUME NEW r \in Resources, NEW i \in DOMAIN fetches[r], Serve(r, i)
      PROVE  /\ fetches' \in [Resources -> Seq(Fetch)]
             /\ \A x \in Range(fetches'["alerts"]) :
                  x \in Range(fetches["alerts"]) \/ x.body = Body("alerts")
  <2>1. fetches' = [fetches EXCEPT ![r][i].body = Body(r)]
    BY <1>1 DEF Serve
  <2>2. QED
    BY <2>1, ServedForm
<1>2. ASSUME NEW r \in Resources, NEW i \in DOMAIN fetches[r], Arrive(r, i) \/ Fails(r, i)
      PROVE  /\ fetches' \in [Resources -> Seq(Fetch)]
             /\ Range(fetches'["alerts"]) \subseteq Range(fetches["alerts"])
  <2>1. fetches' = [fetches EXCEPT ![r] = RemoveAt(@, i)]
    BY <1>2 DEF Arrive, Fails
  <2>2. QED
    BY <2>1, ForgottenForm
<1>3. ASSUME NEW rs, fetches' = Asked(rs)
      PROVE  /\ fetches' \in [Resources -> Seq(Fetch)]
             /\ \A x \in Range(fetches'["alerts"]) : x \in Range(fetches["alerts"]) \/ x.body = Nothing
  BY <1>3, AskedForm
<1>4. CASE Poll \/ OnAlert \/ OnAgentSeen
  <2>1. \/ fetches' = Asked(Polled) \/ fetches' = Asked({"alerts"}) \/ fetches' = Asked({"agents"})
        \/ fetches' = fetches
    BY <1>4 DEF Poll, OnAlert, OnAgentSeen
  <2>2. QED
    BY <1>0, <1>3, <2>1
<1>5. ASSUME ~(Poll \/ OnAlert \/ OnAgentSeen),
             ~(\E r \in Resources : \E j \in DOMAIN fetches[r] :
                 Serve(r, j) \/ Arrive(r, j) \/ Fails(r, j))
      PROVE  fetches' = fetches
  <2>1. CASE (\E c \in CellSet : Upsert(c)) \/ AppendAlert
    BY <2>1 DEF Upsert, AppendAlert, Stores
  <2>2. CASE \E a \in Owners : Heartbeat(a) \/ Enroll(a)
    BY <2>2 DEF Heartbeat, Enroll, Stores
  <2>3. CASE PruneOldest \/ Publish \/ OpenLiveFeed \/ ConnectFeed \/ Disconnect \/ OnCell
    BY <2>3 DEF PruneOldest, Publish, OpenLiveFeed, ConnectFeed, Disconnect, OnCell
  <2>4. CASE \E j \in AlertIds : AckAlert(j) \/ ClickAck(j) \/ AckAnswered(j) \/ AckFails(j)
    BY <2>4 DEF AckAlert, ClickAck, AckAnswered, AckFails
  <2>5. CASE consoleVars' = consoleVars
    BY <2>5 DEF consoleVars
  <2>6. QED
    BY <1>5, <2>1, <2>2, <2>3, <2>4, <2>5 DEF ConsoleNext
<1>6. QED
  BY <1>0, <1>1, <1>2, <1>4, <1>5

LEMMA NextClicks ==
  ASSUME ConsoleForm, [ConsoleNext]_consoleVars
  PROVE  /\ clicks' \in [AlertIds -> {"none", "sent", "ok", "not found"}]
         /\ \A i \in AlertIds : clicks'[i] = "ok" /\ clicks[i] # "ok"
              => i \in Range(alertLog) /\ i \in acked' /\ raised' = raised
<1>0. clicks \in [AlertIds -> {"none", "sent", "ok", "not found"}]
  BY DEF ConsoleForm
<1>1. ASSUME NEW j \in AlertIds, AckAlert(j)
      PROVE  /\ clicks' \in [AlertIds -> {"none", "sent", "ok", "not found"}]
             /\ \A i \in AlertIds : clicks'[i] = "ok" /\ clicks[i] # "ok"
                  => i \in Range(alertLog) /\ i \in acked' /\ raised' = raised
  <2>1. CASE j \in Range(alertLog)
    BY <1>0, <1>1, <2>1 DEF AckAlert
  <2>2. CASE j \notin Range(alertLog)
    BY <1>0, <1>1, <2>2 DEF AckAlert
  <2>3. QED
    BY <2>1, <2>2
<1>2. ASSUME NEW j \in AlertIds, ClickAck(j) \/ AckAnswered(j) \/ AckFails(j)
      PROVE  /\ clicks' \in [AlertIds -> {"none", "sent", "ok", "not found"}]
             /\ \A i \in AlertIds : clicks'[i] = "ok" => clicks[i] = "ok"
  BY <1>0, <1>2 DEF ClickAck, AckAnswered, AckFails
<1>3. ASSUME ~\E j \in AlertIds : AckAlert(j) \/ ClickAck(j) \/ AckAnswered(j) \/ AckFails(j)
      PROVE  clicks' = clicks
  <2>1. CASE (\E c \in CellSet : Upsert(c)) \/ AppendAlert
    BY <2>1 DEF Upsert, AppendAlert, Stores, page
  <2>2. CASE \E a \in Owners : Heartbeat(a) \/ Enroll(a)
    BY <2>2 DEF Heartbeat, Enroll, Stores, page
  <2>3. CASE PruneOldest \/ Publish \/ Poll \/ OpenLiveFeed \/ ConnectFeed \/ Disconnect
    BY <2>3 DEF PruneOldest, Publish, Poll, OpenLiveFeed, ConnectFeed, Disconnect, page
  <2>4. CASE \E r \in Resources : \E j \in DOMAIN fetches[r] : Serve(r, j) \/ Arrive(r, j) \/ Fails(r, j)
    BY <2>4 DEF Serve, Arrive, Fails, page
  <2>5. CASE OnCell \/ OnAlert \/ OnAgentSeen
    BY <2>5 DEF OnCell, OnAlert, OnAgentSeen, Received
  <2>6. CASE consoleVars' = consoleVars
    BY <2>6 DEF consoleVars, page
  <2>7. QED
    BY <1>3, <2>1, <2>2, <2>3, <2>4, <2>5, <2>6 DEF ConsoleNext
<1>4. QED
  BY <1>0, <1>1, <1>2, <1>3

LEMMA ShownForm ==
  ASSUME NEW S, NEW s \in [Resources -> S]
  PROVE  s \in [Resources -> {s[r] : r \in Resources}]
  OBVIOUS

(* The page's alerts change when a response arrives, and when the answer   *)
(* to an acknowledgement does.                                             *)
Answered(i) ==
  IF clicks[i] = "ok"
    THEN [j \in DOMAIN shown["alerts"] |-> shown["alerts"][j] \/ j = i]
    ELSE [j \in DOMAIN shown["alerts"] \ {i} |-> shown["alerts"][j]]

LEMMA NextShown ==
  ASSUME ConsoleForm, [ConsoleNext]_consoleVars
  PROVE  /\ shown' \in [Resources -> {shown'[r] : r \in Resources}]
         /\ \/ shown'["alerts"] = shown["alerts"]
            \/ \E x \in Range(fetches["alerts"]) : x.body # Nothing /\ shown'["alerts"] = x.body
            \/ \E i \in AlertIds : shown'["alerts"] = Answered(i)
<1>0. shown \in [Resources -> {shown[r] : r \in Resources}]
  BY DEF ConsoleForm
<1>r. "alerts" \in Resources /\ "cells" \in Resources
  BY DEF Resources
<1>s. ASSUME NEW v, NEW r \in Resources, shown' = [shown EXCEPT ![r] = v]
      PROVE  /\ shown' \in [Resources -> {shown'[q] : q \in Resources}]
             /\ shown'["alerts"] = IF r = "alerts" THEN v ELSE shown["alerts"]
  <2>1. shown' \in [Resources -> {shown[q] : q \in Resources} \cup {v}]
    BY <1>0, <1>s
  <2>2. shown' \in [Resources -> {shown'[q] : q \in Resources}]
    BY <2>1, ShownForm
  <2>3. QED
    BY <1>0, <1>r, <1>s, <2>2
<1>1. ASSUME NEW r \in Resources, NEW i \in DOMAIN fetches[r], Arrive(r, i)
      PROVE  /\ shown' \in [Resources -> {shown'[q] : q \in Resources}]
             /\ \/ shown'["alerts"] = shown["alerts"]
                \/ \E x \in Range(fetches["alerts"]) :
                     x.body # Nothing /\ shown'["alerts"] = x.body
  <2>1. shown' = [shown EXCEPT ![r] = fetches[r][i].body] /\ fetches[r][i].body # Nothing
    BY <1>1 DEF Arrive
  <2>2. fetches[r][i] \in Range(fetches[r])
    BY DEF Range
  <2>3. QED
    BY <1>s, <2>1, <2>2
<1>2. ASSUME NEW i \in AlertIds, AckAnswered(i)
      PROVE  /\ shown' \in [Resources -> {shown'[q] : q \in Resources}]
             /\ shown'["alerts"] = Answered(i)
  <2>1. shown' = [shown EXCEPT !["alerts"] = Answered(i)]
    BY <1>2 DEF AckAnswered, Answered
  <2>2. QED
    BY <1>r, <1>s, <2>1
<1>3. ASSUME OnCell
      PROVE  /\ shown' \in [Resources -> {shown'[q] : q \in Resources}]
             /\ shown'["alerts"] = shown["alerts"]
  <2>1. PICK v : shown' = [shown EXCEPT !["cells"] = v]
    BY <1>3 DEF OnCell
  <2>2. QED
    BY <1>r, <1>s, <2>1
<1>4. ASSUME ~OnCell, ~(\E i \in AlertIds : AckAnswered(i)),
             ~(\E r \in Resources : \E j \in DOMAIN fetches[r] : Arrive(r, j))
      PROVE  shown' = shown
  <2>1. CASE (\E c \in CellSet : Upsert(c)) \/ AppendAlert
    BY <2>1 DEF Upsert, AppendAlert, Stores, page
  <2>2. CASE \E a \in Owners : Heartbeat(a) \/ Enroll(a)
    BY <2>2 DEF Heartbeat, Enroll, Stores, page
  <2>3. CASE PruneOldest \/ Publish \/ Poll \/ OpenLiveFeed \/ ConnectFeed \/ Disconnect
    BY <2>3 DEF PruneOldest, Publish, Poll, OpenLiveFeed, ConnectFeed, Disconnect, page
  <2>4. CASE \E r \in Resources : \E j \in DOMAIN fetches[r] : Serve(r, j) \/ Fails(r, j)
    BY <2>4 DEF Serve, Fails, page
  <2>5. CASE OnAlert \/ OnAgentSeen
    BY <2>5 DEF OnAlert, OnAgentSeen
  <2>6. CASE \E j \in AlertIds : AckAlert(j) \/ ClickAck(j) \/ AckFails(j)
    BY <2>6 DEF AckAlert, ClickAck, ShownAtClick, AckFails
  <2>7. CASE consoleVars' = consoleVars
    BY <2>7 DEF consoleVars, page
  <2>8. QED
    BY <1>4, <2>1, <2>2, <2>3, <2>4, <2>5, <2>6, <2>7 DEF ConsoleNext
<1>5. QED
  BY <1>0, <1>1, <1>2, <1>3, <1>4

LEMMA AnsweredTruthful ==
  ASSUME NEW i \in AlertIds, clicks[i] = "ok" => Settled(i), Truthful(shown["alerts"])
  PROVE  Truthful(Answered(i))
<1> DEFINE f == shown["alerts"]
           g == Answered(i)
<1>1. f \in [DOMAIN f -> BOOLEAN] /\ DOMAIN f \in SUBSET Nat
      /\ \A j \in DOMAIN f : f[j] => Settled(j)
  BY DEF Truthful, Flags
<1>2. CASE clicks[i] = "ok"
  <2>1. g = [j \in DOMAIN f |-> f[j] \/ j = i] /\ Settled(i)
    BY <1>2 DEF Answered
  <2> HIDE DEF f, g
  <2>2. DOMAIN g = DOMAIN f /\ \A j \in DOMAIN f : g[j] = (f[j] \/ j = i)
    BY <2>1
  <2>3. g \in [DOMAIN f -> BOOLEAN]
    BY <2>1, Zenon
  <2>4. g \in Flags
    BY <1>1, <2>3 DEF Flags
  <2>5. \A j \in DOMAIN g : g[j] => Settled(j)
    BY <1>1, <2>1, <2>2, Zenon
  <2>6. QED
    BY <2>4, <2>5 DEF Truthful, g
<1>3. CASE clicks[i] # "ok"
  <2>1. g = [j \in DOMAIN f \ {i} |-> f[j]]
    BY <1>3 DEF Answered
  <2> HIDE DEF f, g
  <2>2. DOMAIN g = DOMAIN f \ {i} /\ \A j \in DOMAIN f \ {i} : g[j] = f[j]
    BY <2>1
  <2>3. g \in [DOMAIN f \ {i} -> BOOLEAN]
    BY <1>1, <2>1
  <2>4. DOMAIN f \ {i} \in SUBSET Nat
    BY <1>1
  <2>5. g \in Flags
    BY <2>3, <2>4 DEF Flags
  <2>6. \A j \in DOMAIN g : g[j] => Settled(j)
    BY <1>1, <2>2, Zenon
  <2>7. QED
    BY <2>5, <2>6 DEF Truthful, g
<1>4. QED
  BY <1>2, <1>3

LEMMA NextConsoleInv == ConsoleInv /\ [ConsoleNext]_consoleVars => ConsoleInv'
<1> SUFFICES ASSUME ConsoleInv, [ConsoleNext]_consoleVars PROVE ConsoleInv'
  OBVIOUS
<1>0. ConsoleForm
  BY DEF ConsoleInv
<1>1. ConsoleForm'
  BY <1>0, NextAlertLog, NextFetches, NextClicks, NextShown DEF ConsoleForm
<1>2. \A x \in Range(fetches'["alerts"]) : x.body # Nothing => Truthful(x.body)'
  <2>1. SUFFICES ASSUME NEW x \in Range(fetches'["alerts"]), x.body # Nothing
                 PROVE  Truthful(x.body)'
    OBVIOUS
  <2>2. Truthful(x.body)
    BY <1>0, <2>1, NextFetches, BodyForm DEF ConsoleInv
  <2>3. QED
    BY <1>0, <2>2, TruthfulStays
<1>3. \A i \in AlertIds : clicks'[i] = "ok" => Settled(i)'
  <2>1. SUFFICES ASSUME NEW i \in AlertIds, clicks'[i] = "ok" PROVE Settled(i)'
    OBVIOUS
  <2>2. CASE clicks[i] = "ok"
    BY <1>0, <2>2, SettledStays DEF ConsoleInv
  <2>3. CASE clicks[i] # "ok"
    <3>1. i \in Range(alertLog) /\ i \in acked' /\ raised' = raised
      BY <1>0, <2>1, <2>3, NextClicks
    <3>2. Range(alertLog) \subseteq 1 .. raised
      BY <1>0 DEF ConsoleForm
    <3>3. QED
      BY <3>1, <3>2 DEF Settled
  <2>4. QED
    BY <2>2, <2>3
<1>4. Truthful(shown["alerts"])'
  <2>1. Truthful(shown["alerts"])
    BY DEF ConsoleInv
  <2>2. PICK f : f = shown'["alerts"] /\ Truthful(f)
    <3>1. CASE shown'["alerts"] = shown["alerts"]
      BY <2>1, <3>1
    <3>2. ASSUME NEW x \in Range(fetches["alerts"]), x.body # Nothing, shown'["alerts"] = x.body
          PROVE  \E f : f = shown'["alerts"] /\ Truthful(f)
      BY <3>2 DEF ConsoleInv
    <3>3. ASSUME NEW i \in AlertIds, shown'["alerts"] = Answered(i)
          PROVE  \E f : f = shown'["alerts"] /\ Truthful(f)
      <4>1. Truthful(Answered(i))
        BY <2>1, AnsweredTruthful DEF ConsoleInv
      <4>2. QED
        BY <3>3, <4>1
    <3>4. QED
      BY <1>0, <3>1, <3>2, <3>3, NextShown
  <2>3. Truthful(f)'
    BY <1>0, <2>2, TruthfulStays
  <2>4. QED
    BY <2>2, <2>3
<1>5. QED
  BY <1>1, <1>2, <1>3, <1>4 DEF ConsoleInv

(* The dashboard never tells an operator that an alert is taken care of    *)
(* when it is not (app.js, api.rs): however many alerts there are, and     *)
(* however late, lost or out of order the answers of polls and clicks      *)
(* arrive.                                                                 *)
THEOREM ShownAcksAreTrue == ConsoleSpec => []ShownAcksHold
<1>1. ConsoleInit => ConsoleInv
  BY ConsoleInitInv
<1>2. ConsoleInv /\ [ConsoleNext]_consoleVars => ConsoleInv'
  BY NextConsoleInv
<1>3. ConsoleInv => ShownAcksHold
  <2>1. SUFFICES ASSUME ConsoleInv PROVE ShownAcksHold
    OBVIOUS
  <2>2. shown["alerts"] = shown.alerts
    OBVIOUS
  <2>3. QED
    BY <2>1, <2>2 DEF ConsoleInv, Truthful, Settled, ShownAcksHold
<1>4. QED
  BY <1>1, <1>2, <1>3, PTL DEF ConsoleSpec
=============================================================================

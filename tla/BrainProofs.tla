----------------------------- MODULE BrainProofs -----------------------------
(***************************************************************************)
(* Theorems about Brain, for any servers, kinds of minigame, requests and  *)
(* numbers of connections: the tasks may run in any order, servers stop    *)
(* and connections break at any time.                                      *)
(***************************************************************************)
EXTENDS Brain, ChannelLemmas, FiniteSetTheorems

-----------------------------------------------------------------------------
(* The steps.  Invariants are shown to survive a little more than Next:    *)
(* the other side may close a connection that it does not make again, as   *)
(* an exception in a plugin's listener does.                               *)

HangsUp(s) ==
  /\ BrainAlive
  /\ Open(s)
  /\ Disconnected(s) /\ UNCHANGED stopped

Step == Next \/ \E s \in Server : HangsUp(s)

LEMMA NextIsStep == [Next]_vars => [Step]_vars
BY DEF Step

-----------------------------------------------------------------------------
(* Fresh names.                                                            *)

(* A set of naturals has a least member.                                   *)
LEMMA LeastMember ==
  ASSUME NEW T \in SUBSET Nat, NEW n \in T
  PROVE  \E m \in T : \A j \in T : m <= j
<1> DEFINE U == {i \in T : i <= n}
           F == {0 .. x : x \in U}
<1>1. IsFiniteSet(0 .. n)
  BY FS_Interval
<1>2. IsWellFoundedOn(StrictSubsetOrdering(0 .. n), SUBSET (0 .. n))
  BY <1>1, FS_StrictSubsetOrderingWellFounded, FS_FiniteSubsetsOfFinite
<1>3. F \subseteq SUBSET (0 .. n) /\ F # {}
  OBVIOUS
<1>4. PICK S \in F : \A R \in F : <<R, S>> \notin StrictSubsetOrdering(0 .. n)
  BY <1>2, <1>3, WFMin
<1>5. PICK m \in U : S = 0 .. m
  OBVIOUS
<1>6. \A j \in U : m <= j
  <2> SUFFICES ASSUME NEW j \in U, j < m PROVE FALSE
    OBVIOUS
  <2>1. 0 .. j \in F /\ 0 .. j \in SUBSET (0 .. n) /\ 0 .. m \in SUBSET (0 .. n)
    OBVIOUS
  <2>2. 0 .. j \subseteq 0 .. m /\ m \in 0 .. m /\ m \notin 0 .. j
    OBVIOUS
  <2>3. <<0 .. j, 0 .. m>> \in StrictSubsetOrdering(0 .. n)
    BY <2>1, <2>2 DEF StrictSubsetOrdering
  <2> QED  BY <1>4, <1>5, <2>1, <2>3
<1> QED  BY <1>6

(* UniqueNameSet gives a name that is not in use, whatever was recorded    *)
(* and freed before.                                                       *)
LEMMA FreshName ==
  ASSUME IsFiniteSet(used_names), NEW k \in Kind
  PROVE  /\ NextFreeName(k) \in Name /\ NextFreeName(k) \notin used_names
         /\ NextFreeName(k)[1] = k /\ NextFreeName(k)[2] \in 0 .. Cardinality(used_names)
<1> DEFINE n == Cardinality(used_names)
           f == [i \in 0 .. n |-> <<k, i>>]
           P(i) == /\ <<k, i>> \notin used_names
                   /\ \A j \in 0 .. i - 1 : <<k, j>> \in used_names
           T == {i \in 0 .. n : <<k, i>> \notin used_names}
<1>1. n \in Nat
  BY FS_CardinalityType
<1>2. T # {}
  <2> SUFFICES ASSUME \A i \in 0 .. n : <<k, i>> \in used_names PROVE FALSE
    OBVIOUS
  <2>1. f \in [0 .. n -> used_names]
    OBVIOUS
  <2>2. IsFiniteSet(0 .. n) /\ Cardinality(0 .. n) = n + 1
    BY <1>1, FS_Interval
  <2>3. Cardinality(used_names) < Cardinality(0 .. n)
    BY <1>1, <2>2
  <2>4. PICK x \in 0 .. n, y \in 0 .. n : x # y /\ f[x] = f[y]
    <3> HIDE DEF f
    <3>1. \A g \in [0 .. n -> used_names] : \E x, y \in 0 .. n : x # y /\ g[x] = g[y]
      BY <2>2, <2>3, FS_PigeonHole
    <3> QED  BY <2>1, <3>1
  <2>5. f[x] = <<k, x>> /\ f[y] = <<k, y>>
    OBVIOUS
  <2> QED  BY <2>4, <2>5
<1>3. PICK m \in T : \A j \in T : m <= j
  <2>1. T \in SUBSET Nat
    BY <1>1
  <2> QED  BY <1>2, <2>1, LeastMember
<1>4. m \in 0 .. n /\ P(m)
  <2>1. \A j \in 0 .. m - 1 : j \in 0 .. n /\ ~(m <= j)
    BY <1>1, <1>3
  <2> QED  BY <1>3, <2>1
<1>5. NextFreeName(k) = <<k, CHOOSE i \in 0 .. n : P(i)>>
  BY DEF NextFreeName
<1>6. (CHOOSE i \in 0 .. n : P(i)) \in 0 .. n /\ P(CHOOSE i \in 0 .. n : P(i))
  <2> HIDE DEF P, n
  <2> QED  BY <1>4
<1> DEFINE i == CHOOSE j \in 0 .. n : P(j)
<1>7. /\ NextFreeName(k) = <<k, i>> /\ i \in 0 .. n /\ i \in Nat
      /\ <<k, i>> \notin used_names
  BY <1>1, <1>5, <1>6
<1> HIDE DEF i, n
<1> QED  BY <1>7 DEF Name, n

-----------------------------------------------------------------------------
(* Types.  A message names only connections that were made, and one that   *)
(* says that a connection ended is right.                                  *)

Seen  == {c \in Conn : task[c] # "none"}
Ended == {c \in Conn : task[c] = "done"}

SeenMsg ==
       {NewConn(c) : c \in Seen} \cup {UnlinkMsg(c) : c \in Ended}
  \cup {DispatchMsg(r) : r \in Request}
  \cup {ForwardMsg(k) : k \in MinigameKind}
  \cup {SpawnMsg(k) : k \in MinigameKind \cup {"Lobby"}}
  \cup [type : {"Transport"}, player : Request, server : Name]

SeenClusterMsg ==
       {PushServer(c) : c \in Seen} \cup {PopServer(c) : c \in Seen}
  \cup {QueueServer(r) : r \in Request} \cup {Forwarded}

(* A server that connects runs, and the brain's proxy is one.              *)
WorldInv ==
  /\ ident \in [Server -> Identity \cup {None}]
  /\ stopped \subseteq Server
  /\ attempts \in [Server -> Nat] /\ \A s \in Server : attempts[s] <= MaxAttempts[s]
  /\ end \in [Conn -> {"none", "open", "closed"}]
  /\ task \in [Conn -> {"none", "auth", "reading", "done"}]
  /\ \A c \in Seen : c[2] <= attempts[c[1]] /\ ident[c[1]] # None
  /\ \A c \in Conn \ Seen : end[c] = "none"

MailInv ==
  /\ receiver \in Seq(SeenMsg) /\ buffer \in Seq(SeenMsg)
  /\ inbox \in [MinigameKind -> Seq(SeenClusterMsg)]
  /\ members \in [MinigameKind -> Seq(Seen)]
  /\ to_proxy \in Seq(Packet)

BrainInv ==
  /\ phase \in {"boot", "resend", "main", "dead"}
  /\ proxy_server \in Seen \cup {None} /\ lobby_server \in Seen \cup {None}
  /\ phase \in {"resend", "main"} => proxy_server \in Seen /\ KindOf(proxy_server) = "Proxy"
  /\ used_names \subseteq Name /\ IsFiniteSet(used_names)
  /\ DOMAIN computers \subseteq Name
  /\ \A n \in DOMAIN computers : computers[n] \in {"Starting", "Online"}
  /\ handles \subseteq MinigameKind

RestInv ==
  /\ pending \in [MinigameKind -> SUBSET Request]
  /\ respawned \subseteq Request /\ answered \subseteq Request \X Name
  /\ linked \subseteq Name /\ transported \subseteq Request \X Name
  /\ asked \subseteq Request /\ closes \subseteq Closer

TypeInv == WorldInv /\ MailInv /\ BrainInv /\ RestInv

(* A sequence over a set is one over a larger set.                         *)
LEMMA SeqSubset ==
  ASSUME NEW S, NEW T, S \subseteq T, NEW s \in Seq(S)
  PROVE  s \in Seq(T)
OBVIOUS

LEMMA ConnFields ==
  /\ \A c \in Conn : c[1] \in Server /\ c[2] \in 1 .. MaxAttempts[c[1]] /\ c = <<c[1], c[2]>>
  /\ \A s \in Server : \A n \in 1 .. MaxAttempts[s] : <<s, n>> \in Conn
BY DEF Conn

LEMMA Kinds ==
  ASSUME NEW k \in MinigameKind
  PROVE  k \in Kind /\ k # "Proxy" /\ k # "Lobby" /\ k # "Limbo"
BY BrainAssumption DEF Kind

LEMMA SeenIdentity ==
  ASSUME WorldInv, NEW c \in Seen
  PROVE  /\ c \in Conn /\ c[1] \in Server /\ ident[c[1]] \in Identity
         /\ KindOf(c) \in Kind /\ NameOf(c) \in Name
<1>1. c \in Conn /\ c[1] \in Server /\ ident[c[1]] \in Identity
  BY ConnFields DEF Seen, WorldInv
<1> QED  BY <1>1 DEF KindOf, NameOf, Identity

LEMMA SeenMsgFields ==
  ASSUME NEW m \in SeenMsg
  PROVE  /\ m.type = "NewConn" => m.conn \in Seen /\ m = NewConn(m.conn)
         /\ m.type = "Unlink" => m.conn \in Ended /\ m = UnlinkMsg(m.conn)
         /\ m.type = "Dispatch" =>
              m.player \in Request /\ m.kind = Wants[m.player] /\ m = DispatchMsg(m.player)
         /\ m.type = "ClusterForward" => m.kind \in MinigameKind
         /\ m.type = "Spawn" => m.kind \in MinigameKind \cup {"Lobby"}
         /\ m.type = "Transport" =>
              m.player \in Request /\ m.server \in Name /\ m = TransportMsg(m.player, m.server)
         /\ m.type \in {"NewConn", "Unlink", "Dispatch", "ClusterForward", "Spawn", "Transport"}
BY DEF SeenMsg, NewConn, UnlinkMsg, DispatchMsg, ForwardMsg, SpawnMsg, TransportMsg

LEMMA SeenClusterMsgFields ==
  ASSUME NEW m \in SeenClusterMsg
  PROVE  /\ m.type = "PushServer" => m.conn \in Seen /\ m = PushServer(m.conn)
         /\ m.type = "PopServer" => m.conn \in Seen /\ m = PopServer(m.conn)
         /\ m.type = "QueueServer" => m.player \in Request /\ m = QueueServer(m.player)
         /\ m.type \in {"PushServer", "PopServer", "QueueServer", "UpdateActive"}
BY DEF SeenClusterMsg, PushServer, PopServer, QueueServer, Forwarded

LEMMA PacketFields ==
  ASSUME NEW p \in Packet
  PROVE  /\ p.name \in Name /\ p.type \in {"LinkServer", "UnlinkServer", "TransportPlayer"}
         /\ p.type = "LinkServer" => p = LinkServer(p.name)
         /\ p.type = "UnlinkServer" => p = UnlinkServer(p.name)
         /\ p.type = "TransportPlayer" =>
              p.player \in Request /\ p = TransportPlayer(p.player, p.name)
BY DEF Packet, LinkServer, UnlinkServer, TransportPlayer

(* Connections are never unmade, and an end is never taken back.           *)
LEMMA SeenGrows ==
  ASSUME \A c \in Conn : /\ task[c] # "none" => task'[c] # "none"
                         /\ task[c] = "done" => task'[c] = "done"
  PROVE  /\ Seen \subseteq Seen' /\ Ended \subseteq Ended'
         /\ SeenMsg \subseteq SeenMsg' /\ SeenClusterMsg \subseteq SeenClusterMsg'
<1>1. Seen \subseteq Seen' /\ Ended \subseteq Ended'
  BY DEF Seen, Ended
<1>2. SeenMsg \subseteq SeenMsg'
  BY <1>1 DEF SeenMsg, NewConn, UnlinkMsg, DispatchMsg, ForwardMsg, SpawnMsg
<1>3. SeenClusterMsg \subseteq SeenClusterMsg'
  BY <1>1 DEF SeenClusterMsg, PushServer, PopServer, QueueServer, Forwarded
<1> QED  BY <1>1, <1>2, <1>3

-----------------------------------------------------------------------------
(* Servers, connections and their tasks.                                   *)

(* Steps that touch nothing of the controller but the brain's channel.     *)
LEMMA OutsideKeepsTypes ==
  ASSUME TypeInv, WorldInv', ident' = ident,
         \A c \in Conn : /\ task[c] # "none" => task'[c] # "none"
                         /\ task[c] = "done" => task'[c] = "done",
         UNCHANGED controller, UNCHANGED proxy,
         receiver' \in Seq(SeenMsg'), asked' \subseteq Request, closes' \subseteq Closer
  PROVE  TypeInv'
<1>1. /\ Seen \subseteq Seen' /\ SeenMsg \subseteq SeenMsg'
      /\ SeenClusterMsg \subseteq SeenClusterMsg'
  BY SeenGrows
<1>2. UNCHANGED <<phase, buffer, proxy_server, lobby_server, used_names, computers, handles,
                  inbox, members, pending, respawned, answered, to_proxy, linked, transported>>
  BY DEF controller, brain, cluster, proxy
<1>3. MailInv'
  <2>1. buffer \in Seq(SeenMsg')
    BY <1>1, SeqSubset DEF TypeInv, MailInv
  <2>2. inbox \in [MinigameKind -> Seq(SeenClusterMsg')]
    <3>1. \A k \in MinigameKind : inbox[k] \in Seq(SeenClusterMsg')
      BY <1>1, SeqSubset DEF TypeInv, MailInv
    <3> QED  BY <3>1 DEF TypeInv, MailInv
  <2>3. members \in [MinigameKind -> Seq(Seen')]
    <3>1. \A k \in MinigameKind : members[k] \in Seq(Seen')
      BY <1>1, SeqSubset DEF TypeInv, MailInv
    <3> QED  BY <3>1 DEF TypeInv, MailInv
  <2> QED  BY <1>2, <2>1, <2>2, <2>3 DEF TypeInv, MailInv, Packet
<1>4. BrainInv'
  BY <1>1, <1>2 DEF TypeInv, BrainInv, KindOf
<1>5. RestInv'
  BY <1>2 DEF TypeInv, RestInv
<1> QED  BY <1>3, <1>4, <1>5 DEF TypeInv

LEMMA ConnectKeepsTypes ==
  ASSUME TypeInv, NEW s \in Server, Connect(s)
  PROVE  TypeInv'
<1> DEFINE c == <<s, attempts[s] + 1>>
<1>1. /\ attempts[s] \in Nat /\ attempts[s] < MaxAttempts[s] /\ MaxAttempts[s] \in Nat
      /\ ident[s] # None
      /\ attempts' = [attempts EXCEPT ![s] = @ + 1] /\ end' = [end EXCEPT ![c] = "open"]
      /\ task' = [task EXCEPT ![c] = "auth"]
      /\ UNCHANGED <<ident, stopped, receiver, controller, proxy, asked, closes>>
  BY BrainAssumption DEF Connect, Running, TypeInv, WorldInv
<1>2. c \in Conn /\ c[1] = s /\ c[2] = attempts[s] + 1
  BY <1>1, ConnFields
<1>3. c \notin Seen
  BY <1>1, <1>2 DEF TypeInv, WorldInv
<1> HIDE DEF c
<1>4. \A d \in Conn : task[d] # "none" => task'[d] = task[d]
  BY <1>1, <1>2, <1>3 DEF TypeInv, WorldInv, Seen
<1>5. Seen' = Seen \cup {c}
  BY <1>1, <1>2, <1>4 DEF TypeInv, WorldInv, Seen
<1>6. \A t \in Server : attempts'[t] \in Nat /\ attempts[t] <= attempts'[t]
                        /\ attempts'[t] <= MaxAttempts[t]
  BY <1>1, BrainAssumption DEF TypeInv, WorldInv
<1>7. \A d \in Seen' : d[2] <= attempts'[d[1]] /\ ident[d[1]] # None
  <2> SUFFICES ASSUME NEW d \in Seen' PROVE d[2] <= attempts'[d[1]] /\ ident[d[1]] # None
    OBVIOUS
  <2>1. CASE d = c
    <3>1. attempts'[s] = attempts[s] + 1
      BY <1>1 DEF TypeInv, WorldInv
    <3> QED  BY <1>1, <1>2, <2>1, <3>1
  <2>2. CASE d \in Seen
    <3>1. d[1] \in Server /\ d[2] \in Nat /\ d[2] <= attempts[d[1]] /\ attempts[d[1]] \in Nat
          /\ ident[d[1]] # None
      BY <2>2, ConnFields, BrainAssumption DEF TypeInv, WorldInv, Seen
    <3> QED  BY <1>6, <3>1
  <2> QED  BY <1>5, <2>1, <2>2
<1>8. WorldInv'
  <2>1. attempts' \in [Server -> Nat]
    BY <1>1, <1>6 DEF TypeInv, WorldInv
  <2>2. \A d \in Conn \ Seen' : end'[d] = "none"
    BY <1>1, <1>5 DEF TypeInv, WorldInv
  <2> QED  BY <1>1, <1>6, <1>7, <2>1, <2>2 DEF TypeInv, WorldInv
<1>9. receiver' \in Seq(SeenMsg') /\ asked' \subseteq Request /\ closes' \subseteq Closer
  BY <1>1, <1>4, SeenGrows, SeqSubset DEF TypeInv, MailInv, RestInv
<1> QED  BY <1>1, <1>4, <1>8, <1>9, OutsideKeepsTypes

(* The connection a server has open was accepted.                          *)
LEMMA OpenSeen ==
  ASSUME WorldInv, NEW s \in Server, Open(s)
  PROVE  Current(s) \in Seen
<1>1. Current(s) \in Conn
  BY ConnFields, BrainAssumption DEF Open, Current, WorldInv
<1> QED  BY <1>1 DEF Open, WorldInv

LEMMA DisconnectedKeepsTypes ==
  ASSUME TypeInv, NEW s \in Server, Disconnected(s), stopped' \subseteq Server
  PROVE  TypeInv'
<1>1. UNCHANGED <<ident, attempts, task, receiver, controller, proxy, asked, closes>>
  BY DEF Disconnected
<1>2. end' = end \/ (Current(s) \in Seen /\ end' = [end EXCEPT ![Current(s)] = "closed"])
  BY OpenSeen DEF Disconnected, TypeInv
<1>3. Seen' = Seen /\ SeenMsg' = SeenMsg
  BY <1>1 DEF Seen, Ended, SeenMsg, NewConn, UnlinkMsg, DispatchMsg, ForwardMsg, SpawnMsg
<1>4. WorldInv'
  BY <1>1, <1>2, <1>3 DEF TypeInv, WorldInv
<1> QED
  BY <1>1, <1>3, <1>4, OutsideKeepsTypes DEF TypeInv, MailInv, RestInv

LEMMA ServersKeepTypes ==
  ASSUME TypeInv, NEW s \in Server, SeesEnd(s) \/ Breaks(s) \/ Stops(s) \/ HangsUp(s)
  PROVE  TypeInv'
<1>1. Disconnected(s) /\ stopped' \subseteq Server
  BY DEF SeesEnd, Breaks, Stops, HangsUp, TypeInv, WorldInv
<1> QED  BY <1>1, DisconnectedKeepsTypes

LEMMA ClientsKeepTypes ==
  ASSUME TypeInv, NEW c \in Conn,
         ClientStep(c) \/ ReadUpdateActive(c) \/ \E r \in Request : ReadRequest(c, r)
  PROVE  TypeInv'
<1>1. /\ task[c] \in {"auth", "reading"}
      /\ UNCHANGED <<ident, stopped, attempts, end, controller, proxy>>
      /\ asked' \subseteq Request /\ closes' \subseteq Closer
  BY DEF ClientStep, Register, ReadEnds, ReadUpdateActive, ReadRequest, world, TypeInv, RestInv
<1>2. c \in Seen /\ KindOf(c) \in Kind
  BY <1>1, SeenIdentity DEF Seen, TypeInv
<1>3. /\ task' = task \/ task' = [task EXCEPT ![c] = "reading"]
                      \/ task' = [task EXCEPT ![c] = "done"]
      /\ task[c] # "done"
  BY <1>1 DEF ClientStep, Register, ReadEnds, ReadUpdateActive, ReadRequest, EndOfConnection
<1>4. /\ Seen' = Seen /\ SeenMsg \subseteq SeenMsg'
      /\ \A d \in Conn : /\ task[d] # "none" => task'[d] # "none"
                         /\ task[d] = "done" => task'[d] = "done"
  <2>1. \A d \in Conn : /\ task[d] # "none" <=> task'[d] # "none"
                        /\ task[d] = "done" => task'[d] = "done"
    BY <1>2, <1>3 DEF Seen, TypeInv, WorldInv
  <2> QED  BY <2>1, SeenGrows DEF Seen
<1>5. WorldInv'
  BY <1>1, <1>3, <1>4 DEF TypeInv, WorldInv
<1>6. receiver' \in Seq(SeenMsg')
  <2>1. receiver \in Seq(SeenMsg')
    BY <1>4, SeqSubset DEF TypeInv, MailInv
  <2>2. CASE receiver' = receiver
    BY <2>1, <2>2
  <2>3. CASE task' = [task EXCEPT ![c] = "reading"] /\ Send(NewConn(c))
    <3>1. NewConn(c) \in SeenMsg'
      BY <1>2, <1>4 DEF SeenMsg, NewConn
    <3> QED  BY <2>1, <2>3, <3>1, AppendProperties DEF Send
  <2>4. CASE EndOfConnection(c)
    <3>1. c \in Ended'
      BY <2>4 DEF EndOfConnection, Ended, TypeInv, WorldInv
    <3>2. UnlinkMsg(c) \in SeenMsg'
      BY <3>1 DEF SeenMsg, UnlinkMsg
    <3> QED  BY <2>1, <2>4, <3>2, AppendProperties DEF EndOfConnection, Send
  <2>5. ASSUME NEW m \in SeenMsg, Send(m)
        PROVE  receiver' \in Seq(SeenMsg')
    BY <1>4, <2>1, <2>5, AppendProperties DEF Send
  <2>6. CASE ClientStep(c)
    BY <2>2, <2>3, <2>4, <2>6 DEF ClientStep, Register, ReadEnds
  <2>7. CASE ReadUpdateActive(c)
    <3>1. KindOf(c) \in MinigameKind => ForwardMsg(KindOf(c)) \in SeenMsg
      BY DEF SeenMsg
    <3> QED  BY <2>4, <2>5, <2>7, <3>1 DEF ReadUpdateActive
  <2>8. ASSUME NEW r \in Request, ReadRequest(c, r)
        PROVE  receiver' \in Seq(SeenMsg')
    <3>1. DispatchMsg(r) \in SeenMsg
      BY DEF SeenMsg
    <3> QED  BY <2>5, <2>8, <3>1 DEF ReadRequest
  <2> QED  BY <2>6, <2>7, <2>8
<1> QED  BY <1>1, <1>4, <1>5, <1>6, OutsideKeepsTypes

-----------------------------------------------------------------------------
(* Clusters, dispatch tasks and the proxy.                                 *)

LEMMA SameTasks ==
  ASSUME task' = task
  PROVE  /\ Seen' = Seen /\ Ended' = Ended
         /\ SeenMsg' = SeenMsg /\ SeenClusterMsg' = SeenClusterMsg /\ Packet' = Packet
<1>1. Seen' = Seen /\ Ended' = Ended
  BY DEF Seen, Ended
<1> QED
  BY <1>1
  DEF SeenMsg, SeenClusterMsg, NewConn, UnlinkMsg, DispatchMsg, ForwardMsg, SpawnMsg, PushServer,
      PopServer, QueueServer, Forwarded, Packet

LEMMA RemoveAtType ==
  ASSUME NEW S, NEW s \in Seq(S), NEW i \in DOMAIN s
  PROVE  RemoveAt(s, i) \in Seq(S)
<1>1. i \in Nat /\ Len(s) \in Nat /\ 1 <= i /\ i <= Len(s)
  BY LenProperties
<1>2. SubSeq(s, 1, i - 1) \in Seq(S)
  BY <1>1, SubSeqProperties
<1>3. SubSeq(s, i + 1, Len(s)) \in Seq(S)
  BY <1>1, SubSeqProperties
<1> QED  BY <1>2, <1>3, ConcatProperties DEF RemoveAt

(* A cluster's message has one of four effects.                            *)
LEMMA ClusterReceivesEffect ==
  ASSUME TypeInv, NEW k \in MinigameKind, ClusterReceives(k)
  PROVE  LET m == Head(inbox[k]) IN
         /\ inbox[k] # <<>> /\ m \in SeenClusterMsg
         /\ inbox' = [inbox EXCEPT ![k] = Tail(inbox[k])]
         /\ \/ \E c \in Seen : /\ m = PushServer(c) /\ pending' = pending
                               /\ members' = [members EXCEPT ![k] = Append(members[k], c)]
            \/ \E c \in Seen : /\ m = PopServer(c) /\ pending' = pending
                               /\ \/ members' = members
                                  \/ \E i \in DOMAIN members[k] :
                                       members' = [members EXCEPT ![k] = RemoveAt(members[k], i)]
            \/ \E r \in Request : /\ m = QueueServer(r) /\ members' = members
                                  /\ pending' = [pending EXCEPT ![k] = pending[k] \cup {r}]
            \/ m.type = "UpdateActive" /\ members' = members /\ pending' = pending
<1> DEFINE m == Head(inbox[k])
<1>1. /\ inbox[k] # <<>> /\ inbox[k] \in Seq(SeenClusterMsg)
      /\ inbox' = [inbox EXCEPT ![k] = Tail(inbox[k])]
      /\ members[k] \in Seq(Seen)
  BY DEF ClusterReceives, TypeInv, MailInv
<1>2. m \in SeenClusterMsg
  BY <1>1, HeadTailProperties
<1>3. \/ /\ m.type = "PushServer"
         /\ members' = [members EXCEPT ![k] = Append(@, m.conn)]
         /\ UNCHANGED pending
      \/ /\ m.type = "PopServer"
         /\ members' = IF SameName(k, m.conn) = {} THEN members
                       ELSE [members EXCEPT ![k] =
                               RemoveAt(@, CHOOSE i \in SameName(k, m.conn) :
                                             \A j \in SameName(k, m.conn) : i <= j)]
         /\ UNCHANGED pending
      \/ /\ m.type = "QueueServer"
         /\ pending' = [pending EXCEPT ![k] = @ \cup {m.player}]
         /\ UNCHANGED members
      \/ /\ m.type = "UpdateActive"
         /\ UNCHANGED <<members, pending>>
  BY DEF ClusterReceives
<1> HIDE DEF m
<1>4. ASSUME m.type = "PopServer",
             members' = IF SameName(k, m.conn) = {} THEN members
                        ELSE [members EXCEPT ![k] =
                                RemoveAt(@, CHOOSE i \in SameName(k, m.conn) :
                                              \A j \in SameName(k, m.conn) : i <= j)]
      PROVE  \/ members' = members
             \/ \E i \in DOMAIN members[k] :
                  members' = [members EXCEPT ![k] = RemoveAt(members[k], i)]
  <2> DEFINE T == SameName(k, m.conn)
  <2>1. T \subseteq DOMAIN members[k] /\ DOMAIN members[k] \subseteq Nat
    BY <1>1, LenProperties DEF SameName
  <2>2. T # {} => \E i \in T : \A j \in T : i <= j
    <3> HIDE DEF T
    <3> QED  BY <2>1, LeastMember
  <2>3. T # {} => (CHOOSE i \in T : \A j \in T : i <= j) \in T
    <3> HIDE DEF T
    <3> QED  BY <2>2
  <2> QED  BY <1>4, <2>1, <2>3
<1>5. CASE m.type = "PushServer"
  BY <1>1, <1>2, <1>3, <1>5, SeenClusterMsgFields DEF m
<1>6. CASE m.type = "PopServer"
  BY <1>1, <1>2, <1>3, <1>4, <1>6, SeenClusterMsgFields DEF m
<1>7. CASE m.type = "QueueServer"
  BY <1>1, <1>2, <1>3, <1>7, SeenClusterMsgFields DEF m
<1>8. CASE m.type = "UpdateActive"
  BY <1>1, <1>2, <1>3, <1>8 DEF m
<1> QED  BY <1>3, <1>5, <1>6, <1>7, <1>8

LEMMA ClusterReceivesKeepsTypes ==
  ASSUME TypeInv, NEW k \in MinigameKind, ClusterReceives(k)
  PROVE  TypeInv'
<1>1. /\ inbox[k] # <<>> /\ inbox \in [MinigameKind -> Seq(SeenClusterMsg)]
      /\ inbox' = [inbox EXCEPT ![k] = Tail(inbox[k])]
      /\ members \in [MinigameKind -> Seq(Seen)] /\ pending \in [MinigameKind -> SUBSET Request]
  BY ClusterReceivesEffect DEF TypeInv, MailInv, RestInv
<1>2. /\ UNCHANGED <<ident, stopped, attempts, end, task, receiver, phase, buffer, proxy_server,
                     lobby_server, used_names, computers, handles, respawned, answered, to_proxy,
                     linked, transported, asked, closes>>
  BY DEF ClusterReceives, outside, world, brain, proxy
<1>3. inbox' \in [MinigameKind -> Seq(SeenClusterMsg)]
  BY <1>1, HeadTailProperties
<1>4. \/ members' = members
      \/ \E c \in Seen : members' = [members EXCEPT ![k] = Append(members[k], c)]
      \/ \E i \in DOMAIN members[k] :
           members' = [members EXCEPT ![k] = RemoveAt(members[k], i)]
  BY ClusterReceivesEffect
<1>5. members' \in [MinigameKind -> Seq(Seen)]
  <2>1. \A c \in Seen : Append(members[k], c) \in Seq(Seen)
    BY <1>1, AppendProperties
  <2>2. \A i \in DOMAIN members[k] : RemoveAt(members[k], i) \in Seq(Seen)
    BY <1>1, RemoveAtType
  <2>3. CASE members' = members
    BY <1>1, <2>3
  <2>4. ASSUME NEW s \in Seq(Seen), members' = [members EXCEPT ![k] = s]
        PROVE  members' \in [MinigameKind -> Seq(Seen)]
    BY <1>1, <2>4
  <2> QED  BY <1>4, <2>1, <2>2, <2>3, <2>4
<1>6. \/ pending' = pending
      \/ \E r \in Request : pending' = [pending EXCEPT ![k] = pending[k] \cup {r}]
  BY ClusterReceivesEffect
<1>7. pending' \in [MinigameKind -> SUBSET Request]
  BY <1>1, <1>6
<1>8. WorldInv'
  BY <1>2, SameTasks DEF TypeInv, WorldInv
<1>9. MailInv'
  BY <1>2, <1>3, <1>5, SameTasks DEF TypeInv, MailInv
<1>10. BrainInv'
  BY <1>2, SameTasks DEF TypeInv, BrainInv, KindOf
<1>11. RestInv'
  BY <1>2, <1>7 DEF TypeInv, RestInv
<1> QED  BY <1>8, <1>9, <1>10, <1>11 DEF TypeInv

LEMMA AnswersKeepTypes ==
  ASSUME TypeInv, \/ \E k \in MinigameKind : ClusterAnswers(k) \/ ClusterAsksForServer(k)
                  \/ DispatchTask \/ ProxyReads
  PROVE  TypeInv'
<1>1. /\ receiver \in Seq(SeenMsg) /\ to_proxy \in Seq(Packet)
      /\ members \in [MinigameKind -> Seq(Seen)] /\ pending \in [MinigameKind -> SUBSET Request]
      /\ respawned \subseteq Request /\ answered \subseteq Request \X Name
      /\ linked \subseteq Name /\ transported \subseteq Request \X Name
  BY DEF TypeInv, MailInv, RestInv
<1>2. UNCHANGED <<ident, stopped, attempts, end, task, phase, buffer, proxy_server, lobby_server,
                  used_names, computers, handles, inbox, members, asked, closes>>
  BY DEF ClusterAnswers, ClusterAsksForServer, DispatchTask, ProxyReads, outside, world, brain,
         cluster, proxy
<1>3. SUFFICES /\ receiver' \in Seq(SeenMsg) /\ to_proxy' \in Seq(Packet)
               /\ pending' \in [MinigameKind -> SUBSET Request]
               /\ respawned' \subseteq Request /\ answered' \subseteq Request \X Name
               /\ linked' \subseteq Name /\ transported' \subseteq Request \X Name
  <2>1. WorldInv'
    BY <1>2, SameTasks DEF TypeInv, WorldInv
  <2>2. BrainInv'
    BY <1>2, SameTasks DEF TypeInv, BrainInv, KindOf
  <2>3. SeenMsg' = SeenMsg /\ SeenClusterMsg' = SeenClusterMsg /\ Seen' = Seen /\ Packet' = Packet
    BY <1>2, SameTasks
  <2> QED  BY <1>2, <2>1, <2>2, <2>3 DEF TypeInv, MailInv, RestInv
<1>4. ASSUME NEW k \in MinigameKind, ClusterAnswers(k)
      PROVE  /\ UNCHANGED <<receiver, to_proxy, respawned, linked, transported>>
             /\ pending' \in [MinigameKind -> SUBSET Request]
             /\ answered' \subseteq Request \X Name
  <2>1. PICK r \in pending[k], i \in DOMAIN members[k] :
          /\ pending' = [pending EXCEPT ![k] = @ \ {r}]
          /\ answered' = answered \cup {<<r, NameOf(members[k][i])>>}
    BY <1>4 DEF ClusterAnswers
  <2>2. members[k][i] \in Seen /\ r \in Request
    BY <1>1, <2>1
  <2>3. NameOf(members[k][i]) \in Name
    BY <2>2, SeenIdentity DEF TypeInv
  <2> QED  BY <1>1, <1>4, <2>1, <2>2, <2>3 DEF ClusterAnswers, outside, proxy
<1>5. ASSUME NEW k \in MinigameKind, ClusterAsksForServer(k)
      PROVE  /\ UNCHANGED <<to_proxy, pending, answered, linked, transported>>
             /\ receiver' \in Seq(SeenMsg) /\ respawned' \subseteq Request
  <2>1. PICK r \in pending[k] : respawned' = respawned \cup {r} /\ Send(SpawnMsg(k))
    BY <1>5 DEF ClusterAsksForServer
  <2>2. r \in Request /\ SpawnMsg(k) \in SeenMsg
    BY <1>1, <2>1 DEF SeenMsg
  <2>3. receiver' \in Seq(SeenMsg)
    BY <1>1, <2>1, <2>2, AppendProperties DEF Send
  <2> QED  BY <1>1, <1>5, <2>1, <2>2, <2>3 DEF ClusterAsksForServer, outside, proxy
<1>6. ASSUME DispatchTask
      PROVE  /\ UNCHANGED <<to_proxy, pending, respawned, linked, transported>>
             /\ receiver' \in Seq(SeenMsg) /\ answered' \subseteq Request \X Name
  <2>1. PICK a \in answered :
          /\ answered' = answered \ {a}
          /\ receiver' = receiver \/ Send(TransportMsg(a[1], a[2]))
    BY <1>6 DEF DispatchTask
  <2>2. TransportMsg(a[1], a[2]) \in SeenMsg
    <3>1. a \in Request \X Name
      BY <1>1, <2>1
    <3>2. a[1] \in Request /\ a[2] \in Name
      BY <3>1
    <3>3. TransportMsg(a[1], a[2]) \in
            [type : {"Transport"}, player : Request, server : Name]
      BY <3>2 DEF TransportMsg
    <3> QED  BY <3>3 DEF SeenMsg
  <2>3. receiver' \in Seq(SeenMsg)
    BY <1>1, <2>1, <2>2, AppendProperties DEF Send
  <2> QED  BY <1>1, <1>6, <2>1, <2>3 DEF DispatchTask, outside, proxy, cluster
<1>7. ASSUME ProxyReads
      PROVE  /\ UNCHANGED <<receiver, pending, respawned, answered>>
             /\ to_proxy' \in Seq(Packet)
             /\ linked' \subseteq Name /\ transported' \subseteq Request \X Name
  <2> DEFINE packet == Head(to_proxy)
  <2>1. /\ to_proxy # <<>> /\ to_proxy' = Tail(to_proxy)
        /\ \/ packet.type = "LinkServer" /\ linked' = linked \cup {packet.name}
              /\ UNCHANGED transported
           \/ packet.type = "UnlinkServer" /\ linked' = linked \ {packet.name}
              /\ UNCHANGED transported
           \/ /\ packet.type = "TransportPlayer"
              /\ transported' = transported \cup {<<packet.player, packet.name>>}
              /\ UNCHANGED linked
    BY <1>7 DEF ProxyReads
  <2>2. packet \in Packet /\ to_proxy' \in Seq(Packet)
    BY <1>1, <2>1, HeadTailProperties
  <2>3. packet.name \in Name /\ (packet.type = "TransportPlayer" => packet.player \in Request)
    BY <2>2, PacketFields
  <2> HIDE DEF packet
  <2>4. linked' \subseteq Name /\ transported' \subseteq Request \X Name
    BY <1>1, <2>1, <2>3
  <2> QED  BY <1>7, <2>2, <2>4 DEF ProxyReads, cluster
<1> QED  BY <1>1, <1>4, <1>5, <1>6, <1>7

-----------------------------------------------------------------------------
(* The brain.                                                              *)

(* What the dashboard may show.                                            *)
Books(map) ==
  /\ DOMAIN map \subseteq Name
  /\ \A n \in DOMAIN map : map[n] \in {"Starting", "Online"}

LEMMA SetStatusBooks ==
  ASSUME NEW map, Books(map), NEW name \in Name, NEW status \in {"Starting", "Online", "Offline"}
  PROVE  Books(SetStatus(map, name, status))
BY DEF Books, SetStatus

LEMMA FixedNames ==
  /\ ProxyName \in Name /\ BrainName \in Name /\ ProxyName # BrainName
BY DEF ProxyName, BrainName, Name, Kind

LEMMA OutcomeBooks ==
  ASSUME NEW map, Books(map), GoOn(map) \/ Panic(map) \/ Fail(map)
  PROVE  Books(computers') /\ phase' \in {phase, "dead"}
BY SetStatusBooks, FixedNames DEF GoOn, Panic, Fail

LEMMA WriteProxyEffect ==
  ASSUME NEW map, Books(map), NEW packet \in Packet, to_proxy \in Seq(Packet),
         WriteProxy(packet, map)
  PROVE  /\ Books(computers') /\ to_proxy' \in Seq(Packet)
         /\ \/ phase' = phase /\ to_proxy' = Append(to_proxy, packet)
            \/ phase' = "dead" /\ to_proxy' = to_proxy /\ end[proxy_server] = "closed"
<1>1. Append(to_proxy, packet) \in Seq(Packet)
  BY AppendProperties
<1>2. Books(computers')
  BY OutcomeBooks DEF WriteProxy
<1> QED  BY <1>1, <1>2 DEF WriteProxy, GoOn, Fail

LEMMA HandleEffect ==
  ASSUME TypeInv, NEW type, Handle(type)
  PROVE  /\ phase = "main" /\ receiver # <<>> /\ receiver \in Seq(SeenMsg)
         /\ msg \in SeenMsg /\ msg.type = type
         /\ receiver' = Tail(receiver) /\ receiver' \in Seq(SeenMsg)
<1>1. receiver # <<>> /\ receiver \in Seq(SeenMsg)
  BY DEF Handle, Received, TypeInv, MailInv
<1> QED  BY <1>1, HeadTailProperties DEF Handle, Received, msg

(* A step of the brain leaves the connections alone.                       *)
LEMMA BrainKeepsTypes ==
  ASSUME TypeInv,
         UNCHANGED <<stopped, attempts, end, task, proxy, asked, closes, cluster, answered>>,
         ident' \in [Server -> Identity \cup {None}],
         \A s \in Server : ident[s] # None => ident'[s] = ident[s],
         receiver' \in Seq(SeenMsg), buffer' \in Seq(SeenMsg),
         inbox' \in [MinigameKind -> Seq(SeenClusterMsg)], to_proxy' \in Seq(Packet),
         phase' \in {"boot", "resend", "main", "dead"},
         proxy_server' \in Seen \cup {None}, lobby_server' \in Seen \cup {None},
         phase' \in {"resend", "main"} =>
           proxy_server' \in Seen /\ ident[proxy_server'[1]].kind = "Proxy",
         used_names' \subseteq Name, IsFiniteSet(used_names'), Books(computers'),
         handles' \subseteq MinigameKind
  PROVE  TypeInv'
<1>1. /\ Seen' = Seen /\ SeenMsg' = SeenMsg /\ SeenClusterMsg' = SeenClusterMsg
      /\ Packet' = Packet
  BY SameTasks
<1>2. \A c \in Seen : c[1] \in Server /\ ident[c[1]] # None /\ ident'[c[1]] = ident[c[1]]
  BY ConnFields DEF Seen, TypeInv, WorldInv
<1>3. WorldInv'
  BY <1>1, <1>2 DEF TypeInv, WorldInv
<1>4. MailInv'
  BY <1>1 DEF TypeInv, MailInv, cluster
<1>5. BrainInv'
  BY <1>1, <1>2 DEF TypeInv, BrainInv, KindOf, Books
<1>6. RestInv'
  BY DEF TypeInv, RestInv, cluster, proxy
<1> QED  BY <1>3, <1>4, <1>5, <1>6 DEF TypeInv

LEMMA BootKeepsTypes ==
  ASSUME TypeInv, Buffer \/ ProxyJoins \/ Resend \/ EnterMainLoop
  PROVE  TypeInv'
<1>1. /\ receiver \in Seq(SeenMsg) /\ buffer \in Seq(SeenMsg) /\ Books(computers)
      /\ inbox \in [MinigameKind -> Seq(SeenClusterMsg)] /\ to_proxy \in Seq(Packet)
      /\ ident \in [Server -> Identity \cup {None}]
      /\ proxy_server \in Seen \cup {None} /\ lobby_server \in Seen \cup {None}
      /\ used_names \subseteq Name /\ IsFiniteSet(used_names) /\ handles \subseteq MinigameKind
      /\ phase = "resend" => proxy_server \in Seen /\ ident[proxy_server[1]].kind = "Proxy"
  BY DEF TypeInv, WorldInv, MailInv, BrainInv, KindOf, Books
<1>2. receiver # <<>> => msg \in SeenMsg /\ Tail(receiver) \in Seq(SeenMsg)
  BY <1>1, HeadTailProperties DEF msg
<1>3. buffer # <<>> => Head(buffer) \in SeenMsg /\ Tail(buffer) \in Seq(SeenMsg)
  BY <1>1, HeadTailProperties
<1>4. UNCHANGED <<ident, stopped, attempts, end, task, proxy, asked, closes, cluster, answered,
                  lobby_server, handles, inbox, to_proxy>>
  BY DEF Buffer, ProxyJoins, Resend, EnterMainLoop, elsewhere, outside, world, owned
<1>5. CASE Buffer
  <2>1. receiver' = Tail(receiver) /\ buffer' = Append(buffer, msg) /\ receiver # <<>>
        /\ UNCHANGED <<phase, proxy_server, used_names, computers>> /\ phase = "boot"
    BY <1>5 DEF Buffer, PutAside, owned
  <2>2. Append(buffer, msg) \in Seq(SeenMsg)
    BY <1>1, <1>2, <2>1, AppendProperties
  <2> QED  BY <1>1, <1>2, <1>4, <2>1, <2>2, BrainKeepsTypes
<1>6. CASE ProxyJoins
  <2>1. /\ receiver' = Tail(receiver) /\ receiver # <<>> /\ buffer' = buffer
        /\ msg.type = "NewConn" /\ KindOf(msg.conn) = "Proxy" /\ proxy_server' = msg.conn
        /\ computers' = SetStatus(computers, ProxyName, "Online")
        /\ used_names' = used_names \cup {ProxyName} /\ phase' = "resend"
    BY <1>6 DEF ProxyJoins, IsProxyConn
  <2>2. msg.conn \in Seen /\ ident[msg.conn[1]].kind = "Proxy"
    BY <1>2, <2>1, SeenMsgFields DEF KindOf
  <2>3. Books(computers') /\ used_names' \subseteq Name /\ IsFiniteSet(used_names')
    BY <1>1, <2>1, SetStatusBooks, FixedNames, FS_AddElement
  <2> QED  BY <1>1, <1>2, <1>4, <2>1, <2>2, <2>3, BrainKeepsTypes
<1>7. CASE Resend
  <2>1. /\ buffer # <<>> /\ receiver' = Append(receiver, Head(buffer)) /\ buffer' = Tail(buffer)
        /\ UNCHANGED <<phase, proxy_server, used_names, computers>> /\ phase = "resend"
    BY <1>7 DEF Resend, Send, owned
  <2>2. receiver' \in Seq(SeenMsg)
    BY <1>1, <1>3, <2>1, AppendProperties
  <2> QED  BY <1>1, <1>3, <1>4, <2>1, <2>2, BrainKeepsTypes
<1>8. CASE EnterMainLoop
  <2>1. /\ UNCHANGED <<receiver, buffer, proxy_server, used_names>> /\ phase = "resend"
        /\ \/ phase' = "main" /\ computers' = computers
           \/ Fail(computers)
    BY <1>8 DEF EnterMainLoop, owned
  <2>2. Books(computers') /\ phase' \in {"main", "dead"}
    BY <1>1, <2>1, OutcomeBooks DEF Fail
  <2> QED  BY <1>1, <1>4, <2>1, <2>2, BrainKeepsTypes
<1> QED  BY <1>5, <1>6, <1>7, <1>8

LEMMA ToClusterType ==
  ASSUME inbox \in [MinigameKind -> Seq(SeenClusterMsg)],
         NEW k \in MinigameKind, NEW m \in SeenClusterMsg, ToCluster(k, m)
  PROVE  /\ inbox' \in [MinigameKind -> Seq(SeenClusterMsg)]
         /\ inbox' = [inbox EXCEPT ![k] = Append(inbox[k], m)]
BY AppendProperties DEF ToCluster

LEMMA MainKeepsTypes ==
  ASSUME TypeInv, \/ SecondProxyJoins \/ ServerJoins \/ ServerLeaves
                  \/ Dispatch \/ ClusterForward \/ SpawnContainer \/ Transport
  PROVE  TypeInv'
<1>1. /\ Books(computers) /\ buffer \in Seq(SeenMsg)
      /\ inbox \in [MinigameKind -> Seq(SeenClusterMsg)] /\ to_proxy \in Seq(Packet)
      /\ ident \in [Server -> Identity \cup {None}] /\ lobby_server \in Seen \cup {None}
      /\ used_names \subseteq Name /\ IsFiniteSet(used_names) /\ handles \subseteq MinigameKind
  BY DEF TypeInv, WorldInv, MailInv, BrainInv, Books
<1>2. /\ phase = "main" /\ msg \in SeenMsg /\ receiver' \in Seq(SeenMsg)
  BY HandleEffect
  DEF SecondProxyJoins, ServerJoins, ServerLeaves, Dispatch, ClusterForward, SpawnContainer,
      Transport
<1>3. proxy_server \in Seen /\ ident[proxy_server[1]].kind = "Proxy"
  BY <1>2 DEF TypeInv, BrainInv, KindOf
<1>4. UNCHANGED <<stopped, attempts, end, task, proxy, asked, closes, cluster, answered, buffer,
                  proxy_server>>
  BY DEF SecondProxyJoins, ServerJoins, ServerLeaves, Dispatch, ClusterForward, SpawnContainer,
         Transport, elsewhere, outside, world, owned, brain
<1>5. SUFFICES /\ ident' \in [Server -> Identity \cup {None}]
               /\ \A s \in Server : ident[s] # None => ident'[s] = ident[s]
               /\ inbox' \in [MinigameKind -> Seq(SeenClusterMsg)] /\ to_proxy' \in Seq(Packet)
               /\ phase' \in {"main", "dead"} /\ lobby_server' \in Seen \cup {None}
               /\ used_names' \subseteq Name /\ IsFiniteSet(used_names') /\ Books(computers')
               /\ handles' \subseteq MinigameKind
  BY <1>1, <1>2, <1>3, <1>4, BrainKeepsTypes
<1>6. CASE SecondProxyJoins
  <2>1. UNCHANGED <<ident, inbox, to_proxy, lobby_server, used_names, handles>>
        /\ (GoOn(computers) \/ Fail(computers))
    BY <1>6 DEF SecondProxyJoins, elsewhere, outside, world, owned
  <2> QED  BY <1>1, <1>2, <2>1, OutcomeBooks
<1>7. CASE ServerJoins
  <2> DEFINE c == msg.conn
             k == KindOf(c)
             online == SetStatus(computers, NameOf(c), "Online")
  <2>1. /\ ident' = ident /\ used_names' = used_names \cup {NameOf(c)}
        /\ \/ Panic(online) /\ to_proxy' = to_proxy
           \/ WriteProxy(LinkServer(NameOf(c)), online)
        /\ lobby_server' \in {c, lobby_server}
        /\ \/ k \in MinigameKind /\ handles' = handles \cup {k} /\ ToCluster(k, PushServer(c))
           \/ handles' = handles /\ inbox' = inbox
    BY <1>7 DEF ServerJoins, elsewhere, outside, world
  <2>2. c \in Seen
    BY <1>2, <1>7, HandleEffect, SeenMsgFields DEF ServerJoins
  <2>3. NameOf(c) \in Name /\ LinkServer(NameOf(c)) \in Packet /\ PushServer(c) \in SeenClusterMsg
    BY <2>2, SeenIdentity DEF TypeInv, Packet, LinkServer, SeenClusterMsg
  <2> HIDE DEF c
  <2>4. Books(online)
    BY <1>1, <2>3, SetStatusBooks
  <2>5. Books(computers') /\ to_proxy' \in Seq(Packet) /\ phase' \in {"main", "dead"}
    <3> HIDE DEF online
    <3> QED  BY <1>1, <1>2, <2>1, <2>3, <2>4, OutcomeBooks, WriteProxyEffect
  <2>6. inbox' \in [MinigameKind -> Seq(SeenClusterMsg)] /\ handles' \subseteq MinigameKind
    BY <1>1, <2>1, <2>3, ToClusterType
  <2>7. used_names' \subseteq Name /\ IsFiniteSet(used_names')
    BY <1>1, <2>1, <2>3, FS_AddElement
  <2> QED  BY <1>1, <2>1, <2>2, <2>5, <2>6, <2>7
<1>8. CASE ServerLeaves
  <2> DEFINE c == msg.conn
             k == KindOf(c)
             offline == SetStatus(computers, NameOf(c), "Offline")
  <2>1. /\ UNCHANGED <<ident, lobby_server, handles>> /\ used_names' = used_names \ {NameOf(c)}
        /\ \/ Panic(offline) /\ to_proxy' = to_proxy
           \/ WriteProxy(UnlinkServer(NameOf(c)), offline)
        /\ \/ k \in handles /\ ToCluster(k, PopServer(c))
           \/ inbox' = inbox
    BY <1>8 DEF ServerLeaves, elsewhere, outside, world, owned
  <2>2. c \in Seen
    BY <1>2, <1>8, HandleEffect, SeenMsgFields DEF ServerLeaves, Ended, Seen
  <2>3. /\ NameOf(c) \in Name /\ UnlinkServer(NameOf(c)) \in Packet
        /\ PopServer(c) \in SeenClusterMsg
    BY <2>2, SeenIdentity DEF TypeInv, Packet, UnlinkServer, SeenClusterMsg
  <2> HIDE DEF c
  <2>4. Books(offline)
    BY <1>1, <2>3, SetStatusBooks
  <2>5. Books(computers') /\ to_proxy' \in Seq(Packet) /\ phase' \in {"main", "dead"}
    <3> HIDE DEF offline
    <3> QED  BY <1>1, <1>2, <2>1, <2>3, <2>4, OutcomeBooks, WriteProxyEffect
  <2>6. inbox' \in [MinigameKind -> Seq(SeenClusterMsg)]
    BY <1>1, <2>1, <2>3, ToClusterType
  <2>7. used_names' \subseteq Name /\ IsFiniteSet(used_names')
    BY <1>1, <2>1, FS_RemoveElement
  <2> QED  BY <1>1, <2>1, <2>5, <2>6, <2>7
<1>9. CASE Dispatch
  <2>1. /\ UNCHANGED <<ident, lobby_server, used_names, to_proxy>>
        /\ GoOn(computers) \/ Panic(computers)
        /\ \/ /\ msg.kind \in MinigameKind /\ handles' = handles \cup {msg.kind}
              /\ ToCluster(msg.kind, QueueServer(msg.player))
           \/ handles' = handles /\ inbox' = inbox
    BY <1>9 DEF Dispatch, elsewhere, outside, world, owned
  <2>2. QueueServer(msg.player) \in SeenClusterMsg
    BY <1>2, <1>9, HandleEffect, SeenMsgFields DEF Dispatch, SeenClusterMsg
  <2>3. inbox' \in [MinigameKind -> Seq(SeenClusterMsg)] /\ handles' \subseteq MinigameKind
    BY <1>1, <2>1, <2>2, ToClusterType
  <2> QED  BY <1>1, <1>2, <2>1, <2>3, OutcomeBooks
<1>10. CASE ClusterForward
  <2>1. /\ UNCHANGED <<ident, phase, lobby_server, used_names, computers, handles, to_proxy>>
        /\ \/ msg.kind \in handles /\ ToCluster(msg.kind, Forwarded)
           \/ inbox' = inbox
    BY <1>10 DEF ClusterForward, elsewhere, outside, world, brain
  <2>2. inbox' \in [MinigameKind -> Seq(SeenClusterMsg)]
    BY <1>1, <2>1, ToClusterType DEF SeenClusterMsg
  <2> QED  BY <1>1, <1>2, <2>1, <2>2
<1>11. CASE SpawnContainer
  <2> DEFINE n == NextFreeName(msg.kind)
             starting == SetStatus(computers, n, "Starting")
  <2>1. /\ UNCHANGED <<lobby_server, handles, inbox, to_proxy>>
        /\ used_names' = used_names \cup {n}
        /\ GoOn(starting) \/ Fail(starting)
        /\ \/ ident' = ident
           \/ \E s \in ToStart : ident' = [ident EXCEPT ![s] = [kind |-> msg.kind, name |-> n]]
    BY <1>11 DEF SpawnContainer, owned
  <2>2. msg.kind \in Kind
    BY <1>2, <1>11, HandleEffect, SeenMsgFields, Kinds DEF SpawnContainer, Kind
  <2>3. n \in Name
    BY <1>1, <2>2, FreshName
  <2> HIDE DEF n
  <2>4. Books(starting)
    BY <1>1, <2>3, SetStatusBooks
  <2>5. Books(computers') /\ phase' \in {"main", "dead"}
    <3> HIDE DEF starting
    <3> QED  BY <1>2, <2>1, <2>4, OutcomeBooks
  <2>6. used_names' \subseteq Name /\ IsFiniteSet(used_names')
    BY <1>1, <2>1, <2>3, FS_AddElement
  <2>7. /\ ident' \in [Server -> Identity \cup {None}]
        /\ \A s \in Server : ident[s] # None => ident'[s] = ident[s]
    <3>1. [kind |-> msg.kind, name |-> n] \in Identity
      BY <2>2, <2>3 DEF Identity
    <3> QED  BY <1>1, <2>1, <3>1 DEF ToStart
  <2> QED  BY <1>1, <2>1, <2>5, <2>6, <2>7
<1>12. CASE Transport
  <2>1. /\ UNCHANGED <<ident, inbox, lobby_server, used_names, handles>>
        /\ WriteProxy(TransportPlayer(msg.player, msg.server), computers)
    BY <1>12 DEF Transport, elsewhere, outside, world, owned
  <2>2. TransportPlayer(msg.player, msg.server) \in Packet
    BY <1>2, <1>12, HandleEffect, SeenMsgFields DEF Transport, Packet, TransportPlayer
  <2> QED  BY <1>1, <1>2, <2>1, <2>2, WriteProxyEffect
<1> QED  BY <1>6, <1>7, <1>8, <1>9, <1>10, <1>11, <1>12

LEMMA TypeInit == Init => TypeInv
<1> SUFFICES ASSUME Init PROVE TypeInv
  OBVIOUS
<1>1. Seen = {}
  BY DEF Init, Seen
<1>2. WorldInv
  <2>1. ident \in [Server -> Identity \cup {None}]
    BY BrainAssumption DEF Init
  <2>2. attempts \in [Server -> Nat] /\ \A s \in Server : attempts[s] <= MaxAttempts[s]
    BY BrainAssumption DEF Init
  <2> QED  BY <1>1, <2>1, <2>2 DEF Init, WorldInv
<1>3. MailInv
  <2>1. SpawnMsg("Lobby") \in SeenMsg
    BY DEF SeenMsg
  <2>2. receiver \in Seq(SeenMsg)
    BY <2>1 DEF Init
  <2>3. /\ buffer \in Seq(SeenMsg) /\ to_proxy \in Seq(Packet)
        /\ inbox \in [MinigameKind -> Seq(SeenClusterMsg)]
        /\ members \in [MinigameKind -> Seq(Seen)]
    BY EmptySeq DEF Init
  <2> QED  BY <2>2, <2>3 DEF MailInv
<1>4. BrainInv
  BY FixedNames, FS_EmptySet DEF Init, BrainInv
<1>5. RestInv
  BY DEF Init, RestInv
<1> QED  BY <1>2, <1>3, <1>4, <1>5 DEF TypeInv

LEMMA TypeNext == TypeInv /\ [Step]_vars => TypeInv'
<1> SUFFICES ASSUME TypeInv, [Step]_vars PROVE TypeInv'
  OBVIOUS
<1>1. CASE Buffer \/ ProxyJoins \/ Resend \/ EnterMainLoop
  BY <1>1, BootKeepsTypes
<1>2. CASE \/ SecondProxyJoins \/ ServerJoins \/ ServerLeaves
           \/ Dispatch \/ ClusterForward \/ SpawnContainer \/ Transport
  BY <1>2, MainKeepsTypes
<1>3. ASSUME NEW k \in MinigameKind, ClusterStep(k) \/ ClusterAsksForServer(k)
      PROVE  TypeInv'
  BY <1>3, ClusterReceivesKeepsTypes, AnswersKeepTypes DEF ClusterStep
<1>4. CASE DispatchTask \/ ProxyReads
  BY <1>4, AnswersKeepTypes
<1>5. ASSUME NEW c \in Conn,
             ClientStep(c) \/ ReadUpdateActive(c) \/ \E r \in Request : ReadRequest(c, r)
      PROVE  TypeInv'
  BY <1>5, ClientsKeepTypes
<1>6. ASSUME NEW s \in Server, Connect(s) \/ SeesEnd(s) \/ Breaks(s) \/ Stops(s) \/ HangsUp(s)
      PROVE  TypeInv'
  BY <1>6, ConnectKeepsTypes, ServersKeepTypes
<1>7. CASE UNCHANGED vars
  <2>1. UNCHANGED <<world, task, proxy, asked, closes, cluster, answered, brain, receiver, inbox,
                    to_proxy>>
    BY <1>7 DEF vars
  <2>2. Seen' = Seen /\ SeenMsg' = SeenMsg /\ SeenClusterMsg' = SeenClusterMsg /\ Packet' = Packet
    BY <2>1, SameTasks
  <2> QED
    BY <2>1, <2>2
    DEF world, proxy, cluster, brain, TypeInv, WorldInv, MailInv, BrainInv, RestInv, KindOf
<1> QED
  BY <1>1, <1>2, <1>3, <1>4, <1>5, <1>6, <1>7 DEF Step, Next, Tasks, BrainStep

(* Every variable holds a value of its Rust type, in every reachable state *)
(* and with any number of servers: UniqueNameSet always finds a name that  *)
(* is free, no message names a connection that was never made, and no      *)
(* computer is shown with a status that set_status does not list.          *)
THEOREM BrainTypeCorrect == Spec => []TypeOK
<1>1. TypeInv => TypeOK
  <2> SUFFICES ASSUME TypeInv PROVE TypeOK
    OBVIOUS
  <2>1. Seen \subseteq Conn /\ Ended \subseteq Conn
    BY DEF Seen, Ended
  <2>2. SeenMsg \subseteq BrainMsg /\ SeenClusterMsg \subseteq ClusterMsg
    BY <2>1 DEF SeenMsg, SeenClusterMsg, BrainMsg, ClusterMsg
  <2>3. receiver \in Seq(BrainMsg) /\ buffer \in Seq(BrainMsg)
    BY <2>2, SeqSubset DEF TypeInv, MailInv
  <2>4. inbox \in [MinigameKind -> Seq(ClusterMsg)] /\ members \in [MinigameKind -> Seq(Conn)]
    <3>1. \A k \in MinigameKind : inbox[k] \in Seq(ClusterMsg) /\ members[k] \in Seq(Conn)
      BY <2>1, <2>2, SeqSubset DEF TypeInv, MailInv
    <3> QED  BY <3>1 DEF TypeInv, MailInv
  <2>5. \A s \in Server : attempts[s] \in 0 .. MaxAttempts[s]
    BY BrainAssumption DEF TypeInv, WorldInv
  <2>6. proxy_server \in Conn \cup {None} /\ lobby_server \in Conn \cup {None}
    BY <2>1 DEF TypeInv, BrainInv
  <2> QED
    BY <2>3, <2>4, <2>5, <2>6 DEF TypeInv, WorldInv, MailInv, BrainInv, RestInv, TypeOK
<1> QED  BY <1>1, TypeInit, TypeNext, NextIsStep, PTL DEF Spec

-----------------------------------------------------------------------------
(* The end of the brain.                                                   *)

(* A task ends when its connection has, but for one of a lobby that sent   *)
(* UpdateActive.                                                           *)
EndInv ==
  /\ \A s \in Server : ident[s] # None => ident[s].kind # "Limbo"
  /\ \A c \in Ended : KindOf(c) = "Proxy" => end[c] = "closed"
  /\ BrainEndsAfterProxyLoss

(* A connection that is closed stays closed, and its server who it is.     *)
LEMMA ClosedStays ==
  ASSUME TypeInv, [Step]_vars, NEW c \in Seen
  PROVE  /\ end[c] = "closed" => end'[c] = "closed"
         /\ KindOf(c)' = KindOf(c) /\ NameOf(c)' = NameOf(c)
<1>1. c \in Conn /\ c[1] \in Server /\ ident[c[1]] # None
  BY ConnFields DEF Seen, TypeInv, WorldInv
<1>2. ident'[c[1]] = ident[c[1]]
  <2>1. CASE ident' = ident
    BY <2>1
  <2>2. CASE SpawnContainer
    BY <1>1, <2>2 DEF SpawnContainer, ToStart, TypeInv, WorldInv
  <2> QED
    BY <2>1, <2>2
    DEF vars, Step, HangsUp, Next, Tasks, BrainStep, Buffer, ProxyJoins, Resend, EnterMainLoop,
        SecondProxyJoins, ServerJoins, ServerLeaves, Dispatch, ClusterForward, Transport,
        ClusterStep, ClusterReceives, ClusterAnswers, ClusterAsksForServer, DispatchTask,
        ClientStep, Register, ReadEnds, ReadRequest, ReadUpdateActive, Connect, SeesEnd, Breaks,
        Stops, Disconnected, ProxyReads, world, outside, elsewhere
<1>3. end[c] = "closed" => end'[c] = "closed"
  <2>1. CASE end' = end
    BY <2>1
  <2>2. ASSUME NEW s \in Server, Connect(s)
        PROVE  end[c] = "closed" => end'[c] = "closed"
    <3>1. /\ attempts[s] < MaxAttempts[s] /\ attempts[s] \in Nat /\ MaxAttempts[s] \in Nat
          /\ end' = [end EXCEPT ![<<s, attempts[s] + 1>>] = "open"]
      BY <2>2, BrainAssumption DEF Connect, TypeInv, WorldInv
    <3>2. <<s, attempts[s] + 1>> # c
      BY <1>1, <3>1 DEF TypeInv, WorldInv
    <3> QED  BY <1>1, <3>1, <3>2 DEF TypeInv, WorldInv
  <2>3. ASSUME NEW s \in Server, Disconnected(s)
        PROVE  end[c] = "closed" => end'[c] = "closed"
    BY <1>1, <2>3 DEF Disconnected, TypeInv, WorldInv
  <2> QED
    BY <2>1, <2>2, <2>3
    DEF vars, Step, HangsUp, Next, Tasks, BrainStep, Buffer, ProxyJoins, Resend, EnterMainLoop,
        SecondProxyJoins, ServerJoins, ServerLeaves, Dispatch, ClusterForward, SpawnContainer,
        Transport, ClusterStep, ClusterReceives, ClusterAnswers, ClusterAsksForServer,
        DispatchTask, ClientStep, Register, ReadEnds, ReadRequest, ReadUpdateActive, SeesEnd,
        Breaks, Stops, ProxyReads, world, outside, elsewhere
<1> QED  BY <1>2, <1>3 DEF KindOf, NameOf

(* Who the tasks that end belong to.                                       *)
LEMMA EndsAreSeen ==
  ASSUME TypeInv, [Step]_vars, NEW c \in Conn, task[c] # "done", task'[c] = "done"
  PROVE  c \in Seen /\ (end[c] = "closed" \/ KindOf(c) # "Proxy")
<1>1. task' # task /\ DOMAIN task = Conn
  BY DEF TypeInv, WorldInv
<1>2. ASSUME NEW s \in Server, Connect(s)
      PROVE  FALSE
  <2>1. task' = [task EXCEPT ![<<s, attempts[s] + 1>>] = "auth"]
    BY <1>2 DEF Connect
  <2> QED  BY <1>1, <2>1
<1>3. ASSUME NEW d \in Conn, Register(d)
      PROVE  c \in Seen /\ (end[c] = "closed" \/ KindOf(c) # "Proxy")
  BY <1>1, <1>3 DEF Register, Seen
<1>4. ASSUME NEW d \in Conn, ReadEnds(d)
      PROVE  c \in Seen /\ (end[c] = "closed" \/ KindOf(c) # "Proxy")
  BY <1>1, <1>4 DEF ReadEnds, EndOfConnection, Seen
<1>5. ASSUME NEW d \in Conn, ReadUpdateActive(d)
      PROVE  c \in Seen /\ (end[c] = "closed" \/ KindOf(c) # "Proxy")
  BY <1>1, <1>5 DEF ReadUpdateActive, EndOfConnection, Seen
<1> QED
  BY <1>1, <1>2, <1>3, <1>4, <1>5
  DEF vars, Step, HangsUp, Next, Tasks, BrainStep, Buffer, ProxyJoins, Resend, EnterMainLoop,
      SecondProxyJoins, ServerJoins, ServerLeaves, Dispatch, ClusterForward, SpawnContainer,
      Transport, ClusterStep, ClusterReceives, ClusterAnswers, ClusterAsksForServer, DispatchTask,
      ClientStep, ReadRequest, SeesEnd, Breaks, Stops, Disconnected, ProxyReads, outside,
      elsewhere
(* Which of the code's other ends of the brain cannot happen: Docker fails,*)
(* a request for a lobby meets the todo!(), a limbo server connects.       *)
NoOtherEnd ==
  /\ ~DockerMayFail
  /\ \A r \in Request : Wants[r] # "Lobby"
  /\ \A s \in DOMAIN Preset : Preset[s].kind # "Limbo"

(* Where the brain ends, a connection of a proxy is closed.                *)
LEMMA BrainEnds ==
  ASSUME TypeInv, EndInv, NoOtherEnd, BrainStep, phase # "dead", phase' = "dead"
  PROVE  \E c \in Seen : end[c] = "closed" /\ KindOf(c) = "Proxy"
<1>1. phase \in {"resend", "main"} => proxy_server \in Seen /\ KindOf(proxy_server) = "Proxy"
  BY DEF TypeInv, BrainInv
<1>2. CASE Buffer \/ ProxyJoins \/ Resend \/ EnterMainLoop \/ ClusterForward
  BY <1>2
  DEF NoOtherEnd, Buffer, ProxyJoins, Resend, EnterMainLoop, ClusterForward, brain
<1>3. ASSUME NEW packet, NEW map, phase = "main", WriteProxy(packet, map)
      PROVE  end[proxy_server] = "closed"
  BY <1>3 DEF WriteProxy, GoOn
<1>4. CASE SecondProxyJoins
  <2>1. msg.conn \in Seen /\ KindOf(msg.conn) = "Proxy" /\ end[msg.conn] = "closed"
    BY <1>4, HandleEffect, SeenMsgFields DEF SecondProxyJoins, GoOn
  <2> QED  BY <2>1
<1>5. CASE ServerJoins
  <2>1. msg.conn \in Seen /\ phase = "main"
    BY <1>5, HandleEffect, SeenMsgFields DEF ServerJoins
  <2>2. KindOf(msg.conn) # "Limbo"
    BY <2>1, ConnFields DEF Seen, KindOf, EndInv, TypeInv, WorldInv
  <2> QED  BY <1>1, <1>3, <1>5, <2>1, <2>2 DEF ServerJoins
<1>6. CASE ServerLeaves
  <2>1. msg.conn \in Ended /\ msg.conn \in Seen /\ phase = "main"
    BY <1>6, HandleEffect, SeenMsgFields DEF ServerLeaves, Ended, Seen
  <2>2. CASE ProxyLeaves(msg.conn)
    BY <2>1, <2>2 DEF ProxyLeaves, EndInv
  <2>3. CASE ~ProxyLeaves(msg.conn)
    BY <1>1, <1>3, <1>6, <2>1, <2>3 DEF ServerLeaves
  <2> QED  BY <2>2, <2>3
<1>7. CASE Dispatch
  <2>1. msg.kind # "Lobby"
    BY <1>7, HandleEffect, SeenMsgFields DEF Dispatch, NoOtherEnd
  <2> QED  BY <1>7, <2>1 DEF Dispatch, GoOn
<1>8. CASE SpawnContainer
  BY <1>8 DEF SpawnContainer, NoOtherEnd, GoOn
<1>9. CASE Transport
  BY <1>1, <1>3, <1>9, HandleEffect DEF Transport
<1> QED  BY <1>2, <1>4, <1>5, <1>6, <1>7, <1>8, <1>9 DEF BrainStep

LEMMA EndInit ==
  ASSUME Init, NoOtherEnd
  PROVE  EndInv
<1>1. \A s \in Server : ident[s] # None => ident[s].kind # "Limbo"
  BY DEF Init, NoOtherEnd
<1>2. Ended = {} /\ phase # "dead"
  BY DEF Init, Ended
<1> QED  BY <1>1, <1>2 DEF EndInv, BrainEndsAfterProxyLoss

LEMMA EndNext ==
  ASSUME TypeInv, EndInv, NoOtherEnd, [Step]_vars
  PROVE  EndInv'
<1>1. ASSUME NEW c \in Seen
      PROVE  /\ end[c] = "closed" => end'[c] = "closed"
             /\ KindOf(c)' = KindOf(c)
  BY ClosedStays
<1>2. \A s \in Server : ident'[s] # None => ident'[s].kind # "Limbo"
  <2>1. CASE ident' = ident
    BY <2>1 DEF EndInv
  <2>2. CASE SpawnContainer
    <3>1. msg.kind # "Limbo"
      BY <2>2, HandleEffect, SeenMsgFields, Kinds DEF SpawnContainer
    <3> QED  BY <2>2, <3>1 DEF SpawnContainer, EndInv, TypeInv, WorldInv
  <2> QED
    BY <2>1, <2>2
    DEF vars, Step, HangsUp, Next, Tasks, BrainStep, Buffer, ProxyJoins, Resend, EnterMainLoop,
        SecondProxyJoins, ServerJoins, ServerLeaves, Dispatch, ClusterForward, Transport,
        ClusterStep, ClusterReceives, ClusterAnswers, ClusterAsksForServer, DispatchTask,
        ClientStep, Register, ReadEnds, ReadRequest, ReadUpdateActive, Connect, SeesEnd, Breaks,
        Stops, Disconnected, ProxyReads, world, outside, elsewhere
<1>3. ASSUME NEW c \in Ended', KindOf(c)' = "Proxy"
      PROVE  end'[c] = "closed"
  <2>1. c \in Conn /\ task'[c] = "done"
    BY DEF Ended
  <2>2. CASE c \in Ended
    <3>1. c \in Seen
      BY <2>2 DEF Ended, Seen
    <3> QED  BY <1>1, <1>3, <2>2, <3>1 DEF EndInv
  <2>3. CASE task[c] # "done"
    <3>1. c \in Seen /\ (end[c] = "closed" \/ KindOf(c) # "Proxy")
      BY <2>1, <2>3, EndsAreSeen
    <3> QED  BY <1>1, <1>3, <3>1
  <2> QED  BY <2>1, <2>2, <2>3 DEF Ended
<1>4. BrainEndsAfterProxyLoss'
  <2>1. Seen \subseteq Conn
    BY DEF Seen
  <2>2. ASSUME NEW c \in Seen, end[c] = "closed", KindOf(c) = "Proxy"
        PROVE  BrainEndsAfterProxyLoss'
    BY <1>1, <2>1, <2>2 DEF BrainEndsAfterProxyLoss
  <2>3. CASE phase = "dead"
    <3>1. PICK c \in Conn : end[c] = "closed" /\ KindOf(c) = "Proxy"
      BY <2>3 DEF EndInv, BrainEndsAfterProxyLoss
    <3>2. c \in Seen
      BY <3>1 DEF TypeInv, WorldInv
    <3> QED  BY <2>2, <3>1, <3>2
  <2>4. CASE phase # "dead" /\ BrainStep /\ phase' = "dead"
    BY <2>2, <2>4, BrainEnds
  <2>5. CASE phase' # "dead"
    BY <2>5 DEF BrainEndsAfterProxyLoss
  <2>6. CASE phase' = phase
    BY <2>3, <2>5, <2>6
  <2> QED
    BY <2>3, <2>4, <2>5, <2>6
    DEF vars, Step, HangsUp, Next, Tasks, ClusterStep, ClusterReceives, ClusterAnswers,
        ClusterAsksForServer, DispatchTask, ClientStep, Register, ReadEnds, ReadRequest,
        ReadUpdateActive, Connect, SeesEnd, Breaks, Stops, Disconnected, ProxyReads, brain,
        controller
<1> QED  BY <1>2, <1>3, <1>4 DEF EndInv

(* start() returns or panics only when a connection of a proxy is closed,  *)
(* unless it meets one of its other ends: whatever servers connect, stop,  *)
(* lose their connection and ask for, and in whatever order, the brain     *)
(* goes on (brain.rs:92, BrainEndsAfterProxyLoss).                         *)
THEOREM BrainOutlivesServers ==
  ASSUME NoOtherEnd
  PROVE  Spec => []BrainEndsAfterProxyLoss
<1>1. Init => TypeInv /\ EndInv
  BY TypeInit, EndInit
<1>2. TypeInv /\ EndInv /\ [Step]_vars => (TypeInv /\ EndInv)'
  BY TypeNext, EndNext
<1>3. EndInv => BrainEndsAfterProxyLoss
  BY DEF EndInv
<1> QED  BY <1>1, <1>2, <1>3, NextIsStep, PTL DEF Spec
-----------------------------------------------------------------------------
(* The proxy is told about a server before it is told to move a player     *)
(* there.                                                                  *)

(* Names of which a connection has ended, and names that the proxy routes  *)
(* to, will route to once it read what was written, or need not route to.  *)
Lost == {NameOf(c) : c \in {d \in Ended : KindOf(d) # "Proxy"}}
Told == linked \cup Lost \cup {n \in Name : On(to_proxy, LinkServer(n))}

ToldMsg        == {m \in SeenMsg : m.type = "Transport" => m.server \in Told}
ToldClusterMsg == {m \in SeenClusterMsg : m.type = "PushServer" => NameOf(m.conn) \in Told}
ToldMember     == {c \in Seen : NameOf(c) \in Told}
TruePacket     == {p \in Packet : p.type = "UnlinkServer" => p.name \in Lost}

(* A name goes the whole way from a connection in a cluster's channel to   *)
(* a packet for the proxy without being untold.  A join whose write to the *)
(* proxy fails is the exception, and the end of the brain.                 *)
LinkInv ==
  /\ to_proxy \in Seq(TruePacket)
  /\ TransportFollowsLink
  /\ phase # "dead" =>
       /\ receiver \in Seq(ToldMsg) /\ buffer \in Seq(ToldMsg)
       /\ inbox \in [MinigameKind -> Seq(ToldClusterMsg)]
       /\ members \in [MinigameKind -> Seq(ToldMember)]
       /\ answered \subseteq Request \X Told

(* No task comes back to life.                                             *)
LEMMA TasksGrow ==
  ASSUME TypeInv, [Step]_vars, NEW c \in Conn
  PROVE  /\ task[c] # "none" => task'[c] # "none"
         /\ task[c] = "done" => task'[c] = "done"
<1>1. CASE task' = task
  BY <1>1
<1>2. ASSUME NEW s \in Server, Connect(s)
      PROVE  task[c] # "none" => task'[c] = task[c]
  <2> DEFINE d == <<s, attempts[s] + 1>>
  <2>1. /\ attempts[s] \in Nat /\ attempts[s] < MaxAttempts[s] /\ MaxAttempts[s] \in Nat
        /\ task' = [task EXCEPT ![d] = "auth"]
        /\ task \in [Conn -> {"none", "auth", "reading", "done"}]
    BY <1>2, BrainAssumption DEF Connect, TypeInv, WorldInv
  <2>2. d \notin Seen
    BY <2>1 DEF TypeInv, WorldInv
  <2> HIDE DEF d
  <2> QED  BY <2>1, <2>2 DEF Seen
<1>3. ASSUME NEW d \in Conn, task[d] \in {"auth", "reading"},
             NEW t \in {"reading", "done"}, task' = [task EXCEPT ![d] = t]
      PROVE  /\ task[c] # "none" => task'[c] # "none"
             /\ task[c] = "done" => task'[c] = "done"
  BY <1>3 DEF TypeInv, WorldInv
<1>4. ASSUME NEW d \in Conn, ClientStep(d) \/ ReadUpdateActive(d), task' # task
      PROVE  task[d] \in {"auth", "reading"} /\
             \E t \in {"reading", "done"} : task' = [task EXCEPT ![d] = t]
  BY <1>4 DEF ClientStep, Register, ReadEnds, ReadUpdateActive, EndOfConnection
<1> QED
  BY <1>1, <1>2, <1>3, <1>4
  DEF vars, Step, HangsUp, Next, Tasks, BrainStep, Buffer, ProxyJoins, Resend, EnterMainLoop,
      SecondProxyJoins, ServerJoins, ServerLeaves, Dispatch, ClusterForward, SpawnContainer,
      Transport, ClusterStep, ClusterReceives, ClusterAnswers, ClusterAsksForServer, DispatchTask,
      ReadRequest, SeesEnd, Breaks, Stops, Disconnected, ProxyReads, outside, elsewhere

LEMMA LostGrows ==
  ASSUME TypeInv, [Step]_vars
  PROVE  /\ Seen \subseteq Seen' /\ Ended \subseteq Ended' /\ Lost \subseteq Lost'
         /\ SeenMsg \subseteq SeenMsg' /\ SeenClusterMsg \subseteq SeenClusterMsg'
         /\ \A c \in Seen : NameOf(c)' = NameOf(c)
<1>1. /\ Seen \subseteq Seen' /\ Ended \subseteq Ended'
      /\ SeenMsg \subseteq SeenMsg' /\ SeenClusterMsg \subseteq SeenClusterMsg'
  BY TasksGrow, SeenGrows
<1>2. ASSUME NEW c \in Seen PROVE NameOf(c)' = NameOf(c) /\ KindOf(c)' = KindOf(c)
  BY ClosedStays
<1>3. Ended \subseteq Seen
  BY DEF Ended, Seen
<1>4. \A c \in Ended : KindOf(c) # "Proxy" => NameOf(c) \in Lost'
  BY <1>1, <1>2, <1>3 DEF Lost, NameOf, KindOf
<1> QED  BY <1>1, <1>2, <1>4 DEF Lost

(* What is written to the proxy, and who reads it.                         *)
LEMMA ToProxyEffect ==
  ASSUME TypeInv, [Step]_vars
  PROVE  \/ ProxyReads
         \/ linked' = linked /\ transported' = transported /\ to_proxy' = to_proxy
         \/ /\ linked' = linked /\ transported' = transported /\ phase = "main"
            /\ \/ ServerJoins /\ to_proxy' = Append(to_proxy, LinkServer(NameOf(msg.conn)))
               \/ /\ ServerLeaves /\ ~ProxyLeaves(msg.conn)
                  /\ to_proxy' = Append(to_proxy, UnlinkServer(NameOf(msg.conn)))
               \/ Transport /\ to_proxy' = Append(to_proxy, TransportPlayer(msg.player, msg.server))
<1>1. CASE ServerJoins
  BY <1>1, HandleEffect DEF ServerJoins, WriteProxy, elsewhere, outside, proxy
<1>2. CASE ServerLeaves
  BY <1>2, HandleEffect DEF ServerLeaves, WriteProxy, elsewhere, outside, proxy
<1>3. CASE Transport
  BY <1>3, HandleEffect DEF Transport, WriteProxy, elsewhere, outside, proxy
<1> QED
  BY <1>1, <1>2, <1>3
  DEF vars, Step, HangsUp, Next, Tasks, BrainStep, Buffer, ProxyJoins, Resend, EnterMainLoop,
      SecondProxyJoins, Dispatch, ClusterForward, SpawnContainer, ClusterStep, ClusterReceives,
      ClusterAnswers, ClusterAsksForServer, DispatchTask, ClientStep, Register, ReadEnds,
      ReadRequest, ReadUpdateActive, Connect, SeesEnd, Breaks, Stops, Disconnected, controller,
      outside, elsewhere, proxy
LEMMA OnIsContains ==
  ASSUME NEW S, NEW s \in Seq(S), NEW e
  PROVE  On(s, e) <=> Contains(s, e)
BY DEF On, Contains

(* What the brain writes is a packet, and an UnlinkServer is true.         *)
LEMMA WrittenPackets ==
  ASSUME TypeInv
  PROVE  /\ ServerJoins => /\ msg.conn \in Seen /\ NameOf(msg.conn) \in Name
                           /\ LinkServer(NameOf(msg.conn)) \in TruePacket
         /\ ServerLeaves /\ ~ProxyLeaves(msg.conn) =>
              UnlinkServer(NameOf(msg.conn)) \in TruePacket
         /\ Transport => /\ msg.player \in Request /\ msg.server \in Name
                         /\ TransportPlayer(msg.player, msg.server) \in TruePacket
<1>1. ASSUME ServerJoins
      PROVE  /\ msg.conn \in Seen /\ NameOf(msg.conn) \in Name
             /\ LinkServer(NameOf(msg.conn)) \in TruePacket
  <2>1. msg.conn \in Seen
    BY <1>1, HandleEffect, SeenMsgFields DEF ServerJoins
  <2>2. NameOf(msg.conn) \in Name
    BY <2>1, SeenIdentity DEF TypeInv
  <2> QED  BY <2>1, <2>2 DEF TruePacket, Packet, LinkServer
<1>2. ASSUME ServerLeaves, ~ProxyLeaves(msg.conn)
      PROVE  UnlinkServer(NameOf(msg.conn)) \in TruePacket
  <2>1. msg.conn \in Ended /\ msg.conn \in Seen
    BY <1>2, HandleEffect, SeenMsgFields DEF ServerLeaves, Ended, Seen
  <2>2. NameOf(msg.conn) \in Name /\ NameOf(msg.conn) \in Lost
    BY <1>2, <2>1, SeenIdentity DEF TypeInv, Lost, ProxyLeaves
  <2> QED  BY <2>2 DEF TruePacket, Packet, UnlinkServer
<1>3. ASSUME Transport
      PROVE  /\ msg.player \in Request /\ msg.server \in Name
             /\ TransportPlayer(msg.player, msg.server) \in TruePacket
  <2>1. msg.player \in Request /\ msg.server \in Name
    BY <1>3, HandleEffect, SeenMsgFields DEF Transport
  <2> QED  BY <2>1 DEF TruePacket, Packet, TransportPlayer
<1> QED  BY <1>1, <1>2, <1>3

(* A name once told stays so, whatever happens.                            *)
LEMMA ToldGrows ==
  ASSUME TypeInv, to_proxy \in Seq(TruePacket), [Step]_vars
  PROVE  Told \subseteq Told' /\ to_proxy' \in Seq(TruePacket')
<1>1. Lost \subseteq Lost' /\ TruePacket \subseteq TruePacket'
  <2>1. Lost \subseteq Lost'
    BY LostGrows
  <2> QED  BY <2>1 DEF TruePacket, Packet
<1>2. to_proxy \in Seq(TruePacket')
  BY <1>1, SeqSubset
<1>3. CASE ProxyReads
  <2> DEFINE h == Head(to_proxy)
  <2>1. /\ to_proxy # <<>> /\ to_proxy' = Tail(to_proxy)
        /\ \/ h.type = "LinkServer" /\ linked' = linked \cup {h.name}
           \/ h.type = "UnlinkServer" /\ linked' = linked \ {h.name}
           \/ h.type = "TransportPlayer" /\ linked' = linked
    BY <1>3 DEF ProxyReads
  <2>2. h \in TruePacket /\ Tail(to_proxy) \in Seq(TruePacket')
    BY <1>2, <2>1, HeadTailProperties
  <2>3. Tail(to_proxy) \in Seq(TruePacket)
    BY <2>1, HeadTailProperties
  <2>4. ASSUME NEW n \in Name, On(to_proxy, LinkServer(n))
        PROVE  n \in linked' \/ On(to_proxy', LinkServer(n))
    <3>1. On(Tail(to_proxy), LinkServer(n)) \/ h = LinkServer(n)
      BY <2>1, <2>3, <2>4, OnIsContains, TailContains
    <3>2. h = LinkServer(n) => n \in linked'
      <4> HIDE DEF h
      <4> QED  BY <2>1 DEF LinkServer
    <3> QED  BY <2>1, <3>1, <3>2
  <2>5. \A n \in linked : n \in linked' \/ n \in Lost
    <3> HIDE DEF h
    <3> QED  BY <2>1, <2>2 DEF TruePacket
  <2> QED  BY <1>1, <2>1, <2>2, <2>4, <2>5 DEF Told
<1>4. ASSUME linked' = linked, to_proxy' = to_proxy
      PROVE  Told \subseteq Told' /\ to_proxy' \in Seq(TruePacket')
  BY <1>1, <1>2, <1>4 DEF Told
<1>5. ASSUME linked' = linked, NEW p \in TruePacket, to_proxy' = Append(to_proxy, p)
      PROVE  Told \subseteq Told' /\ to_proxy' \in Seq(TruePacket')
  <2>1. to_proxy' \in Seq(TruePacket')
    BY <1>1, <1>2, <1>5, AppendProperties
  <2>2. \A n \in Name : On(to_proxy, LinkServer(n)) => On(to_proxy', LinkServer(n))
    BY <1>5, AppendProperties DEF On
  <2> QED  BY <1>1, <1>5, <2>1, <2>2 DEF Told
<1> QED  BY <1>3, <1>4, <1>5, ToProxyEffect, WrittenPackets

(* What follows a LinkServer before the proxy read it, follows it then.    *)
LEMMA TransportsFollow ==
  ASSUME TypeInv, LinkInv, [Step]_vars
  PROVE  TransportFollowsLink'
<1> DEFINE Follows(s, i) == \E j \in 1 .. i - 1 : s[j] = LinkServer(s[i].name)
<1>1. \A i \in DOMAIN to_proxy :
        to_proxy[i].type = "TransportPlayer" =>
          to_proxy[i].name \in linked \/ to_proxy[i].name \in Lost \/ Follows(to_proxy, i)
  BY DEF LinkInv, TransportFollowsLink, Lost, Ended
<1>2. SUFFICES ASSUME NEW i \in DOMAIN to_proxy', to_proxy'[i].type = "TransportPlayer"
               PROVE  \/ to_proxy'[i].name \in linked' \/ to_proxy'[i].name \in Lost'
                      \/ Follows(to_proxy', i)
  BY DEF TransportFollowsLink, Lost, Ended
<1>3. Lost \subseteq Lost'
  BY LostGrows
<1>4. to_proxy \in Seq(TruePacket) /\ to_proxy \in Seq(Packet)
  BY DEF LinkInv, TypeInv, MailInv
<1>5. CASE ProxyReads
  <2> DEFINE h == Head(to_proxy)
  <2>1. /\ to_proxy # <<>> /\ to_proxy' = Tail(to_proxy)
        /\ \/ h.type = "LinkServer" /\ linked' = linked \cup {h.name}
           \/ h.type = "UnlinkServer" /\ linked' = linked \ {h.name}
           \/ h.type = "TransportPlayer" /\ linked' = linked
    BY <1>5 DEF ProxyReads
  <2>2. h \in TruePacket
    BY <1>4, <2>1, HeadTailProperties
  <2>3. /\ Len(to_proxy) \in Nat /\ DOMAIN to_proxy = 1 .. Len(to_proxy)
        /\ i \in 1 .. Len(to_proxy) - 1 /\ h = to_proxy[1]
        /\ \A j \in 1 .. Len(to_proxy) - 1 : to_proxy'[j] = to_proxy[j + 1]
    BY <1>4, <2>1, HeadTailProperties, LenProperties
  <2> DEFINE n == to_proxy[i + 1].name
  <2>4. to_proxy'[i] = to_proxy[i + 1] /\ i + 1 \in DOMAIN to_proxy
    BY <2>3
  <2>5. n \in linked \/ n \in Lost \/ Follows(to_proxy, i + 1)
    BY <1>1, <1>2, <2>4
  <2>6. CASE n \in linked
    <3> HIDE DEF h
    <3> QED  BY <1>3, <2>1, <2>2, <2>4, <2>6 DEF TruePacket
  <2>7. CASE Follows(to_proxy, i + 1)
    <3>1. PICK j \in 1 .. i : to_proxy[j] = LinkServer(n)
      BY <2>3, <2>7
    <3>2. CASE j = 1
      <4>1. h = LinkServer(n)
        BY <2>3, <3>1, <3>2
      <4> HIDE DEF h
      <4> QED  BY <2>1, <2>4, <4>1 DEF LinkServer
    <3>3. CASE j # 1
      <4>1. j - 1 \in 1 .. i - 1 /\ j - 1 \in 1 .. Len(to_proxy) - 1
        BY <2>3, <3>1, <3>3
      <4>2. to_proxy'[j - 1] = LinkServer(n)
        BY <2>3, <3>1, <4>1
      <4> QED  BY <2>4, <4>1, <4>2
    <3> QED  BY <3>2, <3>3
  <2> QED  BY <1>3, <2>4, <2>5, <2>6, <2>7
<1>6. CASE linked' = linked /\ to_proxy' = to_proxy
  BY <1>1, <1>2, <1>3, <1>6
<1>7. ASSUME NEW p \in TruePacket, linked' = linked, to_proxy' = Append(to_proxy, p),
             p.type = "TransportPlayer" => p.name \in Told
      PROVE  \/ to_proxy'[i].name \in linked' \/ to_proxy'[i].name \in Lost'
             \/ Follows(to_proxy', i)
  <2>1. /\ Len(to_proxy) \in Nat /\ DOMAIN to_proxy = 1 .. Len(to_proxy)
        /\ i \in 1 .. Len(to_proxy) + 1 /\ to_proxy'[Len(to_proxy) + 1] = p
        /\ \A j \in 1 .. Len(to_proxy) : to_proxy'[j] = to_proxy[j]
    BY <1>4, <1>7, AppendProperties, LenProperties
  <2>2. CASE i = Len(to_proxy) + 1
    <3>1. to_proxy'[i] = p /\ p.name \in Told
      BY <1>2, <1>7, <2>1, <2>2
    <3>2. CASE On(to_proxy, LinkServer(p.name))
      <4>1. PICK j \in 1 .. Len(to_proxy) : to_proxy[j] = LinkServer(p.name)
        BY <2>1, <3>2 DEF On
      <4>2. j \in 1 .. i - 1 /\ to_proxy'[j] = LinkServer(to_proxy'[i].name)
        BY <2>1, <2>2, <3>1, <4>1
      <4> QED  BY <4>2
    <3> QED  BY <1>3, <1>7, <3>1, <3>2 DEF Told
  <2>3. CASE i # Len(to_proxy) + 1
    <3>1. i \in DOMAIN to_proxy /\ to_proxy'[i] = to_proxy[i]
      BY <2>1, <2>3
    <3>2. \A j \in 1 .. i - 1 : to_proxy'[j] = to_proxy[j]
      BY <2>1, <3>1
    <3> QED  BY <1>1, <1>2, <1>3, <1>7, <3>1, <3>2
  <2> QED  BY <2>2, <2>3
<1>8. ServerJoins => LinkServer(NameOf(msg.conn)).type # "TransportPlayer"
  BY DEF LinkServer
<1>9. ServerLeaves => UnlinkServer(NameOf(msg.conn)).type # "TransportPlayer"
  BY DEF UnlinkServer
<1>10. ASSUME Transport
       PROVE  TransportPlayer(msg.player, msg.server).name \in Told
  <2>1. phase = "main" /\ receiver # <<>> /\ msg = Head(receiver) /\ msg.type = "Transport"
    BY <1>10, HandleEffect DEF Transport, msg
  <2>2. msg \in ToldMsg
    BY <2>1, HeadTailProperties DEF LinkInv
  <2> QED  BY <2>1, <2>2 DEF ToldMsg, TransportPlayer
<1> HIDE DEF Follows
<1> QED  BY <1>5, <1>6, <1>7, <1>8, <1>9, <1>10, ToProxyEffect, WrittenPackets
(* Everything on its way stays told.                                       *)
LEMMA MailStaysTold ==
  ASSUME TypeInv, LinkInv, [Step]_vars, phase # "dead"
  PROVE  /\ ToldMsg \subseteq ToldMsg' /\ ToldClusterMsg \subseteq ToldClusterMsg'
         /\ ToldMember \subseteq ToldMember' /\ Told \subseteq Told'
         /\ receiver \in Seq(ToldMsg') /\ buffer \in Seq(ToldMsg')
         /\ inbox \in [MinigameKind -> Seq(ToldClusterMsg')]
         /\ members \in [MinigameKind -> Seq(ToldMember')]
         /\ answered \subseteq Request \X Told'
<1>1. /\ Seen \subseteq Seen' /\ SeenMsg \subseteq SeenMsg'
      /\ SeenClusterMsg \subseteq SeenClusterMsg'
      /\ \A c \in Seen : NameOf(c)' = NameOf(c)
  BY LostGrows
<1>2. Told \subseteq Told'
  BY ToldGrows DEF LinkInv
<1>3. ToldMsg \subseteq ToldMsg' /\ ToldMember \subseteq ToldMember'
  BY <1>1, <1>2 DEF ToldMsg, ToldMember
<1>4. ToldClusterMsg \subseteq ToldClusterMsg'
  <2>1. ASSUME NEW m \in SeenClusterMsg, m.type = "PushServer"
        PROVE  NameOf(m.conn)' = NameOf(m.conn)
    <3>1. m.conn \in Seen
      BY <2>1, SeenClusterMsgFields
    <3> QED  BY <1>1, <3>1 DEF NameOf
  <2>2. ASSUME NEW m \in ToldClusterMsg
        PROVE  m \in SeenClusterMsg' /\ (m.type = "PushServer" => (NameOf(m.conn) \in Told)')
    BY <1>1, <1>2, <2>1 DEF ToldClusterMsg
  <2> QED  BY <2>2 DEF ToldClusterMsg
<1>5. inbox \in [MinigameKind -> Seq(ToldClusterMsg')]
  <2>1. \A k \in MinigameKind : inbox[k] \in Seq(ToldClusterMsg')
    BY <1>4, SeqSubset DEF LinkInv
  <2> QED  BY <2>1 DEF LinkInv
<1>6. members \in [MinigameKind -> Seq(ToldMember')]
  <2>1. \A k \in MinigameKind : members[k] \in Seq(ToldMember')
    BY <1>3, SeqSubset DEF LinkInv
  <2> QED  BY <2>1 DEF LinkInv
<1>7. receiver \in Seq(ToldMsg') /\ buffer \in Seq(ToldMsg')
  BY <1>3, SeqSubset DEF LinkInv
<1>8. answered \subseteq Request \X Told'
  BY <1>2 DEF LinkInv
<1> QED  BY <1>2, <1>3, <1>4, <1>5, <1>6, <1>7, <1>8

(* What is sent to the brain, and what the brain does with its channel.    *)
LEMMA ReceiverEffect ==
  ASSUME TypeInv, [Step]_vars
  PROVE  \/ receiver' = receiver /\ buffer' = buffer
         \/ Resend \/ Buffer
         \/ receiver # <<>> /\ receiver' = Tail(receiver) /\ buffer' = buffer
         \/ \E a \in answered :
              a[1] \notin Anonymous /\ Send(TransportMsg(a[1], a[2])) /\ buffer' = buffer
         \/ /\ \E m \in SeenMsg' : m.type # "Transport" /\ Send(m)
            /\ buffer' = buffer
<1>1. CASE UNCHANGED <<receiver, buffer>> \/ Resend \/ Buffer
  BY <1>1
<1>2. CASE \/ ProxyJoins \/ SecondProxyJoins \/ ServerJoins \/ ServerLeaves
           \/ Dispatch \/ ClusterForward \/ SpawnContainer \/ Transport
  <2>1. receiver # <<>> /\ receiver' = Tail(receiver) /\ buffer' = buffer
    BY <1>2
    DEF ProxyJoins, SecondProxyJoins, ServerJoins, ServerLeaves, Dispatch, ClusterForward,
        SpawnContainer, Transport, Handle, Received, brain
  <2> QED  BY <2>1
<1>3. CASE DispatchTask
  BY <1>3 DEF DispatchTask, brain
<1>4. ASSUME NEW k \in MinigameKind, ClusterAsksForServer(k)
      PROVE  /\ \E m \in SeenMsg' : m.type # "Transport" /\ Send(m)
             /\ buffer' = buffer
  <2>1. SpawnMsg(k) \in SeenMsg' /\ SpawnMsg(k).type # "Transport"
    BY DEF SeenMsg, SpawnMsg
  <2> QED  BY <1>4, <2>1 DEF ClusterAsksForServer, brain
<1>5. ASSUME NEW c \in Conn,
             ClientStep(c) \/ ReadUpdateActive(c) \/ \E r \in Request : ReadRequest(c, r),
             receiver' # receiver
      PROVE  /\ \E m \in SeenMsg' : m.type # "Transport" /\ Send(m)
             /\ buffer' = buffer
  <2>1. task[c] \in {"auth", "reading"} /\ buffer' = buffer
        /\ task \in [Conn -> {"none", "auth", "reading", "done"}]
    BY <1>5
    DEF ClientStep, Register, ReadEnds, ReadUpdateActive, ReadRequest, controller, brain, TypeInv,
        WorldInv
  <2>2. \/ task' = [task EXCEPT ![c] = "reading"] /\ Send(NewConn(c))
        \/ EndOfConnection(c)
        \/ KindOf(c) \in MinigameKind /\ Send(ForwardMsg(KindOf(c)))
        \/ \E r \in Request : Send(DispatchMsg(r))
    BY <1>5 DEF ClientStep, Register, ReadEnds, ReadUpdateActive, ReadRequest
  <2>3. CASE task' = [task EXCEPT ![c] = "reading"] /\ Send(NewConn(c))
    <3>1. c \in Seen'
      BY <2>1, <2>3 DEF Seen
    <3>2. NewConn(c) \in SeenMsg' /\ NewConn(c).type # "Transport"
      BY <3>1 DEF SeenMsg, NewConn
    <3> QED  BY <2>1, <2>3, <3>2
  <2>4. CASE EndOfConnection(c)
    <3>1. c \in Ended'
      BY <2>1, <2>4 DEF EndOfConnection, Ended
    <3>2. UnlinkMsg(c) \in SeenMsg' /\ UnlinkMsg(c).type # "Transport"
      BY <3>1 DEF SeenMsg, UnlinkMsg
    <3> QED  BY <2>1, <2>4, <3>2 DEF EndOfConnection
  <2>5. ASSUME NEW k \in MinigameKind
        PROVE  ForwardMsg(k) \in SeenMsg' /\ ForwardMsg(k).type # "Transport"
    BY DEF SeenMsg, ForwardMsg
  <2>6. ASSUME NEW r \in Request
        PROVE  DispatchMsg(r) \in SeenMsg' /\ DispatchMsg(r).type # "Transport"
    BY DEF SeenMsg, DispatchMsg
  <2> QED  BY <2>1, <2>2, <2>3, <2>4, <2>5, <2>6
<1>6. ASSUME NEW c \in Conn,
             ClientStep(c) \/ ReadUpdateActive(c) \/ \E r \in Request : ReadRequest(c, r)
      PROVE  buffer' = buffer
  BY <1>6
  DEF ClientStep, Register, ReadEnds, ReadUpdateActive, ReadRequest, controller, brain
<1>7. CASE EnterMainLoop
  BY <1>7 DEF EnterMainLoop
<1> QED
  BY <1>1, <1>2, <1>3, <1>4, <1>5, <1>6, <1>7
  DEF vars, Step, HangsUp, Next, Tasks, BrainStep, ClusterStep, ClusterReceives, ClusterAnswers,
      Connect, SeesEnd, Breaks, Stops, Disconnected, ProxyReads, controller, brain

(* What is sent to a cluster.                                              *)
LEMMA InboxEffect ==
  ASSUME TypeInv, [Step]_vars
  PROVE  \/ inbox' = inbox
         \/ \E k \in MinigameKind : ClusterReceives(k)
         \/ \E k \in MinigameKind :
              /\ ServerJoins /\ k = KindOf(msg.conn) /\ ToCluster(k, PushServer(msg.conn))
         \/ \E k \in MinigameKind : ServerLeaves /\ ToCluster(k, PopServer(msg.conn))
         \/ \E k \in MinigameKind :
              Dispatch /\ k = msg.kind /\ ToCluster(k, QueueServer(msg.player))
         \/ \E k \in MinigameKind : ClusterForward /\ ToCluster(k, Forwarded)
<1>1. handles \subseteq MinigameKind
  BY DEF TypeInv, BrainInv
<1>2. CASE ServerJoins
  BY <1>2 DEF ServerJoins
<1>3. CASE ServerLeaves
  BY <1>1, <1>3 DEF ServerLeaves
<1>4. CASE Dispatch
  BY <1>4 DEF Dispatch
<1>5. CASE ClusterForward
  BY <1>1, <1>5 DEF ClusterForward
<1> QED
  BY <1>2, <1>3, <1>4, <1>5
  DEF vars, Step, HangsUp, Next, Tasks, BrainStep, Buffer, ProxyJoins, Resend, EnterMainLoop,
      SecondProxyJoins, SpawnContainer, Transport, ClusterStep, ClusterAnswers,
      ClusterAsksForServer, DispatchTask, ClientStep, Register, ReadEnds, ReadRequest,
      ReadUpdateActive, Connect, SeesEnd, Breaks, Stops, Disconnected, ProxyReads, controller
LEMMA ClusterEffect ==
  ASSUME [Step]_vars
  PROVE  /\ members' = members \/ \E k \in MinigameKind : ClusterReceives(k)
         /\ pending' = pending \/ \E k \in MinigameKind : ClusterReceives(k) \/ ClusterAnswers(k)
         /\ answered' = answered \/ DispatchTask \/ \E k \in MinigameKind : ClusterAnswers(k)
BY DEF vars, Step, HangsUp, Next, Tasks, BrainStep, Buffer, ProxyJoins, Resend, EnterMainLoop,
       SecondProxyJoins, ServerJoins, ServerLeaves, Dispatch, ClusterForward, SpawnContainer,
       Transport, ClusterStep, ClusterReceives, ClusterAnswers, ClusterAsksForServer,
       DispatchTask, ClientStep, Register, ReadEnds, ReadRequest, ReadUpdateActive, Connect,
       SeesEnd, Breaks, Stops, Disconnected, ProxyReads, controller, elsewhere, cluster

LEMMA DeadStaysDead ==
  ASSUME [Step]_vars, phase = "dead"
  PROVE  phase' = "dead"
BY DEF vars, Step, HangsUp, Next, Tasks, BrainStep, Buffer, ProxyJoins, Resend, EnterMainLoop,
       SecondProxyJoins, ServerJoins, ServerLeaves, Dispatch, ClusterForward, SpawnContainer,
       Transport, Handle, ClusterStep, ClusterReceives, ClusterAnswers, ClusterAsksForServer,
       DispatchTask, ClientStep, Register, ReadEnds, ReadRequest, ReadUpdateActive, Connect,
       SeesEnd, Breaks, Stops, Disconnected, ProxyReads, controller, brain

LEMMA LinkInit == Init => LinkInv
<1> SUFFICES ASSUME Init PROVE LinkInv
  OBVIOUS
<1>1. /\ to_proxy = <<>> /\ buffer = <<>> /\ answered = {} /\ receiver = <<SpawnMsg("Lobby")>>
      /\ inbox = [k \in MinigameKind |-> <<>>] /\ members = [k \in MinigameKind |-> <<>>]
  BY DEF Init
<1>2. SpawnMsg("Lobby") \in ToldMsg
  BY DEF ToldMsg, SeenMsg, SpawnMsg
<1>3. receiver \in Seq(ToldMsg)
  BY <1>1, <1>2
<1>4. /\ to_proxy \in Seq(TruePacket) /\ buffer \in Seq(ToldMsg)
      /\ inbox \in [MinigameKind -> Seq(ToldClusterMsg)]
      /\ members \in [MinigameKind -> Seq(ToldMember)]
      /\ answered \subseteq Request \X Told
  BY <1>1
<1>5. TransportFollowsLink
  BY <1>1 DEF TransportFollowsLink
<1> QED  BY <1>3, <1>4, <1>5 DEF LinkInv

LEMMA LinkNext ==
  ASSUME TypeInv, LinkInv, [Step]_vars
  PROVE  LinkInv'
<1>1. to_proxy' \in Seq(TruePacket') /\ TransportFollowsLink'
  BY ToldGrows, TransportsFollow DEF LinkInv
<1>2. SUFFICES ASSUME phase' # "dead"
               PROVE  /\ receiver' \in Seq(ToldMsg') /\ buffer' \in Seq(ToldMsg')
                      /\ inbox' \in [MinigameKind -> Seq(ToldClusterMsg')]
                      /\ members' \in [MinigameKind -> Seq(ToldMember')]
                      /\ answered' \subseteq Request \X Told'
  BY <1>1 DEF LinkInv
<1>3. phase # "dead"
  BY <1>2, DeadStaysDead
<1>4. /\ ToldMsg \subseteq ToldMsg' /\ ToldClusterMsg \subseteq ToldClusterMsg'
      /\ ToldMember \subseteq ToldMember' /\ Told \subseteq Told'
      /\ receiver \in Seq(ToldMsg') /\ buffer \in Seq(ToldMsg')
      /\ inbox \in [MinigameKind -> Seq(ToldClusterMsg')]
      /\ members \in [MinigameKind -> Seq(ToldMember')]
      /\ answered \subseteq Request \X Told'
  BY <1>3, MailStaysTold
<1>5. receiver' \in Seq(ToldMsg') /\ buffer' \in Seq(ToldMsg')
  <2>1. CASE Resend
    <3>1. /\ buffer # <<>> /\ receiver' = Append(receiver, Head(buffer))
          /\ buffer' = Tail(buffer)
      BY <2>1 DEF Resend, Send
    <3> QED  BY <1>4, <3>1, HeadTailProperties, AppendProperties
  <2>2. CASE Buffer
    <3>1. receiver # <<>> /\ receiver' = Tail(receiver) /\ buffer' = Append(buffer, Head(receiver))
      BY <2>2 DEF Buffer, PutAside, msg
    <3> QED  BY <1>4, <3>1, HeadTailProperties, AppendProperties
  <2>3. CASE receiver # <<>> /\ receiver' = Tail(receiver) /\ buffer' = buffer
    BY <1>4, <2>3, HeadTailProperties
  <2>4. ASSUME NEW a \in answered, Send(TransportMsg(a[1], a[2])), buffer' = buffer
        PROVE  receiver' \in Seq(ToldMsg') /\ buffer' \in Seq(ToldMsg')
    <3>1. a[1] \in Request /\ a[2] \in Told /\ a[2] \in Name
      BY <1>3 DEF LinkInv, TypeInv, RestInv
    <3>2. TransportMsg(a[1], a[2]) \in ToldMsg
      BY <3>1 DEF ToldMsg, SeenMsg, TransportMsg
    <3> QED  BY <1>4, <2>4, <3>2, AppendProperties DEF Send
  <2>5. ASSUME NEW m \in SeenMsg', m.type # "Transport", Send(m), buffer' = buffer
        PROVE  receiver' \in Seq(ToldMsg') /\ buffer' \in Seq(ToldMsg')
    <3>1. m \in ToldMsg'
      BY <2>5 DEF ToldMsg
    <3> QED  BY <1>4, <2>5, <3>1, AppendProperties DEF Send
  <2> QED  BY <1>4, <2>1, <2>2, <2>3, <2>4, <2>5, ReceiverEffect
<1>6. inbox' \in [MinigameKind -> Seq(ToldClusterMsg')]
  <2>1. ASSUME NEW k \in MinigameKind, NEW m \in ToldClusterMsg', ToCluster(k, m)
        PROVE  inbox' \in [MinigameKind -> Seq(ToldClusterMsg')]
    <3>1. Append(inbox[k], m) \in Seq(ToldClusterMsg')
      BY <1>4, AppendProperties
    <3> QED  BY <1>4, <2>1, <3>1 DEF ToCluster
  <2>2. ASSUME NEW k \in MinigameKind, ClusterReceives(k)
        PROVE  inbox' \in [MinigameKind -> Seq(ToldClusterMsg')]
    <3>1. inbox[k] # <<>> /\ inbox' = [inbox EXCEPT ![k] = Tail(inbox[k])]
      BY <2>2, ClusterReceivesEffect
    <3>2. Tail(inbox[k]) \in Seq(ToldClusterMsg')
      BY <1>4, <3>1, HeadTailProperties
    <3> QED  BY <1>4, <3>1, <3>2
  <2>3. ASSUME ServerJoins
        PROVE  PushServer(msg.conn) \in ToldClusterMsg'
    <3>1. msg.conn \in Seen /\ NameOf(msg.conn) \in Name
      BY <2>3, WrittenPackets
    <3>2. ident' = ident /\ task' = task
      BY <2>3 DEF ServerJoins, elsewhere, outside, world
    <3>3. to_proxy' = Append(to_proxy, LinkServer(NameOf(msg.conn)))
      BY <1>2, <2>3, ToProxyEffect DEF ServerJoins, WriteProxy, Panic, Fail
    <3>4. On(to_proxy', LinkServer(NameOf(msg.conn)))
      <4>1. to_proxy \in Seq(TruePacket)
        BY DEF LinkInv
      <4> QED  BY <3>3, <4>1, AppendProperties DEF On
    <3> DEFINE c == msg.conn
    <3>5. c \in Seen' /\ ident'[c[1]].name \in Told'
      <4> DEFINE n == NameOf(c)
      <4>1. n \in Name /\ On(to_proxy', LinkServer(n))
        BY <3>1, <3>4
      <4>2. n \in Told'
        <5> HIDE DEF n
        <5> QED  BY <4>1 DEF Told, LinkServer
      <4>3. c \in Seen'
        BY <3>1, <3>2, SameTasks
      <4> QED  BY <3>2, <4>2, <4>3 DEF NameOf
    <3> HIDE DEF c
    <3>6. PushServer(c) \in SeenClusterMsg'
      BY <3>5 DEF SeenClusterMsg, PushServer
    <3>7. PushServer(c).conn = c
      BY DEF PushServer
    <3>8. PushServer(c) \in ToldClusterMsg'
      BY <3>5, <3>6, <3>7 DEF ToldClusterMsg, NameOf
    <3> QED  BY <3>8 DEF c
  <2>4. ASSUME ServerLeaves
        PROVE  PopServer(msg.conn) \in ToldClusterMsg'
    <3>1. msg.conn \in Seen
      BY <2>4, HandleEffect, SeenMsgFields DEF ServerLeaves, Ended, Seen
    <3>2. PopServer(msg.conn) \in ToldClusterMsg
      BY <3>1 DEF ToldClusterMsg, SeenClusterMsg, PopServer
    <3> QED  BY <1>4, <3>2
  <2>5. ASSUME Dispatch
        PROVE  QueueServer(msg.player) \in ToldClusterMsg'
    <3>1. msg.player \in Request
      BY <2>5, HandleEffect, SeenMsgFields DEF Dispatch
    <3>2. QueueServer(msg.player) \in ToldClusterMsg
      BY <3>1 DEF ToldClusterMsg, SeenClusterMsg, QueueServer
    <3> QED  BY <1>4, <3>2
  <2>6. Forwarded \in ToldClusterMsg'
    BY DEF ToldClusterMsg, SeenClusterMsg, Forwarded
  <2> QED  BY <1>4, <2>1, <2>2, <2>3, <2>4, <2>5, <2>6, InboxEffect
<1>7. members' \in [MinigameKind -> Seq(ToldMember')]
  <2>1. ASSUME NEW k \in MinigameKind, NEW s \in Seq(ToldMember'),
               members' = [members EXCEPT ![k] = s]
        PROVE  members' \in [MinigameKind -> Seq(ToldMember')]
    BY <1>4, <2>1
  <2>2. ASSUME NEW k \in MinigameKind, ClusterReceives(k)
        PROVE  members' \in [MinigameKind -> Seq(ToldMember')]
    <3>1. ASSUME NEW c \in Seen, Head(inbox[k]) = PushServer(c)
          PROVE  Append(members[k], c) \in Seq(ToldMember')
      <4>1. inbox[k] # <<>> /\ inbox[k] \in Seq(ToldClusterMsg)
        BY <1>3, <2>2, ClusterReceivesEffect DEF LinkInv
      <4>2. PushServer(c) \in ToldClusterMsg
        BY <3>1, <4>1, HeadTailProperties
      <4>3. c \in ToldMember
        BY <4>2 DEF ToldClusterMsg, ToldMember, PushServer
      <4> QED  BY <1>4, <4>3, AppendProperties
    <3>2. \A i \in DOMAIN members[k] : RemoveAt(members[k], i) \in Seq(ToldMember')
      BY <1>4, RemoveAtType
    <3> QED  BY <1>4, <2>1, <2>2, <3>1, <3>2, ClusterReceivesEffect
  <2> QED  BY <1>4, <2>2, ClusterEffect
<1>8. answered' \subseteq Request \X Told'
  <2>1. CASE DispatchTask
    BY <1>4, <2>1 DEF DispatchTask
  <2>2. ASSUME NEW k \in MinigameKind, ClusterAnswers(k)
        PROVE  answered' \subseteq Request \X Told'
    <3>1. PICK r \in pending[k], i \in DOMAIN members[k] :
            answered' = answered \cup {<<r, NameOf(members[k][i])>>}
      BY <2>2 DEF ClusterAnswers
    <3>2. r \in Request
      BY <3>1 DEF TypeInv, RestInv
    <3>3. members[k][i] \in ToldMember
      BY <1>3, <3>1 DEF LinkInv
    <3> QED  BY <1>4, <3>1, <3>2, <3>3 DEF ToldMember
  <2> QED  BY <1>4, <2>1, <2>2, ClusterEffect
<1> QED  BY <1>5, <1>6, <1>7, <1>8

(* The proxy never gets a TransportPlayer for a server that it was not     *)
(* told about first, unless a connection of that server has ended: the     *)
(* LinkServer of a join is written before the cluster can hand the server  *)
(* out, whatever the order the tasks run in (TransportFollowsLink).        *)
THEOREM TransportsFollowLinks == Spec => []TransportFollowsLink
<1>1. Init => TypeInv /\ LinkInv
  BY TypeInit, LinkInit
<1>2. TypeInv /\ LinkInv /\ [Step]_vars => (TypeInv /\ LinkInv)'
  BY TypeNext, LinkNext
<1>3. LinkInv => TransportFollowsLink
  BY DEF LinkInv
<1> QED  BY <1>1, <1>2, <1>3, NextIsStep, PTL DEF Spec
-----------------------------------------------------------------------------
(* Where a request is.                                                     *)

(* A message that stands for the request r, and channels that carry one.   *)
Of(m, r) ==
  m.type \in {"Dispatch", "Transport", "QueueServer", "TransportPlayer"} /\ m.player = r
Carries(s, r) == \E i \in DOMAIN s : Of(s[i], r)
Single(s, r)  == \A i, j \in DOMAIN s : Of(s[i], r) /\ Of(s[j], r) => i = j

(* The stages of a request, from the packet that asks to the packet that   *)
(* answers.                                                                *)
Stage == {"receiver", "buffer", "inbox", "pending", "answered", "to_proxy", "transported"}

At(p, r) ==
  \/ p = "receiver" /\ Carries(receiver, r)
  \/ p = "buffer" /\ Carries(buffer, r)
  \/ p = "inbox" /\ \E k \in MinigameKind : Carries(inbox[k], r)
  \/ p = "pending" /\ \E k \in MinigameKind : r \in pending[k]
  \/ p = "answered" /\ \E a \in answered : a[1] = r
  \/ p = "to_proxy" /\ Carries(to_proxy, r)
  \/ p = "transported" /\ \E a \in transported : a[1] = r

(* No stage holds a request twice, and only the cluster of its kind does.  *)
OneAt(p, r) ==
  /\ p = "receiver" => Single(receiver, r)
  /\ p = "buffer" => Single(buffer, r)
  /\ p = "inbox" => \A k \in MinigameKind :
       Single(inbox[k], r) /\ (Carries(inbox[k], r) => k = Wants[r])
  /\ p = "pending" => \A k \in MinigameKind : r \in pending[k] => k = Wants[r]
  /\ p = "answered" => \A a, b \in answered : a[1] = r /\ b[1] = r => a = b
  /\ p = "to_proxy" => Single(to_proxy, r)
  /\ p = "transported" => \A a, b \in transported : a[1] = r /\ b[1] = r => a = b

(* A request that was not made is nowhere, one that was is at one stage,   *)
(* and if it asked for what can be served, it is somewhere.                *)
InOneStage(r) ==
  /\ \A p, q \in Stage : At(p, r) /\ At(q, r) => p = q
  /\ r \notin asked => \A p \in Stage : ~At(p, r)
  /\ phase # "dead" /\ r \in asked \cap Served => \E p \in Stage : At(p, r)

(* Requests that come before the proxy wait; once it came, none is put     *)
(* aside any more.                                                         *)
BootInv ==
  /\ phase \in {"boot", "resend"} =>
       /\ \A i \in DOMAIN receiver : receiver[i].type # "Transport"
       /\ \A i \in DOMAIN buffer : buffer[i].type # "Transport"
       /\ \A k \in MinigameKind : inbox[k] = <<>> /\ pending[k] = {}
       /\ answered = {}
  /\ phase = "main" => buffer = <<>>

Conserved(r) == InOneStage(r) /\ \A p \in Stage : OneAt(p, r)

ConserveInv == BootInv /\ \A r \in Request : Conserved(r)

LEMMA CarriesAppend ==
  ASSUME NEW S, NEW s \in Seq(S), NEW m \in S, NEW r
  PROVE  /\ Carries(Append(s, m), r) <=> Carries(s, r) \/ Of(m, r)
         /\ Single(s, r) /\ ~(Carries(s, r) /\ Of(m, r)) => Single(Append(s, m), r)
<1>1. /\ Len(s) \in Nat /\ DOMAIN s = 1 .. Len(s) /\ DOMAIN Append(s, m) = 1 .. Len(s) + 1
      /\ Append(s, m)[Len(s) + 1] = m
      /\ \A i \in 1 .. Len(s) : Append(s, m)[i] = s[i]
  BY AppendProperties, LenProperties
<1> DEFINE a == Append(s, m)
<1> HIDE DEF a
<1>2. /\ Len(s) + 1 \in DOMAIN a /\ a[Len(s) + 1] = m
      /\ \A i \in DOMAIN s : i \in DOMAIN a /\ a[i] = s[i]
      /\ \A i \in DOMAIN a : i \in DOMAIN s \/ i = Len(s) + 1
  BY <1>1 DEF a
<1>3. Carries(a, r) <=> Carries(s, r) \/ Of(m, r)
  BY <1>2 DEF Carries
<1>4. Single(s, r) /\ ~(Carries(s, r) /\ Of(m, r)) => Single(a, r)
  BY <1>2 DEF Carries, Single
<1> QED  BY <1>3, <1>4 DEF a

LEMMA CarriesTail ==
  ASSUME NEW S, NEW s \in Seq(S), s # <<>>, NEW r
  PROVE  /\ Carries(s, r) <=> Carries(Tail(s), r) \/ Of(Head(s), r)
         /\ Single(s, r) => Single(Tail(s), r)
         /\ Single(s, r) /\ Of(Head(s), r) => ~Carries(Tail(s), r)
<1>1. /\ Len(s) \in Nat /\ Len(s) >= 1 /\ Head(s) = s[1] /\ DOMAIN s = 1 .. Len(s)
      /\ DOMAIN Tail(s) = 1 .. Len(s) - 1
      /\ \A i \in 1 .. Len(s) - 1 : Tail(s)[i] = s[i + 1]
  BY EmptySeq, LenProperties, HeadTailProperties
<1> DEFINE t == Tail(s)
<1> HIDE DEF t
<1>2. /\ 1 \in DOMAIN s
      /\ \A i \in DOMAIN t : i + 1 \in DOMAIN s /\ i + 1 # 1 /\ t[i] = s[i + 1]
      /\ \A i \in DOMAIN s : i = 1 \/ (i - 1 \in DOMAIN t /\ t[i - 1] = s[i])
      /\ \A i, j \in DOMAIN t : i + 1 = j + 1 => i = j
  BY <1>1 DEF t
<1>3. Carries(s, r) <=> Carries(t, r) \/ Of(Head(s), r)
  BY <1>1, <1>2 DEF Carries
<1>4. Single(s, r) => Single(t, r)
  BY <1>2 DEF Single
<1>5. Single(s, r) /\ Of(Head(s), r) => ~Carries(t, r)
  BY <1>1, <1>2 DEF Single, Carries
<1> QED  BY <1>3, <1>4, <1>5 DEF t

(* A message is of a request if it is one of four.                         *)
LEMMA OfMessages ==
  ASSUME NEW r
  PROVE  /\ \A c : /\ ~Of(NewConn(c), r) /\ ~Of(UnlinkMsg(c), r)
                   /\ ~Of(PushServer(c), r) /\ ~Of(PopServer(c), r)
         /\ \A k : ~Of(ForwardMsg(k), r) /\ ~Of(SpawnMsg(k), r)
         /\ \A n : ~Of(LinkServer(n), r) /\ ~Of(UnlinkServer(n), r)
         /\ ~Of(Forwarded, r)
         /\ \A x : (Of(DispatchMsg(x), r) <=> x = r) /\ (Of(QueueServer(x), r) <=> x = r)
         /\ \A x, n : /\ Of(TransportMsg(x, n), r) <=> x = r
                      /\ Of(TransportPlayer(x, n), r) <=> x = r
BY DEF Of, NewConn, UnlinkMsg, PushServer, PopServer, ForwardMsg, SpawnMsg, LinkServer,
       UnlinkServer, Forwarded, DispatchMsg, QueueServer, TransportMsg, TransportPlayer

(* What a step may do to a request at a stage.                             *)
Still(p, r)   == (At(p, r)' <=> At(p, r)) /\ (OneAt(p, r) => OneAt(p, r)')
TakesIn(p, r) == At(p, r)' /\ (OneAt(p, r) /\ ~At(p, r) => OneAt(p, r)')
GivesUp(p, r) == At(p, r) /\ (OneAt(p, r) => ~At(p, r)' /\ OneAt(p, r)')

(* Either nothing happens to a request, or it goes from one stage to       *)
(* another, or it enters the first one, or it leaves for good.             *)
LEMMA RequestStays ==
  ASSUME NEW r, Conserved(r), \A p \in Stage : Still(p, r), r \in asked' <=> r \in asked,
         phase = "dead" => phase' = "dead"
  PROVE  Conserved(r)'
BY DEF Conserved, InOneStage, Still, Served

LEMMA RequestMoves ==
  ASSUME NEW r, Conserved(r), r \in asked' <=> r \in asked,
         NEW p \in Stage, NEW q \in Stage, p # q, GivesUp(p, r), TakesIn(q, r),
         \A x \in Stage \ {p, q} : Still(x, r)
  PROVE  Conserved(r)'
<1>1. \A x \in Stage : At(x, r)' <=> x = q
  BY DEF Conserved, InOneStage, Still, GivesUp, TakesIn
<1>2. \A x \in Stage : OneAt(x, r)'
  BY DEF Conserved, InOneStage, Still, GivesUp, TakesIn
<1>3. r \in asked'
  BY DEF Conserved, InOneStage, GivesUp
<1> QED  BY <1>1, <1>2, <1>3 DEF Conserved, InOneStage, Served

LEMMA RequestEnters ==
  ASSUME NEW r, Conserved(r), r \notin asked, r \in asked',
         NEW q \in Stage, TakesIn(q, r), \A x \in Stage \ {q} : Still(x, r)
  PROVE  Conserved(r)'
<1>1. \A x \in Stage : At(x, r)' <=> x = q
  BY DEF Conserved, InOneStage, Still, TakesIn
<1>2. \A x \in Stage : OneAt(x, r)'
  BY DEF Conserved, InOneStage, Still, TakesIn
<1> QED  BY <1>1, <1>2 DEF Conserved, InOneStage, Served

LEMMA RequestLeaves ==
  ASSUME NEW r, Conserved(r), r \in asked' <=> r \in asked,
         r \notin Served \/ phase' = "dead",
         NEW p \in Stage, GivesUp(p, r), \A x \in Stage \ {p} : Still(x, r)
  PROVE  Conserved(r)'
<1>1. \A x \in Stage : ~At(x, r)'
  BY DEF Conserved, InOneStage, Still, GivesUp
<1>2. \A x \in Stage : OneAt(x, r)'
  BY DEF Conserved, InOneStage, Still, GivesUp
<1> QED  BY <1>1, <1>2 DEF Conserved, InOneStage, Served

(* What a step may do to a request on a channel.                           *)
Same(s, t, r)  == (Carries(t, r) <=> Carries(s, r)) /\ (Single(s, r) => Single(t, r))
Gains(s, t, r) == Carries(t, r) /\ (Single(s, r) /\ ~Carries(s, r) => Single(t, r))
Loses(s, t, r) == Carries(s, r) /\ (Single(s, r) => ~Carries(t, r) /\ Single(t, r))

LEMMA ChannelSend ==
  ASSUME NEW r, NEW S, NEW s \in Seq(S), NEW m
  PROVE  /\ Of(m, r) => Gains(s, Append(s, m), r)
         /\ ~Of(m, r) => Same(s, Append(s, m), r)
<1>1. s \in Seq(S \cup {m})
  BY SeqSubset
<1>2. /\ Carries(Append(s, m), r) <=> Carries(s, r) \/ Of(m, r)
      /\ Single(s, r) /\ ~(Carries(s, r) /\ Of(m, r)) => Single(Append(s, m), r)
  BY <1>1, CarriesAppend
<1> QED  BY <1>2 DEF Gains, Same

LEMMA ChannelReceive ==
  ASSUME NEW r, NEW S, NEW s \in Seq(S), s # <<>>
  PROVE  /\ Of(Head(s), r) => Loses(s, Tail(s), r)
         /\ ~Of(Head(s), r) => Same(s, Tail(s), r)
BY CarriesTail DEF Loses, Same

LEMMA ChannelStages ==
  ASSUME NEW r
  PROVE  /\ Same(receiver, receiver', r) => Still("receiver", r)
         /\ Gains(receiver, receiver', r) => TakesIn("receiver", r)
         /\ Loses(receiver, receiver', r) => GivesUp("receiver", r)
         /\ Same(buffer, buffer', r) => Still("buffer", r)
         /\ Gains(buffer, buffer', r) => TakesIn("buffer", r)
         /\ Loses(buffer, buffer', r) => GivesUp("buffer", r)
         /\ Same(to_proxy, to_proxy', r) => Still("to_proxy", r)
         /\ Gains(to_proxy, to_proxy', r) => TakesIn("to_proxy", r)
         /\ Loses(to_proxy, to_proxy', r) => GivesUp("to_proxy", r)
<1>1. /\ At("receiver", r) <=> Carries(receiver, r)
      /\ At("receiver", r)' <=> Carries(receiver', r)
      /\ OneAt("receiver", r) <=> Single(receiver, r)
      /\ OneAt("receiver", r)' <=> Single(receiver', r)
  BY DEF At, OneAt
<1>2. /\ At("buffer", r) <=> Carries(buffer, r)
      /\ At("buffer", r)' <=> Carries(buffer', r)
      /\ OneAt("buffer", r) <=> Single(buffer, r)
      /\ OneAt("buffer", r)' <=> Single(buffer', r)
  BY DEF At, OneAt
<1>3. /\ At("to_proxy", r) <=> Carries(to_proxy, r)
      /\ At("to_proxy", r)' <=> Carries(to_proxy', r)
      /\ OneAt("to_proxy", r) <=> Single(to_proxy, r)
      /\ OneAt("to_proxy", r)' <=> Single(to_proxy', r)
  BY DEF At, OneAt
<1>4. /\ Same(receiver, receiver', r) => Still("receiver", r)
      /\ Gains(receiver, receiver', r) => TakesIn("receiver", r)
      /\ Loses(receiver, receiver', r) => GivesUp("receiver", r)
  BY <1>1 DEF Same, Gains, Loses, Still, TakesIn, GivesUp
<1>5. /\ Same(buffer, buffer', r) => Still("buffer", r)
      /\ Gains(buffer, buffer', r) => TakesIn("buffer", r)
      /\ Loses(buffer, buffer', r) => GivesUp("buffer", r)
  BY <1>2 DEF Same, Gains, Loses, Still, TakesIn, GivesUp
<1>6. /\ Same(to_proxy, to_proxy', r) => Still("to_proxy", r)
      /\ Gains(to_proxy, to_proxy', r) => TakesIn("to_proxy", r)
      /\ Loses(to_proxy, to_proxy', r) => GivesUp("to_proxy", r)
  BY <1>3 DEF Same, Gains, Loses, Still, TakesIn, GivesUp
<1> QED  BY <1>4, <1>5, <1>6

(* The other stages.                                                       *)
LEMMA InboxStage ==
  ASSUME NEW r, inbox \in [MinigameKind -> Seq(SeenClusterMsg)]
  PROVE  /\ inbox' = inbox => Still("inbox", r)
         /\ \A s : \A k \in MinigameKind :
              inbox' = [inbox EXCEPT ![k] = s] =>
                /\ Same(inbox[k], s, r) => Still("inbox", r)
                /\ Gains(inbox[k], s, r) /\ k = Wants[r] => TakesIn("inbox", r)
                /\ Loses(inbox[k], s, r) => GivesUp("inbox", r)
<1>0. /\ At("inbox", r) <=> \E k \in MinigameKind : Carries(inbox[k], r)
      /\ At("inbox", r)' <=> \E k \in MinigameKind : Carries(inbox'[k], r)
      /\ OneAt("inbox", r) <=> \A k \in MinigameKind :
           Single(inbox[k], r) /\ (Carries(inbox[k], r) => k = Wants[r])
      /\ OneAt("inbox", r)' <=> \A k \in MinigameKind :
           Single(inbox'[k], r) /\ (Carries(inbox'[k], r) => k = Wants[r])
  BY DEF At, OneAt
<1>1. inbox' = inbox => Still("inbox", r)
  BY <1>0 DEF Still
<1>2. ASSUME NEW k \in MinigameKind, NEW s, inbox' = [inbox EXCEPT ![k] = s]
      PROVE  /\ Same(inbox[k], s, r) => Still("inbox", r)
             /\ Gains(inbox[k], s, r) /\ k = Wants[r] => TakesIn("inbox", r)
             /\ Loses(inbox[k], s, r) => GivesUp("inbox", r)
  <2>1. inbox'[k] = s /\ \A l \in MinigameKind \ {k} : inbox'[l] = inbox[l]
    BY <1>2
  <2>2. Same(inbox[k], s, r) => Still("inbox", r)
    BY <1>0, <2>1 DEF Same, Still
  <2>3. Gains(inbox[k], s, r) /\ k = Wants[r] => TakesIn("inbox", r)
    BY <1>0, <2>1 DEF Gains, TakesIn
  <2>4. Loses(inbox[k], s, r) => GivesUp("inbox", r)
    BY <1>0, <2>1 DEF Loses, GivesUp
  <2> QED  BY <2>2, <2>3, <2>4
<1> QED  BY <1>1, <1>2

LEMMA PendingStage ==
  ASSUME NEW r, pending \in [MinigameKind -> SUBSET Request]
  PROVE  /\ pending' = pending => Still("pending", r)
         /\ \A k \in MinigameKind, x \in Request :
              /\ pending' = [pending EXCEPT ![k] = pending[k] \cup {x}] =>
                   /\ x # r => Still("pending", r)
                   /\ x = r /\ k = Wants[r] => TakesIn("pending", r)
              /\ pending' = [pending EXCEPT ![k] = pending[k] \ {x}] =>
                   /\ x # r => Still("pending", r)
                   /\ x = r /\ x \in pending[k] => GivesUp("pending", r)
<1> USE DEF At, OneAt
<1>1. pending' = pending => Still("pending", r)
  BY DEF Still
<1>2. ASSUME NEW k \in MinigameKind, NEW x \in Request,
             pending' = [pending EXCEPT ![k] = pending[k] \cup {x}]
      PROVE  /\ x # r => Still("pending", r)
             /\ x = r /\ k = Wants[r] => TakesIn("pending", r)
  <2>1. pending'[k] = pending[k] \cup {x} /\ \A l \in MinigameKind \ {k} : pending'[l] = pending[l]
    BY <1>2
  <2> QED  BY <2>1 DEF Still, TakesIn
<1>3. ASSUME NEW k \in MinigameKind, NEW x \in Request,
             pending' = [pending EXCEPT ![k] = pending[k] \ {x}]
      PROVE  /\ x # r => Still("pending", r)
             /\ x = r /\ x \in pending[k] => GivesUp("pending", r)
  <2>1. pending'[k] = pending[k] \ {x} /\ \A l \in MinigameKind \ {k} : pending'[l] = pending[l]
    BY <1>3
  <2> QED  BY <2>1 DEF Still, GivesUp
<1> QED  BY <1>1, <1>2, <1>3

LEMMA SetStages ==
  ASSUME NEW r
  PROVE  /\ answered' = answered => Still("answered", r)
         /\ transported' = transported => Still("transported", r)
         /\ \A x, n : answered' = answered \cup {<<x, n>>} =>
              IF x = r THEN TakesIn("answered", r) ELSE Still("answered", r)
         /\ \A a \in answered : answered' = answered \ {a} =>
              IF a[1] = r THEN GivesUp("answered", r) ELSE Still("answered", r)
         /\ \A x, n : transported' = transported \cup {<<x, n>>} =>
              IF x = r THEN TakesIn("transported", r) ELSE Still("transported", r)
<1>1. /\ At("answered", r) <=> \E a \in answered : a[1] = r
      /\ At("answered", r)' <=> \E a \in answered' : a[1] = r
      /\ OneAt("answered", r) <=> \A a, b \in answered : a[1] = r /\ b[1] = r => a = b
      /\ OneAt("answered", r)' <=> \A a, b \in answered' : a[1] = r /\ b[1] = r => a = b
  BY DEF At, OneAt
<1>2. /\ At("transported", r) <=> \E a \in transported : a[1] = r
      /\ At("transported", r)' <=> \E a \in transported' : a[1] = r
      /\ OneAt("transported", r) <=> \A a, b \in transported : a[1] = r /\ b[1] = r => a = b
      /\ OneAt("transported", r)' <=> \A a, b \in transported' : a[1] = r /\ b[1] = r => a = b
  BY DEF At, OneAt
<1>3. /\ answered' = answered => Still("answered", r)
      /\ transported' = transported => Still("transported", r)
  BY <1>1, <1>2 DEF Still
<1>4. ASSUME NEW x, NEW n, answered' = answered \cup {<<x, n>>}
      PROVE  IF x = r THEN TakesIn("answered", r) ELSE Still("answered", r)
  <2> DEFINE a == <<x, n>>
  <2>1. a[1] = x /\ answered' = answered \cup {a}
    BY <1>4
  <2> HIDE DEF a
  <2>2. CASE x = r
    <3>1. At("answered", r)'
      BY <1>1, <2>1, <2>2
    <3>2. OneAt("answered", r) /\ ~At("answered", r) => OneAt("answered", r)'
      BY <1>1, <2>1, <2>2
    <3> QED  BY <2>2, <3>1, <3>2 DEF TakesIn
  <2>3. CASE x # r
    <3>1. \A b \in answered' : b[1] = r => b \in answered
      BY <2>1, <2>3
    <3>2. answered \subseteq answered'
      BY <2>1
    <3> QED  BY <1>1, <2>3, <3>1, <3>2 DEF Still
  <2> QED  BY <2>2, <2>3
<1>5. ASSUME NEW x, NEW n, transported' = transported \cup {<<x, n>>}
      PROVE  IF x = r THEN TakesIn("transported", r) ELSE Still("transported", r)
  <2> DEFINE a == <<x, n>>
  <2>1. a[1] = x /\ transported' = transported \cup {a}
    BY <1>5
  <2> HIDE DEF a
  <2>2. CASE x = r
    <3>1. At("transported", r)'
      BY <1>2, <2>1, <2>2
    <3>2. OneAt("transported", r) /\ ~At("transported", r) => OneAt("transported", r)'
      BY <1>2, <2>1, <2>2
    <3> QED  BY <2>2, <3>1, <3>2 DEF TakesIn
  <2>3. CASE x # r
    <3>1. \A b \in transported' : b[1] = r => b \in transported
      BY <2>1, <2>3
    <3>2. transported \subseteq transported'
      BY <2>1
    <3> QED  BY <1>2, <2>3, <3>1, <3>2 DEF Still
  <2> QED  BY <2>2, <2>3
<1>6. ASSUME NEW a \in answered, answered' = answered \ {a}
      PROVE  IF a[1] = r THEN GivesUp("answered", r) ELSE Still("answered", r)
  BY <1>1, <1>6 DEF Still, GivesUp
<1> QED  BY <1>3, <1>4, <1>5, <1>6
LEMMA UnchangedStages ==
  ASSUME NEW r
  PROVE  /\ receiver' = receiver => Still("receiver", r)
         /\ buffer' = buffer => Still("buffer", r)
         /\ inbox' = inbox => Still("inbox", r)
         /\ pending' = pending => Still("pending", r)
         /\ answered' = answered => Still("answered", r)
         /\ to_proxy' = to_proxy => Still("to_proxy", r)
         /\ transported' = transported => Still("transported", r)
<1>1. /\ Same(receiver, receiver, r) /\ Same(buffer, buffer, r) /\ Same(to_proxy, to_proxy, r)
  BY DEF Same
<1>2. /\ inbox' = inbox => Still("inbox", r)
      /\ pending' = pending => Still("pending", r)
  BY DEF Still, At, OneAt
<1> QED  BY <1>1, <1>2, ChannelStages, SetStages

(* A channel that sends to the brain something that is of no request, and  *)
(* the brain taking such a thing.                                          *)
LEMMA ReceiverStage ==
  ASSUME NEW r, TypeInv
  PROVE  /\ \A m : Send(m) => IF Of(m, r) THEN TakesIn("receiver", r) ELSE Still("receiver", r)
         /\ receiver # <<>> /\ receiver' = Tail(receiver) =>
              IF Of(msg, r) THEN GivesUp("receiver", r) ELSE Still("receiver", r)
<1>1. receiver \in Seq(SeenMsg)
  BY DEF TypeInv, MailInv
<1>2. ASSUME NEW m, Send(m)
      PROVE  IF Of(m, r) THEN TakesIn("receiver", r) ELSE Still("receiver", r)
  BY <1>1, <1>2, ChannelSend, ChannelStages DEF Send
<1>3. ASSUME receiver # <<>>, receiver' = Tail(receiver)
      PROVE  IF Of(msg, r) THEN GivesUp("receiver", r) ELSE Still("receiver", r)
  BY <1>1, <1>3, ChannelReceive, ChannelStages DEF msg
<1> QED  BY <1>2, <1>3

LEMMA InboxSend ==
  ASSUME NEW r, TypeInv, NEW k \in MinigameKind, NEW m, ToCluster(k, m)
  PROVE  IF Of(m, r) THEN k = Wants[r] => TakesIn("inbox", r) ELSE Still("inbox", r)
<1>1. inbox \in [MinigameKind -> Seq(SeenClusterMsg)]
  BY DEF TypeInv, MailInv
<1>2. inbox' = [inbox EXCEPT ![k] = Append(inbox[k], m)]
  BY DEF ToCluster
<1>3. /\ Of(m, r) => Gains(inbox[k], Append(inbox[k], m), r)
      /\ ~Of(m, r) => Same(inbox[k], Append(inbox[k], m), r)
  BY <1>1, ChannelSend
<1> QED  BY <1>1, <1>2, <1>3, InboxStage

LEMMA ToProxySend ==
  ASSUME NEW r, TypeInv, NEW p, NEW map, WriteProxy(p, map)
  PROVE  /\ ~Of(p, r) => Still("to_proxy", r)
         /\ \/ phase' = "dead" /\ Still("to_proxy", r)
            \/ Of(p, r) => TakesIn("to_proxy", r)
<1>1. to_proxy \in Seq(Packet)
  BY DEF TypeInv, MailInv
<1>2. /\ Of(p, r) => Gains(to_proxy, Append(to_proxy, p), r)
      /\ ~Of(p, r) => Same(to_proxy, Append(to_proxy, p), r)
  BY <1>1, ChannelSend
<1> QED  BY <1>2, ChannelStages, UnchangedStages DEF WriteProxy, Fail

(* Until the main loop, requests are put aside and put back.               *)
LEMMA BootConserves ==
  ASSUME TypeInv, NEW r \in Request, Conserved(r),
         Buffer \/ ProxyJoins \/ Resend \/ EnterMainLoop
  PROVE  Conserved(r)'
<1>1. /\ UNCHANGED <<inbox, pending, answered, to_proxy, transported, asked>>
      /\ phase # "dead"
  BY DEF Buffer, ProxyJoins, Resend, EnterMainLoop, elsewhere, outside, cluster, proxy
<1>2. /\ Still("inbox", r) /\ Still("pending", r) /\ Still("answered", r)
      /\ Still("to_proxy", r) /\ Still("transported", r)
  BY <1>1, UnchangedStages
<1>3. receiver \in Seq(SeenMsg) /\ buffer \in Seq(SeenMsg)
  BY DEF TypeInv, MailInv
<1>4. CASE Buffer
  <2>1. receiver # <<>> /\ receiver' = Tail(receiver) /\ buffer' = Append(buffer, msg)
    BY <1>4 DEF Buffer, PutAside
  <2>2. /\ Of(msg, r) => Gains(buffer, buffer', r)
        /\ ~Of(msg, r) => Same(buffer, buffer', r)
    BY <1>3, <2>1, ChannelSend
  <2>3. CASE Of(msg, r)
    <3>1. GivesUp("receiver", r) /\ TakesIn("buffer", r)
      BY <2>1, <2>2, <2>3, ReceiverStage, ChannelStages
    <3> QED  BY <1>1, <1>2, <3>1, RequestMoves DEF Stage
  <2>4. CASE ~Of(msg, r)
    <3>1. Still("receiver", r) /\ Still("buffer", r)
      BY <2>1, <2>2, <2>4, ReceiverStage, ChannelStages
    <3> QED  BY <1>1, <1>2, <3>1, RequestStays DEF Stage
  <2> QED  BY <2>3, <2>4
<1>5. CASE Resend
  <2>1. buffer # <<>> /\ buffer' = Tail(buffer) /\ Send(Head(buffer))
    BY <1>5 DEF Resend
  <2>2. /\ Of(Head(buffer), r) => Loses(buffer, buffer', r)
        /\ ~Of(Head(buffer), r) => Same(buffer, buffer', r)
    BY <1>3, <2>1, ChannelReceive
  <2>3. CASE Of(Head(buffer), r)
    <3>1. GivesUp("buffer", r) /\ TakesIn("receiver", r)
      BY <2>1, <2>2, <2>3, ReceiverStage, ChannelStages
    <3> QED  BY <1>1, <1>2, <3>1, RequestMoves DEF Stage
  <2>4. CASE ~Of(Head(buffer), r)
    <3>1. Still("receiver", r) /\ Still("buffer", r)
      BY <2>1, <2>2, <2>4, ReceiverStage, ChannelStages
    <3> QED  BY <1>1, <1>2, <3>1, RequestStays DEF Stage
  <2> QED  BY <2>3, <2>4
<1>6. CASE ProxyJoins
  <2>1. receiver # <<>> /\ receiver' = Tail(receiver) /\ buffer' = buffer /\ msg.type = "NewConn"
    BY <1>6 DEF ProxyJoins, IsProxyConn
  <2>2. ~Of(msg, r)
    BY <2>1 DEF Of
  <2>3. Still("receiver", r) /\ Still("buffer", r)
    BY <2>1, <2>2, ReceiverStage, UnchangedStages
  <2> QED  BY <1>1, <1>2, <2>3, RequestStays DEF Stage
<1>7. CASE EnterMainLoop
  <2>1. Still("receiver", r) /\ Still("buffer", r)
    BY <1>7, UnchangedStages DEF EnterMainLoop
  <2> QED  BY <1>1, <1>2, <2>1, RequestStays DEF Stage
<1> QED  BY <1>4, <1>5, <1>6, <1>7
(* In the main loop a request goes on to its cluster or to the proxy.      *)
LEMMA MainConserves ==
  ASSUME TypeInv, NEW r \in Request, Conserved(r),
         \/ SecondProxyJoins \/ ServerJoins \/ ServerLeaves
         \/ Dispatch \/ ClusterForward \/ SpawnContainer \/ Transport
  PROVE  Conserved(r)'
<1>1. /\ UNCHANGED <<buffer, pending, answered, transported, asked>>
      /\ phase # "dead" /\ receiver # <<>> /\ receiver' = Tail(receiver) /\ msg \in SeenMsg
  BY HandleEffect
  DEF SecondProxyJoins, ServerJoins, ServerLeaves, Dispatch, ClusterForward, SpawnContainer,
      Transport, elsewhere, outside, cluster, proxy, brain
<1>2. /\ Still("buffer", r) /\ Still("pending", r) /\ Still("answered", r)
      /\ Still("transported", r)
  BY <1>1, UnchangedStages
<1>3. /\ Of(msg, r) => GivesUp("receiver", r)
      /\ ~Of(msg, r) => Still("receiver", r)
  BY <1>1, ReceiverStage
<1>4. ASSUME NEW k \in MinigameKind, NEW m, ~Of(m, r), ToCluster(k, m)
      PROVE  Still("inbox", r)
  BY <1>4, InboxSend
<1>5. CASE SecondProxyJoins \/ ServerJoins \/ ServerLeaves \/ ClusterForward \/ SpawnContainer
  <2>1. ~Of(msg, r)
    BY <1>5, HandleEffect
    DEF SecondProxyJoins, ServerJoins, ServerLeaves, ClusterForward, SpawnContainer, Of
  <2>2. Still("inbox", r)
    <3>1. inbox' = inbox \/ \E m : \E k \in MinigameKind : ~Of(m, r) /\ ToCluster(k, m)
      <4>1. handles \subseteq MinigameKind
        BY DEF TypeInv, BrainInv
      <4>2. \A c : ~Of(PushServer(c), r) /\ ~Of(PopServer(c), r)
        BY OfMessages
      <4>3. ~Of(Forwarded, r)
        BY OfMessages
      <4>4. CASE ServerJoins
        BY <4>2, <4>4 DEF ServerJoins
      <4>5. CASE ServerLeaves
        BY <4>1, <4>2, <4>5 DEF ServerLeaves
      <4>6. CASE ClusterForward
        BY <4>1, <4>3, <4>6 DEF ClusterForward
      <4>7. CASE SecondProxyJoins \/ SpawnContainer
        BY <4>7 DEF SecondProxyJoins, SpawnContainer
      <4> QED  BY <1>5, <4>4, <4>5, <4>6, <4>7
    <3> QED  BY <1>4, <3>1, UnchangedStages
  <2>3. Still("to_proxy", r)
    <3>1. to_proxy' = to_proxy \/ \E p, map : ~Of(p, r) /\ WriteProxy(p, map)
      <4>1. \A n : ~Of(LinkServer(n), r) /\ ~Of(UnlinkServer(n), r)
        BY OfMessages
      <4>2. CASE ServerJoins
        BY <4>1, <4>2 DEF ServerJoins
      <4>3. CASE ServerLeaves
        BY <4>1, <4>3 DEF ServerLeaves
      <4>4. CASE SecondProxyJoins \/ SpawnContainer \/ ClusterForward
        BY <4>4 DEF SecondProxyJoins, SpawnContainer, ClusterForward
      <4> QED  BY <1>5, <4>2, <4>3, <4>4
    <3> QED  BY <3>1, ToProxySend, UnchangedStages
  <2> QED  BY <1>1, <1>2, <1>3, <2>1, <2>2, <2>3, RequestStays DEF Stage
<1>6. CASE Dispatch
  <2>1. msg.player \in Request /\ msg = DispatchMsg(msg.player) /\ msg.kind = Wants[msg.player]
    BY <1>6, HandleEffect, SeenMsgFields DEF Dispatch
  <2>2. Of(msg, r) <=> msg.player = r
    BY <1>6, HandleEffect DEF Dispatch, Of
  <2>3. Still("to_proxy", r)
    BY <1>6, UnchangedStages DEF Dispatch
  <2>4. Of(QueueServer(msg.player), r) <=> msg.player = r
    BY OfMessages
  <2>5. CASE msg.kind \in MinigameKind /\ msg.player = r
    <3>1. ToCluster(msg.kind, QueueServer(msg.player))
      BY <1>6, <2>5 DEF Dispatch
    <3>2. TakesIn("inbox", r)
      BY <2>1, <2>4, <2>5, <3>1, InboxSend
    <3> QED  BY <1>1, <1>2, <1>3, <2>2, <2>3, <2>5, <3>2, RequestMoves DEF Stage
  <2>6. CASE msg.kind \notin MinigameKind /\ msg.player = r
    <3>1. Still("inbox", r)
      BY <1>6, <2>6, UnchangedStages DEF Dispatch
    <3>2. r \notin Served
      BY <2>1, <2>6 DEF Served
    <3> QED  BY <1>1, <1>2, <1>3, <2>2, <2>3, <2>6, <3>1, <3>2, RequestLeaves DEF Stage
  <2>7. CASE msg.player # r
    <3>1. Still("inbox", r)
      BY <1>4, <1>6, <2>4, <2>7, UnchangedStages DEF Dispatch
    <3> QED  BY <1>1, <1>2, <1>3, <2>2, <2>3, <2>7, <3>1, RequestStays DEF Stage
  <2> QED  BY <2>5, <2>6, <2>7
<1>7. CASE Transport
  <2> DEFINE p == TransportPlayer(msg.player, msg.server)
  <2>1. msg.player \in Request /\ msg = TransportMsg(msg.player, msg.server)
    BY <1>7, HandleEffect, SeenMsgFields DEF Transport
  <2>2. (Of(msg, r) <=> msg.player = r) /\ (Of(p, r) <=> msg.player = r)
    <3>1. Of(msg, r) <=> msg.player = r
      BY <1>7, HandleEffect DEF Transport, Of
    <3>2. Of(p, r) <=> msg.player = r
      BY DEF Of, TransportPlayer
    <3> QED  BY <3>1, <3>2
  <2>3. Still("inbox", r) /\ WriteProxy(p, computers)
    BY <1>7, UnchangedStages DEF Transport
  <2> HIDE DEF p
  <2>4. /\ ~Of(p, r) => Still("to_proxy", r)
        /\ \/ phase' = "dead" /\ Still("to_proxy", r)
           \/ Of(p, r) => TakesIn("to_proxy", r)
    BY <2>3, ToProxySend
  <2>5. CASE msg.player # r
    BY <1>1, <1>2, <1>3, <2>2, <2>3, <2>4, <2>5, RequestStays DEF Stage
  <2>6. CASE msg.player = r /\ phase' = "dead" /\ Still("to_proxy", r)
    BY <1>1, <1>2, <1>3, <2>2, <2>3, <2>6, RequestLeaves DEF Stage
  <2>7. CASE msg.player = r /\ TakesIn("to_proxy", r)
    BY <1>1, <1>2, <1>3, <2>2, <2>3, <2>7, RequestMoves DEF Stage
  <2> QED  BY <2>2, <2>4, <2>5, <2>6, <2>7
<1> QED  BY <1>5, <1>6, <1>7

(* A cluster takes requests in and answers them; the answers are sent on.  *)
LEMMA ClustersConserve ==
  ASSUME TypeInv, NEW r \in Request, Conserved(r),
         \/ \E k \in MinigameKind : ClusterStep(k) \/ ClusterAsksForServer(k)
         \/ DispatchTask \/ ProxyReads
  PROVE  Conserved(r)'
<1>1. UNCHANGED <<buffer, asked, phase>>
  BY DEF ClusterStep, ClusterReceives, ClusterAnswers, ClusterAsksForServer, DispatchTask,
         ProxyReads, outside, brain
<1>2. Still("buffer", r)
  BY <1>1, UnchangedStages
<1>3. /\ inbox \in [MinigameKind -> Seq(SeenClusterMsg)] /\ to_proxy \in Seq(Packet)
      /\ pending \in [MinigameKind -> SUBSET Request]
  BY DEF TypeInv, MailInv, RestInv
<1>4. ASSUME NEW k \in MinigameKind, ClusterReceives(k)
      PROVE  Conserved(r)'
  <2> DEFINE m == Head(inbox[k])
  <2>1. /\ Still("receiver", r) /\ Still("answered", r) /\ Still("to_proxy", r)
        /\ Still("transported", r)
    BY <1>4, UnchangedStages DEF ClusterReceives, outside, proxy
  <2>2. /\ inbox[k] # <<>> /\ m \in SeenClusterMsg
        /\ inbox' = [inbox EXCEPT ![k] = Tail(inbox[k])]
        /\ \/ m.type # "QueueServer" /\ pending' = pending
           \/ \E x \in Request : /\ m = QueueServer(x)
                                 /\ pending' = [pending EXCEPT ![k] = pending[k] \cup {x}]
    <3>1. \A c : PushServer(c).type # "QueueServer" /\ PopServer(c).type # "QueueServer"
      BY DEF PushServer, PopServer
    <3>2. /\ inbox[k] # <<>> /\ m \in SeenClusterMsg
          /\ inbox' = [inbox EXCEPT ![k] = Tail(inbox[k])]
      BY <1>4, ClusterReceivesEffect
    <3>3. \/ /\ \E c \in Seen : m = PushServer(c) \/ m = PopServer(c)
             /\ pending' = pending
          \/ \E x \in Request : /\ m = QueueServer(x)
                                /\ pending' = [pending EXCEPT ![k] = pending[k] \cup {x}]
          \/ m.type = "UpdateActive" /\ pending' = pending
      BY <1>4, ClusterReceivesEffect
    <3> HIDE DEF m
    <3> QED  BY <3>1, <3>2, <3>3
  <2>3. /\ Of(m, r) => Loses(inbox[k], Tail(inbox[k]), r)
        /\ ~Of(m, r) => Same(inbox[k], Tail(inbox[k]), r)
    BY <1>3, <2>2, ChannelReceive
  <2> HIDE DEF m
  <2>4. CASE m.type # "QueueServer" /\ pending' = pending
    <3>1. ~Of(m, r)
      BY <2>2, <2>4, SeenClusterMsgFields DEF Of
    <3>2. Still("inbox", r) /\ Still("pending", r)
      BY <1>3, <2>2, <2>3, <2>4, <3>1, InboxStage, UnchangedStages
    <3> QED  BY <1>1, <1>2, <2>1, <3>2, RequestStays DEF Stage
  <2>5. ASSUME NEW x \in Request, m = QueueServer(x),
               pending' = [pending EXCEPT ![k] = pending[k] \cup {x}]
        PROVE  Conserved(r)'
    <3>1. Of(m, r) <=> x = r
      BY <2>5, OfMessages
    <3>2. CASE x # r
      <4>1. Still("inbox", r) /\ Still("pending", r)
        BY <1>3, <2>2, <2>3, <2>5, <3>1, <3>2, InboxStage, PendingStage
      <4> QED  BY <1>1, <1>2, <2>1, <4>1, RequestStays DEF Stage
    <3>3. CASE x = r
      <4>1. Carries(inbox[k], r)
        BY <2>3, <3>1, <3>3 DEF Loses
      <4>2. k = Wants[r]
        BY <4>1 DEF Conserved, Stage, OneAt
      <4>3. GivesUp("inbox", r) /\ TakesIn("pending", r)
        BY <1>3, <2>2, <2>3, <2>5, <3>1, <3>3, <4>2, InboxStage, PendingStage
      <4> QED  BY <1>1, <1>2, <2>1, <4>3, RequestMoves DEF Stage
    <3> QED  BY <3>2, <3>3
  <2> QED  BY <2>2, <2>4, <2>5
<1>5. ASSUME NEW k \in MinigameKind, ClusterAnswers(k)
      PROVE  Conserved(r)'
  <2>1. PICK x \in pending[k], i \in DOMAIN members[k] :
          /\ pending' = [pending EXCEPT ![k] = pending[k] \ {x}]
          /\ answered' = answered \cup {<<x, NameOf(members[k][i])>>}
    BY <1>5 DEF ClusterAnswers
  <2>2. /\ Still("receiver", r) /\ Still("inbox", r) /\ Still("to_proxy", r)
        /\ Still("transported", r)
    BY <1>5, UnchangedStages DEF ClusterAnswers, outside, proxy
  <2>3. x \in Request
    BY <1>3, <2>1
  <2>4. CASE x = r
    <3>1. GivesUp("pending", r) /\ TakesIn("answered", r)
      BY <1>3, <2>1, <2>3, <2>4, PendingStage, SetStages
    <3> QED  BY <1>1, <1>2, <2>2, <3>1, RequestMoves DEF Stage
  <2>5. CASE x # r
    <3>1. Still("pending", r) /\ Still("answered", r)
      BY <1>3, <2>1, <2>3, <2>5, PendingStage, SetStages
    <3> QED  BY <1>1, <1>2, <2>2, <3>1, RequestStays DEF Stage
  <2> QED  BY <2>4, <2>5
<1>6. ASSUME NEW k \in MinigameKind, ClusterAsksForServer(k)
      PROVE  Conserved(r)'
  <2>1. Send(SpawnMsg(k)) /\ UNCHANGED <<inbox, pending, answered, to_proxy, transported>>
    BY <1>6 DEF ClusterAsksForServer, outside, proxy
  <2>2. ~Of(SpawnMsg(k), r)
    BY OfMessages
  <2>3. /\ Still("receiver", r) /\ Still("inbox", r) /\ Still("pending", r)
        /\ Still("answered", r) /\ Still("to_proxy", r) /\ Still("transported", r)
    BY <2>1, <2>2, ReceiverStage, UnchangedStages
  <2> QED  BY <1>1, <1>2, <2>3, RequestStays DEF Stage
<1>7. CASE DispatchTask
  <2>1. PICK a \in answered :
          /\ answered' = answered \ {a}
          /\ IF a[1] \in Anonymous THEN UNCHANGED receiver ELSE Send(TransportMsg(a[1], a[2]))
    BY <1>7 DEF DispatchTask
  <2>2. /\ Still("inbox", r) /\ Still("pending", r) /\ Still("to_proxy", r)
        /\ Still("transported", r)
    BY <1>7, UnchangedStages DEF DispatchTask, outside, cluster, proxy
  <2>3. Of(TransportMsg(a[1], a[2]), r) <=> a[1] = r
    BY OfMessages
  <2>4. IF a[1] = r THEN GivesUp("answered", r) ELSE Still("answered", r)
    BY <2>1, SetStages
  <2>5. CASE a[1] = r /\ a[1] \in Anonymous
    <3>1. Still("receiver", r) /\ r \notin Served
      BY <2>1, <2>5, UnchangedStages DEF Served
    <3> QED  BY <1>1, <1>2, <2>2, <2>4, <2>5, <3>1, RequestLeaves DEF Stage
  <2>6. CASE a[1] = r /\ a[1] \notin Anonymous
    <3>1. TakesIn("receiver", r)
      BY <2>1, <2>3, <2>6, ReceiverStage
    <3> QED  BY <1>1, <1>2, <2>2, <2>4, <2>6, <3>1, RequestMoves DEF Stage
  <2>7. CASE a[1] # r
    <3>1. Still("receiver", r)
      BY <2>1, <2>3, <2>7, ReceiverStage, UnchangedStages
    <3> QED  BY <1>1, <1>2, <2>2, <2>4, <2>7, <3>1, RequestStays DEF Stage
  <2> QED  BY <2>5, <2>6, <2>7
<1>8. CASE ProxyReads
  <2> DEFINE p == Head(to_proxy)
  <2>1. /\ to_proxy # <<>> /\ to_proxy' = Tail(to_proxy)
        /\ \/ p.type \in {"LinkServer", "UnlinkServer"} /\ transported' = transported
           \/ /\ p.type = "TransportPlayer"
              /\ transported' = transported \cup {<<p.player, p.name>>}
    BY <1>8 DEF ProxyReads
  <2>2. /\ Still("receiver", r) /\ Still("inbox", r) /\ Still("pending", r)
        /\ Still("answered", r)
    BY <1>8, UnchangedStages DEF ProxyReads, cluster
  <2>3. p \in Packet
    BY <1>3, <2>1, HeadTailProperties
  <2>4. /\ Of(p, r) => Loses(to_proxy, to_proxy', r)
        /\ ~Of(p, r) => Same(to_proxy, to_proxy', r)
    BY <1>3, <2>1, ChannelReceive
  <2>5. p.type = "TransportPlayer" => (Of(p, r) <=> p.player = r)
    BY DEF Of
  <2>6. p.type \in {"LinkServer", "UnlinkServer"} => ~Of(p, r)
    BY DEF Of
  <2> HIDE DEF p
  <2>7. CASE ~Of(p, r)
    <3>1. Still("to_proxy", r) /\ Still("transported", r)
      BY <2>1, <2>4, <2>5, <2>7, ChannelStages, SetStages
    <3> QED  BY <1>1, <1>2, <2>2, <3>1, RequestStays DEF Stage
  <2>8. CASE Of(p, r)
    <3>1. GivesUp("to_proxy", r) /\ TakesIn("transported", r)
      BY <2>1, <2>4, <2>5, <2>6, <2>8, ChannelStages, SetStages
    <3> QED  BY <1>1, <1>2, <2>2, <3>1, RequestMoves DEF Stage
  <2> QED  BY <2>7, <2>8
<1> QED  BY <1>4, <1>5, <1>6, <1>7, <1>8 DEF ClusterStep
(* Connections bring requests in, once each; nothing else they send is one.*)
LEMMA ConnectionsConserve ==
  ASSUME TypeInv, NEW r \in Request, Conserved(r),
         \/ \E c \in Conn : \/ ClientStep(c) \/ ReadUpdateActive(c)
                            \/ \E x \in Request : ReadRequest(c, x)
         \/ \E s \in Server : Connect(s) \/ SeesEnd(s) \/ Breaks(s) \/ Stops(s) \/ HangsUp(s)
  PROVE  Conserved(r)'
<1>1. UNCHANGED <<phase, buffer, inbox, pending, answered, to_proxy, transported>>
  BY DEF ClientStep, Register, ReadEnds, ReadRequest, ReadUpdateActive, Connect, SeesEnd, Breaks,
         Stops, HangsUp, Disconnected, controller, brain, cluster, proxy
<1>2. /\ Still("buffer", r) /\ Still("inbox", r) /\ Still("pending", r)
      /\ Still("answered", r) /\ Still("to_proxy", r) /\ Still("transported", r)
  BY <1>1, UnchangedStages
<1>3. ASSUME NEW c \in Conn, NEW x \in Request, ReadRequest(c, x)
      PROVE  Conserved(r)'
  <2>1. x \notin asked /\ asked' = asked \cup {x} /\ Send(DispatchMsg(x))
    BY <1>3 DEF ReadRequest
  <2>2. Of(DispatchMsg(x), r) <=> x = r
    BY OfMessages
  <2>3. CASE x = r
    <3>1. TakesIn("receiver", r)
      BY <2>1, <2>2, <2>3, ReceiverStage
    <3> QED  BY <1>2, <2>1, <2>3, <3>1, RequestEnters DEF Stage
  <2>4. CASE x # r
    <3>1. Still("receiver", r)
      BY <2>1, <2>2, <2>4, ReceiverStage
    <3> QED  BY <1>1, <1>2, <2>1, <2>4, <3>1, RequestStays DEF Stage
  <2> QED  BY <2>3, <2>4
<1>4. ASSUME asked' = asked, \/ receiver' = receiver
                             \/ \E c \in Conn : Send(NewConn(c)) \/ Send(UnlinkMsg(c))
                             \/ \E k \in MinigameKind : Send(ForwardMsg(k))
      PROVE  Conserved(r)'
  <2>1. /\ \A c \in Conn : ~Of(NewConn(c), r) /\ ~Of(UnlinkMsg(c), r)
        /\ \A k \in MinigameKind : ~Of(ForwardMsg(k), r)
    BY OfMessages
  <2>2. Still("receiver", r)
    BY <1>4, <2>1, ReceiverStage, UnchangedStages
  <2> QED  BY <1>1, <1>2, <1>4, <2>2, RequestStays DEF Stage
<1> QED
  BY <1>3, <1>4
  DEF ClientStep, Register, ReadEnds, EndOfConnection, ReadUpdateActive, Connect, SeesEnd, Breaks,
      Stops, HangsUp, Disconnected, controller

LEMMA ConservedNext ==
  ASSUME TypeInv, NEW r \in Request, Conserved(r), [Step]_vars
  PROVE  Conserved(r)'
<1>1. CASE UNCHANGED vars
  <2>1. /\ UNCHANGED <<receiver, buffer, inbox, pending, answered, to_proxy, transported>>
        /\ asked' = asked /\ phase' = phase
    BY <1>1 DEF vars, brain, cluster, proxy
  <2>2. \A p \in Stage : Still(p, r)
    BY <2>1, UnchangedStages DEF Stage
  <2> QED  BY <2>1, <2>2, RequestStays
<1> QED
  BY <1>1, BootConserves, MainConserves, ClustersConserve, ConnectionsConserve
  DEF Step, Next, Tasks, BrainStep

LEMMA PhaseEffect ==
  ASSUME [Step]_vars
  PROVE  \/ phase' = phase \/ phase' = "dead" \/ phase = "resend"
         \/ phase = "boot" /\ phase' = "resend"
BY DEF vars, Step, HangsUp, Next, Tasks, BrainStep, Buffer, ProxyJoins, Resend, SecondProxyJoins,
       ServerJoins, ServerLeaves, Dispatch, ClusterForward, SpawnContainer, Transport, WriteProxy,
       GoOn, Panic, Fail, ClusterStep, ClusterReceives, ClusterAnswers, ClusterAsksForServer,
       DispatchTask, ClientStep, Register, ReadEnds, ReadRequest, ReadUpdateActive, Connect,
       SeesEnd, Breaks, Stops, Disconnected, ProxyReads, controller, brain, EnterMainLoop

LEMMA BootNext ==
  ASSUME TypeInv, BootInv, [Step]_vars
  PROVE  BootInv'
<1>1. receiver \in Seq(SeenMsg) /\ buffer \in Seq(SeenMsg)
  BY DEF TypeInv, MailInv
<1>2. phase \in {"boot", "resend", "main", "dead"}
  BY DEF TypeInv, BrainInv
<1>3. ASSUME phase' \in {"boot", "resend"}
      PROVE  /\ \A i \in DOMAIN receiver' : receiver'[i].type # "Transport"
             /\ \A i \in DOMAIN buffer' : buffer'[i].type # "Transport"
             /\ \A k \in MinigameKind : inbox'[k] = <<>> /\ pending'[k] = {}
             /\ answered' = {}
  <2>1. phase \in {"boot", "resend"}
    BY <1>2, <1>3, PhaseEffect, DeadStaysDead
  <2> DEFINE Free(s) == \A i \in DOMAIN s : s[i].type # "Transport"
  <2>2. Free(receiver) /\ Free(buffer)
    BY <2>1 DEF BootInv
  <2>3. \A k \in MinigameKind : inbox[k] = <<>> /\ pending[k] = {}
    BY <2>1 DEF BootInv
  <2>4. answered = {}
    BY <2>1 DEF BootInv
  <2>5. ASSUME NEW s \in Seq(SeenMsg), Free(s), s # <<>>
        PROVE  Free(Tail(s)) /\ Head(s).type # "Transport"
    BY <2>5, HeadTailProperties, EmptySeq, LenProperties
  <2>6. ASSUME NEW s \in Seq(SeenMsg), Free(s), NEW m, m.type # "Transport"
        PROVE  Free(Append(s, m))
    <3>1. s \in Seq(SeenMsg \cup {m})
      BY SeqSubset
    <3> QED  BY <2>6, <3>1, AppendProperties
  <2> HIDE DEF Free
  <2>7. Free(receiver') /\ Free(buffer')
    <3>1. CASE Resend
      <4>1. /\ buffer # <<>> /\ receiver' = Append(receiver, Head(buffer))
            /\ buffer' = Tail(buffer)
        BY <3>1 DEF Resend, Send
      <4> QED  BY <1>1, <2>2, <2>5, <2>6, <4>1
    <3>2. CASE Buffer
      <4>1. /\ receiver # <<>> /\ receiver' = Tail(receiver)
            /\ buffer' = Append(buffer, Head(receiver))
        BY <3>2 DEF Buffer, PutAside, msg
      <4> QED  BY <1>1, <2>2, <2>5, <2>6, <4>1
    <3>3. CASE receiver # <<>> /\ receiver' = Tail(receiver) /\ buffer' = buffer
      BY <1>1, <2>2, <2>5, <3>3
    <3>4. ASSUME NEW m, m.type # "Transport", Send(m), buffer' = buffer
          PROVE  Free(receiver') /\ Free(buffer')
      BY <1>1, <2>2, <2>6, <3>4 DEF Send
    <3> QED  BY <2>2, <2>4, <3>1, <3>2, <3>3, <3>4, ReceiverEffect
  <2>8. inbox' = inbox
    <3>1. \A k \in MinigameKind : ~ClusterReceives(k)
      BY <2>3 DEF ClusterReceives
    <3>2. ~ServerJoins /\ ~ServerLeaves /\ ~Dispatch /\ ~ClusterForward
      BY <2>1 DEF ServerJoins, ServerLeaves, Dispatch, ClusterForward, Handle
    <3> QED  BY <3>1, <3>2, InboxEffect
  <2>9. pending' = pending /\ answered' = answered
    <3>1. \A k \in MinigameKind : ~ClusterReceives(k) /\ ~ClusterAnswers(k)
      BY <2>3 DEF ClusterReceives, ClusterAnswers
    <3>2. ~DispatchTask
      BY <2>4 DEF DispatchTask
    <3> QED  BY <3>1, <3>2, ClusterEffect
  <2> QED  BY <2>3, <2>4, <2>7, <2>8, <2>9 DEF Free
<1>4. ASSUME phase' = "main"
      PROVE  buffer' = <<>>
  <2>1. CASE phase = "main"
    <3>1. ~Buffer /\ ~Resend
      BY <2>1 DEF Buffer, Resend
    <3> QED  BY <2>1, <3>1, ReceiverEffect DEF BootInv
  <2>2. CASE phase = "resend"
    BY <1>4, <2>2
    DEF vars, Step, HangsUp, Next, Tasks, BrainStep, Buffer, ProxyJoins, Resend, EnterMainLoop,
        SecondProxyJoins, ServerJoins, ServerLeaves, Dispatch, ClusterForward, SpawnContainer,
        Transport, Handle, ClusterStep, ClusterReceives, ClusterAnswers, ClusterAsksForServer,
        DispatchTask, ClientStep, Register, ReadEnds, ReadRequest, ReadUpdateActive, Connect,
        SeesEnd, Breaks, Stops, Disconnected, ProxyReads, controller, brain
  <2> QED  BY <1>2, <1>4, <2>1, <2>2, PhaseEffect, DeadStaysDead
<1> QED  BY <1>3, <1>4 DEF BootInv

LEMMA ConserveInit == Init => ConserveInv
<1> SUFFICES ASSUME Init PROVE ConserveInv
  OBVIOUS
<1>1. /\ receiver = <<SpawnMsg("Lobby")>> /\ buffer = <<>> /\ to_proxy = <<>>
      /\ inbox = [k \in MinigameKind |-> <<>>] /\ pending = [k \in MinigameKind |-> {}]
      /\ answered = {} /\ transported = {} /\ asked = {} /\ phase = "boot"
  BY DEF Init
<1>2. DOMAIN receiver = {1} /\ receiver[1] = SpawnMsg("Lobby")
  BY <1>1
<1>3. BootInv
  BY <1>1, <1>2 DEF BootInv, SpawnMsg
<1>4. ASSUME NEW r \in Request
      PROVE  Conserved(r)
  <2>1. ~Of(SpawnMsg("Lobby"), r)
    BY OfMessages
  <2>2. ~Carries(receiver, r) /\ Single(receiver, r)
    BY <1>2, <2>1 DEF Carries, Single
  <2>3. ~Carries(<<>>, r) /\ Single(<<>>, r)
    BY DEF Carries, Single
  <2>4. \A p \in Stage : ~At(p, r)
    BY <1>1, <2>2, <2>3 DEF At
  <2>5. \A p \in Stage : OneAt(p, r)
    BY <1>1, <2>2, <2>3 DEF OneAt
  <2> QED  BY <1>1, <2>4, <2>5 DEF Conserved, InOneStage
<1> QED  BY <1>3, <1>4 DEF ConserveInv
(* The places of a request are at its stage, and there is one of them.     *)
LEMMA OnePlace ==
  ASSUME TypeInv, ConserveInv, NEW r \in Request, phase # "dead"
  PROVE  /\ \A x, y \in Places(r) : x = y
         /\ r \in asked \cap Served => Places(r) # {}
<1> DEFINE P1 == {<<"receiver", i>> : i \in {j \in DOMAIN receiver :
                   receiver[j].type \in {"Dispatch", "Transport"} /\ receiver[j].player = r}}
           P2 == {<<"buffer", i>> : i \in {j \in DOMAIN buffer :
                   buffer[j].type = "Dispatch" /\ buffer[j].player = r}}
           P3 == {<<k, "inbox">> : k \in {l \in MinigameKind : On(inbox[l], QueueServer(r))}}
           P4 == {<<k, "pending">> : k \in {l \in MinigameKind : r \in pending[l]}}
           P5 == {<<"answered", a>> : a \in {b \in answered : b[1] = r}}
           P6 == {<<"to_proxy", i>> : i \in {j \in DOMAIN to_proxy :
                   to_proxy[j].type = "TransportPlayer" /\ to_proxy[j].player = r}}
           P7 == {<<"transported", a>> : a \in {b \in transported : b[1] = r}}
<1>1. Places(r) = P1 \cup P2 \cup P3 \cup P4 \cup P5 \cup P6 \cup P7
  BY DEF Places
<1>2. InOneStage(r) /\ \A p \in Stage : OneAt(p, r)
  BY DEF ConserveInv, Conserved
<1>3. /\ receiver \in Seq(SeenMsg) /\ buffer \in Seq(SeenMsg) /\ to_proxy \in Seq(Packet)
      /\ inbox \in [MinigameKind -> Seq(SeenClusterMsg)]
  BY DEF TypeInv, MailInv
<1>4. /\ \A x, y \in P1 : x = y
      /\ P1 # {} <=> At("receiver", r)
  <2>1. ASSUME NEW i \in DOMAIN receiver
        PROVE  Of(receiver[i], r) <=>
                 receiver[i].type \in {"Dispatch", "Transport"} /\ receiver[i].player = r
    <3>1. receiver[i] \in SeenMsg
      BY <1>3
    <3> QED  BY <3>1, SeenMsgFields DEF Of
  <2>2. Single(receiver, r) /\ (At("receiver", r) <=> Carries(receiver, r))
    BY <1>2 DEF Stage, At, OneAt
  <2>3. P1 = {<<"receiver", i>> : i \in {j \in DOMAIN receiver : Of(receiver[j], r)}}
    BY <2>1
  <2>4. \A x, y \in P1 : x = y
    BY <2>2, <2>3 DEF Single
  <2>5. P1 # {} <=> Carries(receiver, r)
    BY <2>3 DEF Carries
  <2> QED  BY <2>2, <2>4, <2>5
<1>5. /\ \A x, y \in P2 : x = y
      /\ P2 # {} <=> At("buffer", r)
  <2>1. ASSUME NEW i \in DOMAIN buffer
        PROVE  Of(buffer[i], r) <=> buffer[i].type = "Dispatch" /\ buffer[i].player = r
    <3>1. buffer[i] \in SeenMsg
      BY <1>3
    <3>2. buffer[i].type # "Transport"
      BY DEF ConserveInv, BootInv, TypeInv, BrainInv
    <3> QED  BY <3>1, <3>2, SeenMsgFields DEF Of
  <2>2. Single(buffer, r) /\ (At("buffer", r) <=> Carries(buffer, r))
    BY <1>2 DEF Stage, At, OneAt
  <2> QED  BY <2>1, <2>2 DEF Single, Carries
<1>6. /\ \A x, y \in P3 : x = y
      /\ P3 # {} <=> At("inbox", r)
  <2>1. ASSUME NEW k \in MinigameKind
        PROVE  On(inbox[k], QueueServer(r)) <=> Carries(inbox[k], r)
    <3>1. ASSUME NEW i \in DOMAIN inbox[k]
          PROVE  Of(inbox[k][i], r) <=> inbox[k][i] = QueueServer(r)
      <4>1. inbox[k][i] \in SeenClusterMsg
        BY <1>3
      <4>2. Of(QueueServer(r), r)
        BY OfMessages
      <4> QED  BY <4>1, <4>2, SeenClusterMsgFields DEF Of
    <3> QED  BY <3>1 DEF On, Carries
  <2>2. \A k \in MinigameKind : Carries(inbox[k], r) => k = Wants[r]
    BY <1>2 DEF Stage, OneAt
  <2>3. At("inbox", r) <=> \E k \in MinigameKind : Carries(inbox[k], r)
    BY DEF At
  <2> QED  BY <2>1, <2>2, <2>3
<1>7. /\ \A x, y \in P4 : x = y
      /\ P4 # {} <=> At("pending", r)
  <2>1. \A k \in MinigameKind : r \in pending[k] => k = Wants[r]
    BY <1>2 DEF Stage, OneAt
  <2>2. At("pending", r) <=> \E k \in MinigameKind : r \in pending[k]
    BY DEF At
  <2> QED  BY <2>1, <2>2
<1>8. /\ \A x, y \in P5 : x = y
      /\ P5 # {} <=> At("answered", r)
  <2>1. \A a, b \in answered : a[1] = r /\ b[1] = r => a = b
    BY <1>2 DEF Stage, OneAt
  <2>2. At("answered", r) <=> \E a \in answered : a[1] = r
    BY DEF At
  <2> QED  BY <2>1, <2>2
<1>9. /\ \A x, y \in P6 : x = y
      /\ P6 # {} <=> At("to_proxy", r)
  <2>1. ASSUME NEW i \in DOMAIN to_proxy
        PROVE  Of(to_proxy[i], r) <=>
                 to_proxy[i].type = "TransportPlayer" /\ to_proxy[i].player = r
    <3>1. to_proxy[i] \in Packet
      BY <1>3
    <3> QED  BY <3>1, PacketFields DEF Of
  <2>2. Single(to_proxy, r) /\ (At("to_proxy", r) <=> Carries(to_proxy, r))
    BY <1>2 DEF Stage, At, OneAt
  <2> QED  BY <2>1, <2>2 DEF Single, Carries
<1>10. /\ \A x, y \in P7 : x = y
       /\ P7 # {} <=> At("transported", r)
  <2>1. \A a, b \in transported : a[1] = r /\ b[1] = r => a = b
    BY <1>2 DEF Stage, OneAt
  <2>2. At("transported", r) <=> \E a \in transported : a[1] = r
    BY DEF At
  <2> QED  BY <2>1, <2>2
<1> HIDE DEF P1, P2, P3, P4, P5, P6, P7
<1>11. \A p, q \in Stage : At(p, r) /\ At(q, r) => p = q
  BY <1>2 DEF InOneStage
<1>12. /\ P1 # {} => P2 = {} /\ P3 = {} /\ P4 = {} /\ P5 = {} /\ P6 = {} /\ P7 = {}
       /\ P2 # {} => P3 = {} /\ P4 = {} /\ P5 = {} /\ P6 = {} /\ P7 = {}
       /\ P3 # {} => P4 = {} /\ P5 = {} /\ P6 = {} /\ P7 = {}
       /\ P4 # {} => P5 = {} /\ P6 = {} /\ P7 = {}
       /\ P5 # {} => P6 = {} /\ P7 = {}
       /\ P6 # {} => P7 = {}
  BY <1>4, <1>5, <1>6, <1>7, <1>8, <1>9, <1>10, <1>11 DEF Stage
<1>13. \A x, y \in Places(r) : x = y
  BY <1>1, <1>4, <1>5, <1>6, <1>7, <1>8, <1>9, <1>10, <1>12
<1>14. ASSUME r \in asked \cap Served
       PROVE  Places(r) # {}
  <2>1. \E p \in Stage : At(p, r)
    BY <1>2, <1>14 DEF InOneStage
  <2> QED  BY <1>1, <1>4, <1>5, <1>6, <1>7, <1>8, <1>9, <1>10, <2>1 DEF Stage
<1> QED  BY <1>13, <1>14

LEMMA ConserveNext ==
  ASSUME TypeInv, ConserveInv, [Step]_vars
  PROVE  ConserveInv'
<1>1. \A r \in Request : Conserved(r)'
  BY ConservedNext DEF ConserveInv
<1>2. BootInv'
  BY BootNext DEF ConserveInv
<1> QED  BY <1>1, <1>2 DEF ConserveInv

LEMMA ConservedOnce == TypeInv /\ ConserveInv => RequestsConserved
<1> SUFFICES ASSUME TypeInv, ConserveInv, phase # "dead", NEW r \in asked
             PROVE  Cardinality(Places(r)) <= 1 /\ (r \in Served => Places(r) # {})
  BY DEF RequestsConserved
<1>1. r \in Request
  BY DEF TypeInv, RestInv
<1>2. \A x, y \in Places(r) : x = y
  BY <1>1, OnePlace
<1>3. r \in Served => Places(r) # {}
  BY <1>1, OnePlace
<1>4. Cardinality(Places(r)) <= 1
  <2>1. CASE Places(r) = {}
    BY <2>1, FS_EmptySet
  <2>2. ASSUME NEW x \in Places(r)
        PROVE  Cardinality(Places(r)) <= 1
    <3>1. Places(r) = {x}
      BY <1>2
    <3>2. Cardinality({x}) = 1
      BY FS_Singleton
    <3> QED  BY <3>1, <3>2
  <2> QED  BY <2>1, <2>2
<1> QED  BY <1>3, <1>4

(* No request is lost or doubled on its way through the buffer, the        *)
(* brain's channel, a cluster, a dispatch task and the proxy's connection, *)
(* whether it came before the proxy or after, whatever else the tasks do   *)
(* in the meantime (RequestsConserved).                                    *)
THEOREM RequestsAreNeverLost == Spec => []RequestsConserved
<1>1. Init => TypeInv /\ ConserveInv
  BY TypeInit, ConserveInit
<1>2. TypeInv /\ ConserveInv /\ [Step]_vars => (TypeInv /\ ConserveInv)'
  BY TypeNext, ConserveNext
<1> QED  BY <1>1, <1>2, ConservedOnce, NextIsStep, PTL DEF Spec
-----------------------------------------------------------------------------
(* The proxy forgets dead servers.                                         *)

(* A connection reads or its end is on its way to the brain: what the      *)
(* proxy routes to, or will, is kept by the one or taken back by the other.*)
Live(n)    == \E c \in Conn : task[c] = "reading" /\ KindOf(c) # "Proxy" /\ NameOf(c) = n
Leaving(n) == \E i \in DOMAIN receiver :
                receiver[i].type = "Unlink" /\ NameOf(receiver[i].conn) = n
Kept(n)    == Live(n) \/ Leaving(n)

(* A server has one open connection at most, the last it made.             *)
OpenInv ==
  \A c \in Seen : end[c] # "none" /\ (end[c] = "open" => c[2] = attempts[c[1]])

(* No game server of an earlier run is there before the proxy.             *)
NoEarlyServers == \A s \in Early : Preset[s].kind = "Proxy"

(* While the brain waits for the proxy, proxies alone connect.             *)
WaitInv ==
  phase \in {"boot", "resend"} =>
    /\ \A s \in Server \ DOMAIN Preset : ident[s] = None
    /\ \A s \in DOMAIN Preset : ident[s] = Preset[s]
    /\ \A c \in Seen : KindOf(c) = "Proxy"
    /\ to_proxy = <<>> /\ linked = {}

(* A server that joins and does not read any more leaves after it joined,  *)
(* a packet that links a name is followed by one that unlinks it or the    *)
(* name is kept, and so it is with what is linked.                         *)
JoinInv ==
  \A i \in DOMAIN receiver :
    receiver[i].type = "NewConn" /\ KindOf(receiver[i].conn) # "Proxy" =>
      \/ task[receiver[i].conn] = "reading"
      \/ \E j \in DOMAIN receiver : j > i /\ receiver[j] = UnlinkMsg(receiver[i].conn)

PacketInv ==
  \A i \in DOMAIN to_proxy :
    to_proxy[i].type = "LinkServer" =>
      \/ \E j \in DOMAIN to_proxy : j > i /\ to_proxy[j] = UnlinkServer(to_proxy[i].name)
      \/ Kept(to_proxy[i].name)

LinkedInv == \A n \in linked : On(to_proxy, UnlinkServer(n)) \/ Kept(n)

UnlinkInv == phase = "main" => JoinInv /\ PacketInv /\ LinkedInv

DeadInv == OpenInv /\ WaitInv /\ UnlinkInv

(* A task that stops reading says so.                                      *)
LEMMA ReadingEnds ==
  ASSUME TypeInv, [Step]_vars, NEW c \in Conn, task[c] = "reading"
  PROVE  task'[c] = "reading" \/ Send(UnlinkMsg(c))
<1>1. CASE task' = task
  BY <1>1
<1>2. ASSUME NEW s \in Server, Connect(s)
      PROVE  task'[c] = "reading"
  <2> DEFINE d == <<s, attempts[s] + 1>>
  <2>1. /\ attempts[s] \in Nat /\ attempts[s] < MaxAttempts[s] /\ MaxAttempts[s] \in Nat
        /\ task' = [task EXCEPT ![d] = "auth"]
    BY <1>2, BrainAssumption DEF Connect, TypeInv, WorldInv
  <2>2. d \notin Seen
    BY <2>1 DEF TypeInv, WorldInv
  <2> HIDE DEF d
  <2> QED  BY <2>1, <2>2 DEF Seen, TypeInv, WorldInv
<1>3. ASSUME NEW d \in Conn, ClientStep(d) \/ ReadUpdateActive(d)
      PROVE  task'[c] = "reading" \/ Send(UnlinkMsg(c))
  <2>1. \/ task' = task
        \/ task[d] = "auth" /\ \E t \in {"reading", "done"} : task' = [task EXCEPT ![d] = t]
        \/ EndOfConnection(d)
    BY <1>3 DEF ClientStep, Register, ReadEnds, ReadUpdateActive
  <2> QED  BY <2>1 DEF EndOfConnection, TypeInv, WorldInv
<1> QED
  BY <1>1, <1>2, <1>3
  DEF vars, Step, HangsUp, Next, Tasks, BrainStep, Buffer, ProxyJoins, Resend, EnterMainLoop,
      SecondProxyJoins, ServerJoins, ServerLeaves, Dispatch, ClusterForward, SpawnContainer,
      Transport, ClusterStep, ClusterReceives, ClusterAnswers, ClusterAsksForServer, DispatchTask,
      ReadRequest, SeesEnd, Breaks, Stops, Disconnected, ProxyReads, outside, elsewhere

(* What happens to the brain's channel in the main loop.                   *)
LEMMA MainReceiver ==
  ASSUME TypeInv, [Step]_vars, phase = "main", phase' = "main"
  PROVE  \/ receiver' = receiver
         \/ /\ receiver # <<>> /\ receiver' = Tail(receiver) /\ UNCHANGED task
            /\ msg.type = "Unlink" =>
                 to_proxy' = Append(to_proxy, UnlinkServer(NameOf(msg.conn)))
         \/ /\ \E m : Send(m) /\ (m.type = "NewConn" => task'[m.conn] = "reading")
            /\ ~ServerJoins
<1>1. CASE receiver' = receiver
  BY <1>1
<1>2. CASE \/ SecondProxyJoins \/ ServerJoins \/ ServerLeaves
           \/ Dispatch \/ ClusterForward \/ SpawnContainer \/ Transport
  <2>1. receiver # <<>> /\ receiver' = Tail(receiver) /\ UNCHANGED task
    BY <1>2, HandleEffect
    DEF SecondProxyJoins, ServerJoins, ServerLeaves, Dispatch, ClusterForward, SpawnContainer,
        Transport, elsewhere, outside
  <2>2. ASSUME msg.type = "Unlink"
        PROVE  to_proxy' = Append(to_proxy, UnlinkServer(NameOf(msg.conn)))
    <3>1. ServerLeaves
      BY <1>2, <2>2, HandleEffect
      DEF SecondProxyJoins, ServerJoins, Dispatch, ClusterForward, SpawnContainer, Transport
    <3> QED  BY <3>1 DEF ServerLeaves, WriteProxy, Panic, Fail
  <2> QED  BY <2>1, <2>2
<1>3. ASSUME ~ServerJoins, \E m : Send(m) /\ m.type # "NewConn"
      PROVE  /\ \E m : Send(m) /\ (m.type = "NewConn" => task'[m.conn] = "reading")
             /\ ~ServerJoins
  BY <1>3
<1>4. /\ \A c : UnlinkMsg(c).type # "NewConn" /\ NewConn(c).conn = c
      /\ \A k : SpawnMsg(k).type # "NewConn" /\ ForwardMsg(k).type # "NewConn"
      /\ \A r : DispatchMsg(r).type # "NewConn"
      /\ \A r, n : TransportMsg(r, n).type # "NewConn"
  BY DEF UnlinkMsg, NewConn, SpawnMsg, ForwardMsg, DispatchMsg, TransportMsg
<1>6. CASE DispatchTask
  <2>1. receiver' = receiver \/ \E m : Send(m) /\ m.type # "NewConn"
    BY <1>4, <1>6 DEF DispatchTask
  <2>2. CASE ServerJoins
    BY <1>2, <2>2
  <2> QED  BY <1>1, <1>3, <2>1, <2>2
<1>7. ASSUME NEW k \in MinigameKind, ClusterAsksForServer(k)
      PROVE  \E m : Send(m) /\ m.type # "NewConn"
  BY <1>4, <1>7 DEF ClusterAsksForServer
<1>8. ASSUME NEW c \in Conn,
             ClientStep(c) \/ ReadUpdateActive(c) \/ \E r \in Request : ReadRequest(c, r)
      PROVE  \/ receiver' = receiver
             \/ \E m : Send(m) /\ (m.type = "NewConn" => task'[m.conn] = "reading")
  <2>1. CASE Register(c)
    <3>1. task \in [Conn -> {"none", "auth", "reading", "done"}]
      BY DEF TypeInv, WorldInv
    <3> QED  BY <1>4, <2>1, <3>1 DEF Register
  <2>2. CASE ReadEnds(c) \/ ReadUpdateActive(c) \/ \E r \in Request : ReadRequest(c, r)
    <3>1. \E m : Send(m) /\ m.type # "NewConn"
      BY <1>4, <2>2 DEF ReadEnds, ReadUpdateActive, ReadRequest, EndOfConnection
    <3> QED  BY <3>1
  <2> QED  BY <1>8, <2>1, <2>2 DEF ClientStep
<1>9. CASE ServerJoins
  BY <1>2, <1>9
<1> QED
  BY <1>1, <1>2, <1>3, <1>6, <1>7, <1>8, <1>9
  DEF vars, Step, HangsUp, Next, Tasks, BrainStep, Buffer, ProxyJoins, Resend, EnterMainLoop,
      ClusterStep, ClusterReceives, ClusterAnswers, Connect, SeesEnd, Breaks, Stops, Disconnected,
      ProxyReads, controller, brain
LEMMA OpenNext ==
  ASSUME TypeInv, OpenInv, [Step]_vars
  PROVE  OpenInv'
<1>1. CASE UNCHANGED <<attempts, end, task>>
  BY <1>1 DEF OpenInv, Seen
<1>2. ASSUME NEW s \in Server, Connect(s)
      PROVE  OpenInv'
  <2> DEFINE d == <<s, attempts[s] + 1>>
  <2>1. /\ attempts[s] \in Nat /\ attempts[s] < MaxAttempts[s] /\ MaxAttempts[s] \in Nat
        /\ task' = [task EXCEPT ![d] = "auth"] /\ end' = [end EXCEPT ![d] = "open"]
        /\ attempts' = [attempts EXCEPT ![s] = @ + 1] /\ ~Open(s)
    BY <1>2, BrainAssumption DEF Connect, TypeInv, WorldInv
  <2>2. d \in Conn /\ d \notin Seen /\ d[1] = s /\ d[2] = attempts[s] + 1
    BY <2>1, ConnFields DEF TypeInv, WorldInv
  <2>3. \A c \in Seen : c[1] = s => end[c] # "open"
    <3> SUFFICES ASSUME NEW c \in Seen, c[1] = s, end[c] = "open" PROVE FALSE
      OBVIOUS
    <3>1. c \in Conn /\ c[2] = attempts[s] /\ c = <<c[1], c[2]>> /\ c[2] \in Nat /\ c[2] > 0
      BY ConnFields, BrainAssumption DEF OpenInv, Seen
    <3> QED  BY <2>1, <3>1 DEF Open, Current
  <2> HIDE DEF d
  <2>4. Seen' = Seen \cup {d}
    BY <2>1, <2>2 DEF Seen, TypeInv, WorldInv
  <2>5. ASSUME NEW c \in Seen'
        PROVE  end'[c] # "none" /\ (end'[c] = "open" => c[2] = attempts'[c[1]])
    <3>1. CASE c = d
      BY <2>1, <2>2, <3>1 DEF TypeInv, WorldInv
    <3>2. CASE c \in Seen /\ c # d
      <4>1. end'[c] = end[c] /\ end[c] # "none"
        BY <2>1, <3>2 DEF OpenInv, Seen, TypeInv, WorldInv
      <4>2. end[c] = "open" => c[1] # s /\ c[1] \in Server /\ c[2] = attempts[c[1]]
        BY <2>3, <3>2, ConnFields DEF OpenInv, Seen
      <4> QED  BY <2>1, <4>1, <4>2 DEF TypeInv, WorldInv
    <3> QED  BY <2>4, <3>1, <3>2
  <2> QED  BY <2>5 DEF OpenInv
<1>3. ASSUME NEW s \in Server, Disconnected(s)
      PROVE  OpenInv'
  <2>1. /\ UNCHANGED <<attempts, task>>
        /\ end' = end \/ end' = [end EXCEPT ![Current(s)] = "closed"]
    BY <1>3 DEF Disconnected
  <2>2. Seen' = Seen /\ Seen \subseteq Conn
    BY <2>1 DEF Seen
  <2> QED  BY <2>1, <2>2 DEF OpenInv, TypeInv, WorldInv
<1>4. ASSUME NEW c \in Conn,
             ClientStep(c) \/ ReadUpdateActive(c) \/ \E r \in Request : ReadRequest(c, r)
      PROVE  OpenInv'
  <2>1. UNCHANGED <<attempts, end>> /\ task[c] \in {"auth", "reading"}
    BY <1>4 DEF ClientStep, Register, ReadEnds, ReadUpdateActive, ReadRequest, world
  <2>2. task' = task \/ \E t \in {"reading", "done"} : task' = [task EXCEPT ![c] = t]
    BY <1>4
    DEF ClientStep, Register, ReadEnds, ReadUpdateActive, ReadRequest, EndOfConnection
  <2>3. Seen' = Seen
    BY <2>1, <2>2 DEF Seen, TypeInv, WorldInv
  <2> QED  BY <2>1, <2>3 DEF OpenInv
<1> QED
  BY <1>1, <1>2, <1>3, <1>4
  DEF vars, Step, HangsUp, Next, Tasks, BrainStep, Buffer, ProxyJoins, Resend, EnterMainLoop,
      SecondProxyJoins, ServerJoins, ServerLeaves, Dispatch, ClusterForward, SpawnContainer,
      Transport, ClusterStep, ClusterReceives, ClusterAnswers, ClusterAsksForServer, DispatchTask,
      SeesEnd, Breaks, Stops, ProxyReads, world, outside, elsewhere

LEMMA WaitNext ==
  ASSUME TypeInv, WaitInv, [Step]_vars, NoEarlyServers
  PROVE  WaitInv'
<1> SUFFICES ASSUME phase' \in {"boot", "resend"}
             PROVE  /\ \A s \in Server \ DOMAIN Preset : ident'[s] = None
                    /\ \A s \in DOMAIN Preset : ident'[s] = Preset[s]
                    /\ \A c \in Seen' : KindOf(c)' = "Proxy"
                    /\ to_proxy' = <<>> /\ linked' = {}
  BY DEF WaitInv
<1>1. phase \in {"boot", "resend"}
  BY PhaseEffect, DeadStaysDead DEF TypeInv, BrainInv
<1>2. /\ \A s \in Server \ DOMAIN Preset : ident[s] = None
      /\ \A s \in DOMAIN Preset : ident[s] = Preset[s]
      /\ \A c \in Seen : KindOf(c) = "Proxy"
      /\ to_proxy = <<>> /\ linked = {}
  BY <1>1 DEF WaitInv
<1>3. ident' = ident
  BY <1>1
  DEF vars, Step, HangsUp, Next, Tasks, BrainStep, Buffer, ProxyJoins, Resend, EnterMainLoop,
      SecondProxyJoins, ServerJoins, ServerLeaves, Dispatch, ClusterForward, SpawnContainer,
      Transport, Handle, ClusterStep, ClusterReceives, ClusterAnswers, ClusterAsksForServer,
      DispatchTask, ClientStep, Register, ReadEnds, ReadRequest, ReadUpdateActive, Connect,
      SeesEnd, Breaks, Stops, Disconnected, ProxyReads, world, outside, elsewhere
<1>4. to_proxy' = <<>> /\ linked' = {}
  <2>1. ~ProxyReads
    BY <1>2 DEF ProxyReads
  <2> QED  BY <1>1, <1>2, <2>1, ToProxyEffect
<1>5. ASSUME NEW c \in Conn, task[c] = "none", task'[c] # "none"
      PROVE  ident[c[1]].kind = "Proxy"
  <2>1. PICK s \in Server : Connect(s) /\ c[1] = s
    <3>1. task' # task /\ task \in [Conn -> {"none", "auth", "reading", "done"}]
      BY <1>5 DEF TypeInv, WorldInv
    <3>2. ASSUME NEW d \in Conn, ClientStep(d) \/ ReadUpdateActive(d)
          PROVE  FALSE
      <4>1. task[d] \in {"auth", "reading"} /\ \E t : task' = [task EXCEPT ![d] = t]
        BY <3>1, <3>2 DEF ClientStep, Register, ReadEnds, ReadUpdateActive, EndOfConnection
      <4> QED  BY <1>5, <3>1, <4>1
    <3>3. ASSUME NEW s \in Server, Connect(s)
          PROVE  c[1] = s
      <4>1. task' = [task EXCEPT ![<<s, attempts[s] + 1>>] = "auth"]
        BY <3>3 DEF Connect
      <4>2. c = <<s, attempts[s] + 1>>
        BY <1>5, <3>1, <4>1
      <4> QED  BY <4>2
    <3> QED
      BY <3>1, <3>2, <3>3
      DEF vars, Step, HangsUp, Next, Tasks, BrainStep, Buffer, ProxyJoins, Resend, EnterMainLoop,
          SecondProxyJoins, ServerJoins, ServerLeaves, Dispatch, ClusterForward, SpawnContainer,
          Transport, ClusterStep, ClusterReceives, ClusterAnswers, ClusterAsksForServer,
          DispatchTask, ReadRequest, SeesEnd, Breaks, Stops, Disconnected, ProxyReads, outside,
          elsewhere
  <2>2. s \in DOMAIN Preset /\ ident[s] = Preset[s]
    BY <1>2, <2>1 DEF Connect, Running
  <2>3. s \in Early => Preset[s].kind = "Proxy"
    BY DEF NoEarlyServers
  <2> QED  BY <1>1, <2>1, <2>2, <2>3 DEF Connect
<1>6. \A c \in Seen' : KindOf(c)' = "Proxy"
  BY <1>2, <1>3, <1>5 DEF Seen, KindOf
<1> QED  BY <1>2, <1>3, <1>4, <1>6

(* A name is kept until the brain writes that the server left.             *)
LEMMA KeptStays ==
  ASSUME TypeInv, [Step]_vars, phase = "main", phase' = "main", NEW n, Kept(n)
  PROVE  Kept(n)' \/ to_proxy' = Append(to_proxy, UnlinkServer(n))
<1>1. receiver \in Seq(SeenMsg)
  BY DEF TypeInv, MailInv
<1>2. \A c \in Seen : NameOf(c)' = NameOf(c) /\ KindOf(c)' = KindOf(c)
  BY ClosedStays
<1>3. ASSUME NEW m, Send(m), m.type = "Unlink", NameOf(m.conn)' = n
      PROVE  Leaving(n)'
  <2>1. receiver \in Seq(SeenMsg \cup {m})
    BY <1>1, SeqSubset
  <2>2. Len(receiver) + 1 \in DOMAIN receiver' /\ receiver'[Len(receiver) + 1] = m
    BY <1>3, <2>1, AppendProperties DEF Send
  <2> QED  BY <1>3, <2>2 DEF Leaving
<1>4. CASE Live(n)
  <2>1. PICK c \in Conn : task[c] = "reading" /\ KindOf(c) # "Proxy" /\ NameOf(c) = n
    BY <1>4 DEF Live
  <2>2. KindOf(c)' # "Proxy" /\ NameOf(c)' = n
    BY <1>2, <2>1 DEF Seen
  <2>3. CASE task'[c] = "reading"
    BY <2>2, <2>3 DEF Kept, Live
  <2>4. CASE Send(UnlinkMsg(c))
    <3>1. UnlinkMsg(c).type = "Unlink" /\ UnlinkMsg(c).conn = c
      BY DEF UnlinkMsg
    <3>2. NameOf(UnlinkMsg(c).conn)' = n
      BY <2>2, <3>1 DEF NameOf
    <3> QED  BY <1>3, <2>4, <3>1, <3>2 DEF Kept
  <2> QED  BY <2>1, <2>3, <2>4, ReadingEnds
<1>5. CASE Leaving(n)
  <2>1. PICK i \in DOMAIN receiver : receiver[i].type = "Unlink" /\ NameOf(receiver[i].conn) = n
    BY <1>5 DEF Leaving
  <2> DEFINE m == receiver[i]
  <2>2. m.conn \in Seen
    <3>1. m \in SeenMsg
      BY <1>1
    <3> QED  BY <2>1, <3>1, SeenMsgFields DEF Ended, Seen
  <2>3. ident'[m.conn[1]].name = n
    BY <1>2, <2>1, <2>2 DEF NameOf
  <2>4. ASSUME NEW j \in DOMAIN receiver', receiver'[j] = m
        PROVE  Kept(n)'
    <3>1. Leaving(n)'
      BY <2>1, <2>3, <2>4 DEF Leaving, NameOf
    <3> QED  BY <3>1 DEF Kept
  <2>5. CASE receiver' = receiver
    BY <2>4, <2>5
  <2>6. CASE /\ receiver # <<>> /\ receiver' = Tail(receiver)
             /\ msg.type = "Unlink" =>
                  to_proxy' = Append(to_proxy, UnlinkServer(NameOf(msg.conn)))
    <3>1. /\ Len(receiver) \in Nat /\ DOMAIN receiver = 1 .. Len(receiver)
          /\ DOMAIN receiver' = 1 .. Len(receiver) - 1 /\ msg = receiver[1]
          /\ \A j \in 1 .. Len(receiver) - 1 : receiver'[j] = receiver[j + 1]
      BY <1>1, <2>6, HeadTailProperties, LenProperties DEF msg
    <3>2. CASE i = 1
      BY <2>1, <2>6, <3>1, <3>2
    <3>3. CASE i # 1
      <4>1. i - 1 \in DOMAIN receiver' /\ receiver'[i - 1] = m
        BY <3>1, <3>3
      <4> QED  BY <2>4, <4>1
    <3> QED  BY <3>2, <3>3
  <2>7. ASSUME NEW k, Send(k)
        PROVE  Kept(n)'
    <3>1. receiver \in Seq(SeenMsg \cup {k})
      BY <1>1, SeqSubset
    <3>2. i \in DOMAIN receiver' /\ receiver'[i] = m
      BY <2>7, <3>1, AppendProperties, LenProperties DEF Send
    <3> QED  BY <2>4, <3>2
  <2> QED  BY <2>5, <2>6, <2>7, MainReceiver
<1> QED  BY <1>4, <1>5 DEF Kept

LEMMA JoinNext ==
  ASSUME TypeInv, JoinInv, [Step]_vars, phase = "main", phase' = "main"
  PROVE  JoinInv'
<1> SUFFICES ASSUME NEW i \in DOMAIN receiver', NEW c, receiver'[i].type = "NewConn",
                    c = receiver'[i].conn, ident'[c[1]].kind # "Proxy"
             PROVE  \/ task'[c] = "reading"
                    \/ \E j \in DOMAIN receiver' : j > i /\ receiver'[j] = UnlinkMsg(c)
  BY DEF JoinInv, UnlinkMsg, KindOf
<1> DEFINE Goal == \/ task'[c] = "reading"
                   \/ \E j \in DOMAIN receiver' : j > i /\ receiver'[j] = UnlinkMsg(c)
<1> SUFFICES Goal
  OBVIOUS
<1>1. receiver \in Seq(SeenMsg) /\ Len(receiver) \in Nat /\ DOMAIN receiver = 1 .. Len(receiver)
  BY LenProperties DEF TypeInv, MailInv
<1>2. ASSUME NEW m, Send(m)
      PROVE  /\ DOMAIN receiver' = 1 .. Len(receiver) + 1 /\ receiver'[Len(receiver) + 1] = m
             /\ \A j \in 1 .. Len(receiver) : receiver'[j] = receiver[j]
  <2>1. receiver \in Seq(SeenMsg \cup {m})
    BY <1>1, SeqSubset
  <2> QED  BY <1>2, <2>1, AppendProperties, LenProperties DEF Send
<1>3. ASSUME NEW h \in DOMAIN receiver, receiver[h] = receiver'[i], h >= i,
             \A j \in DOMAIN receiver :
               j > h => \E l \in DOMAIN receiver' : l > i /\ receiver'[l] = receiver[j]
      PROVE  Goal
  <2>1. c \in Seen /\ KindOf(c) # "Proxy"
    <3>1. receiver[h] \in SeenMsg
      BY <1>1, <1>3
    <3>2. c \in Seen
      BY <1>3, <3>1, SeenMsgFields
    <3> QED  BY <3>2, ClosedStays DEF KindOf
  <2>2. CASE task[c] = "reading"
    <3>1. CASE task'[c] = "reading"
      BY <3>1
    <3>2. CASE Send(UnlinkMsg(c))
      <4>1. Len(receiver) + 1 > i /\ Len(receiver) + 1 \in DOMAIN receiver'
        BY <1>1, <1>2, <1>3, <3>2
      <4>2. receiver'[Len(receiver) + 1] = UnlinkMsg(c)
        BY <1>2, <3>2
      <4> QED  BY <4>1, <4>2
    <3> QED  BY <2>1, <2>2, <3>1, <3>2, ReadingEnds DEF Seen
  <2>3. CASE \E j \in DOMAIN receiver : j > h /\ receiver[j] = UnlinkMsg(c)
    <3>1. PICK j \in DOMAIN receiver : j > h /\ receiver[j] = UnlinkMsg(c)
      BY <2>3
    <3>2. PICK l \in DOMAIN receiver' : l > i /\ receiver'[l] = receiver[j]
      BY <1>3, <3>1
    <3> QED  BY <3>1, <3>2
  <2> QED  BY <1>3, <2>1, <2>2, <2>3 DEF JoinInv
<1>4. CASE receiver' = receiver
  <2>1. i \in DOMAIN receiver /\ receiver[i] = receiver'[i] /\ i >= i
    BY <1>1, <1>4
  <2> HIDE DEF Goal
  <2> QED  BY <1>3, <1>4, <2>1
<1>5. CASE receiver # <<>> /\ receiver' = Tail(receiver)
  <2>1. DOMAIN receiver' = 1 .. Len(receiver) - 1
        /\ \A j \in 1 .. Len(receiver) - 1 : receiver'[j] = receiver[j + 1]
    BY <1>1, <1>5, HeadTailProperties, LenProperties
  <2>2. i \in Nat /\ i + 1 \in DOMAIN receiver /\ receiver[i + 1] = receiver'[i] /\ i + 1 >= i
    BY <1>1, <2>1
  <2>3. \A j \in DOMAIN receiver :
          j > i + 1 => \E l \in DOMAIN receiver' : l > i /\ receiver'[l] = receiver[j]
    <3> SUFFICES ASSUME NEW j \in DOMAIN receiver, j > i + 1
                 PROVE  j - 1 \in DOMAIN receiver' /\ j - 1 > i /\ receiver'[j - 1] = receiver[j]
      OBVIOUS
    <3> QED  BY <1>1, <2>1, <2>2
  <2> HIDE DEF Goal
  <2> QED  BY <1>3, <2>2, <2>3
<1>6. ASSUME NEW m, Send(m), m.type = "NewConn" => task'[m.conn] = "reading"
      PROVE  Goal
  <2>1. CASE i = Len(receiver) + 1
    BY <1>2, <1>6, <2>1
  <2>2. CASE i # Len(receiver) + 1
    <3>1. i \in DOMAIN receiver /\ receiver[i] = receiver'[i] /\ i >= i
      BY <1>1, <1>2, <1>6, <2>2
    <3>2. \A j \in DOMAIN receiver :
            j \in DOMAIN receiver' /\ receiver'[j] = receiver[j]
      BY <1>1, <1>2, <1>6
    <3> HIDE DEF Goal
    <3> QED  BY <1>3, <3>1, <3>2
  <2> QED  BY <2>1, <2>2
<1> QED  BY <1>4, <1>5, <1>6, MainReceiver

(* What the brain writes when a server joins is taken back or kept.        *)
LEMMA JoinedIsKept ==
  ASSUME TypeInv, JoinInv, [Step]_vars, ServerJoins,
         NEW c, c = msg.conn, NEW n, n = NameOf(c)
  PROVE  Kept(n)'
<1>1. /\ receiver # <<>> /\ receiver \in Seq(SeenMsg) /\ msg.type = "NewConn"
      /\ receiver' = Tail(receiver) /\ c \in Seen /\ KindOf(c) # "Proxy"
  BY HandleEffect, SeenMsgFields DEF ServerJoins
<1>2. UNCHANGED task /\ KindOf(c)' = KindOf(c) /\ NameOf(c)' = NameOf(c)
  BY <1>1, ClosedStays DEF ServerJoins, elsewhere, outside
<1>3. /\ Len(receiver) \in Nat /\ DOMAIN receiver = 1 .. Len(receiver) /\ 1 \in DOMAIN receiver
      /\ DOMAIN receiver' = 1 .. Len(receiver) - 1 /\ msg = receiver[1]
      /\ \A j \in 1 .. Len(receiver) - 1 : receiver'[j] = receiver[j + 1]
  BY <1>1, HeadTailProperties, LenProperties DEF msg
<1>4. CASE task[c] = "reading"
  <2>1. c \in Conn /\ task'[c] = "reading" /\ KindOf(c)' # "Proxy" /\ NameOf(c)' = n
    BY <1>1, <1>2, <1>4 DEF Seen
  <2> QED  BY <2>1 DEF Kept, Live
<1>5. CASE \E j \in DOMAIN receiver : j > 1 /\ receiver[j] = UnlinkMsg(c)
  <2>1. PICK j \in DOMAIN receiver : j > 1 /\ receiver[j] = UnlinkMsg(c)
    BY <1>5
  <2>2. j - 1 \in DOMAIN receiver' /\ receiver'[j - 1] = UnlinkMsg(c)
    BY <1>3, <2>1
  <2>3. UnlinkMsg(c).type = "Unlink" /\ UnlinkMsg(c).conn = c
    BY DEF UnlinkMsg
  <2>4. receiver'[j - 1].type = "Unlink" /\ ident'[receiver'[j - 1].conn[1]].name = n
    BY <1>2, <2>2, <2>3 DEF NameOf
  <2>5. Leaving(n)'
    BY <2>2, <2>4 DEF Leaving, NameOf
  <2> QED  BY <2>5 DEF Kept
<1> QED  BY <1>1, <1>3, <1>4, <1>5 DEF JoinInv

LEMMA PacketNext ==
  ASSUME TypeInv, JoinInv, PacketInv, [Step]_vars, phase = "main", phase' = "main"
  PROVE  PacketInv'
<1> SUFFICES ASSUME NEW i \in DOMAIN to_proxy', NEW n, to_proxy'[i].type = "LinkServer",
                    n = to_proxy'[i].name
             PROVE  \/ \E j \in DOMAIN to_proxy' : j > i /\ to_proxy'[j] = UnlinkServer(n)
                    \/ Kept(n)'
  BY DEF PacketInv, UnlinkServer, Kept, Live, Leaving
<1> DEFINE Goal == \/ \E j \in DOMAIN to_proxy' : j > i /\ to_proxy'[j] = UnlinkServer(n)
                   \/ Kept(n)'
<1> SUFFICES Goal
  OBVIOUS
<1>1. to_proxy \in Seq(Packet) /\ Len(to_proxy) \in Nat /\ DOMAIN to_proxy = 1 .. Len(to_proxy)
  BY LenProperties DEF TypeInv, MailInv
<1>2. ASSUME NEW p, to_proxy' = Append(to_proxy, p)
      PROVE  /\ DOMAIN to_proxy' = 1 .. Len(to_proxy) + 1 /\ to_proxy'[Len(to_proxy) + 1] = p
             /\ \A j \in 1 .. Len(to_proxy) : to_proxy'[j] = to_proxy[j]
  <2>1. to_proxy \in Seq(Packet \cup {p})
    BY <1>1, SeqSubset
  <2> QED  BY <1>2, <2>1, AppendProperties, LenProperties
<1>3. ASSUME NEW h \in DOMAIN to_proxy, to_proxy[h] = to_proxy'[i], h >= i,
             \A j \in DOMAIN to_proxy :
               j > h => \E l \in DOMAIN to_proxy' : l > i /\ to_proxy'[l] = to_proxy[j]
      PROVE  Goal
  <2>1. CASE Kept(n)
    <3>1. CASE Kept(n)'
      BY <3>1
    <3>2. CASE to_proxy' = Append(to_proxy, UnlinkServer(n))
      <4>1. Len(to_proxy) + 1 > i /\ Len(to_proxy) + 1 \in DOMAIN to_proxy'
        BY <1>1, <1>2, <1>3, <3>2
      <4>2. to_proxy'[Len(to_proxy) + 1] = UnlinkServer(n)
        BY <1>2, <3>2
      <4> QED  BY <4>1, <4>2
    <3> QED  BY <2>1, <3>1, <3>2, KeptStays
  <2>2. CASE \E j \in DOMAIN to_proxy : j > h /\ to_proxy[j] = UnlinkServer(n)
    <3>1. PICK j \in DOMAIN to_proxy : j > h /\ to_proxy[j] = UnlinkServer(n)
      BY <2>2
    <3>2. PICK l \in DOMAIN to_proxy' : l > i /\ to_proxy'[l] = to_proxy[j]
      BY <1>3, <3>1
    <3> QED  BY <3>1, <3>2
  <2>3. \/ \E j \in DOMAIN to_proxy : j > h /\ to_proxy[j] = UnlinkServer(n)
        \/ Kept(n)
    BY <1>3 DEF PacketInv
  <2> QED  BY <2>1, <2>2, <2>3
<1>4. CASE to_proxy' = to_proxy
  <2>1. i \in DOMAIN to_proxy /\ to_proxy[i] = to_proxy'[i] /\ i >= i
    BY <1>1, <1>4
  <2> HIDE DEF Goal
  <2> QED  BY <1>3, <1>4, <2>1
<1>5. CASE ProxyReads
  <2>1. /\ DOMAIN to_proxy' = 1 .. Len(to_proxy) - 1
        /\ \A j \in 1 .. Len(to_proxy) - 1 : to_proxy'[j] = to_proxy[j + 1]
    BY <1>1, <1>5, HeadTailProperties, LenProperties DEF ProxyReads
  <2>2. i \in Nat /\ i + 1 \in DOMAIN to_proxy /\ to_proxy[i + 1] = to_proxy'[i] /\ i + 1 >= i
    BY <1>1, <2>1
  <2>3. \A j \in DOMAIN to_proxy :
          j > i + 1 => \E l \in DOMAIN to_proxy' : l > i /\ to_proxy'[l] = to_proxy[j]
    <3> SUFFICES ASSUME NEW j \in DOMAIN to_proxy, j > i + 1
                 PROVE  j - 1 \in DOMAIN to_proxy' /\ j - 1 > i /\ to_proxy'[j - 1] = to_proxy[j]
      OBVIOUS
    <3> QED  BY <1>1, <2>1, <2>2
  <2> HIDE DEF Goal
  <2> QED  BY <1>3, <2>2, <2>3
<1>6. ASSUME NEW p, to_proxy' = Append(to_proxy, p),
             p.type = "LinkServer" => ServerJoins /\ p.name = NameOf(msg.conn)
      PROVE  Goal
  <2>1. CASE i = Len(to_proxy) + 1
    <3>1. ServerJoins /\ n = NameOf(msg.conn)
      BY <1>2, <1>6, <2>1
    <3>2. PICK c, m : c = msg.conn /\ m = NameOf(c) /\ m = n
      BY <3>1
    <3>3. Kept(m)'
      BY <3>1, <3>2, JoinedIsKept
    <3> QED  BY <3>2, <3>3 DEF Kept, Live, Leaving
  <2>2. CASE i # Len(to_proxy) + 1
    <3>1. i \in DOMAIN to_proxy /\ to_proxy[i] = to_proxy'[i] /\ i >= i
      BY <1>1, <1>2, <1>6, <2>2
    <3>2. \A j \in DOMAIN to_proxy :
            j \in DOMAIN to_proxy' /\ to_proxy'[j] = to_proxy[j]
      BY <1>1, <1>2, <1>6
    <3> HIDE DEF Goal
    <3> QED  BY <1>3, <3>1, <3>2
  <2> QED  BY <2>1, <2>2
<1>7. /\ LinkServer(NameOf(msg.conn)).name = NameOf(msg.conn)
      /\ UnlinkServer(NameOf(msg.conn)).type # "LinkServer"
      /\ TransportPlayer(msg.player, msg.server).type # "LinkServer"
  BY DEF LinkServer, UnlinkServer, TransportPlayer
<1> HIDE DEF Goal
<1>8. CASE \/ ServerJoins /\ to_proxy' = Append(to_proxy, LinkServer(NameOf(msg.conn)))
           \/ ServerLeaves /\ to_proxy' = Append(to_proxy, UnlinkServer(NameOf(msg.conn)))
           \/ Transport /\ to_proxy' = Append(to_proxy, TransportPlayer(msg.player, msg.server))
  BY <1>6, <1>7, <1>8
<1> QED  BY <1>4, <1>5, <1>8, ToProxyEffect

LEMMA LinkedNext ==
  ASSUME TypeInv, PacketInv, LinkedInv, [Step]_vars, phase = "main", phase' = "main"
  PROVE  LinkedInv'
<1> SUFFICES ASSUME NEW n, n \in linked'
             PROVE  On(to_proxy', UnlinkServer(n)) \/ Kept(n)'
  BY DEF LinkedInv, On, UnlinkServer
<1>1. to_proxy \in Seq(Packet) /\ Len(to_proxy) \in Nat /\ DOMAIN to_proxy = 1 .. Len(to_proxy)
  BY LenProperties DEF TypeInv, MailInv
<1>2. ASSUME NEW p, to_proxy' = Append(to_proxy, p)
      PROVE  On(to_proxy', p) /\ \A e : On(to_proxy, e) => On(to_proxy', e)
  <2>1. to_proxy \in Seq(Packet \cup {p})
    BY <1>1, SeqSubset
  <2>2. /\ DOMAIN to_proxy' = 1 .. Len(to_proxy) + 1 /\ to_proxy'[Len(to_proxy) + 1] = p
        /\ \A j \in 1 .. Len(to_proxy) : to_proxy'[j] = to_proxy[j]
    BY <1>2, <2>1, AppendProperties, LenProperties
  <2> QED  BY <1>1, <2>2 DEF On
<1>3. CASE Kept(n)
  BY <1>2, <1>3, KeptStays
<1>4. CASE ProxyReads
  <2>1. /\ DOMAIN to_proxy' = 1 .. Len(to_proxy) - 1 /\ Head(to_proxy) = to_proxy[1]
        /\ 1 \in DOMAIN to_proxy
        /\ \A j \in 1 .. Len(to_proxy) - 1 : to_proxy'[j] = to_proxy[j + 1]
    BY <1>1, <1>4, HeadTailProperties, LenProperties DEF ProxyReads
  <2>2. ASSUME NEW j \in DOMAIN to_proxy, j > 1, to_proxy[j] = UnlinkServer(n)
        PROVE  On(to_proxy', UnlinkServer(n))
    <3>1. j - 1 \in DOMAIN to_proxy' /\ to_proxy'[j - 1] = UnlinkServer(n)
      BY <1>1, <2>1, <2>2
    <3> QED  BY <3>1 DEF On
  <2>3. CASE Head(to_proxy).type = "LinkServer" /\ Head(to_proxy).name = n
    BY <1>3, <2>1, <2>2, <2>3 DEF PacketInv
  <2>4. CASE n \in linked /\ Head(to_proxy) # UnlinkServer(n)
    <3>1. On(to_proxy, UnlinkServer(n)) =>
            \E j \in DOMAIN to_proxy : j > 1 /\ to_proxy[j] = UnlinkServer(n)
      BY <1>1, <2>1, <2>4 DEF On
    <3> QED  BY <1>3, <2>2, <2>4, <3>1 DEF LinkedInv
  <2>5. UnlinkServer(n).type = "UnlinkServer" /\ UnlinkServer(n).name = n
    BY DEF UnlinkServer
  <2> QED  BY <1>4, <2>3, <2>4, <2>5 DEF ProxyReads
<1>5. CASE /\ linked' = linked
           /\ to_proxy' = to_proxy \/ \E p : to_proxy' = Append(to_proxy, p)
  <2>1. On(to_proxy, UnlinkServer(n)) => On(to_proxy', UnlinkServer(n))
    BY <1>2, <1>5
  <2> QED  BY <1>3, <1>5, <2>1 DEF LinkedInv
<1> QED  BY <1>4, <1>5, ToProxyEffect

(* When the proxy has come only proxies have connected.                    *)
LEMMA UnlinkNext ==
  ASSUME TypeInv, WaitInv, UnlinkInv, [Step]_vars
  PROVE  UnlinkInv'
<1> SUFFICES ASSUME phase' = "main" PROVE JoinInv' /\ PacketInv' /\ LinkedInv'
  BY DEF UnlinkInv
<1>1. CASE phase = "main"
  BY <1>1, JoinNext, PacketNext, LinkedNext DEF UnlinkInv
<1>2. CASE phase = "resend"
  <2>1. EnterMainLoop
    BY <1>2
    DEF vars, Step, HangsUp, Next, Tasks, BrainStep, Buffer, ProxyJoins, Resend, SecondProxyJoins,
        ServerJoins, ServerLeaves, Dispatch, ClusterForward, SpawnContainer, Transport, Handle,
        ClusterStep, ClusterReceives, ClusterAnswers, ClusterAsksForServer, DispatchTask,
        ClientStep, Register, ReadEnds, ReadRequest, ReadUpdateActive, Connect, SeesEnd, Breaks,
        Stops, Disconnected, ProxyReads, controller, brain
  <2>2. UNCHANGED <<ident, receiver, to_proxy, linked>>
    BY <2>1 DEF EnterMainLoop, elsewhere, outside, world, proxy
  <2>3. to_proxy' = <<>> /\ linked' = {} /\ \A c \in Seen : ident'[c[1]].kind = "Proxy"
    BY <1>2, <2>2 DEF WaitInv, KindOf
  <2>4. JoinInv'
    <3> SUFFICES ASSUME NEW i \in DOMAIN receiver', receiver'[i].type = "NewConn"
                 PROVE  ident'[receiver'[i].conn[1]].kind = "Proxy"
      BY DEF JoinInv, KindOf
    <3>1. receiver'[i] \in SeenMsg
      BY <2>2 DEF TypeInv, MailInv
    <3> QED  BY <2>3, <3>1, SeenMsgFields
  <2> QED  BY <2>3, <2>4 DEF PacketInv, LinkedInv
<1> QED  BY <1>1, <1>2, PhaseEffect

LEMMA DeadInit ==
  ASSUME NoEarlyServers, Init
  PROVE  DeadInv
<1>1. Seen = {}
  BY DEF Init, Seen
<1>2. phase = "boot" /\ to_proxy = <<>> /\ linked = {}
      /\ ident = [s \in Server |-> IF s \in DOMAIN Preset THEN Preset[s] ELSE None]
  BY DEF Init
<1> QED  BY <1>1, <1>2, BrainAssumption DEF DeadInv, OpenInv, WaitInv, UnlinkInv

LEMMA DeadNext ==
  ASSUME NoEarlyServers, TypeInv, DeadInv, [Step]_vars
  PROVE  DeadInv'
BY OpenNext, WaitNext, UnlinkNext DEF DeadInv

(* Once things settle, what keeps a name is a connection that is open.     *)
LEMMA SettledAreLive == TypeInv /\ DeadInv => DeadServersUnlinked
<1> SUFFICES ASSUME TypeInv, DeadInv, Settled, NEW n \in linked
             PROVE  \E s \in Connected : ident[s].name = n
  BY DEF DeadServersUnlinked
<1>1. Live(n)
  BY DEF DeadInv, UnlinkInv, LinkedInv, Settled, On, Kept, Leaving
<1>2. PICK c \in Conn : task[c] = "reading" /\ KindOf(c) # "Proxy" /\ NameOf(c) = n
  BY <1>1 DEF Live
<1>3. end[c] = "open" /\ c[2] = attempts[c[1]] /\ c[1] \in Server
  BY <1>2, ConnFields DEF DeadInv, OpenInv, Seen, Settled, TypeInv, WorldInv
<1>4. Current(c[1]) = c /\ attempts[c[1]] > 0
  BY <1>3, ConnFields DEF Current
<1> QED  BY <1>2, <1>3, <1>4 DEF Connected, Open, KindOf, NameOf

(* "we don't want players routed to that server in any circumstance"       *)
(* (controller/src/transport.rs:81): if no server of an earlier run is     *)
(* there before the proxy, then once things settle the proxy routes only   *)
(* to servers that are connected.                                          *)
THEOREM DeadServersAreUnlinked ==
  ASSUME NoEarlyServers
  PROVE  Spec => []DeadServersUnlinked
<1>1. Init => TypeInv /\ DeadInv
  BY TypeInit, DeadInit
<1>2. (TypeInv /\ DeadInv) /\ [Step]_vars => (TypeInv /\ DeadInv)'
  BY TypeNext, DeadNext
<1> QED  BY <1>1, <1>2, SettledAreLive, NextIsStep, PTL DEF Spec

-----------------------------------------------------------------------------
(* The brain's books.                                                      *)

(* The names of servers begin with their kind (the name of a container     *)
(* does, and an operator names a server like one).                         *)
PresetsNamedByKind == \A s \in DOMAIN Preset : Preset[s].name[1] = Preset[s].kind

(* The proxy routes to the name, or will once it read what was written.    *)
Routed(n) ==
  \/ \E i \in DOMAIN to_proxy :
       to_proxy[i] = LinkServer(n) /\ ~Behind(to_proxy, i, UnlinkServer(n))
  \/ n \in linked /\ ~Behind(to_proxy, 0, UnlinkServer(n))

Shown(n) == n \in DOMAIN computers /\ computers[n] = "Online"

NamedInv == \A s \in Server : ident[s] # None => ident[s].name[1] = ident[s].kind

EmptyBooks ==
  /\ to_proxy = <<>> /\ linked = {}
  /\ \A n : Shown(n) <=> n = BrainName \/ (phase = "resend" /\ n = ProxyName)

BooksInv ==
  /\ NamedInv
  /\ phase \in {"boot", "resend"} => EmptyBooks
  /\ phase = "main" =>
       \A n : /\ Shown(n) <=> Routed(n) \/ n \in {BrainName, ProxyName}
              /\ Routed(n) => n \in used_names

(* What a packet does to the names the proxy will route to.                *)
LEMMA RoutedAppend ==
  ASSUME TypeInv, linked' = linked, NEW p \in Packet, to_proxy' = Append(to_proxy, p), NEW n
  PROVE  Routed(n)' <=> \/ p = LinkServer(n)
                        \/ Routed(n) /\ p # UnlinkServer(n)
<1>1. to_proxy \in Seq(Packet) /\ LinkServer(n) # UnlinkServer(n)
  BY DEF TypeInv, MailInv, LinkServer, UnlinkServer
<1>2. /\ DOMAIN to_proxy = 1 .. Len(to_proxy) /\ Len(to_proxy) \in Nat
      /\ DOMAIN to_proxy' = 1 .. Len(to_proxy) + 1
      /\ \A i \in 1 .. Len(to_proxy) : to_proxy'[i] = to_proxy[i]
      /\ to_proxy'[Len(to_proxy) + 1] = p
  BY <1>1, AppendElements
<1>3. \A i \in 0 .. Len(to_proxy) :
        Behind(to_proxy', i, UnlinkServer(n)) <=>
          Behind(to_proxy, i, UnlinkServer(n)) \/ p = UnlinkServer(n)
  BY <1>2 DEF Behind
<1>4. ~Behind(to_proxy', Len(to_proxy) + 1, UnlinkServer(n))
  BY <1>2 DEF Behind
<1>5. UnlinkServer(n)' = UnlinkServer(n) /\ LinkServer(n)' = LinkServer(n)
  BY DEF UnlinkServer, LinkServer
<1>6. Routed(n)' <=>
        \/ \E i \in DOMAIN to_proxy' :
             to_proxy'[i] = LinkServer(n) /\ ~Behind(to_proxy', i, UnlinkServer(n))
        \/ n \in linked /\ ~Behind(to_proxy', 0, UnlinkServer(n))
  BY DEF Routed, LinkServer, UnlinkServer, Behind
<1>7. CASE p = LinkServer(n)
  BY <1>2, <1>4, <1>6, <1>7
<1>8. CASE p # LinkServer(n) /\ p # UnlinkServer(n)
  BY <1>2, <1>3, <1>6, <1>8 DEF Routed
<1>9. CASE p = UnlinkServer(n)
  BY <1>1, <1>2, <1>3, <1>6, <1>9
<1> QED  BY <1>1, <1>7, <1>8, <1>9

(* Reading changes nothing of it.                                          *)
LEMMA RoutedRead ==
  ASSUME TypeInv, ProxyReads, NEW n
  PROVE  Routed(n)' <=> Routed(n)
<1>1. to_proxy \in Seq(Packet) /\ to_proxy # <<>> /\ to_proxy' = Tail(to_proxy)
  BY DEF TypeInv, MailInv, ProxyReads
<1>2. LinkServer(n) # UnlinkServer(n)
      /\ LinkServer(n).type = "LinkServer" /\ LinkServer(n).name = n
      /\ UnlinkServer(n).type = "UnlinkServer" /\ UnlinkServer(n).name = n
  BY DEF LinkServer, UnlinkServer
<1> DEFINE p == Head(to_proxy)
           L == UnlinkServer(n)
<1>3. /\ Len(to_proxy) \in Nat /\ p = to_proxy[1] /\ DOMAIN to_proxy = 1 .. Len(to_proxy)
      /\ Len(to_proxy) >= 1 /\ DOMAIN to_proxy' = 1 .. Len(to_proxy) - 1
      /\ \A i \in 1 .. Len(to_proxy) - 1 : to_proxy'[i] = to_proxy[i + 1]
  BY <1>1, HeadTailProperties, EmptySeq, LenProperties
<1>4. \A i \in Nat : Behind(to_proxy', i, L) <=> Behind(to_proxy, i + 1, L)
  BY <1>1, TailBehind
<1>5. Behind(to_proxy, 0, L) <=> p = L \/ Behind(to_proxy, 1, L)
  BY <1>3 DEF Behind
<1>6. p \in Packet
  BY <1>1, <1>3
<1>7. n \in linked' <=> p = LinkServer(n) \/ (n \in linked /\ p # UnlinkServer(n))
  <2>1. p.type = "LinkServer" => p = LinkServer(p.name)
    BY <1>6, PacketFields
  <2>2. p.type = "UnlinkServer" => p = UnlinkServer(p.name)
    BY <1>6, PacketFields
  <2>3. \/ p.type = "LinkServer" /\ linked' = linked \cup {p.name}
        \/ p.type = "UnlinkServer" /\ linked' = linked \ {p.name}
        \/ p.type = "TransportPlayer" /\ linked' = linked
    BY DEF ProxyReads
  <2> HIDE DEF p
  <2> QED  BY <1>2, <2>1, <2>2, <2>3
<1> DEFINE Sent(s) == \E i \in DOMAIN s : s[i] = LinkServer(n) /\ ~Behind(s, i, L)
<1>8. Sent(to_proxy) <=> Sent(to_proxy') \/ (p = LinkServer(n) /\ ~Behind(to_proxy, 1, L))
  <2>1. ASSUME NEW i \in 1 .. Len(to_proxy), i # 1, to_proxy[i] = LinkServer(n),
               ~Behind(to_proxy, i, L)
        PROVE  Sent(to_proxy')
    <3>1. i - 1 \in DOMAIN to_proxy' /\ i - 1 \in Nat /\ i - 1 + 1 = i
          /\ to_proxy'[i - 1] = to_proxy[i]
      BY <1>3, <2>1
    <3>2. ~Behind(to_proxy', i - 1, L)
      BY <1>4, <2>1, <3>1
    <3> QED  BY <2>1, <3>1, <3>2
  <2>2. ASSUME NEW i \in DOMAIN to_proxy', to_proxy'[i] = LinkServer(n), ~Behind(to_proxy', i, L)
        PROVE  Sent(to_proxy)
    <3>1. i \in Nat /\ i + 1 \in DOMAIN to_proxy /\ to_proxy[i + 1] = LinkServer(n)
      BY <1>3, <2>2
    <3>2. ~Behind(to_proxy, i + 1, L)
      BY <1>4, <2>2, <3>1
    <3> QED  BY <3>1, <3>2
  <2>3. 1 \in DOMAIN to_proxy /\ to_proxy[1] = p
    BY <1>3
  <2> HIDE DEF L, p
  <2> QED  BY <1>3, <2>1, <2>2, <2>3
<1>9. Behind(to_proxy', 0, L) <=> Behind(to_proxy, 1, L)
  BY <1>4
<1>10. /\ Routed(n) <=> Sent(to_proxy) \/ (n \in linked /\ ~Behind(to_proxy, 0, L))
       /\ Routed(n)' <=> Sent(to_proxy') \/ (n \in linked' /\ ~Behind(to_proxy', 0, L))
  BY DEF Routed, LinkServer, UnlinkServer, Behind
<1> HIDE DEF Sent, L, p
<1> QED  BY <1>2, <1>5, <1>7, <1>8, <1>9, <1>10 DEF L

(* Who a server is changes only when its container is started.             *)
LEMMA IdentEffect ==
  ASSUME [Step]_vars
  PROVE  ident' = ident \/ SpawnContainer
BY DEF vars, Step, HangsUp, Next, Tasks, BrainStep, Buffer, ProxyJoins, Resend, EnterMainLoop,
       SecondProxyJoins, ServerJoins, ServerLeaves, Dispatch, ClusterForward, Transport,
       ClusterStep, ClusterReceives, ClusterAnswers, ClusterAsksForServer, DispatchTask,
       ClientStep, Register, ReadEnds, ReadRequest, ReadUpdateActive, Connect, SeesEnd, Breaks,
       Stops, Disconnected, ProxyReads, world, outside, elsewhere

(* A container gets a name that begins with its kind and is not in use.    *)
LEMMA SpawnEffect ==
  ASSUME TypeInv, SpawnContainer, phase' = "main",
         NEW n, n = NextFreeName(msg.kind)
  PROVE  /\ msg.kind \in MinigameKind \cup {"Lobby"} /\ msg.kind \in Kind
         /\ n \in Name /\ n[1] = msg.kind /\ n \notin used_names
         /\ used_names' = used_names \cup {n}
         /\ computers' = SetStatus(computers, n, "Starting")
         /\ \E s \in Server : /\ ident[s] = None
                              /\ ident' = [ident EXCEPT ![s] = [kind |-> msg.kind, name |-> n]]
                              /\ ident'[s] = [kind |-> msg.kind, name |-> n]
         /\ UNCHANGED <<to_proxy, linked, task, inbox, members, handles, lobby_server, buffer>>
<1>1. msg.kind \in MinigameKind \cup {"Lobby"} /\ msg.kind \in Kind
  BY HandleEffect, SeenMsgFields, Kinds DEF SpawnContainer, Kind
<1>2. n \in Name /\ n[1] = msg.kind /\ n \notin used_names
  BY <1>1, FreshName DEF TypeInv, BrainInv
<1>3. /\ used_names' = used_names \cup {n}
      /\ computers' = SetStatus(computers, n, "Starting")
      /\ \E s \in ToStart : ident' = [ident EXCEPT ![s] = [kind |-> msg.kind, name |-> n]]
  BY DEF SpawnContainer, Handle, GoOn, Fail
<1>4. UNCHANGED <<to_proxy, linked, task, inbox, members, handles, lobby_server, buffer>>
  BY DEF SpawnContainer, cluster, proxy, owned
<1> QED  BY <1>1, <1>2, <1>3, <1>4 DEF ToStart, TypeInv, WorldInv

LEMMA NamedNext ==
  ASSUME TypeInv, NamedInv, [Step]_vars, phase' # "dead"
  PROVE  NamedInv'
<1>1. CASE ident' = ident
  BY <1>1 DEF NamedInv
<1>2. CASE SpawnContainer
  <2>1. phase' = "main"
    BY <1>2, HandleEffect DEF SpawnContainer, GoOn, Fail
  <2>2. PICK n : n = NextFreeName(msg.kind)
    OBVIOUS
  <2>3. n[1] = msg.kind
        /\ \E s \in Server : /\ ident' = [ident EXCEPT ![s] = [kind |-> msg.kind, name |-> n]]
                             /\ ident'[s] = [kind |-> msg.kind, name |-> n]
    BY <1>2, <2>1, <2>2, SpawnEffect
  <2>4. PICK s \in Server : /\ ident' = [ident EXCEPT ![s] = [kind |-> msg.kind, name |-> n]]
                            /\ ident'[s] = [kind |-> msg.kind, name |-> n]
    BY <2>3
  <2>5. ident'[s].name[1] = ident'[s].kind
    BY <2>3, <2>4
  <2>6. \A t \in Server : t # s => ident'[t] = ident[t]
    BY <2>4 DEF TypeInv, WorldInv
  <2> QED  BY <2>5, <2>6 DEF NamedInv
<1> QED  BY <1>1, <1>2, IdentEffect

(* What each message does to the books, while the brain goes on.           *)
LEMMA JoinBooks ==
  ASSUME TypeInv, ServerJoins, phase' = "main", NEW c, c = msg.conn, NEW n, n = NameOf(c)
  PROVE  /\ c \in Seen /\ KindOf(c) # "Proxy" /\ n \in Name
         /\ to_proxy' = Append(to_proxy, LinkServer(n)) /\ linked' = linked
         /\ used_names' = used_names \cup {n}
         /\ computers' = SetStatus(computers, n, "Online")
<1>1. c \in Seen /\ KindOf(c) # "Proxy" /\ phase = "main"
  BY HandleEffect, SeenMsgFields DEF ServerJoins
<1>2. n \in Name
  BY <1>1, SeenIdentity DEF TypeInv
<1> QED
  BY <1>1, <1>2 DEF ServerJoins, WriteProxy, GoOn, Panic, Fail, elsewhere, outside, proxy

LEMMA LeaveBooks ==
  ASSUME TypeInv, ServerLeaves, phase' = "main", NEW c, c = msg.conn, NEW n, n = NameOf(c)
  PROVE  /\ c \in Ended /\ c \in Seen /\ KindOf(c) # "Proxy" /\ n \in Name
         /\ to_proxy' = Append(to_proxy, UnlinkServer(n)) /\ linked' = linked
         /\ used_names' = used_names \ {n}
         /\ computers' = SetStatus(computers, n, "Offline")
<1>1. c \in Ended /\ c \in Seen /\ phase = "main"
  BY HandleEffect, SeenMsgFields DEF ServerLeaves, Ended, Seen
<1>2. n \in Name
  BY <1>1, SeenIdentity DEF TypeInv
<1> QED
  BY <1>1, <1>2
  DEF ServerLeaves, ProxyLeaves, WriteProxy, GoOn, Panic, Fail, elsewhere, outside, proxy

LEMMA OtherBooks ==
  ASSUME TypeInv, [Step]_vars, phase = "main", phase' = "main",
         ~ServerJoins, ~ServerLeaves, ~SpawnContainer
  PROVE  UNCHANGED <<used_names, computers>>
BY DEF vars, Step, HangsUp, Next, Tasks, BrainStep, Buffer, ProxyJoins, Resend, EnterMainLoop,
       SecondProxyJoins, Dispatch, ClusterForward, Transport, WriteProxy, GoOn, Panic, Fail,
       ClusterStep, ClusterReceives, ClusterAnswers, ClusterAsksForServer, DispatchTask,
       ClientStep, Register, ReadEnds, ReadRequest, ReadUpdateActive, Connect, SeesEnd, Breaks,
       Stops, Disconnected, ProxyReads, controller, brain

(* What the proxy will route to changes only with the messages of servers  *)
(* that join and leave.                                                    *)
LEMMA RoutedNext ==
  ASSUME TypeInv, [Step]_vars, phase = "main", phase' = "main", NEW n
  PROVE  Routed(n)' <=> \/ ServerJoins /\ n = NameOf(msg.conn)
                        \/ Routed(n) /\ ~(ServerLeaves /\ n = NameOf(msg.conn))
<1>1. LinkServer(n) # UnlinkServer(n)
      /\ \A m : /\ LinkServer(m) = LinkServer(n) <=> m = n
                /\ UnlinkServer(m) = UnlinkServer(n) <=> m = n
                /\ LinkServer(m) # UnlinkServer(n) /\ UnlinkServer(m) # LinkServer(n)
                /\ \A r : /\ TransportPlayer(r, m) # LinkServer(n)
                          /\ TransportPlayer(r, m) # UnlinkServer(n)
  BY DEF LinkServer, UnlinkServer, TransportPlayer
<1>2. /\ ServerJoins => msg.type = "NewConn"
      /\ ServerLeaves => msg.type = "Unlink"
      /\ Transport => msg.type = "Transport"
  BY HandleEffect DEF ServerJoins, ServerLeaves, Transport
<1>3. CASE ServerJoins
  <2>1. PICK c, m : c = msg.conn /\ m = NameOf(c)
    OBVIOUS
  <2>2. m \in Name /\ to_proxy' = Append(to_proxy, LinkServer(m)) /\ linked' = linked
    BY <1>3, <2>1, JoinBooks
  <2>3. LinkServer(m) \in Packet
    BY <2>2 DEF Packet, LinkServer
  <2> QED  BY <1>1, <1>2, <1>3, <2>1, <2>2, <2>3, RoutedAppend
<1>4. CASE ServerLeaves
  <2>1. PICK c, m : c = msg.conn /\ m = NameOf(c)
    OBVIOUS
  <2>2. m \in Name /\ to_proxy' = Append(to_proxy, UnlinkServer(m)) /\ linked' = linked
    BY <1>4, <2>1, LeaveBooks
  <2>3. UnlinkServer(m) \in Packet
    BY <2>2 DEF Packet, UnlinkServer
  <2> QED  BY <1>1, <1>2, <1>4, <2>1, <2>2, <2>3, RoutedAppend
<1>5. CASE Transport /\ to_proxy' = Append(to_proxy, TransportPlayer(msg.player, msg.server))
                     /\ linked' = linked
  <2>1. TransportPlayer(msg.player, msg.server) \in Packet
    BY <1>5, WrittenPackets DEF TruePacket
  <2> QED  BY <1>1, <1>2, <1>5, <2>1, RoutedAppend
<1>6. CASE ProxyReads
  <2>1. ~ServerJoins /\ ~ServerLeaves
    <3>1. to_proxy' # Append(to_proxy, LinkServer(n)) /\ receiver' = receiver
      BY <1>6 DEF ProxyReads, TypeInv, MailInv
    <3>2. ServerJoins \/ ServerLeaves => receiver' = Tail(receiver) /\ receiver # <<>>
                                           /\ receiver \in Seq(SeenMsg)
      BY HandleEffect DEF ServerJoins, ServerLeaves
    <3> QED  BY <3>1, <3>2, HeadTailProperties, EmptySeq
  <2> QED  BY <1>6, <2>1, RoutedRead
<1>7. CASE ~ServerJoins /\ ~ServerLeaves /\ to_proxy' = to_proxy /\ linked' = linked
  BY <1>7 DEF Routed, LinkServer, UnlinkServer, Behind
<1> QED  BY <1>3, <1>4, <1>5, <1>6, <1>7, ToProxyEffect

(* While the brain waits it tells the proxy nothing, and shows itself and, *)
(* once it came, the proxy.                                                *)
LEMMA EmptyNext ==
  ASSUME TypeInv, EmptyBooks, [Step]_vars, phase \in {"boot", "resend"}
  PROVE  /\ to_proxy' = <<>> /\ linked' = {}
         /\ phase' = phase => computers' = computers
         /\ phase = "boot" /\ phase' = "resend" =>
              computers' = SetStatus(computers, ProxyName, "Online")
         /\ phase = "resend" /\ phase' = "main" => computers' = computers
         /\ phase = "resend" => phase' \in {"resend", "main", "dead"}
<1>1. to_proxy = <<>> /\ linked = {} /\ phase # "main"
  BY DEF EmptyBooks
<1>2. to_proxy' = <<>> /\ linked' = {}
  <2>1. ~ProxyReads
    BY <1>1 DEF ProxyReads
  <2> QED  BY <1>1, <2>1, ToProxyEffect
<1>3. /\ phase' = phase => computers' = computers
      /\ phase = "boot" /\ phase' = "resend" =>
           computers' = SetStatus(computers, ProxyName, "Online")
      /\ phase = "resend" /\ phase' = "main" => computers' = computers
      /\ phase = "resend" => phase' \in {"resend", "main", "dead"}
  BY <1>1
  DEF vars, Step, HangsUp, Next, Tasks, BrainStep, Buffer, ProxyJoins, Resend, EnterMainLoop,
      SecondProxyJoins, ServerJoins, ServerLeaves, Dispatch, ClusterForward, SpawnContainer,
      Transport, Handle, Fail, ClusterStep, ClusterReceives, ClusterAnswers, ClusterAsksForServer,
      DispatchTask, ClientStep, Register, ReadEnds, ReadRequest, ReadUpdateActive, Connect,
      SeesEnd, Breaks, Stops, Disconnected, ProxyReads, controller, brain
<1> QED  BY <1>2, <1>3

(* How a status that is set shows.                                         *)
LEMMA SetShown ==
  ASSUME NEW m, NEW n
  PROVE  /\ computers' = SetStatus(computers, m, "Online") => (Shown(n)' <=> Shown(n) \/ n = m)
         /\ computers' = SetStatus(computers, m, "Starting") => (Shown(n)' <=> Shown(n) /\ n # m)
         /\ computers' = SetStatus(computers, m, "Offline") => (Shown(n)' <=> Shown(n) /\ n # m)
BY DEF SetStatus, Shown

LEMMA BooksInit ==
  ASSUME Init, PresetsNamedByKind
  PROVE  BooksInv
<1>1. NamedInv
  BY DEF Init, NamedInv, PresetsNamedByKind
<1>2. EmptyBooks /\ phase = "boot"
  BY DEF Init, EmptyBooks, Shown
<1> QED  BY <1>1, <1>2 DEF BooksInv

LEMMA BooksNext ==
  ASSUME TypeInv, BooksInv, [Step]_vars
  PROVE  BooksInv' \/ phase' = "dead"
<1> SUFFICES ASSUME phase' # "dead" PROVE BooksInv'
  OBVIOUS
<1>1. NamedInv /\ NamedInv'
  BY NamedNext DEF BooksInv
<1>2. phase \in {"boot", "resend", "main"} /\ BrainName # ProxyName
  BY DeadStaysDead, FixedNames DEF TypeInv, BrainInv
<1>3. CASE phase \in {"boot", "resend"}
  <2>1. EmptyBooks
    BY <1>3 DEF BooksInv
  <2>2. /\ to_proxy' = <<>> /\ linked' = {}
        /\ phase' = phase => computers' = computers
        /\ phase = "boot" /\ phase' = "resend" =>
             computers' = SetStatus(computers, ProxyName, "Online")
        /\ phase = "resend" /\ phase' = "main" => computers' = computers
        /\ phase = "resend" => phase' \in {"resend", "main", "dead"}
    BY <1>3, <2>1, EmptyNext
  <2>3. phase' \in {"boot", "resend"} => EmptyBooks'
    <3> SUFFICES ASSUME phase' \in {"boot", "resend"}, NEW n
                 PROVE  Shown(n)' <=> n = BrainName \/ (phase' = "resend" /\ n = ProxyName)
      BY <2>2 DEF EmptyBooks, BrainName, ProxyName
    <3>1. Shown(n) <=> n = BrainName \/ (phase = "resend" /\ n = ProxyName)
      BY <2>1 DEF EmptyBooks
    <3>2. CASE phase' = phase
      BY <2>2, <3>1, <3>2 DEF Shown
    <3>3. CASE phase = "boot" /\ phase' = "resend"
      BY <2>2, <3>1, <3>3, SetShown
    <3> QED  BY <1>3, <2>2, <3>2, <3>3
  <2>4. ASSUME phase' = "main", NEW n
        PROVE  /\ Shown(n)' <=> Routed(n)' \/ n \in {BrainName, ProxyName}
               /\ Routed(n)' => n \in used_names'
    <3>1. phase = "resend"
      BY <1>2, <1>3, <2>4, PhaseEffect
    <3>2. Shown(n)' <=> n = BrainName \/ n = ProxyName
      BY <2>1, <2>2, <2>4, <3>1 DEF EmptyBooks, Shown
    <3>3. ~Routed(n)'
      BY <2>2 DEF Routed
    <3> QED  BY <3>2, <3>3
  <2> QED  BY <1>1, <2>3, <2>4 DEF BooksInv, BrainName, ProxyName
<1>4. CASE phase = "main"
  <2>1. phase' = "main"
    BY <1>4, PhaseEffect
  <2> SUFFICES ASSUME NEW n
               PROVE  /\ Shown(n)' <=> Routed(n)' \/ n \in {BrainName, ProxyName}
                      /\ Routed(n)' => n \in used_names'
    BY <1>1, <2>1 DEF BooksInv, BrainName, ProxyName
  <2>2. /\ Shown(n) <=> Routed(n) \/ n \in {BrainName, ProxyName}
        /\ Routed(n) => n \in used_names
    BY <1>4 DEF BooksInv
  <2>3. /\ BrainName[1] = "brain" /\ ProxyName[1] = "Proxy"
        /\ \A k \in Kind : k # "brain"
        /\ "Proxy" \notin MinigameKind \cup {"Lobby"}
    BY BrainAssumption DEF BrainName, ProxyName, Kind
  <2>4. ASSUME NEW c \in Seen, KindOf(c) # "Proxy"
        PROVE  NameOf(c) \notin {BrainName, ProxyName}
    <3>1. ident[c[1]] # None /\ c[1] \in Server /\ KindOf(c) \in Kind
      BY SeenIdentity, BrainAssumption DEF TypeInv
    <3>2. NameOf(c)[1] = KindOf(c)
      BY <1>1, <3>1 DEF NamedInv, NameOf, KindOf
    <3> QED  BY <2>3, <2>4, <3>1, <3>2
  <2>5. PICK c, m : c = msg.conn /\ m = NameOf(c)
    OBVIOUS
  <2>6. Routed(n)' <=> \/ ServerJoins /\ n = m
                       \/ Routed(n) /\ ~(ServerLeaves /\ n = m)
    BY <1>4, <2>1, <2>5, RoutedNext
  <2>7. /\ ServerJoins => msg.type = "NewConn"
        /\ ServerLeaves => msg.type = "Unlink"
        /\ SpawnContainer => msg.type = "Spawn"
    BY HandleEffect DEF ServerJoins, ServerLeaves, SpawnContainer
  <2>8. CASE ServerJoins
    <3>1. /\ used_names' = used_names \cup {m}
          /\ computers' = SetStatus(computers, m, "Online")
      BY <2>1, <2>5, <2>8, JoinBooks
    <3>2. Shown(n)' <=> Shown(n) \/ n = m
      BY <3>1, SetShown
    <3>3. ~ServerLeaves
      BY <2>7, <2>8
    <3> QED  BY <2>2, <2>6, <2>8, <3>1, <3>2, <3>3
  <2>9. CASE ServerLeaves
    <3>1. /\ c \in Seen /\ KindOf(c) # "Proxy"
          /\ used_names' = used_names \ {m}
          /\ computers' = SetStatus(computers, m, "Offline")
      BY <2>1, <2>5, <2>9, LeaveBooks
    <3>2. Shown(n)' <=> Shown(n) /\ n # m
      BY <3>1, SetShown
    <3>3. ~ServerJoins /\ m \notin {BrainName, ProxyName}
      BY <2>4, <2>5, <2>7, <2>9, <3>1
    <3> QED  BY <2>2, <2>6, <2>9, <3>1, <3>2, <3>3
  <2>10. CASE SpawnContainer
    <3>1. PICK f : f = NextFreeName(msg.kind)
      OBVIOUS
    <3>2. /\ msg.kind \in MinigameKind \cup {"Lobby"} /\ msg.kind \in Kind
          /\ f[1] = msg.kind /\ f \notin used_names
          /\ used_names' = used_names \cup {f}
          /\ computers' = SetStatus(computers, f, "Starting")
      BY <2>1, <2>10, <3>1, SpawnEffect
    <3>3. Shown(n)' <=> Shown(n) /\ n # f
      BY <3>2, SetShown
    <3>4. ~ServerJoins /\ ~ServerLeaves /\ f \notin {BrainName, ProxyName}
      BY <2>3, <2>7, <2>10, <3>2
    <3> QED  BY <2>2, <2>6, <3>2, <3>3, <3>4
  <2>11. CASE ~ServerJoins /\ ~ServerLeaves /\ ~SpawnContainer
    <3>1. UNCHANGED <<used_names, computers>>
      BY <1>4, <2>1, <2>11, OtherBooks
    <3> QED  BY <2>2, <2>6, <2>11, <3>1 DEF Shown
  <2> QED  BY <2>8, <2>9, <2>10, <2>11
<1> QED  BY <1>2, <1>3, <1>4

LEMMA SettledBooks == TypeInv /\ BooksInv => BooksAgree
<1> SUFFICES ASSUME TypeInv, BooksInv, Settled
             PROVE  /\ {n \in DOMAIN computers : computers[n] = "Online"} =
                         linked \cup {BrainName, ProxyName}
                    /\ linked \subseteq used_names
  BY DEF BooksAgree
<1>1. \A n : Routed(n) <=> n \in linked
  BY DEF Settled, Routed, Behind
<1>2. \A n : /\ Shown(n) <=> Routed(n) \/ n \in {BrainName, ProxyName}
             /\ Routed(n) => n \in used_names
  BY DEF BooksInv, Settled
<1> QED  BY <1>1, <1>2 DEF Shown

(* Once things settle, the dashboard shows as online what the proxy routes *)
(* to, and no name of a server that it routes to can be given to a         *)
(* container (BooksAgree): whatever servers there are, however often they  *)
(* connect and in whatever order their messages come, the brain changes    *)
(* its books and tells the proxy in one go.                                *)
THEOREM BooksAlwaysAgree ==
  ASSUME PresetsNamedByKind
  PROVE  Spec => []BooksAgree
<1> DEFINE Inv == TypeInv /\ (BooksInv \/ phase = "dead")
<1>1. Init => Inv
  BY TypeInit, BooksInit
<1>2. Inv /\ [Step]_vars => Inv'
  BY TypeNext, BooksNext, DeadStaysDead
<1>3. Inv => BooksAgree
  BY SettledBooks DEF BooksAgree, Settled
<1> QED  BY <1>1, <1>2, <1>3, NextIsStep, PTL DEF Spec
-----------------------------------------------------------------------------
(* Lobby and minigame servers come and go.  They may connect any number of *)
(* times, and several may have one name; only none connects before the     *)
(* proxy (NoEarlyServers): what they sent would be put aside and sent      *)
(* again in another order.                                                 *)

(* A connection of a lobby or a minigame server, and where it is between   *)
(* the tasks: it arrives at the brain, its end does, the cluster of kind k *)
(* has still to be told of it, holds it, or has still to be told of its    *)
(* end.                                                                    *)
IsGame(c)     == ident[c[1]] # None /\ KindOf(c) # "Proxy"
Arriving(c)   == Contains(receiver, NewConn(c))
Ending(c)     == Contains(receiver, UnlinkMsg(c))
Joining(k, c) == Contains(inbox[k], PushServer(c))
Member(k, c)  == Contains(members[k], c)
Popping(k, c) == Contains(inbox[k], PopServer(c))

(* Until its end was handled it lays claim to the name; once the brain     *)
(* heard of it, it serves.                                                 *)
Claims(c)  == task[c] # "done" \/ Ending(c)
Serving(c) == (task[c] = "reading" \/ Ending(c)) /\ ~Arriving(c)

(* The life of a connection, as the brain sees it: it is announced once,   *)
(* and its end once and later.                                             *)
LifeInv(c) ==
  /\ Once(receiver, NewConn(c)) /\ Once(receiver, UnlinkMsg(c))
  /\ Precedes(receiver, NewConn(c), UnlinkMsg(c))
  /\ Arriving(c) => task[c] = "reading" \/ Ending(c)
  /\ Ending(c) => task[c] = "done"

(* Channels.                                                               *)
LEMMA Sent ==
  ASSUME NEW S, NEW s \in Seq(S), NEW m, NEW a
  PROVE  /\ Contains(Append(s, m), a) <=> Contains(s, a) \/ a = m
         /\ Once(s, a) /\ (a # m \/ ~Contains(s, a)) => Once(Append(s, m), a)
<1>1. s \in Seq(S \cup {m})
  BY SeqSubset
<1> QED  BY <1>1, AppendContains, AppendOnce

LEMMA SentInOrder ==
  ASSUME NEW S, NEW s \in Seq(S), NEW m, NEW a, NEW b, a # b,
         Precedes(s, a, b), a # m \/ ~Contains(s, b)
  PROVE  Precedes(Append(s, m), a, b)
<1>1. s \in Seq(S \cup {m})
  BY SeqSubset
<1> QED  BY <1>1, AppendPrecedes

LEMMA Taken ==
  ASSUME NEW S, NEW s \in Seq(S), s # <<>>, NEW t, t = Tail(s), NEW a, NEW b
  PROVE  /\ Contains(s, a) <=> Contains(t, a) \/ a = Head(s)
         /\ Once(s, a) => Once(t, a) /\ (a = Head(s) => ~Contains(t, a))
         /\ Precedes(s, a, b) => Precedes(t, a, b) /\ (b = Head(s) => ~Contains(s, a))
BY TailContains, TailPrecedes

LEMMA Absent ==
  ASSUME NEW s, NEW a, NEW b
  PROVE  /\ ~Contains(s, a) => Once(s, a) /\ Precedes(s, a, b)
         /\ ~Contains(s, b) => Precedes(s, a, b)
BY DEF Contains, Once, Precedes

LEMMA Messages ==
  /\ \A c, d : NewConn(c) # UnlinkMsg(d) /\ PushServer(c) # PopServer(d)
               /\ (NewConn(c) = NewConn(d) <=> c = d) /\ (UnlinkMsg(c) = UnlinkMsg(d) <=> c = d)
               /\ (PushServer(c) = PushServer(d) <=> c = d)
               /\ (PopServer(c) = PopServer(d) <=> c = d)
  /\ \A c, r : PushServer(c) # QueueServer(r) /\ PopServer(c) # QueueServer(r)
  /\ \A c : PushServer(c) # Forwarded /\ PopServer(c) # Forwarded
BY DEF NewConn, UnlinkMsg, PushServer, PopServer, QueueServer, Forwarded

(* What is on its way of a connection was sent by its task.                *)
LEMMA Unheard ==
  ASSUME TypeInv, NEW c \in Conn, task[c] = "none"
  PROVE  ~Arriving(c) /\ ~Ending(c)
<1>1. \A i \in DOMAIN receiver : receiver[i] \in SeenMsg
  BY DEF TypeInv, MailInv
<1>2. c \notin Seen /\ c \notin Ended
  BY DEF Seen, Ended
<1>3. /\ NewConn(c).type = "NewConn" /\ NewConn(c).conn = c
      /\ UnlinkMsg(c).type = "Unlink" /\ UnlinkMsg(c).conn = c
  BY DEF NewConn, UnlinkMsg
<1>4. NewConn(c) \notin SeenMsg /\ UnlinkMsg(c) \notin SeenMsg
  BY <1>2, <1>3, SeenMsgFields
<1> QED  BY <1>1, <1>4 DEF Arriving, Ending, Contains

LEMMA OnlySeen ==
  ASSUME TypeInv, NEW c \in Conn, task[c] = "none", NEW k \in MinigameKind
  PROVE  ~Joining(k, c) /\ ~Member(k, c) /\ ~Popping(k, c)
<1>1. /\ \A i \in DOMAIN inbox[k] : inbox[k][i] \in SeenClusterMsg
      /\ \A i \in DOMAIN members[k] : members[k][i] \in Seen
  BY DEF TypeInv, MailInv
<1>2. c \notin Seen
  BY DEF Seen
<1>3. /\ PushServer(c).type = "PushServer" /\ PushServer(c).conn = c
      /\ PopServer(c).type = "PopServer" /\ PopServer(c).conn = c
  BY DEF PushServer, PopServer
<1>4. PushServer(c) \notin SeenClusterMsg /\ PopServer(c) \notin SeenClusterMsg
  BY <1>2, <1>3, SeenClusterMsgFields
<1> QED  BY <1>1, <1>2, <1>4 DEF Joining, Member, Popping, Contains

(* What a step does to a connection, as the brain sees it.                 *)
Joins(c)     == ServerJoins /\ msg = NewConn(c)
Leaves(c)    == ServerLeaves /\ msg = UnlinkMsg(c)
Registers(c) == /\ task[c] = "auth" /\ task' = [task EXCEPT ![c] = "reading"]
                /\ Send(NewConn(c))
Ends(c)      == task[c] = "reading" /\ EndOfConnection(c)
Waits(c) ==
  /\ \/ receiver' = receiver
     \/ receiver # <<>> /\ receiver' = Tail(receiver) /\ msg \notin {NewConn(c), UnlinkMsg(c)}
     \/ \E m : Send(m) /\ m \notin {NewConn(c), UnlinkMsg(c)}
  /\ \/ task'[c] = task[c]
     \/ task[c] = "none" /\ task'[c] = "auth"
     \/ task[c] = "auth" /\ task'[c] = "done"

LEMMA LifeStep ==
  ASSUME TypeInv, [Step]_vars, phase = "main", phase' = "main", NEW c \in Conn,
         KindOf(c) # "Proxy"
  PROVE  Joins(c) \/ Leaves(c) \/ Registers(c) \/ Ends(c) \/ Waits(c)
<1>1. task \in [Conn -> {"none", "auth", "reading", "done"}]
  BY DEF TypeInv, WorldInv
<1>2. /\ NewConn(c).type = "NewConn" /\ NewConn(c).conn = c
      /\ UnlinkMsg(c).type = "Unlink" /\ UnlinkMsg(c).conn = c
      /\ \A d : d # c => /\ NewConn(d) \notin {NewConn(c), UnlinkMsg(c)}
                         /\ UnlinkMsg(d) \notin {NewConn(c), UnlinkMsg(c)}
      /\ \A k : SpawnMsg(k) \notin {NewConn(c), UnlinkMsg(c)}
      /\ \A k : ForwardMsg(k) \notin {NewConn(c), UnlinkMsg(c)}
      /\ \A r : DispatchMsg(r) \notin {NewConn(c), UnlinkMsg(c)}
      /\ \A r, n : TransportMsg(r, n) \notin {NewConn(c), UnlinkMsg(c)}
  BY DEF NewConn, UnlinkMsg, SpawnMsg, ForwardMsg, DispatchMsg, TransportMsg
<1>3. CASE receiver' = receiver /\ task' = task
  BY <1>3 DEF Waits
<1>4. CASE \/ SecondProxyJoins \/ ServerJoins \/ ServerLeaves
           \/ Dispatch \/ ClusterForward \/ SpawnContainer \/ Transport
  <2>1. receiver # <<>> /\ receiver' = Tail(receiver) /\ UNCHANGED task
    BY <1>4, HandleEffect
    DEF SecondProxyJoins, ServerJoins, ServerLeaves, Dispatch, ClusterForward, SpawnContainer,
        Transport, elsewhere, outside
  <2>2. CASE msg \notin {NewConn(c), UnlinkMsg(c)}
    BY <2>1, <2>2 DEF Waits
  <2>3. CASE msg = NewConn(c)
    <3>1. msg.type = "NewConn" /\ KindOf(msg.conn) # "Proxy"
      BY <1>2, <2>3
    <3>2. ServerJoins
      BY <1>4, <3>1, HandleEffect
      DEF SecondProxyJoins, ServerLeaves, Dispatch, ClusterForward, SpawnContainer, Transport
    <3> QED  BY <2>3, <3>2 DEF Joins
  <2>4. CASE msg = UnlinkMsg(c)
    <3>1. msg.type = "Unlink"
      BY <1>2, <2>4
    <3>2. ServerLeaves
      BY <1>4, <3>1, HandleEffect
      DEF SecondProxyJoins, ServerJoins, Dispatch, ClusterForward, SpawnContainer, Transport
    <3> QED  BY <2>4, <3>2 DEF Leaves
  <2> QED  BY <2>2, <2>3, <2>4
<1>5. CASE DispatchTask
  BY <1>2, <1>5 DEF DispatchTask, Waits, outside
<1>6. ASSUME NEW k \in MinigameKind, ClusterAsksForServer(k)
      PROVE  Waits(c)
  BY <1>2, <1>6 DEF ClusterAsksForServer, Waits, outside
<1>7. ASSUME NEW d \in Conn,
             ClientStep(d) \/ ReadUpdateActive(d) \/ \E r \in Request : ReadRequest(d, r)
      PROVE  Registers(c) \/ Ends(c) \/ Waits(c)
  <2>1. \/ task[d] = "auth" /\ task' = [task EXCEPT ![d] = "reading"] /\ Send(NewConn(d))
        \/ task[d] = "auth" /\ task' = [task EXCEPT ![d] = "done"] /\ receiver' = receiver
        \/ Ends(d)
        \/ task' = task /\ \E k : Send(ForwardMsg(k))
        \/ task' = task /\ \E r : Send(DispatchMsg(r))
    BY <1>7 DEF ClientStep, Register, ReadEnds, ReadUpdateActive, ReadRequest, Ends
  <2>2. CASE d = c
    BY <1>1, <1>2, <2>1, <2>2 DEF Registers, Waits
  <2>3. CASE d # c
    BY <1>1, <1>2, <2>1, <2>3 DEF Waits, Ends, EndOfConnection
  <2> QED  BY <2>2, <2>3
<1>8. ASSUME NEW s \in Server, Connect(s)
      PROVE  Waits(c)
  <2>1. /\ task' = [task EXCEPT ![<<s, attempts[s] + 1>>] = "auth"] /\ receiver' = receiver
        /\ attempts[s] \in Nat /\ attempts[s] < MaxAttempts[s]
    BY <1>8 DEF Connect, TypeInv, WorldInv
  <2>2. c = <<s, attempts[s] + 1>> => task[c] = "none"
    <3>1. c[1] = s /\ c[2] = attempts[s] + 1 => ~(c[2] <= attempts[c[1]])
      BY <2>1
    <3> QED  BY <3>1 DEF Seen, TypeInv, WorldInv
  <2> QED  BY <1>1, <2>1, <2>2 DEF Waits
<1> QED
  BY <1>3, <1>4, <1>5, <1>6, <1>7, <1>8
  DEF vars, Step, HangsUp, Next, Tasks, BrainStep, Buffer, ProxyJoins, Resend, EnterMainLoop,
      ClusterStep, ClusterReceives, ClusterAnswers, SeesEnd, Breaks, Stops, Disconnected,
      ProxyReads, outside, elsewhere

LEMMA ConnNotNone == None \notin Conn
<1>1. \A c \in Conn : c \in Server \X Nat
  BY ConnFields, BrainAssumption
<1> QED  BY <1>1, BrainAssumption
-----------------------------------------------------------------------------
(* Who connects: names and kinds are given once.                           *)
LEMMA GameStays ==
  ASSUME TypeInv, [Step]_vars, NEW c \in Conn
  PROVE  /\ IsGame(c) => IsGame(c)' /\ KindOf(c)' = KindOf(c) /\ NameOf(c)' = NameOf(c)
         /\ IsGame(c)' /\ ~IsGame(c) =>
              /\ SpawnContainer /\ ident[c[1]] = None /\ task[c] = "none" /\ task' = task
<1>1. c[1] \in Server
  BY ConnFields
<1>2. CASE ident' = ident
  BY <1>2 DEF IsGame, KindOf, NameOf
<1>3. CASE SpawnContainer
  <2>1. ident[c[1]] # None => ident'[c[1]] = ident[c[1]]
    BY <1>1, <1>3 DEF SpawnContainer, ToStart, TypeInv, WorldInv
  <2>2. task' = task
    BY <1>3 DEF SpawnContainer
  <2>3. ident[c[1]] = None => task[c] = "none"
    BY DEF TypeInv, WorldInv, Seen
  <2> QED  BY <1>3, <2>1, <2>2, <2>3 DEF IsGame, KindOf, NameOf
<1> QED  BY <1>2, <1>3, IdentEffect

(* Where a connection is after a step.                                     *)
LEMMA Later ==
  ASSUME NEW k, NEW c
  PROVE  /\ Arriving(c)' <=> Contains(receiver', NewConn(c))
         /\ Ending(c)' <=> Contains(receiver', UnlinkMsg(c))
         /\ Joining(k, c)' <=> Contains(inbox'[k], PushServer(c))
         /\ Member(k, c)' <=> Contains(members'[k], c)
         /\ Popping(k, c)' <=> Contains(inbox'[k], PopServer(c))
         /\ Claims(c)' <=> task'[c] # "done" \/ Ending(c)'
         /\ Serving(c)' <=> (task'[c] = "reading" \/ Ending(c)') /\ ~Arriving(c)'
<1>1. /\ NewConn(c)' = NewConn(c) /\ UnlinkMsg(c)' = UnlinkMsg(c)
      /\ PushServer(c)' = PushServer(c) /\ PopServer(c)' = PopServer(c)
  BY DEF NewConn, UnlinkMsg, PushServer, PopServer
<1> QED  BY <1>1 DEF Arriving, Ending, Joining, Member, Popping, Claims, Serving, Contains

(* The life of a connection as the brain sees it.                          *)
LEMMA LifeLater ==
  ASSUME NEW c
  PROVE  LifeInv(c)' <=>
           /\ Once(receiver', NewConn(c)) /\ Once(receiver', UnlinkMsg(c))
           /\ Precedes(receiver', NewConn(c), UnlinkMsg(c))
           /\ Arriving(c)' => task'[c] = "reading" \/ Ending(c)'
           /\ Ending(c)' => task'[c] = "done"
<1>1. NewConn(c)' = NewConn(c) /\ UnlinkMsg(c)' = UnlinkMsg(c)
  BY DEF NewConn, UnlinkMsg
<1> QED  BY <1>1 DEF LifeInv, Once, Precedes

LEMMA LifeNext ==
  ASSUME TypeInv, [Step]_vars, phase = "main", phase' = "main",
         NEW c \in Conn, IsGame(c) => LifeInv(c), IsGame(c)'
  PROVE  LifeInv(c)'
<1>1. receiver \in Seq(SeenMsg) /\ task \in [Conn -> {"none", "auth", "reading", "done"}]
  BY DEF TypeInv, MailInv, WorldInv
<1>2. /\ Arriving(c) <=> Contains(receiver, NewConn(c))
      /\ Ending(c) <=> Contains(receiver, UnlinkMsg(c))
      /\ Arriving(c)' <=> Contains(receiver', NewConn(c))
      /\ Ending(c)' <=> Contains(receiver', UnlinkMsg(c))
      /\ NewConn(c) # UnlinkMsg(c)
  BY Later, Messages DEF Arriving, Ending
<1>3. CASE ~IsGame(c)
  <2>1. SpawnContainer /\ task[c] = "none" /\ task'[c] = "none"
    BY <1>3, GameStays
  <2>2. ~Arriving(c) /\ ~Ending(c)
    BY <2>1, Unheard
  <2>3. receiver # <<>> /\ receiver' = Tail(receiver)
    BY <2>1, HandleEffect DEF SpawnContainer
  <2>4. ~Contains(receiver', NewConn(c)) /\ ~Contains(receiver', UnlinkMsg(c))
    BY <1>1, <1>2, <2>2, <2>3, Taken
  <2> QED  BY <1>2, <2>1, <2>4, Absent, LifeLater
<1>4. ASSUME IsGame(c), LifeInv(c)
      PROVE  LifeInv(c)'
  <2>1. /\ Once(receiver, NewConn(c)) /\ Once(receiver, UnlinkMsg(c))
        /\ Precedes(receiver, NewConn(c), UnlinkMsg(c))
        /\ Arriving(c) => task[c] = "reading" \/ Ending(c)
        /\ Ending(c) => task[c] = "done"
    BY <1>4 DEF LifeInv
  <2>2. ASSUME receiver # <<>>, receiver' = Tail(receiver)
        PROVE  /\ Once(receiver', NewConn(c)) /\ Once(receiver', UnlinkMsg(c))
               /\ Precedes(receiver', NewConn(c), UnlinkMsg(c))
               /\ Arriving(c) <=> Arriving(c)' \/ msg = NewConn(c)
               /\ Ending(c) <=> Ending(c)' \/ msg = UnlinkMsg(c)
               /\ msg = UnlinkMsg(c) => ~Arriving(c)
    BY <1>1, <1>2, <2>1, <2>2, Taken DEF msg
  <2>3. ASSUME NEW m, Send(m)
        PROVE  /\ Arriving(c)' <=> Arriving(c) \/ m = NewConn(c)
               /\ Ending(c)' <=> Ending(c) \/ m = UnlinkMsg(c)
               /\ m # NewConn(c) \/ ~Arriving(c) => Once(receiver', NewConn(c))
               /\ m # UnlinkMsg(c) \/ ~Ending(c) => Once(receiver', UnlinkMsg(c))
               /\ m # NewConn(c) \/ ~Ending(c) =>
                    Precedes(receiver', NewConn(c), UnlinkMsg(c))
    <3>1. receiver' = Append(receiver, m)
      BY <2>3 DEF Send
    <3>2. /\ Arriving(c)' <=> Arriving(c) \/ m = NewConn(c)
          /\ m # NewConn(c) \/ ~Arriving(c) => Once(receiver', NewConn(c))
          /\ m # NewConn(c) \/ ~Ending(c) => Precedes(receiver', NewConn(c), UnlinkMsg(c))
      BY <1>1, <1>2, <2>1, <3>1, Sent, SentInOrder
    <3>3. /\ Ending(c)' <=> Ending(c) \/ m = UnlinkMsg(c)
          /\ m # UnlinkMsg(c) \/ ~Ending(c) => Once(receiver', UnlinkMsg(c))
      BY <1>1, <1>2, <2>1, <3>1, Sent
    <3> QED  BY <3>2, <3>3
  <2>4. CASE Joins(c) \/ Leaves(c)
    <3>1. msg \in {NewConn(c), UnlinkMsg(c)} /\ receiver # <<>> /\ receiver' = Tail(receiver)
          /\ task' = task
      BY <2>4, HandleEffect DEF Joins, Leaves, ServerJoins, ServerLeaves, elsewhere, outside
    <3> QED  BY <1>2, <2>1, <2>2, <3>1, LifeLater
  <2>5. CASE Registers(c)
    <3>1. task[c] = "auth" /\ task'[c] = "reading" /\ Send(NewConn(c))
      BY <1>1, <2>5 DEF Registers
    <3> QED  BY <1>2, <2>1, <2>3, <3>1, LifeLater
  <2>6. CASE Ends(c)
    <3>1. task[c] = "reading" /\ task'[c] = "done" /\ Send(UnlinkMsg(c))
      BY <1>1, <2>6 DEF Ends, EndOfConnection
    <3> QED  BY <1>2, <2>1, <2>3, <3>1, LifeLater
  <2>7. CASE Waits(c)
    <3> DEFINE Quiet == /\ Arriving(c)' <=> Arriving(c)
                        /\ Ending(c)' <=> Ending(c)
                        /\ Once(receiver', NewConn(c)) /\ Once(receiver', UnlinkMsg(c))
                        /\ Precedes(receiver', NewConn(c), UnlinkMsg(c))
    <3>1. Quiet
      <4>1. CASE receiver' = receiver
        BY <1>2, <2>1, <4>1
      <4>2. CASE /\ receiver # <<>> /\ receiver' = Tail(receiver)
                 /\ msg \notin {NewConn(c), UnlinkMsg(c)}
        BY <2>2, <4>2
      <4>3. ASSUME NEW m, Send(m), m \notin {NewConn(c), UnlinkMsg(c)}
            PROVE  Quiet
        BY <2>3, <4>3
      <4> HIDE DEF Quiet
      <4> QED  BY <2>7, <4>1, <4>2, <4>3 DEF Waits
    <3>2. \/ task'[c] = task[c]
          \/ task[c] = "none" /\ task'[c] = "auth"
          \/ task[c] = "auth" /\ task'[c] = "done"
      BY <2>7 DEF Waits
    <3> QED  BY <2>1, <3>1, <3>2, LifeLater
  <2> QED  BY <1>4, <2>4, <2>5, <2>6, <2>7, LifeStep DEF IsGame
<1> QED  BY <1>3, <1>4

(* What the life of a connection means for the messages of its cluster.    *)
LEMMA LifeMoves ==
  ASSUME TypeInv, [Step]_vars, phase = "main", phase' = "main", NEW c \in Conn, IsGame(c),
         LifeInv(c)
  PROVE  \/ Joins(c) /\ Arriving(c) /\ ~Arriving(c)' /\ task' = task /\ (Ending(c)' <=> Ending(c))
         \/ /\ Leaves(c) /\ Ending(c) /\ ~Ending(c)' /\ ~Arriving(c) /\ ~Arriving(c)'
            /\ task' = task
         \/ /\ ~Joins(c) /\ ~Leaves(c)
            /\ \/ task[c] = "auth" /\ task'[c] = "reading" /\ Arriving(c)'
                  /\ (Ending(c)' <=> Ending(c))
               \/ /\ task[c] = "reading" /\ task'[c] = "done" /\ Ending(c)'
                  /\ (Arriving(c)' <=> Arriving(c))
               \/ /\ Arriving(c)' <=> Arriving(c)
                  /\ Ending(c)' <=> Ending(c)
                  /\ \/ task'[c] = task[c]
                     \/ task[c] = "none" /\ task'[c] = "auth"
                     \/ task[c] = "auth" /\ task'[c] = "done"
<1>1. receiver \in Seq(SeenMsg) /\ task \in [Conn -> {"none", "auth", "reading", "done"}]
  BY DEF TypeInv, MailInv, WorldInv
<1>2. /\ Arriving(c) <=> Contains(receiver, NewConn(c))
      /\ Ending(c) <=> Contains(receiver, UnlinkMsg(c))
      /\ Arriving(c)' <=> Contains(receiver', NewConn(c))
      /\ Ending(c)' <=> Contains(receiver', UnlinkMsg(c))
      /\ NewConn(c) # UnlinkMsg(c)
  BY Later, Messages DEF Arriving, Ending
<1>3. /\ Once(receiver, NewConn(c)) /\ Once(receiver, UnlinkMsg(c))
      /\ Precedes(receiver, NewConn(c), UnlinkMsg(c))
  BY DEF LifeInv
<1>4. ASSUME receiver # <<>>, receiver' = Tail(receiver)
      PROVE  /\ Arriving(c) <=> Arriving(c)' \/ msg = NewConn(c)
             /\ Ending(c) <=> Ending(c)' \/ msg = UnlinkMsg(c)
             /\ msg = NewConn(c) => ~Arriving(c)'
             /\ msg = UnlinkMsg(c) => ~Ending(c)' /\ ~Arriving(c)
  BY <1>1, <1>2, <1>3, <1>4, Taken DEF msg
<1>5. ASSUME NEW m, Send(m)
      PROVE  /\ Arriving(c)' <=> Arriving(c) \/ m = NewConn(c)
             /\ Ending(c)' <=> Ending(c) \/ m = UnlinkMsg(c)
  BY <1>1, <1>2, <1>5, Sent DEF Send
<1>6. CASE Joins(c)
  <2>1. msg = NewConn(c) /\ receiver # <<>> /\ receiver' = Tail(receiver) /\ task' = task
    BY <1>6, HandleEffect DEF Joins, ServerJoins, elsewhere, outside
  <2> QED  BY <1>2, <1>4, <1>6, <2>1
<1>7. CASE Leaves(c)
  <2>1. msg = UnlinkMsg(c) /\ receiver # <<>> /\ receiver' = Tail(receiver) /\ task' = task
    BY <1>7, HandleEffect DEF Leaves, ServerLeaves, elsewhere, outside
  <2> QED  BY <1>2, <1>4, <1>7, <2>1
<1>8. CASE Registers(c)
  BY <1>1, <1>2, <1>5, <1>6, <1>7, <1>8 DEF Registers
<1>9. CASE Ends(c)
  BY <1>1, <1>2, <1>5, <1>6, <1>7, <1>9 DEF Ends, EndOfConnection
<1>10. CASE Waits(c)
  <2>1. (Arriving(c)' <=> Arriving(c)) /\ (Ending(c)' <=> Ending(c))
    BY <1>2, <1>4, <1>5, <1>10 DEF Waits
  <2> QED  BY <1>6, <1>7, <1>10, <2>1 DEF Waits
<1> QED  BY <1>6, <1>7, <1>8, <1>9, <1>10, LifeStep DEF IsGame

LEMMA EntersMain ==
  ASSUME [Step]_vars, phase = "resend", phase' = "main"
  PROVE  EnterMainLoop
BY DEF vars, Step, HangsUp, Next, Tasks, BrainStep, Buffer, ProxyJoins, Resend, Handle,
       SecondProxyJoins, ServerJoins, ServerLeaves, Dispatch, ClusterForward, SpawnContainer,
       Transport, ClusterStep, ClusterReceives, ClusterAnswers, ClusterAsksForServer,
       DispatchTask, ClientStep, Register, ReadEnds, ReadRequest, ReadUpdateActive, Connect,
       SeesEnd, Breaks, Stops, Disconnected, ProxyReads, controller, brain

(* The main loop is entered once, with nothing but the phase changed.      *)
LEMMA MainBegins ==
  ASSUME TypeInv, [Step]_vars, phase' = "main", phase # "main"
  PROVE  /\ phase = "resend"
         /\ UNCHANGED <<ident, task, receiver, inbox, members, handles, to_proxy, linked>>
<1>1. phase = "resend"
  BY PhaseEffect, DeadStaysDead DEF TypeInv, BrainInv
<1> QED
  BY <1>1, EntersMain DEF EnterMainLoop, elsewhere, outside, world, cluster, proxy

(* While the brain waits for the proxy no game server has connected.       *)
LEMMA GamesWait ==
  ASSUME TypeInv, WaitInv, phase = "resend", NEW c \in Conn, IsGame(c)
  PROVE  task[c] = "none"
<1>1. task[c] = "none" \/ c \in Seen
  BY DEF Seen
<1> QED  BY <1>1 DEF WaitInv, IsGame

GamesInv == phase = "main" => \A c \in Conn : IsGame(c) => LifeInv(c)

LEMMA GamesNext ==
  ASSUME TypeInv, WaitInv, GamesInv, [Step]_vars
  PROVE  GamesInv'
<1> SUFFICES ASSUME phase' = "main", NEW c \in Conn, IsGame(c)' PROVE LifeInv(c)'
  BY DEF GamesInv
<1>1. CASE phase = "main"
  BY <1>1, LifeNext DEF GamesInv
<1>2. CASE phase # "main"
  <2>1. phase = "resend" /\ UNCHANGED <<ident, task, receiver>>
    BY <1>2, MainBegins
  <2>2. IsGame(c)
    BY <2>1 DEF IsGame, KindOf
  <2>3. ~Arriving(c) /\ ~Ending(c)
    BY <2>1, <2>2, GamesWait, Unheard
  <2> QED  BY <2>1, <2>3, Later, LifeLater, Absent DEF Arriving, Ending
<1> QED  BY <1>1, <1>2

-----------------------------------------------------------------------------
(* The cluster of a kind.  Its vector is by name: a message that a server  *)
(* left takes out whichever connection of that name comes first.  So what  *)
(* the vector holds is right only in number: of each name as many          *)
(* connections as the cluster was told of and not told of the end of.      *)
Named(k, n) == {i \in DOMAIN members[k] : NameOf(members[k][i]) = n}

Counted(k, c) ==
  /\ IsGame(c) /\ KindOf(c) = k
  /\ ~Arriving(c) /\ ~Joining(k, c)
  /\ task[c] = "reading" \/ Ending(c) \/ Popping(k, c)
Counts(k, n) == {c \in Conn : Counted(k, c) /\ NameOf(c) = n}

CountInv(k) ==
  \A n : IsFiniteSet(Counts(k, n)) /\ Cardinality(Counts(k, n)) = Cardinality(Named(k, n))

(* The life of a connection, as its cluster sees it.                       *)
VectorInv(k, c) ==
  /\ Once(inbox[k], PushServer(c)) /\ Once(inbox[k], PopServer(c))
  /\ Precedes(inbox[k], PushServer(c), PopServer(c))
  /\ Joining(k, c) => ~Arriving(c) /\ (task[c] = "reading" \/ Ending(c) \/ Popping(k, c))
  /\ Popping(k, c) => ~Arriving(c) /\ task[c] = "done" /\ ~Ending(c)
  /\ Serving(c) => k \in handles

OfKind(k, c) == Joining(k, c) \/ Member(k, c) \/ Popping(k, c) => IsGame(c) /\ KindOf(c) = k

ClusterInv(k) ==
  /\ \A c \in Conn : OfKind(k, c)
  /\ \A c \in Conn : IsGame(c) /\ KindOf(c) = k => VectorInv(k, c)
  /\ CountInv(k)

LobbyInv == lobby_server # None => KindOf(lobby_server) = "Lobby"

VectorsInv ==
  /\ phase \in {"boot", "resend"} => \A k \in MinigameKind : members[k] = <<>>
  /\ phase = "main" => \A k \in MinigameKind : ClusterInv(k)

(* Where the elements of T are in a sequence, and how many there are when  *)
(* one is added or taken out.                                              *)
Where(s, T) == {i \in DOMAIN s : s[i] \in T}

LEMMA WhereFinite ==
  ASSUME NEW S, NEW s \in Seq(S), NEW T
  PROVE  IsFiniteSet(Where(s, T)) /\ Cardinality(Where(s, T)) \in Nat
<1>1. Where(s, T) \in SUBSET (1 .. Len(s)) /\ Len(s) \in Nat
  BY LenProperties DEF Where
<1>2. IsFiniteSet(1 .. Len(s))
  BY <1>1, FS_Interval
<1>3. IsFiniteSet(Where(s, T))
  BY <1>1, <1>2, FS_Subset
<1> QED  BY <1>3, FS_CardinalityType

LEMMA WhereAppend ==
  ASSUME NEW S, NEW s \in Seq(S), NEW m \in S, NEW T
  PROVE  Cardinality(Where(Append(s, m), T)) =
           Cardinality(Where(s, T)) + (IF m \in T THEN 1 ELSE 0)
<1> DEFINE n == Len(s) + 1
<1>1. /\ DOMAIN s = 1 .. Len(s) /\ Len(s) \in Nat /\ DOMAIN Append(s, m) = 1 .. n
      /\ \A i \in 1 .. Len(s) : Append(s, m)[i] = s[i]
      /\ Append(s, m)[n] = m
  BY AppendElements
<1>2. IsFiniteSet(Where(s, T)) /\ Cardinality(Where(s, T)) \in Nat
  BY WhereFinite
<1>3. CASE m \in T
  <2>1. Where(Append(s, m), T) = Where(s, T) \cup {n} /\ n \notin Where(s, T)
    BY <1>1, <1>3 DEF Where
  <2> QED  BY <1>2, <1>3, <2>1, FS_AddElement
<1>4. CASE m \notin T
  <2>1. Where(Append(s, m), T) = Where(s, T)
    BY <1>1, <1>4 DEF Where
  <2> QED  BY <1>2, <1>4, <2>1
<1> QED  BY <1>3, <1>4

LEMMA WhereRemoved ==
  ASSUME NEW S, NEW s \in Seq(S), NEW i \in DOMAIN s, NEW T
  PROVE  Cardinality(Where(RemoveAt(s, i), T)) =
           Cardinality(Where(s, T)) - (IF s[i] \in T THEN 1 ELSE 0)
<1> DEFINE t == RemoveAt(s, i)
           A == Where(s, T) \ {i}
           B == Where(t, T)
           shift(j) == IF j < i THEN j ELSE j - 1
           f == [j \in A |-> shift(j)]
<1>1. /\ DOMAIN s = 1 .. Len(s) /\ Len(s) \in Nat /\ i \in 1 .. Len(s)
      /\ DOMAIN t = 1 .. Len(s) - 1
      /\ \A j \in 1 .. i - 1 : t[j] = s[j]
      /\ \A j \in i .. Len(s) - 1 : t[j] = s[j + 1]
  BY RemoveAtElements, LenProperties
<1>2. IsFiniteSet(Where(s, T)) /\ Cardinality(Where(s, T)) \in Nat
  BY WhereFinite
<1> HIDE DEF t
<1>3. ASSUME NEW j \in A
      PROVE  shift(j) \in B /\ j \in Int /\ j # i
  <2>1. j \in 1 .. Len(s) /\ j # i /\ s[j] \in T
    BY <1>1, <1>3 DEF Where
  <2>2. CASE j < i
    <3>1. j \in 1 .. i - 1 /\ j \in DOMAIN t
      BY <1>1, <2>1, <2>2
    <3>2. t[j] = s[j]
      BY <1>1, <3>1
    <3> QED  BY <2>1, <2>2, <3>1, <3>2 DEF Where
  <2>3. CASE j > i
    <3>1. j - 1 \in i .. Len(s) - 1 /\ j - 1 \in DOMAIN t /\ j - 1 + 1 = j /\ ~(j < i)
      BY <1>1, <2>1, <2>3
    <3>2. t[j - 1] = s[j]
      BY <1>1, <3>1
    <3> QED  BY <2>1, <3>1, <3>2 DEF Where
  <2> QED  BY <1>1, <2>1, <2>2, <2>3
<1>4. ASSUME NEW h \in B
      PROVE  \E j \in A : shift(j) = h
  <2>1. h \in 1 .. Len(s) - 1 /\ t[h] \in T
    BY <1>1, <1>4 DEF Where
  <2>2. CASE h < i
    <3>1. h \in 1 .. i - 1 /\ h \in DOMAIN s /\ h # i
      BY <1>1, <2>1, <2>2
    <3>2. s[h] = t[h]
      BY <1>1, <3>1
    <3> QED  BY <2>1, <2>2, <3>1, <3>2 DEF Where
  <2>3. CASE h >= i
    <3>1. h \in i .. Len(s) - 1 /\ h + 1 \in DOMAIN s /\ h + 1 # i /\ ~(h + 1 < i)
          /\ h + 1 - 1 = h
      BY <1>1, <2>1, <2>3
    <3>2. s[h + 1] = t[h]
      BY <1>1, <3>1
    <3>3. h + 1 \in A
      BY <2>1, <3>1, <3>2 DEF Where
    <3> QED  BY <3>1, <3>3
  <2> QED  BY <1>1, <2>1, <2>2, <2>3
<1>5. ASSUME NEW x \in A, NEW y \in A, shift(x) = shift(y)
      PROVE  x = y
  BY <1>1, <1>3, <1>5
<1>6. f \in Bijection(A, B)
  <2> HIDE DEF A, B, shift
  <2>1. f \in [A -> B]
    BY <1>3
  <2>2. \A x \in A : f[x] = shift(x)
    OBVIOUS
  <2> HIDE DEF f
  <2>3. \A x, y \in A : f[x] = f[y] => x = y
    BY <1>5, <2>2
  <2>4. \A h \in B : \E j \in A : f[j] = h
    BY <1>4, <2>2
  <2> QED  BY <2>1, <2>3, <2>4 DEF Bijection, Injection, IsInjective, Surjection
<1>7. IsFiniteSet(A) /\ Cardinality(A) =
        IF i \in Where(s, T) THEN Cardinality(Where(s, T)) - 1 ELSE Cardinality(Where(s, T))
  <2> HIDE DEF f, B
  <2> QED  BY <1>2, FS_RemoveElement
<1>8. Cardinality(B) = Cardinality(A)
  <2> HIDE DEF f, A, B
  <2> QED  BY <1>6, <1>7, FS_Bijection DEF ExistsBijection
<1>9. i \in Where(s, T) <=> s[i] \in T
  BY DEF Where
<1> QED  BY <1>2, <1>7, <1>8, <1>9 DEF t

-----------------------------------------------------------------------------
(* What a step does to a connection, as its cluster sees it.               *)
ForNone(m) == m.type \in {"QueueServer", "UpdateActive"}

LEMMA ForNoneIs ==
  ASSUME NEW m, ForNone(m), NEW c
  PROVE  m # PushServer(c) /\ m # PopServer(c)
BY DEF ForNone, PushServer, PopServer

(* The cluster takes a message about a connection, or another one.         *)
Admits(k, c) == ClusterReceives(k) /\ Head(inbox[k]) = PushServer(c)
Drops(k, c)  == ClusterReceives(k) /\ Head(inbox[k]) = PopServer(c)

LEMMA ReceiveStep ==
  ASSUME TypeInv, NEW k \in MinigameKind, ClusterReceives(k)
  PROVE  /\ inbox[k] # <<>> /\ inbox'[k] = Tail(inbox[k])
         /\ UNCHANGED <<receiver, task, handles, ident>>
         /\ \/ \E d \in Conn : /\ Admits(k, d) /\ Joining(k, d)
                               /\ members'[k] = Append(members[k], d)
            \/ \E d \in Conn : /\ Drops(k, d) /\ Popping(k, d)
                               /\ \/ SameName(k, d) = {} /\ members' = members
                                  \/ \E i \in SameName(k, d) :
                                       members'[k] = RemoveAt(members[k], i)
            \/ /\ ForNone(Head(inbox[k])) /\ members' = members
               /\ \A c : ~Admits(k, c) /\ ~Drops(k, c)
<1>1. /\ inbox[k] # <<>> /\ inbox' = [inbox EXCEPT ![k] = Tail(inbox[k])]
      /\ inbox[k] \in Seq(SeenClusterMsg) /\ members[k] \in Seq(Seen)
      /\ inbox'[k] = Tail(inbox[k])
      /\ UNCHANGED <<receiver, task, handles, ident>>
  BY DEF ClusterReceives, TypeInv, MailInv, outside, world, brain
<1>2. PICK m : m = Head(inbox[k])
  OBVIOUS
<1>3. m \in SeenClusterMsg /\ Contains(inbox[k], m)
  BY <1>1, <1>2, HeadTailProperties, TailContains
<1>4. CASE m.type = "PushServer"
  <2>1. PICK d \in Seen : d = m.conn /\ m = PushServer(d)
    BY <1>3, <1>4, SeenClusterMsgFields
  <2>2. d \in Conn /\ Joining(k, d)
    BY <1>3, <2>1 DEF Seen, Joining
  <2>3. members' = [members EXCEPT ![k] = Append(@, d)]
    BY <1>2, <1>4, <2>1 DEF ClusterReceives
  <2>4. members'[k] = Append(members[k], d)
    BY <2>3 DEF TypeInv, MailInv
  <2> QED  BY <1>1, <1>2, <2>1, <2>2, <2>4 DEF Admits
<1>5. CASE m.type = "PopServer"
  <2>1. PICK d \in Seen : d = m.conn /\ m = PopServer(d)
    BY <1>3, <1>5, SeenClusterMsgFields
  <2>2. d \in Conn /\ Popping(k, d) /\ Drops(k, d)
    BY <1>2, <1>3, <2>1 DEF Seen, Popping, Drops
  <2>3. CASE SameName(k, d) = {}
    <3>1. members' = members
      BY <1>2, <1>5, <2>1, <2>3 DEF ClusterReceives
    <3> QED  BY <1>1, <2>2, <2>3, <3>1
  <2>4. CASE SameName(k, d) # {}
    <3> DEFINE i == CHOOSE i \in SameName(k, d) : \A j \in SameName(k, d) : i <= j
    <3>1. members' = [members EXCEPT ![k] = RemoveAt(@, i)]
      BY <1>2, <1>5, <2>1, <2>4 DEF ClusterReceives
    <3>2. SameName(k, d) \in SUBSET Nat
      BY <1>1, LenProperties DEF SameName
    <3>3. \E h \in SameName(k, d) : \A j \in SameName(k, d) : h <= j
      BY <2>4, <3>2, LeastMember
    <3>4. i \in SameName(k, d)
      BY <3>3
    <3> HIDE DEF i
    <3>5. members'[k] = RemoveAt(members[k], i)
      BY <3>1 DEF TypeInv, MailInv
    <3> QED  BY <1>1, <2>2, <3>4, <3>5
  <2> QED  BY <2>3, <2>4
<1>6. CASE m.type \in {"QueueServer", "UpdateActive"}
  <2>1. ForNone(m) /\ members' = members
    BY <1>2, <1>6 DEF ForNone, ClusterReceives
  <2>2. \A c : ~Admits(k, c) /\ ~Drops(k, c)
    BY <1>2, <2>1, ForNoneIs DEF Admits, Drops
  <2> QED  BY <1>1, <1>2, <2>1, <2>2
<1> QED  BY <1>3, <1>4, <1>5, <1>6, SeenClusterMsgFields

(* What the brain sends to a cluster.                                      *)
SentTo(k, m) == inbox'[k] = Append(inbox[k], m) /\ members'[k] = members[k]

LEMMA OtherClusters ==
  ASSUME TypeInv, NEW k \in MinigameKind, NEW l \in MinigameKind, l # k, ClusterReceives(l)
  PROVE  inbox'[k] = inbox[k] /\ members'[k] = members[k]
<1>1. inbox' = [inbox EXCEPT ![l] = Tail(inbox[l])]
      /\ (members' = members \/ \E s : members' = [members EXCEPT ![l] = s])
  BY ClusterReceivesEffect
<1> QED  BY <1>1 DEF TypeInv, MailInv

LEMMA InboxStep ==
  ASSUME TypeInv, [Step]_vars, phase = "main", phase' = "main", NEW k \in MinigameKind
  PROVE  /\ \/ ClusterReceives(k)
            \/ \E c \in Conn : Joins(c) /\ KindOf(c) = k /\ SentTo(k, PushServer(c))
            \/ \E c \in Conn : Leaves(c) /\ KindOf(c) = k /\ SentTo(k, PopServer(c))
            \/ \E m : ForNone(m) /\ SentTo(k, m)
            \/ inbox'[k] = inbox[k] /\ members'[k] = members[k]
         /\ handles \subseteq handles'
<1> DEFINE Idle(l) == inbox'[l] = inbox[l] /\ members'[l] = members[l]
<1>1. inbox \in [MinigameKind -> Seq(SeenClusterMsg)] /\ members \in [MinigameKind -> Seq(Seen)]
  BY DEF TypeInv, MailInv
<1>2. ASSUME NEW l \in MinigameKind, NEW m, ToCluster(l, m), members' = members
      PROVE  (l = k /\ SentTo(k, m)) \/ Idle(k)
  BY <1>1, <1>2 DEF ToCluster, SentTo
<1>3. CASE ServerJoins
  <2>1. PICK c : c = msg.conn
    OBVIOUS
  <2>2. c \in Conn /\ msg = NewConn(c) /\ members' = members /\ handles \subseteq handles'
    <3>1. msg = NewConn(c) /\ c \in Seen
      BY <1>3, <2>1, HandleEffect, SeenMsgFields DEF ServerJoins
    <3> QED  BY <1>3, <3>1 DEF ServerJoins, elsewhere, cluster, Seen
  <2>3. inbox' = inbox \/ \E l \in MinigameKind : l = KindOf(c) /\ ToCluster(l, PushServer(c))
    BY <1>3, <2>1 DEF ServerJoins
  <2>4. CASE inbox' = inbox
    BY <2>2, <2>4
  <2>5. ASSUME NEW l \in MinigameKind, l = KindOf(c), ToCluster(l, PushServer(c))
        PROVE  Joins(c) /\ ((l = k /\ KindOf(c) = k /\ SentTo(k, PushServer(c))) \/ Idle(k))
    BY <1>2, <1>3, <2>2, <2>5 DEF Joins
  <2> QED  BY <2>2, <2>3, <2>4, <2>5
<1>4. CASE ServerLeaves
  <2>1. PICK c : c = msg.conn
    OBVIOUS
  <2>2. c \in Conn /\ msg = UnlinkMsg(c) /\ members' = members /\ handles \subseteq handles'
    <3>1. msg = UnlinkMsg(c) /\ c \in Ended
      BY <1>4, <2>1, HandleEffect, SeenMsgFields DEF ServerLeaves
    <3> QED  BY <1>4, <3>1 DEF ServerLeaves, elsewhere, cluster, Ended
  <2>3. inbox' = inbox \/ \E l \in MinigameKind : l = KindOf(c) /\ ToCluster(l, PopServer(c))
    <3>1. handles \subseteq MinigameKind
      BY DEF TypeInv, BrainInv
    <3> QED  BY <1>4, <2>1, <3>1 DEF ServerLeaves
  <2>4. CASE inbox' = inbox
    BY <2>2, <2>4
  <2>5. ASSUME NEW l \in MinigameKind, l = KindOf(c), ToCluster(l, PopServer(c))
        PROVE  Leaves(c) /\ ((l = k /\ KindOf(c) = k /\ SentTo(k, PopServer(c))) \/ Idle(k))
    BY <1>2, <1>4, <2>2, <2>5 DEF Leaves
  <2> QED  BY <2>2, <2>3, <2>4, <2>5
<1>5. CASE Dispatch \/ ClusterForward
  <2>1. members' = members /\ handles \subseteq handles'
    BY <1>5 DEF Dispatch, ClusterForward, elsewhere, cluster, brain
  <2>2. inbox' = inbox \/ \E l \in MinigameKind : \E m : ForNone(m) /\ ToCluster(l, m)
    <3>1. ForNone(QueueServer(msg.player)) /\ ForNone(Forwarded)
      BY DEF ForNone, QueueServer, Forwarded
    <3>2. handles \subseteq MinigameKind
      BY DEF TypeInv, BrainInv
    <3> QED  BY <1>5, <3>1, <3>2 DEF Dispatch, ClusterForward
  <2> QED  BY <1>2, <2>1, <2>2
<1>6. ASSUME NEW l \in MinigameKind, ClusterReceives(l)
      PROVE  (ClusterReceives(k) \/ Idle(k)) /\ handles' = handles
  BY <1>6, OtherClusters DEF ClusterReceives, brain
<1> QED
  BY <1>3, <1>4, <1>5, <1>6
  DEF vars, Step, HangsUp, Next, Tasks, BrainStep, Buffer, ProxyJoins, Resend, EnterMainLoop,
      SecondProxyJoins, SpawnContainer, Transport, ClusterStep, ClusterAnswers,
      ClusterAsksForServer, DispatchTask, ClientStep, Register, ReadEnds, ReadRequest,
      ReadUpdateActive, Connect, SeesEnd, Breaks, Stops, Disconnected, ProxyReads, controller,
      elsewhere, cluster, brain

(* A server that joins or leaves is told to its cluster.                   *)
LEMMA JoinsSent ==
  ASSUME TypeInv, phase' = "main", NEW k \in MinigameKind, NEW c \in Conn, KindOf(c) = k, Joins(c)
  PROVE  SentTo(k, PushServer(c)) /\ k \in handles'
<1>1. msg.conn = c /\ ServerJoins
  BY DEF Joins, NewConn
<1>2. handles' = handles \cup {k} /\ ToCluster(k, PushServer(c)) /\ members' = members
  BY <1>1 DEF ServerJoins, elsewhere, cluster
<1> QED  BY <1>2 DEF ToCluster, SentTo, TypeInv, MailInv

LEMMA LeavesSent ==
  ASSUME TypeInv, phase' = "main", NEW k \in handles, NEW c \in Conn, KindOf(c) = k, Leaves(c)
  PROVE  SentTo(k, PopServer(c))
<1>1. msg.conn = c /\ ServerLeaves /\ k \in MinigameKind
  BY DEF Leaves, UnlinkMsg, TypeInv, BrainInv
<1>2. k # "Proxy"
  BY <1>1, Kinds
<1>3. ToCluster(k, PopServer(c)) /\ members' = members
  BY <1>1, <1>2 DEF ServerLeaves, ProxyLeaves, elsewhere, cluster
<1> QED  BY <1>1, <1>3 DEF ToCluster, SentTo, TypeInv, MailInv

(* A server that joins or leaves is one.                                   *)
LEMMA MoverIsGame ==
  ASSUME TypeInv, NEW k \in MinigameKind, NEW c \in Conn, KindOf(c) = k, Joins(c) \/ Leaves(c)
  PROVE  IsGame(c)
<1>1. msg \in SeenMsg
  BY HandleEffect DEF Joins, Leaves, ServerJoins, ServerLeaves
<1>2. c \in Seen
  <2>1. CASE Joins(c)
    BY <1>1, <2>1, SeenMsgFields DEF Joins, NewConn
  <2>2. CASE Leaves(c)
    BY <1>1, <2>2, SeenMsgFields DEF Leaves, UnlinkMsg, Seen, Ended
  <2> QED  BY <2>1, <2>2
<1> QED  BY <1>2, Kinds DEF IsGame, TypeInv, WorldInv

LEMMA OneMoves ==
  ASSUME TypeInv, NEW c \in Conn, NEW d \in Conn
  PROVE  /\ Joins(c) => ~Leaves(d) /\ (Joins(d) => d = c)
         /\ Leaves(c) => ~Joins(d) /\ (Leaves(d) => d = c)
BY Messages DEF Joins, Leaves

(* Nobody knows of a server that was started a moment ago.                 *)
LEMMA StrangerStaysOut ==
  ASSUME TypeInv, [Step]_vars, NEW k \in MinigameKind, NEW c \in Conn, IsGame(c)', ~IsGame(c)
  PROVE  ~Joining(k, c)' /\ ~Member(k, c)' /\ ~Popping(k, c)'
<1>1. SpawnContainer /\ task[c] = "none"
  BY GameStays
<1>2. ~Joining(k, c) /\ ~Member(k, c) /\ ~Popping(k, c)
  BY <1>1, OnlySeen
<1>3. inbox' = inbox /\ members' = members
  BY <1>1 DEF SpawnContainer, cluster
<1> QED  BY <1>2, <1>3, Later DEF Joining, Member, Popping

(* Seen from one connection.                                               *)
Unaware(k, c) ==
  /\ ~Admits(k, c) /\ ~Drops(k, c)
  /\ \/ inbox'[k] = inbox[k]
     \/ /\ inbox[k] # <<>> /\ inbox'[k] = Tail(inbox[k])
        /\ Head(inbox[k]) \notin {PushServer(c), PopServer(c)}
     \/ \E m : inbox'[k] = Append(inbox[k], m) /\ m \notin {PushServer(c), PopServer(c)}

(* A cluster takes messages off its channel and the brain adds to it.      *)
LEMMA NotBoth ==
  ASSUME TypeInv, NEW k \in MinigameKind, ClusterReceives(k)
  PROVE  inbox'[k] # inbox[k] /\ \A m : inbox'[k] # Append(inbox[k], m)
<1>1. inbox[k] # <<>> /\ inbox'[k] = Tail(inbox[k]) /\ inbox[k] \in Seq(SeenClusterMsg)
  BY ReceiveStep DEF TypeInv, MailInv
<1>2. PICK n \in Nat : n = Len(inbox[k]) /\ Len(inbox'[k]) = n - 1
  BY <1>1, HeadTailProperties, LenProperties
<1>3. ASSUME NEW m
      PROVE  Len(Append(inbox[k], m)) = Len(inbox[k]) + 1
  <2>1. inbox[k] \in Seq(SeenClusterMsg \cup {m})
    BY <1>1, SeqSubset
  <2> QED  BY <2>1, AppendProperties
<1>4. inbox'[k] # inbox[k]
  <2>1. n # n - 1
    OBVIOUS
  <2> QED  BY <1>2, <2>1, Zenon
<1>5. ASSUME NEW m
      PROVE  inbox'[k] # Append(inbox[k], m)
  BY <1>1, <1>2, <1>3
<1> QED  BY <1>4, <1>5

LEMMA VectorStep ==
  ASSUME TypeInv, [Step]_vars, phase = "main", phase' = "main", NEW k \in MinigameKind,
         NEW c \in Conn, ~Joins(c), ~Leaves(c)
  PROVE  Unaware(k, c) \/ Admits(k, c) \/ Drops(k, c)
<1>1. Admits(k, c) \/ Drops(k, c) => ClusterReceives(k)
  BY DEF Admits, Drops
<1>2. CASE ClusterReceives(k)
  <2>1. inbox[k] # <<>> /\ inbox'[k] = Tail(inbox[k])
    BY <1>2, ReceiveStep
  <2> QED  BY <1>2, <2>1 DEF Unaware, Admits, Drops
<1>3. ASSUME NEW d \in Conn,
             \/ Joins(d) /\ SentTo(k, PushServer(d))
             \/ Leaves(d) /\ SentTo(k, PopServer(d))
      PROVE  Unaware(k, c)
  <2>1. d # c
    BY <1>3
  <2>2. PushServer(d) \notin {PushServer(c), PopServer(c)}
        /\ PopServer(d) \notin {PushServer(c), PopServer(c)}
    BY <2>1, Messages
  <2>3. \E m : inbox'[k] = Append(inbox[k], m) /\ m \notin {PushServer(c), PopServer(c)}
    BY <1>3, <2>2 DEF SentTo
  <2>4. ~Admits(k, c) /\ ~Drops(k, c)
    BY <1>1, <2>3, NotBoth
  <2> QED  BY <2>3, <2>4 DEF Unaware
<1>4. ASSUME NEW m, ForNone(m), SentTo(k, m)
      PROVE  Unaware(k, c)
  <2>1. m \notin {PushServer(c), PopServer(c)}
    BY <1>4, ForNoneIs
  <2>2. ~Admits(k, c) /\ ~Drops(k, c)
    BY <1>1, <1>4, NotBoth DEF SentTo
  <2> QED  BY <1>4, <2>1, <2>2 DEF Unaware, SentTo
<1>5. CASE inbox'[k] = inbox[k]
  <2>1. ~Admits(k, c) /\ ~Drops(k, c)
    BY <1>1, <1>5, NotBoth
  <2> QED  BY <1>5, <2>1 DEF Unaware
<1> QED  BY <1>2, <1>3, <1>4, <1>5, InboxStep

LEMMA VectorLater ==
  ASSUME NEW k, NEW c
  PROVE  VectorInv(k, c)' <=>
           /\ Once(inbox'[k], PushServer(c)) /\ Once(inbox'[k], PopServer(c))
           /\ Precedes(inbox'[k], PushServer(c), PopServer(c))
           /\ Joining(k, c)' =>
                ~Arriving(c)' /\ (task'[c] = "reading" \/ Ending(c)' \/ Popping(k, c)')
           /\ Popping(k, c)' => ~Arriving(c)' /\ task'[c] = "done" /\ ~Ending(c)'
           /\ Serving(c)' => k \in handles'
<1>1. PushServer(c)' = PushServer(c) /\ PopServer(c)' = PopServer(c)
  BY DEF PushServer, PopServer
<1> QED  BY <1>1 DEF VectorInv, Once, Precedes

(* A cluster counts a connection from the message that it joined to the    *)
(* one that it left.                                                       *)
CountedNow(k, c) ==
  /\ Admits(k, c) => ~Counted(k, c)
  /\ Drops(k, c) => Counted(k, c)
  /\ Counted(k, c)' <=> (Counted(k, c) \/ Admits(k, c)) /\ ~Drops(k, c)

LEMMA VectorNext ==
  ASSUME TypeInv, [Step]_vars, phase = "main", phase' = "main", NEW k \in MinigameKind,
         NEW c \in Conn, IsGame(c), KindOf(c) = k, LifeInv(c), VectorInv(k, c)
  PROVE  VectorInv(k, c)' /\ CountedNow(k, c)
<1>1. inbox[k] \in Seq(SeenClusterMsg) /\ task \in [Conn -> {"none", "auth", "reading", "done"}]
  BY DEF TypeInv, MailInv, WorldInv
<1>2. /\ Joining(k, c) <=> Contains(inbox[k], PushServer(c))
      /\ Popping(k, c) <=> Contains(inbox[k], PopServer(c))
      /\ Joining(k, c)' <=> Contains(inbox'[k], PushServer(c))
      /\ Popping(k, c)' <=> Contains(inbox'[k], PopServer(c))
      /\ Serving(c) <=> (task[c] = "reading" \/ Ending(c)) /\ ~Arriving(c)
      /\ Serving(c)' <=> (task'[c] = "reading" \/ Ending(c)') /\ ~Arriving(c)'
      /\ PushServer(c) # PopServer(c)
  BY Later, Messages DEF Joining, Popping, Serving
<1>3. /\ Counted(k, c) <=> /\ ~Arriving(c) /\ ~Joining(k, c)
                           /\ task[c] = "reading" \/ Ending(c) \/ Popping(k, c)
      /\ Counted(k, c)' <=> /\ ~Arriving(c)' /\ ~Joining(k, c)'
                            /\ task'[c] = "reading" \/ Ending(c)' \/ Popping(k, c)'
  <2>1. IsGame(c)' /\ KindOf(c)' = k
    BY GameStays
  <2> QED  BY <2>1 DEF Counted
<1>4. /\ Once(inbox[k], PushServer(c)) /\ Once(inbox[k], PopServer(c))
      /\ Precedes(inbox[k], PushServer(c), PopServer(c))
      /\ Joining(k, c) => ~Arriving(c) /\ (task[c] = "reading" \/ Ending(c) \/ Popping(k, c))
      /\ Popping(k, c) => ~Arriving(c) /\ task[c] = "done" /\ ~Ending(c)
      /\ Serving(c) => k \in handles
  BY DEF VectorInv
<1>5. /\ Arriving(c) => task[c] = "reading" \/ Ending(c)
      /\ Ending(c) => task[c] = "done"
  BY DEF LifeInv
<1>6. k \in handles => k \in handles'
  BY InboxStep
<1>7. ASSUME inbox'[k] = inbox[k] \/ \E m : inbox'[k] = Append(inbox[k], m)
      PROVE  ~Admits(k, c) /\ ~Drops(k, c)
  BY <1>7, NotBoth DEF Admits, Drops
<1>8. CASE Joins(c)
  <2>1. Arriving(c) /\ ~Arriving(c)' /\ task' = task /\ (Ending(c)' <=> Ending(c))
    <3>1. ~Leaves(c)
      BY <1>8, OneMoves
    <3> QED  BY <1>8, <3>1, LifeMoves
  <2>2. k \in handles' /\ inbox'[k] = Append(inbox[k], PushServer(c))
    BY <1>8, JoinsSent DEF SentTo
  <2>3. ~Joining(k, c) /\ ~Popping(k, c)
    BY <1>4, <2>1
  <2>4. Joining(k, c)' /\ ~Popping(k, c)'
    BY <1>1, <1>2, <2>2, <2>3, Sent
  <2>5. Once(inbox'[k], PushServer(c)) /\ Once(inbox'[k], PopServer(c))
    BY <1>1, <1>2, <1>4, <2>2, <2>3, Sent
  <2>6. Precedes(inbox'[k], PushServer(c), PopServer(c))
    BY <1>2, <2>4, Absent
  <2>7. VectorInv(k, c)'
    BY <1>2, <1>5, <2>1, <2>2, <2>4, <2>5, <2>6, VectorLater
  <2> QED  BY <1>3, <1>7, <2>1, <2>2, <2>4, <2>7 DEF CountedNow
<1>9. CASE Leaves(c)
  <2>1. Ending(c) /\ ~Ending(c)' /\ ~Arriving(c) /\ ~Arriving(c)' /\ task' = task
    <3>1. ~Joins(c)
      BY <1>9, OneMoves
    <3> QED  BY <1>9, <3>1, LifeMoves
  <2>2. k \in handles /\ ~Popping(k, c) /\ task[c] = "done"
    BY <1>2, <1>4, <1>5, <2>1
  <2>3. inbox'[k] = Append(inbox[k], PopServer(c))
    BY <1>9, <2>2, LeavesSent DEF SentTo
  <2>4. Popping(k, c)' /\ (Joining(k, c)' <=> Joining(k, c))
    BY <1>1, <1>2, <2>3, Sent
  <2>5. Once(inbox'[k], PushServer(c)) /\ Once(inbox'[k], PopServer(c))
    BY <1>1, <1>2, <1>4, <2>2, <2>3, Sent
  <2>6. Precedes(inbox'[k], PushServer(c), PopServer(c))
    BY <1>1, <1>2, <1>4, <2>3, SentInOrder
  <2>7. VectorInv(k, c)'
    BY <1>2, <1>6, <2>1, <2>2, <2>4, <2>5, <2>6, VectorLater
  <2> QED  BY <1>3, <1>7, <2>1, <2>3, <2>4, <2>7 DEF CountedNow
<1>10. ASSUME ~Joins(c), ~Leaves(c)
       PROVE  VectorInv(k, c)' /\ CountedNow(k, c)
  <2>1. \/ task[c] = "auth" /\ task'[c] = "reading" /\ Arriving(c)' /\ (Ending(c)' <=> Ending(c))
        \/ /\ task[c] = "reading" /\ task'[c] = "done" /\ Ending(c)'
           /\ (Arriving(c)' <=> Arriving(c))
        \/ /\ Arriving(c)' <=> Arriving(c)
           /\ Ending(c)' <=> Ending(c)
           /\ \/ task'[c] = task[c]
              \/ task[c] = "none" /\ task'[c] = "auth"
              \/ task[c] = "auth" /\ task'[c] = "done"
    BY <1>10, LifeMoves
  <2>2. ASSUME inbox[k] # <<>>, inbox'[k] = Tail(inbox[k])
        PROVE  /\ Joining(k, c) <=> Joining(k, c)' \/ Head(inbox[k]) = PushServer(c)
               /\ Popping(k, c) <=> Popping(k, c)' \/ Head(inbox[k]) = PopServer(c)
               /\ Head(inbox[k]) = PushServer(c) => ~Joining(k, c)'
               /\ Head(inbox[k]) = PopServer(c) => ~Popping(k, c)' /\ ~Joining(k, c)
               /\ Once(inbox'[k], PushServer(c)) /\ Once(inbox'[k], PopServer(c))
               /\ Precedes(inbox'[k], PushServer(c), PopServer(c))
    <3> DEFINE in == inbox[k]
    <3>1. in \in Seq(SeenClusterMsg) /\ in # <<>> /\ inbox'[k] = Tail(in)
      BY <1>1, <2>2
    <3>2. /\ Once(in, PushServer(c)) /\ Once(in, PopServer(c))
          /\ Precedes(in, PushServer(c), PopServer(c))
      BY <1>4
    <3> HIDE DEF in
    <3>3. /\ Contains(in, PushServer(c)) <=>
               Contains(inbox'[k], PushServer(c)) \/ PushServer(c) = Head(in)
          /\ Once(inbox'[k], PushServer(c))
          /\ Head(in) = PushServer(c) => ~Contains(inbox'[k], PushServer(c))
      BY <3>1, <3>2, Taken
    <3>4. /\ Contains(in, PopServer(c)) <=>
               Contains(inbox'[k], PopServer(c)) \/ PopServer(c) = Head(in)
          /\ Once(inbox'[k], PopServer(c))
          /\ Head(in) = PopServer(c) => ~Contains(inbox'[k], PopServer(c))
      BY <3>1, <3>2, Taken
    <3>5. /\ Precedes(inbox'[k], PushServer(c), PopServer(c))
          /\ Head(in) = PopServer(c) => ~Contains(in, PushServer(c))
      BY <3>1, <3>2, Taken
    <3> QED  BY <1>2, <3>3, <3>4, <3>5 DEF in
  <2>3. CASE Unaware(k, c)
    <3> DEFINE Quiet == /\ Joining(k, c)' <=> Joining(k, c)
                        /\ Popping(k, c)' <=> Popping(k, c)
                        /\ Once(inbox'[k], PushServer(c)) /\ Once(inbox'[k], PopServer(c))
                        /\ Precedes(inbox'[k], PushServer(c), PopServer(c))
    <3>1. ASSUME inbox'[k] = inbox[k]
          PROVE  Quiet
      BY <1>2, <1>4, <3>1
    <3>2. ASSUME inbox[k] # <<>>, inbox'[k] = Tail(inbox[k]),
                 Head(inbox[k]) \notin {PushServer(c), PopServer(c)}
          PROVE  Quiet
      BY <2>2, <3>2
    <3>3. ASSUME NEW m, inbox'[k] = Append(inbox[k], m), m \notin {PushServer(c), PopServer(c)}
          PROVE  Quiet
      <4>1. /\ Joining(k, c)' <=> Joining(k, c)
            /\ Popping(k, c)' <=> Popping(k, c)
            /\ Once(inbox'[k], PushServer(c)) /\ Once(inbox'[k], PopServer(c))
        BY <1>1, <1>2, <1>4, <3>3, Sent
      <4>2. Precedes(inbox'[k], PushServer(c), PopServer(c))
        BY <1>1, <1>2, <1>4, <3>3, SentInOrder
      <4> QED  BY <4>1, <4>2
    <3>4. Quiet
      <4> HIDE DEF Quiet
      <4> QED  BY <2>3, <3>1, <3>2, <3>3 DEF Unaware
    <3>5. VectorInv(k, c)'
      BY <1>2, <1>4, <1>5, <1>6, <2>1, <3>4, VectorLater
    <3>6. Counted(k, c)' <=> Counted(k, c)
      BY <1>3, <1>4, <1>5, <2>1, <3>4
    <3> QED  BY <2>3, <3>5, <3>6 DEF Unaware, CountedNow
  <2>4. ASSUME ClusterReceives(k)
        PROVE  /\ inbox[k] # <<>> /\ inbox'[k] = Tail(inbox[k])
               /\ task' = task /\ (Arriving(c)' <=> Arriving(c)) /\ (Ending(c)' <=> Ending(c))
    BY <1>6, <2>4, ReceiveStep, Later DEF Arriving, Ending
  <2>5. CASE Admits(k, c)
    <3>0. ClusterReceives(k) /\ Head(inbox[k]) = PushServer(c)
      BY <2>5 DEF Admits
    <3>1. /\ inbox[k] # <<>> /\ inbox'[k] = Tail(inbox[k]) /\ Head(inbox[k]) = PushServer(c)
          /\ task' = task /\ (Arriving(c)' <=> Arriving(c)) /\ (Ending(c)' <=> Ending(c))
          /\ ~Drops(k, c)
      BY <1>2, <2>4, <3>0 DEF Drops
    <3>2. /\ Joining(k, c) /\ ~Joining(k, c)' /\ (Popping(k, c)' <=> Popping(k, c))
          /\ Once(inbox'[k], PushServer(c)) /\ Once(inbox'[k], PopServer(c))
          /\ Precedes(inbox'[k], PushServer(c), PopServer(c))
      BY <1>2, <2>2, <3>1
    <3>3. VectorInv(k, c)'
      BY <1>2, <1>4, <1>6, <3>1, <3>2, VectorLater
    <3> QED  BY <1>3, <1>4, <2>5, <3>1, <3>2, <3>3 DEF CountedNow
  <2>6. CASE Drops(k, c)
    <3>0. ClusterReceives(k) /\ Head(inbox[k]) = PopServer(c)
      BY <2>6 DEF Drops
    <3>1. /\ inbox[k] # <<>> /\ inbox'[k] = Tail(inbox[k]) /\ Head(inbox[k]) = PopServer(c)
          /\ task' = task /\ (Arriving(c)' <=> Arriving(c)) /\ (Ending(c)' <=> Ending(c))
          /\ ~Admits(k, c)
      BY <1>2, <2>4, <3>0 DEF Admits
    <3>2. /\ Popping(k, c) /\ ~Popping(k, c)' /\ ~Joining(k, c) /\ ~Joining(k, c)'
          /\ Once(inbox'[k], PushServer(c)) /\ Once(inbox'[k], PopServer(c))
          /\ Precedes(inbox'[k], PushServer(c), PopServer(c))
      BY <1>2, <2>2, <3>1
    <3>3. VectorInv(k, c)'
      BY <1>2, <1>4, <1>6, <3>1, <3>2, VectorLater
    <3> QED  BY <1>3, <1>4, <2>6, <3>1, <3>2, <3>3 DEF CountedNow
  <2> QED  BY <1>10, <2>3, <2>5, <2>6, VectorStep
<1> QED  BY <1>8, <1>9, <1>10

-----------------------------------------------------------------------------
(* What the cluster counts.                                                *)
LEMMA MessagesWait ==
  ASSUME TypeInv, NEW k \in MinigameKind, NEW c \in Conn
  PROVE  /\ Admits(k, c) => Joining(k, c)
         /\ Drops(k, c) => Popping(k, c)
<1>1. inbox[k] \in Seq(SeenClusterMsg) /\ (ClusterReceives(k) => inbox[k] # <<>>)
  BY ReceiveStep DEF TypeInv, MailInv
<1>2. inbox[k] # <<>> => Contains(inbox[k], Head(inbox[k]))
  BY <1>1, TailContains
<1> QED  BY <1>1, <1>2 DEF Admits, Drops, Joining, Popping

LEMMA CountedNext ==
  ASSUME TypeInv, [Step]_vars, phase = "main", phase' = "main", GamesInv,
         NEW k \in MinigameKind, ClusterInv(k), NEW c \in Conn
  PROVE  /\ IsGame(c)' /\ KindOf(c)' = k => VectorInv(k, c)'
         /\ CountedNow(k, c)
         /\ Counted(k, c) \/ Admits(k, c) \/ Drops(k, c) => IsGame(c)
<1>1. OfKind(k, c) /\ (IsGame(c) => LifeInv(c))
  BY DEF ClusterInv, GamesInv
<1>2. CASE IsGame(c) /\ KindOf(c) = k
  BY <1>1, <1>2, VectorNext DEF ClusterInv
<1>3. CASE ~(IsGame(c) /\ KindOf(c) = k)
  <2>1. ~Admits(k, c) /\ ~Drops(k, c) /\ ~Counted(k, c)
    BY <1>1, <1>3, MessagesWait DEF OfKind, Counted
  <2>2. CASE ~(IsGame(c)' /\ KindOf(c)' = k)
    <3>1. ~Counted(k, c)'
      BY <2>2 DEF Counted
    <3> QED  BY <2>1, <2>2, <3>1 DEF CountedNow
  <2>3. CASE IsGame(c)' /\ KindOf(c)' = k
    <3>1. ~IsGame(c) /\ SpawnContainer /\ task[c] = "none" /\ task'[c] = "none"
      BY <1>3, <2>3, GameStays
    <3>2. receiver \in Seq(SeenMsg) /\ receiver # <<>> /\ receiver' = Tail(receiver)
      BY <3>1, HandleEffect DEF SpawnContainer, TypeInv, MailInv
    <3>3. ~Arriving(c)' /\ ~Ending(c)'
      <4>1. ~Arriving(c) /\ ~Ending(c)
        BY <3>1, Unheard
      <4> QED  BY <3>2, <4>1, Taken, Later DEF Arriving, Ending
    <3>4. ~Joining(k, c)' /\ ~Popping(k, c)'
      BY <2>3, <3>1, StrangerStaysOut
    <3>5. ~Contains(inbox'[k], PushServer(c)) /\ ~Contains(inbox'[k], PopServer(c))
      BY <3>4, Later
    <3>6. ~Serving(c)'
      BY <3>1, <3>3, Later
    <3>7. VectorInv(k, c)'
      BY <3>4, <3>5, <3>6, Absent, VectorLater
    <3>8. ~Counted(k, c)'
      BY <3>1, <3>3, <3>4 DEF Counted
    <3> QED  BY <2>1, <3>7, <3>8 DEF CountedNow
  <2> QED  BY <2>2, <2>3
<1> QED  BY <1>2, <1>3

(* The places of a name in the vector, by what holds it now.               *)
Bearers(n) == {c \in Seen : NameOf(c) = n}

LEMMA BearersNow ==
  ASSUME TypeInv, NEW k \in MinigameKind, NEW n
  PROVE  members[k] \in Seq(Seen) /\ Named(k, n) = Where(members[k], Bearers(n))
<1>1. members[k] \in Seq(Seen)
  BY DEF TypeInv, MailInv
<1>2. \A i \in DOMAIN members[k] : members[k][i] \in Seen
  BY <1>1
<1> QED  BY <1>1, <1>2 DEF Named, Where, Bearers

LEMMA BearersNext ==
  ASSUME TypeInv, [Step]_vars, NEW k \in MinigameKind, NEW n, members'[k] \in Seq(Seen)
  PROVE  Named(k, n)' = Where(members'[k], Bearers(n))
<1>1. Named(k, n)' = {i \in DOMAIN members'[k] : ident'[members'[k][i][1]].name = n}
  BY DEF Named, NameOf
<1>2. ASSUME NEW i \in DOMAIN members'[k]
      PROVE  ident'[members'[k][i][1]].name = n <=> members'[k][i] \in Bearers(n)
  <2>1. PICK c \in Seen : c = members'[k][i]
    BY <1>2
  <2>2. ident'[c[1]].name = NameOf(c)
    BY ClosedStays DEF NameOf
  <2> QED  BY <2>1, <2>2 DEF Bearers
<1> QED  BY <1>1, <1>2 DEF Where

(* What a step does to the connections that are counted under a name.      *)
LEMMA CountsNext ==
  ASSUME TypeInv, [Step]_vars, phase = "main", phase' = "main", GamesInv,
         NEW k \in MinigameKind, ClusterInv(k), NEW n
  PROVE  /\ (\A c \in Conn : ~Admits(k, c) /\ ~Drops(k, c)) => Counts(k, n)' = Counts(k, n)
         /\ \A d \in Conn : Admits(k, d) =>
              /\ d \notin Counts(k, n)
              /\ Counts(k, n)' = IF NameOf(d) = n THEN Counts(k, n) \cup {d} ELSE Counts(k, n)
         /\ \A d \in Conn : Drops(k, d) =>
              /\ d \in Counts(k, NameOf(d))
              /\ Counts(k, n)' = IF NameOf(d) = n THEN Counts(k, n) \ {d} ELSE Counts(k, n)
<1>1. \A c \in Conn : CountedNow(k, c)
  BY CountedNext
<1>2. \A c \in Conn : Counted(k, c) \/ Admits(k, c) \/ Drops(k, c) => NameOf(c)' = NameOf(c)
  BY CountedNext, GameStays
<1>3. /\ Counts(k, n) = {c \in Conn : Counted(k, c) /\ NameOf(c) = n}
      /\ Counts(k, n)' = {c \in Conn : Counted(k, c)' /\ NameOf(c)' = n}
  BY DEF Counts
<1>4. ASSUME NEW c \in Conn, NEW d \in Conn
      PROVE  /\ Admits(k, d) => ~Drops(k, c) /\ (Admits(k, c) => c = d)
             /\ Drops(k, d) => ~Admits(k, c) /\ (Drops(k, c) => c = d)
  BY Messages DEF Admits, Drops
<1>5. ASSUME \A c \in Conn : ~Admits(k, c) /\ ~Drops(k, c)
      PROVE  Counts(k, n)' = Counts(k, n)
  <2>1. ASSUME NEW c \in Conn
        PROVE  Counted(k, c)' /\ NameOf(c)' = n <=> Counted(k, c) /\ NameOf(c) = n
    BY <1>1, <1>2, <1>5 DEF CountedNow
  <2> QED  BY <1>3, <2>1
<1>6. ASSUME NEW d \in Conn, Admits(k, d)
      PROVE  /\ d \notin Counts(k, n)
             /\ Counts(k, n)' = IF NameOf(d) = n THEN Counts(k, n) \cup {d} ELSE Counts(k, n)
  <2>1. ~Counted(k, d) /\ Counted(k, d)' /\ NameOf(d)' = NameOf(d)
    BY <1>1, <1>2, <1>4, <1>6 DEF CountedNow
  <2>2. ASSUME NEW c \in Conn, c # d
        PROVE  Counted(k, c)' /\ NameOf(c)' = n <=> Counted(k, c) /\ NameOf(c) = n
    BY <1>1, <1>2, <1>4, <1>6, <2>2 DEF CountedNow
  <2> QED  BY <1>3, <2>1, <2>2
<1>7. ASSUME NEW d \in Conn, Drops(k, d)
      PROVE  /\ d \in Counts(k, NameOf(d))
             /\ Counts(k, n)' = IF NameOf(d) = n THEN Counts(k, n) \ {d} ELSE Counts(k, n)
  <2>1. Counted(k, d) /\ ~Counted(k, d)'
    BY <1>1, <1>7 DEF CountedNow
  <2>2. ASSUME NEW c \in Conn, c # d
        PROVE  Counted(k, c)' /\ NameOf(c)' = n <=> Counted(k, c) /\ NameOf(c) = n
    BY <1>1, <1>2, <1>4, <1>7, <2>2 DEF CountedNow
  <2>3. d \in Counts(k, NameOf(d))
    BY <2>1 DEF Counts
  <2> QED  BY <1>3, <2>1, <2>2, <2>3
<1> QED  BY <1>5, <1>6, <1>7

LEMMA CountNext ==
  ASSUME TypeInv, [Step]_vars, phase = "main", phase' = "main", GamesInv,
         NEW k \in MinigameKind, ClusterInv(k)
  PROVE  CountInv(k)'
<1> SUFFICES ASSUME NEW n
             PROVE  /\ IsFiniteSet(Counts(k, n)')
                    /\ Cardinality(Counts(k, n)') = Cardinality(Named(k, n)')
  BY DEF CountInv
<1> DEFINE T == Bearers(n)
<1>1. /\ IsFiniteSet(Counts(k, n)) /\ Cardinality(Counts(k, n)) \in Nat
      /\ Cardinality(Counts(k, n)) = Cardinality(Where(members[k], T))
  <2>1. IsFiniteSet(Counts(k, n)) /\ Cardinality(Counts(k, n)) = Cardinality(Named(k, n))
    BY DEF ClusterInv, CountInv
  <2> QED  BY <2>1, BearersNow, FS_CardinalityType
<1>2. members[k] \in Seq(Seen)
  BY DEF TypeInv, MailInv
<1>3. members'[k] \in Seq(Seen) => Named(k, n)' = Where(members'[k], T)
  BY BearersNext
<1> HIDE DEF T
<1>4. ASSUME members'[k] = members[k], \A c \in Conn : ~Admits(k, c) /\ ~Drops(k, c)
      PROVE  /\ IsFiniteSet(Counts(k, n)')
             /\ Cardinality(Counts(k, n)') = Cardinality(Named(k, n)')
  BY <1>1, <1>2, <1>3, <1>4, CountsNext
<1>5. ASSUME NEW d \in Conn, Admits(k, d), members'[k] = Append(members[k], d)
      PROVE  /\ IsFiniteSet(Counts(k, n)')
             /\ Cardinality(Counts(k, n)') = Cardinality(Named(k, n)')
  <2>1. d \in Seen /\ (d \in T <=> NameOf(d) = n)
    BY <1>5, MessagesWait, OnlySeen DEF Seen, T, Bearers
  <2>2. members'[k] \in Seq(Seen)
    BY <1>2, <1>5, <2>1, AppendProperties
  <2>3. Cardinality(Named(k, n)') =
          Cardinality(Counts(k, n)) + (IF NameOf(d) = n THEN 1 ELSE 0)
    BY <1>1, <1>2, <1>3, <1>5, <2>1, <2>2, WhereAppend
  <2>4. /\ d \notin Counts(k, n)
        /\ Counts(k, n)' = IF NameOf(d) = n THEN Counts(k, n) \cup {d} ELSE Counts(k, n)
    BY <1>5, CountsNext
  <2>5. /\ IsFiniteSet(Counts(k, n) \cup {d})
        /\ Cardinality(Counts(k, n) \cup {d}) = Cardinality(Counts(k, n)) + 1
    BY <1>1, <2>4, FS_AddElement
  <2>6. CASE NameOf(d) = n
    BY <2>3, <2>4, <2>5, <2>6
  <2>7. CASE NameOf(d) # n
    BY <1>1, <2>3, <2>4, <2>7
  <2> QED  BY <2>6, <2>7
<1>6. ASSUME NEW d \in Conn, Drops(k, d),
             \/ SameName(k, d) = {} /\ members' = members
             \/ \E i \in SameName(k, d) : members'[k] = RemoveAt(members[k], i)
      PROVE  /\ IsFiniteSet(Counts(k, n)')
             /\ Cardinality(Counts(k, n)') = Cardinality(Named(k, n)')
  <2>1. /\ d \in Counts(k, NameOf(d))
        /\ Counts(k, n)' = IF NameOf(d) = n THEN Counts(k, n) \ {d} ELSE Counts(k, n)
    BY <1>6, CountsNext
  <2>2. SameName(k, d) # {}
    <3>1. SameName(k, d) = Named(k, NameOf(d))
      BY DEF SameName, Named
    <3>2. /\ IsFiniteSet(Counts(k, NameOf(d)))
          /\ Cardinality(Counts(k, NameOf(d))) = Cardinality(Named(k, NameOf(d)))
      BY DEF ClusterInv, CountInv
    <3>3. Cardinality(Counts(k, NameOf(d))) # 0
      BY <2>1, <3>2, FS_EmptySet
    <3> QED  BY <3>1, <3>2, <3>3, FS_EmptySet
  <2>3. PICK i \in SameName(k, d) : members'[k] = RemoveAt(members[k], i)
    BY <1>6, <2>2
  <2>4. /\ i \in DOMAIN members[k] /\ NameOf(members[k][i]) = NameOf(d)
        /\ members[k][i] \in Seen
    BY <1>2, <2>3 DEF SameName
  <2>5. members[k][i] \in T <=> NameOf(d) = n
    BY <2>4 DEF T, Bearers
  <2>6. members'[k] \in Seq(Seen)
    BY <1>2, <2>3, <2>4, RemoveAtType
  <2>7. Cardinality(Named(k, n)') =
          Cardinality(Counts(k, n)) - (IF NameOf(d) = n THEN 1 ELSE 0)
    BY <1>1, <1>2, <1>3, <2>3, <2>4, <2>5, <2>6, WhereRemoved
  <2>8. NameOf(d) = n =>
          /\ IsFiniteSet(Counts(k, n) \ {d})
          /\ Cardinality(Counts(k, n) \ {d}) = Cardinality(Counts(k, n)) - 1
    BY <1>1, <2>1, FS_RemoveElement
  <2>9. CASE NameOf(d) = n
    BY <2>1, <2>7, <2>8, <2>9
  <2>10. CASE NameOf(d) # n
    BY <1>1, <2>1, <2>7, <2>10
  <2> QED  BY <2>9, <2>10
<1>7. CASE ClusterReceives(k)
  <2>1. CASE /\ ForNone(Head(inbox[k])) /\ members' = members
             /\ \A c : ~Admits(k, c) /\ ~Drops(k, c)
    BY <1>4, <2>1
  <2> QED  BY <1>5, <1>6, <1>7, <2>1, ReceiveStep
<1>8. CASE ~ClusterReceives(k)
  <2>1. members'[k] = members[k]
    BY <1>8, InboxStep DEF SentTo
  <2> QED  BY <1>4, <1>8, <2>1 DEF Admits, Drops
<1> QED  BY <1>7, <1>8
-----------------------------------------------------------------------------
(* Until the main loop the clusters have heard of nobody.                  *)
LEMMA NoMembers ==
  ASSUME TypeInv, BootInv, phase \in {"boot", "resend"}, [Step]_vars
  PROVE  members' = members
<1>1. phase # "main" /\ \A k \in MinigameKind : ~ClusterReceives(k)
  BY DEF BootInv, ClusterReceives
<1> QED  BY <1>1, ClusterEffect

LEMMA LobbyNext ==
  ASSUME TypeInv, LobbyInv, [Step]_vars
  PROVE  LobbyInv'
<1>1. ASSUME NEW c \in Seen, KindOf(c) = "Lobby"
      PROVE  KindOf(c)' = "Lobby"
  BY <1>1, ClosedStays
<1>2. lobby_server' = lobby_server \/ ServerJoins
  BY DEF vars, Step, HangsUp, Next, Tasks, BrainStep, Buffer, ProxyJoins, Resend, EnterMainLoop,
         SecondProxyJoins, ServerLeaves, Dispatch, ClusterForward, SpawnContainer, Transport,
         ClusterStep, ClusterReceives, ClusterAnswers, ClusterAsksForServer, DispatchTask,
         ClientStep, Register, ReadEnds, ReadRequest, ReadUpdateActive, Connect, SeesEnd, Breaks,
         Stops, Disconnected, ProxyReads, controller, brain, owned
<1>3. CASE lobby_server' = lobby_server
  BY <1>1, <1>3 DEF LobbyInv, TypeInv, BrainInv, KindOf
<1>4. CASE ServerJoins
  <2>1. PICK c : c = msg.conn
    OBVIOUS
  <2>2. c \in Seen
    BY <1>4, <2>1, HandleEffect, SeenMsgFields DEF ServerJoins
  <2>3. lobby_server' = IF KindOf(c) = "Lobby" THEN c ELSE lobby_server
    BY <1>4, <2>1 DEF ServerJoins
  <2>4. CASE KindOf(c) = "Lobby"
    BY <1>1, <2>2, <2>3, <2>4 DEF LobbyInv, KindOf
  <2>5. CASE KindOf(c) # "Lobby"
    BY <1>1, <2>3, <2>5 DEF LobbyInv, TypeInv, BrainInv, KindOf
  <2> QED  BY <2>4, <2>5
<1> QED  BY <1>2, <1>3, <1>4

(* A task ends while its connection is open only if its server said        *)
(* UpdateActive and is no minigame's.                                      *)
ClosedInv ==
  \A c \in Ended : end[c] = "open" => c[1] \in closes /\ KindOf(c) \notin MinigameKind

LEMMA ClosedNext ==
  ASSUME TypeInv, OpenInv, ClosedInv, [Step]_vars
  PROVE  ClosedInv'
<1> SUFFICES ASSUME NEW c \in Conn, task'[c] = "done", end'[c] = "open"
             PROVE  c[1] \in closes' /\ KindOf(c)' \notin MinigameKind
  BY DEF ClosedInv, Ended, KindOf
<1>1. task \in [Conn -> {"none", "auth", "reading", "done"}]
  BY DEF TypeInv, WorldInv
<1>2. closes \subseteq closes'
  BY DEF vars, Step, HangsUp, Next, Tasks, BrainStep, Buffer, ProxyJoins, Resend, EnterMainLoop,
         SecondProxyJoins, ServerJoins, ServerLeaves, Dispatch, ClusterForward, SpawnContainer,
         Transport, ClusterStep, ClusterReceives, ClusterAnswers, ClusterAsksForServer,
         DispatchTask, ClientStep, Register, ReadEnds, ReadRequest, ReadUpdateActive, Connect,
         SeesEnd, Breaks, Stops, Disconnected, ProxyReads, outside, elsewhere
<1>3. CASE task[c] = "done"
  <2>1. c \in Seen /\ c \in Ended
    BY <1>3 DEF Seen, Ended
  <2>2. end[c] = "open"
    BY <2>1, ClosedStays DEF OpenInv, TypeInv, WorldInv
  <2> QED  BY <1>2, <2>1, <2>2, ClosedStays DEF ClosedInv
<1>4. CASE task[c] # "done"
  <2>1. c \in Seen
    BY <1>4, EndsAreSeen
  <2>2. ASSUME NEW d \in Conn, Register(d) \/ ReadEnds(d) \/ ReadUpdateActive(d)
        PROVE  c[1] \in closes' /\ KindOf(c) \notin MinigameKind
    <3>1. end' = end /\ d = c
      BY <1>1, <1>4, <2>2 DEF Register, ReadEnds, ReadUpdateActive, EndOfConnection, world
    <3> QED
      BY <1>1, <1>4, <2>2, <3>1 DEF Register, ReadEnds, ReadUpdateActive, EndOfConnection
  <2>3. ASSUME NEW s \in Server, Connect(s)
        PROVE  FALSE
    <3>1. task' = [task EXCEPT ![<<s, attempts[s] + 1>>] = "auth"]
      BY <2>3 DEF Connect
    <3> QED  BY <1>1, <1>4, <3>1
  <2>4. task' # task
    BY <1>4
  <2>5. c[1] \in closes' /\ KindOf(c) \notin MinigameKind
    BY <2>2, <2>3, <2>4
    DEF vars, Step, HangsUp, Next, Tasks, BrainStep, Buffer, ProxyJoins, Resend, EnterMainLoop,
        SecondProxyJoins, ServerJoins, ServerLeaves, Dispatch, ClusterForward, SpawnContainer,
        Transport, ClusterStep, ClusterReceives, ClusterAnswers, ClusterAsksForServer,
        DispatchTask, ClientStep, ReadRequest, SeesEnd, Breaks, Stops, Disconnected, ProxyReads,
        outside, elsewhere
  <2> QED  BY <2>1, <2>5, ClosedStays
<1> QED  BY <1>3, <1>4

-----------------------------------------------------------------------------
(* The clusters agree with the connections.                                *)
LEMMA OfKindNext ==
  ASSUME TypeInv, [Step]_vars, phase = "main", phase' = "main",
         NEW k \in MinigameKind, ClusterInv(k), NEW c \in Conn
  PROVE  OfKind(k, c)'
<1>1. CASE IsGame(c) /\ KindOf(c) = k
  BY <1>1, GameStays DEF OfKind
<1>2. CASE ~(IsGame(c) /\ KindOf(c) = k)
  <2>1. inbox[k] \in Seq(SeenClusterMsg) /\ members[k] \in Seq(Conn)
    <3>1. members[k] \in Seq(Seen)
      BY DEF TypeInv, MailInv
    <3> QED  BY <3>1, SeqSubset DEF Seen, TypeInv, MailInv
  <2>2. ~Joining(k, c) /\ ~Member(k, c) /\ ~Popping(k, c)
    BY <1>2 DEF ClusterInv, OfKind
  <2> SUFFICES /\ ~Contains(inbox'[k], PushServer(c)) /\ ~Contains(inbox'[k], PopServer(c))
               /\ ~Contains(members'[k], c)
    BY Later DEF OfKind
  <2>3. ASSUME NEW m, SentTo(k, m), m \notin {PushServer(c), PopServer(c)}
        PROVE  /\ ~Contains(inbox'[k], PushServer(c)) /\ ~Contains(inbox'[k], PopServer(c))
               /\ ~Contains(members'[k], c)
    BY <2>1, <2>2, <2>3, Sent DEF SentTo, Joining, Member, Popping
  <2>4. CASE ClusterReceives(k)
    <3>1. inbox[k] # <<>> /\ inbox'[k] = Tail(inbox[k])
      BY <2>4, ReceiveStep
    <3>2. ~Contains(inbox'[k], PushServer(c)) /\ ~Contains(inbox'[k], PopServer(c))
      BY <2>1, <2>2, <3>1, Taken DEF Joining, Popping
    <3>3. ASSUME NEW d \in Conn, Joining(k, d), members'[k] = Append(members[k], d)
          PROVE  ~Contains(members'[k], c)
      <4>1. d # c
        BY <2>2, <3>3
      <4> QED  BY <2>1, <2>2, <3>3, <4>1, AppendContains DEF Member
    <3>4. ASSUME NEW i \in DOMAIN members[k], members'[k] = RemoveAt(members[k], i)
          PROVE  ~Contains(members'[k], c)
      <4>1. /\ DOMAIN members[k] = 1 .. Len(members[k]) /\ Len(members[k]) \in Nat
            /\ DOMAIN members'[k] = 1 .. Len(members[k]) - 1
            /\ \A j \in 1 .. i - 1 : members'[k][j] = members[k][j]
            /\ \A j \in i .. Len(members[k]) - 1 : members'[k][j] = members[k][j + 1]
        BY <2>1, <3>4, RemoveAtElements, LenProperties
      <4>2. ASSUME NEW j \in DOMAIN members'[k]
            PROVE  \E h \in DOMAIN members[k] : members'[k][j] = members[k][h]
        <5>1. CASE j < i
          BY <4>1, <4>2, <5>1
        <5>2. CASE j >= i
          <6>1. j + 1 \in DOMAIN members[k] /\ members'[k][j] = members[k][j + 1]
            BY <4>1, <4>2, <5>2
          <6> QED  BY <6>1
        <5> QED  BY <3>4, <4>1, <4>2, <5>1, <5>2
      <4> QED  BY <2>2, <4>2 DEF Member, Contains
    <3>5. members'[k] = members[k] => ~Contains(members'[k], c)
      BY <2>2 DEF Member
    <3>6. \A d : SameName(k, d) \subseteq DOMAIN members[k]
      BY DEF SameName
    <3> QED  BY <2>4, <3>2, <3>3, <3>4, <3>5, <3>6, ReceiveStep
  <2>5. ASSUME NEW d \in Conn, Joins(d) \/ Leaves(d), KindOf(d) = k
        PROVE  d # c
    BY <1>2, <2>5, MoverIsGame
  <2>6. ASSUME NEW d \in Conn, Joins(d), KindOf(d) = k, SentTo(k, PushServer(d))
        PROVE  PushServer(d) \notin {PushServer(c), PopServer(c)}
    BY <2>5, <2>6, Messages
  <2>7. ASSUME NEW d \in Conn, Leaves(d), KindOf(d) = k, SentTo(k, PopServer(d))
        PROVE  PopServer(d) \notin {PushServer(c), PopServer(c)}
    BY <2>5, <2>7, Messages
  <2>8. CASE inbox'[k] = inbox[k] /\ members'[k] = members[k]
    BY <2>2, <2>8 DEF Joining, Member, Popping
  <2> QED  BY <2>3, <2>4, <2>6, <2>7, <2>8, ForNoneIs, InboxStep
<1> QED  BY <1>1, <1>2

(* When the main loop begins, no game server has connected.                *)
LEMMA VectorsBegin ==
  ASSUME TypeInv, WaitInv, BootInv, [Step]_vars, phase # "main", phase' = "main",
         NEW k \in MinigameKind, members[k] = <<>>
  PROVE  ClusterInv(k)'
<1>1. phase = "resend" /\ UNCHANGED <<ident, task, receiver, inbox, members>>
  BY MainBegins
<1>2. inbox'[k] = <<>> /\ members'[k] = <<>>
  BY <1>1 DEF BootInv
<1>3. DOMAIN inbox'[k] = {} /\ DOMAIN members'[k] = {}
  BY <1>2
<1>4. \A c : ~Joining(k, c)' /\ ~Member(k, c)' /\ ~Popping(k, c)'
  BY <1>3, Later DEF Contains
<1>5. ASSUME NEW c \in Conn, IsGame(c)'
      PROVE  ~Arriving(c)' /\ ~Ending(c)' /\ task'[c] = "none"
  <2>1. IsGame(c)
    BY <1>1, <1>5 DEF IsGame, KindOf
  <2>2. ~Arriving(c) /\ ~Ending(c) /\ task[c] = "none"
    BY <1>1, <2>1, GamesWait, Unheard
  <2> QED  BY <1>1, <2>2, Later DEF Arriving, Ending
<1>6. ASSUME NEW c \in Conn, IsGame(c)'
      PROVE  VectorInv(k, c)' /\ ~Counted(k, c)'
  <2>1. ~Contains(inbox'[k], PushServer(c)) /\ ~Contains(inbox'[k], PopServer(c))
    BY <1>4, Later
  <2>2. ~Serving(c)' /\ ~Counted(k, c)'
    BY <1>4, <1>5, <1>6, Later DEF Counted
  <2> QED  BY <1>4, <2>1, <2>2, Absent, VectorLater
<1>7. CountInv(k)'
  <2>1. \A n : Counts(k, n)' = {}
    BY <1>6 DEF Counts, Counted
  <2>2. \A n : Named(k, n)' = {}
    BY <1>3 DEF Named
  <2> QED  BY <2>1, <2>2, FS_EmptySet DEF CountInv
<1> QED  BY <1>4, <1>6, <1>7 DEF ClusterInv, OfKind

LEMMA VectorsNext ==
  ASSUME TypeInv, WaitInv, BootInv, GamesInv, VectorsInv, [Step]_vars
  PROVE  VectorsInv'
<1>1. ASSUME phase' \in {"boot", "resend"}, NEW k \in MinigameKind
      PROVE  members'[k] = <<>>
  <2>1. phase \in {"boot", "resend"}
    BY <1>1, PhaseEffect, DeadStaysDead DEF TypeInv, BrainInv
  <2> QED  BY <1>1, <2>1, NoMembers DEF VectorsInv
<1>2. ASSUME phase' = "main", NEW k \in MinigameKind
      PROVE  ClusterInv(k)'
  <2>1. CASE phase = "main"
    <3>1. ClusterInv(k)
      BY <2>1 DEF VectorsInv
    <3>2. \A c \in Conn : OfKind(k, c)'
      BY <1>2, <2>1, <3>1, OfKindNext
    <3>3. \A c \in Conn : IsGame(c)' /\ KindOf(c)' = k => VectorInv(k, c)'
      BY <1>2, <2>1, <3>1, CountedNext
    <3>4. CountInv(k)'
      BY <1>2, <2>1, <3>1, CountNext
    <3> QED  BY <3>2, <3>3, <3>4 DEF ClusterInv
  <2>2. CASE phase # "main"
    <3>1. members[k] = <<>>
      BY <1>2, <2>2, MainBegins DEF VectorsInv
    <3> QED  BY <1>2, <2>2, <3>1, VectorsBegin
  <2> QED  BY <2>1, <2>2
<1> QED  BY <1>1, <1>2 DEF VectorsInv

(* Once things settle a cluster counts what is connected, and holds it.    *)
TableInv ==
  /\ TypeInv /\ OpenInv /\ WaitInv /\ BootInv
  /\ ClosedInv /\ GamesInv /\ LobbyInv /\ VectorsInv

LEMMA SettledCounts ==
  ASSUME TableInv, Settled, NEW k \in MinigameKind, NEW c \in Conn
  PROVE  /\ Counted(k, c) <=> /\ c[1] \in Connected /\ Current(c[1]) = c /\ KindOf(c) = k
         /\ Counted(k, c) => Member(k, c)
<1>1. /\ TypeInv /\ OpenInv /\ LobbyInv /\ GamesInv /\ ClusterInv(k)
      /\ phase = "main" /\ receiver = <<>> /\ inbox[k] = <<>> /\ buffer = <<>>
  BY DEF TableInv, VectorsInv, Settled, BootInv
<1>2. ~Arriving(c) /\ ~Ending(c) /\ ~Joining(k, c) /\ ~Popping(k, c)
  BY <1>1, EmptyChannel DEF Arriving, Ending, Joining, Popping
<1>3. k # "Proxy" /\ k # "Lobby"
  BY Kinds
<1>4. ASSUME Counted(k, c)
      PROVE  c[1] \in Connected /\ Current(c[1]) = c /\ KindOf(c) = k
  <2>1. task[c] = "reading" /\ IsGame(c) /\ KindOf(c) = k
    BY <1>2, <1>4 DEF Counted
  <2>2. end[c] = "open" /\ c[2] = attempts[c[1]] /\ c[1] \in Server
    BY <1>1, <2>1, ConnFields DEF OpenInv, Seen, Settled, TypeInv, WorldInv
  <2>3. Current(c[1]) = c /\ attempts[c[1]] > 0
    BY <2>2, ConnFields DEF Current
  <2> QED  BY <1>3, <2>1, <2>2, <2>3 DEF Connected, Open, KindOf
<1>5. ASSUME c[1] \in Connected, Current(c[1]) = c, KindOf(c) = k
      PROVE  Counted(k, c) /\ Member(k, c)
  <2>1. c \in Seen /\ IsGame(c) /\ Held(c) /\ end[c] = "open"
    BY <1>1, <1>3, <1>5, OpenSeen DEF Connected, Settled, Open, IsGame, TypeInv, WorldInv
  <2>2. task[c] = "reading"
    <3>1. task[c] # "done"
      BY <1>5, <2>1 DEF TableInv, ClosedInv, Ended
    <3> QED  BY <1>1, <2>1, <3>1 DEF Settled, Seen, TypeInv, WorldInv
  <2>3. task[c] # "auth" /\ ~On(receiver, NewConn(c)) /\ ~On(buffer, NewConn(c))
    BY <1>1 DEF Settled, On
  <2>4. c # proxy_server /\ c # lobby_server
    <3>1. KindOf(proxy_server) = "Proxy"
      BY <1>1 DEF TypeInv, BrainInv
    <3>2. lobby_server = None \/ KindOf(lobby_server) = "Lobby"
      BY <1>1 DEF LobbyInv
    <3>3. c # None
      BY <1>1, <1>5, <2>1, ConnNotNone
    <3> QED  BY <1>3, <1>5, <3>1, <3>2, <3>3
  <2>5. PICK l \in MinigameKind : On(inbox[l], PushServer(c)) \/ On(members[l], c)
    BY <2>1, <2>3, <2>4 DEF Held
  <2>6. Member(l, c)
    BY <2>5 DEF Settled, On, Member, Contains
  <2>7. KindOf(c) = l
    BY <1>1, <2>6 DEF TableInv, VectorsInv, ClusterInv, OfKind
  <2> QED  BY <1>2, <1>5, <2>1, <2>2, <2>6, <2>7 DEF Counted
<1> QED  BY <1>4, <1>5

(* So of each name it holds just these, and each once.                     *)
LEMMA SettledNames ==
  ASSUME TableInv, Settled, NEW k \in MinigameKind, NEW n
  PROVE  /\ {members[k][i] : i \in Named(k, n)} = Counts(k, n)
         /\ \A i, j \in Named(k, n) : members[k][i] = members[k][j] => i = j
<1> DEFINE D == Named(k, n)
           R == {members[k][i] : i \in D}
           f == [i \in D |-> members[k][i]]
<1>1. /\ TypeInv /\ ClusterInv(k) /\ members[k] \in Seq(Seen)
      /\ IsFiniteSet(Counts(k, n)) /\ Cardinality(Counts(k, n)) = Cardinality(D)
  BY DEF TableInv, VectorsInv, Settled, ClusterInv, CountInv, TypeInv, MailInv
<1>2. IsFiniteSet(D)
  BY <1>1, WhereFinite, BearersNow
<1>3. Counts(k, n) \subseteq R
  <2> SUFFICES ASSUME NEW c \in Conn, Counted(k, c), NameOf(c) = n
               PROVE  \E i \in D : members[k][i] = c
    BY DEF Counts
  <2>1. Member(k, c)
    BY SettledCounts
  <2>2. PICK i \in DOMAIN members[k] : members[k][i] = c
    BY <2>1 DEF Member, Contains
  <2> QED  BY <2>2 DEF Named
<1>4. f \in Surjection(D, R)
  <2> HIDE DEF D
  <2> QED  BY DEF Surjection
<1>5. /\ IsFiniteSet(R) /\ Cardinality(R) <= Cardinality(D)
      /\ Cardinality(R) = Cardinality(D) <=> f \in Injection(D, R)
  <2> HIDE DEF D, R, f
  <2> QED  BY <1>2, <1>4, FS_Surjection
<1>6. Cardinality(R) = Cardinality(Counts(k, n))
  <2> HIDE DEF D, R, f
  <2>1. Cardinality(Counts(k, n)) <= Cardinality(R)
    BY <1>3, <1>5, FS_Subset
  <2>2. Cardinality(Counts(k, n)) \in Nat /\ Cardinality(R) \in Nat
    BY <1>1, <1>5, FS_CardinalityType
  <2> QED  BY <1>1, <1>5, <2>1, <2>2
<1>7. R = Counts(k, n)
  <2> HIDE DEF D, R, f
  <2> QED  BY <1>3, <1>5, <1>6, FS_Subset
<1>8. f \in Injection(D, R)
  <2> HIDE DEF D, R, f
  <2> QED  BY <1>1, <1>5, <1>6
<1>9. \A i, j \in D : f[i] = f[j] => i = j
  <2> HIDE DEF D, R, f
  <2> QED  BY <1>8 DEF Injection, IsInjective
<1> QED  BY <1>7, <1>9

LEMMA SettledAgree == TableInv => ClustersAgree
<1> SUFFICES ASSUME TableInv, Settled, NEW k \in MinigameKind
             PROVE  /\ {members[k][i] : i \in DOMAIN members[k]} =
                         {Current(s) : s \in {t \in Connected : ident[t].kind = k}}
                    /\ \A i, j \in DOMAIN members[k] : members[k][i] = members[k][j] => i = j
  BY DEF ClustersAgree
<1>1. members[k] \in Seq(Seen) /\ TypeInv
  BY DEF TableInv, TypeInv, MailInv
<1>2. ASSUME NEW i \in DOMAIN members[k]
      PROVE  \E s \in Connected : ident[s].kind = k /\ members[k][i] = Current(s)
  <2>1. i \in Named(k, NameOf(members[k][i]))
    BY DEF Named
  <2>2. members[k][i] \in Conn /\ Counted(k, members[k][i])
    BY <2>1, SettledNames DEF Counts
  <2> QED  BY <2>2, SettledCounts DEF KindOf
<1>3. ASSUME NEW s \in Connected, ident[s].kind = k
      PROVE  \E i \in DOMAIN members[k] : members[k][i] = Current(s)
  <2>1. Current(s) \in Conn /\ Current(s)[1] = s
    BY <1>1, OpenSeen DEF Connected, Current, Seen, TypeInv
  <2>2. Member(k, Current(s))
    BY <1>3, <2>1, SettledCounts DEF KindOf
  <2> QED  BY <2>2 DEF Member, Contains
<1>4. ASSUME NEW i \in DOMAIN members[k], NEW j \in DOMAIN members[k],
             members[k][i] = members[k][j]
      PROVE  i = j
  <2>1. i \in Named(k, NameOf(members[k][i])) /\ j \in Named(k, NameOf(members[k][i]))
    BY <1>4 DEF Named
  <2> QED  BY <1>4, <2>1, SettledNames
<1> QED  BY <1>2, <1>3, <1>4

LEMMA TableInit ==
  ASSUME NoEarlyServers, Init
  PROVE  TableInv
<1>1. OpenInv /\ WaitInv /\ BootInv
  BY DeadInit, ConserveInit DEF DeadInv, ConserveInv
<1> QED
  BY <1>1, TypeInit
  DEF TableInv, Init, ClosedInv, Ended, GamesInv, LobbyInv, VectorsInv

LEMMA TableNext ==
  ASSUME NoEarlyServers, TableInv, [Step]_vars
  PROVE  TableInv'
BY TypeNext, OpenNext, WaitNext, BootNext, ClosedNext, GamesNext, LobbyNext, VectorsNext
DEF TableInv

(* The vector of a cluster is the connected servers of its kind, each      *)
(* once, whenever things settle (ClustersAgree): it takes servers out by   *)
(* their names, and they may come back and share names as they like, but   *)
(* for each that leaves one of its name is taken out, and one whose        *)
(* connection is in the vector cannot settle without it.                   *)
THEOREM ClustersAlwaysAgree ==
  ASSUME NoEarlyServers
  PROVE  Spec => []ClustersAgree
<1>1. Init => TableInv
  BY TableInit
<1>2. TableInv /\ [Step]_vars => TableInv'
  BY TableNext
<1> QED  BY <1>1, <1>2, SettledAgree, NextIsStep, PTL DEF Spec

-----------------------------------------------------------------------------
(* The connected servers are linked, as long as names take turns: a server *)
(* that connects again is read only when its old connection was read to    *)
(* the end, and no two that are read have one name.                        *)
NamesTakeTurns ==
  \A c, d \in Conn :
    /\ IsGame(c) /\ IsGame(d) /\ NameOf(c) = NameOf(d)
    /\ task[c] = "reading" /\ task[d] = "reading"
    => c = d

OnlyMinigamesClose == \A s \in closes : ident[s].kind \in MinigameKind

(* The end of an old connection reaches the brain before the new one, and  *)
(* when that was taken off the channel its name is routed to.              *)
TurnInv ==
  phase = "main" =>
    \A c \in Conn : IsGame(c) /\ task[c] = "reading" =>
      /\ ~Arriving(c) => Routed(NameOf(c))
      /\ \A d \in Conn \ {c} : IsGame(d) /\ NameOf(d) = NameOf(c) /\ Ending(d) =>
           Arriving(c) /\ Precedes(receiver, UnlinkMsg(d), NewConn(c))

LEMMA LeaverEnds ==
  ASSUME TypeInv, ServerLeaves, phase' = "main"
  PROVE  \E d \in Conn : d = msg.conn /\ IsGame(d) /\ Ending(d) /\ task[d] = "done"
<1>1. msg \in SeenMsg /\ msg.type = "Unlink" /\ receiver # <<>>
  BY HandleEffect DEF ServerLeaves
<1>2. PICK d \in Ended : d = msg.conn /\ msg = UnlinkMsg(d)
  BY <1>1, SeenMsgFields
<1>3. Contains(receiver, UnlinkMsg(d))
  BY <1>1, <1>2, TailContains DEF msg, TypeInv, MailInv
<1>4. KindOf(d) # "Proxy"
  BY <1>2 DEF ServerLeaves, ProxyLeaves, Panic
<1> QED  BY <1>2, <1>3, <1>4 DEF Ending, IsGame, Ended, Seen, TypeInv, WorldInv

LEMMA TurnRoutes ==
  ASSUME TypeInv, [Step]_vars, phase = "main", phase' = "main", GamesInv, TurnInv,
         NEW c \in Conn, IsGame(c), task'[c] = "reading", ~Arriving(c)'
  PROVE  Routed(NameOf(c))'
<1>1. PICK n : n = NameOf(c)
  OBVIOUS
<1>2. NameOf(c)' = n /\ LifeInv(c)
  BY <1>1, GameStays DEF GamesInv
<1>3. Routed(n)'
  <2>1. CASE Joins(c)
    BY <1>1, <2>1, RoutedNext DEF Joins, NewConn
  <2>2. CASE ~Joins(c)
    <3>1. task[c] = "reading" /\ ~Arriving(c)
      BY <1>2, <2>2, LifeMoves DEF LifeInv
    <3>2. Routed(n)
      BY <1>1, <3>1 DEF TurnInv
    <3>3. ~(ServerLeaves /\ n = NameOf(msg.conn))
      BY <1>1, <3>1, LeaverEnds DEF TurnInv
    <3> QED  BY <3>2, <3>3, RoutedNext
  <2> QED  BY <2>1, <2>2
<1> QED  BY <1>2, <1>3 DEF Routed, LinkServer, UnlinkServer, Behind

LEMMA TurnOrders ==
  ASSUME TypeInv, [Step]_vars, phase = "main", phase' = "main", GamesInv, TurnInv, NamesTakeTurns,
         NEW c \in Conn, NEW d \in Conn, c # d, IsGame(c), IsGame(d), NameOf(c) = NameOf(d),
         task'[c] = "reading", Ending(d)'
  PROVE  Arriving(c)' /\ Precedes(receiver', UnlinkMsg(d), NewConn(c))
<1>1. /\ receiver \in Seq(SeenMsg) /\ task \in [Conn -> {"none", "auth", "reading", "done"}]
      /\ LifeInv(c) /\ LifeInv(d) /\ KindOf(c) # "Proxy" /\ KindOf(d) # "Proxy"
      /\ UnlinkMsg(d) # NewConn(c)
  BY Messages DEF TypeInv, MailInv, WorldInv, GamesInv, IsGame
<1>2. CASE task[c] # "reading"
  <2>1. Registers(c)
    BY <1>1, <1>2, LifeStep, HandleEffect
    DEF Joins, Leaves, ServerJoins, ServerLeaves, Ends, Waits, elsewhere, outside
  <2>2. receiver' = Append(receiver, NewConn(c)) /\ ~Contains(receiver, NewConn(c))
    BY <1>1, <2>1 DEF Registers, Send, LifeInv, Arriving
  <2>3. Precedes(receiver', UnlinkMsg(d), NewConn(c))
    BY <1>1, <2>2, Absent, SentInOrder
  <2> QED  BY <1>1, <2>2, <2>3, Sent, Later
<1>3. CASE task[c] = "reading"
  <2>1. Ending(d)
    <3>1. task[d] # "reading"
      BY <1>3 DEF NamesTakeTurns
    <3> QED  BY <1>1, <3>1, LifeMoves
  <2>2. Arriving(c) /\ Precedes(receiver, UnlinkMsg(d), NewConn(c)) /\ task[d] = "done"
    BY <1>1, <1>3, <2>1 DEF TurnInv, LifeInv
  <2>3. ~Joins(c)
    <3> SUFFICES ASSUME Joins(c) PROVE FALSE
      OBVIOUS
    <3>1. receiver # <<>> /\ NewConn(c) = Head(receiver)
      BY HandleEffect DEF Joins, ServerJoins, msg
    <3> QED  BY <1>1, <2>1, <2>2, <3>1, TailPrecedes DEF Ending
  <2>4. Arriving(c)'
    BY <1>1, <1>3, <2>2, <2>3, LifeMoves DEF LifeInv
  <2>5. CASE receiver' = receiver
    BY <2>2, <2>4, <2>5
  <2>6. CASE receiver # <<>> /\ receiver' = Tail(receiver)
    BY <1>1, <2>2, <2>4, <2>6, TailPrecedes
  <2>7. ASSUME NEW m, Send(m), m # UnlinkMsg(d)
        PROVE  Precedes(receiver', UnlinkMsg(d), NewConn(c))
    BY <1>1, <2>2, <2>7, SentInOrder DEF Send
  <2>8. CASE Joins(d) \/ Leaves(d)
    BY <2>6, <2>8, HandleEffect DEF Joins, Leaves, ServerJoins, ServerLeaves
  <2>9. CASE Waits(d)
    BY <2>4, <2>5, <2>6, <2>7, <2>9 DEF Waits
  <2> QED  BY <1>1, <2>2, <2>8, <2>9, LifeStep DEF Registers, Ends
<1> QED  BY <1>2, <1>3

LEMMA TurnNext ==
  ASSUME TypeInv, WaitInv, GamesInv, TurnInv, NamesTakeTurns, [Step]_vars
  PROVE  TurnInv'
<1> SUFFICES ASSUME phase' = "main", NEW c \in Conn, IsGame(c)', task'[c] = "reading"
             PROVE  /\ ~Arriving(c)' => Routed(NameOf(c))'
                    /\ \A d \in Conn \ {c} :
                         IsGame(d)' /\ NameOf(d)' = NameOf(c)' /\ Ending(d)' =>
                           Arriving(c)' /\ Precedes(receiver', UnlinkMsg(d), NewConn(c))
  <2>1. \A d : UnlinkMsg(d)' = UnlinkMsg(d) /\ NewConn(d)' = NewConn(d)
    BY DEF UnlinkMsg, NewConn
  <2> QED  BY <2>1 DEF TurnInv, Precedes
<1>1. phase = "main"
  <2> SUFFICES ASSUME phase # "main" PROVE FALSE
    OBVIOUS
  <2>1. phase = "resend" /\ UNCHANGED <<ident, task>>
    BY MainBegins
  <2>2. IsGame(c)
    BY <2>1 DEF IsGame, KindOf
  <2> QED  BY <2>1, <2>2, GamesWait
<1>2. IsGame(c)
  <2> SUFFICES ASSUME ~IsGame(c) PROVE FALSE
    OBVIOUS
  <2>1. task[c] = "none" /\ task' = task
    BY GameStays
  <2> QED  BY <2>1
<1>3. ~Arriving(c)' => Routed(NameOf(c))'
  BY <1>1, <1>2, TurnRoutes
<1>4. ASSUME NEW d \in Conn, d # c, IsGame(d)', NameOf(d)' = NameOf(c)', Ending(d)'
      PROVE  Arriving(c)' /\ Precedes(receiver', UnlinkMsg(d), NewConn(c))
  <2>1. IsGame(d)
    <3> SUFFICES ASSUME ~IsGame(d) PROVE FALSE
      OBVIOUS
    <3>1. SpawnContainer /\ task[d] = "none"
      BY <1>4, GameStays
    <3>2. receiver \in Seq(SeenMsg) /\ receiver # <<>> /\ receiver' = Tail(receiver)
      BY <3>1, HandleEffect DEF SpawnContainer, TypeInv, MailInv
    <3>3. ~Ending(d)
      BY <3>1, Unheard
    <3> QED  BY <1>4, <3>2, <3>3, Taken, Later DEF Ending
  <2>2. NameOf(c) = NameOf(d)
    BY <1>2, <1>4, <2>1, GameStays
  <2> QED  BY <1>1, <1>2, <1>4, <2>1, <2>2, TurnOrders
<1> QED  BY <1>3, <1>4

LEMMA SettledLinked ==
  ASSUME TypeInv, OpenInv, ClosedInv, TurnInv, OnlyMinigamesClose
  PROVE  LiveServersLinked
<1> SUFFICES ASSUME Settled, NEW s \in Connected
             PROVE  ident[s].name \in linked
  BY DEF LiveServersLinked
<1> DEFINE c == Current(s)
<1>1. receiver = <<>> /\ to_proxy = <<>> /\ phase = "main"
  BY DEF Settled
<1>2. s \in Server /\ c \in Seen /\ c \in Conn /\ c[1] = s /\ end[c] = "open" /\ Open(s)
  BY OpenSeen DEF Connected, Current, Open, Seen, TypeInv
<1>3. IsGame(c)
  BY <1>2 DEF Connected, IsGame, KindOf, TypeInv, WorldInv
<1>4. task[c] = "reading"
  <2>1. task[c] # "done"
    BY <1>2 DEF ClosedInv, Ended, OnlyMinigamesClose, KindOf
  <2> QED  BY <1>2, <2>1 DEF Settled, Seen, TypeInv, WorldInv
<1>5. ~Arriving(c)
  BY <1>1 DEF Arriving, Contains
<1>6. Routed(NameOf(c))
  BY <1>1, <1>2, <1>3, <1>4, <1>5 DEF TurnInv
<1> QED  BY <1>1, <1>2, <1>6 DEF Routed, NameOf

(* "it is safe to assume that the unreachable server is dead"              *)
(* (controller/src/transport.rs:80): every connected server is one the     *)
(* proxy routes to once things settle (LiveServersLinked), in every        *)
(* behaviour in which names take turns and as long as nobody ran /close on *)
(* a server that is no minigame's.  Servers may come back; what it takes   *)
(* is that the end of the old connection is seen before the new one.       *)
THEOREM LiveServersAreLinked ==
  ASSUME NoEarlyServers
  PROVE  Spec /\ []NamesTakeTurns => [](OnlyMinigamesClose => LiveServersLinked)
<1> DEFINE Inv == TypeInv /\ OpenInv /\ WaitInv /\ ClosedInv /\ GamesInv /\ TurnInv
<1>1. Init => Inv
  BY TypeInit, DeadInit DEF DeadInv, Init, ClosedInv, Ended, GamesInv, TurnInv
<1>2. Inv /\ NamesTakeTurns /\ [Step]_vars => Inv'
  BY TypeNext, OpenNext, WaitNext, ClosedNext, GamesNext, TurnNext
<1>3. Inv => (OnlyMinigamesClose => LiveServersLinked)
  BY SettledLinked
<1> HIDE DEF Inv
<1> QED  BY <1>1, <1>2, <1>3, NextIsStep, PTL DEF Spec

-----------------------------------------------------------------------------
(* Names of containers.  Who there is, and who made which connection.      *)
WhoInv ==
  /\ \A s \in DOMAIN Preset : ident[s] = Preset[s]
  /\ \A s \in Server \ DOMAIN Preset :
       ident[s] # None =>
         ident[s].kind \in MinigameKind \cup {"Lobby"} /\ ident[s].name[1] = ident[s].kind

StartInv == phase \in {"boot", "resend"} => \A s \in Server \ DOMAIN Preset : ident[s] = None

MadeInv == \A c \in Conn : c[2] <= attempts[c[1]] => c \in Seen

(* There is at most one lobby that was started.                            *)
IsLobby(s) == s \notin DOMAIN Preset /\ ident[s] # None /\ ident[s].kind = "Lobby"
LobbyMsg   == SpawnMsg("Lobby")
OneLobby ==
  /\ Once(receiver, LobbyMsg) /\ Once(buffer, LobbyMsg)
  /\ ~(Contains(receiver, LobbyMsg) /\ Contains(buffer, LobbyMsg))
  /\ \A s \in Server : IsLobby(s) =>
       /\ ~Contains(receiver, LobbyMsg) /\ ~Contains(buffer, LobbyMsg)
       /\ \A t \in Server : IsLobby(t) => t = s

(* A container of a name lays claim to it with its first connection, and   *)
(* as long as nobody of that name went astray, alone: its name is used     *)
(* until the end of that connection was handled.                           *)
IsContainer(c) == IsGame(c) /\ c[1] \notin DOMAIN Preset
FirstOnly(n) ==
  \A s \in Server :
    ident[s] # None /\ ident[s].name = n => attempts[s] <= (IF s \in DOMAIN Preset THEN 0 ELSE 1)
Claimant(c, n) == IsContainer(c) /\ c[2] = 1 /\ NameOf(c) = n /\ Claims(c)

NamesInv ==
  phase = "main" =>
    /\ \A c \in Conn : IsContainer(c) => LifeInv(c)
    /\ \A n : FirstOnly(n) =>
         /\ \A c \in Conn : Claimant(c, n) => n \in used_names
         /\ \A c, d \in Conn : Claimant(c, n) /\ Claimant(d, n) => c = d

LEMMA StartNext ==
  ASSUME TypeInv, StartInv, [Step]_vars
  PROVE  StartInv'
<1> SUFFICES ASSUME phase' \in {"boot", "resend"}, NEW s \in Server \ DOMAIN Preset
             PROVE  ident'[s] = None
  BY DEF StartInv
<1>1. phase \in {"boot", "resend"}
  BY PhaseEffect, DeadStaysDead DEF TypeInv, BrainInv
<1>2. ~SpawnContainer
  BY <1>1, HandleEffect DEF SpawnContainer
<1> QED  BY <1>1, <1>2, IdentEffect DEF StartInv

LEMMA AttemptsGrow ==
  ASSUME TypeInv, [Step]_vars, NEW s \in Server
  PROVE  \/ attempts'[s] = attempts[s]
         \/ /\ attempts'[s] = attempts[s] + 1
            /\ \A c \in Conn : c[1] = s /\ c[2] = attempts[s] + 1 => task'[c] # "none"
<1>1. CASE attempts' = attempts
  BY <1>1
<1>2. ASSUME NEW t \in Server, Connect(t)
      PROVE  \/ attempts'[s] = attempts[s]
             \/ /\ attempts'[s] = attempts[s] + 1
                /\ \A c \in Conn : c[1] = s /\ c[2] = attempts[s] + 1 => task'[c] # "none"
  <2>1. /\ attempts' = [attempts EXCEPT ![t] = @ + 1]
        /\ task' = [task EXCEPT ![<<t, attempts[t] + 1>>] = "auth"]
    BY <1>2 DEF Connect
  <2>2. CASE s # t
    BY <2>1, <2>2 DEF TypeInv, WorldInv
  <2>3. CASE s = t
    <3>1. ASSUME NEW c \in Conn, c[1] = s, c[2] = attempts[s] + 1
          PROVE  task'[c] # "none"
      <4>1. c = <<t, attempts[t] + 1>>
        BY <2>3, <3>1, ConnFields
      <4> QED  BY <2>1, <4>1 DEF TypeInv, WorldInv
    <3> QED  BY <2>1, <2>3, <3>1 DEF TypeInv, WorldInv
  <2> QED  BY <2>2, <2>3
<1> QED
  BY <1>1, <1>2
  DEF vars, Step, HangsUp, Next, Tasks, BrainStep, Buffer, ProxyJoins, Resend, EnterMainLoop,
      SecondProxyJoins, ServerJoins, ServerLeaves, Dispatch, ClusterForward, SpawnContainer,
      Transport, ClusterStep, ClusterReceives, ClusterAnswers, ClusterAsksForServer,
      DispatchTask, ClientStep, Register, ReadEnds, ReadRequest, ReadUpdateActive, SeesEnd,
      Breaks, Stops, Disconnected, ProxyReads, world, outside, elsewhere

LEMMA MadeNext ==
  ASSUME TypeInv, MadeInv, [Step]_vars
  PROVE  MadeInv'
<1> SUFFICES ASSUME NEW c \in Conn, c[2] <= attempts'[c[1]]
             PROVE  task'[c] # "none"
  BY DEF MadeInv, Seen
<1>1. /\ c[1] \in Server /\ c[2] \in Int /\ attempts[c[1]] \in Nat
      /\ c[2] <= attempts[c[1]] => task[c] # "none"
  BY ConnFields DEF MadeInv, Seen, TypeInv, WorldInv
<1>2. CASE c[2] <= attempts[c[1]]
  BY <1>1, <1>2, TasksGrow
<1>3. CASE ~(c[2] <= attempts[c[1]])
  BY <1>1, <1>3, AttemptsGrow
<1> QED  BY <1>2, <1>3

(* A claim is given up once and for all.                                   *)
LEMMA ClaimStays ==
  ASSUME TypeInv, [Step]_vars, phase = "main", phase' = "main",
         NEW c \in Conn, IsGame(c), LifeInv(c), Claims(c)'
  PROVE  Claims(c) /\ ~Leaves(c)
<1>1. receiver \in Seq(SeenMsg) /\ task \in [Conn -> {"none", "auth", "reading", "done"}]
  BY DEF TypeInv, MailInv, WorldInv
<1>2. /\ Ending(c) <=> Contains(receiver, UnlinkMsg(c))
      /\ Ending(c)' <=> Contains(receiver', UnlinkMsg(c))
      /\ Claims(c) <=> task[c] # "done" \/ Ending(c)
      /\ Claims(c)' <=> task'[c] # "done" \/ Ending(c)'
  BY Later DEF Ending, Claims
<1>3. Once(receiver, UnlinkMsg(c)) /\ (Ending(c) => task[c] = "done")
  BY DEF LifeInv
<1>4. ~Leaves(c)
  <2> SUFFICES ASSUME Leaves(c) PROVE FALSE
    OBVIOUS
  <2>1. msg = UnlinkMsg(c) /\ receiver # <<>> /\ receiver' = Tail(receiver) /\ task' = task
    BY HandleEffect DEF Leaves, ServerLeaves, elsewhere, outside
  <2>2. Ending(c) /\ ~Ending(c)'
    BY <1>1, <1>2, <1>3, <2>1, Taken DEF msg
  <2> QED  BY <1>2, <1>3, <2>1, <2>2
<1>5. Claims(c)
  <2> SUFFICES ASSUME task[c] = "done", ~Ending(c) PROVE FALSE
    BY <1>2
  <2>1. task'[c] = "done"
    BY TasksGrow
  <2>2. ASSUME NEW m, Send(m), m # UnlinkMsg(c)
        PROVE  ~Ending(c)'
    BY <1>1, <1>2, <2>2, Sent DEF Send
  <2>3. ASSUME receiver # <<>>, receiver' = Tail(receiver)
        PROVE  ~Ending(c)'
    BY <1>1, <1>2, <2>3, Taken
  <2>4. CASE Joins(c)
    BY <1>2, <2>1, <2>3, <2>4, HandleEffect DEF Joins, ServerJoins
  <2>5. CASE Registers(c) \/ Ends(c)
    BY <2>5 DEF Registers, Ends
  <2>6. CASE Waits(c)
    BY <1>2, <2>1, <2>2, <2>3, <2>6 DEF Waits
  <2> QED  BY <1>4, <2>4, <2>5, <2>6, LifeStep DEF IsGame
<1> QED  BY <1>4, <1>5

LEMMA WhoNext ==
  ASSUME TypeInv, WhoInv, [Step]_vars
  PROVE  WhoInv'
<1>1. CASE ident' = ident
  BY <1>1 DEF WhoInv
<1>2. CASE SpawnContainer /\ ident' # ident
  <2>1. PICK n : n = NextFreeName(msg.kind)
    OBVIOUS
  <2>2. phase' = "main"
    BY <1>2, HandleEffect DEF SpawnContainer, GoOn
  <2>3. /\ msg.kind \in MinigameKind \cup {"Lobby"} /\ n[1] = msg.kind
        /\ \E s \in Server : /\ ident[s] = None
                             /\ ident' = [ident EXCEPT ![s] = [kind |-> msg.kind, name |-> n]]
                             /\ ident'[s] = [kind |-> msg.kind, name |-> n]
    BY <1>2, <2>1, <2>2, SpawnEffect
  <2>4. PICK s \in Server : /\ ident[s] = None
                            /\ ident' = [ident EXCEPT ![s] = [kind |-> msg.kind, name |-> n]]
                            /\ ident'[s] = [kind |-> msg.kind, name |-> n]
    BY <2>3
  <2>5. \A t \in Server : t # s => ident'[t] = ident[t]
    BY <2>4 DEF TypeInv, WorldInv
  <2>6. s \notin DOMAIN Preset
    BY <2>4, BrainAssumption DEF WhoInv
  <2>7. ident'[s].kind = msg.kind /\ ident'[s].name = n
    BY <2>4
  <2> QED  BY <2>3, <2>5, <2>6, <2>7, BrainAssumption DEF WhoInv
<1> QED  BY <1>1, <1>2, IdentEffect

(* A lobby is asked for once, by main().                                   *)
LEMMA LobbyStep ==
  ASSUME TypeInv, [Step]_vars
  PROVE  \/ receiver' = receiver /\ buffer' = buffer
         \/ Resend \/ Buffer
         \/ receiver # <<>> /\ receiver' = Tail(receiver) /\ buffer' = buffer
         \/ \E m : Send(m) /\ m # LobbyMsg /\ buffer' = buffer
<1>1. /\ \A c : NewConn(c) # LobbyMsg /\ UnlinkMsg(c) # LobbyMsg
      /\ \A r : DispatchMsg(r) # LobbyMsg
      /\ \A r, n : TransportMsg(r, n) # LobbyMsg
      /\ \A k : ForwardMsg(k) # LobbyMsg
      /\ \A k \in MinigameKind : SpawnMsg(k) # LobbyMsg
  BY Kinds DEF NewConn, UnlinkMsg, DispatchMsg, TransportMsg, ForwardMsg, SpawnMsg, LobbyMsg
<1>2. CASE UNCHANGED <<receiver, buffer>> \/ Resend \/ Buffer
  BY <1>2
<1>3. CASE \/ ProxyJoins \/ SecondProxyJoins \/ ServerJoins \/ ServerLeaves
           \/ Dispatch \/ ClusterForward \/ SpawnContainer \/ Transport
  BY <1>3
  DEF ProxyJoins, SecondProxyJoins, ServerJoins, ServerLeaves, Dispatch, ClusterForward,
      SpawnContainer, Transport, Handle, Received, brain
<1>4. CASE DispatchTask
  BY <1>1, <1>4 DEF DispatchTask, brain
<1>5. ASSUME NEW k \in MinigameKind, ClusterAsksForServer(k)
      PROVE  \E m : Send(m) /\ m # LobbyMsg /\ buffer' = buffer
  BY <1>1, <1>5 DEF ClusterAsksForServer, brain
<1>6. ASSUME NEW c \in Conn,
             ClientStep(c) \/ ReadUpdateActive(c) \/ \E r \in Request : ReadRequest(c, r)
      PROVE  \/ receiver' = receiver /\ buffer' = buffer
             \/ \E m : Send(m) /\ m # LobbyMsg /\ buffer' = buffer
  BY <1>1, <1>6
  DEF ClientStep, Register, ReadEnds, ReadUpdateActive, ReadRequest, EndOfConnection, controller,
      brain
<1> QED
  BY <1>2, <1>3, <1>4, <1>5, <1>6
  DEF vars, Step, HangsUp, Next, Tasks, BrainStep, EnterMainLoop, ClusterStep, ClusterReceives,
      ClusterAnswers, Connect, SeesEnd, Breaks, Stops, Disconnected, ProxyReads, controller, brain

LEMMA OneLobbyNext ==
  ASSUME TypeInv, OneLobby, [Step]_vars
  PROVE  OneLobby'
<1> DEFINE e == LobbyMsg
<1>1. receiver \in Seq(SeenMsg) /\ buffer \in Seq(SeenMsg)
  BY DEF TypeInv, MailInv
<1>2. /\ Once(receiver, e) /\ Once(buffer, e) /\ ~(Contains(receiver, e) /\ Contains(buffer, e))
      /\ \A s \in Server : IsLobby(s) =>
           /\ ~Contains(receiver, e) /\ ~Contains(buffer, e)
           /\ \A t \in Server : IsLobby(t) => t = s
  BY DEF OneLobby
<1>3. OneLobby' <=>
      /\ Once(receiver', e) /\ Once(buffer', e) /\ ~(Contains(receiver', e) /\ Contains(buffer', e))
      /\ \A s \in Server : IsLobby(s)' =>
           /\ ~Contains(receiver', e) /\ ~Contains(buffer', e)
           /\ \A t \in Server : IsLobby(t)' => t = s
  BY DEF OneLobby, LobbyMsg, SpawnMsg, Once, Contains
<1> HIDE DEF e
<1>4. CASE ident' = ident
  <2>1. \A s : IsLobby(s)' <=> IsLobby(s)
    BY <1>4 DEF IsLobby
  <2>2. ASSUME NEW m, Send(m), m # e, buffer' = buffer
        PROVE  OneLobby'
    <3>1. Contains(receiver', e) => Contains(receiver, e)
      BY <1>1, <2>2, Sent DEF Send
    <3>2. Once(receiver', e)
      BY <1>1, <1>2, <2>2, Sent DEF Send
    <3> QED  BY <1>2, <1>3, <2>1, <2>2, <3>1, <3>2
  <2>3. CASE receiver # <<>> /\ receiver' = Tail(receiver) /\ buffer' = buffer
    <3>1. Contains(receiver', e) => Contains(receiver, e)
      BY <1>1, <2>3, Taken
    <3>2. Once(receiver', e)
      BY <1>1, <1>2, <2>3, Taken
    <3> QED  BY <1>2, <1>3, <2>1, <2>3, <3>1, <3>2
  <2>4. CASE Buffer
    <3>1. receiver # <<>> /\ receiver' = Tail(receiver) /\ buffer' = Append(buffer, Head(receiver))
      BY <2>4 DEF Buffer, PutAside, msg
    <3>2. /\ Contains(receiver, e) <=> Contains(receiver', e) \/ e = Head(receiver)
          /\ Once(receiver', e)
          /\ e = Head(receiver) => ~Contains(receiver', e)
      BY <1>1, <1>2, <3>1, Taken
    <3>3. /\ Contains(buffer', e) <=> Contains(buffer, e) \/ e = Head(receiver)
          /\ e # Head(receiver) \/ ~Contains(buffer, e) => Once(buffer', e)
      BY <1>1, <1>2, <3>1, Sent
    <3> QED  BY <1>2, <1>3, <2>1, <3>2, <3>3
  <2>5. CASE Resend
    <3>1. buffer # <<>> /\ buffer' = Tail(buffer) /\ receiver' = Append(receiver, Head(buffer))
      BY <2>5 DEF Resend, Send
    <3>2. /\ Contains(buffer, e) <=> Contains(buffer', e) \/ e = Head(buffer)
          /\ Once(buffer', e)
          /\ e = Head(buffer) => ~Contains(buffer', e)
      BY <1>1, <1>2, <3>1, Taken
    <3>3. /\ Contains(receiver', e) <=> Contains(receiver, e) \/ e = Head(buffer)
          /\ e # Head(buffer) \/ ~Contains(receiver, e) => Once(receiver', e)
      BY <1>1, <1>2, <3>1, Sent
    <3> QED  BY <1>2, <1>3, <2>1, <3>2, <3>3
  <2> QED  BY <1>2, <1>3, <2>1, <2>2, <2>3, <2>4, <2>5, LobbyStep DEF e
<1>5. CASE SpawnContainer /\ ident' # ident
  <2>1. phase' = "main" /\ msg \in SeenMsg /\ msg.type = "Spawn"
        /\ receiver # <<>> /\ receiver' = Tail(receiver) /\ buffer' = buffer
    BY <1>5, HandleEffect DEF SpawnContainer, GoOn
  <2>2. PICK n : n = NextFreeName(msg.kind)
    OBVIOUS
  <2>3. PICK s \in Server : /\ ident[s] = None
                            /\ ident' = [ident EXCEPT ![s] = [kind |-> msg.kind, name |-> n]]
                            /\ ident'[s] = [kind |-> msg.kind, name |-> n]
    BY <1>5, <2>1, <2>2, SpawnEffect
  <2>4. \A t \in Server : t # s => ident'[t] = ident[t]
    BY <2>3 DEF TypeInv, WorldInv
  <2>5. \A t \in Server : IsLobby(t)' => IsLobby(t) \/ (t = s /\ msg.kind = "Lobby")
    BY <2>3, <2>4 DEF IsLobby
  <2>6. msg.kind = "Lobby" => msg = e
    BY <2>1 DEF SeenMsg, NewConn, UnlinkMsg, DispatchMsg, ForwardMsg, SpawnMsg, LobbyMsg, e
  <2>7. /\ Contains(receiver, e) <=> Contains(receiver', e) \/ e = msg
        /\ Once(receiver', e)
        /\ e = msg => ~Contains(receiver', e)
    BY <1>1, <1>2, <2>1, Taken DEF msg
  <2> QED  BY <1>2, <1>3, <2>1, <2>5, <2>6, <2>7
<1> QED  BY <1>4, <1>5, IdentEffect

LEMMA FirstWas ==
  ASSUME TypeInv, [Step]_vars, NEW n, FirstOnly(n)'
  PROVE  FirstOnly(n)
<1> SUFFICES ASSUME NEW s \in Server, ident[s] # None, ident[s].name = n
             PROVE  attempts[s] <= (IF s \in DOMAIN Preset THEN 0 ELSE 1)
  BY DEF FirstOnly
<1>1. ident'[s] = ident[s]
  <2>1. CASE SpawnContainer
    BY <2>1 DEF SpawnContainer, ToStart, TypeInv, WorldInv
  <2> QED  BY <2>1, IdentEffect
<1>2. attempts'[s] <= (IF s \in DOMAIN Preset THEN 0 ELSE 1)
  BY <1>1 DEF FirstOnly
<1>3. attempts[s] \in Nat
  BY DEF TypeInv, WorldInv
<1> QED  BY <1>2, <1>3, AttemptsGrow

(* Whoever leaves under the name is its claimant.                          *)
LEMMA LeaverClaims ==
  ASSUME TypeInv, ServerLeaves, phase' = "main", NEW n, FirstOnly(n), n = NameOf(msg.conn)
  PROVE  \E d \in Conn : d = msg.conn /\ msg = UnlinkMsg(d) /\ Claimant(d, n)
<1>1. PICK d \in Conn : d = msg.conn /\ IsGame(d) /\ Ending(d) /\ task[d] = "done"
  BY LeaverEnds
<1>2. msg = UnlinkMsg(d)
  BY <1>1, HandleEffect, SeenMsgFields DEF ServerLeaves
<1>3. d[1] \in Server /\ d[2] \in Nat /\ d[2] >= 1 /\ d[2] <= attempts[d[1]]
  BY <1>1, ConnFields DEF Seen, TypeInv, WorldInv
<1>4. attempts[d[1]] <= (IF d[1] \in DOMAIN Preset THEN 0 ELSE 1) /\ attempts[d[1]] \in Nat
  BY <1>1, <1>3 DEF FirstOnly, IsGame, NameOf, TypeInv, WorldInv
<1>5. d[1] \notin DOMAIN Preset /\ d[2] = 1
  BY <1>3, <1>4
<1> QED  BY <1>1, <1>2, <1>5 DEF Claimant, IsContainer, Claims

LEMMA ClaimantNext ==
  ASSUME TypeInv, [Step]_vars, phase = "main", phase' = "main", NamesInv,
         NEW n, FirstOnly(n), NEW c \in Conn, Claimant(c, n)'
  PROVE  /\ n \in used_names'
         /\ \/ Claimant(c, n)
            \/ /\ SpawnContainer /\ n \notin used_names
               /\ ident[c[1]] = None /\ ident'[c[1]] # None
<1>1. CASE IsGame(c)
  <2>1. IsContainer(c) /\ NameOf(c) = n /\ Claims(c) /\ ~Leaves(c) /\ c[2] = 1
    <3>1. IsContainer(c) /\ NameOf(c) = n /\ c[2] = 1
      BY <1>1, GameStays DEF Claimant, IsContainer
    <3>2. LifeInv(c)
      BY <3>1 DEF NamesInv
    <3> QED  BY <1>1, <3>1, <3>2, ClaimStays DEF Claimant
  <2>2. Claimant(c, n) /\ n \in used_names
    BY <2>1 DEF Claimant, NamesInv
  <2>3. CASE ServerJoins
    BY <2>2, <2>3 DEF ServerJoins
  <2>4. CASE ServerLeaves
    <3>1. n # NameOf(msg.conn)
      BY <2>1, <2>2, <2>4, LeaverClaims DEF NamesInv, Leaves
    <3> QED  BY <2>2, <2>4, <3>1 DEF ServerLeaves
  <2>5. CASE SpawnContainer
    BY <2>2, <2>5 DEF SpawnContainer
  <2> QED  BY <2>2, <2>3, <2>4, <2>5, OtherBooks
<1>2. CASE ~IsGame(c)
  <2>1. IsGame(c)' /\ NameOf(c)' = n
    BY DEF Claimant, IsContainer
  <2>2. SpawnContainer /\ ident[c[1]] = None /\ c[1] \in Server
    BY <1>2, <2>1, GameStays, ConnFields
  <2>3. PICK f : f = NextFreeName(msg.kind)
    OBVIOUS
  <2>4. PICK s \in Server : /\ ident[s] = None
                            /\ ident' = [ident EXCEPT ![s] = [kind |-> msg.kind, name |-> f]]
                            /\ ident'[s] = [kind |-> msg.kind, name |-> f]
    BY <2>2, <2>3, SpawnEffect
  <2>5. c[1] = s
    BY <2>1, <2>2, <2>4 DEF IsGame, TypeInv, WorldInv
  <2>6. n = f
    BY <2>1, <2>4, <2>5 DEF NameOf
  <2>7. n \notin used_names /\ n \in used_names'
    BY <2>2, <2>3, <2>6, SpawnEffect
  <2> QED  BY <2>1, <2>2, <2>7 DEF IsGame
<1> QED  BY <1>1, <1>2

LEMMA NamesNext ==
  ASSUME TypeInv, StartInv, NamesInv, [Step]_vars
  PROVE  NamesInv'
<1>1. CASE phase' = "main" /\ phase # "main"
  <2>1. phase = "resend" /\ ident' = ident
    BY <1>1, MainBegins
  <2>2. \A c \in Conn : ~IsContainer(c)'
    BY <2>1, ConnFields DEF IsContainer, IsGame, StartInv
  <2> QED  BY <2>2 DEF NamesInv, Claimant
<1>2. CASE phase' = "main" /\ phase = "main"
  <2>1. ASSUME NEW c \in Conn, IsContainer(c)'
        PROVE  LifeInv(c)'
    BY <1>2, <2>1, LifeNext DEF NamesInv, IsContainer
  <2>2. ASSUME NEW n, FirstOnly(n)'
        PROVE  /\ \A c \in Conn : Claimant(c, n)' => n \in used_names'
               /\ \A c, d \in Conn : Claimant(c, n)' /\ Claimant(d, n)' => c = d
    <3>1. FirstOnly(n)
      BY <2>2, FirstWas
    <3>2. ASSUME NEW c \in Conn, NEW d \in Conn, Claimant(c, n)', Claimant(d, n)'
          PROVE  c = d
      <4>1. CASE Claimant(c, n) \/ Claimant(d, n)
        <5>1. n \in used_names
          BY <1>2, <3>1, <4>1 DEF NamesInv
        <5>2. Claimant(c, n) /\ Claimant(d, n)
          BY <1>2, <3>1, <3>2, <5>1, ClaimantNext
        <5> QED  BY <1>2, <3>1, <5>2 DEF NamesInv
      <4>2. CASE ~Claimant(c, n) /\ ~Claimant(d, n)
        <5>1. /\ SpawnContainer /\ ident[c[1]] = None /\ ident'[c[1]] # None
              /\ ident[d[1]] = None /\ ident'[d[1]] # None
          BY <1>2, <3>1, <3>2, <4>2, ClaimantNext
        <5>2. c[1] = d[1]
          <6>1. PICK s \in Server : \A t \in Server : t # s => ident'[t] = ident[t]
            <7>1. PICK f : f = NextFreeName(msg.kind)
              OBVIOUS
            <7>2. PICK s \in Server :
                    ident' = [ident EXCEPT ![s] = [kind |-> msg.kind, name |-> f]]
              BY <1>2, <5>1, <7>1, SpawnEffect
            <7> QED  BY <7>2 DEF TypeInv, WorldInv
          <6> QED  BY <5>1, <6>1, ConnFields
        <5>3. c[2] = 1 /\ d[2] = 1
          BY <3>2 DEF Claimant
        <5> QED  BY <5>2, <5>3, ConnFields
      <4> QED  BY <4>1, <4>2
    <3> QED  BY <1>2, <3>1, <3>2, ClaimantNext
  <2> QED  BY <2>1, <2>2 DEF NamesInv
<1> QED  BY <1>1, <1>2 DEF NamesInv

(* What the names come to: of a name that nobody went astray with, the     *)
(* containers that run have their first connection, or none yet.           *)
NameInv ==
  /\ TypeInv /\ OpenInv /\ ClosedInv /\ WhoInv /\ StartInv /\ MadeInv /\ NamesInv
  /\ phase # "dead" => OneLobby

LEMMA NobodyAstray ==
  ASSUME NameInv, NEW n,
         \A r \in Server : ident[r] # None /\ ident[r].name = n => ~Astray(r)
  PROVE  FirstOnly(n)
<1> SUFFICES ASSUME NEW s \in Server, ident[s] # None, ident[s].name = n
             PROVE  attempts[s] <= (IF s \in DOMAIN Preset THEN 0 ELSE 1)
  BY DEF FirstOnly
<1>1. attempts[s] \in Nat /\ attempts[s] <= MaxAttempts[s] /\ MaxAttempts[s] \in Nat /\ ~Astray(s)
  BY BrainAssumption DEF NameInv, TypeInv, WorldInv
<1>2. CASE s \in DOMAIN Preset
  BY <1>1, <1>2 DEF Astray
<1>3. CASE s \notin DOMAIN Preset
  <2> SUFFICES ASSUME attempts[s] >= 2 PROVE FALSE
    BY <1>1, <1>3
  <2> DEFINE c == <<s, 1>>
  <2>1. c \in Conn /\ c[1] = s /\ c[2] = 1 /\ c[2] < attempts[s]
    BY <1>1, ConnFields
  <2>2. c \in Seen
    BY <1>1, <2>1 DEF NameInv, MadeInv
  <2>3. end[c] = "closed"
    BY <1>1, <2>1, <2>2 DEF NameInv, OpenInv, TypeInv, WorldInv
  <2> QED  BY <1>1, <2>1, <2>3 DEF Astray
<1> QED  BY <1>2, <1>3

LEMMA NamesAreUnique ==
  ASSUME NameInv, phase # "dead"
  PROVE  UniqueNames
<1> SUFFICES ASSUME NEW s \in Server \ DOMAIN Preset, NEW t \in Server \ DOMAIN Preset,
                    Running(s), Running(t), ident[s].name = ident[t].name,
                    \A r \in Server : ident[r] # None /\ ident[r].name = ident[s].name => ~Astray(r)
             PROVE  s = t
  BY DEF UniqueNames
<1>1. PICK n : n = ident[s].name
  OBVIOUS
<1>2. FirstOnly(n)
  BY <1>1, NobodyAstray
<1>3. /\ TypeInv /\ ident[s] # None /\ ident[t] # None
      /\ ident[s].kind = ident[t].kind /\ ident[s].kind \in MinigameKind \cup {"Lobby"}
  BY DEF NameInv, WhoInv, Running
<1>4. phase = "main"
  BY <1>3 DEF NameInv, StartInv, TypeInv, BrainInv
<1>5. CASE ident[s].kind = "Lobby"
  BY <1>3, <1>5 DEF NameInv, OneLobby, IsLobby
<1>6. CASE ident[s].kind \in MinigameKind
  <2>1. ASSUME NEW r \in {s, t}
        PROVE  Claimant(<<r, 1>>, n)
    <3> DEFINE c == <<r, 1>>
    <3>1. c \in Conn /\ c[1] = r /\ c[2] = 1
      BY ConnFields, BrainAssumption
    <3>2. IsContainer(c) /\ KindOf(c) \in MinigameKind /\ NameOf(c) = n
      BY <1>1, <1>3, <1>6, <3>1, Kinds DEF IsContainer, IsGame, KindOf, NameOf
    <3>3. end[c] # "closed"
      BY <1>1, <1>3, <3>1 DEF Astray
    <3>4. task[c] # "done"
      BY <3>1, <3>2, <3>3 DEF NameInv, ClosedInv, OpenInv, Ended, Seen, TypeInv, WorldInv
    <3> QED  BY <3>1, <3>2, <3>4 DEF Claimant, Claims
  <2>2. <<s, 1>> \in Conn /\ <<t, 1>> \in Conn
    BY ConnFields, BrainAssumption
  <2>3. <<s, 1>> = <<t, 1>>
    BY <1>2, <1>4, <2>1, <2>2 DEF NameInv, NamesInv
  <2> QED  BY <2>3
<1> QED  BY <1>3, <1>5, <1>6

LEMMA NameInit == Init => NameInv /\ phase # "dead"
<1> SUFFICES ASSUME Init PROVE NameInv /\ phase # "dead"
  OBVIOUS
<1>1. OneLobby
  <2>1. receiver = <<LobbyMsg>> /\ buffer = <<>>
    BY DEF Init, LobbyMsg
  <2>2. \A s \in Server : ~IsLobby(s)
    BY DEF Init, IsLobby
  <2> QED  BY <2>1, <2>2 DEF OneLobby, Once, Contains
<1>2. OpenInv /\ ClosedInv /\ MadeInv
  <2>1. \A c \in Conn : c[1] \in Server /\ c[2] >= 1 /\ c[2] \in Nat
    BY ConnFields
  <2> QED  BY <2>1 DEF Init, OpenInv, ClosedInv, MadeInv, Seen, Ended
<1>3. WhoInv /\ StartInv /\ NamesInv /\ phase # "dead"
  BY BrainAssumption DEF Init, WhoInv, StartInv, NamesInv
<1> QED  BY <1>1, <1>2, <1>3, TypeInit DEF NameInv

LEMMA NameNext ==
  ASSUME NameInv, [Step]_vars
  PROVE  NameInv'
<1>1. phase' # "dead" => OneLobby'
  BY DeadStaysDead, OneLobbyNext DEF NameInv
<1> QED
  BY <1>1, TypeNext, OpenNext, ClosedNext, WhoNext, StartNext, MadeNext, NamesNext DEF NameInv

(* The end of the brain changes nothing about the servers, and after it    *)
(* nothing is modelled.                                                    *)
LEMMA NamesOutliveTheBrain ==
  ASSUME TypeInv, UniqueNames, [Next]_vars, phase' = "dead"
  PROVE  UniqueNames'
<1>1. UNCHANGED world
  BY HandleEffect
  DEF vars, Next, Tasks, BrainStep, Buffer, ProxyJoins, Resend, EnterMainLoop, SecondProxyJoins,
      ServerJoins, ServerLeaves, Dispatch, ClusterForward, SpawnContainer, Transport, GoOn,
      ClusterStep, ClusterReceives, ClusterAnswers, ClusterAsksForServer, DispatchTask,
      ClientStep, Register, ReadEnds, ReadRequest, ReadUpdateActive, Connect, SeesEnd, Breaks,
      Stops, Disconnected, ProxyReads, BrainAlive, controller, brain, world, outside, elsewhere
<1> QED  BY <1>1 DEF world, UniqueNames, Running, Astray

(* Two containers that run have the same name only if a server of that     *)
(* name went astray (UniqueNames): a name is given out again when the end  *)
(* of a connection under it was handled, and that is the name of a         *)
(* container that stopped, unless an older one connected with it or the    *)
(* container goes on after it lost its connection.                         *)
THEOREM NamesStayUnique == Spec => []UniqueNames
<1> DEFINE Dead == phase = "dead"
<1>1. Init => NameInv /\ ~Dead
  BY NameInit
<1>2. NameInv /\ [Next]_vars => NameInv'
  BY NameNext, NextIsStep
<1>3. NameInv /\ ~Dead => UniqueNames
  BY NamesAreUnique
<1>4. NameInv /\ UniqueNames /\ [Next]_vars /\ Dead' => UniqueNames'
  BY NamesOutliveTheBrain DEF NameInv
<1> HIDE DEF Dead
<1> QED  BY <1>1, <1>2, <1>3, <1>4, PTL DEF Spec
=============================================================================

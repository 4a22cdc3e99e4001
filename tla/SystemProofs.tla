---------------------------- MODULE SystemProofs ----------------------------
(***************************************************************************)
(* Theorems about System: what was shown of the brain and of the proxy's   *)
(* listener apart holds of the two together, and from it what a player     *)
(* sees.  For any servers, requests and number of packets; connections     *)
(* break, servers stop and the listener's thread may die.                  *)
(***************************************************************************)
EXTENDS System, BrainProofs

LP == INSTANCE ProxyPacketListenerProofs WITH Name <- LinkName, Player <- Served

-----------------------------------------------------------------------------
(* Names.  What the brain tells the proxy are names of servers, and there  *)
(* are not more of them than servers.                                      *)

Started == {s \in Server : ident[s] # None}

Linkable(s) == \A i \in DOMAIN s : s[i].name \in LinkName

LinkNamesInv ==
  /\ \A s \in Started : /\ ident[s].name \in LinkName
                        /\ ident[s].kind = "Proxy" => ident[s].name = ProxyName
  /\ phase # "dead" => \A n \in used_names : \E s \in Started : ident[s].name = n
  /\ linked \subseteq LinkName /\ Linkable(to_proxy)

(* A name the brain makes up is counted no higher than there are servers.  *)
LEMMA MadeUpNames ==
  ASSUME TypeInv, LinkNamesInv, phase # "dead", NEW k \in MinigameKind \cup {"Lobby"}
  PROVE  NextFreeName(k) \in LinkName
<1> DEFINE T == {s \in Started : ident[s].name \in used_names}
           f == [s \in T |-> ident[s].name]
<1>1. IsFiniteSet(Server) /\ IsFiniteSet(used_names)
  BY SystemAssumption DEF TypeInv, BrainInv
<1>2. T \in SUBSET Server
  BY DEF Started
<1>3. IsFiniteSet(T) /\ Cardinality(T) <= Cardinality(Server)
  BY <1>1, <1>2, FS_Subset
<1>4. f \in Surjection(T, used_names)
  BY DEF Surjection, LinkNamesInv
<1>5. Cardinality(used_names) <= Cardinality(T)
  <2> HIDE DEF f, T
  <2> QED  BY <1>3, <1>4, FS_Surjection
<1>6. /\ Cardinality(used_names) \in Nat /\ Cardinality(T) \in Nat /\ Cardinality(Server) \in Nat
  BY <1>1, <1>3, FS_CardinalityType
<1>7. k \in Kind
  BY Kinds DEF Kind
<1>8. /\ NextFreeName(k) \in Name /\ NextFreeName(k)[1] = k
      /\ NextFreeName(k)[2] \in 0 .. Cardinality(used_names)
  BY <1>1, <1>7, FreshName
<1>9. NextFreeName(k) \in {k} \X (0 .. Cardinality(Server))
  <2> HIDE DEF T
  <2> QED  BY <1>3, <1>5, <1>6, <1>8 DEF Name
<1> QED  BY <1>9 DEF LinkName

LEMMA SeenAreStarted ==
  ASSUME TypeInv, LinkNamesInv, NEW c \in Seen
  PROVE  c[1] \in Started /\ NameOf(c) \in LinkName
BY ConnFields DEF Seen, Started, NameOf, LinkNamesInv, TypeInv, WorldInv

LEMMA ToldAreLinkable ==
  ASSUME TypeInv, LinkNamesInv
  PROVE  Told \subseteq LinkName
<1>1. Lost \subseteq LinkName
  BY SeenAreStarted DEF Lost, Ended, Seen
<1>2. ASSUME NEW n, On(to_proxy, LinkServer(n))
      PROVE  n \in LinkName
  BY <1>2 DEF On, LinkServer, LinkNamesInv, Linkable
<1> QED  BY <1>1, <1>2 DEF Told, LinkNamesInv

LEMMA LinkableChannel ==
  ASSUME NEW s \in Seq(Packet), Linkable(s)
  PROVE  /\ s # <<>> => Linkable(Tail(s)) /\ Head(s).name \in LinkName
         /\ \A p \in Packet : p.name \in LinkName => Linkable(Append(s, p))
<1>1. Len(s) \in Nat /\ DOMAIN s = 1 .. Len(s)
  BY LenProperties
<1>2. ASSUME s # <<>>
      PROVE  Linkable(Tail(s)) /\ Head(s).name \in LinkName
  <2>1. /\ Head(s) = s[1] /\ 1 \in DOMAIN s /\ DOMAIN Tail(s) = 1 .. Len(s) - 1
        /\ \A i \in 1 .. Len(s) - 1 : Tail(s)[i] = s[i + 1]
    BY <1>1, <1>2, HeadTailProperties, EmptySeq, LenProperties
  <2> QED  BY <1>1, <2>1 DEF Linkable
<1>3. ASSUME NEW p \in Packet, p.name \in LinkName
      PROVE  Linkable(Append(s, p))
  BY <1>1, <1>3, AppendProperties DEF Linkable
<1> QED  BY <1>2, <1>3

LEMMA NamesInit == Init => LinkNamesInv
<1> SUFFICES ASSUME Init PROVE LinkNamesInv
  OBVIOUS
<1>1. /\ ident = [s \in Server |-> IF s \in DOMAIN Preset THEN Preset[s] ELSE None]
      /\ used_names = {} /\ linked = {} /\ to_proxy = <<>>
  BY DEF Init
<1>2. \A s \in Started : s \in DOMAIN Preset /\ ident[s] = Preset[s]
  BY <1>1 DEF Started
<1> QED  BY <1>1, <1>2, BrainAssumption DEF LinkNamesInv, Linkable, LinkName

LEMMA BooksEffect ==
  ASSUME [Step]_vars
  PROVE  \/ used_names' \subseteq used_names
         \/ SpawnContainer
         \/ ProxyJoins /\ used_names' = used_names \cup {ProxyName}
         \/ ServerJoins /\ used_names' = used_names \cup {NameOf(msg.conn)}
<1>1. CASE BrainStep
  BY <1>1
  DEF BrainStep, Buffer, ProxyJoins, Resend, EnterMainLoop, SecondProxyJoins, ServerJoins,
      ServerLeaves, Dispatch, ClusterForward, Transport, controller, brain
<1>2. CASE Tasks /\ ~BrainStep
  BY <1>2
  DEF Tasks, ClusterStep, ClusterReceives, ClusterAnswers, ClusterAsksForServer, DispatchTask,
      ClientStep, Register, ReadEnds, ReadUpdateActive, controller, brain
<1>3. CASE ~Tasks
  BY <1>3
  DEF vars, Step, HangsUp, Next, ReadRequest, Connect, SeesEnd, Breaks, Stops, Disconnected,
      ProxyReads, controller, brain
<1> QED  BY <1>1, <1>2, <1>3

LEMMA LinkNamesNext ==
  ASSUME TypeInv, LinkInv, LinkNamesInv, [Step]_vars
  PROVE  LinkNamesInv'
<1>1. ASSUME SpawnContainer
      PROVE  /\ phase = "main"
             /\ msg.kind \in MinigameKind \cup {"Lobby"} /\ NextFreeName(msg.kind) \in LinkName
             /\ used_names' = used_names \cup {NextFreeName(msg.kind)}
             /\ \/ ident' = ident /\ phase' = "dead"
                \/ \E s \in Server \ Started :
                     ident' = [ident EXCEPT ![s] =
                                 [kind |-> msg.kind, name |-> NextFreeName(msg.kind)]]
  <2>1. phase = "main" /\ msg.kind \in MinigameKind \cup {"Lobby"}
    BY <1>1, HandleEffect, SeenMsgFields DEF SpawnContainer
  <2>2. NextFreeName(msg.kind) \in LinkName
    BY <2>1, MadeUpNames
  <2> QED  BY <1>1, <2>1, <2>2 DEF SpawnContainer, ToStart, Started, Fail
<1>2. \A s \in Started : s \in Started' /\ ident'[s] = ident[s]
  <2>1. CASE ident' = ident
    BY <2>1 DEF Started
  <2>2. CASE SpawnContainer
    BY <1>1, <2>2 DEF Started, TypeInv, WorldInv
  <2> QED  BY <2>1, <2>2, IdentEffect
<1>3. \A s \in Started' : /\ ident'[s].name \in LinkName
                          /\ ident'[s].kind = "Proxy" => ident'[s].name = ProxyName
  <2>1. CASE ident' = ident
    BY <2>1 DEF Started, LinkNamesInv
  <2>2. CASE SpawnContainer
    <3>1. "Proxy" \notin MinigameKind \cup {"Lobby"}
      BY Kinds
    <3> QED  BY <1>1, <2>2, <3>1 DEF Started, LinkNamesInv, TypeInv, WorldInv
  <2> QED  BY <2>1, <2>2, IdentEffect
<1>4. ASSUME phase' # "dead", NEW n \in used_names'
      PROVE  \E s \in Started' : ident'[s].name = n
  <2>1. CASE n \in used_names
    <3>1. phase # "dead"
      BY <1>4, DeadStaysDead
    <3> QED  BY <1>2, <2>1, <3>1 DEF LinkNamesInv
  <2>2. CASE SpawnContainer /\ n = NextFreeName(msg.kind)
    <3> DEFINE i == [kind |-> msg.kind, name |-> n]
    <3>1. PICK s \in Server : ident' = [ident EXCEPT ![s] = i]
      BY <1>1, <1>4, <2>2
    <3>2. i \in Identity /\ i.name = n
      <4>1. msg.kind \in Kind /\ IsFiniteSet(used_names)
        BY <1>1, <2>2, Kinds DEF Kind, TypeInv, BrainInv
      <4> QED  BY <2>2, <4>1, FreshName DEF Identity
    <3> HIDE DEF i
    <3>3. ident'[s] = i
      BY <3>1 DEF TypeInv, WorldInv
    <3> QED  BY <3>2, <3>3, BrainAssumption DEF Started
  <2>3. CASE ProxyJoins /\ n = ProxyName
    <3>1. msg.conn \in Seen /\ KindOf(msg.conn) = "Proxy"
      <4>1. receiver # <<>> /\ receiver \in Seq(SeenMsg) /\ IsProxyConn(msg)
        BY <2>3 DEF ProxyJoins, TypeInv, MailInv
      <4>2. msg \in SeenMsg
        BY <4>1, HeadTailProperties DEF msg
      <4> QED  BY <4>1, <4>2, SeenMsgFields DEF IsProxyConn
    <3>2. msg.conn[1] \in Started /\ ident[msg.conn[1]].name = n
      BY <2>3, <3>1, SeenAreStarted DEF KindOf, LinkNamesInv
    <3> QED  BY <1>2, <3>2
  <2>4. CASE ServerJoins /\ n = NameOf(msg.conn)
    <3>1. msg.conn \in Seen
      BY <2>4, WrittenPackets
    <3>2. msg.conn[1] \in Started /\ ident[msg.conn[1]].name = n
      BY <2>4, <3>1, SeenAreStarted DEF NameOf
    <3> QED  BY <1>2, <3>2
  <2> QED  BY <1>1, <1>4, <2>1, <2>2, <2>3, <2>4, BooksEffect
<1>5. linked' \subseteq LinkName /\ Linkable(to_proxy')
  <2>1. to_proxy \in Seq(Packet) /\ Linkable(to_proxy) /\ linked \subseteq LinkName
    BY DEF TypeInv, MailInv, LinkNamesInv
  <2>2. CASE ProxyReads
    <3>1. /\ to_proxy # <<>> /\ to_proxy' = Tail(to_proxy)
          /\ linked' \subseteq linked \cup {Head(to_proxy).name}
      BY <2>2 DEF ProxyReads
    <3> QED  BY <2>1, <3>1, LinkableChannel
  <2>3. CASE linked' = linked /\ to_proxy' = to_proxy
    BY <2>1, <2>3
  <2>4. CASE ServerJoins /\ linked' = linked
             /\ to_proxy' = Append(to_proxy, LinkServer(NameOf(msg.conn)))
    <3>1. /\ LinkServer(NameOf(msg.conn)) \in Packet
          /\ LinkServer(NameOf(msg.conn)).name = NameOf(msg.conn)
      BY <2>4, WrittenPackets DEF TruePacket, LinkServer
    <3>2. NameOf(msg.conn) \in LinkName
      BY <2>4, WrittenPackets, SeenAreStarted
    <3> QED  BY <2>1, <2>4, <3>1, <3>2, LinkableChannel
  <2>5. CASE ServerLeaves /\ ~ProxyLeaves(msg.conn) /\ linked' = linked
             /\ to_proxy' = Append(to_proxy, UnlinkServer(NameOf(msg.conn)))
    <3>1. /\ UnlinkServer(NameOf(msg.conn)) \in Packet
          /\ UnlinkServer(NameOf(msg.conn)).name = NameOf(msg.conn)
      BY <2>5, WrittenPackets DEF TruePacket, UnlinkServer
    <3>2. msg.conn \in Seen
      BY <2>5, HandleEffect, SeenMsgFields DEF ServerLeaves, Ended, Seen
    <3>3. NameOf(msg.conn) \in LinkName
      BY <3>2, SeenAreStarted
    <3> QED  BY <2>1, <2>5, <3>1, <3>3, LinkableChannel
  <2>6. CASE Transport /\ linked' = linked
             /\ to_proxy' = Append(to_proxy, TransportPlayer(msg.player, msg.server))
    <3>1. /\ TransportPlayer(msg.player, msg.server) \in Packet
          /\ TransportPlayer(msg.player, msg.server).name = msg.server
      BY <2>6, WrittenPackets DEF TruePacket, TransportPlayer
    <3>2. msg.server \in Told
      <4>1. receiver \in Seq(ToldMsg) /\ receiver # <<>> /\ msg.type = "Transport"
        BY <2>6, HandleEffect DEF Transport, LinkInv
      <4>2. msg \in ToldMsg
        BY <4>1, HeadTailProperties DEF msg
      <4> QED  BY <4>1, <4>2 DEF ToldMsg
    <3> QED  BY <2>1, <2>6, <3>1, <3>2, ToldAreLinkable, LinkableChannel
  <2> QED  BY <2>2, <2>3, <2>4, <2>5, <2>6, ToProxyEffect
<1> QED  BY <1>3, <1>4, <1>5 DEF LinkNamesInv
-----------------------------------------------------------------------------
(* Players.  The proxy is told to move only players who asked for a        *)
(* minigame: a request that names no player ends with its dispatch task.   *)

Moves(s) ==
  \A i \in DOMAIN s : s[i].type \in {"Transport", "TransportPlayer"} => s[i].player \in Served

ServedInv ==
  /\ \A a \in answered : Wants[a[1]] \in MinigameKind
  /\ Moves(receiver) /\ Moves(buffer) /\ Moves(to_proxy)

LEMMA MovesChannel ==
  ASSUME NEW S, NEW s \in Seq(S), Moves(s)
  PROVE  /\ s # <<>> => /\ Moves(Tail(s))
                        /\ Head(s).type \in {"Transport", "TransportPlayer"} =>
                             Head(s).player \in Served
         /\ \A m \in S : (m.type \in {"Transport", "TransportPlayer"} => m.player \in Served) =>
                           Moves(Append(s, m))
<1>1. Len(s) \in Nat /\ DOMAIN s = 1 .. Len(s)
  BY LenProperties
<1>2. ASSUME s # <<>>
      PROVE  /\ Moves(Tail(s))
             /\ Head(s).type \in {"Transport", "TransportPlayer"} => Head(s).player \in Served
  <2>1. /\ Head(s) = s[1] /\ 1 \in DOMAIN s /\ DOMAIN Tail(s) = 1 .. Len(s) - 1
        /\ \A i \in 1 .. Len(s) - 1 : Tail(s)[i] = s[i + 1]
    BY <1>1, <1>2, HeadTailProperties, EmptySeq, LenProperties
  <2> QED  BY <1>1, <2>1 DEF Moves
<1>3. ASSUME NEW m \in S, m.type \in {"Transport", "TransportPlayer"} => m.player \in Served
      PROVE  Moves(Append(s, m))
  BY <1>1, <1>3, AppendProperties DEF Moves
<1> QED  BY <1>2, <1>3

LEMMA ServedInit == Init => ServedInv
BY DEF Init, ServedInv, Moves, SpawnMsg

LEMMA ServedNext ==
  ASSUME TypeInv, ConserveInv, ServedInv, [Step]_vars
  PROVE  ServedInv'
<1> DEFINE Carried == SeenMsg \cup SeenMsg'
                        \cup [type : {"Transport"}, player : Request, server : Name]
<1>1. receiver \in Seq(Carried) /\ buffer \in Seq(Carried) /\ to_proxy \in Seq(Packet)
  BY SeqSubset DEF TypeInv, MailInv
<1>2. \A a \in answered' : Wants[a[1]] \in MinigameKind
  <2>1. CASE DispatchTask
    BY <2>1 DEF DispatchTask, ServedInv
  <2>2. ASSUME NEW k \in MinigameKind, ClusterAnswers(k)
        PROVE  \A a \in answered' : Wants[a[1]] \in MinigameKind
    <3>1. PICK r \in pending[k] : \E n : answered' = answered \cup {<<r, n>>}
      BY <2>2 DEF ClusterAnswers
    <3>2. r \in Request
      BY DEF TypeInv, RestInv
    <3>3. Wants[r] = k
      BY <3>2 DEF ConserveInv, Conserved, Stage, OneAt
    <3> QED  BY <3>1, <3>3 DEF ServedInv
  <2> QED  BY <2>1, <2>2, ClusterEffect DEF ServedInv
<1>3. Moves(receiver') /\ Moves(buffer')
  <2> HIDE DEF Carried
  <2>1. Moves(receiver) /\ Moves(buffer)
    BY DEF ServedInv
  <2>2. CASE Resend
    <3>1. buffer # <<>> /\ receiver' = Append(receiver, Head(buffer)) /\ buffer' = Tail(buffer)
      BY <2>2 DEF Resend, Send
    <3>2. Head(buffer) \in Carried
      BY <1>1, <3>1, HeadTailProperties
    <3> QED  BY <1>1, <2>1, <3>1, <3>2, MovesChannel
  <2>3. CASE Buffer
    <3>1. receiver # <<>> /\ receiver' = Tail(receiver) /\ buffer' = Append(buffer, Head(receiver))
      BY <2>3 DEF Buffer, PutAside, msg
    <3>2. Head(receiver) \in Carried
      BY <1>1, <3>1, HeadTailProperties
    <3> QED  BY <1>1, <2>1, <3>1, <3>2, MovesChannel
  <2>4. CASE receiver # <<>> /\ receiver' = Tail(receiver) /\ buffer' = buffer
    BY <1>1, <2>1, <2>4, MovesChannel
  <2>5. ASSUME NEW a \in answered, a[1] \notin Anonymous, Send(TransportMsg(a[1], a[2])),
               buffer' = buffer
        PROVE  Moves(receiver') /\ Moves(buffer')
    <3>1. /\ TransportMsg(a[1], a[2]) \in Carried /\ TransportMsg(a[1], a[2]).player = a[1]
          /\ a[1] \in Request /\ Wants[a[1]] \in MinigameKind
      BY DEF Carried, TransportMsg, ServedInv, TypeInv, RestInv
    <3>2. a[1] \in Served
      BY <2>5, <3>1 DEF Served
    <3> QED  BY <1>1, <2>1, <2>5, <3>1, <3>2, MovesChannel DEF Send
  <2>6. ASSUME NEW m \in SeenMsg', m.type # "Transport", Send(m), buffer' = buffer
        PROVE  Moves(receiver') /\ Moves(buffer')
    <3>1. m \in Carried /\ m.type # "TransportPlayer"
      BY <2>6 DEF Carried, SeenMsg, NewConn, UnlinkMsg, DispatchMsg, ForwardMsg, SpawnMsg
    <3> QED  BY <1>1, <2>1, <2>6, <3>1, MovesChannel DEF Send
  <2>7. CASE receiver' = receiver /\ buffer' = buffer
    BY <2>1, <2>7
  <2> QED  BY <2>2, <2>3, <2>4, <2>5, <2>6, <2>7, ReceiverEffect
<1>4. Moves(to_proxy')
  <2>1. Moves(to_proxy)
    BY DEF ServedInv
  <2>2. CASE ProxyReads
    BY <1>1, <2>1, <2>2, MovesChannel DEF ProxyReads
  <2>3. CASE to_proxy' = to_proxy
    BY <2>1, <2>3
  <2>4. ASSUME NEW n, \/ to_proxy' = Append(to_proxy, LinkServer(n)) /\ LinkServer(n) \in Packet
                      \/ to_proxy' = Append(to_proxy, UnlinkServer(n)) /\ UnlinkServer(n) \in Packet
        PROVE  Moves(to_proxy')
    BY <1>1, <2>1, <2>4, MovesChannel DEF LinkServer, UnlinkServer
  <2>5. CASE Transport /\ to_proxy' = Append(to_proxy, TransportPlayer(msg.player, msg.server))
    <3>1. /\ TransportPlayer(msg.player, msg.server) \in Packet
          /\ TransportPlayer(msg.player, msg.server).player = msg.player
      BY <2>5, WrittenPackets DEF TruePacket, TransportPlayer
    <3>2. msg.player \in Served
      BY <1>1, <2>5, HandleEffect, MovesChannel DEF Transport, msg, ServedInv
    <3> QED  BY <1>1, <2>1, <2>5, <3>1, <3>2, MovesChannel
  <2> QED  BY <2>2, <2>3, <2>4, <2>5, ToProxyEffect, WrittenPackets DEF TruePacket
<1> QED  BY <1>2, <1>3, <1>4 DEF ServedInv
-----------------------------------------------------------------------------
(* The two halves.  Every step of the whole is one of the brain's or       *)
(* nothing to it, and one of the listener's or nothing to it.              *)

LEMMA BrainMoves == [SystemNext]_<<vars, listener>> => [Step]_vars
<1> SUFFICES ASSUME [SystemNext]_<<vars, listener>> PROVE [Step]_vars
  OBVIOUS
<1>1. CASE ListenerReads
  BY <1>1 DEF ListenerReads, Step, Next
<1>2. CASE ThreadUnwinds
  BY <1>2 DEF ThreadUnwinds, Step, HangsUp
<1>3. CASE ProxyStep \/ UNCHANGED vars
  BY <1>3 DEF ProxyStep
<1>4. CASE Tasks
  BY <1>4 DEF Step, Next
<1>5. ASSUME NEW c \in Conn, NEW r \in Request, PlayerAsks(c, r)
      PROVE  [Step]_vars
  BY <1>5 DEF PlayerAsks, Step, Next
<1>6. ASSUME NEW s \in Server, Reconnects(s) \/ SeesEnd(s) \/ Breaks(s) \/ Stops(s)
      PROVE  [Step]_vars
  BY <1>6 DEF Reconnects, Step, Next
<1> QED  BY <1>1, <1>2, <1>3, <1>4, <1>5, <1>6 DEF SystemNext

LEMMA ListenerConstants == LP!ProxyAssumption
<1>1. PriorityOf \in [LinkName -> Nat] /\ MaxPackets \in Nat /\ None \notin LinkName
  BY SystemAssumption DEF PriorityOf
<1> QED  BY <1>1 DEF LP!ProxyAssumption

(* What the listener reads is in the domain of its handlers.               *)
LEMMA NextPacket ==
  ASSUME TypeInv, LinkNamesInv, ServedInv, ProxyReads
  PROVE  /\ to_proxy # <<>> /\ 1 \in DOMAIN to_proxy /\ Head(to_proxy) = to_proxy[1]
         /\ Head(to_proxy) \in Packet
         /\ Head(to_proxy).name \in LinkName
         /\ Head(to_proxy).type = "TransportPlayer" => Head(to_proxy).player \in Served
<1>1. to_proxy \in Seq(Packet) /\ to_proxy # <<>>
  BY DEF TypeInv, MailInv, ProxyReads
<1>2. Head(to_proxy) \in Packet /\ 1 \in DOMAIN to_proxy /\ Head(to_proxy) = to_proxy[1]
  BY <1>1, HeadTailProperties, EmptySeq, LenProperties
<1>3. Head(to_proxy).name \in LinkName
  BY <1>1, LinkableChannel DEF LinkNamesInv
<1>4. Head(to_proxy).type = "TransportPlayer" => Head(to_proxy).player \in Served
  BY <1>1, MovesChannel DEF ServedInv
<1> QED  BY <1>1, <1>2, <1>3, <1>4

LEMMA ListenerMoves ==
  ASSUME TypeInv, LinkNamesInv, ServedInv, [SystemNext]_<<vars, listener>>
  PROVE  [LP!Next]_(LP!vars)
<1>1. CASE UNCHANGED listener
  BY <1>1 DEF listener, LP!vars
<1>2. CASE ListenerReads
  <2> DEFINE p == Head(to_proxy)
  <2>1. /\ p.name \in LinkName
        /\ p.type = "TransportPlayer" => p.player \in Served
    BY <1>2, NextPacket DEF ListenerReads
  <2>2. \/ Listener!OnLinkServerPacket(p.name)
        \/ Listener!OnUnlinkServerPacket(p.name)
        \/ p.type = "TransportPlayer" /\ Listener!OnTransportPlayerPacket(p.player, p.name)
    BY <1>2 DEF ListenerReads
  <2> HIDE DEF p
  <2>3. CASE Listener!OnLinkServerPacket(p.name)
    <3>1. LP!OnLinkServerPacket(p.name)
      BY <2>3 DEF Listener!OnLinkServerPacket, LP!OnLinkServerPacket, Listener!Receive,
                  LP!Receive, Listener!Registered, LP!Registered
    <3> QED  BY <2>1, <3>1 DEF LP!Next
  <2>4. CASE Listener!OnUnlinkServerPacket(p.name)
    <3>1. LP!OnUnlinkServerPacket(p.name)
      BY <2>4 DEF Listener!OnUnlinkServerPacket, LP!OnUnlinkServerPacket, Listener!Receive,
                  LP!Receive, Listener!Registered, LP!Registered, Listener!RemoveServer,
                  LP!RemoveServer
    <3> QED  BY <2>1, <3>1 DEF LP!Next
  <2>5. CASE p.type = "TransportPlayer" /\ Listener!OnTransportPlayerPacket(p.player, p.name)
    <3>1. LP!OnTransportPlayerPacket(p.player, p.name)
      BY <2>5 DEF Listener!OnTransportPlayerPacket, LP!OnTransportPlayerPacket,
                  Listener!Receive, LP!Receive, Listener!Registered, LP!Registered
    <3> QED  BY <2>1, <2>5, <3>1 DEF LP!Next
  <2> QED  BY <2>2, <2>3, <2>4, <2>5
<1>3. CASE ProxyStep
  <2>1. CASE Listener!RecomputeServerJoinOrder
    BY <2>1 DEF Listener!RecomputeServerJoinOrder, LP!RecomputeServerJoinOrder, LP!Next,
                Listener!Candidates, LP!Candidates, Listener!Before, LP!Before,
                Listener!Priority, LP!Priority, Listener!Registered, LP!Registered
  <2>2. ASSUME NEW r \in Served, Listener!Join(r) \/ Listener!Quit(r)
        PROVE  LP!Next
    BY <2>2 DEF Listener!Join, Listener!Quit, LP!Join, LP!Quit, LP!Next
  <2> QED  BY <1>3, <2>1, <2>2 DEF ProxyStep
<1> QED  BY <1>1, <1>2, <1>3 DEF SystemNext, ThreadUnwinds
-----------------------------------------------------------------------------
(* The whole.  The table of the listener is what the brain's side takes    *)
(* the proxy to route to, and its thread ends for want of a server only    *)
(* when a server was lost.                                                 *)

ListenInv ==
  /\ LP!TableInv /\ LP!DefaultIsBest
  /\ Listener!Registered = linked
  /\ ListenerEndsOnlyAfterLoss

SystemInv ==
  TypeInv /\ LinkInv /\ ConserveInv /\ LinkNamesInv /\ ServedInv /\ ListenInv

LEMMA ListenInit == SystemInit => ListenInv
<1> SUFFICES ASSUME SystemInit PROVE ListenInv
  OBVIOUS
<1>1. LP!Init
  BY DEF SystemInit, Listener!Init, LP!Init, Listener!Priority, LP!Priority
<1>2. LP!TableInv
  BY <1>1, ListenerConstants, LP!InitTableInv
<1>3. registered = [n \in {} |-> None] /\ linked = {} /\ thread = "idle"
  BY DEF SystemInit, Init, Listener!Init
<1> QED
  BY <1>2, <1>3
  DEF ListenInv, LP!DefaultIsBest, LP!Registered, Listener!Registered, ListenerEndsOnlyAfterLoss

(* A server that was lost stays lost.                                      *)
LEMMA LossStays ==
  ASSUME TypeInv, [Step]_vars, NEW c \in Conn, task[c] = "done", KindOf(c) # "Proxy"
  PROVE  task'[c] = "done" /\ KindOf(c)' # "Proxy"
<1>1. c \in Seen
  BY DEF Seen
<1> QED  BY <1>1, TasksGrow, ClosedStays

LEMMA ListenNext ==
  ASSUME SystemInv, [SystemNext]_<<vars, listener>>
  PROVE  ListenInv'
<1>1. [Step]_vars /\ [LP!Next]_(LP!vars) /\ LP!ProxyAssumption
  BY BrainMoves, ListenerMoves, ListenerConstants DEF SystemInv
<1>2. LP!TableInv' /\ LP!DefaultIsBest'
  BY <1>1, LP!NextTableInv, LP!NextDefaultIsBest DEF SystemInv, ListenInv
<1>3. Listener!Registered' = linked'
  <2>1. DOMAIN registered = linked
    BY DEF SystemInv, ListenInv, Listener!Registered
  <2>2. CASE ListenerReads
    <3>1. CASE Head(to_proxy).type = "LinkServer"
      BY <2>1, <2>2, <3>1
      DEF ListenerReads, ProxyReads, Listener!OnLinkServerPacket, Listener!Registered
    <3>2. CASE Head(to_proxy).type = "UnlinkServer"
      BY <2>1, <2>2, <3>2
      DEF ListenerReads, ProxyReads, Listener!OnUnlinkServerPacket, Listener!RemoveServer,
          Listener!Registered
    <3>3. CASE Head(to_proxy).type = "TransportPlayer"
      BY <2>1, <2>2, <3>3
      DEF ListenerReads, ProxyReads, Listener!OnTransportPlayerPacket, Listener!Registered
    <3> QED  BY <2>2, <3>1, <3>2, <3>3 DEF ListenerReads
  <2>3. CASE ProxyStep \/ UNCHANGED <<vars, listener>>
    BY <2>1, <2>3
    DEF ProxyStep, vars, proxy, listener, Listener!RecomputeServerJoinOrder, Listener!Join,
        Listener!Quit, Listener!Registered
  <2>4. CASE UNCHANGED <<proxy, listener>>
    BY <2>1, <2>4 DEF proxy, listener, Listener!Registered
  <2>5. CASE ThreadUnwinds
    BY <2>4, <2>5 DEF ThreadUnwinds, Disconnected
  <2>6. Tasks => UNCHANGED proxy
    BY DEF Tasks, BrainStep, Buffer, ProxyJoins, Resend, EnterMainLoop, SecondProxyJoins,
           ServerJoins, ServerLeaves, Dispatch, ClusterForward, SpawnContainer, Transport,
           ClusterStep, ClusterReceives, ClusterAnswers, ClusterAsksForServer, DispatchTask,
           ClientStep, Register, ReadEnds, ReadUpdateActive, outside, elsewhere
  <2>7. ASSUME NEW c \in Conn, NEW r \in Request, PlayerAsks(c, r)
        PROVE  UNCHANGED proxy
    BY <2>7 DEF PlayerAsks, ReadRequest
  <2>8. ASSUME NEW s \in Server, Reconnects(s) \/ SeesEnd(s) \/ Breaks(s) \/ Stops(s)
        PROVE  UNCHANGED proxy
    BY <2>8 DEF Reconnects, Connect, SeesEnd, Breaks, Stops, Disconnected
  <2> QED  BY <2>2, <2>3, <2>4, <2>5, <2>6, <2>7, <2>8 DEF SystemNext
<1>4. ListenerEndsOnlyAfterLoss'
  <2> SUFFICES ASSUME thread' = "dead"
               PROVE  \E c \in Conn : task'[c] = "done" /\ KindOf(c)' # "Proxy"
    BY DEF ListenerEndsOnlyAfterLoss
  <2>1. CASE thread = "dead"
    BY <1>1, <2>1, LossStays DEF SystemInv, ListenInv, ListenerEndsOnlyAfterLoss
  <2>2. CASE thread # "dead"
    <3>1. LP!Next
      BY <1>1, <2>2 DEF LP!vars
    <3>2. ListenerReads
      BY <2>2
      DEF SystemNext, ThreadUnwinds, ProxyStep, vars, listener, Listener!Join, Listener!Quit,
          Listener!RecomputeServerJoinOrder
    <3>3. /\ 1 \in DOMAIN to_proxy /\ Head(to_proxy) = to_proxy[1]
      BY <3>2, NextPacket DEF SystemInv, ListenerReads
    <3>4. to_proxy[1].type = "TransportPlayer" /\ to_proxy[1].name \notin linked
      BY <2>2, <3>2, <3>3
      DEF ListenerReads, SystemInv, ListenInv, Listener!OnLinkServerPacket,
          Listener!OnUnlinkServerPacket, Listener!OnTransportPlayerPacket, Listener!Receive,
          Listener!Registered
    <3>5. \E c \in Conn : task[c] = "done" /\ KindOf(c) # "Proxy"
      BY <3>3, <3>4 DEF SystemInv, LinkInv, TransportFollowsLink
    <3> QED  BY <1>1, <3>5, LossStays DEF SystemInv
  <2> QED  BY <2>1, <2>2
<1> QED  BY <1>2, <1>3, <1>4 DEF ListenInv

LEMMA SystemStarts == SystemInit => SystemInv
BY TypeInit, LinkInit, ConserveInit, NamesInit, ServedInit, ListenInit DEF SystemInv, SystemInit

LEMMA SystemMoves == SystemInv /\ [SystemNext]_<<vars, listener>> => SystemInv'
<1> SUFFICES ASSUME SystemInv, [SystemNext]_<<vars, listener>> PROVE SystemInv'
  OBVIOUS
<1>1. [Step]_vars
  BY BrainMoves
<1>2. TypeInv' /\ LinkInv' /\ ConserveInv' /\ LinkNamesInv' /\ ServedInv'
  BY <1>1, TypeNext, LinkNext, ConserveNext, LinkNamesNext, ServedNext DEF SystemInv
<1> QED  BY <1>2, ListenNext DEF SystemInv

LEMMA SystemInvariant == SystemSpec => []SystemInv
BY SystemStarts, SystemMoves, PTL DEF SystemSpec
(* No request of a player is lost or doubled while the proxy's listener    *)
(* does what it is told and its own threads run in between, nor when its   *)
(* thread dies (RequestsConserved).                                        *)
THEOREM RequestsAreNeverLostInSystem == SystemSpec => []RequestsConserved
<1>1. SystemInv => RequestsConserved
  BY ConservedOnce DEF SystemInv
<1> QED  BY <1>1, SystemInvariant, PTL

(* The thread that serves the controller in the proxy dies of an unknown   *)
(* server only after a game server's connection has ended: the controller  *)
(* writes the LinkServer first, names the server as the listener has it    *)
(* and moves nobody to a server it never announced                         *)
(* (ListenerEndsOnlyAfterLoss).                                            *)
THEOREM ListenerOutlivesController == SystemSpec => []ListenerEndsOnlyAfterLoss
<1>1. SystemInv => ListenerEndsOnlyAfterLoss
  BY DEF SystemInv, ListenInv
<1> QED  BY <1>1, SystemInvariant, PTL

LEMMA DeadInvariant ==
  ASSUME NoEarlyServers
  PROVE  SystemSpec => []DeadInv
<1>1. SystemInit => DeadInv
  BY DeadInit DEF SystemInit
<1>2. SystemInv /\ DeadInv /\ [SystemNext]_<<vars, listener>> => DeadInv'
  BY BrainMoves, DeadNext DEF SystemInv
<1> QED  BY <1>1, <1>2, SystemInvariant, PTL DEF SystemSpec

(* If no game server is there before the proxy, the listener's table       *)
(* settles to servers that are connected (DeadServersUnlinked), whatever   *)
(* the listener's thread did.                                              *)
THEOREM DeadServersAreUnlinkedInSystem ==
  ASSUME NoEarlyServers
  PROVE  SystemSpec => []DeadServersUnlinked
<1>1. SystemInv /\ DeadInv => DeadServersUnlinked
  BY SettledAreLive DEF SystemInv
<1> QED  BY <1>1, SystemInvariant, DeadInvariant, PTL

(* The default of the listener (controller/src/transport.rs:51), in the    *)
(* system and under the same condition: once things settle, it is a server *)
(* that is connected to the controller, the best of those the proxy knows, *)
(* if it knows any (DefaultIsBestConnected).                               *)
THEOREM DefaultIsBestInSystem ==
  ASSUME NoEarlyServers
  PROVE  SystemSpec => []DefaultIsBestConnected
<1>1. SystemInv /\ DeadInv => DefaultIsBestConnected
  <2> SUFFICES ASSUME SystemInv, DeadInv, Settled, thread = "idle", Listener!Registered # {}
               PROVE  \E s \in Connected :
                        /\ Listener!IsDefault(ident[s].name)
                        /\ \A n \in Listener!Registered :
                             PriorityOf[n] <= PriorityOf[ident[s].name]
    BY DEF DefaultIsBestConnected
  <2>1. PICK n \in Listener!Registered :
          Listener!IsDefault(n) /\ \A m \in Listener!Registered : PriorityOf[m] <= PriorityOf[n]
    BY DEF SystemInv, ListenInv, LP!DefaultIsBest, LP!IsDefault, LP!Registered,
           Listener!IsDefault, Listener!Registered
  <2>2. n \in linked
    BY <2>1 DEF SystemInv, ListenInv
  <2>3. PICK s \in Connected : ident[s].name = n
    BY <2>2, SettledAreLive DEF SystemInv, DeadServersUnlinked
  <2> QED  BY <2>1, <2>3
<1> QED  BY <1>1, SystemInvariant, DeadInvariant, PTL
=============================================================================

------------------------------- MODULE Brain -------------------------------
(***************************************************************************)
(* The controller's brain (controller/src/brain.rs) together with the      *)
(* tasks that feed it: one handle_client task per TCP connection           *)
(* (controller/src/client.rs), the minigame clusters it starts, and the    *)
(* dispatch tasks that wait for a cluster's answer.  The brain first waits *)
(* for the proxy, buffering everything else, then keeps the proxy told     *)
(* which servers exist, starts containers, and moves players.              *)
(*                                                                         *)
(* A cluster is the abstraction QueueService: it answers a request with a  *)
(* member.  MinigameCluster shows that the real one does.                  *)
(***************************************************************************)
EXTENDS Integers, FiniteSets, SequencesExt

CONSTANTS
  Server,         \* server processes: those that run, and containers to come
  Preset,         \* who runs without being started by this brain (an identity
                  \* for each such server): the proxy, servers of an earlier
                  \* run of the controller, servers an operator starts
  Early,          \* preset servers that may connect before the proxy has
  Mortal,         \* servers that may stop
  Closer,         \* bound: servers on which someone runs /close, once each
  MinigameKind,   \* kinds of minigame
  Request,        \* Request packets, each of one player or of none
  Anonymous,      \* those that name no player
  Wants,          \* the kind of server each Request asks for
  MaxAttempts,    \* bound: connections each server makes in its life
  DockerMayFail,  \* whether starting a container may fail
  None

Kind == {"Proxy", "Lobby", "Limbo"} \cup MinigameKind
Name == (Kind \cup {"brain"}) \X Nat
Identity == [kind : Kind, name : Name]
ProxyName == <<"Proxy", 0>>
BrainName == <<"brain", 0>>

ASSUME BrainAssumption ==
  /\ MinigameKind \cap {"Proxy", "Lobby", "Limbo", "brain"} = {}
  /\ None \notin Identity /\ None \notin Server \X Nat
  /\ DOMAIN Preset \subseteq Server /\ \A s \in DOMAIN Preset : Preset[s] \in Identity
  /\ \A s \in DOMAIN Preset : Preset[s].kind = "Proxy" => Preset[s].name = ProxyName
  /\ Early \subseteq DOMAIN Preset /\ Mortal \subseteq Server /\ Closer \subseteq Server
  /\ Anonymous \subseteq Request /\ Wants \in [Request -> Kind]
  /\ MaxAttempts \in [Server -> Nat \ {0}]
  /\ DockerMayFail \in BOOLEAN

(* The n-th connection of each server.                                     *)
Conn == UNION {{s} \X (1 .. MaxAttempts[s]) : s \in Server}

VARIABLES
  ident,         \* who each server process is, None if it does not run yet
  stopped,       \* servers that ran and stopped
  attempts,      \* connections each server has made
  end,           \* the server's end of each connection: "none", "open", "closed"
  task,          \* handle_client of each connection: "none", "auth" (accepted),
                 \* "reading" (NewConn sent), "done" (Unlink sent)
  receiver,      \* the brain's unbounded channel
  phase,         \* "boot", "resend", "main"; "dead" when start() is over
  buffer,        \* messages received while booting
  proxy_server, lobby_server, \* connections whose write half the brain owns
  used_names,    \* UniqueNameSet
  computers,     \* GlobalComputerMap: names shown, with their status
  handles,       \* kinds whose cluster has been started
  inbox,         \* the channel of each cluster
  members,       \* the connections a cluster holds, in its vector's order
  pending,       \* requests a cluster was given and has not answered
  respawned,     \* requests for which a cluster asked for a container
  answered,      \* dispatch tasks with an answer they have not sent yet
  to_proxy,      \* packets on their way to the proxy
  linked,        \* names the proxy routes to
  transported,   \* requests whose player the proxy was told to move, and where
  asked,         \* Request packets sent by servers
  closes         \* servers on which /close was run

world   == <<ident, stopped, attempts, end>>
brain   == <<phase, buffer, proxy_server, lobby_server, used_names, computers, handles>>
cluster == <<members, pending, respawned>>
proxy   == <<linked, transported>>
vars == <<world, task, receiver, brain, inbox, cluster, answered, to_proxy, proxy, asked, closes>>

(* What the brain and the clusters leave alone, what the brain leaves      *)
(* alone, and what connections and servers leave alone.                    *)
outside    == <<world, task, proxy, asked, closes>>
elsewhere  == <<outside, cluster, answered>>
controller == <<brain, inbox, cluster, answered, to_proxy>>
owned      == <<proxy_server, lobby_server>>

KindOf(c) == ident[c[1]].kind
NameOf(c) == ident[c[1]].name
On(s, e) == \E i \in DOMAIN s : s[i] = e

NewConn(c)        == [type |-> "NewConn", conn |-> c]
UnlinkMsg(c)      == [type |-> "Unlink", conn |-> c]
DispatchMsg(r)    == [type |-> "Dispatch", kind |-> Wants[r], player |-> r]
SpawnMsg(k)       == [type |-> "Spawn", kind |-> k]
ForwardMsg(k)     == [type |-> "ClusterForward", kind |-> k]
TransportMsg(r, n) == [type |-> "Transport", player |-> r, server |-> n]

PushServer(c)  == [type |-> "PushServer", conn |-> c]
PopServer(c)   == [type |-> "PopServer", conn |-> c]
QueueServer(r) == [type |-> "QueueServer", player |-> r]
Forwarded      == [type |-> "UpdateActive"]

LinkServer(n)         == [type |-> "LinkServer", name |-> n]
UnlinkServer(n)       == [type |-> "UnlinkServer", name |-> n]
TransportPlayer(r, n) == [type |-> "TransportPlayer", name |-> n, player |-> r]

Send(m) == receiver' = Append(receiver, m)

-----------------------------------------------------------------------------
(* Variants of the definitions below, as a slip in the code would have     *)
(* them; each shows that some property notices.                            *)

SetStatusListsOffline(map, name, status) ==
  [n \in DOMAIN map \cup {name} |-> IF n = name THEN status ELSE map[n]]
SetStatusKeepsOnline(map, name, status) ==
  IF status = "Offline" THEN map ELSE SetStatusListsOffline(map, name, status)
IsAnyConn(m) == m.type = "NewConn"
PutAsideConns(m) == buffer' = IF IsAnyConn(m) THEN Append(buffer, m) ELSE buffer
AnyLeaves(c) == TRUE
WriteProxyIfIdle(packet, map) ==
  /\ UNCHANGED phase /\ computers' = map
  /\ to_proxy' = IF to_proxy = <<>> THEN <<packet>> ELSE to_proxy
ToStartedCluster(k, m) ==
  inbox' = IF k \in handles THEN [inbox EXCEPT ![k] = Append(@, m)] ELSE inbox
FirstName(k) == <<k, 0>>
OtherName(k, c) == {i \in DOMAIN members[k] : NameOf(members[k][i]) # NameOf(c)}
EndsSilently(c) == task' = [task EXCEPT ![c] = "done"] /\ UNCHANGED receiver

-----------------------------------------------------------------------------
(* The brain, waiting for the proxy.                                       *)

Received(type) ==
  /\ receiver # <<>>
  /\ Head(receiver).type = type

msg == Head(receiver)

(* GlobalComputerMap::set_status: an offline computer is not listed.       *)
SetStatus(map, name, status) ==
  IF status = "Offline"
  THEN [n \in DOMAIN map \ {name} |-> map[n]]
  ELSE [n \in DOMAIN map \cup {name} |-> IF n = name THEN status ELSE map[n]]

IsProxyConn(m) == m.type = "NewConn" /\ KindOf(m.conn) = "Proxy"

PutAside(m) == buffer' = Append(buffer, m)

(* Everything that comes before the proxy is put aside.                    *)
Buffer ==
  /\ phase = "boot"
  /\ receiver # <<>> /\ ~IsProxyConn(msg)
  /\ receiver' = Tail(receiver)
  /\ PutAside(msg)
  /\ UNCHANGED <<elsewhere, phase, owned, used_names, computers, handles,
                 inbox, to_proxy>>

ProxyJoins ==
  /\ phase = "boot"
  /\ receiver # <<>> /\ IsProxyConn(msg)
  /\ receiver' = Tail(receiver)
  /\ proxy_server' = msg.conn
  /\ computers' = SetStatus(computers, ProxyName, "Online")
  /\ used_names' = used_names \cup {ProxyName}
  /\ phase' = "resend"
  /\ UNCHANGED <<elsewhere, buffer, lobby_server, handles, inbox, to_proxy>>

(* The messages put aside go to the end of the brain's own channel, behind *)
(* what other tasks sent in the meantime.                                  *)
Resend ==
  /\ phase = "resend" /\ buffer # <<>>
  /\ Send(Head(buffer)) /\ buffer' = Tail(buffer)
  /\ UNCHANGED <<elsewhere, phase, owned, used_names, computers, handles,
                 inbox, to_proxy>>

-----------------------------------------------------------------------------
(* The brain's main loop.                                                  *)

Handle(type) ==
  /\ phase = "main"
  /\ Received(type)
  /\ receiver' = Tail(receiver)

(* What a handler ends in: the brain goes on, a panic unwinds its task, or *)
(* an error returned by start() is logged and the brain shown as offline;  *)
(* map is what the handler made of computers before.                       *)
GoOn(map)  == UNCHANGED phase /\ computers' = map
Panic(map) == phase' = "dead" /\ computers' = map
Fail(map)  == phase' = "dead" /\ computers' = SetStatus(map, BrainName, "Offline")

(* The main loop is entered when Docker can be reached.                    *)
EnterMainLoop ==
  /\ phase = "resend" /\ buffer = <<>>
  /\ \/ phase' = "main" /\ UNCHANGED computers
     \/ DockerMayFail /\ Fail(computers)
  /\ UNCHANGED <<elsewhere, receiver, buffer, owned, used_names, handles,
                 inbox, to_proxy>>

(* A write to the proxy may fail once the proxy has closed the connection. *)
WriteProxy(packet, map) ==
  \/ GoOn(map) /\ to_proxy' = Append(to_proxy, packet)
  \/ end[proxy_server] = "closed" /\ Fail(map) /\ UNCHANGED to_proxy

ToCluster(k, m) == inbox' = [inbox EXCEPT ![k] = Append(@, m)]

(* A second proxy is not kept: its write half is shut down and dropped.    *)
SecondProxyJoins ==
  /\ Handle("NewConn")
  /\ KindOf(msg.conn) = "Proxy"
  /\ \/ GoOn(computers)
     \/ end[msg.conn] = "closed" /\ Fail(computers)
  /\ UNCHANGED <<elsewhere, buffer, owned, used_names, handles, inbox,
                 to_proxy>>

(* The lobby's write half is kept by the brain, a minigame's is given to   *)
(* the cluster of its kind, and the proxy is told; there is no case for a  *)
(* limbo server.                                                           *)
ServerJoins ==
  /\ Handle("NewConn")
  /\ LET c == msg.conn
         k == KindOf(c)
         online == SetStatus(computers, NameOf(c), "Online")
     IN
       /\ k # "Proxy"
       /\ used_names' = used_names \cup {NameOf(c)}
       /\ IF k = "Limbo"
          THEN Panic(online) /\ UNCHANGED to_proxy
          ELSE WriteProxy(LinkServer(NameOf(c)), online)
       /\ lobby_server' = IF k = "Lobby" THEN c ELSE lobby_server
       /\ IF k \in MinigameKind
          THEN handles' = handles \cup {k} /\ ToCluster(k, PushServer(c))
          ELSE UNCHANGED <<handles, inbox>>
  /\ UNCHANGED <<elsewhere, buffer, proxy_server>>

ProxyLeaves(c) == KindOf(c) = "Proxy"

(* Losing the proxy is the end; of any other server the proxy is told, and *)
(* a minigame's cluster.                                                   *)
ServerLeaves ==
  /\ Handle("Unlink")
  /\ LET c == msg.conn
         k == KindOf(c)
         offline == SetStatus(computers, NameOf(c), "Offline")
     IN
       /\ used_names' = used_names \ {NameOf(c)}
       /\ IF ProxyLeaves(c)
          THEN Panic(offline) /\ UNCHANGED <<to_proxy, inbox>>
          ELSE /\ WriteProxy(UnlinkServer(NameOf(c)), offline)
               /\ IF k \in handles /\ phase' = "main"
                  THEN ToCluster(k, PopServer(c)) ELSE UNCHANGED inbox
  /\ UNCHANGED <<elsewhere, buffer, owned, handles>>

(* A request goes to the cluster of its kind, which is started if need be; *)
(* nobody can ask for a limbo server or a proxy, and for a lobby there is  *)
(* only a todo!().                                                         *)
Dispatch ==
  /\ Handle("Dispatch")
  /\ IF msg.kind \in MinigameKind
     THEN handles' = handles \cup {msg.kind} /\ ToCluster(msg.kind, QueueServer(msg.player))
     ELSE UNCHANGED <<handles, inbox>>
  /\ IF msg.kind = "Lobby" THEN Panic(computers) ELSE GoOn(computers)
  /\ UNCHANGED <<elsewhere, buffer, owned, used_names, to_proxy>>

ClusterForward ==
  /\ Handle("ClusterForward")
  /\ IF msg.kind \in handles THEN ToCluster(msg.kind, Forwarded) ELSE UNCHANGED inbox
  /\ UNCHANGED <<elsewhere, brain, to_proxy>>

(* UniqueNameSet::next_free_name: the first counter not in use.            *)
NextFreeName(k) ==
  <<k, CHOOSE i \in 0 .. Cardinality(used_names) :
         /\ <<k, i>> \notin used_names
         /\ \A j \in 0 .. i - 1 : <<k, j>> \in used_names>>

ToStart == {s \in Server : ident[s] = None}

(* A container is started under a fresh name; an error of Docker ends the  *)
(* brain.                                                                  *)
SpawnContainer ==
  /\ Handle("Spawn")
  /\ LET n == NextFreeName(msg.kind)
         starting == SetStatus(computers, n, "Starting")
     IN
       /\ used_names' = used_names \cup {n}
       /\ \/ /\ GoOn(starting)
             /\ \E s \in ToStart : ident' = [ident EXCEPT ![s] = [kind |-> msg.kind, name |-> n]]
          \/ DockerMayFail /\ Fail(starting) /\ UNCHANGED ident
  /\ UNCHANGED <<stopped, attempts, end, task, cluster, answered, proxy,
                 asked, closes, buffer, owned, handles, inbox, to_proxy>>

Transport ==
  /\ Handle("Transport")
  /\ WriteProxy(TransportPlayer(msg.player, msg.server), computers)
  /\ UNCHANGED <<elsewhere, buffer, owned, used_names, handles, inbox>>

BrainStep ==
  \/ Buffer \/ ProxyJoins \/ Resend \/ EnterMainLoop
  \/ SecondProxyJoins \/ ServerJoins \/ ServerLeaves
  \/ Dispatch \/ ClusterForward \/ SpawnContainer \/ Transport

-----------------------------------------------------------------------------
(* Clusters, by what they promise, and dispatch tasks.                     *)

(* Once start() is over nothing below matters: every send to the brain's   *)
(* channel fails, and with it the task that sent.                          *)
BrainAlive == phase # "dead"

SameName(k, c) == {i \in DOMAIN members[k] : NameOf(members[k][i]) = NameOf(c)}

(* A cluster takes the next message off its channel.                       *)
ClusterReceives(k) ==
  /\ BrainAlive
  /\ inbox[k] # <<>>
  /\ inbox' = [inbox EXCEPT ![k] = Tail(@)]
  /\ LET m == Head(inbox[k]) IN
     \/ /\ m.type = "PushServer"
        /\ members' = [members EXCEPT ![k] = Append(@, m.conn)]
        /\ UNCHANGED pending
     \/ /\ m.type = "PopServer"
        /\ members' = IF SameName(k, m.conn) = {} THEN members
                      ELSE [members EXCEPT ![k] =
                              RemoveAt(@, CHOOSE i \in SameName(k, m.conn) :
                                            \A j \in SameName(k, m.conn) : i <= j)]
        /\ UNCHANGED pending
     \/ /\ m.type = "QueueServer"
        /\ pending' = [pending EXCEPT ![k] = @ \cup {m.player}]
        /\ UNCHANGED members
     \/ /\ m.type = "UpdateActive"
        /\ UNCHANGED <<members, pending>>
  /\ UNCHANGED <<outside, receiver, brain, respawned, answered, to_proxy>>

(* A request is answered with the name of a member.                        *)
ClusterAnswers(k) ==
  /\ BrainAlive
  /\ \E r \in pending[k], i \in DOMAIN members[k] :
       /\ pending' = [pending EXCEPT ![k] = @ \ {r}]
       /\ answered' = answered \cup {<<r, NameOf(members[k][i])>>}
  /\ UNCHANGED <<outside, receiver, brain, inbox, members, respawned,
                 to_proxy>>

Coming == Cardinality({i \in DOMAIN receiver : receiver[i].type = "Spawn"})
        + Cardinality({i \in DOMAIN buffer : buffer[i].type = "Spawn"})

(* When no member answers in time, the cluster asks for a new server, once *)
(* for a request; the instance bounds how many there can be.               *)
ClusterAsksForServer(k) ==
  /\ BrainAlive
  /\ Cardinality(ToStart) > Coming
  /\ \E r \in pending[k] \ respawned :
       /\ respawned' = respawned \cup {r}
       /\ Send(SpawnMsg(k))
  /\ UNCHANGED <<outside, brain, inbox, members, pending, answered, to_proxy>>

(* The task of dispatch_to_minigame_server sends the answer it got on, if  *)
(* there is a player to move.                                              *)
DispatchTask ==
  /\ BrainAlive
  /\ \E a \in answered :
       /\ answered' = answered \ {a}
       /\ IF a[1] \in Anonymous
          THEN UNCHANGED receiver
          ELSE Send(TransportMsg(a[1], a[2]))
  /\ UNCHANGED <<outside, brain, inbox, cluster, to_proxy>>

-----------------------------------------------------------------------------
(* Connections and their handle_client tasks.                              *)

Current(s) == <<s, attempts[s]>>
Open(s)    == attempts[s] > 0 /\ end[Current(s)] = "open"
Running(s) == ident[s] # None /\ s \notin stopped

(* The write half of a connection lives as long as somebody owns it.       *)
Held(c) ==
  \/ task[c] = "auth"
  \/ On(receiver, NewConn(c)) \/ On(buffer, NewConn(c))
  \/ c = proxy_server \/ c = lobby_server
  \/ \E k \in MinigameKind : On(inbox[k], PushServer(c)) \/ On(members[k], c)

(* A server process without a connection opens one and authenticates; the  *)
(* listener accepts it.                                                    *)
Connect(s) ==
  /\ BrainAlive
  /\ Running(s) /\ ~Open(s) /\ attempts[s] < MaxAttempts[s]
  /\ s \in DOMAIN Preset \ Early /\ ident[s].kind # "Proxy" => phase = "main"
  /\ LET c == <<s, attempts[s] + 1>> IN
       /\ attempts' = [attempts EXCEPT ![s] = @ + 1]
       /\ end' = [end EXCEPT ![c] = "open"]
       /\ task' = [task EXCEPT ![c] = "auth"]
  /\ UNCHANGED <<ident, stopped, receiver, controller, proxy, asked, closes>>

(* handle_client reads the Authentication packet and registers the         *)
(* connection, or finds it gone.                                           *)
Register(c) ==
  /\ BrainAlive
  /\ task[c] = "auth"
  /\ \/ /\ task' = [task EXCEPT ![c] = "reading"]
        /\ Send(NewConn(c))
     \/ /\ end[c] = "closed"
        /\ task' = [task EXCEPT ![c] = "done"]
        /\ UNCHANGED receiver
  /\ UNCHANGED <<world, controller, proxy, asked, closes>>

EndOfConnection(c) ==
  /\ task' = [task EXCEPT ![c] = "done"]
  /\ Send(UnlinkMsg(c))

(* read_packets meets the end of the stream.                               *)
ReadEnds(c) ==
  /\ BrainAlive
  /\ task[c] = "reading" /\ end[c] = "closed"
  /\ EndOfConnection(c)
  /\ UNCHANGED <<world, controller, proxy, asked, closes>>

(* read_packets reads a Request; the server may have gone since it sent it. *)
ReadRequest(c, r) ==
  /\ BrainAlive
  /\ task[c] = "reading"
  /\ KindOf(c) # "Proxy"
  /\ r \notin asked /\ asked' = asked \cup {r}
  /\ Send(DispatchMsg(r))
  /\ UNCHANGED <<world, task, controller, proxy, closes>>

(* read_packets reads an UpdateActive, which is passed on to the cluster   *)
(* of a minigame server and ends the loop for any other; the end of the    *)
(* loop drops the read half only.                                          *)
ReadUpdateActive(c) ==
  /\ BrainAlive
  /\ task[c] = "reading"
  /\ KindOf(c) # "Proxy"
  /\ c[1] \in Closer \ closes /\ closes' = closes \cup {c[1]}
  /\ IF KindOf(c) \in MinigameKind
     THEN Send(ForwardMsg(KindOf(c))) /\ UNCHANGED task
     ELSE EndOfConnection(c)
  /\ UNCHANGED <<world, controller, proxy, asked>>

Disconnected(s) ==
  /\ end' = IF Open(s) THEN [end EXCEPT ![Current(s)] = "closed"] ELSE end
  /\ UNCHANGED <<ident, attempts, task, receiver, controller, proxy, asked, closes>>

(* A server sees its connection closed by the controller.                  *)
SeesEnd(s) ==
  /\ BrainAlive
  /\ Open(s) /\ ~Held(Current(s))
  /\ Disconnected(s) /\ UNCHANGED stopped

(* A server loses its connection and will make another one.                *)
Breaks(s) ==
  /\ BrainAlive
  /\ Open(s) /\ attempts[s] < MaxAttempts[s]
  /\ Disconnected(s) /\ UNCHANGED stopped

Stops(s) ==
  /\ BrainAlive
  /\ s \in Mortal /\ Running(s)
  /\ stopped' = stopped \cup {s}
  /\ Disconnected(s)

(* The proxy takes the next packet off its connection.                     *)
ProxyReads ==
  /\ BrainAlive
  /\ to_proxy # <<>> /\ end[proxy_server] = "open"
  /\ to_proxy' = Tail(to_proxy)
  /\ LET packet == Head(to_proxy) IN
     \/ packet.type = "LinkServer" /\ linked' = linked \cup {packet.name} /\ UNCHANGED transported
     \/ packet.type = "UnlinkServer" /\ linked' = linked \ {packet.name} /\ UNCHANGED transported
     \/ /\ packet.type = "TransportPlayer"
        /\ transported' = transported \cup {<<packet.player, packet.name>>}
        /\ UNCHANGED linked
  /\ UNCHANGED <<world, task, receiver, brain, inbox, cluster, answered, asked, closes>>

(* main() asks for a lobby before anything can connect.                    *)
Init ==
  /\ ident = [s \in Server |-> IF s \in DOMAIN Preset THEN Preset[s] ELSE None]
  /\ stopped = {}
  /\ attempts = [s \in Server |-> 0]
  /\ end = [c \in Conn |-> "none"]
  /\ task = [c \in Conn |-> "none"]
  /\ receiver = <<SpawnMsg("Lobby")>>
  /\ phase = "boot"
  /\ buffer = <<>>
  /\ proxy_server = None
  /\ lobby_server = None
  /\ used_names = {}
  /\ computers = [n \in {BrainName} |-> "Online"]
  /\ handles = {}
  /\ inbox = [k \in MinigameKind |-> <<>>]
  /\ members = [k \in MinigameKind |-> <<>>]
  /\ pending = [k \in MinigameKind |-> {}]
  /\ respawned = {}
  /\ answered = {}
  /\ to_proxy = <<>>
  /\ linked = {}
  /\ transported = {}
  /\ asked = {}
  /\ closes = {}

ClientStep(c) == Register(c) \/ ReadEnds(c)
ClusterStep(k) == ClusterReceives(k) \/ ClusterAnswers(k)

Tasks ==
  \/ BrainStep
  \/ \E k \in MinigameKind : ClusterStep(k) \/ ClusterAsksForServer(k)
  \/ DispatchTask
  \/ \E c \in Conn : ClientStep(c) \/ ReadUpdateActive(c)

Next ==
  \/ Tasks
  \/ ProxyReads
  \/ \E c \in Conn, r \in Request : ReadRequest(c, r)
  \/ \E s \in Server : Connect(s) \/ SeesEnd(s) \/ Breaks(s) \/ Stops(s)

Spec == Init /\ [][Next]_vars

(* tokio runs tasks that can run, the proxy reads its connection, and a    *)
(* container that was started connects.  No connection sends without end,  *)
(* so it is enough that the tasks of a sort are not all kept waiting.      *)
Fairness ==
  /\ WF_vars(BrainStep)
  /\ WF_vars(\E k \in MinigameKind : ClusterStep(k))
  /\ WF_vars(\E k \in MinigameKind : ClusterAsksForServer(k))
  /\ WF_vars(DispatchTask)
  /\ WF_vars(ProxyReads)
  /\ WF_vars(\E c \in Conn : ClientStep(c))
  /\ WF_vars(\E s \in Server : Connect(s) \/ SeesEnd(s))

FairSpec == Spec /\ Fairness

-----------------------------------------------------------------------------
(* Properties.                                                             *)

BrainMsg ==
       {NewConn(c) : c \in Conn} \cup {UnlinkMsg(c) : c \in Conn}
  \cup {DispatchMsg(r) : r \in Request}
  \cup {ForwardMsg(k) : k \in MinigameKind}
  \cup {SpawnMsg(k) : k \in MinigameKind \cup {"Lobby"}}
  \cup [type : {"Transport"}, player : Request, server : Name]

ClusterMsg ==
       {PushServer(c) : c \in Conn} \cup {PopServer(c) : c \in Conn}
  \cup {QueueServer(r) : r \in Request} \cup {Forwarded}

Packet ==
       [type : {"LinkServer", "UnlinkServer"}, name : Name]
  \cup [type : {"TransportPlayer"}, name : Name, player : Request]

(* Every variable holds a value of its Rust type.                          *)
TypeOK ==
  /\ ident \in [Server -> Identity \cup {None}]
  /\ stopped \subseteq Server
  /\ \A s \in Server : attempts[s] \in 0 .. MaxAttempts[s]
  /\ end \in [Conn -> {"none", "open", "closed"}]
  /\ task \in [Conn -> {"none", "auth", "reading", "done"}]
  /\ receiver \in Seq(BrainMsg) /\ buffer \in Seq(BrainMsg)
  /\ phase \in {"boot", "resend", "main", "dead"}
  /\ proxy_server \in Conn \cup {None} /\ lobby_server \in Conn \cup {None}
  /\ used_names \subseteq Name
  /\ DOMAIN computers \subseteq Name
  /\ \A n \in DOMAIN computers : computers[n] \in {"Starting", "Online"}
  /\ handles \subseteq MinigameKind
  /\ inbox \in [MinigameKind -> Seq(ClusterMsg)]
  /\ members \in [MinigameKind -> Seq(Conn)]
  /\ pending \in [MinigameKind -> SUBSET Request]
  /\ respawned \subseteq Request
  /\ answered \subseteq Request \X Name
  /\ to_proxy \in Seq(Packet)
  /\ linked \subseteq Name
  /\ transported \subseteq Request \X Name
  /\ asked \subseteq Request
  /\ closes \subseteq Closer

(* Nothing is on its way inside the controller, nor an end of a connection *)
(* that somebody has still to see.                                         *)
Settled ==
  /\ phase = "main" /\ receiver = <<>> /\ to_proxy = <<>>
  /\ \A k \in MinigameKind : inbox[k] = <<>>
  /\ \A c \in Conn : task[c] # "auth" /\ ~(task[c] = "reading" /\ end[c] = "closed")
  /\ \A s \in Server : Open(s) => Held(Current(s))

Connected == {s \in Server : Open(s) /\ ident[s].kind # "Proxy"}

(* "it is safe to assume that the unreachable server is dead"              *)
(* (controller/src/transport.rs:80): once things settle, a server that is  *)
(* connected is one the proxy routes to.                                   *)
LiveServersLinked ==
  Settled => \A s \in Connected : ident[s].name \in linked

(* "we don't want players routed to that server in any circumstance"       *)
(* (controller/src/transport.rs:81): once things settle, the proxy routes  *)
(* only to servers that are connected.                                     *)
DeadServersUnlinked ==
  Settled => \A n \in linked : \E s \in Connected : ident[s].name = n

(* Once things settle, the cluster of a kind holds the connection of each  *)
(* connected server of that kind, once, and no other: nobody is sent to a  *)
(* server that left, and every server can be pinged.                       *)
ClustersAgree ==
  Settled =>
    \A k \in MinigameKind :
      /\ {members[k][i] : i \in DOMAIN members[k]} =
           {Current(s) : s \in {t \in Connected : ident[t].kind = k}}
      /\ \A i, j \in DOMAIN members[k] : members[k][i] = members[k][j] => i = j

(* Once things settle, the dashboard shows as online what the proxy routes *)
(* to, and no name of a server in use can be given to a container.         *)
BooksAgree ==
  Settled =>
    /\ {n \in DOMAIN computers : computers[n] = "Online"} =
         linked \cup {BrainName, ProxyName}
    /\ linked \subseteq used_names

(* A server that keeps a name which the controller does not count as used: *)
(* one that was there before and connects, or a container that goes on     *)
(* after it lost a connection.                                             *)
Astray(s) ==
  \/ s \in DOMAIN Preset /\ attempts[s] > 0
  \/ \E c \in Conn : c[1] = s /\ end[c] = "closed" /\ (Running(s) \/ c[2] < attempts[s])

(* Two containers that run have the same name only if a server of that     *)
(* name went astray (UniqueNameSet, controller/src/brain.rs:321): every    *)
(* table of the controller identifies a server by its name.                *)
UniqueNames ==
  \A s, t \in Server \ DOMAIN Preset :
    Running(s) /\ Running(t) /\ ident[s].name = ident[t].name =>
      \/ s = t
      \/ \E r \in Server : ident[r] # None /\ ident[r].name = ident[s].name /\ Astray(r)

(* "if we lose the connection to our proxy [...] it's worth it to abandon  *)
(* ship" (controller/src/brain.rs:92): the brain ends only when the proxy  *)
(* it talks to has gone.                                                   *)
BrainEndsWithItsProxy ==
  phase = "dead" => proxy_server # None /\ end[proxy_server] = "closed"

(* The same when the proxy may come back before the end of its old         *)
(* connection was seen: no server that stops and no request it makes ends  *)
(* the brain, only a connection of a proxy that ended.                     *)
BrainEndsAfterProxyLoss ==
  phase = "dead" => \E c \in Conn : end[c] = "closed" /\ KindOf(c) = "Proxy"

(* Requests that end in a transport: of a player, and for a minigame.      *)
Served == {r \in Request \ Anonymous : Wants[r] \in MinigameKind}

(* Where a player's request is.                                            *)
Places(r) ==
       {<<"receiver", i>> : i \in {j \in DOMAIN receiver :
          receiver[j].type \in {"Dispatch", "Transport"} /\ receiver[j].player = r}}
  \cup {<<"buffer", i>> : i \in {j \in DOMAIN buffer :
          buffer[j].type = "Dispatch" /\ buffer[j].player = r}}
  \cup {<<k, "inbox">> : k \in {l \in MinigameKind : On(inbox[l], QueueServer(r))}}
  \cup {<<k, "pending">> : k \in {l \in MinigameKind : r \in pending[l]}}
  \cup {<<"answered", a>> : a \in {b \in answered : b[1] = r}}
  \cup {<<"to_proxy", i>> : i \in {j \in DOMAIN to_proxy :
          to_proxy[j].type = "TransportPlayer" /\ to_proxy[j].player = r}}
  \cup {<<"transported", a>> : a \in {b \in transported : b[1] = r}}

(* A request is never lost or doubled between a server's packet and the    *)
(* packet that moves the player, even if it came before the proxy did.     *)
RequestsConserved ==
  phase # "dead" =>
    \A r \in asked :
      /\ Cardinality(Places(r)) <= 1
      /\ r \in Served => Places(r) # {}

(* The proxy is told to move a player only to a server it was told about   *)
(* before, unless that server's connection has ended by now.               *)
TransportFollowsLink ==
  \A i \in DOMAIN to_proxy :
    to_proxy[i].type = "TransportPlayer" =>
      \/ to_proxy[i].name \in linked
      \/ \E j \in 1 .. i - 1 : to_proxy[j] = LinkServer(to_proxy[i].name)
      \/ \E c \in Conn :
           task[c] = "done" /\ KindOf(c) # "Proxy" /\ NameOf(c) = to_proxy[i].name

(* A server that stopped is eventually unlinked, unless its name was given *)
(* to another one by then.                                                 *)
Unlinked(s) ==
  /\ s \in stopped
  /\ ident[s].name \in linked =>
       \E t \in Server : Running(t) /\ ident[t].name = ident[s].name

StoppedServersUnlinked ==
  \A s \in Mortal : s \in stopped ~> (Unlinked(s) \/ phase = "dead")

(* Every request of a player for a minigame is eventually followed by a    *)
(* transport, if the brain lives on and no server stops (a container that  *)
(* stops before it joined leaves the request it was started for without an *)
(* answer).                                                                *)
RequestsServed ==
  \A r \in Served :
    r \in asked ~> ((\E a \in transported : a[1] = r) \/ stopped # {} \/ phase = "dead")
=============================================================================

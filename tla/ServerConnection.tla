-------------------------- MODULE ServerConnection --------------------------
(***************************************************************************)
(* A minigame server and what the controller knows of it.  In the server,  *)
(* the thread of ManagedControllerConnection connects, authenticates,      *)
(* answers pings and reconnects, while the main thread runs the commands   *)
(* /request and /close on whatever connection the listener holds then.     *)
(* Both write a packet in two steps, its length and its payload, without a *)
(* lock.  In the controller, one handle_client task per connection reads   *)
(* the packets and hands messages through the brain to the cluster, whose  *)
(* vector knows the server by its name only.                               *)
(*                                                                         *)
(* Until the proxy has connected the brain puts all messages aside, then   *)
(* sends them to the end of its own channel again.  A server of an         *)
(* operator, or of an earlier run of the controller, may be there by then; *)
(* containers are started from the main loop.  There the brain passes the  *)
(* messages on in order, so that its channel and the cluster's are one     *)
(* queue here: where it drops an Unlink or an update because no cluster    *)
(* was started yet, no server has joined and the vector is empty.          *)
(***************************************************************************)
EXTENDS Integers, SequencesExt

CONSTANTS
  Request,    \* /request commands the main thread is given
  MaxCommands, \* bound: commands, /close or /request, it is given
  MaxPings,   \* bound: rounds in which the cluster pings its servers
  MaxBreaks,  \* bound: connections the network breaks or refuses
  MaxConns,   \* bound: connections the server makes
  None

Conn   == 1 .. MaxConns
Thread == {"connection", "main"}

(* The packets a server writes, and one that is being written: the         *)
(* connection its length went to, 0 before that.                           *)
Authentication  == [type |-> "Authentication"]
Pong            == [type |-> "Pong"]
UpdateActive(v) == [type |-> "UpdateActive", active |-> v]
RequestMsg(r)   == [type |-> "Request", player |-> r]

Packet == {Authentication, Pong} \cup {UpdateActive(v) : v \in BOOLEAN}
            \cup {RequestMsg(r) : r \in Request}
Writing == [packet : Packet, on : 0 .. MaxConns]

ASSUME ConnectionAssumption ==
  /\ MaxCommands \in Nat /\ MaxPings \in Nat /\ MaxBreaks \in Nat /\ MaxConns \in Nat \ {0}
  /\ None \notin Packet \cup Writing

MAX_BACKOFF_SECONDS == 30

VARIABLES
  backoff,          \* seconds to wait after a failed attempt to connect
  conn,             \* connections made
  socket,           \* whether the last of them is open, on the server's side
  connection,       \* ServerPacketListener.connection, 0 for null
  acceptingPlayers, \* ServerPacketListener.acceptingPlayers
  writing,          \* the packet each thread is writing, and the connection it
                    \* has written the length on, 0 before that; or None
  up,               \* connections neither broken nor closed by the server
  sent,             \* what is on its way to the controller on each connection
  pings,            \* pings on their way to the server
  task,             \* handle_client: "none", "auth", "reading", "done"
  phase,            \* where the brain is: "boot", "resend" or "main"
  buffer,           \* messages it put aside
  aside,            \* whether it ever put one aside
  messages,         \* from the tasks through the brain to the cluster
  servers,          \* the cluster's vector: connections, and whether active
  confirmed,        \* requests whose player was told that they were sent, with
                    \* the connection, until the controller dispatches them
  issued,           \* requests whose command has run
  commands, rounds, breaks \* how often the bounded steps happened

link    == <<backoff, conn, socket, connection>>
plugin  == <<link, acceptingPlayers, writing>>
network == <<up, sent, pings>>
boot    == <<phase, buffer, aside>>
cluster == <<boot, messages, servers>>
history == <<confirmed, issued, commands, rounds, breaks>>
vars == <<plugin, network, task, cluster, history>>

NewConn(c)      == [type |-> "NewConn", conn |-> c]
Unlink(c)       == [type |-> "Unlink", conn |-> c]

Knows(c) == \E i \in DOMAIN servers : servers[i].conn = c

(* The write half of a connection lives as long as somebody owns it; what  *)
(* is written when both halves are gone, or to a broken connection, fails  *)
(* or is lost.                                                             *)
Held(c) ==
  \/ task[c] = "auth"
  \/ Contains(buffer, NewConn(c)) \/ Contains(messages, NewConn(c)) \/ Knows(c)
Gone(c) == ~up[c] \/ (task[c] = "done" /\ ~Held(c))

-----------------------------------------------------------------------------
(* Variants of the definitions below, as a slip in the code would have     *)
(* them; each shows that some property notices.                            *)

EndsSilently(c) == task' = [task EXCEPT ![c] = "done"] /\ UNCHANGED messages
BlankFirst ==
  servers' = IF servers = <<>> THEN servers ELSE [servers EXCEPT ![1].conn = 0]
PushInactive(c) == servers' = Append(servers, [conn |-> c, active |-> FALSE])
PutAsideConns(m) == buffer' = IF m.type = "NewConn" THEN Append(buffer, m) ELSE buffer
ConnectOnce ==
  /\ ~socket /\ conn = 0
  /\ conn' = conn + 1 /\ socket' = TRUE /\ backoff' = 1
  /\ up' = [up EXCEPT ![conn'] = TRUE]
  /\ task' = [task EXCEPT ![conn'] = "auth"]
  /\ UNCHANGED <<connection, acceptingPlayers, writing, sent, pings, cluster, history>>

-----------------------------------------------------------------------------
(* The server.                                                             *)

Write(t, packet) == writing' = [writing EXCEPT ![t] = [packet |-> packet, on |-> 0]]

(* The connection's thread opens a socket, which the listener accepts.     *)
Connect ==
  /\ ~socket /\ conn < MaxConns
  /\ conn' = conn + 1 /\ socket' = TRUE /\ backoff' = 1
  /\ up' = [up EXCEPT ![conn'] = TRUE]
  /\ task' = [task EXCEPT ![conn'] = "auth"]
  /\ UNCHANGED <<connection, acceptingPlayers, writing, sent, pings, cluster, history>>

(* The next attempt waits, twice as long each time.                        *)
ConnectFails ==
  /\ ~socket
  /\ breaks < MaxBreaks /\ breaks' = breaks + 1
  /\ backoff' = Min({2 * backoff, MAX_BACKOFF_SECONDS})
  /\ UNCHANGED <<conn, socket, connection, acceptingPlayers, writing, network, task, cluster,
                 confirmed, issued, commands, rounds>>

(* onConnect: the connection is there for all to use before the            *)
(* authentication is written.                                              *)
OnConnect ==
  /\ socket /\ connection # conn
  /\ connection' = conn
  /\ Write("connection", Authentication)
  /\ UNCHANGED <<backoff, conn, socket, acceptingPlayers, network, task, cluster, history>>

Reading == socket /\ connection = conn /\ writing["connection"] = None

(* onPingPacket: the flag is read, then the answer written.                *)
OnPingPacket ==
  /\ Reading /\ pings[conn] > 0
  /\ pings' = [pings EXCEPT ![conn] = @ - 1]
  /\ IF acceptingPlayers THEN Write("connection", Pong) ELSE UNCHANGED writing
  /\ UNCHANGED <<link, acceptingPlayers, up, sent, task, cluster, history>>

(* An IOException leaves the try statement, which closes the connection.   *)
Disconnect ==
  /\ socket' = FALSE
  /\ up' = [up EXCEPT ![conn] = FALSE]
  /\ writing' = [writing EXCEPT !["connection"] = None]
  /\ pings' = [pings EXCEPT ![conn] = 0]
  /\ UNCHANGED <<backoff, conn, connection, acceptingPlayers, sent, task, cluster, history>>

ReadFails ==
  /\ Reading /\ (~up[conn] \/ ~Held(conn))
  /\ Disconnect

(* The commands.  The flag is set before its new value is sent.            *)
RequestCommand(r) ==
  /\ writing["main"] = None
  /\ r \notin issued /\ issued' = issued \cup {r}
  /\ commands < MaxCommands /\ commands' = commands + 1
  /\ Write("main", RequestMsg(r))
  /\ UNCHANGED <<link, acceptingPlayers, network, task, cluster, confirmed, rounds, breaks>>

CloseCommand(v) ==
  /\ writing["main"] = None
  /\ commands < MaxCommands /\ commands' = commands + 1
  /\ acceptingPlayers' = v
  /\ Write("main", UpdateActive(v))
  /\ UNCHANGED <<link, network, task, cluster, confirmed, issued, rounds, breaks>>

(* The connection a thread writes on: the listener's, read when it begins. *)
Target(t) == IF writing[t].on = 0 THEN connection ELSE writing[t].on

Open(c) == socket /\ c = conn

(* The length of a packet, then its payload.  A player is told that a      *)
(* request was sent when the write returns.                                *)
WriteNext(t) ==
  /\ writing[t] # None
  /\ LET w == writing[t]
         c == Target(t)
         part == IF w.on = 0 THEN "length" ELSE "payload"
     IN
       /\ Open(c)
       /\ sent' = IF Gone(c) \/ task[c] = "done" THEN sent
                  ELSE [sent EXCEPT ![c] = Append(@, [packet |-> w.packet, part |-> part])]
       /\ writing' = [writing EXCEPT ![t] = IF w.on = 0 THEN [@ EXCEPT !.on = c] ELSE None]
       /\ confirmed' = IF w.on # 0 /\ w.packet.type = "Request"
                       THEN confirmed \cup {<<w.packet.player, c>>} ELSE confirmed
  /\ UNCHANGED <<link, acceptingPlayers, up, pings, task, cluster, issued, commands, rounds,
                 breaks>>

(* The command ends in the exception, or, without a connection yet, in a   *)
(* NullPointerException.                                                   *)
CommandFails ==
  /\ writing["main"] # None
  /\ LET c == Target("main") IN ~(Open(c) /\ ~Gone(c))
  /\ writing' = [writing EXCEPT !["main"] = None]
  /\ UNCHANGED <<link, acceptingPlayers, network, task, cluster, history>>

ConnectionWriteFails ==
  /\ socket /\ writing["connection"] # None /\ Gone(conn)
  /\ Disconnect

-----------------------------------------------------------------------------
(* handle_client.                                                          *)

(* The next packet is there when its length is followed by its payload.    *)
(* When something else comes in between, the bytes read in place of the    *)
(* payload begin with a length, which decodes to no packet.                *)
NextPacket(frames) ==
  IF Len(frames) >= 2 /\ frames[2] = [frames[1] EXCEPT !.part = "payload"]
  THEN frames[1].packet ELSE None

Garbled(frames) == Len(frames) >= 3 /\ NextPacket(frames) = None

Take(c) == sent' = [sent EXCEPT ![c] = SubSeq(@, 3, Len(@))]
Drop(c) == sent' = [sent EXCEPT ![c] = <<>>]

ReadError(c) == Garbled(sent[c]) \/ ~up[c]

(* The first packet must be the authentication; otherwise the task ends    *)
(* and the brain never hears of the connection.                            *)
Authenticate(c) ==
  /\ task[c] = "auth"
  /\ \/ /\ NextPacket(sent[c]) = Authentication
        /\ task' = [task EXCEPT ![c] = "reading"]
        /\ messages' = Append(messages, NewConn(c))
        /\ Take(c)
     \/ /\ ReadError(c) \/ NextPacket(sent[c]) \notin {Authentication, None}
        /\ task' = [task EXCEPT ![c] = "done"]
        /\ UNCHANGED messages
        /\ Drop(c)
  /\ UNCHANGED <<plugin, up, pings, boot, servers, history>>

(* A packet is passed on; what a pong does is the cluster's business, and  *)
(* MinigameCluster's.                                                      *)
ReadPacket(c) ==
  /\ task[c] = "reading" /\ NextPacket(sent[c]) # None
  /\ Take(c)
  /\ LET packet == NextPacket(sent[c]) IN
     IF packet.type = "Pong" THEN UNCHANGED messages ELSE messages' = Append(messages, packet)
  /\ UNCHANGED <<plugin, up, pings, task, boot, servers, history>>

EndOfConnection(c) ==
  /\ task' = [task EXCEPT ![c] = "done"]
  /\ messages' = Append(messages, Unlink(c))

ReadPacketFails(c) ==
  /\ task[c] = "reading" /\ ReadError(c)
  /\ EndOfConnection(c)
  /\ Drop(c)
  /\ UNCHANGED <<plugin, up, pings, boot, servers, history>>

-----------------------------------------------------------------------------
(* The brain and the cluster.                                              *)

PutAside(m) == buffer' = Append(buffer, m)

(* The brain, waiting for the proxy.                                       *)
Buffer ==
  /\ phase = "boot" /\ messages # <<>>
  /\ PutAside(Head(messages)) /\ aside' = TRUE
  /\ messages' = Tail(messages)
  /\ UNCHANGED <<plugin, network, task, phase, servers, history>>

ProxyJoins ==
  /\ phase = "boot" /\ phase' = "resend"
  /\ UNCHANGED <<plugin, network, task, buffer, aside, messages, servers, history>>

(* What was put aside is sent behind what came in the meantime.            *)
Resend ==
  /\ phase = "resend"
  /\ \/ /\ buffer # <<>>
        /\ messages' = Append(messages, Head(buffer)) /\ buffer' = Tail(buffer)
        /\ UNCHANGED phase
     \/ /\ buffer = <<>> /\ phase' = "main"
        /\ UNCHANGED <<buffer, messages>>
  /\ UNCHANGED <<plugin, network, task, aside, servers, history>>

PushServer(c) == servers' = Append(servers, [conn |-> c, active |-> TRUE])

(* The first entry of the name, which is all that is known of a server.    *)
PopServer == servers' = IF servers = <<>> THEN servers ELSE Tail(servers)

SetActive(v) ==
  servers' = IF servers = <<>> THEN servers ELSE [servers EXCEPT ![1].active = v]

Dispatch(r) == confirmed' = {x \in confirmed : x[1] # r}

HandleMessage ==
  /\ phase = "main" /\ messages # <<>>
  /\ messages' = Tail(messages)
  /\ LET m == Head(messages) IN
     \/ m.type = "NewConn" /\ PushServer(m.conn) /\ UNCHANGED confirmed
     \/ m.type = "Unlink" /\ PopServer /\ UNCHANGED confirmed
     \/ m.type = "UpdateActive" /\ SetActive(m.active) /\ UNCHANGED confirmed
     \/ m.type = "Request" /\ Dispatch(m.player) /\ UNCHANGED servers
  /\ UNCHANGED <<plugin, network, task, boot, issued, commands, rounds, breaks>>

(* A round of the cluster pings all active servers; nothing arrives on a   *)
(* connection that is gone.                                                *)
PingActive ==
  /\ rounds < MaxPings /\ rounds' = rounds + 1
  /\ pings' = [c \in Conn |->
       IF up[c] /\ \E i \in DOMAIN servers : servers[i] = [conn |-> c, active |-> TRUE]
       THEN pings[c] + 1 ELSE pings[c]]
  /\ UNCHANGED <<plugin, up, sent, task, cluster, confirmed, issued, commands, breaks>>

(* The network breaks the connection.                                      *)
Breaks ==
  /\ socket /\ up[conn]
  /\ breaks < MaxBreaks /\ breaks' = breaks + 1
  /\ up' = [up EXCEPT ![conn] = FALSE]
  /\ UNCHANGED <<plugin, sent, pings, task, cluster, confirmed, issued, commands, rounds>>

Init ==
  /\ backoff = 1 /\ conn = 0 /\ socket = FALSE /\ connection = 0
  /\ acceptingPlayers = FALSE
  /\ writing = [t \in Thread |-> None]
  /\ up = [c \in Conn |-> FALSE]
  /\ sent = [c \in Conn |-> <<>>]
  /\ pings = [c \in Conn |-> 0]
  /\ task = [c \in Conn |-> "none"]
  /\ phase = "boot" /\ aside = FALSE
  /\ buffer = <<>> /\ messages = <<>> /\ servers = <<>>
  /\ confirmed = {} /\ issued = {}
  /\ commands = 0 /\ rounds = 0 /\ breaks = 0

ConnectionThread ==
  \/ Connect \/ OnConnect \/ OnPingPacket \/ ReadFails
  \/ WriteNext("connection") \/ ConnectionWriteFails
MainThread == WriteNext("main") \/ CommandFails
ClientTask(c) == Authenticate(c) \/ ReadPacket(c) \/ ReadPacketFails(c)
BrainTask == Buffer \/ Resend \/ HandleMessage

Next ==
  \/ ConnectionThread \/ MainThread
  \/ \E r \in Request : RequestCommand(r)
  \/ \E v \in BOOLEAN : CloseCommand(v)
  \/ \E c \in Conn : ClientTask(c)
  \/ BrainTask
  \/ ProxyJoins \/ PingActive \/ Breaks \/ ConnectFails

Spec == Init /\ [][Next]_vars

(* The threads of the plugin run, tokio runs tasks that can run, and both  *)
(* ends of a broken connection come to see it.  No command is ever due,    *)
(* nor that a proxy connects.                                              *)
Fairness ==
  /\ WF_vars(ConnectionThread)
  /\ WF_vars(MainThread)
  /\ WF_vars(\E c \in Conn : ClientTask(c))
  /\ WF_vars(BrainTask)

FairSpec == Spec /\ Fairness

-----------------------------------------------------------------------------
(* Properties.                                                             *)

Frame   == [packet : Packet, part : {"length", "payload"}]
Message == {NewConn(c) : c \in Conn} \cup {Unlink(c) : c \in Conn}
             \cup (Packet \ {Authentication, Pong})

(* Every variable holds a value of its type.                               *)
TypeOK ==
  /\ backoff \in 1 .. MAX_BACKOFF_SECONDS
  /\ conn \in 0 .. MaxConns /\ connection \in 0 .. conn
  /\ socket \in BOOLEAN /\ acceptingPlayers \in BOOLEAN
  /\ writing \in [Thread -> Writing \cup {None}]
  /\ up \in [Conn -> BOOLEAN]
  /\ sent \in [Conn -> Seq(Frame)]
  /\ pings \in [Conn -> 0 .. MaxPings]
  /\ task \in [Conn -> {"none", "auth", "reading", "done"}]
  /\ phase \in {"boot", "resend", "main"} /\ aside \in BOOLEAN
  /\ buffer \in Seq(Message) /\ messages \in Seq(Message)
  /\ servers \in Seq([conn : Conn, active : BOOLEAN])
  /\ confirmed \subseteq Request \X Conn /\ issued \subseteq Request
  /\ commands \in 0 .. MaxCommands /\ rounds \in 0 .. MaxPings /\ breaks \in 0 .. MaxBreaks

(* The server is in the cluster once, with the connection it has.          *)
Registered ==
  /\ Reading /\ up[conn] /\ task[conn] = "reading"
  /\ Len(servers) = 1 /\ servers[1].conn = conn

(* Both sides are at rest: nothing is being written, read or handled, and  *)
(* neither has an end of a connection still to see.                        *)
Quiet ==
  /\ Reading /\ writing["main"] = None
  /\ up[conn] /\ Held(conn)
  /\ phase = "main" /\ messages = <<>>
  /\ \A c \in Conn : task[c] # "auth" /\ (task[c] = "reading" => up[c] /\ sent[c] = <<>>)

(* The cluster takes a server out by its name, the first entry it finds,   *)
(* which after a reconnect may be the wrong one (minigame_cluster.rs:137). *)
(* It drops that entry's connection, though, so that the server comes      *)
(* back: whenever both sides are at rest, the cluster holds the connection *)
(* the server has, and nothing else.  This needs a brain that never put a  *)
(* message of the server aside: an Unlink may overtake a NewConn that was, *)
(* and the server then stays in the vector twice.                          *)
TableHeals == Quiet /\ ~aside => Registered

(* "an active minigame server will receive [`Ping`]s"                      *)
(* (controller/src/transport.rs:115): a server that accepts players is not *)
(* left inactive, although updates sent over an earlier connection may be  *)
(* lost, come late, or reach the entry of another connection.  An update   *)
(* that was put aside while the brain waited for the proxy undoes a newer  *)
(* one, so that this too needs a brain that never put one aside.           *)
WillingServerActive ==
  Quiet /\ acceptingPlayers /\ ~aside =>
    \E i \in DOMAIN servers : servers[i] = [conn |-> conn, active |-> TRUE]

(* "you will be sent to a minigame server shortly (if you are not, try     *)
(* again)" (server/commands/RequestCommand.java:43): a request the player  *)
(* was told of is lost only when its connection is, whatever else was      *)
(* being written at the time.                                              *)
ConfirmedRequestsArrive ==
  \A x \in confirmed :
    up[x[2]] /\ task[x[2]] = "reading" => sent[x[2]] # <<>> \/ messages # <<>> \/ buffer # <<>>

(* Once the network is well and the commands are over, the server is       *)
(* registered with the connection it has, for good: neither mixed frames   *)
(* nor the wrong entry taken out make it reconnect for ever.  This is for  *)
(* a brain that leaves its boot loop and, as above, put nothing aside.     *)
EventuallyRegistered == <>[](Registered \/ aside \/ phase = "boot")
=============================================================================

-------------------------- MODULE MinigameCluster --------------------------
(***************************************************************************)
(* The task run_minigame_cluster (controller/src/minigame_cluster.rs): the *)
(* message loop that keeps the servers of one minigame kind and finds a    *)
(* server for each queue request, one request at a time.  For a request it *)
(* pings every active server and gives the request to the first one that   *)
(* answers; if none answers before a one-second timer completes, it asks   *)
(* the brain to start a server and gives the request to the next server    *)
(* that joins.                                                             *)
(*                                                                         *)
(* The loop handles one message at a time.  The only await inside a        *)
(* handler that other tasks can see is the write of a ping, so QueueServer *)
(* is the one handler split into steps: receive, one step per server, and  *)
(* the start of the timer.  Everything that happens outside the task (the  *)
(* brain forwarding messages, servers answering or dying, timers) is the   *)
(* environment below.                                                      *)
(***************************************************************************)
EXTENDS Integers, FiniteSets, SequencesExt

CONSTANTS
  Kind,               \* the minigame kind this cluster serves
  Conn,               \* connections of minigame servers; a reconnect is another one
  Name,               \* server names
  NameOf,             \* the name each connection authenticated with
  Started,            \* connections of the servers that Spawn messages start
  Request,            \* one-shot reply channels (oneshot::Sender<ServerName>)
  MinTimer, MaxTimer, \* i32::MIN and i32::MAX
  SocketBuffer,       \* unread pings a connection holds before a write blocks
  MaxUpdates,         \* bound: UpdateActive packets the servers send
  None

ASSUME ConfigAssumption ==
  /\ NameOf \in [Conn -> Name]
  /\ Started \subseteq Conn
  /\ MinTimer \in Int /\ MaxTimer \in Int /\ MinTimer <= 0 /\ 0 <= MaxTimer
  /\ SocketBuffer \in Nat \ {0}
  /\ MaxUpdates \in Nat
  /\ None \notin Request /\ None \notin Name

Timer == MinTimer .. MaxTimer

VARIABLES
  servers,     \* Vec<MinigameServer>
  state,       \* ClusterQueueState, with the reply channel it owns
  queue_reqs,  \* requests received while not Idle
  timer_now,   \* label of the current round
  next_ping,   \* index of the ping loop into servers, 0 outside the loop
  reader,      \* the task's unbounded channel
  timers,      \* sleeping timer tasks, each with the request it was started for
  to_brain,    \* Spawn messages the brain has not acted on yet
  answer,      \* what each one-shot channel delivered
  wire,        \* pings written to a connection and not read by its server
  issued,      \* requests whose dispatch task exists and awaits (or got) its answer
  link,        \* "new", "up", "closing" (the controller dropped its write half),
               \* "down" (lost, not noticed yet) or "gone" (Unlink sent)
  updates,     \* UpdateActive packets sent so far
  pinged       \* history: connections pinged in the current round

task == <<servers, state, queue_reqs, timer_now, next_ping, pinged>>
env  == <<link, issued, updates>>
vars == <<servers, state, queue_reqs, timer_now, next_ping, reader, timers,
          to_brain, answer, wire, issued, link, updates, pinged>>

-----------------------------------------------------------------------------
(* Data.                                                                   *)

Server == [conn : Conn, name : Name, active : BOOLEAN]

Idle == [tag |-> "Idle", server |-> None]
RecvPong(r) == [tag |-> "RecvPong", server |-> r]
Starting(r) == [tag |-> "Starting", server |-> r]
State == {Idle} \cup {RecvPong(r) : r \in Request} \cup {Starting(r) : r \in Request}

PushServer(c)         == [type |-> "PushServer", conn |-> c]
PopServer(c)          == [type |-> "PopServer", conn |-> c]
UpdateActive(n, b)    == [type |-> "UpdateActive", name |-> n, active |-> b]
QueueServer(r)        == [type |-> "QueueServer", server |-> r]
ServerPong(t, n)      == [type |-> "ServerPong", timer |-> t, name |-> n]
TimerCompleted(t)     == [type |-> "TimerCompleted", timer |-> t]

ClusterMsg ==
       {PushServer(c) : c \in Conn}
  \cup {PopServer(c) : c \in Conn}
  \cup {UpdateActive(n, b) : n \in Name, b \in BOOLEAN}
  \cup {QueueServer(r) : r \in Request}
  \cup {ServerPong(t, n) : t \in Timer, n \in Name}
  \cup {TimerCompleted(t) : t \in Timer}

Spawn == [type |-> "Spawn", kind |-> Kind]

(* Vec::iter().position(|s| s.name == n): the first entry with the name.   *)
Named(n) == {i \in DOMAIN servers : servers[i].name = n}
Position(n) == CHOOSE i \in Named(n) : \A j \in Named(n) : i <= j

-----------------------------------------------------------------------------
(* Variants of the definitions below, as a slip in the code would have     *)
(* them; each shows that some property notices.                            *)

NextTimerForgotten(t) == t
NextTimerOverflows(t) == t + 1
LateIgnored(timer) == FALSE
AlwaysAccepts == TRUE
GoIdleDropsRequest(rest) ==
  /\ state' = Idle
  /\ reader' = rest
  /\ queue_reqs' = IF queue_reqs = <<>> THEN <<>> ELSE Tail(queue_reqs)
GoIdleNoPriming(rest) ==
  /\ state' = Idle
  /\ reader' = rest
  /\ UNCHANGED queue_reqs
TimerTaskNextRound(r) == [timer |-> timer_now + 1, server |-> r]
RequestServerForgotten == UNCHANGED to_brain
NewServerInactive(c) == [conn |-> c, name |-> NameOf[c], active |-> FALSE]

-----------------------------------------------------------------------------
(* The message loop.                                                       *)

(* i32::wrapping_add(1) *)
NextTimer(t) == IF t = MaxTimer THEN MinTimer ELSE t + 1

Receive(type) ==
  /\ next_ping = 0
  /\ reader # <<>>
  /\ Head(reader).type = type

msg == Head(reader)

(* A ServerPong or TimerCompleted of an earlier round is ignored.          *)
Late(timer) == timer # timer_now

(* Idle is the state in which a queue request can be taken up.             *)
CanAccept == state.tag = "Idle"

(* Back to Idle, re-queueing the oldest buffered request through the       *)
(* task's own channel; rest is what the channel holds after the message    *)
(* being handled.                                                          *)
GoIdle(rest) ==
  /\ state' = Idle
  /\ IF queue_reqs = <<>>
     THEN /\ reader' = rest
          /\ UNCHANGED queue_reqs
     ELSE /\ reader' = Append(rest, QueueServer(Head(queue_reqs)))
          /\ queue_reqs' = Tail(queue_reqs)

Respond(r, n) == answer' = [answer EXCEPT ![r] = n]

NewServer(c) == [conn |-> c, name |-> NameOf[c], active |-> TRUE]

(* A server joined: it is registered, and serves the request that waits    *)
(* for a server to start, if there is one.                                 *)
HandlePushServer ==
  /\ Receive("PushServer")
  /\ servers' = Append(servers, NewServer(msg.conn))
  /\ IF state.tag = "Starting"
     THEN /\ Respond(state.server, NameOf[msg.conn])
          /\ GoIdle(Tail(reader))
     ELSE /\ reader' = Tail(reader)
          /\ UNCHANGED <<state, queue_reqs, answer>>
  /\ UNCHANGED <<timer_now, next_ping, timers, to_brain, wire, env, pinged>>

(* A connection ended: the first server with its name is removed, and with *)
(* it the write half of that server's connection.                          *)
HandlePopServer ==
  /\ Receive("PopServer")
  /\ reader' = Tail(reader)
  /\ LET n == NameOf[msg.conn] IN
       IF Named(n) = {}
       THEN UNCHANGED <<servers, link>>
       ELSE LET i == Position(n) IN
            /\ servers' = RemoveAt(servers, i)
            /\ link' = [link EXCEPT ![servers[i].conn] = IF @ = "up" THEN "closing" ELSE @]
  /\ UNCHANGED <<state, queue_reqs, timer_now, next_ping, timers, to_brain,
                 answer, wire, issued, updates, pinged>>

HandleUpdateActive ==
  /\ Receive("UpdateActive")
  /\ reader' = Tail(reader)
  /\ servers' = IF Named(msg.name) = {} THEN servers
                ELSE [servers EXCEPT ![Position(msg.name)].active = msg.active]
  /\ UNCHANGED <<state, queue_reqs, timer_now, next_ping, timers, to_brain,
                 answer, wire, env, pinged>>

(* A queue request: taken up if Idle, buffered otherwise.                  *)
HandleQueueServer ==
  /\ Receive("QueueServer")
  /\ reader' = Tail(reader)
  /\ IF CanAccept
     THEN /\ state' = RecvPong(msg.server)
          /\ next_ping' = 1
          /\ pinged' = {}
          /\ UNCHANGED queue_reqs
     ELSE /\ queue_reqs' = Append(queue_reqs, msg.server)
          /\ UNCHANGED <<state, next_ping, pinged>>
  /\ UNCHANGED <<servers, timer_now, timers, to_brain, answer, wire, env>>

(* The loop over the active servers: the write to a live connection waits  *)
(* for room in its buffer, the write to a dead one fails and is logged.    *)
Ping ==
  /\ next_ping \in DOMAIN servers
  /\ LET s == servers[next_ping] IN
       IF s.active /\ link[s.conn] = "up"
       THEN /\ Len(wire[s.conn]) < SocketBuffer
            /\ wire' = [wire EXCEPT ![s.conn] = Append(@, timer_now)]
            /\ pinged' = pinged \cup {s.conn}
       ELSE UNCHANGED <<wire, pinged>>
  /\ next_ping' = next_ping + 1
  /\ UNCHANGED <<servers, state, queue_reqs, timer_now, reader, timers,
                 to_brain, answer, env>>

TimerTask(r) == [timer |-> timer_now, server |-> r]

(* The end of the QueueServer handler: the timer task is spawned.          *)
StartTimer ==
  /\ next_ping > Len(servers)
  /\ timers' = timers \cup {TimerTask(state.server)}
  /\ next_ping' = 0
  /\ UNCHANGED <<servers, state, queue_reqs, timer_now, reader, to_brain,
                 answer, wire, env, pinged>>

(* The first server to answer this round's ping gets the request.          *)
HandleServerPong ==
  /\ Receive("ServerPong")
  /\ IF Late(msg.timer) \/ state.tag # "RecvPong"
     THEN /\ reader' = Tail(reader)
          /\ UNCHANGED <<state, queue_reqs, timer_now, answer>>
     ELSE /\ Respond(state.server, msg.name)
          /\ timer_now' = NextTimer(timer_now)
          /\ GoIdle(Tail(reader))
  /\ UNCHANGED <<servers, next_ping, timers, to_brain, wire, env, pinged>>

RequestServer == to_brain' = Append(to_brain, Spawn)

(* No server answered in time: the brain is told to start one.             *)
HandleTimerCompleted ==
  /\ Receive("TimerCompleted")
  /\ reader' = Tail(reader)
  /\ IF Late(msg.timer) \/ state.tag # "RecvPong"
     THEN UNCHANGED <<state, timer_now, to_brain>>
     ELSE /\ state' = Starting(state.server)
          /\ timer_now' = NextTimer(timer_now)
          /\ RequestServer
  /\ UNCHANGED <<servers, queue_reqs, next_ping, timers, answer, wire, env, pinged>>

ClusterStep ==
  \/ HandlePushServer
  \/ HandlePopServer
  \/ HandleUpdateActive
  \/ HandleQueueServer
  \/ Ping
  \/ StartTimer
  \/ HandleServerPong
  \/ HandleTimerCompleted

-----------------------------------------------------------------------------
(* The environment.                                                        *)

Send(m) == reader' = Append(reader, m)

(* A timer task wakes up after its second.                                 *)
TimerFires ==
  /\ \E t \in timers :
       /\ timers' = timers \ {t}
       /\ Send(TimerCompleted(t.timer))
  /\ UNCHANGED <<task, to_brain, answer, wire, env>>

(* The brain dispatches a Request packet to this cluster: a reply channel  *)
(* is created and its sending half queued.                                 *)
Dispatch(r) ==
  /\ r \notin issued
  /\ issued' = issued \cup {r}
  /\ Send(QueueServer(r))
  /\ UNCHANGED <<task, timers, to_brain, answer, wire, link, updates>>

(* A server connects and the brain pushes it into the cluster: one that a  *)
(* Spawn started, or one that comes on its own (it reconnects, or an       *)
(* operator ran it).                                                       *)
Connect(c) ==
  /\ link[c] = "new"
  /\ link' = [link EXCEPT ![c] = "up"]
  /\ Send(PushServer(c))
  /\ IF c \in Started
     THEN to_brain # <<>> /\ to_brain' = Tail(to_brain)
     ELSE UNCHANGED to_brain
  /\ UNCHANGED <<task, timers, answer, wire, issued, updates>>

(* A server reads a ping, and answers it if it accepts players.            *)
ReadPing(c) ==
  /\ link[c] \in {"up", "closing"}
  /\ wire[c] # <<>>
  /\ wire' = [wire EXCEPT ![c] = Tail(@)]
  /\ \/ Send(ServerPong(Head(wire[c]), NameOf[c]))
     \/ UNCHANGED reader
  /\ UNCHANGED <<task, timers, to_brain, answer, env>>

SetActive(c, b) ==
  /\ link[c] \in {"up", "closing"}
  /\ updates < MaxUpdates
  /\ updates' = updates + 1
  /\ Send(UpdateActive(NameOf[c], b))
  /\ UNCHANGED <<task, timers, to_brain, answer, wire, issued, link>>

(* The server's end of the connection goes away, with the pings it did not *)
(* read.                                                                   *)
Lose(c) ==
  /\ link[c] \in {"up", "closing"}
  /\ link' = [link EXCEPT ![c] = "down"]
  /\ wire' = [wire EXCEPT ![c] = <<>>]
  /\ UNCHANGED <<task, reader, timers, to_brain, answer, issued, updates>>

(* The controller notices, and the brain pops the server.                  *)
Unlink(c) ==
  /\ link[c] = "down"
  /\ link' = [link EXCEPT ![c] = "gone"]
  /\ Send(PopServer(c))
  /\ UNCHANGED <<task, timers, to_brain, answer, wire, issued, updates>>

Init ==
  /\ servers = <<>>
  /\ state = Idle
  /\ queue_reqs = <<>>
  /\ timer_now = 0
  /\ next_ping = 0
  /\ reader = <<>>
  /\ timers = {}
  /\ to_brain = <<>>
  /\ answer = [r \in Request |-> None]
  /\ wire = [c \in Conn |-> <<>>]
  /\ issued = {}
  /\ link = [c \in Conn |-> "new"]
  /\ updates = 0
  /\ pinged = {}

Next ==
  \/ ClusterStep
  \/ TimerFires
  \/ \E r \in Request : Dispatch(r)
  \/ \E c \in Conn : Connect(c) \/ ReadPing(c) \/ Lose(c) \/ Unlink(c)
  \/ \E c \in Conn, b \in BOOLEAN : SetActive(c, b)

Spec == Init /\ [][Next]_vars

(* tokio runs a task that can run and wakes a task whose sleep is over, and *)
(* Docker brings up the servers it was told to start.  Nothing is assumed  *)
(* of servers that are up: they may never answer, or never read.           *)
Fairness ==
  /\ WF_vars(ClusterStep)
  /\ WF_vars(TimerFires)
  /\ WF_vars(\E c \in Started : Connect(c))

FairSpec == Spec /\ Fairness

-----------------------------------------------------------------------------
(* Properties.                                                             *)

(* Every variable holds a value of its Rust type.                          *)
TypeOK ==
  /\ servers \in Seq(Server)
  /\ state \in State
  /\ queue_reqs \in Seq(Request)
  /\ timer_now \in Timer
  /\ next_ping \in 0 .. Len(servers) + 1
  /\ reader \in Seq(ClusterMsg)
  /\ timers \subseteq [timer : Timer, server : Request]
  /\ to_brain \in Seq({Spawn})
  /\ answer \in [Request -> Name \cup {None}]
  /\ wire \in [Conn -> Seq(Timer)]
  /\ issued \subseteq Request
  /\ link \in [Conn -> {"new", "up", "closing", "down", "gone"}]
  /\ updates \in 0 .. MaxUpdates
  /\ pinged \subseteq Conn

(* Where the sending half of r's reply channel is, or that it was used.    *)
Places(r) ==
       {<<"reader", i>> : i \in {j \in DOMAIN reader : reader[j] = QueueServer(r)}}
  \cup {<<"queue_reqs", i>> : i \in {j \in DOMAIN queue_reqs : queue_reqs[j] = r}}
  \cup {p \in {<<"state", 0>>} : state.server = r}
  \cup {p \in {<<"answer", 0>>} : answer[r] # None}

(* The reply channel of an issued request is in exactly one place until it *)
(* is used: it is never overwritten, dropped or queued twice, so that the  *)
(* "cannot fail" of queue_server's future is true while the task runs.     *)
RequestConserved ==
  \A r \in Request :
    IF r \in issued THEN \E p \in Places(r) : Places(r) = {p} ELSE Places(r) = {}

(* Requests are never left in the buffer with nobody to look at them: when *)
(* the task is Idle and has buffered requests, a QueueServer message is on *)
(* its channel, whose handling ends in another pop of the buffer.          *)
NoLostWakeup ==
  state = Idle /\ queue_reqs # <<>> =>
    \E i \in DOMAIN reader : reader[i].type = "QueueServer"

PendingTimeout(t) ==
  \/ \E x \in timers : x.timer = t
  \/ \E i \in DOMAIN reader : reader[i] = TimerCompleted(t)

(* While the task waits for pongs, the timeout of this very round is still *)
(* to come, so that a round nobody answers is not waited for forever.      *)
RoundHasTimer ==
  state.tag = "RecvPong" /\ next_ping = 0 => PendingTimeout(timer_now)

PendingPong(t) ==
  \/ \E c \in Conn : \E i \in DOMAIN wire[c] : wire[c][i] = t
  \/ \E i \in DOMAIN reader : reader[i].type = "ServerPong" /\ reader[i].timer = t

(* Events of earlier rounds never carry the label of the current one: out  *)
(* of RecvPong nothing pending is labelled timer_now, and a round starts   *)
(* without a timeout that would cut it short.  A late pong or timeout is   *)
(* therefore always recognised, and the branches that meet one in another  *)
(* state are never taken.                                                  *)
StaleEventsIgnored ==
  /\ state.tag # "RecvPong" => ~PendingTimeout(timer_now) /\ ~PendingPong(timer_now)
  /\ state.tag = "RecvPong" /\ next_ping # 0 => ~PendingTimeout(timer_now)
  /\ \A x, y \in timers : x.timer = timer_now /\ y.timer = timer_now => x = y

(* A request answered without starting a server goes to a server that was  *)
(* pinged for this request, hence active when its round began, and not to  *)
(* one that answered an earlier round.                                     *)
AnsweredByPingedServer ==
  [][\A r \in Request :
       answer'[r] # answer[r] /\ state.tag = "RecvPong" =>
         \E c \in pinged : answer'[r] = NameOf[c]]_vars

(* The cluster keeps the promise of QueueService: a request is answered    *)
(* once, with a server that is registered at that moment, and is nowhere   *)
(* lost.  A request is pending while its channel is in the task's hands.   *)
InHand(r) ==
  \/ \E i \in DOMAIN reader : reader[i] = QueueServer(r)
  \/ \E i \in DOMAIN queue_reqs : queue_reqs[i] = r
  \/ state.server = r

QS == INSTANCE QueueService WITH
        pending <- {r \in Request : InHand(r)},
        members <- {servers[i].name : i \in DOMAIN servers}

ImplementsQueueService == QS!Spec

(* Every request is eventually given a server, whatever the servers do.    *)
EveryRequestAnswered == \A r \in Request : r \in issued ~> answer[r] # None

(* A round ends even if no pinged server ever answers.                     *)
RoundEnds ==
  \A r \in Request : state = RecvPong(r) ~> state # RecvPong(r)

(* "we can never block the event loop (the receiving loop)"                *)
(* (controller/src/minigame_cluster.rs:98): a handler that was entered     *)
(* comes back to the loop.                                                 *)
LoopNeverBlocks == next_ping # 0 ~> next_ping = 0
=============================================================================

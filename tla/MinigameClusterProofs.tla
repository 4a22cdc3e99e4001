----------------------- MODULE MinigameClusterProofs -----------------------
(***************************************************************************)
(* Theorems about MinigameCluster: type correctness, the two safety        *)
(* properties that keep a cluster from getting stuck, and the conservation *)
(* of requests, for any number of servers, connections, requests and any   *)
(* width of the timer label.                                               *)
(***************************************************************************)
EXTENDS MinigameCluster, ChannelLemmas, SequenceTheorems, NaturalsInduction,
        WellFoundedInduction, TLAPS

-----------------------------------------------------------------------------
(* Messages and sequences.                                                 *)

(* The fields of a message on the task's channel, by its type.             *)
LEMMA MsgFields ==
  ASSUME NEW m \in ClusterMsg
  PROVE  /\ m.type = "PushServer" => m.conn \in Conn /\ m = PushServer(m.conn)
         /\ m.type = "PopServer" => m.conn \in Conn /\ m = PopServer(m.conn)
         /\ m.type = "UpdateActive" => m.name \in Name /\ m.active \in BOOLEAN
         /\ m.type = "QueueServer" => m.server \in Request /\ m = QueueServer(m.server)
         /\ m.type = "ServerPong" =>
              m.timer \in Timer /\ m.name \in Name /\ m = ServerPong(m.timer, m.name)
         /\ m.type = "TimerCompleted" => m.timer \in Timer /\ m = TimerCompleted(m.timer)
BY DEF ClusterMsg, PushServer, PopServer, UpdateActive, QueueServer, ServerPong, TimerCompleted

(* Receiving the head of a channel leaves every other element on it.       *)
LEMMA TailKeeps ==
  ASSUME NEW S, NEW s \in Seq(S), s # <<>>,
         NEW i \in DOMAIN s, i # 1
  PROVE  \E j \in DOMAIN Tail(s) : Tail(s)[j] = s[i]
<1>1. i - 1 \in 1 .. Len(Tail(s)) /\ Tail(s)[i - 1] = s[(i - 1) + 1]
  BY HeadTailProperties
<1>2. i - 1 \in DOMAIN Tail(s) /\ (i - 1) + 1 = i
  BY <1>1, HeadTailProperties
<1> QED  BY <1>1, <1>2

(* Sending keeps what is on the channel, and the sent message is on it.    *)
LEMMA AppendKeeps ==
  ASSUME NEW S, NEW s \in Seq(S), NEW e \in S
  PROVE  /\ Append(s, e) \in Seq(S)
         /\ \A i \in DOMAIN s : i \in DOMAIN Append(s, e) /\ Append(s, e)[i] = s[i]
         /\ \E i \in DOMAIN Append(s, e) : Append(s, e)[i] = e
BY AppendProperties

(* Removing an element shortens a sequence by one and nothing else enters. *)
LEMMA RemoveAtType ==
  ASSUME NEW S, NEW s \in Seq(S), NEW i \in DOMAIN s
  PROVE  RemoveAt(s, i) \in Seq(S) /\ Len(RemoveAt(s, i)) = Len(s) - 1
<1>1. SubSeq(s, 1, i - 1) \in Seq(S) /\ Len(SubSeq(s, 1, i - 1)) = i - 1
  BY SubSeqProperties
<1>2. SubSeq(s, i + 1, Len(s)) \in Seq(S) /\ Len(SubSeq(s, i + 1, Len(s))) = Len(s) - i
  BY SubSeqProperties
<1> DEFINE a == SubSeq(s, 1, i - 1)
           b == SubSeq(s, i + 1, Len(s))
<1>3. a \o b \in Seq(S) /\ Len(a \o b) = Len(a) + Len(b)
  BY <1>1, <1>2, ConcatProperties
<1>4. i \in Nat /\ Len(s) \in Nat
  OBVIOUS
<1>5. Len(a) = i - 1 /\ Len(b) = Len(s) - i
  BY <1>1, <1>2
<1> HIDE DEF a, b
<1>6. Len(a) + Len(b) = Len(s) - 1
  BY <1>4, <1>5
<1> QED  BY <1>3, <1>6 DEF RemoveAt, a, b

(* Position picks an index of servers that holds the name.                 *)
LEMMA PositionIn ==
  ASSUME servers \in Seq(Server), NEW n, Named(n) # {}
  PROVE  Position(n) \in DOMAIN servers /\ servers[Position(n)].name = n
<1>1. Named(n) \subseteq Nat
  BY DEF Named
<1>2. PICK i \in Named(n) : \A j \in Named(n) : ~(<<j, i>> \in OpToRel(<, Nat))
  BY <1>1, WFMin, NatLessThanWellFounded, Zenon
<1>3. ASSUME NEW j \in Named(n)  PROVE i <= j
  <2>1. <<j, i>> \in Nat \X Nat /\ i \in Nat /\ j \in Nat
    BY <1>1
  <2>2. ~(j < i)
    <3>1. <<j, i>> \notin OpToRel(<, Nat)
      BY <1>2
    <3> QED  BY <2>1, <3>1, Zenon DEF OpToRel
  <2> QED  BY <2>1, <2>2
<1>4. Position(n) \in Named(n)
  BY <1>3 DEF Position
<1> QED  BY <1>4 DEF Named

-----------------------------------------------------------------------------
(* Type correctness.                                                       *)

(* A message sent to the task's own channel keeps the channel well typed.  *)
LEMMA SendTyped ==
  ASSUME TypeOK, NEW m \in ClusterMsg, Send(m)
  PROVE  reader' \in Seq(ClusterMsg)
BY AppendProperties DEF Send, TypeOK

(* What Receive(type) establishes of a well-typed channel.                 *)
LEMMA Received ==
  ASSUME TypeOK, NEW type, Receive(type)
  PROVE  /\ msg \in ClusterMsg /\ msg.type = type
         /\ Tail(reader) \in Seq(ClusterMsg)
         /\ reader # <<>>
BY HeadTailProperties DEF Receive, TypeOK, msg

(* Going back to Idle keeps the buffers well typed.                        *)
LEMMA GoIdleTyped ==
  ASSUME TypeOK, NEW rest \in Seq(ClusterMsg), GoIdle(rest)
  PROVE  /\ state' \in State
         /\ reader' \in Seq(ClusterMsg)
         /\ queue_reqs' \in Seq(Request)
<1>1. state' \in State
  BY DEF GoIdle, State
<1>2. CASE queue_reqs = <<>>
  BY <1>1, <1>2 DEF GoIdle, TypeOK
<1>3. CASE queue_reqs # <<>>
  <2>1. Head(queue_reqs) \in Request /\ Tail(queue_reqs) \in Seq(Request)
    BY <1>3, HeadTailProperties DEF TypeOK
  <2>2. QueueServer(Head(queue_reqs)) \in ClusterMsg
    BY <2>1 DEF ClusterMsg
  <2>3. Append(rest, QueueServer(Head(queue_reqs))) \in Seq(ClusterMsg)
    BY <2>2, AppendProperties
  <2> QED  BY <1>1, <1>3, <2>1, <2>3 DEF GoIdle
<1> QED  BY <1>2, <1>3

(* The request a busy task works on.                                       *)
LEMMA BusyServer ==
  ASSUME state \in State, state.tag # "Idle"
  PROVE  state.server \in Request
BY DEF State, Idle, RecvPong, Starting

(* The label after the last one is the first one: labels stay in range.    *)
LEMMA NextTimerTyped ==
  ASSUME NEW t \in Timer
  PROVE  NextTimer(t) \in Timer
BY ConfigAssumption DEF Timer, NextTimer

(* The ping loop runs on behalf of a request: TypeOK is not inductive      *)
(* without it, because the timer task takes the request out of the state.  *)
PingsInRound == next_ping # 0 => state.tag = "RecvPong"

TypeInv == TypeOK /\ PingsInRound

LEMMA InitTypeInv == Init => TypeInv
BY ConfigAssumption DEF Init, TypeInv, TypeOK, PingsInRound, State, Timer

(* Only QueueServer enters the loop, and only messages handled outside of  *)
(* it change the state.                                                    *)
LEMMA NextPingsInRound == TypeInv /\ [Next]_vars => PingsInRound'
<1> SUFFICES ASSUME TypeInv, [Next]_vars PROVE PingsInRound'
  OBVIOUS
<1>1. CASE \/ HandlePushServer \/ HandlePopServer \/ HandleUpdateActive
           \/ HandleServerPong \/ HandleTimerCompleted
  BY <1>1 DEF HandlePushServer, HandlePopServer, HandleUpdateActive,
       HandleServerPong, HandleTimerCompleted, Receive, PingsInRound
<1>2. CASE HandleQueueServer
  BY <1>2 DEF HandleQueueServer, RecvPong, PingsInRound, Receive
<1>3. CASE Ping \/ StartTimer
  BY <1>3 DEF Ping, StartTimer, PingsInRound, TypeInv, TypeOK
<1>4. CASE \/ TimerFires
           \/ \E r \in Request : Dispatch(r)
           \/ \E c \in Conn : Connect(c) \/ ReadPing(c) \/ Lose(c) \/ Unlink(c)
           \/ \E c \in Conn, b \in BOOLEAN : SetActive(c, b)
  BY <1>4 DEF TimerFires, Dispatch, Connect, ReadPing, Lose, Unlink, SetActive,
       task, PingsInRound, TypeInv
<1>5. CASE UNCHANGED vars
  BY <1>5 DEF vars, PingsInRound, TypeInv
<1> QED  BY <1>1, <1>2, <1>3, <1>4, <1>5 DEF Next, ClusterStep

(* Every step of the task and of its environment keeps the types.          *)
LEMMA NextTypeOK == TypeInv /\ [Next]_vars => TypeOK'
<1> SUFFICES ASSUME TypeOK, PingsInRound, [Next]_vars PROVE TypeOK'
  BY DEF TypeInv
<1>1. CASE HandlePushServer
  <2>1. msg.conn \in Conn /\ Tail(reader) \in Seq(ClusterMsg)
    BY <1>1, Received, MsgFields DEF HandlePushServer
  <2>2. NewServer(msg.conn) \in Server
    BY <2>1, ConfigAssumption DEF NewServer, Server
  <2>3. servers' \in Seq(Server) /\ Len(servers') = Len(servers) + 1
    BY <1>1, <2>2, AppendProperties DEF HandlePushServer, TypeOK
  <2>4. next_ping' \in 0 .. Len(servers') + 1
    BY <1>1, <2>3 DEF HandlePushServer, Receive, TypeOK
  <2>5. CASE state.tag = "Starting"
    <3>1. state.server \in Request
      BY <2>5, BusyServer DEF TypeOK
    <3>2. answer' \in [Request -> Name \cup {None}]
      BY <1>1, <2>1, <2>5, <3>1, ConfigAssumption DEF HandlePushServer, Respond, TypeOK
    <3>3. GoIdle(Tail(reader))
      BY <1>1, <2>5 DEF HandlePushServer
    <3> QED
      BY <1>1, <2>1, <2>3, <2>4, <3>2, <3>3, GoIdleTyped DEF HandlePushServer, TypeOK, env
  <2>6. CASE state.tag # "Starting"
    BY <1>1, <2>1, <2>3, <2>4, <2>6 DEF HandlePushServer, TypeOK, env
  <2> QED  BY <2>5, <2>6
<1>2. CASE HandlePopServer
  <2>1. Tail(reader) \in Seq(ClusterMsg)
    BY <1>2, Received DEF HandlePopServer
  <2>2. /\ servers' \in Seq(Server)
        /\ link' \in [Conn -> {"new", "up", "closing", "down", "gone"}]
    <3>1. CASE Named(NameOf[msg.conn]) = {}
      BY <1>2, <3>1 DEF HandlePopServer, TypeOK
    <3>2. CASE Named(NameOf[msg.conn]) # {}
      <4> DEFINE i == Position(NameOf[msg.conn])
      <4>1. i \in DOMAIN servers
        BY <3>2, PositionIn DEF TypeOK
      <4>2. servers[i].conn \in Conn
        <5> HIDE DEF i
        <5>1. servers[i] \in Server
          BY <4>1 DEF TypeOK
        <5> QED  BY <5>1 DEF Server
      <4>3. servers' = RemoveAt(servers, i)
        BY <1>2, <3>2 DEF HandlePopServer
      <4>4. link' = [link EXCEPT ![servers[i].conn] = IF @ = "up" THEN "closing" ELSE @]
        BY <1>2, <3>2 DEF HandlePopServer
      <4> HIDE DEF i
      <4>5. servers' \in Seq(Server)
        BY <4>1, <4>3, RemoveAtType DEF TypeOK
      <4> QED  BY <4>2, <4>4, <4>5 DEF TypeOK
    <3> QED  BY <3>1, <3>2
  <2>3. next_ping' \in 0 .. Len(servers') + 1
    BY <1>2, <2>2 DEF HandlePopServer, Receive
  <2> QED  BY <1>2, <2>1, <2>2, <2>3 DEF HandlePopServer, TypeOK
<1>3. CASE HandleUpdateActive
  <2>1. /\ msg.name \in Name /\ msg.active \in BOOLEAN
        /\ Tail(reader) \in Seq(ClusterMsg)
    BY <1>3, Received, MsgFields DEF HandleUpdateActive
  <2>2. servers' \in Seq(Server)
    <3>1. CASE Named(msg.name) = {}
      BY <1>3, <3>1 DEF HandleUpdateActive, TypeOK
    <3>2. CASE Named(msg.name) # {}
      <4> DEFINE i == Position(msg.name)
                 s == [servers[i] EXCEPT !.active = msg.active]
      <4>1. i \in DOMAIN servers
        BY <3>2, PositionIn DEF TypeOK
      <4>2. s \in Server
        <5> HIDE DEF i
        <5>1. servers[i] \in Server
          BY <4>1 DEF TypeOK
        <5> QED  BY <2>1, <5>1 DEF Server
      <4>3. servers' = [servers EXCEPT ![i] = s]
        BY <1>3, <3>2 DEF HandleUpdateActive
      <4> HIDE DEF i, s
      <4> QED  BY <4>1, <4>2, <4>3, ExceptSeq DEF TypeOK
    <3> QED  BY <3>1, <3>2
  <2>3. next_ping' \in 0 .. Len(servers') + 1
    BY <1>3, <2>2 DEF HandleUpdateActive, Receive
  <2> QED  BY <1>3, <2>1, <2>2, <2>3 DEF HandleUpdateActive, TypeOK, env
<1>4. CASE HandleQueueServer
  <2>1. msg.server \in Request /\ Tail(reader) \in Seq(ClusterMsg)
    BY <1>4, Received, MsgFields DEF HandleQueueServer
  <2>2. RecvPong(msg.server) \in State
    BY <2>1 DEF State
  <2>3. Append(queue_reqs, msg.server) \in Seq(Request)
    BY <2>1, AppendProperties DEF TypeOK
  <2>4. next_ping' \in 0 .. Len(servers) + 1
    BY <1>4 DEF HandleQueueServer, TypeOK
  <2> QED  BY <1>4, <2>1, <2>2, <2>3, <2>4 DEF HandleQueueServer, TypeOK, env
<1>5. CASE Ping
  <2>1. servers[next_ping] \in Server
    BY <1>5 DEF Ping, TypeOK
  <2>2. wire' \in [Conn -> Seq(Timer)] /\ pinged' \subseteq Conn
    <3> DEFINE s == servers[next_ping]
    <3>1. s.conn \in Conn
      BY <2>1 DEF Server
    <3>2. CASE s.active /\ link[s.conn] = "up"
      <4>1. Append(wire[s.conn], timer_now) \in Seq(Timer)
        BY <3>1, AppendProperties DEF TypeOK
      <4>2. wire' = [wire EXCEPT ![s.conn] = Append(wire[s.conn], timer_now)]
        BY <1>5, <3>2 DEF Ping
      <4>3. pinged' = pinged \cup {s.conn}
        BY <1>5, <3>2 DEF Ping
      <4> HIDE DEF s
      <4> QED  BY <3>1, <4>1, <4>2, <4>3 DEF TypeOK
    <3>3. CASE ~(s.active /\ link[s.conn] = "up")
      BY <1>5, <3>3 DEF Ping, TypeOK
    <3> QED  BY <3>2, <3>3
  <2>3. next_ping' \in 0 .. Len(servers) + 1
    BY <1>5 DEF Ping, TypeOK
  <2> QED  BY <1>5, <2>2, <2>3 DEF Ping, TypeOK, env
<1>6. CASE StartTimer
  <2>1. state.server \in Request
    <3>1. next_ping # 0
      BY <1>6 DEF StartTimer, TypeOK
    <3> QED  BY <3>1, BusyServer DEF PingsInRound, TypeOK
  <2> QED  BY <1>6, <2>1 DEF StartTimer, TypeOK, TimerTask, env
<1>7. CASE HandleServerPong
  <2>1. msg.name \in Name /\ Tail(reader) \in Seq(ClusterMsg)
    BY <1>7, Received, MsgFields DEF HandleServerPong
  <2>2. CASE Late(msg.timer) \/ state.tag # "RecvPong"
    BY <1>7, <2>1, <2>2 DEF HandleServerPong, TypeOK, env
  <2>3. CASE ~(Late(msg.timer) \/ state.tag # "RecvPong")
    <3>1. state.server \in Request
      BY <2>3, BusyServer DEF TypeOK
    <3>2. answer' \in [Request -> Name \cup {None}]
      BY <1>7, <2>1, <2>3, <3>1 DEF HandleServerPong, Respond, TypeOK
    <3>3. GoIdle(Tail(reader))
      BY <1>7, <2>3 DEF HandleServerPong
    <3>4. timer_now' \in Timer
      BY <1>7, <2>3, NextTimerTyped DEF HandleServerPong, TypeOK
    <3> QED
      BY <1>7, <2>1, <3>2, <3>3, <3>4, GoIdleTyped DEF HandleServerPong, TypeOK, env
  <2> QED  BY <2>2, <2>3
<1>8. CASE HandleTimerCompleted
  <2>1. Tail(reader) \in Seq(ClusterMsg)
    BY <1>8, Received DEF HandleTimerCompleted
  <2>2. CASE Late(msg.timer) \/ state.tag # "RecvPong"
    BY <1>8, <2>1, <2>2 DEF HandleTimerCompleted, TypeOK, env
  <2>3. CASE ~(Late(msg.timer) \/ state.tag # "RecvPong")
    <3>1. Starting(state.server) \in State
      BY <2>3, BusyServer DEF TypeOK, State
    <3>2. timer_now' \in Timer
      BY <1>8, <2>3, NextTimerTyped DEF HandleTimerCompleted, TypeOK
    <3>3. to_brain' \in Seq({Spawn})
      <4>1. Append(to_brain, Spawn) \in Seq({Spawn})
        BY AppendProperties DEF TypeOK
      <4> QED  BY <1>8, <2>3, <4>1 DEF HandleTimerCompleted, RequestServer
    <3> QED
      BY <1>8, <2>1, <2>3, <3>1, <3>2, <3>3 DEF HandleTimerCompleted, TypeOK, env
  <2> QED  BY <2>2, <2>3
<1>9. CASE TimerFires
  <2>1. PICK t \in timers : timers' = timers \ {t} /\ Send(TimerCompleted(t.timer))
    BY <1>9 DEF TimerFires
  <2>2. TimerCompleted(t.timer) \in ClusterMsg
    BY <2>1 DEF TypeOK, ClusterMsg
  <2>3. reader' \in Seq(ClusterMsg)
    BY <2>1, <2>2, SendTyped
  <2> QED  BY <1>9, <2>1, <2>3 DEF TimerFires, TypeOK, task, env
<1>10. ASSUME NEW r \in Request, Dispatch(r)  PROVE TypeOK'
  <2>1. reader' \in Seq(ClusterMsg)
    BY <1>10, SendTyped DEF Dispatch, ClusterMsg
  <2> QED  BY <1>10, <2>1 DEF Dispatch, TypeOK, task
<1>11. ASSUME NEW c \in Conn, Connect(c)  PROVE TypeOK'
  <2>1. reader' \in Seq(ClusterMsg)
    BY <1>11, SendTyped DEF Connect, ClusterMsg
  <2>2. to_brain' \in Seq({Spawn})
    <3> DEFINE S == {Spawn}
    <3>1. /\ to_brain \in Seq(S)
          /\ to_brain' = to_brain \/ (to_brain # <<>> /\ to_brain' = Tail(to_brain))
      BY <1>11 DEF Connect, TypeOK
    <3> HIDE DEF S
    <3>2. to_brain' \in Seq(S)
      BY <3>1, HeadTailProperties
    <3> QED  BY <3>2 DEF S
  <2> QED  BY <1>11, <2>1, <2>2 DEF Connect, TypeOK, task
<1>12. ASSUME NEW c \in Conn, ReadPing(c)  PROVE TypeOK'
  <2>1. Head(wire[c]) \in Timer /\ Tail(wire[c]) \in Seq(Timer)
    BY <1>12, HeadTailProperties DEF ReadPing, TypeOK
  <2>2. ServerPong(Head(wire[c]), NameOf[c]) \in ClusterMsg
    BY <2>1, ConfigAssumption DEF ClusterMsg
  <2>3. reader' \in Seq(ClusterMsg)
    BY <1>12, <2>2, SendTyped DEF ReadPing, TypeOK
  <2> QED  BY <1>12, <2>1, <2>3 DEF ReadPing, TypeOK, task, env
<1>13. ASSUME NEW c \in Conn, NEW b \in BOOLEAN, SetActive(c, b)  PROVE TypeOK'
  <2>1. UpdateActive(NameOf[c], b) \in ClusterMsg
    BY ConfigAssumption DEF ClusterMsg
  <2>2. reader' \in Seq(ClusterMsg)
    BY <1>13, <2>1, SendTyped DEF SetActive
  <2>3. updates' \in 0 .. MaxUpdates
    BY <1>13, ConfigAssumption DEF SetActive, TypeOK
  <2> QED  BY <1>13, <2>2, <2>3 DEF SetActive, TypeOK, task
<1>14. ASSUME NEW c \in Conn, Lose(c)  PROVE TypeOK'
  <2>1. <<>> \in Seq(Timer)
    OBVIOUS
  <2> QED  BY <1>14, <2>1 DEF Lose, TypeOK, task
<1>15. ASSUME NEW c \in Conn, Unlink(c)  PROVE TypeOK'
  <2>1. reader' \in Seq(ClusterMsg)
    BY <1>15, SendTyped DEF Unlink, ClusterMsg
  <2> QED  BY <1>15, <2>1 DEF Unlink, TypeOK, task
<1>16. CASE UNCHANGED vars
  BY <1>16 DEF vars, TypeOK
<1> QED
  BY <1>1, <1>2, <1>3, <1>4, <1>5, <1>6, <1>7, <1>8, <1>9, <1>10, <1>11,
     <1>12, <1>13, <1>14, <1>15, <1>16 DEF Next, ClusterStep

(* Every variable of the cluster always holds a value of its Rust type, in *)
(* particular the ping loop's index stays within the vector it walks.      *)
THEOREM TypeCorrect == Spec => []TypeOK
<1>1. TypeInv /\ [Next]_vars => TypeInv'
  BY NextTypeOK, NextPingsInRound DEF TypeInv
<1>2. TypeInv => TypeOK
  BY DEF TypeInv
<1> QED  BY InitTypeInv, <1>1, <1>2, PTL DEF Spec
-----------------------------------------------------------------------------
(* The two properties that keep the task from getting stuck.               *)

(* The state is Idle when its tag says so.                                 *)
LEMMA IdleTag ==
  ASSUME state \in State
  PROVE  state = Idle <=> state.tag = "Idle"
BY DEF State, Idle, RecvPong, Starting

(* A message of another type than the one received stays on the channel.   *)
LEMMA OtherTypeStays ==
  ASSUME TypeOK, NEW type, Receive(type),
         NEW i \in DOMAIN reader, reader[i].type # type
  PROVE  \E j \in DOMAIN Tail(reader) : Tail(reader)[j] = reader[i]
<1>1. i # 1
  BY DEF Receive
<1> QED  BY <1>1, TailKeeps DEF Receive, TypeOK

(* A message sent to the task reaches its channel behind what is there.    *)
LEMMA SendKeeps ==
  ASSUME TypeOK, NEW m \in ClusterMsg, Send(m)
  PROVE  /\ \A i \in DOMAIN reader : i \in DOMAIN reader' /\ reader'[i] = reader[i]
         /\ \E i \in DOMAIN reader' : reader'[i] = m
<1> DEFINE s == Append(reader, m)
<1>1. reader' = s
  BY DEF Send
<1>2. \A i \in DOMAIN reader : i \in DOMAIN s /\ s[i] = reader[i]
  BY AppendKeeps DEF TypeOK
<1>3. \E i \in DOMAIN s : s[i] = m
  BY AppendKeeps DEF TypeOK
<1> HIDE DEF s
<1> QED  BY <1>1, <1>2, <1>3, Zenon

(* Every step of the environment leaves the task's state alone and what    *)
(* waits on its channel where it is.                                       *)
EnvStep ==
  \/ TimerFires
  \/ \E r \in Request : Dispatch(r)
  \/ \E c \in Conn : Connect(c) \/ ReadPing(c) \/ Lose(c) \/ Unlink(c)
  \/ \E c \in Conn, b \in BOOLEAN : SetActive(c, b)

LEMMA EnvKeeps ==
  ASSUME TypeOK, EnvStep \/ UNCHANGED vars
  PROVE  /\ UNCHANGED task
         /\ \A i \in DOMAIN reader : i \in DOMAIN reader' /\ reader'[i] = reader[i]
<1>1. CASE TimerFires
  <2>1. PICK t \in timers : Send(TimerCompleted(t.timer))
    BY <1>1 DEF TimerFires
  <2>2. TimerCompleted(t.timer) \in ClusterMsg
    BY DEF TypeOK, ClusterMsg
  <2> QED  BY <1>1, <2>1, <2>2, SendKeeps DEF TimerFires
<1>2. ASSUME NEW r \in Request, Dispatch(r)
      PROVE  Send(QueueServer(r)) /\ QueueServer(r) \in ClusterMsg /\ UNCHANGED task
  BY <1>2 DEF Dispatch, ClusterMsg
<1>3. ASSUME NEW c \in Conn, Connect(c)
      PROVE  Send(PushServer(c)) /\ PushServer(c) \in ClusterMsg /\ UNCHANGED task
  BY <1>3 DEF Connect, ClusterMsg
<1>4. ASSUME NEW c \in Conn, Unlink(c)
      PROVE  Send(PopServer(c)) /\ PopServer(c) \in ClusterMsg /\ UNCHANGED task
  BY <1>4 DEF Unlink, ClusterMsg
<1>5. ASSUME NEW c \in Conn, NEW b \in BOOLEAN, SetActive(c, b)
      PROVE  /\ Send(UpdateActive(NameOf[c], b)) /\ UpdateActive(NameOf[c], b) \in ClusterMsg
             /\ UNCHANGED task
  BY <1>5, ConfigAssumption DEF SetActive, ClusterMsg
<1>6. ASSUME NEW c \in Conn, ReadPing(c)
      PROVE  /\ UNCHANGED task
             /\ \/ UNCHANGED reader
                \/ \E m \in ClusterMsg : Send(m)
  <2>1. Head(wire[c]) \in Timer
    BY <1>6, HeadTailProperties DEF ReadPing, TypeOK
  <2>2. ServerPong(Head(wire[c]), NameOf[c]) \in ClusterMsg
    BY <2>1, ConfigAssumption DEF ClusterMsg
  <2> QED  BY <1>6, <2>2 DEF ReadPing
<1>7. ASSUME (\E c \in Conn : Lose(c)) \/ UNCHANGED vars
      PROVE  UNCHANGED task /\ UNCHANGED reader
  BY <1>7 DEF Lose, vars, task
<1>8. UNCHANGED task
  BY <1>1, <1>2, <1>3, <1>4, <1>5, <1>6, <1>7 DEF EnvStep, TimerFires
<1>9. CASE UNCHANGED reader
  BY <1>8, <1>9
<1>10. CASE \E m \in ClusterMsg : Send(m)
  BY <1>8, <1>10, SendKeeps
<1> QED
  BY <1>1, <1>2, <1>3, <1>4, <1>5, <1>6, <1>7, <1>9, <1>10 DEF EnvStep

(* Out of Idle a request goes back to the channel whenever one is buffered.*)
LEMMA NextNoLostWakeup == TypeInv /\ NoLostWakeup /\ [Next]_vars => NoLostWakeup'
<1> DEFINE Primed == \E i \in DOMAIN reader : reader[i].type = "QueueServer"
<1> SUFFICES ASSUME TypeOK, NoLostWakeup, [Next]_vars, state' = Idle, queue_reqs' # <<>>
             PROVE  Primed'
  BY DEF TypeInv, NoLostWakeup
<1>1. ASSUME NEW type, Receive(type), type # "QueueServer",
             reader' = Tail(reader), UNCHANGED <<state, queue_reqs>>
      PROVE  Primed'
  <2>1. PICK i \in DOMAIN reader : reader[i].type = "QueueServer"
    BY <1>1 DEF NoLostWakeup
  <2> QED  BY <1>1, <2>1, OtherTypeStays
<1>2. ASSUME NEW type, Receive(type), GoIdle(Tail(reader))
      PROVE  Primed'
  <2>1. queue_reqs # <<>> /\ reader' = Append(Tail(reader), QueueServer(Head(queue_reqs)))
    BY <1>2 DEF GoIdle
  <2>2. QueueServer(Head(queue_reqs)) \in ClusterMsg
    <3>1. Head(queue_reqs) \in Request
      BY <2>1, HeadTailProperties DEF TypeOK
    <3> QED  BY <3>1 DEF ClusterMsg
  <2>3. Tail(reader) \in Seq(ClusterMsg)
    BY <1>2, Received
  <2>4. \E i \in DOMAIN reader' : reader'[i] = QueueServer(Head(queue_reqs))
    <3> DEFINE q == QueueServer(Head(queue_reqs))
               s == Append(Tail(reader), q)
    <3>1. \E i \in DOMAIN s : s[i] = q
      <4> HIDE DEF q
      <4> QED  BY <2>2, <2>3, AppendKeeps
    <3>2. reader' = s
      BY <2>1
    <3> HIDE DEF q, s
    <3> QED  BY <3>1, <3>2, Zenon DEF q
  <2> QED  BY <2>4 DEF QueueServer
<1>3. CASE HandlePushServer
  BY <1>1, <1>2, <1>3 DEF HandlePushServer
<1>4. CASE HandlePopServer \/ HandleUpdateActive
  BY <1>1, <1>4 DEF HandlePopServer, HandleUpdateActive
<1>5. CASE HandleQueueServer
  <2>1. state'.tag # "Idle"
    BY <1>5 DEF HandleQueueServer, CanAccept, RecvPong
  <2> QED  BY <2>1 DEF Idle
<1>6. CASE Ping \/ StartTimer
  BY <1>6 DEF Ping, StartTimer, NoLostWakeup
<1>7. CASE HandleServerPong
  BY <1>1, <1>2, <1>7 DEF HandleServerPong
<1>8. CASE HandleTimerCompleted
  <2>1. CASE Late(msg.timer) \/ state.tag # "RecvPong"
    BY <1>1, <1>8, <2>1 DEF HandleTimerCompleted
  <2>2. CASE ~(Late(msg.timer) \/ state.tag # "RecvPong")
    BY <1>8, <2>2 DEF HandleTimerCompleted, Starting, Idle
  <2> QED  BY <2>1, <2>2
<1>9. CASE EnvStep \/ UNCHANGED vars
  BY <1>9, EnvKeeps DEF task, NoLostWakeup
<1> QED
  BY <1>3, <1>4, <1>5, <1>6, <1>7, <1>8, <1>9 DEF Next, ClusterStep, EnvStep

(* A request in the buffer of an idle cluster is never forgotten: the task *)
(* has a QueueServer message to handle, after which it pops the buffer     *)
(* again.  This holds for every number of requests and servers.            *)
THEOREM WakeupNeverLost == Spec => []NoLostWakeup
<1>1. Init => NoLostWakeup
  BY DEF Init, NoLostWakeup
<1>2. TypeInv /\ [Next]_vars => TypeInv'
  BY NextTypeOK, NextPingsInRound DEF TypeInv
<1> QED  BY InitTypeInv, <1>1, <1>2, NextNoLostWakeup, PTL DEF Spec
(* A timer task wakes up into a message; every other step of the task's    *)
(* surroundings leaves the pending timeouts alone.                         *)
LEMMA EnvKeepsTimeout ==
  ASSUME TypeOK, EnvStep \/ UNCHANGED vars, PendingTimeout(timer_now)
  PROVE  PendingTimeout(timer_now)'
<1>1. UNCHANGED timer_now
  BY EnvKeeps DEF task
<1>2. ASSUME NEW i \in DOMAIN reader, reader[i] = TimerCompleted(timer_now)
      PROVE  PendingTimeout(timer_now)'
  <2>1. i \in DOMAIN reader' /\ reader'[i] = TimerCompleted(timer_now)
    BY <1>2, EnvKeeps
  <2> QED  BY <1>1, <2>1 DEF PendingTimeout, TimerCompleted
<1>3. ASSUME NEW x \in timers, x.timer = timer_now
      PROVE  PendingTimeout(timer_now)'
  <2>1. CASE TimerFires
    <3>1. PICK t \in timers : timers' = timers \ {t} /\ Send(TimerCompleted(t.timer))
      BY <2>1 DEF TimerFires
    <3>2. CASE x = t
      <4>1. TimerCompleted(timer_now) \in ClusterMsg
        BY DEF TypeOK, ClusterMsg
      <4>2. \E i \in DOMAIN reader' : reader'[i] = TimerCompleted(timer_now)
        BY <1>3, <3>1, <3>2, <4>1, SendKeeps
      <4> QED  BY <1>1, <4>2 DEF PendingTimeout, TimerCompleted
    <3>3. CASE x # t
      BY <1>1, <1>3, <3>1, <3>3 DEF PendingTimeout
    <3> QED  BY <3>2, <3>3
  <2>2. CASE ~TimerFires
    <3>1. UNCHANGED timers
      BY <2>2 DEF EnvStep, Dispatch, Connect, ReadPing, Lose, Unlink, SetActive, vars
    <3> QED  BY <1>1, <1>3, <3>1 DEF PendingTimeout
  <2> QED  BY <2>1, <2>2
<1> QED  BY <1>2, <1>3 DEF PendingTimeout

(* The timeout of the round leaves the channel only to be acted upon.      *)
LEMMA NextRoundHasTimer == TypeInv /\ RoundHasTimer /\ [Next]_vars => RoundHasTimer'
<1> SUFFICES ASSUME TypeOK, RoundHasTimer, [Next]_vars,
                    state'.tag = "RecvPong", next_ping' = 0
             PROVE  PendingTimeout(timer_now)'
  BY DEF TypeInv, RoundHasTimer
<1>1. ASSUME NEW type, Receive(type), state.tag = "RecvPong",
             type = "TimerCompleted" => Late(msg.timer),
             reader' = Tail(reader), UNCHANGED <<timer_now, timers>>
      PROVE  PendingTimeout(timer_now)'
  <2>1. PendingTimeout(timer_now)
    BY <1>1 DEF RoundHasTimer, Receive
  <2>2. ASSUME NEW i \in DOMAIN reader, reader[i] = TimerCompleted(timer_now)
        PROVE  PendingTimeout(timer_now)'
    <3>1. i # 1
      BY <1>1, <2>2 DEF Receive, Late, msg, TimerCompleted
    <3>2. \E j \in DOMAIN Tail(reader) : Tail(reader)[j] = TimerCompleted(timer_now)
      BY <1>1, <2>2, <3>1, TailKeeps DEF Receive, TypeOK
    <3> QED  BY <1>1, <3>2 DEF PendingTimeout, TimerCompleted
  <2> QED  BY <1>1, <2>1, <2>2 DEF PendingTimeout
<1>2. CASE HandlePushServer
  BY <1>1, <1>2 DEF HandlePushServer, GoIdle, Idle
<1>3. CASE HandlePopServer \/ HandleUpdateActive
  BY <1>1, <1>3 DEF HandlePopServer, HandleUpdateActive
<1>4. CASE HandleQueueServer
  BY <1>1, <1>4 DEF HandleQueueServer
<1>5. CASE Ping
  BY <1>5 DEF Ping, TypeOK
<1>6. CASE StartTimer
  <2>1. TimerTask(state.server) \in timers' /\ UNCHANGED timer_now
    BY <1>6 DEF StartTimer
  <2>2. TimerTask(state.server).timer = timer_now
    BY DEF TimerTask
  <2> QED  BY <2>1, <2>2 DEF PendingTimeout
<1>7. CASE HandleServerPong
  BY <1>1, <1>7 DEF HandleServerPong, GoIdle, Idle
<1>8. CASE HandleTimerCompleted
  BY <1>1, <1>8 DEF HandleTimerCompleted, Starting
<1>9. CASE EnvStep \/ UNCHANGED vars
  <2>1. UNCHANGED task
    BY <1>9, EnvKeeps
  <2> QED  BY <1>9, <2>1, EnvKeepsTimeout DEF RoundHasTimer, task
<1> QED
  BY <1>2, <1>3, <1>4, <1>5, <1>6, <1>7, <1>8, <1>9 DEF Next, ClusterStep, EnvStep

(* A cluster waiting for pongs always has the timeout of this round to     *)
(* come, so a round nobody answers ends, whatever the width of the label.  *)
THEOREM RoundAlwaysHasTimer == Spec => []RoundHasTimer
<1>1. Init => RoundHasTimer
  BY DEF Init, RoundHasTimer, Idle
<1>2. TypeInv /\ [Next]_vars => TypeInv'
  BY NextTypeOK, NextPingsInRound DEF TypeInv
<1> QED  BY InitTypeInv, <1>1, <1>2, NextRoundHasTimer, PTL DEF Spec
-----------------------------------------------------------------------------
(* Where the reply channels of requests are: each is in exactly one place  *)
(* from the moment it is created, whatever the number of requests and      *)
(* however they are interleaved with servers and timers.                   *)

AtReader(r) == Contains(reader, QueueServer(r))
Buffered(r) == Contains(queue_reqs, r)
InWork(r)   == state.server = r
Answered(r) == answer[r] # None

(* RequestConserved, with the places told apart.                           *)
OnePlace(r) ==
  /\ Once(reader, QueueServer(r)) /\ Once(queue_reqs, r)
  /\ AtReader(r) => ~Buffered(r) /\ ~InWork(r) /\ ~Answered(r)
  /\ Buffered(r) => ~InWork(r) /\ ~Answered(r)
  /\ InWork(r) => ~Answered(r)
  /\ r \in issued <=> AtReader(r) \/ Buffered(r) \/ InWork(r) \/ Answered(r)

RequestInv == TypeInv /\ \A r \in Request : OnePlace(r)

-----------------------------------------------------------------------------
(* Steps that leave the requests on the task's channel as they are.        *)
SameRequests(r) ==
  /\ AtReader(r)' <=> AtReader(r)
  /\ Once(reader, QueueServer(r)) => Once(reader', QueueServer(r))

(* Receiving a message of another type.                                    *)
LEMMA OtherReceived ==
  ASSUME TypeOK, NEW type, Receive(type), type # "QueueServer", NEW r \in Request
  PROVE  /\ Contains(Tail(reader), QueueServer(r)) <=> AtReader(r)
         /\ Once(reader, QueueServer(r)) => Once(Tail(reader), QueueServer(r))
<1>1. QueueServer(r) # Head(reader)
  BY DEF Receive, QueueServer
<1> QED  BY <1>1, TailContains DEF TypeOK, Receive, AtReader

(* Sending a message of another type.                                      *)
LEMMA OtherSent ==
  ASSUME TypeOK, NEW m \in ClusterMsg, Send(m), m.type # "QueueServer", NEW r \in Request
  PROVE  SameRequests(r)
<1>1. QueueServer(r) # m
  BY DEF QueueServer
<1>2. /\ Contains(Append(reader, m), QueueServer(r)) <=> Contains(reader, QueueServer(r))
      /\ Once(reader, QueueServer(r)) => Once(Append(reader, m), QueueServer(r))
  BY <1>1, AppendContains, AppendOnce DEF TypeOK
<1>3. reader' = Append(reader, m)
  BY DEF Send
<1> QED  BY <1>2, <1>3 DEF SameRequests, AtReader, QueueServer

(* GoIdle sends nothing but a request.                                     *)
LEMMA GoIdleSends ==
  ASSUME TypeOK, NEW rest \in Seq(ClusterMsg), GoIdle(rest)
  PROVE  \/ reader' = rest
         \/ \E m \in ClusterMsg : reader' = Append(rest, m) /\ m.type = "QueueServer"
<1>1. CASE queue_reqs # <<>>
  <2>1. Head(queue_reqs) \in Request
    BY <1>1, HeadTailProperties DEF TypeOK
  <2> DEFINE m == QueueServer(Head(queue_reqs))
  <2>2. m \in ClusterMsg /\ m.type = "QueueServer"
    BY <2>1 DEF ClusterMsg, QueueServer
  <2>3. reader' = Append(rest, m)
    BY <1>1 DEF GoIdle
  <2> HIDE DEF m
  <2> QED  BY <2>2, <2>3
<1> QED  BY <1>1 DEF GoIdle

(* The channel once the head was handled: its tail, and maybe a request.   *)
Handled ==
  \/ reader' = Tail(reader)
  \/ \E m \in ClusterMsg : reader' = Append(Tail(reader), m) /\ m.type = "QueueServer"

(* What is on the channel then.                                            *)
LEMMA HandledChannel ==
  ASSUME TypeOK, reader # <<>>, Handled, NEW e \in ClusterMsg, e.type # "QueueServer"
  PROVE  /\ Contains(reader, e) <=> Contains(reader', e) \/ e = Head(reader)
         /\ Once(reader, e) => Once(reader', e)
         /\ Once(reader, e) /\ e = Head(reader) => ~Contains(reader', e)
<1> DEFINE s == Tail(reader)
<1>1. /\ s \in Seq(ClusterMsg)
      /\ Contains(reader, e) <=> Contains(s, e) \/ e = Head(reader)
      /\ Once(reader, e) => Once(s, e)
      /\ Once(reader, e) /\ e = Head(reader) => ~Contains(s, e)
  BY TailContains, HeadTailProperties DEF TypeOK
<1>2. CASE reader' = s
  BY <1>1, <1>2
<1>3. ASSUME NEW m \in ClusterMsg, reader' = Append(s, m), m.type = "QueueServer"
      PROVE  /\ Contains(reader', e) <=> Contains(s, e)
             /\ Once(s, e) => Once(reader', e)
  <2> HIDE DEF s
  <2> QED  BY <1>1, <1>3, AppendContains, AppendOnce
<1> QED  BY <1>1, <1>2, <1>3 DEF Handled

(* A step that keeps the places of the requests keeps OnePlace.            *)
LEMMA PlacesKept ==
  ASSUME NEW r \in Request, OnePlace(r), SameRequests(r),
         queue_reqs' = queue_reqs, state'.server = state.server, answer' = answer,
         issued' = issued
  PROVE  OnePlace(r)'
BY DEF OnePlace, SameRequests, AtReader, Buffered, InWork, Answered, QueueServer

(* Going back to Idle moves the oldest buffered request to the channel.    *)
LEMMA GoIdleMoves ==
  ASSUME TypeOK, NEW type, Receive(type), type # "QueueServer", GoIdle(Tail(reader)),
         \A q \in Request : OnePlace(q), NEW r \in Request
  PROVE  /\ Once(reader', QueueServer(r)) /\ Once(queue_reqs', r)
         /\ AtReader(r)' \/ Buffered(r)' <=> AtReader(r) \/ Buffered(r)
         /\ ~(AtReader(r)' /\ Buffered(r)')
<1>1. /\ Contains(Tail(reader), QueueServer(r)) <=> AtReader(r)
      /\ Once(Tail(reader), QueueServer(r))
      /\ Tail(reader) \in Seq(ClusterMsg)
  BY OtherReceived, Received DEF OnePlace
<1>2. CASE queue_reqs = <<>>
  <2>1. reader' = Tail(reader) /\ queue_reqs' = queue_reqs
    BY <1>2 DEF GoIdle
  <2> QED  BY <1>1, <2>1 DEF OnePlace, AtReader, Buffered, QueueServer
<1>3. CASE queue_reqs # <<>>
  <2> DEFINE h == Head(queue_reqs)
             m == QueueServer(h)
  <2>1. reader' = Append(Tail(reader), m) /\ queue_reqs' = Tail(queue_reqs)
    BY <1>3 DEF GoIdle
  <2>2. h \in Request /\ m \in ClusterMsg
    BY <1>3, HeadTailProperties DEF TypeOK, ClusterMsg
  <2>3. /\ Contains(queue_reqs, h)
        /\ Contains(queue_reqs, r) <=> Contains(Tail(queue_reqs), r) \/ r = h
        /\ Once(queue_reqs, r) => Once(Tail(queue_reqs), r)
        /\ Once(queue_reqs, r) /\ r = h => ~Contains(Tail(queue_reqs), r)
    BY <1>3, TailContains DEF TypeOK
  <2>4. QueueServer(r) = m <=> r = h
    BY DEF QueueServer
  <2> HIDE DEF h
  <2>5. ~Contains(Tail(reader), QueueServer(h))
    BY <1>1, <2>2, <2>3, OtherReceived DEF OnePlace, Buffered
  <2> HIDE DEF m
  <2>6. Contains(Append(Tail(reader), m), QueueServer(r)) <=> AtReader(r) \/ r = h
    <3>1. Contains(Append(Tail(reader), m), QueueServer(r)) <=>
            Contains(Tail(reader), QueueServer(r)) \/ QueueServer(r) = m
      BY <1>1, <2>2, AppendContains
    <3> QED  BY <1>1, <2>4, <3>1
  <2>7. Once(Append(Tail(reader), m), QueueServer(r))
    BY <1>1, <2>2, <2>4, <2>5, AppendOnce
  <2>8. AtReader(r)' <=> Contains(reader', QueueServer(r))
    BY DEF AtReader, QueueServer
  <2>9. Buffered(r)' <=> Contains(queue_reqs', r)
    BY DEF Buffered
  <2>10. OnePlace(r)
    OBVIOUS
  <2> QED  BY <2>1, <2>3, <2>6, <2>7, <2>8, <2>9, <2>10 DEF OnePlace, Buffered
<1> QED  BY <1>2, <1>3

(* A request is answered and the task goes back to Idle.                   *)
LEMMA AnswerMoves ==
  ASSUME TypeOK, NEW type, Receive(type), type # "QueueServer", GoIdle(Tail(reader)),
         \A q \in Request : OnePlace(q), state.tag # "Idle",
         NEW n \in Name, Respond(state.server, n), issued' = issued, NEW r \in Request
  PROVE  OnePlace(r)'
<1>1. state.server \in Request
  BY BusyServer DEF TypeOK
<1>2. Answered(r)' <=> Answered(r) \/ InWork(r)
  BY <1>1, ConfigAssumption DEF Answered, InWork, Respond, TypeOK
<1>3. ~InWork(r)'
  BY ConfigAssumption DEF InWork, GoIdle, Idle
<1>4. OnePlace(r)
  OBVIOUS
<1>5. /\ Once(reader', QueueServer(r)) /\ Once(queue_reqs', r)
      /\ AtReader(r)' \/ Buffered(r)' <=> AtReader(r) \/ Buffered(r)
      /\ ~(AtReader(r)' /\ Buffered(r)')
  BY GoIdleMoves
<1>6. Once(reader, QueueServer(r))' <=> Once(reader', QueueServer(r))
  BY DEF QueueServer
<1> QED  BY <1>2, <1>3, <1>4, <1>5, <1>6 DEF OnePlace

-----------------------------------------------------------------------------
(* A request that the task takes off its channel is taken up or buffered.  *)
LEMMA QueueServerKeepsPlaces ==
  ASSUME TypeOK, HandleQueueServer, \A q \in Request : OnePlace(q), NEW r \in Request
  PROVE  OnePlace(r)'
<1> DEFINE q == msg.server
<1>1. q \in Request /\ msg = QueueServer(q)
  BY Received, MsgFields DEF HandleQueueServer
<1>2. /\ reader' = Tail(reader)
      /\ Contains(reader, QueueServer(r)) <=> Contains(Tail(reader), QueueServer(r)) \/ r = q
      /\ Once(reader, QueueServer(r)) => Once(Tail(reader), QueueServer(r))
      /\ Once(reader, QueueServer(r)) /\ r = q => ~Contains(Tail(reader), QueueServer(r))
  <2>1. QueueServer(r) = Head(reader) <=> r = q
    BY <1>1 DEF msg, QueueServer
  <2> QED  BY <2>1, TailContains DEF HandleQueueServer, Receive, TypeOK
<1> HIDE DEF q
<1>3. /\ AtReader(r)' <=> Contains(Tail(reader), QueueServer(r))
      /\ Once(reader, QueueServer(r))' <=> Once(Tail(reader), QueueServer(r))
  BY <1>2 DEF AtReader, QueueServer
<1>4. UNCHANGED <<answer, issued>>
  BY DEF HandleQueueServer, env
<1>5. OnePlace(r) /\ OnePlace(q)
  BY <1>1
<1>6. AtReader(q)
  BY <1>1, TailContains DEF AtReader, msg, HandleQueueServer, Receive, TypeOK
<1>7. CASE CanAccept
  <2>1. state = Idle /\ state' = RecvPong(q) /\ queue_reqs' = queue_reqs
    BY <1>7, IdleTag DEF HandleQueueServer, CanAccept, TypeOK, q
  <2>2. InWork(r)' <=> r = q
    BY <2>1 DEF InWork, RecvPong
  <2>3. ~InWork(r)
    BY <2>1, ConfigAssumption DEF InWork, Idle
  <2> QED
    BY <1>2, <1>3, <1>4, <1>5, <1>6, <2>1, <2>2, <2>3 DEF OnePlace, AtReader, Buffered, Answered
<1>8. CASE ~CanAccept
  <2>1. state' = state /\ queue_reqs' = Append(queue_reqs, q)
    BY <1>8 DEF HandleQueueServer, q
  <2>2. Contains(Append(queue_reqs, q), r) <=> Contains(queue_reqs, r) \/ r = q
    BY <1>1, AppendContains DEF TypeOK
  <2>3. Once(Append(queue_reqs, q), r)
    BY <1>1, <1>5, <1>6, AppendOnce DEF TypeOK, OnePlace, Buffered
  <2> QED
    BY <1>2, <1>3, <1>4, <1>5, <1>6, <2>1, <2>2, <2>3
       DEF OnePlace, AtReader, Buffered, InWork, Answered
<1> QED  BY <1>7, <1>8

(* A new reply channel enters at the end of the task's channel.            *)
LEMMA DispatchAddsPlace ==
  ASSUME TypeOK, NEW q \in Request, Dispatch(q), NEW r \in Request, OnePlace(r)
  PROVE  OnePlace(r)'
<1>1. QueueServer(q) \in ClusterMsg
  BY DEF ClusterMsg
<1>2. QueueServer(r) = QueueServer(q) <=> r = q
  BY DEF QueueServer
<1>3. reader' = Append(reader, QueueServer(q)) /\ q \notin issued /\ issued' = issued \cup {q}
  BY DEF Dispatch, Send
<1>4. UNCHANGED <<queue_reqs, state, answer>>
  BY DEF Dispatch, task
<1>5. Contains(Append(reader, QueueServer(q)), QueueServer(r)) <=> AtReader(r) \/ r = q
  BY <1>1, <1>2, AppendContains DEF TypeOK, AtReader
<1>6. Once(Append(reader, QueueServer(q)), QueueServer(r))
  BY <1>1, <1>2, <1>3, AppendOnce DEF TypeOK, OnePlace, AtReader
<1>7. /\ AtReader(r)' <=> Contains(reader', QueueServer(r))
      /\ Once(reader, QueueServer(r))' <=> Once(reader', QueueServer(r))
  BY DEF AtReader, QueueServer
<1> QED
  BY <1>3, <1>4, <1>5, <1>6, <1>7 DEF OnePlace, Buffered, InWork, Answered

(* Every other step of the environment sends something else or nothing.    *)
LEMMA EnvSends ==
  ASSUME TypeOK, EnvStep \/ UNCHANGED vars
  PROVE  \/ \E r \in Request : Dispatch(r)
         \/ UNCHANGED issued /\ UNCHANGED answer /\ UNCHANGED reader
         \/ /\ UNCHANGED issued /\ UNCHANGED answer
            /\ \E m \in ClusterMsg : Send(m) /\ m.type # "QueueServer"
<1>1. CASE TimerFires
  <2>1. PICK t \in timers : Send(TimerCompleted(t.timer))
    BY <1>1 DEF TimerFires
  <2>2. TimerCompleted(t.timer) \in ClusterMsg /\ TimerCompleted(t.timer).type # "QueueServer"
    BY DEF TypeOK, ClusterMsg, TimerCompleted
  <2> QED  BY <1>1, <2>1, <2>2 DEF TimerFires, env
<1>2. ASSUME NEW c \in Conn, Connect(c) \/ Unlink(c)
      PROVE  /\ UNCHANGED <<issued, answer>>
             /\ \E m \in ClusterMsg : Send(m) /\ m.type # "QueueServer"
  <2>1. PushServer(c) \in ClusterMsg /\ PushServer(c).type # "QueueServer"
    BY DEF ClusterMsg, PushServer
  <2>2. PopServer(c) \in ClusterMsg /\ PopServer(c).type # "QueueServer"
    BY DEF ClusterMsg, PopServer
  <2> QED  BY <1>2, <2>1, <2>2 DEF Connect, Unlink
<1>3. ASSUME NEW c \in Conn, ReadPing(c)
      PROVE  /\ UNCHANGED <<issued, answer>>
             /\ \/ UNCHANGED reader
                \/ \E m \in ClusterMsg : Send(m) /\ m.type # "QueueServer"
  <2> DEFINE m == ServerPong(Head(wire[c]), NameOf[c])
  <2>1. m \in ClusterMsg /\ m.type # "QueueServer"
    <3>1. Head(wire[c]) \in Timer
      BY <1>3, HeadTailProperties DEF ReadPing, TypeOK
    <3> QED  BY <3>1, ConfigAssumption DEF ClusterMsg, ServerPong
  <2>2. UNCHANGED reader \/ Send(m)
    BY <1>3 DEF ReadPing
  <2> HIDE DEF m
  <2> QED  BY <1>3, <2>1, <2>2 DEF ReadPing, env
<1>4. ASSUME NEW c \in Conn, NEW b \in BOOLEAN, SetActive(c, b)
      PROVE  /\ UNCHANGED <<issued, answer>>
             /\ \E m \in ClusterMsg : Send(m) /\ m.type # "QueueServer"
  <2>1. UpdateActive(NameOf[c], b) \in ClusterMsg
    BY ConfigAssumption DEF ClusterMsg
  <2>2. UpdateActive(NameOf[c], b).type # "QueueServer"
    BY DEF UpdateActive
  <2> QED  BY <1>4, <2>1, <2>2 DEF SetActive
<1>5. CASE (\E c \in Conn : Lose(c)) \/ UNCHANGED vars
  BY <1>5 DEF Lose, vars
<1> QED  BY <1>1, <1>2, <1>3, <1>4, <1>5 DEF EnvStep

-----------------------------------------------------------------------------
LEMMA InitRequestInv == Init => RequestInv
<1> SUFFICES ASSUME Init, NEW r \in Request PROVE OnePlace(r)
  BY InitTypeInv DEF RequestInv
<1>1. ~AtReader(r) /\ ~Buffered(r) /\ Once(reader, QueueServer(r)) /\ Once(queue_reqs, r)
  BY EmptyChannel DEF Init, AtReader, Buffered
<1>2. ~InWork(r) /\ ~Answered(r) /\ r \notin issued
  BY ConfigAssumption DEF Init, InWork, Answered, Idle
<1> QED  BY <1>1, <1>2 DEF OnePlace

LEMMA NextRequestInv == RequestInv /\ [Next]_vars => RequestInv'
<1> SUFFICES ASSUME TypeInv, \A q \in Request : OnePlace(q), [Next]_vars,
                    NEW r \in Request
             PROVE  OnePlace(r)'
  BY NextTypeOK, NextPingsInRound DEF RequestInv, TypeInv
<1> USE DEF TypeInv
<1>1. ASSUME NEW type, Receive(type), type # "QueueServer", reader' = Tail(reader),
             state'.server = state.server, UNCHANGED <<queue_reqs, answer, issued>>
      PROVE  OnePlace(r)'
  <2>1. SameRequests(r)
    BY <1>1, OtherReceived DEF SameRequests, AtReader, QueueServer
  <2> QED  BY <1>1, <2>1, PlacesKept
<1>2. CASE HandlePushServer
  <2>1. CASE state.tag = "Starting"
    <3>1. NameOf[msg.conn] \in Name
      BY <1>2, Received, MsgFields, ConfigAssumption DEF HandlePushServer
    <3> QED  BY <1>2, <2>1, <3>1, AnswerMoves DEF HandlePushServer, env
  <2>2. CASE state.tag # "Starting"
    BY <1>1, <1>2, <2>2 DEF HandlePushServer, env
  <2> QED  BY <2>1, <2>2
<1>3. CASE HandlePopServer \/ HandleUpdateActive
  BY <1>1, <1>3 DEF HandlePopServer, HandleUpdateActive, env
<1>4. CASE HandleQueueServer
  BY <1>4, QueueServerKeepsPlaces
<1>5. CASE Ping \/ StartTimer
  <2>1. UNCHANGED <<reader, queue_reqs, state, answer, issued>>
    BY <1>5 DEF Ping, StartTimer, env
  <2> QED  BY <2>1, PlacesKept DEF SameRequests, AtReader, QueueServer
<1>6. CASE HandleServerPong
  <2>1. CASE Late(msg.timer) \/ state.tag # "RecvPong"
    BY <1>1, <1>6, <2>1 DEF HandleServerPong, env
  <2>2. CASE ~(Late(msg.timer) \/ state.tag # "RecvPong")
    <3>1. msg.name \in Name
      BY <1>6, Received, MsgFields DEF HandleServerPong
    <3> QED  BY <1>6, <2>2, <3>1, AnswerMoves DEF HandleServerPong, env
  <2> QED  BY <2>1, <2>2
<1>7. CASE HandleTimerCompleted
  BY <1>1, <1>7 DEF HandleTimerCompleted, Starting, env
<1>8. CASE EnvStep \/ UNCHANGED vars
  <2>1. UNCHANGED <<queue_reqs, state>>
    BY <1>8, EnvKeeps DEF task
  <2>2. CASE \E q \in Request : Dispatch(q)
    BY <2>2, DispatchAddsPlace
  <2>3. CASE UNCHANGED <<issued, answer, reader>>
    BY <2>1, <2>3, PlacesKept DEF SameRequests, AtReader, QueueServer
  <2>4. CASE UNCHANGED <<issued, answer>> /\ \E m \in ClusterMsg : Send(m) /\ m.type # "QueueServer"
    BY <2>1, <2>4, OtherSent, PlacesKept
  <2> QED  BY <1>8, <2>2, <2>3, <2>4, EnvSends
<1> QED
  BY <1>2, <1>3, <1>4, <1>5, <1>6, <1>7, <1>8 DEF Next, ClusterStep, EnvStep

(* The places of a request, one by one, are those of RequestConserved.     *)
LEMMA OnePlaceConserves ==
  ASSUME TypeOK, \A r \in Request : OnePlace(r)
  PROVE  RequestConserved
<1> SUFFICES ASSUME NEW r \in Request
             PROVE  IF r \in issued THEN \E p \in Places(r) : Places(r) = {p}
                                    ELSE Places(r) = {}
  BY DEF RequestConserved
<1>1. DOMAIN reader = 1 .. Len(reader) /\ DOMAIN queue_reqs = 1 .. Len(queue_reqs)
  BY DEF TypeOK
<1>2. \A p \in Places(r) :
        \/ \E i \in DOMAIN reader : p = <<"reader", i>> /\ reader[i] = QueueServer(r)
        \/ \E i \in DOMAIN queue_reqs : p = <<"queue_reqs", i>> /\ queue_reqs[i] = r
        \/ p = <<"state", 0>> /\ InWork(r)
        \/ p = <<"answer", 0>> /\ Answered(r)
  BY DEF Places, InWork, Answered
<1>3. /\ \A i \in DOMAIN reader : reader[i] = QueueServer(r) => <<"reader", i>> \in Places(r)
      /\ \A i \in DOMAIN queue_reqs : queue_reqs[i] = r => <<"queue_reqs", i>> \in Places(r)
      /\ InWork(r) => <<"state", 0>> \in Places(r)
      /\ Answered(r) => <<"answer", 0>> \in Places(r)
  BY DEF Places, InWork, Answered
<1>4. OnePlace(r)
  OBVIOUS
<1>5. CASE r \notin issued
  BY <1>1, <1>2, <1>4, <1>5 DEF OnePlace, AtReader, Buffered, Contains
<1>6. CASE AtReader(r)
  <2>1. PICK i \in DOMAIN reader : reader[i] = QueueServer(r)
    BY <1>1, <1>6 DEF AtReader, Contains
  <2>2. \A p \in Places(r) : p = <<"reader", i>>
    BY <1>1, <1>2, <1>4, <1>6, <2>1 DEF OnePlace, Once, Buffered, Contains
  <2> QED  BY <1>3, <1>4, <1>6, <2>1, <2>2 DEF OnePlace
<1>7. CASE Buffered(r)
  <2>1. PICK i \in DOMAIN queue_reqs : queue_reqs[i] = r
    BY <1>1, <1>7 DEF Buffered, Contains
  <2>2. \A p \in Places(r) : p = <<"queue_reqs", i>>
    BY <1>1, <1>2, <1>4, <1>7, <2>1 DEF OnePlace, Once, AtReader, Contains
  <2> QED  BY <1>3, <1>4, <1>7, <2>1, <2>2 DEF OnePlace
<1>8. CASE InWork(r)
  BY <1>1, <1>2, <1>3, <1>4, <1>8 DEF OnePlace, AtReader, Buffered, Contains
<1>9. CASE Answered(r)
  BY <1>1, <1>2, <1>3, <1>4, <1>9 DEF OnePlace, AtReader, Buffered, InWork, Contains
<1> QED  BY <1>4, <1>5, <1>6, <1>7, <1>8, <1>9 DEF OnePlace

(* A reply channel is in exactly one place, on its way to the task, in its *)
(* buffer, in work or used, from the moment it is created: the code never  *)
(* drops, doubles or overwrites one, with any number of requests.          *)
THEOREM RequestsAreConserved == Spec => []RequestConserved
<1>1. RequestInv => RequestConserved
  BY OnePlaceConserves DEF RequestInv, TypeInv
<1> QED  BY InitRequestInv, NextRequestInv, <1>1, PTL DEF Spec
=============================================================================

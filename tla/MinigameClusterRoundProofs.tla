---------------------- MODULE MinigameClusterRoundProofs ----------------------
(***************************************************************************)
(* Why comparing labels is enough to tell the events of the current round  *)
(* from those of earlier ones.  Rounds are labelled with an i32 that wraps *)
(* around, so this holds only as long as no label comes back while an      *)
(* event still carries it; it is proved for clusters that handle fewer     *)
(* requests than there are labels.                                         *)
(***************************************************************************)
EXTENDS MinigameClusterProofs, FiniteSetTheorems

(* A round is run for each request, and there is a label for each of them  *)
(* and for the state in which all have had theirs.                         *)
LabelsSuffice == IsFiniteSet(Request) /\ Cardinality(Request) <= MaxTimer - MinTimer

(* The requests whose round is over, and the label of the k-th round.      *)
Over   == {r \in Request : answer[r] # None \/ (state.tag = "Starting" /\ state.server = r)}
Rounds == Cardinality(Over)
Label(k) == IF k <= MaxTimer THEN k ELSE k - (MaxTimer - MinTimer + 1)

Outdated(t) == \E j \in 0 .. Rounds - 1 : t = Label(j)
Current(t)  == t = timer_now /\ state.tag = "RecvPong"

(* Timeouts and pongs are those of earlier rounds, or those of this one    *)
(* while it runs: the timeout once the ping loop is over, pongs and pings  *)
(* of connections that were pinged.                                        *)
TimeoutTimely(t) == Outdated(t) \/ (Current(t) /\ next_ping = 0)
PongTimely(t, n) == Outdated(t) \/ (Current(t) /\ \E c \in pinged : n = NameOf[c])
PingTimely(t, c) == Outdated(t) \/ (Current(t) /\ c \in pinged)

Timely(m) ==
  /\ m.type = "TimerCompleted" => TimeoutTimely(m.timer)
  /\ m.type = "ServerPong" => PongTimely(m.timer, m.name)

TimersTimely ==
  \A x \in timers : TimeoutTimely(x.timer) /\ (x.timer = timer_now => x.server = state.server)
ChannelTimely == \A m \in ClusterMsg : Contains(reader, m) => Timely(m)
WiresTimely == \A c \in Conn : \A t \in Timer : Contains(wire[c], t) => PingTimely(t, c)

RoundInv ==
  /\ timer_now = Label(Rounds)
  /\ TimersTimely /\ ChannelTimely /\ WiresTimely

-----------------------------------------------------------------------------
(* Labels.                                                                 *)

LEMMA OverFinite ==
  ASSUME LabelsSuffice
  PROVE  Rounds \in Nat /\ Rounds <= MaxTimer - MinTimer /\ IsFiniteSet(Over)
<1>1. Over \in SUBSET Request
  BY DEF Over
<1>2. /\ IsFiniteSet(Over) /\ Cardinality(Over) <= Cardinality(Request)
      /\ Cardinality(Over) \in Nat /\ Cardinality(Request) \in Nat
  BY <1>1, FS_Subset, FS_CardinalityType DEF LabelsSuffice
<1> QED  BY <1>2, ConfigAssumption DEF LabelsSuffice, Rounds

(* The labels of the rounds differ, and follow each other as in the code.  *)
LEMMA LabelsDiffer ==
  ASSUME NEW j \in Nat, NEW k \in Nat, j < k, k <= MaxTimer - MinTimer
  PROVE  Label(j) # Label(k)
BY ConfigAssumption DEF Label

LEMMA LabelFollows ==
  ASSUME NEW k \in Nat, k + 1 <= MaxTimer - MinTimer
  PROVE  NextTimer(Label(k)) = Label(k + 1)
BY ConfigAssumption DEF Label, NextTimer

(* No event of an earlier round carries the label of this one.             *)
LEMMA OutdatedDiffers ==
  ASSUME LabelsSuffice, timer_now = Label(Rounds)
  PROVE  ~Outdated(timer_now)
BY OverFinite, LabelsDiffer DEF Outdated

LEMMA OutdatedNext == (LabelsSuffice /\ timer_now = Label(Rounds) => ~Outdated(timer_now))'
<1>1. LabelsSuffice /\ timer_now = Label(Rounds) => ~Outdated(timer_now)
  BY OutdatedDiffers
<1> QED  BY <1>1, PTL

-----------------------------------------------------------------------------
(* Steps within a round.                                                   *)

SameRound ==
  /\ timer_now' = timer_now /\ Over' = Over
  /\ state.tag = "RecvPong" =>
       /\ state' = state /\ pinged \subseteq pinged'
       /\ next_ping = 0 => next_ping' = 0

(* Within a round, what was in time stays so.                              *)
LEMMA TimelyKept ==
  ASSUME SameRound
  PROVE  /\ Rounds' = Rounds
         /\ \A t : TimeoutTimely(t) => TimeoutTimely(t)'
         /\ \A t, n : PongTimely(t, n) => PongTimely(t, n)'
         /\ \A t, c : PingTimely(t, c) => PingTimely(t, c)'
         /\ \A m : Timely(m) => Timely(m)'
<1>1. Rounds' = Rounds
  BY DEF SameRound, Rounds
<1>2. \A t : Outdated(t)' <=> Outdated(t)
  BY <1>1 DEF Outdated, Label
<1>3. /\ \A t : TimeoutTimely(t) => TimeoutTimely(t)'
      /\ \A t, n : PongTimely(t, n) => PongTimely(t, n)'
      /\ \A t, c : PingTimely(t, c) => PingTimely(t, c)'
  BY <1>2 DEF SameRound, TimeoutTimely, PongTimely, PingTimely, Current
<1> QED  BY <1>1, <1>3 DEF Timely

(* The end of a round.                                                     *)
EndOfRound ==
  /\ timer_now' = NextTimer(timer_now)
  /\ state.server \in Request \ Over /\ Over' = Over \cup {state.server}

LEMMA EverythingOutdated ==
  ASSUME LabelsSuffice, EndOfRound, timer_now = Label(Rounds)
  PROVE  /\ timer_now' = Label(Rounds)'
         /\ \A t : Outdated(t) \/ t = timer_now => Outdated(t)'
<1>1. Rounds' = Rounds + 1 /\ Rounds \in Nat /\ Rounds + 1 <= MaxTimer - MinTimer
  <2>1. Rounds' = Rounds + 1
    BY OverFinite, FS_AddElement DEF EndOfRound, Rounds
  <2>2. Over' \in SUBSET Request
    BY DEF Over
  <2>3. Cardinality(Over') <= Cardinality(Request)
    BY <2>2, FS_Subset DEF LabelsSuffice
  <2>4. Cardinality(Request) \in Nat
    BY FS_CardinalityType DEF LabelsSuffice
  <2> QED  BY <2>1, <2>3, <2>4, OverFinite, ConfigAssumption DEF Rounds, LabelsSuffice
<1>2. timer_now' = Label(Rounds)'
  BY <1>1, LabelFollows DEF EndOfRound, Label
<1>3. \A t : Outdated(t) \/ t = timer_now => Outdated(t)'
  BY <1>1 DEF Outdated, Label
<1> QED  BY <1>2, <1>3

-----------------------------------------------------------------------------
(* Within a round, whatever is sent must be in time.                       *)
LEMMA RoundGoesOn ==
  ASSUME LabelsSuffice, TypeOK, RoundInv, SameRound,
         \A m \in ClusterMsg : Contains(reader', m) => Contains(reader, m) \/ Timely(m)',
         \A x \in timers' : \/ x \in timers
                            \/ /\ x = TimerTask(state.server)
                               /\ state.tag = "RecvPong" /\ next_ping' = 0,
         \A c \in Conn : \A t \in Timer :
           Contains(wire'[c], t) => Contains(wire[c], t) \/ PingTimely(t, c)'
  PROVE  RoundInv'
<1>1. timer_now' = Label(Rounds)'
  BY TimelyKept DEF RoundInv, SameRound, Label
<1>2. ChannelTimely'
  BY TimelyKept DEF RoundInv, ChannelTimely
<1>3. WiresTimely'
  BY TimelyKept DEF RoundInv, WiresTimely
<1>4. TimersTimely'
  <2> SUFFICES ASSUME NEW x \in timers'
               PROVE  TimeoutTimely(x.timer)' /\ (x.timer = timer_now' => x.server = state'.server)
    BY DEF TimersTimely
  <2>1. CASE x \in timers
    <3>1. TimeoutTimely(x.timer) /\ (x.timer = timer_now => x.server = state.server)
      BY <2>1 DEF RoundInv, TimersTimely
    <3>2. x.timer = timer_now => state.tag = "RecvPong"
      BY <3>1, OutdatedDiffers DEF RoundInv, TimeoutTimely, Current
    <3> QED  BY <3>1, <3>2, TimelyKept DEF SameRound
  <2>2. CASE /\ x = TimerTask(state.server)
             /\ state.tag = "RecvPong" /\ next_ping' = 0
    BY <2>2 DEF SameRound, TimerTask, TimeoutTimely, Current
  <2> QED  BY <2>1, <2>2
<1> QED  BY <1>1, <1>2, <1>3, <1>4 DEF RoundInv

(* When it ends, everything pending becomes outdated.                      *)
LEMMA RoundIsOver ==
  ASSUME LabelsSuffice, TypeOK, RoundInv, EndOfRound, UNCHANGED <<timers, wire>>,
         \A m \in ClusterMsg :
           Contains(reader', m) => Contains(reader, m) \/ m.type = "QueueServer"
  PROVE  RoundInv'
<1>1. /\ timer_now' = Label(Rounds)'
      /\ \A t : Outdated(t) \/ t = timer_now => Outdated(t)'
  BY EverythingOutdated DEF RoundInv
<1>2. ~Outdated(timer_now)'
  <2>1. (LabelsSuffice /\ timer_now = Label(Rounds) => ~Outdated(timer_now))'
    BY OutdatedNext
  <2> QED  BY <1>1, <2>1 DEF LabelsSuffice
<1>3. \A m : Timely(m) \/ m.type = "QueueServer" => Timely(m)'
  BY <1>1 DEF Timely, TimeoutTimely, PongTimely, Current
<1>4. ChannelTimely'
  BY <1>3 DEF RoundInv, ChannelTimely
<1>5. WiresTimely'
  BY <1>1 DEF RoundInv, WiresTimely, PingTimely, Current
<1>6. TimersTimely'
  <2>1. \A x \in timers : Outdated(x.timer)'
    BY <1>1 DEF RoundInv, TimersTimely, TimeoutTimely, Current
  <2> QED  BY <1>2, <2>1 DEF TimersTimely, TimeoutTimely
<1> QED  BY <1>1, <1>4, <1>5, <1>6 DEF RoundInv

-----------------------------------------------------------------------------
(* Handling a message without answering the request in work.               *)
LEMMA HandledInRound ==
  ASSUME LabelsSuffice, TypeOK, RoundInv, SameRound, reader # <<>>, Handled,
         UNCHANGED <<timers, wire>>
  PROVE  RoundInv'
<1>1. \A m \in ClusterMsg : Contains(reader', m) => Contains(reader, m) \/ Timely(m)'
  <2>1. ASSUME NEW m \in ClusterMsg, m.type = "QueueServer"  PROVE Timely(m)'
    BY <2>1 DEF Timely
  <2> QED  BY <2>1, HandledChannel
<1> QED  BY <1>1, RoundGoesOn

LEMMA InitRoundInv == ASSUME LabelsSuffice, Init PROVE RoundInv
<1>1. Over = {} /\ Rounds = 0
  BY FS_EmptySet DEF Init, Over, Idle, Rounds
<1>2. timer_now = Label(Rounds)
  BY <1>1, ConfigAssumption DEF Init, Label
<1>3. TimersTimely /\ ChannelTimely /\ WiresTimely
  BY EmptyChannel DEF Init, TimersTimely, ChannelTimely, WiresTimely
<1> QED  BY <1>2, <1>3 DEF RoundInv

(* The steps of the environment do not touch the state of the round.       *)
LEMMA EnvSameRound ==
  ASSUME UNCHANGED <<task, answer>>
  PROVE  SameRound
BY DEF task, SameRound, Over

(* The environment sends only what is in time: a timer its own timeout, a  *)
(* server the pong of a ping it read.                                      *)
LEMMA EnvInTime ==
  ASSUME LabelsSuffice, TypeOK, RoundInv, EnvStep
  PROVE  RoundInv'
<1>1. SameRound => \A m : Timely(m) => Timely(m)'
  BY TimelyKept
<1>2. CASE TimerFires
  <2>1. PICK x \in timers : timers' = timers \ {x} /\ Send(TimerCompleted(x.timer))
    BY <1>2 DEF TimerFires
  <2> DEFINE m == TimerCompleted(x.timer)
  <2>2. m \in ClusterMsg /\ Timely(m)
    BY DEF TypeOK, ClusterMsg, TimerCompleted, Timely, RoundInv, TimersTimely
  <2>3. SameRound /\ wire' = wire
    BY <1>2, EnvSameRound DEF TimerFires
  <2>4. reader' = Append(reader, m) /\ reader \in Seq(ClusterMsg)
    BY <2>1 DEF Send, TypeOK
  <2> HIDE DEF m
  <2> QED  BY <1>1, <2>1, <2>2, <2>3, <2>4, AppendContains, RoundGoesOn
<1>3. ASSUME NEW c \in Conn, ReadPing(c)  PROVE RoundInv'
  <2>1. /\ wire[c] \in Seq(Timer) /\ wire[c] # <<>>
        /\ wire' = [wire EXCEPT ![c] = Tail(wire[c])]
        /\ timers' = timers /\ reader \in Seq(ClusterMsg)
    BY <1>3 DEF ReadPing, TypeOK
  <2>2. SameRound
    BY <1>3, EnvSameRound DEF ReadPing
  <2>3. PICK t0 \in Timer : t0 = Head(wire[c]) /\ Contains(wire[c], t0)
    BY <2>1, HeadTailProperties, TailContains
  <2>4. \A t \in Timer : Contains(Tail(wire[c]), t) => Contains(wire[c], t)
    BY <2>1, TailContains
  <2>5. PICK m \in ClusterMsg : /\ m = ServerPong(t0, NameOf[c])
                                /\ reader' = reader \/ reader' = Append(reader, m)
    BY <1>3, <2>3, ConfigAssumption DEF ClusterMsg, ReadPing, Send
  <2>6. Timely(m)
    <3>1. PingTimely(t0, c)
      BY <2>3 DEF RoundInv, WiresTimely
    <3>2. PongTimely(t0, NameOf[c])
      BY <3>1 DEF PingTimely, PongTimely
    <3>3. m.type = "ServerPong" /\ m.timer = t0 /\ m.name = NameOf[c]
      BY <2>5 DEF ServerPong
    <3> QED  BY <3>2, <3>3 DEF Timely
  <2>7. \A e \in ClusterMsg : Contains(reader', e) => Contains(reader, e) \/ Timely(e)'
    <3>1. Timely(m)'
      BY <1>1, <2>2, <2>6
    <3>2. \A e : Contains(Append(reader, m), e) <=> Contains(reader, e) \/ e = m
      BY <2>1, <2>5, AppendContains
    <3> QED  BY <2>5, <3>1, <3>2
  <2>8. \A d \in Conn : \A t \in Timer : Contains(wire'[d], t) => Contains(wire[d], t)
    BY <2>1, <2>4 DEF TypeOK
  <2> QED  BY <2>1, <2>2, <2>7, <2>8, RoundGoesOn
<1>4. ASSUME NEW c \in Conn, Lose(c)  PROVE RoundInv'
  <2>1. /\ wire' = [wire EXCEPT ![c] = <<>>] /\ UNCHANGED <<reader, timers>>
        /\ SameRound
    BY <1>4, EnvSameRound DEF Lose
  <2>2. \A d \in Conn : \A t \in Timer : Contains(wire'[d], t) => Contains(wire[d], t)
    BY <2>1, EmptyChannel DEF TypeOK
  <2> QED  BY <2>1, <2>2, RoundGoesOn
<1>5. ASSUME NEW m \in ClusterMsg, Send(m), m.type \notin {"TimerCompleted", "ServerPong"},
             UNCHANGED <<task, answer, timers, wire>>
      PROVE  RoundInv'
  <2>1. Timely(m)
    BY <1>5 DEF Timely
  <2>2. SameRound /\ reader' = Append(reader, m) /\ reader \in Seq(ClusterMsg)
    BY <1>5, EnvSameRound DEF Send, TypeOK
  <2> QED  BY <1>1, <1>5, <2>1, <2>2, AppendContains, RoundGoesOn
<1>6. ASSUME NEW r \in Request, Dispatch(r)  PROVE RoundInv'
  <2>1. QueueServer(r) \in ClusterMsg /\ QueueServer(r).type = "QueueServer"
    BY DEF ClusterMsg, QueueServer
  <2> QED  BY <1>5, <1>6, <2>1 DEF Dispatch
<1>7. ASSUME NEW c \in Conn, Connect(c) \/ Unlink(c)  PROVE RoundInv'
  <2>1. /\ PushServer(c) \in ClusterMsg /\ PushServer(c).type = "PushServer"
        /\ PopServer(c) \in ClusterMsg /\ PopServer(c).type = "PopServer"
    BY DEF ClusterMsg, PushServer, PopServer
  <2> QED  BY <1>5, <1>7, <2>1 DEF Connect, Unlink
<1>8. ASSUME NEW c \in Conn, NEW b \in BOOLEAN, SetActive(c, b)  PROVE RoundInv'
  <2>1. UpdateActive(NameOf[c], b) \in ClusterMsg
    BY ConfigAssumption DEF ClusterMsg
  <2>2. UpdateActive(NameOf[c], b).type = "UpdateActive"
    BY DEF UpdateActive
  <2> QED  BY <1>5, <1>8, <2>1, <2>2 DEF SetActive
<1> QED  BY <1>2, <1>3, <1>4, <1>6, <1>7, <1>8 DEF EnvStep

-----------------------------------------------------------------------------
LEMMA NextRoundInv ==
  ASSUME LabelsSuffice, RequestInv, RoundInv, [Next]_vars
  PROVE  RoundInv'
<1>1. TypeOK /\ PingsInRound
  BY DEF RequestInv, TypeInv
<1>2. ASSUME state.tag = "RecvPong"
      PROVE  state.server \in Request \ Over
  <2>1. PICK r \in Request : r = state.server
    BY <1>1, <1>2, BusyServer DEF TypeOK
  <2>2. answer[r] = None
    BY <2>1 DEF RequestInv, OnePlace, InWork, Answered
  <2> QED  BY <1>2, <2>1, <2>2 DEF Over
<1>3. CASE HandlePushServer
  <2>1. Handled /\ reader # <<>> /\ UNCHANGED <<timers, wire>>
    BY <1>1, <1>3, Received, GoIdleSends DEF HandlePushServer, Handled
  <2>2. Over' = Over
    <3>1. CASE state.tag = "Starting"
      <4>1. NameOf[msg.conn] \in Name
        BY <1>1, <1>3, Received, MsgFields, ConfigAssumption DEF HandlePushServer
      <4>2. state.server \in Request
        BY <1>1, <3>1, BusyServer DEF TypeOK
      <4>3. answer' = [answer EXCEPT ![state.server] = NameOf[msg.conn]] /\ state'.tag = "Idle"
        BY <1>3, <3>1 DEF HandlePushServer, Respond, GoIdle, Idle
      <4> QED  BY <1>1, <3>1, <4>1, <4>2, <4>3, ConfigAssumption DEF Over, TypeOK
    <3>2. CASE state.tag # "Starting"
      BY <1>3, <3>2 DEF HandlePushServer, Over
    <3> QED  BY <3>1, <3>2
  <2>3. SameRound
    BY <1>3, <2>2 DEF HandlePushServer, SameRound
  <2> QED  BY <1>1, <2>1, <2>3, HandledInRound
<1>4. CASE HandlePopServer \/ HandleUpdateActive
  <2>1. /\ Handled /\ reader # <<>>
        /\ UNCHANGED <<timers, wire, state, answer, timer_now, pinged, next_ping>>
    BY <1>4 DEF HandlePopServer, HandleUpdateActive, Handled, Receive
  <2>2. SameRound
    BY <2>1 DEF SameRound, Over
  <2> QED  BY <1>1, <2>1, <2>2, HandledInRound
<1>5. CASE HandleQueueServer
  <2>1. Handled /\ reader # <<>> /\ UNCHANGED <<timers, wire>>
    BY <1>5 DEF HandleQueueServer, Handled, Receive
  <2>2. SameRound
    BY <1>5 DEF HandleQueueServer, CanAccept, SameRound, Over, RecvPong
  <2> QED  BY <1>1, <2>1, <2>2, HandledInRound
<1>6. CASE Ping
  <2> DEFINE c0 == servers[next_ping].conn
  <2>1. state.tag = "RecvPong"
    BY <1>1, <1>6 DEF Ping, PingsInRound, TypeOK
  <2>2. /\ SameRound /\ UNCHANGED <<reader, timers, timer_now>> /\ state' = state
        /\ \/ wire' = wire
           \/ wire' = [wire EXCEPT ![c0] = Append(@, timer_now)] /\ c0 \in pinged'
    <3>1. next_ping # 0
      BY <1>1, <1>6 DEF Ping, TypeOK
    <3> QED  BY <1>6, <3>1 DEF Ping, SameRound, Over
  <2> HIDE DEF c0
  <2>3. ASSUME NEW c \in Conn, NEW t \in Timer, Contains(wire'[c], t)
        PROVE  Contains(wire[c], t) \/ PingTimely(t, c)'
    <3>1. CASE wire'[c] = wire[c]
      BY <2>3, <3>1
    <3>2. CASE wire'[c] # wire[c]
      <4>1. c = c0 /\ wire'[c] = Append(wire[c], timer_now) /\ c \in pinged'
        BY <1>1, <2>2, <3>2 DEF TypeOK
      <4>2. Contains(wire[c], t) \/ t = timer_now
        BY <1>1, <2>3, <4>1, AppendContains DEF TypeOK
      <4> QED  BY <2>1, <2>2, <4>1, <4>2 DEF PingTimely, Current
    <3> QED  BY <3>1, <3>2
  <2> QED  BY <1>1, <2>2, <2>3, RoundGoesOn
<1>7. CASE StartTimer
  <2>1. state.tag = "RecvPong"
    BY <1>1, <1>7 DEF StartTimer, PingsInRound, TypeOK
  <2>2. /\ SameRound /\ UNCHANGED <<reader, wire>> /\ next_ping' = 0
        /\ timers' = timers \cup {TimerTask(state.server)}
    BY <1>7 DEF StartTimer, SameRound, Over
  <2> QED  BY <1>1, <2>1, <2>2, RoundGoesOn
<1>8. CASE HandleServerPong
  <2>1. Handled /\ reader # <<>> /\ UNCHANGED <<timers, wire>>
    BY <1>1, <1>8, Received, GoIdleSends DEF HandleServerPong, Handled
  <2>2. CASE Late(msg.timer) \/ state.tag # "RecvPong"
    <3>1. SameRound
      BY <1>8, <2>2 DEF HandleServerPong, SameRound, Over
    <3> QED  BY <1>1, <2>1, <3>1, HandledInRound
  <2>3. CASE ~(Late(msg.timer) \/ state.tag # "RecvPong")
    <3>1. msg.name \in Name
      BY <1>1, <1>8, Received, MsgFields DEF HandleServerPong
    <3>2. /\ answer' = [answer EXCEPT ![state.server] = msg.name] /\ state'.tag = "Idle"
          /\ timer_now' = NextTimer(timer_now) /\ state.server \in Request \ Over
      BY <1>2, <1>8, <2>3 DEF HandleServerPong, Respond, GoIdle, Idle
    <3>3. Over' = Over \cup {state.server}
      BY <1>1, <2>3, <3>1, <3>2, ConfigAssumption DEF Over, TypeOK
    <3>4. \A m \in ClusterMsg :
            Contains(reader', m) => Contains(reader, m) \/ m.type = "QueueServer"
      BY <1>1, <2>1, HandledChannel
    <3> QED  BY <1>1, <2>1, <3>2, <3>3, <3>4, RoundIsOver DEF EndOfRound
  <2> QED  BY <2>2, <2>3
<1>9. CASE HandleTimerCompleted
  <2>1. Handled /\ reader # <<>> /\ UNCHANGED <<timers, wire, answer>>
    BY <1>9 DEF HandleTimerCompleted, Handled, Receive
  <2>2. CASE Late(msg.timer) \/ state.tag # "RecvPong"
    <3>1. SameRound
      BY <1>9, <2>2 DEF HandleTimerCompleted, SameRound, Over
    <3> QED  BY <1>1, <2>1, <3>1, HandledInRound
  <2>3. CASE ~(Late(msg.timer) \/ state.tag # "RecvPong")
    <3>1. /\ state'.tag = "Starting" /\ state'.server = state.server
          /\ timer_now' = NextTimer(timer_now) /\ state.server \in Request \ Over
      BY <1>2, <1>9, <2>3 DEF HandleTimerCompleted, Starting
    <3>2. Over' = Over \cup {state.server}
      BY <2>1, <2>3, <3>1 DEF Over
    <3>3. \A m \in ClusterMsg :
            Contains(reader', m) => Contains(reader, m) \/ m.type = "QueueServer"
      BY <1>1, <2>1, HandledChannel
    <3> QED  BY <1>1, <2>1, <3>1, <3>2, <3>3, RoundIsOver DEF EndOfRound
  <2> QED  BY <2>2, <2>3
<1>10. CASE EnvStep
  BY <1>1, <1>10, EnvInTime
<1>11. CASE UNCHANGED vars
  <2>1. SameRound /\ UNCHANGED <<reader, timers, wire>>
    BY <1>11, EnvSameRound DEF vars, task
  <2> QED  BY <1>1, <2>1, RoundGoesOn
<1> QED
  BY <1>3, <1>4, <1>5, <1>6, <1>7, <1>8, <1>9, <1>10, <1>11 DEF Next, ClusterStep, EnvStep

-----------------------------------------------------------------------------
RoundsInv == RequestInv /\ RoundInv

LEMMA RoundsInvariant == ASSUME LabelsSuffice PROVE Spec => []RoundsInv
<1>1. Init => RoundsInv
  BY InitRequestInv, InitRoundInv DEF RoundsInv
<1>2. RoundsInv /\ [Next]_vars => RoundsInv'
  BY NextRequestInv, NextRoundInv DEF RoundsInv
<1> QED  BY <1>1, <1>2, PTL DEF Spec

(* While there are at least as many labels as rounds, a timeout or a pong  *)
(* of an earlier round never has the label of the current one: out of      *)
(* RecvPong nothing pending has it, no timeout has it before the timer of  *)
(* the round was started, and there is one timer for it at most.           *)
THEOREM StaleEventsAreIgnored == ASSUME LabelsSuffice PROVE Spec => []StaleEventsIgnored
<1>1. RoundsInv => StaleEventsIgnored
  <2> SUFFICES ASSUME RoundsInv PROVE StaleEventsIgnored
    OBVIOUS
  <2>1. TypeOK /\ RoundInv /\ ~Outdated(timer_now)
    BY OutdatedDiffers DEF RoundsInv, RequestInv, TypeInv, RoundInv
  <2>2. PendingTimeout(timer_now) => state.tag = "RecvPong" /\ next_ping = 0
    <3>1. ASSUME NEW x \in timers, x.timer = timer_now
          PROVE  state.tag = "RecvPong" /\ next_ping = 0
      BY <2>1, <3>1 DEF RoundInv, TimersTimely, TimeoutTimely, Current
    <3>2. ASSUME NEW i \in DOMAIN reader, reader[i] = TimerCompleted(timer_now)
          PROVE  state.tag = "RecvPong" /\ next_ping = 0
      <4>1. reader[i] \in ClusterMsg /\ Contains(reader, reader[i])
        BY <2>1 DEF TypeOK, Contains
      <4>2. reader[i].type = "TimerCompleted" /\ reader[i].timer = timer_now
        BY <3>2 DEF TimerCompleted
      <4> QED  BY <2>1, <4>1, <4>2 DEF RoundInv, ChannelTimely, Timely, TimeoutTimely, Current
    <3> QED  BY <3>1, <3>2 DEF PendingTimeout
  <2>3. PendingPong(timer_now) => state.tag = "RecvPong"
    <3>1. ASSUME NEW c \in Conn, NEW i \in DOMAIN wire[c], wire[c][i] = timer_now
          PROVE  state.tag = "RecvPong"
      <4>1. timer_now \in Timer /\ Contains(wire[c], timer_now)
        BY <2>1, <3>1 DEF TypeOK, Contains
      <4> QED  BY <2>1, <4>1 DEF RoundInv, WiresTimely, PingTimely, Current
    <3>2. ASSUME NEW i \in DOMAIN reader, reader[i].type = "ServerPong",
                 reader[i].timer = timer_now
          PROVE  state.tag = "RecvPong"
      <4>1. reader[i] \in ClusterMsg /\ Contains(reader, reader[i])
        BY <2>1 DEF TypeOK, Contains
      <4> QED  BY <2>1, <3>2, <4>1 DEF RoundInv, ChannelTimely, Timely, PongTimely, Current
    <3> QED  BY <3>1, <3>2 DEF PendingPong
  <2>4. ASSUME NEW x \in timers, NEW y \in timers, x.timer = timer_now, y.timer = timer_now
        PROVE  x = y
    <3>1. x.server = state.server /\ y.server = state.server
      BY <2>1, <2>4 DEF RoundInv, TimersTimely
    <3>2. x \in [timer : Timer, server : Request] /\ y \in [timer : Timer, server : Request]
      BY <2>1 DEF TypeOK
    <3> QED  BY <2>4, <3>1, <3>2
  <2> QED  BY <2>2, <2>3, <2>4 DEF StaleEventsIgnored
<1> QED  BY <1>1, RoundsInvariant, PTL

(* Under the same condition, a request that is answered without starting a *)
(* server goes to one that was pinged for it, in its own round.            *)
THEOREM AnswersComeFromPinged == ASSUME LabelsSuffice PROVE Spec => AnsweredByPingedServer
<1>1. RoundsInv /\ [Next]_vars =>
        [\A r \in Request :
           answer'[r] # answer[r] /\ state.tag = "RecvPong" =>
             \E c \in pinged : answer'[r] = NameOf[c]]_vars
  <2> SUFFICES ASSUME RoundsInv, Next, NEW r \in Request, answer'[r] # answer[r],
                      state.tag = "RecvPong"
               PROVE  \E c \in pinged : answer'[r] = NameOf[c]
    OBVIOUS
  <2>1. TypeOK /\ RoundInv /\ ~Outdated(timer_now)
    BY OutdatedDiffers DEF RoundsInv, RequestInv, TypeInv, RoundInv
  <2>2. HandleServerPong
    BY DEF Next, ClusterStep, HandlePushServer, HandlePopServer, HandleUpdateActive,
           HandleQueueServer, Ping, StartTimer, HandleTimerCompleted, TimerFires,
           Dispatch, Connect, ReadPing, Lose, Unlink, SetActive
  <2>3. /\ msg \in ClusterMsg /\ msg.type = "ServerPong" /\ Contains(reader, msg)
        /\ msg.timer = timer_now /\ answer' = [answer EXCEPT ![state.server] = msg.name]
    BY <2>1, <2>2, Received, TailContains DEF HandleServerPong, Respond, Late, msg, TypeOK
  <2>4. \E c \in pinged : msg.name = NameOf[c]
    BY <2>1, <2>3 DEF RoundInv, ChannelTimely, Timely, PongTimely
  <2> QED  BY <2>1, <2>3, <2>4 DEF TypeOK
<1> QED  BY <1>1, RoundsInvariant, PTL DEF Spec, AnsweredByPingedServer
=============================================================================

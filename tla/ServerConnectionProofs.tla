------------------------ MODULE ServerConnectionProofs ------------------------
(***************************************************************************)
(* Theorems about ServerConnection, for any number of connections,         *)
(* commands, requests, pings and breaks: the two threads of the plugin,    *)
(* the tasks of the controller and the channel to the cluster may be       *)
(* interleaved in any way.                                                 *)
(***************************************************************************)
EXTENDS ServerConnection, ChannelLemmas, FiniteSetTheorems

AuthLength  == [packet |-> Authentication, part |-> "length"]
AuthPayload == [packet |-> Authentication, part |-> "payload"]

(* Only the last connection is alive, and only it is written to by the     *)
(* connection's thread; the main thread may be left behind on an earlier.  *)
ThreadInv ==
  /\ socket => conn # 0
  /\ \A c \in Conn : up[c] => socket /\ c = conn
  /\ \A c \in Conn : c > conn => task[c] = "none"
  /\ writing["connection"] # None =>
       socket /\ connection = conn /\ writing["connection"].on \in {0, conn}
  /\ writing["main"] # None =>
       /\ writing["main"].on <= connection
       /\ writing["main"].packet \notin {Authentication, Pong}
  /\ \A c \in Conn : pings[c] <= rounds

(* A connection is authenticated once: what handle_client reads after that *)
(* is never another Authentication, which it would pass on.                *)
AuthInv ==
  \A c \in Conn :
    /\ Once(sent[c], AuthLength) /\ Once(sent[c], AuthPayload)
    /\ task[c] = "reading" => ~Contains(sent[c], AuthLength) /\ ~Contains(sent[c], AuthPayload)
    /\ c > connection => sent[c] = <<>> /\ task[c] # "reading"
    /\ /\ writing["connection"] # None /\ c = conn
       /\ writing["connection"].packet = Authentication
       => /\ task[c] # "reading" /\ ~Contains(sent[c], AuthPayload)
          /\ writing["connection"].on = 0 => ~Contains(sent[c], AuthLength)

TypeInv == TypeOK /\ ThreadInv /\ AuthInv

-----------------------------------------------------------------------------
(* Packets and frames.                                                     *)

LEMMA PacketFields ==
  ASSUME NEW p \in Packet
  PROVE  /\ p # None
         /\ p \in {Authentication, Pong} \/ p \in Packet \ {Authentication, Pong}
         /\ p.type = "Request" => p.player \in Request /\ p = RequestMsg(p.player)
         /\ p.type = "UpdateActive" => p.active \in BOOLEAN /\ p = UpdateActive(p.active)
         /\ p.type = "Pong" <=> p = Pong
         /\ p.type = "Authentication" <=> p = Authentication
         /\ p.type \in {"Authentication", "Pong", "UpdateActive", "Request"}
BY ConnectionAssumption DEF Packet, Authentication, Pong, UpdateActive, RequestMsg

LEMMA MessageFields ==
  ASSUME NEW m \in Message
  PROVE  /\ m.type = "NewConn" => m.conn \in Conn /\ m = NewConn(m.conn)
         /\ m.type = "Unlink" => m.conn \in Conn /\ m = Unlink(m.conn)
         /\ m.type = "UpdateActive" => m.active \in BOOLEAN /\ m = UpdateActive(m.active)
         /\ m.type = "Request" => m.player \in Request /\ m = RequestMsg(m.player)
         /\ m.type \in {"NewConn", "Unlink", "UpdateActive", "Request"}
BY DEF Message, Packet, Authentication, Pong, UpdateActive, RequestMsg, NewConn, Unlink

(* The next packet on a connection, if its two frames are there.           *)
LEMMA NextPacketFrames ==
  ASSUME NEW s \in Seq(Frame), NextPacket(s) # None
  PROVE  /\ Len(s) >= 2 /\ s[1] \in Frame /\ s[2] \in Frame
         /\ NextPacket(s) = s[1].packet /\ NextPacket(s) \in Packet
         /\ s[2].packet = s[1].packet /\ s[2].part = "payload"
         /\ s[1].part \in {"length", "payload"}
<1>1. Len(s) >= 2 /\ s[2] = [s[1] EXCEPT !.part = "payload"] /\ NextPacket(s) = s[1].packet
  BY DEF NextPacket
<1>2. s[1] \in Frame /\ s[2] \in Frame
  BY <1>1
<1>3. /\ s[1].packet \in Packet /\ s[1].part \in {"length", "payload"}
      /\ s[1] = [packet |-> s[1].packet, part |-> s[1].part]
  BY <1>2 DEF Frame
<1> QED  BY <1>1, <1>2, <1>3

(* What is left on a connection when the first two frames were taken.      *)
LEMMA TakeTwo ==
  ASSUME NEW S, NEW s \in Seq(S), Len(s) >= 2, NEW e
  PROVE  /\ SubSeq(s, 3, Len(s)) \in Seq(S)
         /\ Contains(s, e) <=> Contains(SubSeq(s, 3, Len(s)), e) \/ e = s[1] \/ e = s[2]
         /\ Once(s, e) => Once(SubSeq(s, 3, Len(s)), e)
         /\ Once(s, e) /\ (e = s[1] \/ e = s[2]) => ~Contains(SubSeq(s, 3, Len(s)), e)
<1> DEFINE t == SubSeq(s, 3, Len(s))
<1>1. Len(s) \in Nat /\ DOMAIN s = 1 .. Len(s) /\ \A i \in 1 .. Len(s) : s[i] \in S
  OBVIOUS
<1>2. /\ t \in Seq(S) /\ Len(t) = Len(s) - 2
      /\ \A i \in 1 .. Len(s) - 2 : t[i] = s[3 + i - 1]
  BY <1>1, SubSeqProperties
<1> HIDE DEF t
<1>3. DOMAIN t = 1 .. Len(s) - 2 /\ \A i \in 1 .. Len(s) - 2 : t[i] = s[i + 2]
  BY <1>1, <1>2
<1>4. \A i \in 3 .. Len(s) : i - 2 \in 1 .. Len(s) - 2 /\ t[i - 2] = s[i]
  BY <1>1, <1>3
<1>5. Contains(s, e) <=> Contains(t, e) \/ e = s[1] \/ e = s[2]
  <2>1. Contains(t, e) => Contains(s, e)
    BY <1>1, <1>2, <1>3 DEF Contains
  <2>2. ASSUME Contains(s, e), e # s[1], e # s[2]
        PROVE  Contains(t, e)
    <3>1. PICK i \in 1 .. Len(s) : s[i] = e
      BY <2>2 DEF Contains
    <3>2. i \in 3 .. Len(s)
      BY <1>1, <2>2, <3>1
    <3> QED  BY <1>2, <1>4, <3>1, <3>2 DEF Contains
  <2>3. 1 \in 1 .. Len(s) /\ 2 \in 1 .. Len(s)
    BY <1>1
  <2> QED  BY <2>1, <2>2, <2>3 DEF Contains
<1>6. Once(s, e) => Once(t, e)
  <2> SUFFICES ASSUME Once(s, e), NEW i \in DOMAIN t, NEW j \in DOMAIN t, t[i] = e, t[j] = e
               PROVE  i = j
    BY DEF Once
  <2>1. /\ i \in Int /\ j \in Int /\ i + 2 \in DOMAIN s /\ j + 2 \in DOMAIN s
        /\ s[i + 2] = e /\ s[j + 2] = e
    BY <1>1, <1>3
  <2>2. i + 2 = j + 2
    BY <2>1 DEF Once
  <2> QED  BY <2>1, <2>2
<1>7. ASSUME Once(s, e), e = s[1] \/ e = s[2]  PROVE ~Contains(t, e)
  <2> SUFFICES ASSUME NEW i \in 1 .. Len(s) - 2, t[i] = e PROVE FALSE
    BY <1>2 DEF Contains
  <2>1. i \in Int /\ i + 2 \in DOMAIN s /\ s[i + 2] = e /\ i + 2 > 2
    BY <1>1, <1>3
  <2>2. 1 \in DOMAIN s /\ 2 \in DOMAIN s
    BY <1>1
  <2> QED  BY <1>7, <2>1, <2>2 DEF Once
<1> QED  BY <1>2, <1>5, <1>6, <1>7 DEF t

-----------------------------------------------------------------------------
(* The actions.                                                            *)

(* Steps that write nothing and read nothing.                              *)
LEMMA AuthKept ==
  ASSUME AuthInv, UNCHANGED <<sent, connection, conn>>,
         writing'["connection"] \in {writing["connection"], None}
           \/ writing'["connection"].packet # Authentication,
         \A c \in Conn : task'[c] = "reading" => task[c] = "reading"
  PROVE  AuthInv'
BY DEF AuthInv

(* A packet is written on the connection that is open.                     *)
Written(t) ==
  [packet |-> writing[t].packet, part |-> IF writing[t].on = 0 THEN "length" ELSE "payload"]

LEMMA WriteEffect ==
  ASSUME TypeInv, NEW t \in Thread, WriteNext(t)
  PROVE  /\ conn \in Conn /\ socket /\ connection = conn
         /\ writing[t] # None /\ writing[t] \in Writing /\ Written(t) \in Frame
         /\ writing[t].on \in {0, conn}
         /\ \/ sent' = sent
            \/ sent' = [sent EXCEPT ![conn] = Append(@, Written(t))] /\ task[conn] # "done"
         /\ writing' = [writing EXCEPT ![t] = IF writing[t].on = 0
                                              THEN [packet |-> writing[t].packet, on |-> conn]
                                              ELSE None]
<1>1. writing[t] # None /\ writing[t] \in Writing
  BY DEF WriteNext, TypeInv, TypeOK
<1>2. writing[t].packet \in Packet /\ writing[t].on \in 0 .. MaxConns
      /\ writing[t] = [packet |-> writing[t].packet, on |-> writing[t].on]
  BY <1>1 DEF Writing
<1>3. Open(Target(t))
  BY DEF WriteNext
<1>4. socket /\ Target(t) = conn /\ conn # 0
  BY <1>3 DEF Open, TypeInv, ThreadInv
<1>5. conn \in Conn
  BY <1>4, ConnectionAssumption DEF TypeInv, TypeOK, Conn
<1>6. connection = conn /\ writing[t].on \in {0, conn}
  <2>1. CASE t = "connection"
    BY <1>1, <1>4, <2>1 DEF TypeInv, ThreadInv
  <2>2. CASE t = "main"
    <3>1. writing[t].on <= connection /\ connection <= conn /\ conn \in Nat /\ connection \in Nat
      BY <1>1, <2>2, ConnectionAssumption DEF TypeInv, ThreadInv, TypeOK
    <3> QED  BY <1>2, <1>4, <3>1 DEF Target
  <2> QED  BY <2>1, <2>2 DEF Thread
<1>7. Written(t) \in Frame
  BY <1>2 DEF Written, Frame
<1>8. \/ sent' = sent
      \/ sent' = [sent EXCEPT ![conn] = Append(@, Written(t))] /\ task[conn] # "done"
  BY <1>4 DEF WriteNext, Written
<1>9. writing' = [writing EXCEPT ![t] = IF writing[t].on = 0
                                        THEN [packet |-> writing[t].packet, on |-> conn]
                                        ELSE None]
  <2>1. [writing[t] EXCEPT !.on = conn] = [packet |-> writing[t].packet, on |-> conn]
    BY <1>2
  <2> QED  BY <1>4, <2>1 DEF WriteNext
<1> QED  BY <1>1, <1>4, <1>5, <1>6, <1>7, <1>8, <1>9

LEMMA WriteKeepsTypes ==
  ASSUME TypeInv, NEW t \in Thread, WriteNext(t)
  PROVE  TypeInv'
<1> DEFINE w == writing[t]
           f == Written(t)
<1>1. /\ conn \in Conn /\ socket /\ connection = conn
      /\ w # None /\ w \in Writing /\ f \in Frame /\ w.on \in {0, conn}
      /\ \/ sent' = sent
         \/ sent' = [sent EXCEPT ![conn] = Append(@, f)]
      /\ writing' = [writing EXCEPT ![t] = IF w.on = 0 THEN [packet |-> w.packet, on |-> conn]
                                                      ELSE None]
  BY WriteEffect
<1>2. w.packet \in Packet /\ f.packet = w.packet
      /\ f.part = (IF w.on = 0 THEN "length" ELSE "payload")
      /\ f = [packet |-> f.packet, part |-> f.part]
  BY <1>1 DEF Writing, Written
<1>3. UNCHANGED <<link, acceptingPlayers, up, pings, task, phase, buffer, aside, messages, servers,
                  issued, commands, rounds, breaks>>
  BY DEF WriteNext, cluster, boot
<1>4. confirmed' \subseteq Request \X Conn
  <2>1. confirmed' = confirmed
          \/ (w.packet.type = "Request" /\ w.on # 0
              /\ confirmed' = confirmed \cup {<<w.packet.player, Target(t)>>})
    BY DEF WriteNext
  <2>2. w.on # 0 => Target(t) = conn
    BY <1>1 DEF Target
  <2>3. w.packet.type = "Request" => w.packet.player \in Request
    BY <1>2, PacketFields
  <2> QED  BY <1>1, <2>1, <2>2, <2>3 DEF TypeInv, TypeOK
<1>5. sent[conn] \in Seq(Frame) /\ Append(sent[conn], f) \in Seq(Frame)
  BY <1>1, AppendProperties DEF TypeInv, TypeOK
<1>6. \A e : Contains(Append(sent[conn], f), e) <=> Contains(sent[conn], e) \/ e = f
  BY <1>1, <1>5, AppendContains
<1>7. \A e : Once(sent[conn], e) /\ (e # f \/ ~Contains(sent[conn], e))
               => Once(Append(sent[conn], f), e)
  BY <1>1, <1>5, AppendOnce
<1>8. t = "main" => f # AuthLength /\ f # AuthPayload
  BY <1>1, <1>2 DEF TypeInv, ThreadInv, AuthLength, AuthPayload
<1>9. t = "connection" /\ f = AuthLength => w.packet = Authentication /\ w.on = 0
  BY <1>2 DEF AuthLength
<1>10. t = "connection" /\ f = AuthPayload => w.packet = Authentication /\ w.on # 0
  BY <1>2 DEF AuthPayload
<1>11. AuthLength # AuthPayload
  BY DEF AuthLength, AuthPayload
<1> HIDE DEF f
<1>12. writing' \in [Thread -> Writing \cup {None}]
  <2>1. [packet |-> w.packet, on |-> conn] \in Writing
    BY <1>1, <1>2 DEF Writing, TypeInv, TypeOK
  <2> HIDE DEF w
  <2> QED  BY <1>1, <2>1 DEF TypeInv, TypeOK
<1>13. TypeOK'
  BY <1>1, <1>3, <1>4, <1>5, <1>12 DEF TypeInv, TypeOK, link
<1>14. ThreadInv'
  BY <1>1, <1>2, <1>3 DEF TypeInv, ThreadInv, TypeOK, link, Thread
<1>15. AuthInv'
  <2> SUFFICES ASSUME NEW c \in Conn
               PROVE  /\ Once(sent'[c], AuthLength) /\ Once(sent'[c], AuthPayload)
                      /\ task[c] = "reading" =>
                           ~Contains(sent'[c], AuthLength) /\ ~Contains(sent'[c], AuthPayload)
                      /\ c > connection => sent'[c] = <<>> /\ task[c] # "reading"
                      /\ /\ writing'["connection"] # None /\ c = conn
                         /\ writing'["connection"].packet = Authentication
                         => /\ task[c] # "reading" /\ ~Contains(sent'[c], AuthPayload)
                            /\ writing'["connection"].on = 0 => ~Contains(sent'[c], AuthLength)
    BY <1>3 DEF AuthInv, link, AuthLength, AuthPayload
  <2>1. /\ Once(sent[c], AuthLength) /\ Once(sent[c], AuthPayload)
        /\ task[c] = "reading" => ~Contains(sent[c], AuthLength) /\ ~Contains(sent[c], AuthPayload)
        /\ c > connection => sent[c] = <<>> /\ task[c] # "reading"
        /\ /\ writing["connection"] # None /\ c = conn
           /\ writing["connection"].packet = Authentication
           => /\ task[c] # "reading" /\ ~Contains(sent[c], AuthPayload)
              /\ writing["connection"].on = 0 => ~Contains(sent[c], AuthLength)
    BY DEF TypeInv, AuthInv
  <2>2. c \in Nat /\ connection \in Nat /\ conn \in Nat
    BY <1>1, ConnectionAssumption DEF Conn
  <2>3. CASE sent'[c] = sent[c]
    BY <1>1, <2>1, <2>2, <2>3 DEF TypeInv, TypeOK, Thread
  <2>4. CASE sent'[c] # sent[c]
    <3>1. c = conn /\ sent'[c] = Append(sent[c], f)
      BY <1>1, <2>4 DEF TypeInv, TypeOK
    <3>2. CASE t = "main"
      BY <1>1, <1>6, <1>7, <1>8, <2>1, <2>2, <3>1, <3>2 DEF TypeInv, TypeOK, Thread
    <3>3. CASE t = "connection"
      <4>1. writing'["connection"] = IF w.on = 0 THEN [packet |-> w.packet, on |-> conn]
                                                 ELSE None
        BY <1>1, <3>3 DEF TypeInv, TypeOK, Thread
      <4>2. ~(c > connection) /\ w = writing["connection"] /\ conn # 0
        BY <1>1, <2>2, <3>1, <3>3 DEF Conn
      <4> HIDE DEF w
      <4>3. CASE f = AuthLength
        BY <1>1, <1>6, <1>7, <1>9, <1>11, <2>1, <3>1, <3>3, <4>1, <4>2, <4>3
      <4>4. CASE f = AuthPayload
        BY <1>1, <1>6, <1>7, <1>10, <1>11, <2>1, <3>1, <3>3, <4>1, <4>2, <4>4
      <4>5. CASE f # AuthLength /\ f # AuthPayload
        <5>1. w.packet = Authentication => f = AuthLength \/ f = AuthPayload
          BY <1>2 DEF AuthLength, AuthPayload
        <5> QED  BY <1>1, <1>6, <1>7, <2>1, <3>1, <4>1, <4>2, <4>5, <5>1
      <4> QED  BY <4>3, <4>4, <4>5
    <3> QED  BY <3>2, <3>3 DEF Thread
  <2> QED  BY <2>3, <2>4
<1> QED  BY <1>13, <1>14, <1>15 DEF TypeInv

LEMMA ConnectKeepsTypes ==
  ASSUME TypeInv, Connect
  PROVE  TypeInv'
<1>1. /\ conn \in Nat /\ connection \in Nat /\ connection <= conn /\ MaxConns \in Nat
      /\ conn' = conn + 1 /\ conn' \in Conn /\ ~socket /\ socket' = TRUE /\ backoff' = 1
      /\ up' = [up EXCEPT ![conn'] = TRUE] /\ task' = [task EXCEPT ![conn'] = "auth"]
      /\ writing["connection"] = None
  BY ConnectionAssumption DEF Connect, TypeInv, TypeOK, ThreadInv, Conn
<1>2. UNCHANGED <<connection, acceptingPlayers, writing, sent, pings, phase, buffer, aside,
                  messages, servers, confirmed, issued, commands, rounds, breaks>>
  BY DEF Connect, cluster, boot, history
<1>3. TypeOK'
  <2>1. backoff' \in 1 .. MAX_BACKOFF_SECONDS /\ conn' \in 0 .. MaxConns
        /\ connection' \in 0 .. conn'
    BY <1>1, <1>2 DEF MAX_BACKOFF_SECONDS, Conn
  <2> QED  BY <1>1, <1>2, <2>1 DEF TypeInv, TypeOK
<1>4. ThreadInv'
  <2>1. \A c \in Conn : c > conn' => task'[c] = "none"
    BY <1>1 DEF TypeInv, TypeOK, ThreadInv, Conn
  <2>2. \A c \in Conn : up'[c] => c = conn'
    BY <1>1 DEF TypeInv, TypeOK, ThreadInv
  <2> QED  BY <1>1, <1>2, <2>1, <2>2 DEF TypeInv, ThreadInv
<1>5. AuthInv'
  BY <1>1, <1>2 DEF TypeInv, TypeOK, AuthInv, AuthLength, AuthPayload
<1> QED  BY <1>3, <1>4, <1>5 DEF TypeInv

LEMMA OnConnectKeepsTypes ==
  ASSUME TypeInv, OnConnect
  PROVE  TypeInv'
<1> DEFINE w == [packet |-> Authentication, on |-> 0]
<1>1. /\ conn \in Nat /\ connection \in Nat /\ connection < conn /\ MaxConns \in Nat
      /\ conn \in Conn /\ connection' = conn /\ socket
      /\ writing' = [writing EXCEPT !["connection"] = w]
  <2>1. /\ conn \in 0 .. MaxConns /\ connection \in 0 .. conn /\ MaxConns \in Nat
    BY ConnectionAssumption DEF TypeInv, TypeOK
  <2>2. connection # conn /\ connection' = conn /\ socket
    BY DEF OnConnect
  <2>3. writing' = [writing EXCEPT !["connection"] = w]
    BY DEF OnConnect, Write
  <2> QED  BY <2>1, <2>2, <2>3 DEF Conn
<1>2. UNCHANGED <<backoff, conn, socket, acceptingPlayers, up, sent, pings, task, phase, buffer,
                  aside, messages, servers, confirmed, issued, commands, rounds, breaks>>
  BY DEF OnConnect, network, cluster, boot, history
<1>3. w \in Writing
  BY <1>1 DEF Writing, Packet
<1>4. w.packet = Authentication /\ w.on = 0
  OBVIOUS
<1> HIDE DEF w
<1>5. writing'["connection"] = w /\ writing'["main"] = writing["main"]
  BY <1>1 DEF TypeInv, TypeOK, Thread
<1>6. TypeOK'
  <2>1. connection' \in 0 .. conn'
    BY <1>1, <1>2
  <2>2. writing' \in [Thread -> Writing \cup {None}]
    BY <1>1, <1>3 DEF TypeInv, TypeOK
  <2> QED  BY <1>1, <1>2, <2>1, <2>2 DEF TypeInv, TypeOK
<1>7. ThreadInv'
  <2>1. writing["main"] # None => writing["main"].on \in 0 .. MaxConns
    BY DEF TypeInv, TypeOK, Writing, Thread
  <2>2. writing'["main"] # None =>
          /\ writing'["main"].on <= connection'
          /\ writing'["main"].packet \notin {Authentication, Pong}
    BY <1>1, <1>5, <2>1 DEF TypeInv, ThreadInv
  <2> QED  BY <1>1, <1>2, <1>4, <1>5, <2>2 DEF TypeInv, ThreadInv, Authentication, Pong
<1>8. AuthInv'
  <2>1. sent[conn] = <<>> /\ task[conn] # "reading"
    BY <1>1 DEF TypeInv, AuthInv
  <2>2. ~Contains(sent[conn], AuthPayload) /\ ~Contains(sent[conn], AuthLength)
    BY <2>1, EmptyChannel
  <2>3. \A c \in Conn : c > connection' => c > connection
    BY <1>1 DEF Conn
  <2> QED  BY <1>1, <1>2, <2>1, <2>2, <2>3 DEF TypeInv, AuthInv, AuthLength, AuthPayload
<1> QED  BY <1>6, <1>7, <1>8 DEF TypeInv

(* What the server does without writing, and what the network does to it.  *)
LEMMA DisconnectKeepsTypes ==
  ASSUME TypeInv, socket, Disconnect
  PROVE  TypeInv'
<1>1. /\ socket' = FALSE /\ up' = [up EXCEPT ![conn] = FALSE]
      /\ writing' = [writing EXCEPT !["connection"] = None]
      /\ pings' = [pings EXCEPT ![conn] = 0]
      /\ UNCHANGED <<backoff, conn, connection, acceptingPlayers, sent, task, phase, buffer, aside,
                     messages, servers, confirmed, issued, commands, rounds, breaks>>
  BY DEF Disconnect, cluster, boot, history
<1>2. writing'["connection"] = None /\ writing'["main"] = writing["main"]
  BY <1>1 DEF TypeInv, TypeOK, Thread
<1>3. 0 \in 0 .. MaxPings /\ rounds \in Nat
  BY ConnectionAssumption DEF TypeInv, TypeOK
<1>4. TypeOK'
  BY <1>1, <1>3 DEF TypeInv, TypeOK
<1>5. ThreadInv'
  BY <1>1, <1>2, <1>3 DEF TypeInv, TypeOK, ThreadInv
<1>6. AuthInv'
  BY <1>1, <1>2, AuthKept DEF TypeInv
<1> QED  BY <1>4, <1>5, <1>6 DEF TypeInv

LEMMA OnPingPacketKeepsTypes ==
  ASSUME TypeInv, OnPingPacket
  PROVE  TypeInv'
<1> DEFINE w == [packet |-> Pong, on |-> 0]
<1>1. /\ socket /\ connection = conn /\ conn \in Conn /\ pings[conn] \in 0 .. MaxPings
      /\ pings[conn] > 0 /\ pings' = [pings EXCEPT ![conn] = pings[conn] - 1]
      /\ \/ writing' = [writing EXCEPT !["connection"] = w]
         \/ writing' = writing
      /\ UNCHANGED <<backoff, conn, socket, connection, acceptingPlayers, up, sent, task,
                     phase, buffer, aside, messages, servers, confirmed, issued, commands, rounds,
                     breaks>>
  BY ConnectionAssumption
  DEF OnPingPacket, Reading, Write, TypeInv, TypeOK, ThreadInv, Conn, link, cluster, boot, history
<1>2. w \in Writing /\ w.packet = Pong /\ w.on = 0
  BY ConnectionAssumption DEF Writing, Packet
<1> HIDE DEF w
<1>3. /\ writing'["connection"] \in {writing["connection"], w}
      /\ writing'["main"] = writing["main"]
  BY <1>1 DEF TypeInv, TypeOK, Thread
<1>4. TypeOK'
  <2>1. pings[conn] - 1 \in 0 .. MaxPings
    BY <1>1, ConnectionAssumption
  <2>2. pings' \in [Conn -> 0 .. MaxPings] /\ writing' \in [Thread -> Writing \cup {None}]
    BY <1>1, <1>2, <2>1 DEF TypeInv, TypeOK
  <2> QED  BY <1>1, <2>2 DEF TypeInv, TypeOK
<1>5. ThreadInv'
  <2>1. \A c \in Conn : pings'[c] <= rounds'
    <3>1. \A c \in Conn : pings[c] \in Nat /\ pings[c] <= rounds /\ rounds \in Nat
      BY ConnectionAssumption DEF TypeInv, TypeOK, ThreadInv
    <3> QED  BY <1>1, <3>1 DEF TypeInv, TypeOK
  <2> QED  BY <1>1, <1>2, <1>3, <2>1 DEF TypeInv, ThreadInv
<1>6. Pong # Authentication
  BY DEF Pong, Authentication
<1>7. AuthInv'
  BY <1>1, <1>2, <1>3, <1>6, AuthKept DEF TypeInv
<1> QED  BY <1>4, <1>5, <1>7 DEF TypeInv

LEMMA CommandsKeepTypes ==
  ASSUME TypeInv, \/ \E r \in Request : RequestCommand(r)
                  \/ \E v \in BOOLEAN : CloseCommand(v)
                  \/ CommandFails
  PROVE  TypeInv'
<1>1. PICK p \in Packet \ {Authentication, Pong} :
        /\ \/ writing' = [writing EXCEPT !["main"] = [packet |-> p, on |-> 0]]
           \/ writing' = [writing EXCEPT !["main"] = None]
        /\ issued' \subseteq Request /\ acceptingPlayers' \in BOOLEAN
        /\ commands' \in 0 .. MaxCommands
        /\ UNCHANGED <<backoff, conn, socket, connection, up, sent, pings, task, phase, buffer,
                       aside, messages, servers, confirmed, rounds, breaks>>
  <2>1. ASSUME NEW r \in Request, RequestCommand(r)
        PROVE  /\ writing' = [writing EXCEPT !["main"] = [packet |-> RequestMsg(r), on |-> 0]]
               /\ issued' \subseteq Request /\ acceptingPlayers' \in BOOLEAN
               /\ commands' \in 0 .. MaxCommands
               /\ UNCHANGED <<backoff, conn, socket, connection, up, sent, pings, task, phase,
                              buffer, aside, messages, servers, confirmed, rounds, breaks>>
               /\ RequestMsg(r) \in Packet \ {Authentication, Pong}
    BY <2>1, ConnectionAssumption
    DEF RequestCommand, Write, TypeInv, TypeOK, link, network, cluster, boot, Packet,
        Authentication, Pong, RequestMsg
  <2>2. ASSUME NEW v \in BOOLEAN, CloseCommand(v)
        PROVE  /\ writing' = [writing EXCEPT !["main"] = [packet |-> UpdateActive(v), on |-> 0]]
               /\ issued' \subseteq Request /\ acceptingPlayers' \in BOOLEAN
               /\ commands' \in 0 .. MaxCommands
               /\ UNCHANGED <<backoff, conn, socket, connection, up, sent, pings, task, phase,
                              buffer, aside, messages, servers, confirmed, rounds, breaks>>
               /\ UpdateActive(v) \in Packet \ {Authentication, Pong}
    BY <2>2, ConnectionAssumption
    DEF CloseCommand, Write, TypeInv, TypeOK, link, network, cluster, boot, Packet, Authentication,
        Pong, UpdateActive
  <2>3. ASSUME CommandFails
        PROVE  /\ writing' = [writing EXCEPT !["main"] = None]
               /\ issued' \subseteq Request /\ acceptingPlayers' \in BOOLEAN
               /\ commands' \in 0 .. MaxCommands
               /\ UNCHANGED <<backoff, conn, socket, connection, up, sent, pings, task, phase,
                              buffer, aside, messages, servers, confirmed, rounds, breaks>>
               /\ UpdateActive(TRUE) \in Packet \ {Authentication, Pong}
    BY <2>3
    DEF CommandFails, TypeInv, TypeOK, link, network, cluster, boot, history, Packet,
        Authentication, Pong, UpdateActive
  <2> QED  BY <2>1, <2>2, <2>3
<1> DEFINE w == [packet |-> p, on |-> 0]
<1>2. w \in Writing /\ w.packet = p /\ w.on = 0
  BY ConnectionAssumption DEF Writing
<1> HIDE DEF w
<1>3. /\ writing'["connection"] = writing["connection"]
      /\ writing'["main"] \in {w, None}
      /\ writing' \in [Thread -> Writing \cup {None}]
  BY <1>1, <1>2 DEF TypeInv, TypeOK, Thread, w
<1>4. TypeOK'
  BY <1>1, <1>3 DEF TypeInv, TypeOK
<1>5. connection \in Nat
  BY ConnectionAssumption DEF TypeInv, TypeOK
<1>6. ThreadInv'
  BY <1>1, <1>2, <1>3, <1>5 DEF TypeInv, ThreadInv
<1>7. AuthInv'
  BY <1>1, <1>3, AuthKept DEF TypeInv
<1> QED  BY <1>4, <1>6, <1>7 DEF TypeInv

LEMMA NetworkKeepsTypes ==
  ASSUME TypeInv, ConnectFails \/ Breaks
  PROVE  TypeInv'
<1>1. /\ \/ up' = up
         \/ up' = [up EXCEPT ![conn] = FALSE]
      /\ breaks' \in 0 .. MaxBreaks /\ backoff' \in 1 .. MAX_BACKOFF_SECONDS
      /\ UNCHANGED <<conn, socket, connection, acceptingPlayers, writing, sent, pings, task,
                     phase, buffer, aside, messages, servers, confirmed, issued, commands, rounds>>
  <2>1. CASE ConnectFails
    <3>1. backoff \in 1 .. 30 /\ 2 * backoff \in Int
      BY DEF TypeInv, TypeOK, MAX_BACKOFF_SECONDS
    <3>2. backoff' = CHOOSE x \in {2 * backoff, 30} : \A y \in {2 * backoff, 30} : x <= y
      BY <2>1 DEF ConnectFails, Min, MAX_BACKOFF_SECONDS
    <3>3. \E x \in {2 * backoff, 30} : \A y \in {2 * backoff, 30} : x <= y
      BY <3>1
    <3>4. backoff' \in {2 * backoff, 30} /\ backoff' <= 30
      BY <3>2, <3>3
    <3>5. backoff' \in 1 .. MAX_BACKOFF_SECONDS
      BY <3>1, <3>4 DEF MAX_BACKOFF_SECONDS
    <3>6. breaks' \in 0 .. MaxBreaks
      BY <2>1, ConnectionAssumption DEF ConnectFails, TypeInv, TypeOK
    <3> QED  BY <2>1, <3>5, <3>6 DEF ConnectFails, network, cluster, boot
  <2>2. CASE Breaks
    BY <2>2, ConnectionAssumption DEF Breaks, TypeInv, TypeOK, plugin, link, cluster, boot
  <2> QED  BY <2>1, <2>2
<1>2. TypeOK'
  BY <1>1 DEF TypeInv, TypeOK
<1>3. ThreadInv'
  BY <1>1 DEF TypeInv, TypeOK, ThreadInv
<1>4. AuthInv'
  BY <1>1, AuthKept DEF TypeInv
<1> QED  BY <1>2, <1>3, <1>4 DEF TypeInv

LEMMA PingActiveKeepsTypes ==
  ASSUME TypeInv, PingActive
  PROVE  TypeInv'
<1>1. /\ rounds < MaxPings /\ rounds' = rounds + 1
      /\ \A c \in Conn : pings'[c] \in {pings[c], pings[c] + 1}
      /\ DOMAIN pings' = Conn /\ pings' = [c \in Conn |-> pings'[c]]
      /\ UNCHANGED <<backoff, conn, socket, connection, acceptingPlayers, writing, up, sent, task,
                     phase, buffer, aside, messages, servers, confirmed, issued, commands, breaks>>
  BY DEF PingActive, plugin, link, cluster, boot
<1>2. rounds \in Nat /\ MaxPings \in Nat /\ rounds' \in 0 .. MaxPings
  BY <1>1, ConnectionAssumption DEF TypeInv, TypeOK
<1>3. \A c \in Conn : pings'[c] <= rounds' /\ pings'[c] \in 0 .. MaxPings
  <2> SUFFICES ASSUME NEW c \in Conn
               PROVE  pings'[c] <= rounds' /\ pings'[c] \in 0 .. MaxPings
    OBVIOUS
  <2>1. pings[c] \in Nat /\ pings[c] <= rounds
    BY <1>2 DEF TypeInv, TypeOK, ThreadInv
  <2> QED  BY <1>1, <1>2, <2>1
<1>4. pings' \in [Conn -> 0 .. MaxPings]
  BY <1>1, <1>3
<1>5. TypeOK'
  BY <1>1, <1>2, <1>4 DEF TypeInv, TypeOK
<1>6. ThreadInv'
  BY <1>1, <1>3 DEF TypeInv, ThreadInv
<1>7. AuthInv'
  BY <1>1, AuthKept DEF TypeInv
<1> QED  BY <1>5, <1>6, <1>7 DEF TypeInv

(* The first packet handle_client passes on is the authentication, and     *)
(* with it everything of it is gone from the connection.                   *)
LEMMA AuthenticateKeepsTypes ==
  ASSUME TypeInv, NEW c \in Conn, Authenticate(c)
  PROVE  TypeInv'
<1>1. /\ task[c] = "auth" /\ sent[c] \in Seq(Frame)
      /\ UNCHANGED <<backoff, conn, socket, connection, acceptingPlayers, writing, up, pings,
                     phase, buffer, aside, servers, confirmed, issued, commands, rounds, breaks>>
  BY DEF Authenticate, TypeInv, TypeOK, boot, plugin, link, history
<1>2. CASE /\ NextPacket(sent[c]) = Authentication
           /\ task' = [task EXCEPT ![c] = "reading"]
           /\ messages' = Append(messages, NewConn(c))
           /\ Take(c)
  <2> DEFINE rest == SubSeq(sent[c], 3, Len(sent[c]))
  <2>1. NextPacket(sent[c]) # None /\ sent' = [sent EXCEPT ![c] = rest]
    BY <1>2, ConnectionAssumption DEF Take, Packet
  <2>2. /\ Len(sent[c]) >= 2 /\ sent[c][1] \in Frame /\ sent[c][2] \in Frame
        /\ sent[c][1].packet = Authentication /\ sent[c][2] = AuthPayload
    BY <1>1, <1>2, <2>1, NextPacketFrames DEF Frame, AuthPayload
  <2>3. Once(sent[c], AuthLength) /\ Once(sent[c], AuthPayload)
    BY DEF TypeInv, AuthInv
  <2>4. sent[c][1] = AuthLength
    <3>1. sent[c][1] = AuthLength \/ sent[c][1] = AuthPayload
      BY <2>2 DEF Frame, AuthLength, AuthPayload
    <3>2. 1 \in DOMAIN sent[c] /\ 2 \in DOMAIN sent[c]
      BY <1>1, <2>2
    <3> QED  BY <2>2, <2>3, <3>1, <3>2 DEF Once
  <2>5. /\ rest \in Seq(Frame)
        /\ ~Contains(rest, AuthLength) /\ ~Contains(rest, AuthPayload)
        /\ Once(rest, AuthLength) /\ Once(rest, AuthPayload)
    BY <1>1, <2>2, <2>3, <2>4, TakeTwo
  <2>6. Contains(sent[c], AuthPayload) /\ sent[c] # <<>>
    BY <1>1, <2>2 DEF Contains
  <2> HIDE DEF rest
  <2>7. messages' \in Seq(Message)
    <3>1. messages \in Seq(Message) /\ NewConn(c) \in Message
      BY DEF Message, TypeInv, TypeOK
    <3> QED  BY <1>2, <3>1, AppendProperties
  <2>8. TypeOK'
    BY <1>1, <1>2, <2>1, <2>5, <2>7 DEF TypeInv, TypeOK
  <2>9. ThreadInv'
    <3>1. \A d \in Conn : d > conn => task'[d] = "none"
      BY <1>1, <1>2 DEF TypeInv, TypeOK, ThreadInv
    <3> QED  BY <1>1, <3>1 DEF TypeInv, ThreadInv
  <2>10. AuthInv'
    BY <1>1, <1>2, <2>1, <2>5, <2>6 DEF TypeInv, TypeOK, AuthInv, AuthLength, AuthPayload
  <2> QED  BY <2>8, <2>9, <2>10 DEF TypeInv
<1>3. CASE /\ task' = [task EXCEPT ![c] = "done"]
           /\ UNCHANGED messages
           /\ Drop(c)
  <2>1. TypeOK' /\ ThreadInv'
    <3>1. TypeOK'
      BY <1>1, <1>3 DEF Drop, TypeInv, TypeOK
    <3>2. \A d \in Conn : d > conn => task'[d] = "none"
      BY <1>1, <1>3 DEF TypeInv, TypeOK, ThreadInv
    <3>3. ThreadInv'
      BY <1>1, <3>2 DEF TypeInv, ThreadInv
    <3> QED  BY <3>1, <3>3
  <2>2. \A e : ~Contains(<<>>, e) /\ Once(<<>>, e)
    BY EmptyChannel
  <2>3. AuthInv'
    BY <1>1, <1>3, <2>2 DEF Drop, TypeInv, TypeOK, AuthInv, AuthLength, AuthPayload
  <2> QED  BY <2>1, <2>3 DEF TypeInv
<1> QED  BY <1>2, <1>3 DEF Authenticate

(* A packet that is read later is never an Authentication.                 *)
LEMMA ReadPacketEffect ==
  ASSUME TypeInv, NEW c \in Conn, ReadPacket(c)
  PROVE  LET s == sent[c]
             packet == NextPacket(s) IN
         /\ Len(s) >= 2 /\ s[1] \in Frame /\ s[2] \in Frame
         /\ packet = s[1].packet /\ packet = s[2].packet /\ packet \in Packet
         /\ s[2].part = "payload"
         /\ packet # Authentication
         /\ packet = Pong => messages' = messages
         /\ packet # Pong =>
              packet \in Packet \ {Authentication, Pong} /\ messages' = Append(messages, packet)
<1> DEFINE s == sent[c]
           packet == NextPacket(s)
<1>1. s \in Seq(Frame) /\ packet # None /\ task[c] = "reading"
  BY DEF ReadPacket, TypeInv, TypeOK
<1>2. /\ Len(s) >= 2 /\ s[1] \in Frame /\ s[2] \in Frame
      /\ packet = s[1].packet /\ packet = s[2].packet /\ packet \in Packet
      /\ s[2].part = "payload"
  <2> HIDE DEF s
  <2> QED  BY <1>1, NextPacketFrames
<1>3. packet # Authentication
  <2> HIDE DEF packet, s
  <2>1. packet = Authentication => s[2] = AuthPayload /\ 2 \in 1 .. Len(s)
    <3>1. s[2] = [packet |-> s[2].packet, part |-> s[2].part]
      BY <1>2 DEF Frame
    <3>2. Len(s) \in Nat
      BY <1>1
    <3> QED  BY <1>2, <3>1, <3>2 DEF AuthPayload
  <2>2. ~Contains(s, AuthPayload)
    BY <1>1 DEF TypeInv, AuthInv, s
  <2> QED  BY <1>1, <2>1, <2>2 DEF Contains
<1>4. IF packet.type = "Pong" THEN UNCHANGED messages ELSE messages' = Append(messages, packet)
  BY DEF ReadPacket
<1>5. packet.type = "Pong" <=> packet = Pong
  BY <1>2, PacketFields
<1> QED  BY <1>2, <1>3, <1>4, <1>5

LEMMA ReadPacketKeepsTypes ==
  ASSUME TypeInv, NEW c \in Conn, ReadPacket(c)
  PROVE  TypeInv'
<1> DEFINE rest == SubSeq(sent[c], 3, Len(sent[c]))
<1>1. /\ task[c] = "reading" /\ sent[c] \in Seq(Frame) /\ Len(sent[c]) >= 2
      /\ sent' = [sent EXCEPT ![c] = rest]
      /\ UNCHANGED <<backoff, conn, socket, connection, acceptingPlayers, writing, up, pings, task,
                     phase, buffer, aside, servers, confirmed, issued, commands, rounds, breaks>>
  BY ReadPacketEffect DEF ReadPacket, Take, TypeInv, TypeOK, boot, plugin, link, history
<1>2. rest \in Seq(Frame) /\ \A e : /\ Contains(rest, e) => Contains(sent[c], e)
                                    /\ Once(sent[c], e) => Once(rest, e)
  BY <1>1, TakeTwo
<1>3. sent[c] # <<>>
  BY <1>1
<1> HIDE DEF rest
<1>4. messages' \in Seq(Message)
  <2>1. messages \in Seq(Message)
    BY DEF TypeInv, TypeOK
  <2>2. messages' = messages \/ \E p \in Message : messages' = Append(messages, p)
    BY ReadPacketEffect DEF Message
  <2> QED  BY <2>1, <2>2, AppendProperties
<1>5. TypeOK'
  BY <1>1, <1>2, <1>4 DEF TypeInv, TypeOK
<1>6. ThreadInv'
  BY <1>1 DEF TypeInv, ThreadInv
<1>7. AuthInv'
  BY <1>1, <1>2, <1>3 DEF TypeInv, TypeOK, AuthInv, AuthLength, AuthPayload
<1> QED  BY <1>5, <1>6, <1>7 DEF TypeInv

LEMMA ReadPacketFailsKeepsTypes ==
  ASSUME TypeInv, NEW c \in Conn, ReadPacketFails(c)
  PROVE  TypeInv'
<1>1. /\ task[c] = "reading" /\ task' = [task EXCEPT ![c] = "done"]
      /\ messages' = Append(messages, Unlink(c))
      /\ sent' = [sent EXCEPT ![c] = <<>>]
      /\ UNCHANGED <<backoff, conn, socket, connection, acceptingPlayers, writing, up, pings,
                     phase, buffer, aside, servers, confirmed, issued, commands, rounds, breaks>>
  BY DEF ReadPacketFails, EndOfConnection, Drop, boot, plugin, link, history
<1>2. messages' \in Seq(Message)
  BY <1>1, AppendProperties DEF Message, TypeInv, TypeOK
<1>3. TypeOK' /\ ThreadInv'
  BY <1>1, <1>2 DEF TypeInv, TypeOK, ThreadInv
<1>4. \A e : ~Contains(<<>>, e) /\ Once(<<>>, e)
  BY EmptyChannel
<1>5. AuthInv'
  BY <1>1, <1>4 DEF TypeInv, TypeOK, AuthInv, AuthLength, AuthPayload
<1> QED  BY <1>3, <1>5 DEF TypeInv

(* While the brain boots, messages go to its buffer and back.              *)
LEMMA BootKeepsTypes ==
  ASSUME TypeInv, Buffer \/ ProxyJoins \/ Resend
  PROVE  TypeInv'
<1>1. UNCHANGED <<backoff, conn, socket, connection, acceptingPlayers, writing, up, sent, pings,
                  task, servers, confirmed, issued, commands, rounds, breaks>>
  BY DEF Buffer, ProxyJoins, Resend, plugin, link, network, history
<1>2. messages \in Seq(Message) /\ buffer \in Seq(Message) /\ aside \in BOOLEAN
  BY DEF TypeInv, TypeOK
<1>3. /\ messages' \in Seq(Message) /\ buffer' \in Seq(Message)
      /\ phase' \in {"boot", "resend", "main"} /\ aside' \in BOOLEAN
  <2>1. CASE Buffer
    BY <1>2, <2>1, HeadTailProperties, AppendProperties DEF Buffer, PutAside
  <2>2. CASE ProxyJoins
    BY <1>2, <2>2 DEF ProxyJoins
  <2>3. CASE Resend
    <3> aside' \in BOOLEAN
      BY <1>2, <2>3 DEF Resend
    <3>1. CASE /\ buffer # <<>> /\ messages' = Append(messages, Head(buffer))
               /\ buffer' = Tail(buffer) /\ UNCHANGED phase
      <4>1. Head(buffer) \in Message /\ Tail(buffer) \in Seq(Message)
        BY <1>2, <3>1, HeadTailProperties
      <4>2. Append(messages, Head(buffer)) \in Seq(Message)
        BY <1>2, <4>1, AppendProperties
      <4> QED  BY <3>1, <4>1, <4>2 DEF TypeInv, TypeOK
    <3>2. CASE phase' = "main" /\ UNCHANGED <<buffer, messages>>
      BY <1>2, <3>2
    <3> QED  BY <2>3, <3>1, <3>2 DEF Resend
  <2> QED  BY <2>1, <2>2, <2>3
<1>4. TypeOK'
  BY <1>1, <1>3 DEF TypeInv, TypeOK
<1>5. ThreadInv'
  BY <1>1 DEF TypeInv, ThreadInv
<1>6. AuthInv'
  BY <1>1, AuthKept DEF TypeInv
<1> QED  BY <1>4, <1>5, <1>6 DEF TypeInv

LEMMA HandleMessageKeepsTypes ==
  ASSUME TypeInv, HandleMessage
  PROVE  TypeInv'
<1> DEFINE m == Head(messages)
<1>1. /\ messages # <<>> /\ messages \in Seq(Message) /\ messages' = Tail(messages)
      /\ servers \in Seq([conn : Conn, active : BOOLEAN])
      /\ UNCHANGED <<backoff, conn, socket, connection, acceptingPlayers, writing, up, sent, pings,
                     task, phase, buffer, aside, issued, commands, rounds, breaks>>
  BY DEF HandleMessage, TypeInv, TypeOK, boot, plugin, link, network
<1>2. m \in Message /\ messages' \in Seq(Message)
  BY <1>1, HeadTailProperties
<1>3. \/ m.type = "NewConn" /\ PushServer(m.conn) /\ UNCHANGED confirmed
      \/ m.type = "Unlink" /\ PopServer /\ UNCHANGED confirmed
      \/ m.type = "UpdateActive" /\ SetActive(m.active) /\ UNCHANGED confirmed
      \/ m.type = "Request" /\ Dispatch(m.player) /\ UNCHANGED servers
  BY DEF HandleMessage
<1> HIDE DEF m
<1>4. servers' \in Seq([conn : Conn, active : BOOLEAN]) /\ confirmed' \subseteq Request \X Conn
  <2>1. CASE m.type = "NewConn" /\ PushServer(m.conn) /\ UNCHANGED confirmed
    <3>1. m.conn \in Conn
      BY <1>2, <2>1, MessageFields
    <3> QED  BY <1>1, <2>1, <3>1, AppendProperties DEF PushServer, TypeInv, TypeOK
  <2>2. CASE m.type = "Unlink" /\ PopServer /\ UNCHANGED confirmed
    BY <1>1, <2>2, HeadTailProperties DEF PopServer, TypeInv, TypeOK
  <2>3. CASE m.type = "UpdateActive" /\ SetActive(m.active) /\ UNCHANGED confirmed
    <3>1. m.active \in BOOLEAN
      BY <1>2, <2>3, MessageFields
    <3>2. ASSUME servers # <<>>
          PROVE  [servers EXCEPT ![1].active = m.active] \in Seq([conn : Conn, active : BOOLEAN])
      <4>1. 1 \in 1 .. Len(servers)
        BY <1>1, <3>2, EmptySeq
      <4>2. servers[1] \in [conn : Conn, active : BOOLEAN]
        BY <1>1, <4>1, ElementOfSeq
      <4>3. [servers[1] EXCEPT !.active = m.active] \in [conn : Conn, active : BOOLEAN]
        BY <3>1, <4>2
      <4> QED  BY <1>1, <4>1, <4>3, ExceptSeq
    <3> QED  BY <1>1, <2>3, <3>2 DEF SetActive, TypeInv, TypeOK
  <2>4. CASE m.type = "Request" /\ Dispatch(m.player) /\ UNCHANGED servers
    BY <1>1, <2>4 DEF Dispatch, TypeInv, TypeOK
  <2> QED  BY <1>3, <2>1, <2>2, <2>3, <2>4
<1>5. TypeOK'
  BY <1>1, <1>2, <1>4 DEF TypeInv, TypeOK
<1>6. ThreadInv'
  BY <1>1 DEF TypeInv, ThreadInv
<1>7. AuthInv'
  BY <1>1, AuthKept DEF TypeInv
<1> QED  BY <1>5, <1>6, <1>7 DEF TypeInv

-----------------------------------------------------------------------------
(* The types.                                                              *)

LEMMA TypeInit == Init => TypeInv
<1> SUFFICES ASSUME Init PROVE TypeInv
  OBVIOUS
<1>1. \A e : ~Contains(<<>>, e) /\ Once(<<>>, e)
  BY EmptyChannel
<1>2. TypeOK
  <2>1. /\ backoff \in 1 .. MAX_BACKOFF_SECONDS
        /\ conn \in 0 .. MaxConns /\ connection \in 0 .. conn
        /\ commands \in 0 .. MaxCommands /\ rounds \in 0 .. MaxPings /\ breaks \in 0 .. MaxBreaks
    BY ConnectionAssumption DEF Init, MAX_BACKOFF_SECONDS
  <2>2. /\ writing \in [Thread -> Writing \cup {None}]
        /\ pings \in [Conn -> 0 .. MaxPings]
    BY ConnectionAssumption DEF Init
  <2>3. sent \in [Conn -> Seq(Frame)]
    BY DEF Init
  <2>4. /\ messages \in Seq(Message) /\ servers \in Seq([conn : Conn, active : BOOLEAN])
        /\ buffer \in Seq(Message) /\ phase \in {"boot", "resend", "main"} /\ aside \in BOOLEAN
    BY EmptySeq DEF Init
  <2>5. up \in [Conn -> BOOLEAN] /\ task \in [Conn -> {"none", "auth", "reading", "done"}]
    BY DEF Init
  <2>6. /\ socket \in BOOLEAN /\ acceptingPlayers \in BOOLEAN
        /\ confirmed \subseteq Request \X Conn /\ issued \subseteq Request
    BY DEF Init
  <2> QED  BY <2>1, <2>2, <2>3, <2>4, <2>5, <2>6 DEF TypeOK
<1>3. ThreadInv
  BY DEF Init, ThreadInv, Thread
<1>4. AuthInv
  BY <1>1 DEF Init, AuthInv, Thread
<1> QED  BY <1>2, <1>3, <1>4 DEF TypeInv

LEMMA TypeNext == TypeInv /\ [Next]_vars => TypeInv'
<1> SUFFICES ASSUME TypeInv, [Next]_vars PROVE TypeInv'
  OBVIOUS
<1>1. CASE Connect
  BY <1>1, ConnectKeepsTypes
<1>2. CASE OnConnect
  BY <1>2, OnConnectKeepsTypes
<1>3. CASE OnPingPacket
  BY <1>3, OnPingPacketKeepsTypes
<1>4. CASE ReadFails \/ ConnectionWriteFails
  BY <1>4, DisconnectKeepsTypes DEF ReadFails, ConnectionWriteFails, Reading
<1>5. ASSUME NEW t \in Thread, WriteNext(t)
      PROVE  TypeInv'
  BY <1>5, WriteKeepsTypes
<1>6. CASE \/ \E r \in Request : RequestCommand(r)
           \/ \E v \in BOOLEAN : CloseCommand(v)
           \/ CommandFails
  BY <1>6, CommandsKeepTypes
<1>7. ASSUME NEW c \in Conn, ClientTask(c)
      PROVE  TypeInv'
  BY <1>7, AuthenticateKeepsTypes, ReadPacketKeepsTypes, ReadPacketFailsKeepsTypes
  DEF ClientTask
<1>8. CASE HandleMessage
  BY <1>8, HandleMessageKeepsTypes
<1>9. CASE Buffer \/ ProxyJoins \/ Resend
  BY <1>9, BootKeepsTypes
<1>10. CASE PingActive
  BY <1>10, PingActiveKeepsTypes
<1>11. CASE ConnectFails \/ Breaks
  BY <1>11, NetworkKeepsTypes
<1>12. CASE UNCHANGED vars
  BY <1>12
  DEF vars, plugin, link, network, cluster, boot, history, TypeInv, TypeOK, ThreadInv, AuthInv,
      AuthLength, AuthPayload
<1> QED
  BY <1>1, <1>2, <1>3, <1>4, <1>5, <1>6, <1>7, <1>8, <1>9, <1>10, <1>11, <1>12
  DEF Next, ConnectionThread, MainThread, BrainTask, Thread

(* Every variable holds a value of its type, in every reachable state: in  *)
(* particular backoff stays within the half minute of                      *)
(* MAX_BACKOFF_SECONDS, and no Authentication or Pong reaches the cluster. *)
THEOREM ConnectionTypeCorrect == Spec => []TypeOK
<1>1. TypeInv => TypeOK
  BY DEF TypeInv
<1> QED  BY <1>1, TypeInit, TypeNext, PTL DEF Spec

-----------------------------------------------------------------------------
(* The boot buffer.                                                        *)

(* Nothing is sent again as long as nothing was put aside.                 *)
BootInv == ~aside => buffer = <<>>

LEMMA BootInit == Init => BootInv
BY DEF Init, BootInv

LEMMA BootNext == BootInv /\ [Next]_vars => BootInv' /\ (~aside' => ~aside)
<1> SUFFICES ASSUME BootInv, [Next]_vars PROVE BootInv' /\ (~aside' => ~aside)
  OBVIOUS
<1>1. CASE Buffer \/ ProxyJoins \/ Resend
  BY <1>1 DEF BootInv, Buffer, ProxyJoins, Resend
<1>2. CASE ConnectionThread \/ MainThread
  BY <1>2 DEF ConnectionThread, MainThread, Connect, OnConnect, OnPingPacket, ReadFails,
              WriteNext, ConnectionWriteFails, CommandFails, Disconnect, cluster, boot, BootInv
<1>3. CASE \/ \E r \in Request : RequestCommand(r)
           \/ \E v \in BOOLEAN : CloseCommand(v)
           \/ PingActive \/ Breaks \/ ConnectFails
  BY <1>3 DEF RequestCommand, CloseCommand, PingActive, Breaks, ConnectFails, cluster, boot,
              BootInv
<1>4. ASSUME NEW c \in Conn, ClientTask(c)
      PROVE  BootInv' /\ (~aside' => ~aside)
  BY <1>4 DEF ClientTask, Authenticate, ReadPacket, ReadPacketFails, boot, BootInv
<1>5. CASE HandleMessage
  BY <1>5 DEF HandleMessage, boot, BootInv
<1>6. CASE UNCHANGED vars
  BY <1>6 DEF vars, cluster, boot, BootInv
<1> QED  BY <1>1, <1>2, <1>3, <1>4, <1>5, <1>6 DEF Next, BrainTask

LEMMA BootKeepsOrder ==
  ASSUME BootInv, ~aside, ~aside', Buffer \/ ProxyJoins \/ Resend
  PROVE  UNCHANGED <<plugin, network, task, messages, servers>>
<1>1. buffer = <<>> /\ ~Buffer
  BY DEF BootInv, Buffer
<1>2. CASE ProxyJoins
  BY <1>2 DEF ProxyJoins
<1>3. CASE Resend
  BY <1>1, <1>3 DEF Resend
<1> QED  BY <1>1, <1>2, <1>3

-----------------------------------------------------------------------------
(* The cluster's vector and the connections it stands for.                 *)

(* The connections that the cluster counts: the tasks that announced their *)
(* connection and whose end it has not heard of.                           *)
Counted ==
  {c \in Conn : /\ task[c] = "reading" \/ Contains(messages, Unlink(c))
                /\ ~Contains(messages, NewConn(c))}

(* Each connection is announced and ended once, in this order.             *)
LinkInv ==
  \A c \in Conn :
    /\ Once(messages, NewConn(c)) /\ Once(messages, Unlink(c))
    /\ Precedes(messages, NewConn(c), Unlink(c))
    /\ Contains(messages, NewConn(c)) => task[c] = "reading" \/ Contains(messages, Unlink(c))
    /\ Contains(messages, Unlink(c)) => task[c] = "done"

(* Whichever entry a message takes out, their number is right.             *)
TableInv == LinkInv /\ Len(servers) = Cardinality(Counted)

LEMMA LinkMessages ==
  ASSUME NEW c \in Conn, NEW d \in Conn
  PROVE  /\ NewConn(c) \in Message /\ Unlink(c) \in Message
         /\ NewConn(c) # Unlink(d)
         /\ \A p \in Packet : p # NewConn(c) /\ p # Unlink(c)
         /\ NewConn(c) = NewConn(d) <=> c = d
         /\ Unlink(c) = Unlink(d) <=> c = d
BY DEF Message, NewConn, Unlink, Packet, Authentication, Pong, UpdateActive, RequestMsg

LEMMA CountedFinite == IsFiniteSet(Counted)
<1>1. IsFiniteSet(Conn)
  BY ConnectionAssumption, FS_Interval DEF Conn
<1> QED  BY <1>1, FS_Subset DEF Counted

(* What the tasks do changes neither.                                      *)
LEMMA TaskKeepsTable ==
  ASSUME TypeInv, TableInv, NEW c \in Conn, ClientTask(c)
  PROVE  TableInv'
<1>1. servers' = servers /\ messages \in Seq(Message) /\ DOMAIN task = Conn
  BY DEF ClientTask, Authenticate, ReadPacket, ReadPacketFails, TypeInv, TypeOK
<1>2. CASE /\ task[c] = "auth" /\ task' = [task EXCEPT ![c] = "reading"]
           /\ messages' = Append(messages, NewConn(c))
  <2>1. ~Contains(messages, NewConn(c)) /\ ~Contains(messages, Unlink(c))
    BY <1>2 DEF TableInv, LinkInv
  <2>2. \A e : Contains(messages', e) <=> Contains(messages, e) \/ e = NewConn(c)
    BY <1>1, <1>2, LinkMessages, AppendContains
  <2>3. LinkInv'
    <3> SUFFICES ASSUME NEW d \in Conn
                 PROVE  /\ Once(messages', NewConn(d)) /\ Once(messages', Unlink(d))
                        /\ Precedes(messages', NewConn(d), Unlink(d))
                        /\ Contains(messages', NewConn(d)) =>
                             task'[d] = "reading" \/ Contains(messages', Unlink(d))
                        /\ Contains(messages', Unlink(d)) => task'[d] = "done"
      BY DEF LinkInv, NewConn, Unlink
    <3>1. NewConn(c) \in Message /\ NewConn(d) # Unlink(d) /\ NewConn(c) # Unlink(d)
      BY LinkMessages
    <3>2. NewConn(c) = NewConn(d) <=> c = d
      BY LinkMessages
    <3>3. Once(messages', NewConn(d)) /\ Once(messages', Unlink(d))
      BY <1>1, <1>2, <2>1, <3>1, <3>2, AppendOnce DEF TableInv, LinkInv
    <3>4. Precedes(messages', NewConn(d), Unlink(d))
      BY <1>1, <1>2, <2>1, <3>1, <3>2, AppendPrecedes DEF TableInv, LinkInv
    <3> QED  BY <1>1, <1>2, <2>1, <2>2, <3>1, <3>2, <3>3, <3>4 DEF TableInv, LinkInv
  <2>4. Counted' = Counted
    <3> SUFFICES ASSUME NEW d \in Conn
                 PROVE  /\ task'[d] = "reading" \/ Contains(messages', Unlink(d))
                        /\ ~Contains(messages', NewConn(d))
                        <=> /\ task[d] = "reading" \/ Contains(messages, Unlink(d))
                            /\ ~Contains(messages, NewConn(d))
      BY DEF Counted, NewConn, Unlink
    <3>1. NewConn(c) # Unlink(d) /\ (NewConn(c) = NewConn(d) <=> c = d)
      BY LinkMessages
    <3> QED  BY <1>1, <1>2, <2>1, <2>2, <3>1
  <2> QED  BY <1>1, <2>3, <2>4 DEF TableInv
<1>3. CASE /\ task[c] = "auth" /\ task' = [task EXCEPT ![c] = "done"]
           /\ messages' = messages
  <2>1. ~Contains(messages, NewConn(c)) /\ ~Contains(messages, Unlink(c))
    BY <1>3 DEF TableInv, LinkInv
  <2>2. LinkInv'
    BY <1>1, <1>3, <2>1 DEF TableInv, LinkInv, NewConn, Unlink
  <2>3. Counted' = Counted
    BY <1>1, <1>3, <2>1 DEF Counted, NewConn, Unlink
  <2> QED  BY <1>1, <2>2, <2>3 DEF TableInv
<1>4. CASE /\ task' = task
           /\ messages' = messages \/ \E p \in Packet \cap Message : messages' = Append(messages, p)
  <2>1. \A d \in Conn :
          /\ Contains(messages', NewConn(d)) <=> Contains(messages, NewConn(d))
          /\ Contains(messages', Unlink(d)) <=> Contains(messages, Unlink(d))
          /\ Once(messages', NewConn(d)) /\ Once(messages', Unlink(d))
          /\ Precedes(messages', NewConn(d), Unlink(d))
    <3>1. CASE messages' = messages
      BY <3>1 DEF TableInv, LinkInv
    <3>2. ASSUME NEW p \in Packet \cap Message, messages' = Append(messages, p),
                 NEW d \in Conn
          PROVE  /\ Contains(messages', NewConn(d)) <=> Contains(messages, NewConn(d))
                 /\ Contains(messages', Unlink(d)) <=> Contains(messages, Unlink(d))
                 /\ Once(messages', NewConn(d)) /\ Once(messages', Unlink(d))
                 /\ Precedes(messages', NewConn(d), Unlink(d))
      <4>1. p # NewConn(d) /\ p # Unlink(d) /\ NewConn(d) # Unlink(d) /\ p \in Message
        BY <3>2, LinkMessages
      <4>2. /\ Once(messages, NewConn(d)) /\ Once(messages, Unlink(d))
            /\ Precedes(messages, NewConn(d), Unlink(d))
        BY DEF TableInv, LinkInv
      <4> QED  BY <1>1, <3>2, <4>1, <4>2, AppendContains, AppendOnce, AppendPrecedes
    <3> QED  BY <1>4, <3>1, <3>2
  <2>2. LinkInv'
    BY <1>4, <2>1 DEF TableInv, LinkInv, NewConn, Unlink
  <2>3. Counted' = Counted
    BY <1>4, <2>1 DEF Counted, NewConn, Unlink
  <2> QED  BY <1>1, <2>2, <2>3 DEF TableInv
<1>5. CASE /\ task[c] = "reading" /\ task' = [task EXCEPT ![c] = "done"]
           /\ messages' = Append(messages, Unlink(c))
  <2>1. ~Contains(messages, Unlink(c))
    BY <1>5 DEF TableInv, LinkInv
  <2>2. \A e : Contains(messages', e) <=> Contains(messages, e) \/ e = Unlink(c)
    BY <1>1, <1>5, LinkMessages, AppendContains
  <2>3. LinkInv'
    <3> SUFFICES ASSUME NEW d \in Conn
                 PROVE  /\ Once(messages', NewConn(d)) /\ Once(messages', Unlink(d))
                        /\ Precedes(messages', NewConn(d), Unlink(d))
                        /\ Contains(messages', NewConn(d)) =>
                             task'[d] = "reading" \/ Contains(messages', Unlink(d))
                        /\ Contains(messages', Unlink(d)) => task'[d] = "done"
      BY DEF LinkInv, NewConn, Unlink
    <3>1. Unlink(c) \in Message /\ NewConn(d) # Unlink(d) /\ NewConn(d) # Unlink(c)
      BY LinkMessages
    <3>2. Unlink(c) = Unlink(d) <=> c = d
      BY LinkMessages
    <3>3. Once(messages', NewConn(d)) /\ Once(messages', Unlink(d))
      BY <1>1, <1>5, <2>1, <3>1, <3>2, AppendOnce DEF TableInv, LinkInv
    <3>4. Precedes(messages', NewConn(d), Unlink(d))
      BY <1>1, <1>5, <3>1, AppendPrecedes DEF TableInv, LinkInv
    <3> QED  BY <1>1, <1>5, <2>1, <2>2, <3>1, <3>2, <3>3, <3>4 DEF TableInv, LinkInv
  <2>4. Counted' = Counted
    <3> SUFFICES ASSUME NEW d \in Conn
                 PROVE  /\ task'[d] = "reading" \/ Contains(messages', Unlink(d))
                        /\ ~Contains(messages', NewConn(d))
                        <=> /\ task[d] = "reading" \/ Contains(messages, Unlink(d))
                            /\ ~Contains(messages, NewConn(d))
      BY DEF Counted, NewConn, Unlink
    <3>1. NewConn(d) # Unlink(c) /\ (Unlink(c) = Unlink(d) <=> c = d)
      BY LinkMessages
    <3> QED  BY <1>1, <1>5, <2>1, <2>2, <3>1
  <2> QED  BY <1>1, <2>3, <2>4 DEF TableInv
<1>6. CASE Authenticate(c)
  BY <1>2, <1>3, <1>6 DEF Authenticate
<1>7. CASE ReadPacket(c)
  <2>1. task' = task
    BY <1>7 DEF ReadPacket
  <2>2. messages' = messages \/ \E p \in Packet \cap Message : messages' = Append(messages, p)
    BY <1>7, ReadPacketEffect DEF Message
  <2> QED  BY <1>4, <2>1, <2>2
<1>8. CASE ReadPacketFails(c)
  BY <1>5, <1>8 DEF ReadPacketFails, EndOfConnection
<1> QED  BY <1>6, <1>7, <1>8 DEF ClientTask

(* The cluster puts an entry in for each announcement, and takes one out   *)
(* for each end, if not the entry of the connection that ended.            *)
LEMMA HandleMessageKeepsTable ==
  ASSUME TypeInv, TableInv, HandleMessage
  PROVE  TableInv'
<1> DEFINE m == Head(messages)
           t == Tail(messages)
           Entry == [conn : Conn, active : BOOLEAN]
<1>1. /\ messages # <<>> /\ messages \in Seq(Message) /\ servers \in Seq(Entry)
      /\ messages' = t /\ task' = task
  BY DEF HandleMessage, TypeInv, TypeOK, network
<1>2. m \in Message
  BY <1>1, HeadTailProperties
<1>3. \/ m.type = "NewConn" /\ PushServer(m.conn)
      \/ m.type = "Unlink" /\ PopServer
      \/ m.type = "UpdateActive" /\ SetActive(m.active)
      \/ m.type = "Request" /\ UNCHANGED servers
  BY DEF HandleMessage
<1>4. \A e : /\ Contains(messages, e) <=> Contains(t, e) \/ e = m
             /\ Once(messages, e) => Once(t, e)
             /\ Once(messages, e) /\ e = m => ~Contains(t, e)
  BY <1>1, TailContains
<1>5. \A c \in Conn : /\ Precedes(t, NewConn(c), Unlink(c))
                      /\ Unlink(c) = m => ~Contains(messages, NewConn(c))
  BY <1>1, TailPrecedes DEF TableInv, LinkInv
<1> HIDE DEF m, t
<1>6. LinkInv'
  <2>1. \A c \in Conn :
          /\ Once(messages, NewConn(c)) /\ Once(messages, Unlink(c))
          /\ Contains(messages, NewConn(c)) => task[c] = "reading" \/ Contains(messages, Unlink(c))
          /\ Contains(messages, Unlink(c)) => task[c] = "done"
    BY DEF TableInv, LinkInv
  <2>2. \A c \in Conn :
          /\ Once(t, NewConn(c)) /\ Once(t, Unlink(c))
          /\ Contains(t, NewConn(c)) => task[c] = "reading" \/ Contains(t, Unlink(c))
          /\ Contains(t, Unlink(c)) => task[c] = "done"
    BY <1>4, <1>5, <2>1
  <2> QED  BY <1>1, <1>5, <2>2 DEF LinkInv, NewConn, Unlink
<1>7. \A c \in Conn :
        c \in Counted' <=> /\ task[c] = "reading" \/ Contains(t, Unlink(c))
                           /\ ~Contains(t, NewConn(c))
  BY <1>1 DEF Counted, NewConn, Unlink
<1>8. Len(servers) = Cardinality(Counted) /\ IsFiniteSet(Counted) /\ Counted' \subseteq Conn
  BY CountedFinite DEF TableInv, Counted
<1>9. CASE m.type = "NewConn" /\ PushServer(m.conn)
  <2>1. PICK c \in Conn : /\ m = NewConn(c)
                          /\ servers' = Append(servers, [conn |-> c, active |-> TRUE])
    BY <1>2, <1>9, MessageFields DEF PushServer
  <2>2. \A d \in Conn : /\ Contains(t, Unlink(d)) <=> Contains(messages, Unlink(d))
                        /\ d # c => (Contains(t, NewConn(d)) <=> Contains(messages, NewConn(d)))
    BY <1>4, <2>1, LinkMessages
  <2>3. Contains(messages, NewConn(c)) /\ ~Contains(t, NewConn(c))
    BY <1>4, <2>1 DEF TableInv, LinkInv
  <2>4. task[c] = "reading" \/ Contains(messages, Unlink(c))
    BY <2>3 DEF TableInv, LinkInv
  <2>5. Counted' = Counted \cup {c} /\ c \notin Counted
    BY <1>7, <1>8, <2>2, <2>3, <2>4 DEF Counted
  <2>6. Cardinality(Counted') = Cardinality(Counted) + 1
    BY <1>8, <2>5, FS_AddElement
  <2>7. Len(servers') = Len(servers) + 1
    <3>1. [conn |-> c, active |-> TRUE] \in Entry
      OBVIOUS
    <3> HIDE DEF Entry
    <3> QED  BY <1>1, <2>1, <3>1, AppendProperties
  <2> QED  BY <1>6, <1>8, <2>6, <2>7 DEF TableInv
<1>10. CASE m.type = "Unlink" /\ PopServer
  <2>1. PICK c \in Conn : m = Unlink(c)
    BY <1>2, <1>10, MessageFields
  <2>2. \A d \in Conn : /\ Contains(t, NewConn(d)) <=> Contains(messages, NewConn(d))
                        /\ d # c => (Contains(t, Unlink(d)) <=> Contains(messages, Unlink(d)))
    BY <1>4, <2>1, LinkMessages
  <2>3. /\ Contains(messages, Unlink(c)) /\ ~Contains(t, Unlink(c))
        /\ ~Contains(messages, NewConn(c))
    BY <1>4, <1>5, <2>1 DEF TableInv, LinkInv
  <2>4. task[c] = "done"
    BY <2>3 DEF TableInv, LinkInv
  <2>5. Counted' = Counted \ {c} /\ c \in Counted
    BY <1>7, <1>8, <2>2, <2>3, <2>4 DEF Counted
  <2>6. Cardinality(Counted') = Cardinality(Counted) - 1
    BY <1>8, <2>5, FS_RemoveElement
  <2>7. Cardinality(Counted) # 0
    BY <1>8, <2>5, FS_EmptySet
  <2>8. servers # <<>>
    BY <1>8, <2>7, EmptySeq
  <2>9. Len(servers') = Len(servers) - 1
    <3> HIDE DEF Entry
    <3> QED  BY <1>1, <1>10, <2>8, HeadTailProperties DEF PopServer
  <2> QED  BY <1>6, <1>8, <2>6, <2>9 DEF TableInv
<1>11. CASE m.type \in {"UpdateActive", "Request"}
  <2>1. \A c \in Conn : m # NewConn(c) /\ m # Unlink(c)
    BY <1>11 DEF NewConn, Unlink
  <2>2. Counted' = Counted
    BY <1>4, <1>7, <1>8, <2>1 DEF Counted
  <2>3. servers' = servers \/ servers' = [servers EXCEPT ![1].active = m.active]
    BY <1>3, <1>11 DEF SetActive
  <2>4. Len(servers') = Len(servers)
    <3> HIDE DEF Entry
    <3> QED  BY <1>1, <2>3
  <2> QED  BY <1>6, <1>8, <2>2, <2>4 DEF TableInv
<1> QED  BY <1>3, <1>9, <1>10, <1>11

LEMMA TableInit == Init => TableInv
<1> SUFFICES ASSUME Init PROVE TableInv
  OBVIOUS
<1>1. \A e : ~Contains(<<>>, e) /\ Once(<<>>, e)
  BY EmptyChannel
<1>2. LinkInv
  BY <1>1 DEF Init, LinkInv, Precedes
<1>3. Counted = {}
  BY <1>1 DEF Init, Counted
<1> QED  BY <1>2, <1>3, FS_EmptySet DEF Init, TableInv

LEMMA TableNext ==
  ASSUME TypeInv, BootInv, TableInv, [Next]_vars, ~aside'
  PROVE  TableInv'
<1>1. CASE Connect
  <2>1. /\ messages' = messages /\ servers' = servers
        /\ task' = [task EXCEPT ![conn'] = "auth"] /\ conn' \in Conn /\ task[conn'] = "none"
        /\ DOMAIN task = Conn
    BY <1>1, ConnectionAssumption DEF Connect, cluster, TypeInv, TypeOK, ThreadInv, Conn
  <2>2. ~Contains(messages, NewConn(conn')) /\ ~Contains(messages, Unlink(conn'))
    BY <2>1 DEF TableInv, LinkInv
  <2>3. \A d \in Conn : d # conn' => task'[d] = task[d]
    BY <2>1
  <2>4. task'[conn'] = "auth"
    BY <2>1
  <2>5. LinkInv'
    BY <2>1, <2>2, <2>3 DEF TableInv, LinkInv, NewConn, Unlink
  <2>6. Counted' = Counted
    BY <2>1, <2>2, <2>3, <2>4 DEF Counted, NewConn, Unlink
  <2> QED  BY <2>1, <2>5, <2>6 DEF TableInv
<1>2. ASSUME NEW c \in Conn, ClientTask(c)
      PROVE  TableInv'
  BY <1>2, TaskKeepsTable
<1>3. CASE HandleMessage
  BY <1>3, HandleMessageKeepsTable
<1>4. CASE UNCHANGED <<task, messages, servers>>
  BY <1>4 DEF TableInv, LinkInv, Counted, NewConn, Unlink
<1>5. ASSUME NEW t \in Thread, WriteNext(t)
      PROVE  UNCHANGED <<task, messages, servers>>
  BY <1>5 DEF WriteNext, cluster
<1>6. ASSUME Buffer \/ ProxyJoins \/ Resend
      PROVE  UNCHANGED <<task, messages, servers>>
  BY <1>6, BootNext, BootKeepsOrder
<1> QED
  BY <1>1, <1>2, <1>3, <1>4, <1>5, <1>6
  DEF Next, ConnectionThread, MainThread, BrainTask, Thread, OnConnect, OnPingPacket, ReadFails,
      ConnectionWriteFails, Disconnect, CommandFails, RequestCommand, CloseCommand, PingActive,
      Breaks, ConnectFails, vars, network, cluster

(* At rest only the last connection can be announced and not yet ended.   *)
LEMMA RestIsRegistered ==
  ASSUME TypeInv, BootInv, TableInv, Quiet, ~aside
  PROVE  Registered
<1>1. /\ Reading /\ up[conn] /\ Held(conn) /\ messages = <<>>
      /\ \A c \in Conn : task[c] # "auth" /\ (task[c] = "reading" => up[c])
  BY DEF Quiet
<1>2. conn \in Conn
  BY <1>1, ConnectionAssumption DEF Reading, TypeInv, TypeOK, ThreadInv, Conn
<1>3. \A e : ~Contains(messages, e) /\ ~Contains(buffer, e)
  BY <1>1, EmptyChannel DEF BootInv
<1>4. Counted = {c \in Conn : task[c] = "reading"}
  BY <1>3 DEF Counted
<1>5. Counted \subseteq {conn}
  BY <1>1, <1>4 DEF TypeInv, ThreadInv
<1>6. PICK i \in DOMAIN servers : servers[i].conn = conn
  BY <1>1, <1>2, <1>3 DEF Held, Knows
<1>7. /\ servers \in Seq([conn : Conn, active : BOOLEAN])
      /\ Len(servers) \in Nat /\ i \in 1 .. Len(servers)
  <2>1. servers \in Seq([conn : Conn, active : BOOLEAN])
    BY DEF TypeInv, TypeOK
  <2> QED  BY <1>6, <2>1, LenProperties
<1>8. Counted # {}
  <2>1. Len(servers) = Cardinality(Counted) /\ Len(servers) # 0
    BY <1>7 DEF TableInv
  <2>2. Cardinality({}) = 0
    BY FS_EmptySet
  <2> QED  BY <2>1, <2>2
<1>9. Counted = {conn} /\ task[conn] = "reading"
  BY <1>2, <1>4, <1>5, <1>8
<1>10. Len(servers) = 1
  BY <1>9, FS_Singleton DEF TableInv
<1>11. i = 1
  BY <1>7, <1>10
<1> QED  BY <1>1, <1>6, <1>9, <1>10, <1>11 DEF Registered

(* When both sides are at rest, the controller holds the connection that   *)
(* the server has, and nothing else: the pops that hit the wrong entry     *)
(* (minigame_cluster.rs:137) cancel out, however many connections there    *)
(* were.  Every connection that was announced and not yet ended has an     *)
(* entry of its own in number, though not in name (TableInv); at rest only *)
(* the last connection can be such a one.  The brain must not have put a   *)
(* message of the server aside while it booted: an end of a connection may *)
(* overtake the announcement that was (brain.rs:127).                      *)
THEOREM TableHealsAfterReconnect == Spec => []TableHeals
<1> DEFINE Inv == TypeInv /\ BootInv /\ (~aside => TableInv)
<1>1. Inv => TableHeals
  BY RestIsRegistered DEF TableHeals
<1>2. Init => Inv
  BY TypeInit, BootInit, TableInit
<1>3. Inv /\ [Next]_vars => Inv'
  BY TypeNext, BootNext, TableNext
<1> HIDE DEF Inv
<1> QED  BY <1>1, <1>2, <1>3, PTL DEF Spec

-----------------------------------------------------------------------------
(* The requests a player was told of.                                      *)

RequestLength(r)  == [packet |-> RequestMsg(r), part |-> "length"]
RequestPayload(r) == [packet |-> RequestMsg(r), part |-> "payload"]

(* The connection works, and the controller has not given it up.           *)
Sound(c) == up[c] /\ task[c] \in {"auth", "reading"}

(* The command runs once for a request, so that the length of its packet   *)
(* finds its payload nowhere before main has written that.                 *)
CommandInv ==
  /\ writing["connection"] # None => writing["connection"].packet \in {Authentication, Pong}
  /\ \A r \in Request :
       writing["main"] # None /\ writing["main"].packet = RequestMsg(r) => r \in issued
  /\ \A r \in Request, c \in Conn :
       \/ r \notin issued
       \/ writing["main"] # None /\ writing["main"].packet = RequestMsg(r)
       => ~Contains(sent[c], RequestPayload(r))

(* Until then the length stays on the connection; afterwards the request   *)
(* is there, in the channel to the cluster, or put aside.                  *)
ArrivalInv ==
  /\ \A r \in Request, c \in Conn :
       /\ writing["main"] # None /\ writing["main"].packet = RequestMsg(r)
       /\ writing["main"].on = c /\ Sound(c)
       => Contains(sent[c], RequestLength(r))
  /\ \A x \in confirmed :
       /\ x[2] <= connection
       /\ Sound(x[2]) => \/ Contains(sent[x[2]], RequestLength(x[1]))
                         \/ Contains(messages, RequestMsg(x[1]))
                         \/ Contains(buffer, RequestMsg(x[1]))

RequestInv == CommandInv /\ ArrivalInv

LEMMA RequestPackets ==
  ASSUME NEW r \in Request
  PROVE  /\ RequestMsg(r) \in Packet \ {Authentication, Pong} /\ RequestMsg(r) \in Message
         /\ RequestMsg(r).type = "Request" /\ RequestMsg(r).player = r
         /\ \A q \in Request : RequestMsg(q) = RequestMsg(r) => q = r
         /\ RequestLength(r).part = "length" /\ RequestLength(r).packet = RequestMsg(r)
         /\ RequestPayload(r).part = "payload" /\ RequestPayload(r).packet = RequestMsg(r)
         /\ RequestLength(r) # RequestPayload(r)
BY DEF Packet, Message, RequestMsg, Authentication, Pong, RequestLength, RequestPayload

(* Steps that touch neither the main thread nor what it has written.       *)
LEMMA RequestKept ==
  ASSUME RequestInv, UNCHANGED <<sent, buffer, messages, confirmed, issued>>,
         connection' = connection \/ \A x \in confirmed : x[2] <= connection',
         writing'["main"] \in {writing["main"], None},
         \/ writing'["connection"] \in {writing["connection"], None}
         \/ writing'["connection"].packet \in {Authentication, Pong},
         \A c \in Conn : Sound(c)' => Sound(c),
         confirmed \subseteq Request \X Conn
  PROVE  RequestInv'
<1>1. CommandInv'
  BY DEF RequestInv, CommandInv, RequestPayload, RequestMsg, Authentication, Pong
<1>2. \A x \in confirmed : x[2] \in Conn
  OBVIOUS
<1>3. ArrivalInv'
  <2>1. \A r \in Request, c \in Conn :
          /\ writing'["main"] # None /\ writing'["main"].packet = RequestMsg(r)
          /\ writing'["main"].on = c /\ Sound(c)'
          => Contains(sent'[c], RequestLength(r))
    BY DEF RequestInv, ArrivalInv
  <2>2. \A x \in confirmed' :
          /\ x[2] <= connection'
          /\ Sound(x[2])' => \/ Contains(sent'[x[2]], RequestLength(x[1]))
                             \/ Contains(messages', RequestMsg(x[1]))
                             \/ Contains(buffer', RequestMsg(x[1]))
    BY <1>2 DEF RequestInv, ArrivalInv
  <2> QED  BY <2>1, <2>2 DEF ArrivalInv, Sound, RequestLength, RequestMsg
<1> QED  BY <1>1, <1>3 DEF RequestInv

(* The length of a request goes out on a sound connection, or the player   *)
(* is never told; and when its payload does, the length is still there.    *)
LEMMA WriteKeepsRequests ==
  ASSUME TypeInv, RequestInv, NEW t \in Thread, WriteNext(t)
  PROVE  RequestInv'
<1> DEFINE w == writing[t]
           f == Written(t)
           s == Append(sent[conn], f)
<1>1. /\ conn \in Conn /\ connection = conn /\ w # None /\ w \in Writing
      /\ f \in Frame /\ w.on \in {0, conn}
      /\ sent' = sent \/ sent' = [sent EXCEPT ![conn] = s]
      /\ writing' = [writing EXCEPT ![t] = IF w.on = 0 THEN [packet |-> w.packet, on |-> conn]
                                                      ELSE None]
  BY WriteEffect
<1>2. /\ w.packet \in Packet /\ f.packet = w.packet
      /\ f.part = (IF w.on = 0 THEN "length" ELSE "payload")
      /\ f = [packet |-> w.packet, part |-> f.part]
  BY <1>1 DEF Writing, Written
<1>3. /\ UNCHANGED <<connection, up, task, buffer, messages, issued>>
      /\ sent \in [Conn -> Seq(Frame)] /\ DOMAIN writing = Thread
      /\ confirmed \subseteq Request \X Conn
  BY DEF WriteNext, link, cluster, boot, TypeInv, TypeOK
<1>4. \A e : Contains(s, e) <=> Contains(sent[conn], e) \/ e = f
  BY <1>1, <1>3, AppendContains
<1>5. Sound(conn) => sent'[conn] = s
  <2>1. Target(t) = conn
    BY <1>1 DEF Target
  <2>2. Sound(conn) => ~Gone(conn) /\ task[conn] # "done"
    BY DEF Sound, Gone
  <2>3. Sound(conn) => sent' = [sent EXCEPT ![conn] = s]
    BY <2>1, <2>2 DEF WriteNext, Written
  <2> QED  BY <1>1, <1>3, <2>3
<1>6. /\ \A c \in Conn : Sound(c)' <=> Sound(c)
      /\ \A r \in Request : /\ RequestMsg(r)' = RequestMsg(r)
                            /\ RequestLength(r)' = RequestLength(r)
                            /\ RequestPayload(r)' = RequestPayload(r)
  BY <1>3 DEF Sound, RequestMsg, RequestLength, RequestPayload
<1> HIDE DEF s, f
<1>7. \A c \in Conn : sent'[c] = sent[c] \/ (c = conn /\ sent'[c] = s)
  BY <1>1, <1>3
<1>8. \A e : \A c \in Conn : Contains(sent[c], e) => Contains(sent'[c], e)
  BY <1>4, <1>7
<1>9. \A e : \A c \in Conn : Contains(sent'[c], e) => Contains(sent[c], e) \/ e = f
  BY <1>4, <1>7
<1>10. confirmed' = confirmed
         \/ (t = "main" /\ \E r \in Request : /\ w.packet = RequestMsg(r) /\ w.on = conn
                                              /\ confirmed' = confirmed \cup {<<r, conn>>})
  <2>1. CASE w.on # 0 /\ w.packet.type = "Request"
    <3>1. w.packet.player \in Request /\ w.packet = RequestMsg(w.packet.player)
      BY <1>2, <2>1, PacketFields
    <3>2. Target(t) = conn /\ w.on = conn
      BY <1>1, <2>1 DEF Target
    <3>3. confirmed' = confirmed \cup {<<w.packet.player, conn>>}
      BY <2>1, <3>2 DEF WriteNext
    <3>4. t # "connection"
      BY <1>1, <2>1 DEF RequestInv, CommandInv, Authentication, Pong
    <3> QED  BY <3>1, <3>2, <3>3, <3>4 DEF Thread
  <2>2. CASE ~(w.on # 0 /\ w.packet.type = "Request")
    BY <2>2 DEF WriteNext
  <2> QED  BY <2>1, <2>2
<1>11. /\ t = "connection" => writing'["main"] = writing["main"]
       /\ t = "main" => writing'["connection"] = writing["connection"]
       /\ writing'[t] # None =>
            w.on = 0 /\ writing'[t].packet = w.packet /\ writing'[t].on = conn
  BY <1>1, <1>3 DEF Thread
<1>12. t = "connection" => w.packet \in {Authentication, Pong}
  BY <1>1 DEF RequestInv, CommandInv
<1>13. CommandInv'
  <2>1. writing'["connection"] # None => writing'["connection"].packet \in {Authentication, Pong}
    BY <1>11, <1>12 DEF RequestInv, CommandInv, Thread
  <2>2. ASSUME NEW r \in Request, writing'["main"] # None, writing'["main"].packet = RequestMsg(r)
        PROVE  /\ writing["main"] # None /\ writing["main"].packet = RequestMsg(r)
               /\ t = "main" => w.on = 0
    BY <1>1, <1>11, <2>2 DEF Thread
  <2>3. ASSUME NEW r \in Request, NEW c \in Conn, Contains(sent'[c], RequestPayload(r)),
               \/ r \notin issued
               \/ writing'["main"] # None /\ writing'["main"].packet = RequestMsg(r)
        PROVE  FALSE
    <3>1. ~Contains(sent[c], RequestPayload(r))
      BY <2>2, <2>3 DEF RequestInv, CommandInv
    <3>2. f = RequestPayload(r)
      BY <1>9, <2>3, <3>1
    <3>3. w.on # 0 /\ w.packet = RequestMsg(r)
      BY <1>2, <3>2, RequestPackets
    <3>4. t = "main"
      BY <1>12, <3>3, RequestPackets DEF Thread
    <3>5. r \in issued
      BY <1>1, <3>3, <3>4 DEF RequestInv, CommandInv
    <3> QED  BY <2>2, <2>3, <3>3, <3>4, <3>5
  <2> QED
    BY <1>3, <1>6, <2>1, <2>2, <2>3
    DEF RequestInv, CommandInv, RequestMsg, RequestPayload, Authentication, Pong
<1>14. ArrivalInv'
  <2>1. ASSUME NEW r \in Request, NEW c \in Conn, writing'["main"] # None,
               writing'["main"].packet = RequestMsg(r), writing'["main"].on = c, Sound(c)
        PROVE  Contains(sent'[c], RequestLength(r))
    <3>1. CASE t = "connection"
      BY <1>8, <1>11, <2>1, <3>1 DEF RequestInv, ArrivalInv
    <3>2. CASE t = "main"
      <4>1. w.on = 0 /\ w.packet = RequestMsg(r) /\ c = conn
        BY <1>11, <2>1, <3>2
      <4>2. f = RequestLength(r)
        BY <1>2, <4>1 DEF RequestLength
      <4> QED  BY <1>4, <1>5, <2>1, <4>1, <4>2
    <3> QED  BY <3>1, <3>2 DEF Thread
  <2>2. ASSUME NEW x \in confirmed'
        PROVE  /\ x[2] <= connection
               /\ Sound(x[2]) => \/ Contains(sent'[x[2]], RequestLength(x[1]))
                                 \/ Contains(messages, RequestMsg(x[1]))
                                 \/ Contains(buffer, RequestMsg(x[1]))
    <3>1. CASE x \in confirmed
      <4>1. x[2] \in Conn
        BY <1>3, <3>1
      <4> QED  BY <1>8, <3>1, <4>1 DEF RequestInv, ArrivalInv
    <3>2. CASE x \notin confirmed
      <4>1. PICK r \in Request : x = <<r, conn>> /\ w.packet = RequestMsg(r) /\ w.on = conn
                                 /\ t = "main"
        BY <1>10, <2>2, <3>2
      <4>2. x[1] = r /\ x[2] = conn
        BY <4>1
      <4>3. Sound(conn) => Contains(sent[conn], RequestLength(r))
        BY <1>1, <4>1 DEF RequestInv, ArrivalInv
      <4>4. conn <= conn
        BY <1>1 DEF Conn
      <4> QED  BY <1>1, <1>8, <4>2, <4>3, <4>4
    <3> QED  BY <3>1, <3>2
  <2> QED
    BY <1>3, <1>6, <2>1, <2>2 DEF ArrivalInv, Sound, RequestMsg, RequestLength
<1> QED  BY <1>13, <1>14 DEF RequestInv

LEMMA CommandsKeepRequests ==
  ASSUME TypeInv, RequestInv, \/ \E r \in Request : RequestCommand(r)
                              \/ \E v \in BOOLEAN : CloseCommand(v)
  PROVE  RequestInv'
<1>1. PICK p \in Packet :
        /\ writing' = [writing EXCEPT !["main"] = [packet |-> p, on |-> 0]]
        /\ \/ \E r \in Request : p = RequestMsg(r) /\ r \notin issued /\ issued' = issued \cup {r}
           \/ (\A r \in Request : p # RequestMsg(r)) /\ issued' = issued
        /\ UNCHANGED <<connection, up, sent, task, buffer, messages, confirmed>>
  <2>1. ASSUME NEW r \in Request, RequestCommand(r)
        PROVE  /\ writing' = [writing EXCEPT !["main"] = [packet |-> RequestMsg(r), on |-> 0]]
               /\ r \notin issued /\ issued' = issued \cup {r} /\ RequestMsg(r) \in Packet
               /\ UNCHANGED <<connection, up, sent, task, buffer, messages, confirmed>>
    BY <2>1, RequestPackets DEF RequestCommand, Write, link, network, cluster, boot
  <2>2. ASSUME NEW v \in BOOLEAN, CloseCommand(v)
        PROVE  /\ writing' = [writing EXCEPT !["main"] = [packet |-> UpdateActive(v), on |-> 0]]
               /\ UpdateActive(v) \in Packet /\ \A r \in Request : UpdateActive(v) # RequestMsg(r)
               /\ issued' = issued
               /\ UNCHANGED <<connection, up, sent, task, buffer, messages, confirmed>>
    BY <2>2 DEF CloseCommand, Write, link, network, cluster, boot, Packet, UpdateActive, RequestMsg
  <2> QED  BY <2>1, <2>2
<1> DEFINE w == [packet |-> p, on |-> 0]
<1>2. w.packet = p /\ w.on = 0
  OBVIOUS
<1> HIDE DEF w
<1>3. writing'["main"] = w /\ writing'["connection"] = writing["connection"]
  BY <1>1 DEF TypeInv, TypeOK, Thread, w
<1>4. CommandInv'
  <2>1. ASSUME NEW r \in Request, p = RequestMsg(r)
        PROVE  /\ r \in issued' /\ r \notin issued
               /\ \A q \in Request : p = RequestMsg(q) => q = r
    BY <1>1, <2>1, RequestPackets
  <2>2. \A r \in Request : r \notin issued' => r \notin issued
    BY <1>1
  <2>3. writing'["connection"] # None => writing'["connection"].packet \in {Authentication, Pong}
    BY <1>3 DEF RequestInv, CommandInv
  <2>4. \A r \in Request, c \in Conn :
          r \notin issued' \/ p = RequestMsg(r) => ~Contains(sent[c], RequestPayload(r))
    BY <2>1, <2>2 DEF RequestInv, CommandInv
  <2> QED
    BY <1>1, <1>2, <1>3, <2>1, <2>3, <2>4
    DEF CommandInv, RequestMsg, RequestPayload, Authentication, Pong
<1>5. ArrivalInv'
  <2>1. \A r \in Request, c \in Conn : writing'["main"].on # c
    BY <1>2, <1>3, ConnectionAssumption DEF Conn
  <2>2. \A x \in confirmed : x[1] \in Request /\ x[2] \in Conn
    BY DEF TypeInv, TypeOK
  <2> QED
    BY <1>1, <2>1, <2>2 DEF RequestInv, ArrivalInv, Sound, RequestMsg, RequestLength
<1> QED  BY <1>4, <1>5 DEF RequestInv

(* What handle_client takes off a connection it reads, it passes on; a     *)
(* length whose payload is not there stays.                                *)
LEMMA TaskKeepsRequests ==
  ASSUME TypeInv, RequestInv, NEW c \in Conn, ClientTask(c)
  PROVE  RequestInv'
<1> DEFINE rest == SubSeq(sent[c], 3, Len(sent[c]))
<1>1. /\ UNCHANGED <<connection, writing, up, buffer, confirmed, issued>>
      /\ sent \in [Conn -> Seq(Frame)] /\ messages \in Seq(Message) /\ DOMAIN task = Conn
      /\ confirmed \subseteq Request \X Conn
  BY DEF ClientTask, Authenticate, ReadPacket, ReadPacketFails, boot, plugin, link, history,
         TypeInv, TypeOK
<1>2. \A r \in Request : /\ RequestMsg(r)' = RequestMsg(r)
                         /\ RequestLength(r)' = RequestLength(r)
                         /\ RequestPayload(r)' = RequestPayload(r)
  BY DEF RequestMsg, RequestLength, RequestPayload
<1>3. /\ \A d \in Conn : d # c => sent'[d] = sent[d] /\ (Sound(d)' <=> Sound(d))
      /\ \A e : Contains(sent'[c], e) => Contains(sent[c], e)
      /\ Sound(c)' => Sound(c)
      /\ \A e : Contains(messages, e) => Contains(messages', e)
      /\ \A r \in Request :
           Sound(c)' /\ Contains(sent[c], RequestLength(r)) =>
             \/ Contains(sent'[c], RequestLength(r))
             \/ Contains(sent[c], RequestPayload(r)) /\ Contains(messages', RequestMsg(r))
  <2>1. CASE /\ NextPacket(sent[c]) # None /\ Take(c) /\ task'[c] \in {"auth", "reading"}
             /\ task[c] \in {"auth", "reading"}
             /\ \A d \in Conn : d # c => task'[d] = task[d]
             /\ messages' = messages \/ \E m \in Message : messages' = Append(messages, m)
             /\ \A r \in Request : NextPacket(sent[c]) = RequestMsg(r) =>
                  messages' = Append(messages, RequestMsg(r))
    <3>1. /\ Len(sent[c]) >= 2 /\ sent[c][1] \in Frame /\ sent[c][2] \in Frame
          /\ NextPacket(sent[c]) = sent[c][1].packet
          /\ sent[c][2].packet = sent[c][1].packet /\ sent[c][2].part = "payload"
      BY <1>1, <2>1, NextPacketFrames
    <3>2. sent' = [sent EXCEPT ![c] = rest]
      BY <2>1 DEF Take
    <3>3. \A e : Contains(sent[c], e) <=> Contains(rest, e) \/ e = sent[c][1] \/ e = sent[c][2]
      BY <1>1, <3>1, TakeTwo
    <3> HIDE DEF rest
    <3>4. \A e : Contains(messages, e) => Contains(messages', e)
      <4>1. \A e : \A m \in Message : Contains(messages, e) => Contains(Append(messages, m), e)
        BY <1>1, AppendContains
      <4> QED  BY <2>1, <4>1
    <3>5. ASSUME NEW r \in Request, Contains(sent[c], RequestLength(r)),
                 ~Contains(rest, RequestLength(r))
          PROVE  Contains(sent[c], RequestPayload(r)) /\ Contains(messages', RequestMsg(r))
      <4>1. sent[c][1] = RequestLength(r)
        <5>1. RequestLength(r).part # "payload"
          BY DEF RequestLength
        <5> QED  BY <3>1, <3>3, <3>5, <5>1
      <4>2. sent[c][1].packet = RequestMsg(r)
        BY <4>1 DEF RequestLength
      <4>3. messages' = Append(messages, RequestMsg(r))
        BY <2>1, <3>1, <4>2
      <4>4. Contains(messages', RequestMsg(r))
        BY <1>1, <4>3, RequestPackets, AppendContains
      <4>5. sent[c][2] = RequestPayload(r)
        <5>1. sent[c][2] = [packet |-> sent[c][2].packet, part |-> sent[c][2].part]
          BY <3>1 DEF Frame
        <5> QED  BY <3>1, <4>2, <5>1 DEF RequestPayload
      <4> QED  BY <3>3, <4>4, <4>5
    <3>6. sent'[c] = rest /\ \A d \in Conn : d # c => sent'[d] = sent[d]
      BY <1>1, <3>2
    <3>7. Sound(c)' => Sound(c)
      BY <1>1, <2>1 DEF Sound
    <3>8. \A d \in Conn : d # c => (Sound(d)' <=> Sound(d))
      BY <1>1, <2>1 DEF Sound
    <3> QED  BY <3>3, <3>4, <3>5, <3>6, <3>7, <3>8
  <2>2. CASE /\ task' = [task EXCEPT ![c] = "done"] /\ Drop(c)
             /\ messages' = messages \/ messages' = Append(messages, Unlink(c))
    <3>1. sent'[c] = <<>> /\ \A d \in Conn : d # c => sent'[d] = sent[d]
      BY <1>1, <2>2 DEF Drop
    <3>2. task'[c] = "done" /\ \A d \in Conn : d # c => task'[d] = task[d]
      BY <1>1, <2>2
    <3>3. ~Sound(c)' /\ \A d \in Conn : d # c => (Sound(d)' <=> Sound(d))
      BY <1>1, <3>2 DEF Sound
    <3>4. \A e : Contains(messages, e) => Contains(messages', e)
      <4>1. \A e : Contains(messages, e) => Contains(Append(messages, Unlink(c)), e)
        BY <1>1, LinkMessages, AppendContains
      <4> QED  BY <2>2, <4>1
    <3>5. \A e : ~Contains(<<>>, e)
      BY EmptyChannel
    <3> QED  BY <3>1, <3>3, <3>4, <3>5
  <2>3. CASE Authenticate(c)
    <3>1. CASE /\ NextPacket(sent[c]) = Authentication
               /\ task' = [task EXCEPT ![c] = "reading"]
               /\ messages' = Append(messages, NewConn(c))
               /\ Take(c)
      <4>1. Authentication # None /\ NewConn(c) \in Message
        BY ConnectionAssumption, LinkMessages DEF Packet
      <4>2. \A r \in Request : Authentication # RequestMsg(r)
        BY RequestPackets
      <4>3. task[c] = "auth"
        BY <2>3 DEF Authenticate
      <4> QED  BY <1>1, <2>1, <3>1, <4>1, <4>2, <4>3
    <3> QED  BY <2>2, <2>3, <3>1 DEF Authenticate
  <2>4. CASE ReadPacket(c)
    <3>1. task' = task /\ task[c] = "reading" /\ NextPacket(sent[c]) # None /\ Take(c)
      BY <2>4 DEF ReadPacket
    <3>2. messages' = messages \/ \E m \in Message : messages' = Append(messages, m)
      BY <2>4, ReadPacketEffect DEF Message
    <3>3. \A r \in Request : NextPacket(sent[c]) = RequestMsg(r) =>
            messages' = Append(messages, RequestMsg(r))
      BY <2>4, ReadPacketEffect, RequestPackets
    <3> QED  BY <2>1, <3>1, <3>2, <3>3
  <2>5. CASE ReadPacketFails(c)
    BY <2>2, <2>5 DEF ReadPacketFails, EndOfConnection
  <2> QED  BY <2>3, <2>4, <2>5 DEF ClientTask
<1>4. CommandInv'
  <2>1. \A e : \A d \in Conn : Contains(sent'[d], e) => Contains(sent[d], e)
    BY <1>3
  <2> QED
    BY <1>1, <1>2, <2>1
    DEF RequestInv, CommandInv, RequestMsg, RequestPayload, Authentication, Pong
<1>5. ArrivalInv'
  <2>1. ASSUME NEW r \in Request, NEW d \in Conn, writing["main"] # None,
               writing["main"].packet = RequestMsg(r), writing["main"].on = d, Sound(d)'
        PROVE  Contains(sent'[d], RequestLength(r))
    <3>1. Sound(d) /\ Contains(sent[d], RequestLength(r))
      BY <1>3, <2>1 DEF RequestInv, ArrivalInv
    <3>2. ~Contains(sent[d], RequestPayload(r))
      BY <2>1 DEF RequestInv, CommandInv
    <3> QED  BY <1>3, <2>1, <3>1, <3>2
  <2>2. ASSUME NEW x \in confirmed, Sound(x[2])'
        PROVE  \/ Contains(sent'[x[2]], RequestLength(x[1]))
               \/ Contains(messages', RequestMsg(x[1]))
               \/ Contains(buffer', RequestMsg(x[1]))
    <3>1. x[1] \in Request /\ x[2] \in Conn
      BY <1>1
    <3>2. Sound(x[2])
      BY <1>3, <2>2, <3>1
    <3>3. \/ Contains(sent[x[2]], RequestLength(x[1]))
          \/ Contains(messages, RequestMsg(x[1]))
          \/ Contains(buffer, RequestMsg(x[1]))
      BY <3>2 DEF RequestInv, ArrivalInv
    <3>4. CASE Contains(sent[x[2]], RequestLength(x[1]))
      <4>1. CASE x[2] = c
        BY <1>3, <2>2, <3>1, <3>4, <4>1
      <4>2. CASE x[2] # c
        BY <1>3, <3>1, <3>4, <4>2
      <4> QED  BY <4>1, <4>2
    <3>5. CASE Contains(messages, RequestMsg(x[1]))
      BY <1>3, <3>5
    <3>6. CASE Contains(buffer, RequestMsg(x[1]))
      BY <1>1, <3>6
    <3> QED  BY <3>3, <3>4, <3>5, <3>6
  <2>3. \A x \in confirmed : x[2] <= connection /\ x[1] \in Request /\ x[2] \in Conn
    BY <1>1 DEF RequestInv, ArrivalInv
  <2> QED
    BY <1>1, <1>2, <2>1, <2>2, <2>3 DEF ArrivalInv, Sound, RequestMsg, RequestLength
<1> QED  BY <1>4, <1>5 DEF RequestInv

LEMMA HandleMessageKeepsRequests ==
  ASSUME TypeInv, RequestInv, HandleMessage
  PROVE  RequestInv'
<1> DEFINE m == Head(messages)
           t == Tail(messages)
<1>1. /\ messages # <<>> /\ messages \in Seq(Message) /\ messages' = t
      /\ UNCHANGED <<connection, writing, up, sent, task, buffer, issued>>
      /\ confirmed \subseteq Request \X Conn
  BY DEF HandleMessage, boot, plugin, link, network, TypeInv, TypeOK
<1>2. m \in Message
  BY <1>1, HeadTailProperties
<1>3. \A e : Contains(messages, e) => Contains(t, e) \/ e = m
  BY <1>1, TailContains
<1>4. \/ confirmed' = confirmed /\ m.type # "Request"
      \/ confirmed' = {x \in confirmed : x[1] # m.player} /\ m.type = "Request"
  BY DEF HandleMessage, Dispatch
<1> HIDE DEF m, t
<1>5. CommandInv'
  BY <1>1 DEF RequestInv, CommandInv, RequestMsg, RequestPayload, Authentication, Pong
<1>6. ArrivalInv'
  <2>1. ASSUME NEW x \in confirmed'
        PROVE  /\ x \in confirmed /\ x[1] \in Request /\ x[2] \in Conn
               /\ m # RequestMsg(x[1])
    <3>1. x \in confirmed /\ x[1] \in Request /\ x[2] \in Conn
      BY <1>1, <1>4, <2>1
    <3>2. m = RequestMsg(x[1]) => m.type = "Request" /\ m.player = x[1]
      BY <3>1, RequestPackets
    <3> QED  BY <1>4, <2>1, <3>1, <3>2
  <2>2. ASSUME NEW x \in confirmed'
        PROVE  /\ x[2] <= connection
               /\ Sound(x[2]) => \/ Contains(sent[x[2]], RequestLength(x[1]))
                                 \/ Contains(t, RequestMsg(x[1]))
                                 \/ Contains(buffer, RequestMsg(x[1]))
    BY <1>3, <2>1, <2>2 DEF RequestInv, ArrivalInv
  <2>3. \A r \in Request, c \in Conn :
          /\ writing["main"] # None /\ writing["main"].packet = RequestMsg(r)
          /\ writing["main"].on = c /\ Sound(c)
          => Contains(sent[c], RequestLength(r))
    BY DEF RequestInv, ArrivalInv
  <2> QED
    BY <1>1, <2>2, <2>3 DEF ArrivalInv, Sound, RequestMsg, RequestLength
<1> QED  BY <1>5, <1>6 DEF RequestInv

(* What the brain puts aside it sends again.                               *)
LEMMA BootKeepsRequests ==
  ASSUME TypeInv, RequestInv, Buffer \/ ProxyJoins \/ Resend
  PROVE  RequestInv'
<1>1. /\ UNCHANGED <<connection, writing, up, sent, task, confirmed, issued>>
      /\ messages \in Seq(Message) /\ buffer \in Seq(Message)
  BY DEF Buffer, ProxyJoins, Resend, plugin, link, network, history, TypeInv, TypeOK
<1>2. \A e : Contains(messages, e) \/ Contains(buffer, e)
              => Contains(messages', e) \/ Contains(buffer', e)
  <2>1. ASSUME NEW s \in Seq(Message), NEW t \in Seq(Message), s # <<>>, NEW e
        PROVE  Contains(s, e) \/ Contains(t, e)
                 => Contains(Tail(s), e) \/ Contains(Append(t, Head(s)), e)
    <3>1. Head(s) \in Message
      BY <2>1, HeadTailProperties
    <3> QED  BY <2>1, <3>1, TailContains, AppendContains
  <2>2. CASE Buffer
    <3>1. messages # <<>> /\ messages' = Tail(messages) /\ buffer' = Append(buffer, Head(messages))
      BY <2>2 DEF Buffer, PutAside
    <3> QED  BY <1>1, <2>1, <3>1
  <2>3. CASE ProxyJoins
    BY <2>3 DEF ProxyJoins
  <2>4. CASE Resend
    <3>1. \/ /\ buffer # <<>> /\ buffer' = Tail(buffer)
             /\ messages' = Append(messages, Head(buffer))
          \/ UNCHANGED <<buffer, messages>>
      BY <2>4 DEF Resend
    <3> QED  BY <1>1, <2>1, <3>1
  <2> QED  BY <2>2, <2>3, <2>4
<1>3. CommandInv'
  BY <1>1 DEF RequestInv, CommandInv, RequestMsg, RequestPayload, Authentication, Pong
<1>4. ArrivalInv'
  <2>1. \A x \in confirmed :
          /\ x[2] <= connection
          /\ Sound(x[2]) => \/ Contains(sent[x[2]], RequestLength(x[1]))
                            \/ Contains(messages', RequestMsg(x[1]))
                            \/ Contains(buffer', RequestMsg(x[1]))
    BY <1>2 DEF RequestInv, ArrivalInv
  <2>2. \A r \in Request, c \in Conn :
          /\ writing["main"] # None /\ writing["main"].packet = RequestMsg(r)
          /\ writing["main"].on = c /\ Sound(c)
          => Contains(sent[c], RequestLength(r))
    BY DEF RequestInv, ArrivalInv
  <2> QED
    BY <1>1, <2>1, <2>2 DEF ArrivalInv, Sound, RequestMsg, RequestLength
<1> QED  BY <1>3, <1>4 DEF RequestInv

(* A new connection carries nothing yet.                                   *)
LEMMA ConnectKeepsRequests ==
  ASSUME TypeInv, RequestInv, Connect
  PROVE  RequestInv'
<1>1. /\ conn' = conn + 1 /\ conn \in Nat /\ conn' \in Conn /\ connection \in Nat
      /\ connection <= conn /\ DOMAIN up = Conn /\ DOMAIN task = Conn
      /\ up' = [up EXCEPT ![conn'] = TRUE] /\ task' = [task EXCEPT ![conn'] = "auth"]
      /\ UNCHANGED <<connection, writing, sent, buffer, messages, confirmed, issued>>
      /\ confirmed \subseteq Request \X Conn
  BY ConnectionAssumption DEF Connect, cluster, boot, history, TypeInv, TypeOK, Conn
<1>2. \A c \in Conn : c # conn' => (Sound(c)' <=> Sound(c))
  BY <1>1 DEF Sound
<1>3. CommandInv'
  BY <1>1 DEF RequestInv, CommandInv, RequestMsg, RequestPayload, Authentication, Pong
<1>4. ArrivalInv'
  <2>1. writing["main"] # None => writing["main"].on # conn'
    <3>1. writing["main"] # None =>
            writing["main"].on <= connection /\ writing["main"].on \in 0 .. MaxConns
      BY DEF TypeInv, TypeOK, ThreadInv, Writing, Thread
    <3> QED  BY <1>1, <3>1
  <2>2. \A x \in confirmed : x[1] \in Request /\ x[2] \in Conn /\ x[2] <= connection
    BY <1>1 DEF RequestInv, ArrivalInv
  <2>3. \A x \in confirmed : x[2] # conn'
    BY <1>1, <2>2 DEF Conn
  <2>4. \A x \in confirmed :
          Sound(x[2])' => \/ Contains(sent[x[2]], RequestLength(x[1]))
                          \/ Contains(messages, RequestMsg(x[1]))
                          \/ Contains(buffer, RequestMsg(x[1]))
    BY <1>2, <2>2, <2>3 DEF RequestInv, ArrivalInv
  <2>5. \A r \in Request, c \in Conn :
          /\ writing["main"] # None /\ writing["main"].packet = RequestMsg(r)
          /\ writing["main"].on = c /\ Sound(c)'
          => Contains(sent[c], RequestLength(r))
    BY <1>2, <2>1 DEF RequestInv, ArrivalInv
  <2> QED
    BY <1>1, <2>2, <2>4, <2>5 DEF ArrivalInv, Sound, RequestMsg, RequestLength
<1> QED  BY <1>3, <1>4 DEF RequestInv

LEMMA RequestInit == Init => RequestInv
<1> SUFFICES ASSUME Init PROVE RequestInv
  OBVIOUS
<1>1. \A e : ~Contains(<<>>, e)
  BY EmptyChannel
<1>2. writing["connection"] = None /\ writing["main"] = None /\ confirmed = {}
      /\ \A c \in Conn : sent[c] = <<>>
  BY DEF Init, Thread
<1> QED  BY <1>1, <1>2 DEF RequestInv, CommandInv, ArrivalInv

LEMMA RequestNext == TypeInv /\ RequestInv /\ [Next]_vars => RequestInv'
<1> SUFFICES ASSUME TypeInv, RequestInv, [Next]_vars PROVE RequestInv'
  OBVIOUS
<1>1. confirmed \subseteq Request \X Conn /\ DOMAIN writing = Thread /\ DOMAIN up = Conn
  BY DEF TypeInv, TypeOK
<1>2. CASE Connect
  BY <1>2, ConnectKeepsRequests
<1>3. CASE OnConnect
  <2>1. /\ connection' = conn
        /\ writing' = [writing EXCEPT !["connection"] = [packet |-> Authentication, on |-> 0]]
        /\ UNCHANGED <<up, task, sent, buffer, messages, confirmed, issued>>
    BY <1>3 DEF OnConnect, Write, network, cluster, boot, history
  <2>2. writing'["main"] = writing["main"] /\ writing'["connection"].packet = Authentication
    BY <1>1, <2>1 DEF Thread
  <2>3. \A x \in confirmed : x[2] <= conn
    <3>1. \A x \in confirmed : x[2] \in Nat /\ x[2] <= connection
      BY <1>1, ConnectionAssumption DEF RequestInv, ArrivalInv, Conn
    <3>2. connection \in Nat /\ conn \in Nat /\ connection <= conn
      BY ConnectionAssumption DEF TypeInv, TypeOK
    <3> QED  BY <3>1, <3>2
  <2> QED  BY <1>1, <2>1, <2>2, <2>3, RequestKept DEF Sound
<1>4. CASE OnPingPacket
  <2>1. /\ \/ writing' = [writing EXCEPT !["connection"] = [packet |-> Pong, on |-> 0]]
           \/ writing' = writing
        /\ UNCHANGED <<connection, up, task, sent, buffer, messages, confirmed, issued>>
    BY <1>4 DEF OnPingPacket, Write, link, cluster, boot, history
  <2>2. /\ writing'["main"] = writing["main"]
        /\ \/ writing'["connection"] = writing["connection"]
           \/ writing'["connection"].packet = Pong
    BY <1>1, <2>1 DEF Thread
  <2> QED  BY <1>1, <2>1, <2>2, RequestKept DEF Sound
<1>5. CASE ReadFails \/ ConnectionWriteFails
  <2>1. /\ writing' = [writing EXCEPT !["connection"] = None]
        /\ up' = [up EXCEPT ![conn] = FALSE]
        /\ UNCHANGED <<connection, task, sent, buffer, messages, confirmed, issued>>
    BY <1>5 DEF ReadFails, ConnectionWriteFails, Disconnect, cluster, boot, history
  <2>2. writing'["main"] = writing["main"] /\ writing'["connection"] = None
    BY <1>1, <2>1 DEF Thread
  <2>3. \A c \in Conn : up'[c] => up[c]
    BY <1>1, <2>1
  <2> QED  BY <1>1, <2>1, <2>2, <2>3, RequestKept DEF Sound
<1>6. CASE CommandFails
  <2>1. /\ writing' = [writing EXCEPT !["main"] = None]
        /\ UNCHANGED <<connection, up, task, sent, buffer, messages, confirmed, issued>>
    BY <1>6 DEF CommandFails, link, network, cluster, boot, history
  <2>2. writing'["main"] = None /\ writing'["connection"] = writing["connection"]
    BY <1>1, <2>1 DEF Thread
  <2> QED  BY <1>1, <2>1, <2>2, RequestKept DEF Sound
<1>7. ASSUME NEW t \in Thread, WriteNext(t)
      PROVE  RequestInv'
  BY <1>7, WriteKeepsRequests
<1>8. CASE (\E r \in Request : RequestCommand(r)) \/ (\E v \in BOOLEAN : CloseCommand(v))
  BY <1>8, CommandsKeepRequests
<1>9. ASSUME NEW c \in Conn, ClientTask(c)
      PROVE  RequestInv'
  BY <1>9, TaskKeepsRequests
<1>10. CASE HandleMessage
  BY <1>10, HandleMessageKeepsRequests
<1>11. CASE Buffer \/ ProxyJoins \/ Resend
  BY <1>11, BootKeepsRequests
<1>12. CASE PingActive \/ Breaks \/ ConnectFails \/ UNCHANGED vars
  <2>1. /\ up' = up \/ up' = [up EXCEPT ![conn] = FALSE]
        /\ UNCHANGED <<connection, writing, task, sent, buffer, messages, confirmed, issued>>
    BY <1>12
    DEF PingActive, Breaks, ConnectFails, vars, plugin, link, network, cluster, boot, history
  <2>2. \A c \in Conn : up'[c] => up[c]
    BY <1>1, <2>1
  <2> QED  BY <1>1, <2>1, <2>2, RequestKept DEF Sound
<1> QED
  BY <1>2, <1>3, <1>4, <1>5, <1>6, <1>7, <1>8, <1>9, <1>10, <1>11, <1>12
  DEF Next, ConnectionThread, MainThread, BrainTask, Thread

(* "you will be sent to a minigame server shortly (if you are not, try     *)
(* again)" (RequestCommand.java:43): a request whose write returned is on  *)
(* its connection, in the channel or put aside until it is dispatched,     *)
(* unless its connection is lost.  Neither the writes of the other thread  *)
(* nor what the task passes on can take its length away before its payload *)
(* is there.                                                               *)
THEOREM ConfirmedRequestsAreKept == Spec => []ConfirmedRequestsArrive
<1>1. TypeInv /\ RequestInv => ConfirmedRequestsArrive
  <2> SUFFICES ASSUME TypeInv, RequestInv, NEW x \in confirmed,
                      up[x[2]], task[x[2]] = "reading", sent[x[2]] = <<>>, messages = <<>>,
                      buffer = <<>>
               PROVE  FALSE
    BY DEF ConfirmedRequestsArrive
  <2>1. Sound(x[2])
    BY DEF Sound
  <2>2. \/ Contains(sent[x[2]], RequestLength(x[1]))
        \/ Contains(messages, RequestMsg(x[1]))
        \/ Contains(buffer, RequestMsg(x[1]))
    BY <2>1 DEF RequestInv, ArrivalInv
  <2> QED  BY <2>2, EmptyChannel
<1> QED  BY <1>1, TypeInit, TypeNext, RequestInit, RequestNext, PTL DEF Spec

-----------------------------------------------------------------------------
(* Whether the cluster takes a server for active that accepts players.     *)

(* The main thread is telling the controller so, on the connection that    *)
(* the server has.                                                         *)
Announcing ==
  /\ writing["main"] # None /\ writing["main"].packet = UpdateActive(TRUE)
  /\ Target("main") = conn

(* The first entry, which the message at position i makes inactive, will   *)
(* be active again or be taken out: by a message behind it, by the end of  *)
(* another connection, or by what is still on its way on this one.         *)
Replaced(i) ==
  \/ Behind(messages, i, UpdateActive(TRUE))
  \/ \E c \in Conn \ {conn} : task[c] = "reading" \/ Behind(messages, i, Unlink(c))

Undone(i) ==
  \/ Replaced(i)
  \/ \E j \in DOMAIN sent[conn] : sent[conn][j].packet = UpdateActive(TRUE)
  \/ Announcing

(* An update comes from a connection whose end is still to come.           *)
UpdatesInTime ==
  \A i \in DOMAIN messages : messages[i].type = "UpdateActive" =>
    \E c \in Conn : task[c] = "reading" \/ Behind(messages, i, Unlink(c))

DeactivationsUndone ==
  /\ \A i \in DOMAIN messages : messages[i] = UpdateActive(FALSE) => Undone(i)
  /\ servers # <<>> /\ ~servers[1].active => Undone(0)
  /\ \A i \in DOMAIN sent[conn] : sent[conn][i].packet = UpdateActive(FALSE) =>
       \/ \E j \in DOMAIN sent[conn] : j > i /\ sent[conn][j].packet = UpdateActive(TRUE)
       \/ Announcing

WillInv ==
  /\ \A i \in DOMAIN servers : i > 1 => servers[i].active
  /\ writing["main"] # None /\ writing["main"].packet.type = "UpdateActive" =>
       writing["main"].packet.active = acceptingPlayers
  /\ UpdatesInTime
  /\ acceptingPlayers /\ conn # 0 /\ Sound(conn) => DeactivationsUndone

(* Steps that bring nothing on its way.                                    *)
LEMMA WillKept ==
  ASSUME TypeInv, WillInv,
         UNCHANGED <<messages, servers, acceptingPlayers, conn, task, sent>>,
         writing'["main"] # None /\ writing'["main"].packet.type = "UpdateActive" =>
           writing'["main"].packet.active = acceptingPlayers,
         conn # 0 /\ Sound(conn)' => Sound(conn) /\ (Announcing => Announcing')
  PROVE  WillInv'
<1>1. UpdateActive(TRUE)' = UpdateActive(TRUE) /\ UpdateActive(FALSE)' = UpdateActive(FALSE)
      /\ \A c \in Conn : Unlink(c)' = Unlink(c)
  BY DEF UpdateActive, Unlink
<1>2. \A i : Replaced(i)' <=> Replaced(i)
  BY <1>1 DEF Replaced, Behind
<1>3. UpdatesInTime'
  BY <1>1 DEF WillInv, UpdatesInTime, Behind
<1>4. ASSUME acceptingPlayers', conn' # 0, Sound(conn)'
      PROVE  DeactivationsUndone'
  <2>1. DeactivationsUndone /\ (Announcing => Announcing')
    BY <1>4 DEF WillInv
  <2>2. \A i : Undone(i) => Undone(i)'
    BY <1>1, <1>2, <2>1 DEF Undone
  <2> QED  BY <1>1, <2>1, <2>2 DEF DeactivationsUndone
<1> QED  BY <1>3, <1>4 DEF WillInv

(* What a server has sent before it is registered, if anything, is undone  *)
(* by the end of the connection that brought it.                           *)
LEMMA EarlierConnections ==
  ASSUME TypeInv, TableInv, WillInv, NEW k \in Conn, task[k] \in {"none", "auth"}
  PROVE  /\ \A i \in DOMAIN messages : messages[i].type = "UpdateActive" =>
              \E c \in Conn \ {k} : task[c] = "reading" \/ Behind(messages, i, Unlink(c))
         /\ servers # <<>> =>
              \E c \in Conn \ {k} : task[c] = "reading" \/ Behind(messages, 0, Unlink(c))
<1>1. ~Contains(messages, Unlink(k)) /\ task[k] # "reading"
  BY DEF TableInv, LinkInv
<1>2. \A i : ~Behind(messages, i, Unlink(k))
  <2>1. messages \in Seq(Message) /\ DOMAIN messages = 1 .. Len(messages)
    BY LenProperties DEF TypeInv, TypeOK
  <2> QED  BY <1>1, <2>1 DEF Contains, Behind
<1>3. \A i \in DOMAIN messages : messages[i].type = "UpdateActive" =>
        \E c \in Conn \ {k} : task[c] = "reading" \/ Behind(messages, i, Unlink(c))
  BY <1>1, <1>2 DEF WillInv, UpdatesInTime
<1>4. ASSUME servers # <<>>
      PROVE  \E c \in Conn \ {k} : task[c] = "reading" \/ Behind(messages, 0, Unlink(c))
  <2>1. Len(servers) # 0
    BY <1>4, EmptySeq DEF TypeInv, TypeOK
  <2>2. Counted # {}
    BY <2>1, FS_EmptySet DEF TableInv
  <2>3. PICK c \in Conn : task[c] = "reading" \/ Contains(messages, Unlink(c))
    BY <2>2 DEF Counted
  <2>4. c # k
    BY <1>1, <2>3
  <2>5. Contains(messages, Unlink(c)) => Behind(messages, 0, Unlink(c))
    <3>1. messages \in Seq(Message) /\ DOMAIN messages = 1 .. Len(messages)
          /\ Len(messages) \in Nat
      BY LenProperties DEF TypeInv, TypeOK
    <3>2. \A j \in 1 .. Len(messages) : j > 0
      BY <3>1
    <3> QED  BY <3>1, <3>2 DEF Contains, Behind
  <2> QED  BY <2>3, <2>4, <2>5
<1> QED  BY <1>3, <1>4

(* A command is given, with the connection at hand or while a new one is   *)
(* not yet used: nothing was sent on that, and the others will end.        *)
LEMMA CloseCommandKeepsWill ==
  ASSUME TypeInv, TableInv, WillInv, NEW v \in BOOLEAN, CloseCommand(v)
  PROVE  WillInv'
<1>1. /\ writing' = [writing EXCEPT !["main"] = [packet |-> UpdateActive(v), on |-> 0]]
      /\ acceptingPlayers' = v
      /\ UNCHANGED <<conn, connection, messages, servers, task, sent, up>>
  BY DEF CloseCommand, Write, link, network, cluster
<1>2. /\ writing'["main"] = [packet |-> UpdateActive(v), on |-> 0]
      /\ writing'["main"].packet = UpdateActive(v) /\ writing'["main"].on = 0
      /\ writing'["main"] # None /\ writing'["main"].packet.active = v
  <2>1. [packet |-> UpdateActive(v), on |-> 0] \in Writing
    BY ConnectionAssumption DEF Writing, Packet
  <2> QED  BY <1>1, <2>1, ConnectionAssumption DEF TypeInv, TypeOK, Thread, UpdateActive
<1>3. UpdateActive(TRUE)' = UpdateActive(TRUE) /\ UpdateActive(FALSE)' = UpdateActive(FALSE)
      /\ UpdateActive(FALSE).type = "UpdateActive"
      /\ \A c \in Conn : Unlink(c)' = Unlink(c)
  BY DEF UpdateActive, Unlink
<1>4. UpdatesInTime'
  BY <1>1, <1>3 DEF WillInv, UpdatesInTime, Behind
<1>5. ASSUME v = TRUE, conn # 0, Sound(conn)
      PROVE  DeactivationsUndone'
  <2>1. CASE connection = conn
    <3>1. Announcing'
      BY <1>1, <1>2, <1>3, <1>5, <2>1 DEF Announcing, Target
    <3> QED  BY <3>1 DEF DeactivationsUndone, Undone
  <2>2. CASE connection # conn
    <3>1. conn \in Conn /\ conn > connection
      BY <1>5, <2>2, ConnectionAssumption DEF TypeInv, TypeOK, Conn
    <3>2. sent[conn] = <<>> /\ task[conn] \in {"none", "auth"}
      BY <1>5, <3>1 DEF TypeInv, AuthInv, Sound
    <3>3. \A i : Replaced(i)' <=> Replaced(i)
      BY <1>1, <1>3 DEF Replaced, Behind
    <3>4. \A i \in DOMAIN messages : messages[i] = UpdateActive(FALSE) => Replaced(i)
      BY <1>3, <3>1, <3>2, EarlierConnections DEF Replaced
    <3>5. servers # <<>> => Replaced(0)
      BY <3>1, <3>2, EarlierConnections DEF Replaced
    <3>6. \A i : i \notin DOMAIN sent'[conn']
      BY <1>1, <3>2
    <3>7. \A i : Replaced(i) => Undone(i)'
      BY <3>3 DEF Undone
    <3> QED  BY <1>1, <1>3, <3>4, <3>5, <3>6, <3>7 DEF DeactivationsUndone
  <2> QED  BY <2>1, <2>2
<1>6. Sound(conn)' => Sound(conn)
  BY <1>1 DEF Sound
<1> QED  BY <1>1, <1>2, <1>4, <1>5, <1>6 DEF WillInv

(* A new connection carries nothing, and the earlier ones end.             *)
LEMMA ConnectKeepsWill ==
  ASSUME TypeInv, TableInv, WillInv, Connect
  PROVE  WillInv'
<1>1. /\ conn' = conn + 1 /\ conn' \in Conn /\ conn \in Nat /\ connection \in Nat
      /\ connection <= conn /\ task[conn'] = "none"
      /\ task' = [task EXCEPT ![conn'] = "auth"] /\ DOMAIN task = Conn
      /\ UNCHANGED <<connection, acceptingPlayers, writing, sent, messages, servers>>
  BY ConnectionAssumption DEF Connect, cluster, TypeInv, TypeOK, ThreadInv, Conn
<1>2. UpdateActive(TRUE)' = UpdateActive(TRUE) /\ UpdateActive(FALSE)' = UpdateActive(FALSE)
      /\ UpdateActive(FALSE).type = "UpdateActive"
      /\ \A c \in Conn : Unlink(c)' = Unlink(c)
  BY DEF UpdateActive, Unlink
<1>3. \A c \in Conn : c # conn' => task'[c] = task[c]
  BY <1>1
<1>4. \A i : \A c \in Conn : Behind(messages, i, Unlink(c))' <=> Behind(messages, i, Unlink(c))
  BY <1>1, <1>2 DEF Behind
<1>5. UpdatesInTime'
  BY <1>1, <1>3, <1>4 DEF WillInv, UpdatesInTime
<1>6. sent[conn'] = <<>>
  BY <1>1 DEF TypeInv, AuthInv
<1>7. /\ \A i \in DOMAIN messages : messages[i] = UpdateActive(FALSE) => Replaced(i)'
      /\ servers # <<>> => Replaced(0)'
  <2> DEFINE k == conn'
  <2>1. /\ \A i \in DOMAIN messages : messages[i].type = "UpdateActive" =>
              \E c \in Conn \ {k} : task[c] = "reading" \/ Behind(messages, i, Unlink(c))
        /\ servers # <<>> =>
              \E c \in Conn \ {k} : task[c] = "reading" \/ Behind(messages, 0, Unlink(c))
    <3>1. k \in Conn /\ task[k] \in {"none", "auth"}
      BY <1>1
    <3> HIDE DEF k
    <3> QED  BY <3>1, EarlierConnections
  <2>2. \A i : Replaced(i)' <=>
          \/ Behind(messages, i, UpdateActive(TRUE))'
          \/ \E c \in Conn \ {k} : task'[c] = "reading" \/ Behind(messages, i, Unlink(c))'
    BY DEF Replaced
  <2> QED  BY <1>2, <1>3, <1>4, <2>1, <2>2
<1>8. DeactivationsUndone'
  <2>1. sent'[conn'] = <<>>
    BY <1>1, <1>6
  <2>2. \A i : i \notin DOMAIN sent'[conn']
    BY <2>1
  <2>3. \A i : Replaced(i)' => Undone(i)'
    BY DEF Undone
  <2> QED  BY <1>1, <1>2, <1>7, <2>2, <2>3 DEF DeactivationsUndone
<1> QED  BY <1>1, <1>5, <1>8 DEF WillInv

(* What the main thread announces goes out behind all that was sent, or    *)
(* the connection is lost.                                                 *)
LEMMA WriteKeepsWill ==
  ASSUME TypeInv, RequestInv, WillInv, NEW t \in Thread, WriteNext(t)
  PROVE  WillInv'
<1> DEFINE w == writing[t]
           f == Written(t)
           s == Append(sent[conn], f)
           True == UpdateActive(TRUE)
           False == UpdateActive(FALSE)
<1>1. /\ conn \in Conn /\ connection = conn /\ w # None /\ w \in Writing
      /\ f \in Frame /\ w.on \in {0, conn}
      /\ writing' = [writing EXCEPT ![t] = IF w.on = 0 THEN [packet |-> w.packet, on |-> conn]
                                                      ELSE None]
  BY WriteEffect
<1>2. w.packet \in Packet /\ f.packet = w.packet
  BY <1>1 DEF Writing, Written
<1>3. /\ UNCHANGED <<conn, connection, acceptingPlayers, up, task, messages, servers>>
      /\ sent[conn] \in Seq(Frame) /\ DOMAIN writing = Thread
  BY <1>1 DEF WriteNext, link, cluster, TypeInv, TypeOK
<1>4. Sound(conn) => sent'[conn] = s
  <2>1. Target(t) = conn
    BY <1>1 DEF Target
  <2>2. Sound(conn) => ~Gone(conn) /\ task[conn] # "done"
    BY DEF Sound, Gone
  <2>3. Sound(conn) => sent' = [sent EXCEPT ![conn] = s]
    BY <2>1, <2>2 DEF WriteNext, Written
  <2> QED  BY <1>1, <2>3 DEF TypeInv, TypeOK
<1>5. /\ DOMAIN s = 1 .. Len(sent[conn]) + 1 /\ Len(sent[conn]) \in Nat
      /\ DOMAIN sent[conn] = 1 .. Len(sent[conn])
      /\ \A i \in 1 .. Len(sent[conn]) : s[i] = sent[conn][i]
      /\ s[Len(sent[conn]) + 1] = f
  BY <1>1, <1>3, AppendProperties, LenProperties
<1>6. True' = True /\ False' = False /\ True # False /\ \A c \in Conn : Unlink(c)' = Unlink(c)
  BY DEF UpdateActive, Unlink
<1> HIDE DEF s, f
<1>7. t = "connection" => w.packet # True /\ w.packet # False
  BY <1>1 DEF RequestInv, CommandInv, Authentication, Pong, UpdateActive
<1>8. /\ t = "connection" => writing'["main"] = writing["main"]
      /\ t = "main" => writing["main"] = w /\
           writing'["main"] \in {[packet |-> w.packet, on |-> conn], None}
  BY <1>1, <1>3 DEF Thread
<1>9. \/ writing'["main"] = None
      \/ writing["main"] # None /\ writing'["main"].packet = writing["main"].packet
  BY <1>1, <1>8 DEF Thread
<1>10. UpdatesInTime'
  BY <1>3, <1>6 DEF WillInv, UpdatesInTime, Behind
<1>11. \A i : Replaced(i)' <=> Replaced(i)
  BY <1>3, <1>6 DEF Replaced, Behind
<1>12. Announcing => Announcing' \/ f.packet = True
  <2>1. CASE t = "connection"
    BY <1>3, <1>6, <1>8, <2>1 DEF Announcing, Target
  <2>2. CASE t = "main"
    BY <1>2, <1>8, <2>2 DEF Announcing
  <2> QED  BY <2>1, <2>2 DEF Thread
<1>13. f.packet = False => w.packet = False /\ t = "main"
  BY <1>2, <1>7 DEF Thread
<1>14. ASSUME acceptingPlayers, Sound(conn)
       PROVE  DeactivationsUndone'
  <2>1. DeactivationsUndone /\ sent'[conn] = s
    BY <1>1, <1>4, <1>14 DEF WillInv, Conn
  <2>2. f.packet # False
    <3>1. SUFFICES ASSUME writing["main"] # None, writing["main"].packet = False PROVE FALSE
      BY <1>1, <1>8, <1>13
    <3>2. False.type = "UpdateActive" /\ False.active = FALSE
      BY DEF UpdateActive
    <3> QED  BY <1>14, <3>1, <3>2 DEF WillInv
  <2>3. \A i : Undone(i) => Undone(i)'
    <3> SUFFICES ASSUME NEW i, Undone(i) PROVE Undone(i)'
      OBVIOUS
    <3>1. CASE Replaced(i)
      BY <1>11, <3>1 DEF Undone
    <3>2. CASE f.packet = True
      <4>1. Len(sent[conn]) + 1 \in DOMAIN s
        BY <1>5
      <4> QED  BY <1>3, <1>5, <1>6, <2>1, <3>2, <4>1 DEF Undone
    <3>3. CASE Announcing /\ f.packet # True
      BY <1>12, <3>3 DEF Undone
    <3>4. ASSUME NEW j \in DOMAIN sent[conn], sent[conn][j].packet = True
          PROVE  Undone(i)'
      <4>1. j \in DOMAIN s /\ s[j] = sent[conn][j]
        BY <1>5
      <4> QED  BY <1>3, <1>6, <2>1, <3>4, <4>1 DEF Undone
    <3> QED  BY <3>1, <3>2, <3>3, <3>4 DEF Undone
  <2>4. ASSUME NEW i \in DOMAIN s, s[i].packet = False
        PROVE  \/ \E j \in DOMAIN s : j > i /\ s[j].packet = True
               \/ Announcing'
    <3>1. i \in DOMAIN sent[conn] /\ sent[conn][i].packet = False
      <4>1. i \in 1 .. Len(sent[conn]) + 1 /\ i # Len(sent[conn]) + 1
        BY <1>5, <2>2, <2>4
      <4>2. i \in 1 .. Len(sent[conn])
        BY <1>5, <4>1
      <4> QED  BY <1>5, <2>4, <4>2
    <3>2. \/ \E j \in DOMAIN sent[conn] : j > i /\ sent[conn][j].packet = True
          \/ Announcing
      BY <2>1, <3>1 DEF DeactivationsUndone
    <3>3. CASE Announcing /\ f.packet = True
      <4>1. Len(sent[conn]) + 1 \in DOMAIN s /\ Len(sent[conn]) + 1 > i
        BY <1>5, <3>1
      <4> QED  BY <1>5, <3>3, <4>1
    <3>4. ASSUME NEW j \in DOMAIN sent[conn], j > i, sent[conn][j].packet = True
          PROVE  \E k \in DOMAIN s : k > i /\ s[k].packet = True
      <4>1. j \in DOMAIN s /\ s[j] = sent[conn][j]
        BY <1>5
      <4> QED  BY <3>4, <4>1
    <3> QED  BY <1>12, <3>2, <3>3, <3>4
  <2> HIDE DEF True, False
  <2> QED  BY <1>3, <1>6, <2>1, <2>3, <2>4 DEF DeactivationsUndone, True, False
<1>15. Sound(conn)' => Sound(conn)
  BY <1>3 DEF Sound
<1> QED  BY <1>3, <1>9, <1>10, <1>14, <1>15 DEF WillInv

(* What is left on a connection when a packet was taken.                   *)
LEMMA TakeElements ==
  ASSUME NEW S, NEW s \in Seq(S), Len(s) >= 2
  PROVE  /\ DOMAIN s = 1 .. Len(s) /\ Len(s) \in Nat
         /\ DOMAIN SubSeq(s, 3, Len(s)) = 1 .. Len(s) - 2
         /\ \A i \in 1 .. Len(s) - 2 : SubSeq(s, 3, Len(s))[i] = s[i + 2]
<1>1. DOMAIN s = 1 .. Len(s) /\ Len(s) \in Nat /\ \A i \in 1 .. Len(s) : s[i] \in S
  OBVIOUS
<1> DEFINE t == SubSeq(s, 3, Len(s))
<1>2. /\ t \in Seq(S) /\ Len(t) = Len(s) - 2
      /\ \A i \in 1 .. Len(s) - 2 : t[i] = s[3 + i - 1]
  BY <1>1, SubSeqProperties
<1> HIDE DEF t
<1>3. DOMAIN t = 1 .. Len(s) - 2 /\ \A i \in 1 .. Len(s) - 2 : t[i] = s[i + 2]
  BY <1>1, <1>2
<1> QED  BY <1>1, <1>3 DEF t

(* A packet taken off a connection goes behind all that is in the channel, *)
(* and what follows it on the connection will come behind it.              *)
LEMMA TakeKeepsWill ==
  ASSUME TypeInv, WillInv, NEW c \in Conn, NextPacket(sent[c]) # None, Take(c),
         UNCHANGED <<acceptingPlayers, conn, connection, writing, up, servers>>,
         task[c] \in {"auth", "reading"}, task' = [task EXCEPT ![c] = "reading"],
         \/ messages' = messages /\ NextPacket(sent[c]) = Pong
         \/ messages' = Append(messages, NewConn(c)) /\ NextPacket(sent[c]) = Authentication
         \/ messages' = Append(messages, NextPacket(sent[c])) /\ NextPacket(sent[c]) \in Message
              /\ task[c] = "reading"
  PROVE  WillInv'
<1> DEFINE p == NextPacket(sent[c])
           s == sent[c]
           rest == SubSeq(s, 3, Len(s))
           True == UpdateActive(TRUE)
           False == UpdateActive(FALSE)
<1>1. messages \in Seq(Message) /\ s \in Seq(Frame) /\ DOMAIN sent = Conn
      /\ DOMAIN messages = 1 .. Len(messages) /\ Len(messages) \in Nat
      /\ DOMAIN task = Conn
      /\ \A d \in Conn : task'[d] = "reading" <=> task[d] = "reading" \/ d = c
  BY LenProperties DEF TypeInv, TypeOK
<1>2. /\ Len(s) >= 2 /\ s[1].packet = p /\ s[2].packet = p /\ p \in Packet
  <2> HIDE DEF s
  <2> QED  BY <1>1, NextPacketFrames DEF s
<1>3. /\ DOMAIN s = 1 .. Len(s) /\ Len(s) \in Nat
      /\ DOMAIN rest = 1 .. Len(s) - 2
      /\ \A i \in 1 .. Len(s) - 2 : rest[i] = s[i + 2]
  <2> HIDE DEF s
  <2> QED  BY <1>1, <1>2, TakeElements
<1>4. sent' = [sent EXCEPT ![c] = rest]
  BY DEF Take
<1>5. sent'[c] = rest /\ \A d \in Conn : d # c => sent'[d] = sent[d]
  BY <1>1, <1>4
<1>6. /\ True' = True /\ False' = False /\ True # False
      /\ True.type = "UpdateActive" /\ False.type = "UpdateActive"
      /\ \A d \in Conn : Unlink(d)' = Unlink(d)
      /\ Pong # True /\ Pong # False /\ Authentication # True /\ Authentication # False
      /\ NewConn(c) # False /\ NewConn(c).type # "UpdateActive"
  BY DEF UpdateActive, Unlink, Pong, Authentication, NewConn
<1>7. NewConn(c) \in Message
  BY LinkMessages
<1> HIDE DEF rest
<1>8. /\ messages' = messages /\ p # True /\ p # False
      \/ \E m \in Message : /\ messages' = Append(messages, m)
                            /\ p = True => m = True
                            /\ p = False => task[c] = "reading"
                            /\ m.type = "UpdateActive" => m = p /\ task[c] = "reading"
  <2> HIDE DEF p, True, False
  <2> QED  BY <1>6, <1>7 DEF p
<1> HIDE DEF p, s, True, False
<1>9. ASSUME NEW i \in 0 .. Len(messages), NEW e, Behind(messages, i, e)
      PROVE  Behind(messages', i, e)
  <2>1. \A m \in Message : Behind(Append(messages, m), i, e)
    BY <1>1, <1>9, AppendBehind
  <2> QED  BY <1>8, <1>9, <2>1
<1>10. ASSUME p = True, NEW i \in 0 .. Len(messages)
       PROVE  Behind(messages', i, True)
  <2>1. \A m \in Message : Behind(Append(messages, m), i, m)
    BY <1>1, AppendBehind
  <2> QED  BY <1>8, <1>10, <2>1
<1>11. \A i \in DOMAIN messages' :
         \/ i \in DOMAIN messages /\ messages'[i] = messages[i]
         \/ /\ messages'[i].type = "UpdateActive" => messages'[i] = p /\ task[c] = "reading"
            /\ i = Len(messages) + 1
  <2>1. ASSUME NEW m \in Message, messages' = Append(messages, m)
        PROVE  /\ DOMAIN messages' = 1 .. Len(messages) + 1
               /\ \A i \in 1 .. Len(messages) : messages'[i] = messages[i]
               /\ messages'[Len(messages) + 1] = m
    <3>1. /\ DOMAIN Append(messages, m) = 1 .. Len(messages) + 1
          /\ \A i \in 1 .. Len(messages) : Append(messages, m)[i] = messages[i]
          /\ Append(messages, m)[Len(messages) + 1] = m
      BY <1>1, AppendElements
    <3> QED  BY <2>1, <3>1
  <2> QED  BY <1>1, <1>8, <2>1
<1>12. UpdatesInTime'
  <2> SUFFICES ASSUME NEW i \in DOMAIN messages', messages'[i].type = "UpdateActive"
               PROVE  \E d \in Conn : task'[d] = "reading" \/ Behind(messages', i, Unlink(d))
    BY <1>6 DEF UpdatesInTime
  <2>1. CASE i \in DOMAIN messages /\ messages'[i] = messages[i]
    <3>1. PICK d \in Conn : task[d] = "reading" \/ Behind(messages, i, Unlink(d))
      BY <2>1 DEF WillInv, UpdatesInTime
    <3>2. i \in 0 .. Len(messages)
      BY <1>1, <2>1
    <3> QED  BY <1>9, <3>1, <3>2
  <2> QED  BY <1>11, <2>1
<1>13. ASSUME NEW i \in 0 .. Len(messages), Replaced(i)
       PROVE  Replaced(i)'
  <2>1. CASE Behind(messages, i, True)
    BY <1>6, <1>9, <2>1 DEF Replaced, True
  <2>2. ASSUME NEW d \in Conn \ {conn}, task[d] = "reading" \/ Behind(messages, i, Unlink(d))
        PROVE  Replaced(i)'
    <3>1. d \in Conn \ {conn'} /\ (task'[d] = "reading" \/ Behind(messages', i, Unlink(d)))
      BY <1>1, <1>9, <2>2
    <3> QED  BY <1>6, <3>1 DEF Replaced
  <2> QED  BY <1>13, <2>1, <2>2 DEF Replaced, True
<1>14. Announcing' <=> Announcing
  BY <1>6 DEF Announcing, Target, True
<1>15. ASSUME acceptingPlayers, conn # 0, Sound(conn)'
       PROVE  DeactivationsUndone'
  <2>1. conn \in Conn
    BY <1>15, ConnectionAssumption DEF TypeInv, TypeOK, Conn
  <2>2. Sound(conn)
    <3>1. conn' = conn /\ up' = up /\ up'[conn'] /\ task'[conn'] \in {"auth", "reading"}
      BY <1>15 DEF Sound
    <3>2. conn = c \/ task'[conn] = task[conn]
      BY <1>1, <2>1
    <3> QED  BY <3>1, <3>2 DEF Sound
  <2>3. DeactivationsUndone
    BY <1>15, <2>2 DEF WillInv
  <2>4. ASSUME NEW i \in 0 .. Len(messages), Undone(i)
        PROVE  Undone(i)'
    <3>1. CASE Replaced(i) \/ Announcing
      BY <1>13, <1>14, <3>1 DEF Undone
    <3>2. ASSUME NEW j \in DOMAIN sent[conn], sent[conn][j].packet = True
          PROVE  Undone(i)'
      <4>1. CASE c # conn
        BY <1>5, <1>6, <2>1, <3>2, <4>1 DEF Undone, True
      <4>2. CASE c = conn /\ p = True
        <5>1. Behind(messages', i, True)
          BY <1>10, <4>2
        <5> QED  BY <1>6, <5>1 DEF Undone, Replaced, True
      <4>3. CASE c = conn /\ p # True
        <5>1. j \in 1 .. Len(s) /\ s[j].packet = True
          BY <1>3, <3>2, <4>3 DEF s
        <5>2. j # 1 /\ j # 2
          BY <1>2, <4>3, <5>1
        <5>3. j - 2 \in 1 .. Len(s) - 2 /\ rest[j - 2] = s[j]
          BY <1>3, <5>1, <5>2
        <5>4. j - 2 \in DOMAIN rest /\ rest[j - 2].packet = True
          BY <1>3, <5>1, <5>3
        <5> QED  BY <1>5, <1>6, <4>3, <5>4 DEF Undone, True
      <4> QED  BY <4>1, <4>2, <4>3
    <3> QED  BY <2>4, <3>1, <3>2 DEF Undone, True
  <2>5. ASSUME NEW i \in DOMAIN messages', messages'[i] = False
        PROVE  Undone(i)'
    <3>1. CASE i \in DOMAIN messages /\ messages'[i] = messages[i]
      <4>1. Undone(i)
        BY <2>3, <2>5, <3>1 DEF DeactivationsUndone, False
      <4>2. i \in 0 .. Len(messages)
        BY <1>1, <3>1
      <4> QED  BY <2>4, <4>1, <4>2
    <3>2. CASE p = False /\ task[c] = "reading" /\ c # conn
      <4>1. task'[c] = "reading" /\ c \in Conn \ {conn'}
        BY <1>1, <3>2
      <4> QED  BY <4>1 DEF Undone, Replaced
    <3>3. CASE p = False /\ c = conn
      <4>1. 2 \in DOMAIN sent[conn] /\ sent[conn][2].packet = False
        BY <1>2, <1>3, <3>3 DEF s
      <4>2. \/ \E j \in DOMAIN sent[conn] : j > 2 /\ sent[conn][j].packet = True
            \/ Announcing
        BY <2>3, <4>1 DEF DeactivationsUndone, True, False
      <4>3. ASSUME NEW j \in DOMAIN sent[conn], j > 2, sent[conn][j].packet = True
            PROVE  Undone(i)'
        <5>1. j \in 1 .. Len(s) /\ s[j].packet = True
          BY <1>3, <3>3, <4>3 DEF s
        <5>2. j - 2 \in 1 .. Len(s) - 2 /\ rest[j - 2] = s[j]
          BY <1>3, <4>3, <5>1
        <5>3. j - 2 \in DOMAIN rest /\ rest[j - 2].packet = True
          BY <1>3, <5>1, <5>2
        <5> QED  BY <1>5, <1>6, <3>3, <5>3 DEF Undone, True
      <4> QED  BY <1>14, <4>2, <4>3 DEF Undone
    <3> QED  BY <1>6, <1>11, <2>5, <3>1, <3>2, <3>3
  <2>6. servers # <<>> /\ ~servers[1].active => Undone(0)'
    BY <1>1, <2>3, <2>4 DEF DeactivationsUndone
  <2>7. ASSUME NEW i \in DOMAIN sent'[conn], sent'[conn][i].packet = False
        PROVE  \/ \E j \in DOMAIN sent'[conn] : j > i /\ sent'[conn][j].packet = True
               \/ Announcing
    <3>1. CASE c # conn
      BY <1>5, <2>1, <2>3, <2>7, <3>1 DEF DeactivationsUndone, True, False
    <3>2. CASE c = conn
      <4>1. i \in 1 .. Len(s) - 2 /\ i + 2 \in DOMAIN s /\ s[i + 2].packet = False
        BY <1>3, <1>5, <2>7, <3>2
      <4>2. \/ \E j \in DOMAIN s : j > i + 2 /\ s[j].packet = True
            \/ Announcing
        BY <2>3, <3>2, <4>1 DEF DeactivationsUndone, True, False, s
      <4>3. ASSUME NEW j \in DOMAIN s, j > i + 2, s[j].packet = True
            PROVE  \E k \in DOMAIN rest : k > i /\ rest[k].packet = True
        <5>1. j - 2 \in 1 .. Len(s) - 2 /\ rest[j - 2] = s[j] /\ j - 2 > i
          BY <1>3, <4>1, <4>3
        <5> QED  BY <1>3, <4>3, <5>1
      <4> QED  BY <1>5, <3>2, <4>2, <4>3
    <3> QED  BY <3>1, <3>2
  <2> QED  BY <1>6, <1>14, <2>5, <2>6, <2>7 DEF DeactivationsUndone, True, False
<1> QED  BY <1>12, <1>15 DEF WillInv

LEMMA TaskKeepsWill ==
  ASSUME TypeInv, WillInv, NEW c \in Conn, ClientTask(c)
  PROVE  WillInv'
<1>1. /\ UNCHANGED <<acceptingPlayers, conn, connection, writing, up, servers>>
      /\ DOMAIN task = Conn /\ DOMAIN sent = Conn /\ messages \in Seq(Message)
      /\ DOMAIN messages = 1 .. Len(messages) /\ Len(messages) \in Nat
  BY LenProperties
  DEF ClientTask, Authenticate, ReadPacket, ReadPacketFails, plugin, link, TypeInv, TypeOK
<1>2. CASE /\ task[c] = "auth" /\ NextPacket(sent[c]) = Authentication
           /\ task' = [task EXCEPT ![c] = "reading"]
           /\ messages' = Append(messages, NewConn(c)) /\ Take(c)
  <2>1. NextPacket(sent[c]) # None
    BY <1>2, ConnectionAssumption DEF Packet
  <2> QED  BY <1>1, <1>2, <2>1, TakeKeepsWill
<1>3. CASE ReadPacket(c)
  <2>1. /\ task[c] = "reading" /\ NextPacket(sent[c]) # None /\ Take(c) /\ task' = task
    BY <1>3 DEF ReadPacket
  <2>2. \/ messages' = messages /\ NextPacket(sent[c]) = Pong
        \/ messages' = Append(messages, NextPacket(sent[c])) /\ NextPacket(sent[c]) \in Message
    BY <1>3, ReadPacketEffect DEF Message
  <2>3. task = [task EXCEPT ![c] = task[c]]
    BY DEF TypeInv, TypeOK
  <2> QED  BY <1>1, <2>1, <2>2, <2>3, TakeKeepsWill
<1>4. CASE /\ task' = [task EXCEPT ![c] = "done"] /\ Drop(c)
           /\ \/ task[c] = "auth" /\ messages' = messages
              \/ messages' = Append(messages, Unlink(c))
  <2>1. /\ task'[c] = "done" /\ \A d \in Conn : d # c => task'[d] = task[d]
        /\ \A d \in Conn : d # c => sent'[d] = sent[d]
    BY <1>1, <1>4 DEF Drop
  <2>2. /\ UpdateActive(TRUE)' = UpdateActive(TRUE) /\ UpdateActive(FALSE)' = UpdateActive(FALSE)
        /\ \A d \in Conn : Unlink(d)' = Unlink(d)
        /\ Unlink(c).type # "UpdateActive" /\ Unlink(c) # UpdateActive(FALSE)
        /\ Unlink(c) \in Message
    BY LinkMessages DEF UpdateActive, Unlink
  <2>3. ASSUME NEW i \in 0 .. Len(messages), NEW e, Behind(messages, i, e)
        PROVE  Behind(messages', i, e)
    BY <1>1, <1>4, <2>2, <2>3, AppendBehind
  <2>4. \/ task[c] # "reading"
        \/ \A i \in 0 .. Len(messages) : Behind(messages', i, Unlink(c))
    BY <1>1, <1>4, <2>2, AppendBehind
  <2>5. \A i \in DOMAIN messages' :
          \/ i \in DOMAIN messages /\ messages'[i] = messages[i]
          \/ messages'[i] = Unlink(c)
    <3>1. messages' = Append(messages, Unlink(c)) =>
            /\ DOMAIN messages' = 1 .. Len(messages) + 1
            /\ \A i \in 1 .. Len(messages) : messages'[i] = messages[i]
            /\ messages'[Len(messages) + 1] = Unlink(c)
      BY <1>1, <2>2, AppendElements
    <3> QED  BY <1>1, <1>4, <3>1
  <2>6. UpdatesInTime'
    <3> SUFFICES ASSUME NEW i \in DOMAIN messages', messages'[i].type = "UpdateActive"
                 PROVE  \E d \in Conn : task'[d] = "reading" \/ Behind(messages', i, Unlink(d))
      BY <2>2 DEF UpdatesInTime
    <3>1. i \in DOMAIN messages /\ messages'[i] = messages[i] /\ i \in 0 .. Len(messages)
      BY <1>1, <2>2, <2>5
    <3>2. PICK d \in Conn : task[d] = "reading" \/ Behind(messages, i, Unlink(d))
      BY <3>1 DEF WillInv, UpdatesInTime
    <3> QED  BY <2>1, <2>3, <2>4, <3>1, <3>2
  <2>7. ASSUME acceptingPlayers, conn # 0, Sound(conn)'
        PROVE  DeactivationsUndone'
    <3>1. conn \in Conn /\ conn # c
      BY <1>1, <2>1, <2>7, ConnectionAssumption DEF TypeInv, TypeOK, Conn, Sound
    <3>2. Sound(conn)
      BY <1>1, <2>1, <2>7, <3>1 DEF Sound
    <3>3. DeactivationsUndone /\ sent'[conn] = sent[conn]
      BY <2>1, <2>7, <3>1, <3>2 DEF WillInv
    <3>4. Announcing' <=> Announcing
      BY <1>1, <2>2 DEF Announcing, Target
    <3>5. ASSUME NEW i \in 0 .. Len(messages), Replaced(i)
          PROVE  Replaced(i)'
      <4>1. CASE Behind(messages, i, UpdateActive(TRUE))
        BY <2>2, <2>3, <4>1 DEF Replaced
      <4>2. ASSUME NEW d \in Conn \ {conn}, task[d] = "reading" \/ Behind(messages, i, Unlink(d))
            PROVE  Replaced(i)'
        BY <1>1, <2>1, <2>2, <2>3, <2>4, <3>1, <4>2 DEF Replaced
      <4> QED  BY <3>5, <4>1, <4>2 DEF Replaced
    <3>6. \A i \in 0 .. Len(messages) : Undone(i) => Undone(i)'
      BY <1>1, <2>2, <3>3, <3>4, <3>5 DEF Undone
    <3>7. \A i \in DOMAIN messages' : messages'[i] = UpdateActive(FALSE) => Undone(i)'
      <4> SUFFICES ASSUME NEW i \in DOMAIN messages', messages'[i] = UpdateActive(FALSE)
                   PROVE  Undone(i)'
        OBVIOUS
      <4>1. i \in DOMAIN messages /\ messages[i] = UpdateActive(FALSE) /\ i \in 0 .. Len(messages)
        <5>1. Unlink(c) # UpdateActive(FALSE)
          BY <2>2
        <5>2. i \in DOMAIN messages /\ messages[i] = UpdateActive(FALSE)
          BY <2>5, <5>1
        <5> QED  BY <1>1, <5>2
      <4>2. Undone(i)
        BY <3>3, <4>1 DEF DeactivationsUndone
      <4> QED  BY <3>6, <4>1, <4>2
    <3>8. servers # <<>> /\ ~servers[1].active => Undone(0)'
      BY <1>1, <3>3, <3>6 DEF DeactivationsUndone
    <3> QED  BY <1>1, <2>2, <3>3, <3>4, <3>7, <3>8 DEF DeactivationsUndone
  <2> QED  BY <1>1, <2>6, <2>7 DEF WillInv
<1> QED
  BY <1>2, <1>3, <1>4 DEF ClientTask, Authenticate, ReadPacketFails, EndOfConnection

(* The cluster handles a message: those behind it move up by one, and the  *)
(* first entry is what it made of it.                                      *)
LEMMA HandleMessageKeepsWill ==
  ASSUME TypeInv, TableInv, WillInv, HandleMessage
  PROVE  WillInv'
<1> DEFINE m == Head(messages)
           t == Tail(messages)
           Entry == [conn : Conn, active : BOOLEAN]
           True == UpdateActive(TRUE)
           False == UpdateActive(FALSE)
<1>1. /\ messages # <<>> /\ messages \in Seq(Message) /\ servers \in Seq(Entry)
      /\ messages' = t
      /\ UNCHANGED <<acceptingPlayers, conn, connection, writing, up, sent, task>>
  BY DEF HandleMessage, TypeInv, TypeOK, plugin, link, network
<1>2. /\ m \in Message /\ m = messages[1] /\ Len(messages) \in Nat
      /\ DOMAIN messages = 1 .. Len(messages) /\ 1 \in DOMAIN messages
      /\ DOMAIN t = 1 .. Len(messages) - 1
      /\ \A i \in 1 .. Len(messages) - 1 : t[i] = messages[i + 1]
  BY <1>1, HeadTailProperties, EmptySeq, LenProperties
<1>3. \/ m.type = "NewConn" /\ PushServer(m.conn)
      \/ m.type = "Unlink" /\ PopServer
      \/ m.type = "UpdateActive" /\ SetActive(m.active)
      \/ m.type = "Request" /\ UNCHANGED servers
  BY DEF HandleMessage
<1>4. \A i \in Nat : \A e : /\ Behind(t, i, e) <=> Behind(messages, i + 1, e)
                            /\ Behind(messages, 0, e) => e = m \/ Behind(t, 0, e)
  BY <1>1, TailBehind
<1> HIDE DEF m, t
<1>5. True' = True /\ False' = False /\ True # False
      /\ True.type = "UpdateActive" /\ True.active = TRUE
      /\ \A c \in Conn : Unlink(c)' = Unlink(c) /\ Unlink(c).type = "Unlink"
  BY DEF UpdateActive, Unlink
<1> HIDE DEF True, False
<1>6. UpdatesInTime'
  <2> SUFFICES ASSUME NEW i \in 1 .. Len(messages) - 1, t[i].type = "UpdateActive"
               PROVE  \E c \in Conn : task[c] = "reading" \/ Behind(t, i, Unlink(c))
    BY <1>1, <1>2, <1>5 DEF UpdatesInTime
  <2>1. i + 1 \in DOMAIN messages /\ messages[i + 1].type = "UpdateActive" /\ i \in Nat
    BY <1>2
  <2> QED  BY <1>4, <2>1 DEF WillInv, UpdatesInTime
<1>7. /\ \A i \in DOMAIN servers' : i > 1 => servers'[i].active
      /\ servers' # <<>> /\ ~servers'[1].active =>
           \/ m = False
           \/ /\ servers # <<>> /\ ~servers[1].active
              /\ m # True /\ \A c \in Conn : m # Unlink(c)
  <2>1. \A i \in 1 .. Len(servers) : i > 1 => servers[i].active
    BY <1>1 DEF WillInv
  <2>2. Len(servers) \in Nat /\ (servers = <<>> <=> Len(servers) = 0)
    BY <1>1, EmptySeq, LenProperties
  <2>3. CASE m.type = "NewConn" /\ PushServer(m.conn)
    <3>1. m.conn \in Conn
      BY <1>2, <2>3, MessageFields
    <3> DEFINE e == [conn |-> m.conn, active |-> TRUE]
    <3>2. e \in Entry /\ e.active = TRUE /\ servers' = Append(servers, e)
      BY <2>3, <3>1 DEF PushServer
    <3> HIDE DEF e, Entry
    <3>3. /\ DOMAIN servers' = 1 .. Len(servers) + 1
          /\ \A i \in 1 .. Len(servers) : servers'[i] = servers[i]
          /\ servers'[Len(servers) + 1] = e
      BY <1>1, <3>2, AppendProperties, LenProperties
    <3>4. m # True /\ \A c \in Conn : m # Unlink(c)
      BY <1>5, <2>3
    <3> QED  BY <2>1, <2>2, <3>2, <3>3, <3>4
  <2>4. CASE m.type = "Unlink" /\ PopServer
    <3>1. CASE servers = <<>>
      <4>1. servers' = <<>>
        BY <2>4, <3>1 DEF PopServer
      <4> QED  BY <4>1
    <3>2. CASE servers # <<>>
      <4>1. /\ DOMAIN servers' = 1 .. Len(servers) - 1
            /\ \A i \in 1 .. Len(servers) - 1 : servers'[i] = servers[i + 1]
            /\ servers' # <<>> => 1 \in 1 .. Len(servers) - 1
        <5> HIDE DEF Entry
        <5>1. /\ servers' = Tail(servers) /\ Tail(servers) \in Seq(Entry)
              /\ Len(Tail(servers)) = Len(servers) - 1
              /\ \A i \in 1 .. Len(servers) - 1 : Tail(servers)[i] = servers[i + 1]
          BY <1>1, <2>4, <3>2, HeadTailProperties DEF PopServer
        <5>2. servers' # <<>> => Len(servers') # 0
          BY <5>1, EmptySeq
        <5> QED  BY <2>2, <5>1, <5>2, LenProperties
      <4> QED  BY <2>1, <2>2, <4>1
    <3> QED  BY <3>1, <3>2
  <2>5. CASE m.type = "UpdateActive" /\ SetActive(m.active)
    <3>1. m.active \in BOOLEAN /\ m = UpdateActive(m.active)
      BY <1>2, <2>5, MessageFields
    <3>2. CASE servers = <<>>
      <4>1. servers' = <<>>
        BY <2>5, <3>2 DEF SetActive
      <4> QED  BY <4>1
    <3>3. CASE servers # <<>>
      <4>1. servers' = [servers EXCEPT ![1].active = m.active] /\ 1 \in 1 .. Len(servers)
            /\ servers[1] \in Entry /\ DOMAIN servers = 1 .. Len(servers)
        <5>1. servers' = [servers EXCEPT ![1].active = m.active]
          BY <2>5, <3>3 DEF SetActive
        <5>2. 1 \in 1 .. Len(servers) /\ DOMAIN servers = 1 .. Len(servers)
          BY <1>1, <2>2, <3>3
        <5> HIDE DEF Entry
        <5> QED  BY <1>1, <5>1, <5>2, ElementOfSeq
      <4>2. /\ DOMAIN servers' = 1 .. Len(servers)
            /\ servers'[1].active = m.active
            /\ \A i \in 1 .. Len(servers) : i # 1 => servers'[i] = servers[i]
        <5>1. \A i \in DOMAIN servers :
                servers'[i] = IF i = 1 THEN [servers[1] EXCEPT !.active = m.active] ELSE servers[i]
          BY <4>1
        <5>2. [servers[1] EXCEPT !.active = m.active].active = m.active
          BY <4>1
        <5>3. DOMAIN servers' = DOMAIN servers
          BY <4>1
        <5> QED  BY <4>1, <5>1, <5>2, <5>3
      <4>3. \A i \in DOMAIN servers' : i > 1 => servers'[i].active
        BY <2>1, <4>2
      <4>4. ~servers'[1].active => m = False
        BY <3>1, <4>2 DEF False
      <4> QED  BY <4>3, <4>4
    <3> QED  BY <3>2, <3>3
  <2>6. CASE m.type = "Request" /\ UNCHANGED servers
    <3>1. m # True /\ \A c \in Conn : m # Unlink(c)
      BY <1>5, <2>6
    <3> QED  BY <1>1, <2>1, <2>6, <3>1
  <2> QED  BY <1>3, <2>3, <2>4, <2>5, <2>6
<1>8. ASSUME acceptingPlayers, conn # 0, Sound(conn)
      PROVE  DeactivationsUndone'
  <2>1. DeactivationsUndone
    BY <1>8 DEF WillInv
  <2>2. Announcing' <=> Announcing
    BY <1>1, <1>5 DEF Announcing, Target, True
  <2>3. ASSUME NEW i \in Nat, Undone(i + 1)
        PROVE  Undone(i)'
    <3>1. Replaced(i + 1) => Replaced(i)'
      BY <1>1, <1>4, <1>5 DEF Replaced, True
    <3> QED  BY <1>1, <1>5, <2>2, <2>3, <3>1 DEF Undone, True
  <2>4. ASSUME NEW i \in 1 .. Len(messages) - 1, t[i] = False
        PROVE  Undone(i)'
    <3>1. i + 1 \in DOMAIN messages /\ messages[i + 1] = False /\ i \in Nat
      BY <1>2, <2>4
    <3>2. Undone(i + 1)
      BY <2>1, <3>1 DEF DeactivationsUndone, False
    <3> QED  BY <2>3, <3>1, <3>2
  <2>5. ASSUME servers' # <<>>, ~servers'[1].active
        PROVE  Undone(0)'
    <3>1. CASE m = False
      <4>1. Undone(1)
        BY <1>2, <2>1, <3>1 DEF DeactivationsUndone, False
      <4>2. 0 \in Nat /\ 0 + 1 = 1
        OBVIOUS
      <4>3. Undone(0 + 1)
        BY <4>1, <4>2
      <4> QED  BY <2>3, <4>2, <4>3
    <3>2. CASE /\ servers # <<>> /\ ~servers[1].active
               /\ m # True /\ \A c \in Conn : m # Unlink(c)
      <4>1. Undone(0)
        BY <2>1, <3>2 DEF DeactivationsUndone
      <4>2. Replaced(0) => Replaced(0)'
        BY <1>1, <1>4, <1>5, <3>2 DEF Replaced, True
      <4> QED  BY <1>1, <1>5, <2>2, <4>1, <4>2 DEF Undone, True
    <3> QED  BY <1>7, <2>5, <3>1, <3>2
  <2>6. \A i \in DOMAIN messages' : messages'[i] = False => Undone(i)'
    BY <1>1, <1>2, <2>4
  <2> QED  BY <1>1, <1>5, <2>1, <2>2, <2>5, <2>6 DEF DeactivationsUndone, True, False
<1>9. Sound(conn)' => Sound(conn)
  BY <1>1 DEF Sound
<1> QED  BY <1>1, <1>6, <1>7, <1>8, <1>9 DEF WillInv

LEMMA WillInit == Init => WillInv
BY DEF Init, WillInv, UpdatesInTime, Thread

LEMMA WillNext ==
  ASSUME TypeInv, BootInv, TableInv, RequestInv, WillInv, [Next]_vars, ~aside'
  PROVE  WillInv'
<1>1. DOMAIN writing = Thread /\ DOMAIN up = Conn /\ UpdateActive(TRUE)' = UpdateActive(TRUE)
      /\ (conn # 0 => conn \in Conn)
  BY ConnectionAssumption DEF TypeInv, TypeOK, UpdateActive, Conn
<1>2. CASE Connect
  BY <1>2, ConnectKeepsWill
<1>3. CASE OnConnect
  <2>1. /\ connection' = conn
        /\ writing' = [writing EXCEPT !["connection"] = [packet |-> Authentication, on |-> 0]]
        /\ UNCHANGED <<conn, acceptingPlayers, up, task, sent, messages, servers>>
    BY <1>3 DEF OnConnect, Write, network, cluster
  <2>2. writing'["main"] = writing["main"]
    BY <1>1, <2>1 DEF Thread
  <2>3. Announcing => Announcing'
    BY <1>1, <2>1, <2>2 DEF Announcing, Target
  <2> QED  BY <2>1, <2>2, <2>3, WillKept DEF Sound, WillInv
<1>4. CASE OnPingPacket \/ ReadFails \/ ConnectionWriteFails
  <2>1. /\ \E w : writing' = [writing EXCEPT !["connection"] = w]
        /\ \A c \in Conn : up'[c] => up[c]
        /\ UNCHANGED <<conn, connection, acceptingPlayers, task, sent, messages, servers>>
    <3>1. CASE OnPingPacket
      <4>1. writing' = writing \/ \E w : writing' = [writing EXCEPT !["connection"] = w]
        BY <3>1 DEF OnPingPacket, Write
      <4>2. writing = [writing EXCEPT !["connection"] = writing["connection"]]
        BY DEF TypeInv, TypeOK
      <4>3. \E w : writing' = [writing EXCEPT !["connection"] = w]
        BY <4>1, <4>2
      <4>4. UNCHANGED <<conn, connection, acceptingPlayers, up, task, sent, messages, servers>>
        BY <3>1 DEF OnPingPacket, link, cluster
      <4> QED  BY <4>3, <4>4
    <3>2. CASE ReadFails \/ ConnectionWriteFails
      BY <1>1, <3>2 DEF ReadFails, ConnectionWriteFails, Disconnect, cluster
    <3> QED  BY <1>4, <3>1, <3>2
  <2>2. writing'["main"] = writing["main"]
    BY <1>1, <2>1 DEF Thread
  <2>3. Announcing => Announcing'
    BY <1>1, <2>1, <2>2 DEF Announcing, Target
  <2> QED  BY <1>1, <2>1, <2>2, <2>3, WillKept DEF Sound, WillInv
<1>5. CASE CommandFails
  <2>1. /\ ~(Open(Target("main")) /\ ~Gone(Target("main")))
        /\ writing' = [writing EXCEPT !["main"] = None]
        /\ UNCHANGED <<conn, connection, acceptingPlayers, up, task, sent, messages, servers>>
    BY <1>5 DEF CommandFails, link, network, cluster
  <2>2. writing'["main"] = None
    BY <1>1, <2>1 DEF Thread
  <2>3. conn # 0 /\ Sound(conn) => ~Announcing
    <3>1. conn # 0 /\ Sound(conn) => Open(conn) /\ ~Gone(conn)
      BY <1>1 DEF Sound, Open, Gone, TypeInv, ThreadInv
    <3> QED  BY <2>1, <3>1 DEF Announcing
  <2> QED  BY <2>1, <2>2, <2>3, WillKept DEF Sound
<1>6. ASSUME NEW t \in Thread, WriteNext(t)
      PROVE  WillInv'
  BY <1>6, WriteKeepsWill
<1>7. ASSUME NEW r \in Request, RequestCommand(r)
      PROVE  WillInv'
  <2>1. /\ writing["main"] = None
        /\ writing' = [writing EXCEPT !["main"] = [packet |-> RequestMsg(r), on |-> 0]]
        /\ UNCHANGED <<conn, connection, acceptingPlayers, up, task, sent, messages, servers>>
    BY <1>7 DEF RequestCommand, Write, link, network, cluster
  <2>2. writing'["main"].packet.type = "Request"
    BY <1>1, <2>1 DEF Thread, RequestMsg
  <2>3. ~Announcing
    BY <2>1 DEF Announcing
  <2> QED  BY <2>1, <2>2, <2>3, WillKept DEF Sound
<1>8. ASSUME NEW v \in BOOLEAN, CloseCommand(v)
      PROVE  WillInv'
  BY <1>8, CloseCommandKeepsWill
<1>9. ASSUME NEW c \in Conn, ClientTask(c)
      PROVE  WillInv'
  BY <1>9, TaskKeepsWill
<1>10. CASE HandleMessage
  BY <1>10, HandleMessageKeepsWill
<1>11. ASSUME Buffer \/ ProxyJoins \/ Resend
       PROVE  UNCHANGED <<plugin, network, task, messages, servers>>
  BY <1>11, BootNext, BootKeepsOrder
<1>12. CASE \/ PingActive \/ Breaks \/ ConnectFails \/ UNCHANGED vars
            \/ Buffer \/ ProxyJoins \/ Resend
  <2>1. /\ \A c \in Conn : up'[c] => up[c]
        /\ UNCHANGED <<conn, connection, acceptingPlayers, writing, task, sent, messages,
                       servers>>
    BY <1>1, <1>11, <1>12
    DEF PingActive, Breaks, ConnectFails, vars, plugin, link, network, cluster
  <2>2. Announcing => Announcing'
    BY <1>1, <2>1 DEF Announcing, Target
  <2> QED  BY <1>1, <2>1, <2>2, WillKept DEF Sound, WillInv
<1> QED
  BY <1>2, <1>3, <1>4, <1>5, <1>6, <1>7, <1>8, <1>9, <1>10, <1>11, <1>12
  DEF Next, ConnectionThread, MainThread, BrainTask, Thread

(* "an active minigame server will receive [`Ping`]s" (transport.rs:115):  *)
(* once both sides are at rest, a server that accepts players is active in *)
(* the cluster, although what it wrote on an earlier connection may be     *)
(* lost or come late, and an update is applied to whichever entry is first *)
(* (minigame_cluster.rs:142).  What keeps this true is that an update      *)
(* which hits the entry of another connection is followed by the end of a  *)
(* connection, which takes the first entry out again, and that the server  *)
(* announces itself anew for each command (WillInv).  The brain must not   *)
(* have put an update of the server aside while it booted: its resend      *)
(* (brain.rs:127) brings an old update behind a new one.                   *)
THEOREM WillingServersAreActive == Spec => []WillingServerActive
<1> DEFINE Inv == TypeInv /\ BootInv /\ RequestInv /\ (~aside => TableInv /\ WillInv)
<1>1. Inv => WillingServerActive
  <2> SUFFICES ASSUME TypeInv, BootInv, TableInv, WillInv, Quiet, acceptingPlayers, ~aside
               PROVE  \E i \in DOMAIN servers : servers[i] = [conn |-> conn, active |-> TRUE]
    BY DEF WillingServerActive
  <2>1. /\ Reading /\ up[conn] /\ task[conn] = "reading"
        /\ Len(servers) = 1 /\ servers[1].conn = conn
    BY RestIsRegistered DEF Registered
  <2>2. conn \in Conn /\ conn # 0 /\ Sound(conn)
    BY <2>1, ConnectionAssumption DEF Reading, TypeInv, TypeOK, ThreadInv, Conn, Sound
  <2>3. /\ writing["main"] = None /\ messages = <<>> /\ sent[conn] = <<>>
        /\ \A c \in Conn : task[c] = "reading" => c = conn
    BY <2>1, <2>2 DEF Quiet, TypeInv, ThreadInv
  <2>4. ~Undone(0)
    BY <2>3 DEF Undone, Replaced, Behind, Announcing
  <2>5. /\ servers \in Seq([conn : Conn, active : BOOLEAN])
        /\ 1 \in DOMAIN servers /\ servers # <<>>
    <3>1. servers \in Seq([conn : Conn, active : BOOLEAN])
      BY DEF TypeInv, TypeOK
    <3>2. Len(<<>>) = 0
      BY EmptySeq
    <3>3. servers # <<>>
      <4>1. Len(servers) # 0
        BY <2>1
      <4> QED  BY <3>2, <4>1, Zenon
    <3>4. 1 \in 1 .. Len(servers)
      BY <2>1
    <3> QED  BY <3>1, <3>3, <3>4, LenProperties
  <2>6. servers[1].active
    BY <2>2, <2>4, <2>5 DEF WillInv, DeactivationsUndone
  <2>7. servers[1] \in [conn : Conn, active : BOOLEAN]
    BY <2>5, ElementOfSeq, LenProperties
  <2> QED  BY <2>1, <2>5, <2>6, <2>7
<1>2. Init => Inv
  BY TypeInit, BootInit, RequestInit, TableInit, WillInit
<1>3. Inv /\ [Next]_vars => Inv'
  BY TypeNext, BootNext, RequestNext, TableNext, WillNext
<1> HIDE DEF Inv
<1> QED  BY <1>1, <1>2, <1>3, PTL DEF Spec
=============================================================================

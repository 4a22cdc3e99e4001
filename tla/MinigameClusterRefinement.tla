---------------------- MODULE MinigameClusterRefinement ----------------------
(***************************************************************************)
(* MinigameCluster implements QueueService, for any number of connections, *)
(* names and requests.  What has to be shown beyond the conservation of    *)
(* requests is that a server whose pong is accepted is still a member:     *)
(* servers are taken out by name, and several connections may share one.   *)
(***************************************************************************)
EXTENDS MinigameClusterProofs, FiniteSetTheorems

(* The cluster has handled the PushServer, the PopServer of a connection.  *)
Pushed(c) == link[c] # "new" /\ ~Contains(reader, PushServer(c))
Popped(c) == link[c] = "gone" /\ ~Contains(reader, PopServer(c))

(* The connections of a name that joined and did not leave; and those that *)
(* are in the vector.  PopServer takes out the first entry of the name,    *)
(* which may belong to another connection: the sets differ, their sizes do *)
(* not.                                                                    *)
Joined(n)   == {c \in Conn : NameOf[c] = n /\ Pushed(c) /\ ~Popped(c)}
InVector(n) == {c \in Conn : NameOf[c] = n /\ \E i \in DOMAIN servers : servers[i].conn = c}

(* A connection is pushed once and popped once, in this order.             *)
PushedThenPopped(c) ==
  /\ Once(reader, PushServer(c)) /\ Once(reader, PopServer(c))
  /\ Precedes(reader, PushServer(c), PopServer(c))
  /\ Contains(reader, PushServer(c)) => link[c] # "new"
  /\ Contains(reader, PopServer(c)) => link[c] = "gone"
  /\ Contains(reader, PushServer(c)) /\ link[c] = "gone" => Contains(reader, PopServer(c))

VectorOK ==
  /\ \A i \in DOMAIN servers : servers[i].name = NameOf[servers[i].conn] /\ Pushed(servers[i].conn)
  /\ \A i, j \in DOMAIN servers : servers[i].conn = servers[j].conn => i = j

SameSize(n) ==
  /\ IsFiniteSet(Joined(n)) /\ IsFiniteSet(InVector(n))
  /\ Cardinality(Joined(n)) = Cardinality(InVector(n))

(* A server that has unread pings has joined; one whose pong is on the     *)
(* channel has, and leaves only behind it.                                 *)
PingedJoined(c) == wire[c] # <<>> => Pushed(c) /\ link[c] \in {"up", "closing"}

PongsFrom(s, J) ==
  \A i \in DOMAIN s :
    s[i].type = "ServerPong" =>
      \E c \in J[s[i].name] : \A j \in 1 .. i - 1 : s[j] # PopServer(c)

Members == [n \in Name |-> Joined(n)]
PongsOfMembers == PongsFrom(reader, Members)

MemberInv ==
  /\ \A c \in Conn : PushedThenPopped(c) /\ PingedJoined(c)
  /\ VectorOK
  /\ \A n \in Name : SameSize(n)
  /\ PongsOfMembers

-----------------------------------------------------------------------------
(* The messages that say who joins and who leaves.                         *)

Membership == {"PushServer", "PopServer"}

SameMembership(c) ==
  /\ Contains(reader', PushServer(c)) <=> Contains(reader, PushServer(c))
  /\ Contains(reader', PopServer(c)) <=> Contains(reader, PopServer(c))
  /\ Once(reader, PushServer(c)) => Once(reader', PushServer(c))
  /\ Once(reader, PopServer(c)) => Once(reader', PopServer(c))
  /\ Precedes(reader, PushServer(c), PopServer(c)) => Precedes(reader', PushServer(c), PopServer(c))

LEMMA MembershipMessages ==
  ASSUME NEW c, NEW d
  PROVE  /\ PushServer(c) # PopServer(d)
         /\ PushServer(c) = PushServer(d) <=> c = d
         /\ PopServer(c) = PopServer(d) <=> c = d
         /\ PushServer(c).type \in Membership /\ PopServer(c).type \in Membership
BY DEF PushServer, PopServer, Membership

(* The order of two messages when the head is handled.                     *)
LEMMA HandledOrder ==
  ASSUME TypeOK, reader # <<>>, Handled, NEW a \in ClusterMsg, NEW b \in ClusterMsg,
         a # b, a.type # "QueueServer", Precedes(reader, a, b)
  PROVE  /\ Precedes(reader', a, b)
         /\ b = Head(reader) => ~Contains(reader, a)
<1> DEFINE s == Tail(reader)
<1>1. s \in Seq(ClusterMsg) /\ Precedes(s, a, b) /\ (b = Head(reader) => ~Contains(reader, a))
  BY TailPrecedes, HeadTailProperties DEF TypeOK
<1>2. CASE reader' = s
  BY <1>1, <1>2
<1>3. ASSUME NEW m \in ClusterMsg, reader' = Append(s, m), m.type = "QueueServer"
      PROVE  Precedes(reader', a, b)
  <2> HIDE DEF s
  <2> QED  BY <1>1, <1>3, AppendPrecedes
<1> QED  BY <1>1, <1>2, <1>3 DEF Handled

-----------------------------------------------------------------------------
(* Messages of other types come and go without a trace.                    *)
LEMMA OthersHandled ==
  ASSUME TypeOK, NEW type, Receive(type), type \notin Membership, Handled, NEW c \in Conn
  PROVE  SameMembership(c)
<1> DEFINE a == PushServer(c)
           b == PopServer(c)
<1>1. /\ a # b /\ a # Head(reader) /\ b # Head(reader) /\ reader # <<>>
      /\ a.type # "QueueServer" /\ b.type # "QueueServer"
  BY DEF PushServer, PopServer, Receive, Membership
<1>2. a \in ClusterMsg /\ b \in ClusterMsg
  BY DEF ClusterMsg
<1> HIDE DEF a, b
<1>3. /\ Contains(reader', a) <=> Contains(reader, a)
      /\ Contains(reader', b) <=> Contains(reader, b)
      /\ Once(reader, a) => Once(reader', a)
      /\ Once(reader, b) => Once(reader', b)
      /\ Precedes(reader, a, b) => Precedes(reader', a, b)
  BY <1>1, <1>2, HandledChannel, HandledOrder
<1> QED  BY <1>3 DEF SameMembership, a, b

LEMMA OthersSent ==
  ASSUME TypeOK, NEW m \in ClusterMsg, m.type \notin Membership, Send(m), NEW c \in Conn
  PROVE  SameMembership(c)
<1>1. PushServer(c) # m /\ PopServer(c) # m /\ PushServer(c) # PopServer(c)
  BY MembershipMessages
<1>2. reader \in Seq(ClusterMsg) /\ reader' = Append(reader, m)
  BY DEF TypeOK, Send
<1> QED
  BY <1>1, <1>2, AppendContains, AppendOnce, AppendPrecedes DEF SameMembership

-----------------------------------------------------------------------------
(* The pongs on a channel stay those of members when its head is taken,    *)
(* even if that takes out the member it names.                             *)
LEMMA PongsTail ==
  ASSUME NEW s \in Seq(ClusterMsg), s # <<>>, NEW J, NEW K, PongsFrom(s, J),
         \A n \in Name : \A c \in J[n] : Head(s) # PopServer(c) => c \in K[n]
  PROVE  PongsFrom(Tail(s), K)
<1> DEFINE t == Tail(s)
<1>1. /\ Len(s) \in Nat /\ DOMAIN s = 1 .. Len(s) /\ Head(s) = s[1]
      /\ DOMAIN t = 1 .. Len(s) - 1
      /\ \A j \in 1 .. Len(s) - 1 : t[j] = s[j + 1]
  BY HeadTailProperties
<1> HIDE DEF t
<1> SUFFICES ASSUME NEW i \in DOMAIN t, t[i].type = "ServerPong"
             PROVE  \E c \in K[t[i].name] : \A j \in 1 .. i - 1 : t[j] # PopServer(c)
  BY DEF PongsFrom, t
<1>2. i \in Nat /\ i + 1 \in DOMAIN s /\ t[i] = s[i + 1] /\ s[i + 1] \in ClusterMsg
  BY <1>1
<1>3. t[i].name \in Name
  BY <1>2, MsgFields
<1>4. PICK c \in J[t[i].name] : \A j \in 1 .. (i + 1) - 1 : s[j] # PopServer(c)
  BY <1>2 DEF PongsFrom
<1>5. 1 \in 1 .. (i + 1) - 1
  BY <1>1, <1>2
<1>6. c \in K[t[i].name]
  BY <1>1, <1>3, <1>4, <1>5
<1>7. ASSUME NEW j \in 1 .. i - 1  PROVE t[j] # PopServer(c)
  <2>1. j + 1 \in 1 .. (i + 1) - 1 /\ t[j] = s[j + 1]
    BY <1>1, <1>2
  <2> QED  BY <1>4, <2>1
<1> QED  BY <1>6, <1>7

(* The same when a message is sent; the pong of a member enters only while *)
(* it has not been told to leave.                                          *)
LEMMA PongsAppend ==
  ASSUME NEW s \in Seq(ClusterMsg), NEW m \in ClusterMsg, NEW J, NEW K, PongsFrom(s, J),
         \A n \in Name : J[n] \subseteq K[n],
         m.type = "ServerPong" => \E c \in K[m.name] : ~Contains(s, PopServer(c))
  PROVE  PongsFrom(Append(s, m), K)
<1> DEFINE t == Append(s, m)
<1>1. /\ Len(s) \in Nat /\ DOMAIN s = 1 .. Len(s)
      /\ DOMAIN t = 1 .. Len(s) + 1
      /\ \A j \in 1 .. Len(s) : t[j] = s[j] /\ s[j] \in ClusterMsg
      /\ t[Len(s) + 1] = m
  BY AppendProperties
<1> HIDE DEF t
<1> SUFFICES ASSUME NEW i \in DOMAIN t, t[i].type = "ServerPong"
             PROVE  \E c \in K[t[i].name] : \A j \in 1 .. i - 1 : t[j] # PopServer(c)
  BY DEF PongsFrom, t
<1>2. CASE i \in 1 .. Len(s)
  <2>1. t[i].name \in Name
    BY <1>1, <1>2, MsgFields
  <2>2. PICK c \in J[t[i].name] : \A j \in 1 .. i - 1 : s[j] # PopServer(c)
    BY <1>1, <1>2 DEF PongsFrom
  <2>3. \A j \in 1 .. i - 1 : t[j] # PopServer(c)
    BY <1>1, <1>2, <2>2
  <2> QED  BY <2>1, <2>2, <2>3
<1>3. CASE i = Len(s) + 1
  <2>1. PICK c \in K[m.name] : ~Contains(s, PopServer(c))
    BY <1>1, <1>3
  <2>2. \A j \in 1 .. i - 1 : t[j] # PopServer(c)
    BY <1>1, <1>3, <2>1 DEF Contains
  <2> QED  BY <1>1, <1>3, <2>1, <2>2
<1> QED  BY <1>1, <1>2, <1>3

-----------------------------------------------------------------------------
(* Steps in which nobody joins or leaves.                                  *)

SameVector ==
  /\ DOMAIN servers' = DOMAIN servers
  /\ \A i \in DOMAIN servers :
       servers'[i].conn = servers[i].conn /\ servers'[i].name = servers[i].name

SameLinks ==
  \A c \in Conn : /\ link'[c] = "new" <=> link[c] = "new"
                  /\ link'[c] = "gone" <=> link[c] = "gone"

(* Nobody joins or leaves.                                                 *)
SameMembers ==
  \A c \in Conn : /\ Pushed(c)' <=> Pushed(c)
                  /\ Popped(c)' <=> Popped(c)
                  /\ PushedThenPopped(c)'

LEMMA VectorTyped ==
  ASSUME TypeOK, NEW i \in DOMAIN servers
  PROVE  servers[i] \in Server /\ servers[i].conn \in Conn
<1>1. servers[i] \in Server
  BY DEF TypeOK
<1> QED  BY <1>1 DEF Server

LEMMA MembersKept ==
  ASSUME MemberInv, \A c \in Conn : SameMembership(c), SameLinks
  PROVE  SameMembers
<1> SUFFICES ASSUME NEW c \in Conn
             PROVE  /\ Pushed(c)' <=> Pushed(c)
                    /\ Popped(c)' <=> Popped(c)
                    /\ PushedThenPopped(c)'
  BY DEF SameMembers
<1>1. /\ Contains(reader, PushServer(c))' <=> Contains(reader', PushServer(c))
      /\ Contains(reader, PopServer(c))' <=> Contains(reader', PopServer(c))
      /\ Once(reader, PushServer(c))' <=> Once(reader', PushServer(c))
      /\ Once(reader, PopServer(c))' <=> Once(reader', PopServer(c))
      /\ Precedes(reader, PushServer(c), PopServer(c))'
           <=> Precedes(reader', PushServer(c), PopServer(c))
  BY DEF PushServer, PopServer
<1>2. PushedThenPopped(c)
  BY DEF MemberInv
<1> QED  BY <1>1, <1>2 DEF Pushed, Popped, PushedThenPopped, SameMembership, SameLinks

LEMMA NobodyMoves ==
  ASSUME TypeOK, MemberInv, SameMembers, SameVector, PongsFrom(reader', Members),
         \A c \in Conn : wire'[c] # <<>> =>
            /\ wire[c] # <<>> \/ \E i \in DOMAIN servers : servers[i].conn = c
            /\ link'[c] \in {"up", "closing"}
  PROVE  MemberInv'
<1>1. ASSUME NEW i \in DOMAIN servers  PROVE servers[i].conn \in Conn
  BY VectorTyped
<1>2. /\ \A c \in Conn : Pushed(c)' <=> Pushed(c)
      /\ \A c \in Conn : PushedThenPopped(c)'
      /\ \A n \in Name : Joined(n)' = Joined(n)
  BY DEF SameMembers, Joined
<1>3. \A c \in Conn : PingedJoined(c)'
  BY <1>2 DEF MemberInv, PingedJoined, VectorOK
<1>4. VectorOK'
  BY <1>1, <1>2 DEF MemberInv, VectorOK, SameVector
<1>5. \A n \in Name : InVector(n)' = InVector(n)
  BY DEF InVector, SameVector
<1>6. \A n \in Name : SameSize(n)'
  BY <1>2, <1>5 DEF MemberInv, SameSize
<1>7. PongsOfMembers'
  <2>1. PongsFrom(reader, Members)' <=> PongsFrom(reader', Members')
    BY DEF PongsFrom, PopServer
  <2>2. Members' = Members
    BY <1>2 DEF Members
  <2> QED  BY <2>1, <2>2 DEF PongsOfMembers
<1> QED  BY <1>2, <1>3, <1>4, <1>6, <1>7 DEF MemberInv

LEMMA HandledPongs ==
  ASSUME TypeOK, reader # <<>>, Handled, NEW J, NEW K, PongsFrom(reader, J),
         \A n \in Name : \A c \in J[n] : Head(reader) # PopServer(c) => c \in K[n]
  PROVE  PongsFrom(reader', K)
<1>1. Tail(reader) \in Seq(ClusterMsg) /\ PongsFrom(Tail(reader), K)
  BY PongsTail, HeadTailProperties DEF TypeOK
<1>2. ASSUME NEW m \in ClusterMsg, reader' = Append(Tail(reader), m), m.type = "QueueServer"
      PROVE  PongsFrom(reader', K)
  BY <1>1, <1>2, PongsAppend
<1> QED  BY <1>1, <1>2 DEF Handled

-----------------------------------------------------------------------------
(* A server joins: it was nowhere before, and is in the vector now.        *)
LEMMA PushJoins ==
  ASSUME TypeOK, MemberInv, HandlePushServer
  PROVE  MemberInv'
<1> DEFINE c0 == msg.conn
<1>1. /\ c0 \in Conn /\ Head(reader) = PushServer(c0) /\ reader # <<>>
      /\ servers' = Append(servers, NewServer(c0)) /\ UNCHANGED <<link, wire>>
  BY Received, MsgFields DEF HandlePushServer, msg, env
<1>2. Handled
  BY Received, GoIdleSends DEF HandlePushServer, Handled
<1>3. NewServer(c0) \in Server /\ NewServer(c0).conn = c0 /\ NewServer(c0).name = NameOf[c0]
  BY <1>1, ConfigAssumption DEF NewServer, Server
<1> HIDE DEF c0
<1>4. ASSUME NEW c \in Conn
      PROVE  /\ Pushed(c)' <=> Pushed(c) \/ c = c0
             /\ Popped(c)' <=> Popped(c)
             /\ PushedThenPopped(c)'
             /\ c = c0 => ~Pushed(c) /\ ~Popped(c)
  <2>1. PushedThenPopped(c) /\ PushedThenPopped(c0)
    BY <1>1 DEF MemberInv
  <2>2. PushServer(c) \in ClusterMsg /\ PopServer(c) \in ClusterMsg
    BY DEF ClusterMsg
  <2>3. /\ PushServer(c).type # "QueueServer" /\ PopServer(c).type # "QueueServer"
        /\ PushServer(c) # PopServer(c) /\ PopServer(c) # PushServer(c0)
        /\ PushServer(c) = PushServer(c0) <=> c = c0
    BY DEF PushServer, PopServer
  <2>4. /\ Contains(reader, PushServer(c)) <=> Contains(reader', PushServer(c)) \/ c = c0
        /\ Contains(reader', PopServer(c)) <=> Contains(reader, PopServer(c))
        /\ Once(reader', PushServer(c)) /\ Once(reader', PopServer(c))
        /\ c = c0 => ~Contains(reader', PushServer(c))
        /\ Precedes(reader', PushServer(c), PopServer(c))
    BY <1>1, <1>2, <2>1, <2>2, <2>3, HandledChannel, HandledOrder DEF PushedThenPopped
  <2>5. /\ Contains(reader, PushServer(c))' <=> Contains(reader', PushServer(c))
        /\ Contains(reader, PopServer(c))' <=> Contains(reader', PopServer(c))
        /\ Once(reader, PushServer(c))' <=> Once(reader', PushServer(c))
        /\ Once(reader, PopServer(c))' <=> Once(reader', PopServer(c))
        /\ Precedes(reader, PushServer(c), PopServer(c))'
             <=> Precedes(reader', PushServer(c), PopServer(c))
    BY DEF PushServer, PopServer
  <2> QED  BY <1>1, <2>1, <2>4, <2>5 DEF PushedThenPopped, Pushed, Popped
<1>5. \A n \in Name : Joined(n)' = IF n = NameOf[c0] THEN Joined(n) \cup {c0} ELSE Joined(n)
  BY <1>1, <1>4 DEF Joined
<1>6. \A n \in Name : c0 \notin Joined(n)
  BY <1>1, <1>4 DEF Joined
<1>7. /\ DOMAIN servers = 1 .. Len(servers) /\ Len(servers) \in Nat
      /\ DOMAIN servers' = 1 .. Len(servers) + 1
      /\ \A i \in 1 .. Len(servers) : servers'[i] = servers[i]
      /\ servers'[Len(servers) + 1] = NewServer(c0)
  BY <1>1, <1>3, AppendProperties DEF TypeOK
<1>8. \A i \in DOMAIN servers : servers[i].conn # c0 /\ servers[i].conn \in Conn
  BY <1>4, VectorTyped DEF MemberInv, VectorOK
<1>9. VectorOK'
  BY <1>1, <1>3, <1>4, <1>7, <1>8 DEF MemberInv, VectorOK
<1>10. \A n \in Name : /\ c0 \notin InVector(n)
                       /\ InVector(n)' = IF n = NameOf[c0] THEN InVector(n) \cup {c0}
                                                          ELSE InVector(n)
  BY <1>1, <1>3, <1>7, <1>8 DEF InVector
<1>11. \A n \in Name : SameSize(n)'
  BY <1>5, <1>6, <1>10, FS_AddElement DEF MemberInv, SameSize
<1>12. \A c \in Conn : PingedJoined(c)'
  BY <1>1, <1>4 DEF MemberInv, PingedJoined
<1>13. PongsOfMembers'
  <2>1. \A n \in Name : \A c \in Members[n] : c \in Members'[n]
    BY <1>5 DEF Members
  <2>2. PongsFrom(reader', Members')
    BY <1>1, <1>2, <2>1, HandledPongs DEF MemberInv, PongsOfMembers
  <2>3. PongsFrom(reader, Members)' <=> PongsFrom(reader', Members')
    BY DEF PongsFrom, PopServer
  <2> QED  BY <2>2, <2>3 DEF PongsOfMembers
<1> QED  BY <1>4, <1>9, <1>11, <1>12, <1>13 DEF MemberInv

(* A connection leaves: one entry of its name is taken out, which is there *)
(* because as many entries have the name as connections joined with it.    *)
LEMMA PopLeaves ==
  ASSUME TypeOK, MemberInv, HandlePopServer
  PROVE  /\ MemberInv'
         /\ Named(NameOf[msg.conn]) # {}
<1> DEFINE c0 == msg.conn
           n0 == NameOf[c0]
           i0 == Position(n0)
           x == servers[i0].conn
<1>1. /\ c0 \in Conn /\ Head(reader) = PopServer(c0) /\ reader # <<>> /\ n0 \in Name
      /\ reader' = Tail(reader) /\ wire' = wire
  BY Received, MsgFields, ConfigAssumption DEF HandlePopServer, msg
<1>2. Handled
  BY <1>1 DEF Handled
<1>3. ASSUME NEW c \in Conn
      PROVE  /\ PushServer(c) \in ClusterMsg /\ PopServer(c) \in ClusterMsg
             /\ PushServer(c).type # "QueueServer" /\ PopServer(c).type # "QueueServer"
             /\ PushServer(c) # PopServer(c) /\ PushServer(c) # PopServer(c0)
             /\ PopServer(c) = PopServer(c0) <=> c = c0
  BY DEF ClusterMsg, PushServer, PopServer
<1>4. c0 \in Joined(n0)
  <2>1. PushedThenPopped(c0)
    BY <1>1 DEF MemberInv
  <2>2. Contains(reader, PopServer(c0)) /\ ~Contains(reader, PushServer(c0))
    BY <1>1, <1>2, <1>3, <2>1, HandledChannel, HandledOrder DEF PushedThenPopped
  <2> QED  BY <1>1, <2>1, <2>2 DEF Joined, PushedThenPopped, Pushed, Popped
<1>5. InVector(n0) # {}
  BY <1>1, <1>4, FS_EmptySet DEF MemberInv, SameSize
<1>6. Named(n0) # {}
  BY <1>5 DEF InVector, Named, MemberInv, VectorOK
<1>7. i0 \in DOMAIN servers /\ servers[i0].name = n0
  BY <1>6, PositionIn DEF TypeOK
<1>8. /\ servers' = RemoveAt(servers, i0)
      /\ link' = [link EXCEPT ![x] = IF @ = "up" THEN "closing" ELSE @]
  BY <1>6 DEF HandlePopServer
<1> HIDE DEF i0
<1>9. x \in Conn /\ NameOf[x] = n0
  BY <1>7, VectorTyped DEF MemberInv, VectorOK
<1> HIDE DEF c0, n0
<1>10. /\ SameLinks
       /\ \A c \in Conn : link[c] \in {"up", "closing"} => link'[c] \in {"up", "closing"}
  BY <1>8, <1>9 DEF SameLinks, TypeOK
<1>11. ASSUME NEW c \in Conn
       PROVE  /\ Pushed(c)' <=> Pushed(c)
              /\ Popped(c)' <=> Popped(c) \/ c = c0
              /\ PushedThenPopped(c)'
  <2>1. PushedThenPopped(c) /\ PushedThenPopped(c0)
    BY <1>1 DEF MemberInv
  <2>2. /\ Contains(reader', PushServer(c)) <=> Contains(reader, PushServer(c))
        /\ Contains(reader, PopServer(c)) <=> Contains(reader', PopServer(c)) \/ c = c0
        /\ Once(reader', PushServer(c)) /\ Once(reader', PopServer(c))
        /\ c = c0 => ~Contains(reader', PopServer(c)) /\ ~Contains(reader, PushServer(c))
        /\ Precedes(reader', PushServer(c), PopServer(c))
    BY <1>1, <1>2, <1>3, <2>1, HandledChannel, HandledOrder DEF PushedThenPopped
  <2>3. /\ Contains(reader, PushServer(c))' <=> Contains(reader', PushServer(c))
        /\ Contains(reader, PopServer(c))' <=> Contains(reader', PopServer(c))
        /\ Once(reader, PushServer(c))' <=> Once(reader', PushServer(c))
        /\ Once(reader, PopServer(c))' <=> Once(reader', PopServer(c))
        /\ Precedes(reader, PushServer(c), PopServer(c))'
             <=> Precedes(reader', PushServer(c), PopServer(c))
    BY DEF PushServer, PopServer
  <2> QED  BY <1>10, <2>1, <2>2, <2>3 DEF PushedThenPopped, Pushed, Popped, SameLinks
<1>12. \A n \in Name : Joined(n)' = IF n = n0 THEN Joined(n) \ {c0} ELSE Joined(n)
  BY <1>1, <1>4, <1>11 DEF Joined
<1>13. /\ Len(servers) \in Nat /\ DOMAIN servers = 1 .. Len(servers) /\ i0 \in Nat
       /\ DOMAIN servers' = 1 .. Len(servers) - 1
       /\ \A j \in 1 .. i0 - 1 : servers'[j] = servers[j]
       /\ \A j \in i0 .. Len(servers) - 1 : servers'[j] = servers[j + 1]
  BY <1>7, <1>8, RemoveAtElements DEF TypeOK
<1>14. \A j \in DOMAIN servers' : \E i \in DOMAIN servers :
         servers'[j] = servers[i] /\ i # i0 /\ i = IF j < i0 THEN j ELSE j + 1
  BY <1>7, <1>13
<1>15. \A i \in DOMAIN servers : i # i0 => \E j \in DOMAIN servers' : servers'[j] = servers[i]
  <2> SUFFICES ASSUME NEW i \in DOMAIN servers, i # i0
               PROVE  \E j \in DOMAIN servers' : servers'[j] = servers[i]
    OBVIOUS
  <2>1. CASE i < i0
    BY <1>7, <1>13, <2>1
  <2>2. CASE i > i0
    <3>1. i - 1 \in i0 .. Len(servers) - 1 /\ (i - 1) + 1 = i
      BY <1>7, <1>13, <2>2
    <3>2. i - 1 \in DOMAIN servers'
      BY <1>7, <1>13, <3>1
    <3> QED  BY <1>13, <3>1, <3>2
  <2> QED  BY <1>7, <1>13, <2>1, <2>2
<1>16. \A i \in DOMAIN servers : servers[i].conn \in Conn
  BY VectorTyped
<1>17. VectorOK'
  <2>1. \A j \in DOMAIN servers' :
          /\ servers'[j].name = NameOf[servers'[j].conn]
          /\ servers'[j].conn \in Conn /\ Pushed(servers'[j].conn)
    BY <1>11, <1>14, <1>16 DEF MemberInv, VectorOK
  <2>2. ASSUME NEW j \in DOMAIN servers', NEW k \in DOMAIN servers',
               servers'[j].conn = servers'[k].conn
        PROVE  j = k
    <3>1. PICK i \in DOMAIN servers : servers'[j] = servers[i] /\ i = IF j < i0 THEN j ELSE j + 1
      BY <1>14
    <3>2. PICK l \in DOMAIN servers : servers'[k] = servers[l] /\ l = IF k < i0 THEN k ELSE k + 1
      BY <1>14
    <3>3. i = l
      BY <2>2, <3>1, <3>2 DEF MemberInv, VectorOK
    <3> QED  BY <1>7, <1>13, <3>1, <3>2, <3>3
  <2> QED  BY <1>11, <2>1, <2>2 DEF VectorOK
<1>18. \A n \in Name : InVector(n)' = IF n = n0 THEN InVector(n) \ {x} ELSE InVector(n)
  <2>1. ASSUME NEW c \in Conn
        PROVE  (\E j \in DOMAIN servers' : servers'[j].conn = c)
                 <=> (\E i \in DOMAIN servers : servers[i].conn = c) /\ c # x
    BY <1>7, <1>14, <1>15, <1>16 DEF MemberInv, VectorOK
  <2> HIDE DEF x
  <2> QED  BY <1>9, <2>1 DEF InVector
<1>19. x \in InVector(n0)
  BY <1>7, <1>9 DEF InVector
<1>20. \A n \in Name : SameSize(n)'
  <2> HIDE DEF x
  <2> QED  BY <1>1, <1>4, <1>12, <1>18, <1>19, FS_RemoveElement DEF MemberInv, SameSize
<1>21. \A c \in Conn : PingedJoined(c)'
  BY <1>1, <1>10, <1>11 DEF MemberInv, PingedJoined
<1>22. PongsOfMembers'
  <2>1. \A n \in Name : \A c \in Members[n] : Head(reader) # PopServer(c) => c \in Members'[n]
    BY <1>1, <1>12 DEF Members
  <2>2. PongsFrom(reader', Members')
    BY <1>1, <1>2, <2>1, HandledPongs DEF MemberInv, PongsOfMembers
  <2>3. PongsFrom(reader, Members)' <=> PongsFrom(reader', Members')
    BY DEF PongsFrom, PopServer
  <2> QED  BY <2>2, <2>3 DEF PongsOfMembers
<1> QED  BY <1>6, <1>11, <1>17, <1>20, <1>21, <1>22 DEF MemberInv, c0, n0

-----------------------------------------------------------------------------
(* A connection comes up: its PushServer is sent for the first time.       *)
LEMMA ConnectKeeps ==
  ASSUME TypeOK, MemberInv, NEW c0 \in Conn, Connect(c0)
  PROVE  MemberInv'
<1> DEFINE m == PushServer(c0)
<1>1. /\ link[c0] = "new" /\ link' = [link EXCEPT ![c0] = "up"] /\ reader' = Append(reader, m)
      /\ wire' = wire /\ servers' = servers
  BY DEF Connect, Send, task
<1>2. m \in ClusterMsg /\ m.type = "PushServer" /\ reader \in Seq(ClusterMsg)
  BY DEF TypeOK, ClusterMsg, PushServer
<1>3. ASSUME NEW c \in Conn
      PROVE  PushServer(c) # PopServer(c) /\ PopServer(c) # m /\ (PushServer(c) = m <=> c = c0)
  BY MembershipMessages
<1> HIDE DEF m
<1>4. SameMembers
  <2> SUFFICES ASSUME NEW c \in Conn
               PROVE  /\ Pushed(c)' <=> Pushed(c)
                      /\ Popped(c)' <=> Popped(c)
                      /\ PushedThenPopped(c)'
    BY DEF SameMembers
  <2>1. PushedThenPopped(c)
    BY DEF MemberInv
  <2>2. c = c0 => ~Contains(reader, PushServer(c)) /\ ~Contains(reader, PopServer(c))
    BY <1>1, <2>1 DEF PushedThenPopped
  <2>3. /\ Contains(reader', PushServer(c)) <=> Contains(reader, PushServer(c)) \/ c = c0
        /\ Contains(reader', PopServer(c)) <=> Contains(reader, PopServer(c))
        /\ Once(reader', PushServer(c)) /\ Once(reader', PopServer(c))
        /\ Precedes(reader', PushServer(c), PopServer(c))
    BY <1>1, <1>2, <1>3, <2>1, <2>2, AppendContains, AppendOnce, AppendPrecedes
       DEF PushedThenPopped
  <2>4. /\ Contains(reader, PushServer(c))' <=> Contains(reader', PushServer(c))
        /\ Contains(reader, PopServer(c))' <=> Contains(reader', PopServer(c))
        /\ Once(reader, PushServer(c))' <=> Once(reader', PushServer(c))
        /\ Once(reader, PopServer(c))' <=> Once(reader', PopServer(c))
        /\ Precedes(reader, PushServer(c), PopServer(c))'
             <=> Precedes(reader', PushServer(c), PopServer(c))
    BY DEF PushServer, PopServer
  <2>5. link'[c] = IF c = c0 THEN "up" ELSE link[c]
    BY <1>1 DEF TypeOK
  <2> QED  BY <1>1, <2>1, <2>2, <2>3, <2>4, <2>5 DEF PushedThenPopped, Pushed, Popped
<1>5. PongsFrom(reader', Members)
  <2>1. PongsFrom(reader, Members)
    BY DEF MemberInv, PongsOfMembers
  <2> QED  BY <1>1, <1>2, <2>1, PongsAppend
<1>6. \A c \in Conn : wire'[c] # <<>> => wire[c] # <<>> /\ link'[c] \in {"up", "closing"}
  BY <1>1 DEF TypeOK, MemberInv, PingedJoined, Pushed
<1>7. SameVector
  BY <1>1 DEF SameVector
<1> QED  BY <1>4, <1>5, <1>6, <1>7, NobodyMoves

(* The controller notices a lost connection: its PopServer is sent.        *)
LEMMA UnlinkKeeps ==
  ASSUME TypeOK, MemberInv, NEW c0 \in Conn, Unlink(c0)
  PROVE  MemberInv'
<1> DEFINE m == PopServer(c0)
<1>1. /\ link[c0] = "down" /\ link' = [link EXCEPT ![c0] = "gone"] /\ reader' = Append(reader, m)
      /\ wire' = wire /\ servers' = servers
  BY DEF Unlink, Send, task
<1>2. m \in ClusterMsg /\ m.type = "PopServer" /\ reader \in Seq(ClusterMsg)
  BY DEF TypeOK, ClusterMsg, PopServer
<1>3. ASSUME NEW c \in Conn
      PROVE  PushServer(c) # PopServer(c) /\ PushServer(c) # m /\ (PopServer(c) = m <=> c = c0)
  BY MembershipMessages
<1> HIDE DEF m
<1>4. SameMembers
  <2> SUFFICES ASSUME NEW c \in Conn
               PROVE  /\ Pushed(c)' <=> Pushed(c)
                      /\ Popped(c)' <=> Popped(c)
                      /\ PushedThenPopped(c)'
    BY DEF SameMembers
  <2>1. PushedThenPopped(c)
    BY DEF MemberInv
  <2>2. c = c0 => ~Contains(reader, PopServer(c))
    BY <1>1, <2>1 DEF PushedThenPopped
  <2>3. /\ Contains(reader', PushServer(c)) <=> Contains(reader, PushServer(c))
        /\ Contains(reader', PopServer(c)) <=> Contains(reader, PopServer(c)) \/ c = c0
        /\ Once(reader', PushServer(c)) /\ Once(reader', PopServer(c))
        /\ Precedes(reader', PushServer(c), PopServer(c))
    BY <1>1, <1>2, <1>3, <2>1, <2>2, AppendContains, AppendOnce, AppendPrecedes
       DEF PushedThenPopped
  <2>4. /\ Contains(reader, PushServer(c))' <=> Contains(reader', PushServer(c))
        /\ Contains(reader, PopServer(c))' <=> Contains(reader', PopServer(c))
        /\ Once(reader, PushServer(c))' <=> Once(reader', PushServer(c))
        /\ Once(reader, PopServer(c))' <=> Once(reader', PopServer(c))
        /\ Precedes(reader, PushServer(c), PopServer(c))'
             <=> Precedes(reader', PushServer(c), PopServer(c))
    BY DEF PushServer, PopServer
  <2>5. link'[c] = IF c = c0 THEN "gone" ELSE link[c]
    BY <1>1 DEF TypeOK
  <2> QED  BY <1>1, <2>1, <2>2, <2>3, <2>4, <2>5 DEF PushedThenPopped, Pushed, Popped
<1>5. PongsFrom(reader', Members)
  <2>1. PongsFrom(reader, Members)
    BY DEF MemberInv, PongsOfMembers
  <2> QED  BY <1>1, <1>2, <2>1, PongsAppend
<1>6. \A c \in Conn : wire'[c] # <<>> => wire[c] # <<>> /\ link'[c] \in {"up", "closing"}
  BY <1>1 DEF TypeOK, MemberInv, PingedJoined
<1>7. SameVector
  BY <1>1 DEF SameVector
<1> QED  BY <1>4, <1>5, <1>6, <1>7, NobodyMoves

(* Other messages the environment sends: a pong comes from a connection    *)
(* whose PopServer is still to come.                                       *)
LEMMA OthersKeep ==
  ASSUME TypeOK, MemberInv, NEW m \in ClusterMsg, m.type \notin Membership, Send(m),
         UNCHANGED <<servers, link>>,
         \A c \in Conn : wire'[c] # <<>> => wire[c] # <<>>,
         m.type = "ServerPong" =>
            \E c \in Conn : m.name = NameOf[c] /\ wire[c] # <<>>
  PROVE  MemberInv'
<1>1. SameMembers
  BY OthersSent, MembersKept DEF SameLinks
<1>2. PongsFrom(reader', Members)
  <2>1. PongsFrom(reader, Members)
    BY DEF MemberInv, PongsOfMembers
  <2>2. ASSUME NEW c \in Conn, m.name = NameOf[c], wire[c] # <<>>
        PROVE  c \in Members[m.name] /\ ~Contains(reader, PopServer(c))
    <3>1. PingedJoined(c) /\ PushedThenPopped(c) /\ NameOf[c] \in Name
      BY ConfigAssumption DEF MemberInv
    <3> QED  BY <2>2, <3>1 DEF PingedJoined, PushedThenPopped, Members, Joined, Popped
  <2>3. reader' = Append(reader, m) /\ reader \in Seq(ClusterMsg)
    BY DEF Send, TypeOK
  <2> QED  BY <2>1, <2>2, <2>3, PongsAppend
<1>3. SameVector
  BY DEF SameVector
<1>4. \A c \in Conn : wire'[c] # <<>> => wire[c] # <<>> /\ link'[c] \in {"up", "closing"}
  BY DEF MemberInv, PingedJoined
<1> QED  BY <1>1, <1>2, <1>3, <1>4, NobodyMoves

(* A step that sends nothing, and takes no server in or out.               *)
LEMMA SilentKeeps ==
  ASSUME TypeOK, MemberInv, reader' = reader, SameVector, SameLinks,
         \A c \in Conn : wire'[c] # <<>> =>
            /\ wire[c] # <<>> \/ \E i \in DOMAIN servers : servers[i].conn = c
            /\ link'[c] \in {"up", "closing"}
  PROVE  MemberInv'
<1>1. SameMembers
  BY MembersKept DEF SameMembership
<1>2. PongsFrom(reader', Members)
  BY DEF MemberInv, PongsOfMembers
<1> QED  BY <1>1, <1>2, NobodyMoves

(* Handling a message that is not about membership.                        *)
LEMMA HandledKeeps ==
  ASSUME TypeOK, MemberInv, NEW type, Receive(type), type \notin Membership, Handled,
         SameVector, UNCHANGED <<link, wire>>
  PROVE  MemberInv'
<1>1. SameMembers
  BY OthersHandled, MembersKept DEF SameLinks
<1>2. PongsFrom(reader', Members)
  <2>1. PongsFrom(reader, Members) /\ reader # <<>>
    BY DEF MemberInv, PongsOfMembers, Receive
  <2> QED  BY <2>1, HandledPongs
<1>3. \A c \in Conn : wire'[c] # <<>> => wire[c] # <<>> /\ link'[c] \in {"up", "closing"}
  BY DEF MemberInv, PingedJoined
<1> QED  BY <1>1, <1>2, <1>3, NobodyMoves

-----------------------------------------------------------------------------
LEMMA InitMemberInv == Init => MemberInv
<1> SUFFICES ASSUME Init PROVE MemberInv
  OBVIOUS
<1>1. DOMAIN reader = {} /\ DOMAIN servers = {}
  BY DEF Init
<1>2. \A c \in Conn : PushedThenPopped(c) /\ PingedJoined(c) /\ ~Pushed(c)
  BY <1>1 DEF Init, PushedThenPopped, PingedJoined, Pushed, Once, Precedes, Contains
<1>3. VectorOK /\ PongsOfMembers
  BY <1>1 DEF VectorOK, PongsOfMembers, PongsFrom
<1>4. \A n \in Name : Joined(n) = {} /\ InVector(n) = {}
  BY <1>1, <1>2 DEF Joined, InVector
<1>5. \A n \in Name : SameSize(n)
  BY <1>4, FS_EmptySet DEF SameSize
<1> QED  BY <1>2, <1>3, <1>5 DEF MemberInv

LEMMA NextMemberInv == TypeOK /\ MemberInv /\ [Next]_vars => MemberInv'
<1> SUFFICES ASSUME TypeOK, MemberInv, [Next]_vars PROVE MemberInv'
  OBVIOUS
<1>1. CASE HandlePushServer
  BY <1>1, PushJoins
<1>2. CASE HandlePopServer
  BY <1>2, PopLeaves
<1>3. CASE HandleUpdateActive
  <2>1. Receive("UpdateActive") /\ Handled /\ UNCHANGED <<link, wire>>
    BY <1>3 DEF HandleUpdateActive, Handled, env
  <2>2. SameVector
    <3>1. CASE Named(msg.name) = {}
      BY <1>3, <3>1 DEF HandleUpdateActive, SameVector
    <3>2. CASE Named(msg.name) # {}
      <4>1. \A i \in DOMAIN servers : servers[i] \in Server
        BY VectorTyped
      <4> DEFINE p == Position(msg.name)
      <4>2. p \in DOMAIN servers
        BY <3>2, PositionIn DEF TypeOK
      <4>3. servers' = [servers EXCEPT ![p] = [@ EXCEPT !.active = msg.active]]
        BY <1>3, <3>2 DEF HandleUpdateActive
      <4> HIDE DEF p
      <4> QED  BY <4>1, <4>2, <4>3 DEF SameVector, Server, TypeOK
    <3> QED  BY <3>1, <3>2
  <2> QED  BY <2>1, <2>2, HandledKeeps DEF Membership
<1>4. CASE HandleQueueServer
  BY <1>4, HandledKeeps DEF HandleQueueServer, Handled, SameVector, Membership, env
<1>5. CASE HandleServerPong
  <2>1. Handled
    BY <1>5, Received, GoIdleSends DEF HandleServerPong, Handled
  <2> QED  BY <1>5, <2>1, HandledKeeps DEF HandleServerPong, SameVector, Membership, env
<1>6. CASE HandleTimerCompleted
  BY <1>6, HandledKeeps DEF HandleTimerCompleted, Handled, SameVector, Membership, env
<1>7. CASE Ping
  <2> DEFINE c0 == servers[next_ping].conn
  <2>1. /\ next_ping \in DOMAIN servers /\ UNCHANGED <<servers, reader, link>>
        /\ \/ wire' = wire
           \/ link[c0] = "up" /\ wire' = [wire EXCEPT ![c0] = Append(@, timer_now)]
    BY <1>7 DEF Ping, env
  <2>2. SameVector /\ SameLinks
    BY <2>1 DEF SameVector, SameLinks
  <2>3. ASSUME NEW c \in Conn, wire'[c] # <<>>
        PROVE  /\ wire[c] # <<>> \/ \E i \in DOMAIN servers : servers[i].conn = c
               /\ link'[c] \in {"up", "closing"}
    BY <2>1, <2>3 DEF TypeOK, MemberInv, PingedJoined
  <2> QED  BY <2>1, <2>2, <2>3, SilentKeeps
<1>8. CASE StartTimer \/ UNCHANGED vars
  <2>1. UNCHANGED <<servers, reader, link, wire>>
    BY <1>8 DEF StartTimer, vars, env
  <2>2. SameVector /\ SameLinks
    BY <2>1 DEF SameVector, SameLinks
  <2> QED  BY <2>1, <2>2, SilentKeeps DEF MemberInv, PingedJoined
<1>9. CASE TimerFires
  <2>1. PICK t \in timers : Send(TimerCompleted(t.timer))
    BY <1>9 DEF TimerFires
  <2>2. TimerCompleted(t.timer) \in ClusterMsg /\ TimerCompleted(t.timer).type = "TimerCompleted"
    BY DEF TypeOK, ClusterMsg, TimerCompleted
  <2>3. UNCHANGED <<servers, link, wire>>
    BY <1>9 DEF TimerFires, task, env
  <2> QED  BY <2>1, <2>2, <2>3, OthersKeep DEF Membership
<1>10. ASSUME NEW r \in Request, Dispatch(r)  PROVE MemberInv'
  <2>1. QueueServer(r) \in ClusterMsg /\ QueueServer(r).type = "QueueServer"
    BY DEF ClusterMsg, QueueServer
  <2>2. Send(QueueServer(r)) /\ UNCHANGED <<servers, link, wire>>
    BY <1>10 DEF Dispatch, task
  <2> QED  BY <2>1, <2>2, OthersKeep DEF Membership
<1>11. ASSUME NEW c \in Conn, NEW b \in BOOLEAN, SetActive(c, b)  PROVE MemberInv'
  <2>1. UpdateActive(NameOf[c], b).type = "UpdateActive"
    BY DEF UpdateActive
  <2>2. UpdateActive(NameOf[c], b) \in ClusterMsg
    BY ConfigAssumption DEF ClusterMsg
  <2>3. Send(UpdateActive(NameOf[c], b)) /\ UNCHANGED <<servers, link, wire>>
    BY <1>11 DEF SetActive, task
  <2> QED  BY <2>1, <2>2, <2>3, OthersKeep DEF Membership
<1>12. ASSUME NEW c \in Conn, Connect(c) \/ Unlink(c)  PROVE MemberInv'
  BY <1>12, ConnectKeeps, UnlinkKeeps
<1>13. ASSUME NEW c \in Conn, ReadPing(c)  PROVE MemberInv'
  <2> DEFINE m == ServerPong(Head(wire[c]), NameOf[c])
  <2>1. m \in ClusterMsg /\ m.type = "ServerPong" /\ m.name = NameOf[c]
    <3>1. Head(wire[c]) \in Timer
      BY <1>13, HeadTailProperties DEF ReadPing, TypeOK
    <3> QED  BY <3>1, ConfigAssumption DEF ClusterMsg, ServerPong
  <2>2. /\ wire[c] # <<>> /\ UNCHANGED <<servers, link>>
        /\ \A d \in Conn : wire'[d] # <<>> => wire[d] # <<>>
        /\ Send(m) \/ reader' = reader
    BY <1>13 DEF ReadPing, TypeOK, task, env
  <2> HIDE DEF m
  <2>3. CASE Send(m)
    BY <2>1, <2>2, <2>3, OthersKeep DEF Membership
  <2>4. CASE reader' = reader
    <3>1. SameVector /\ SameLinks
      BY <2>2 DEF SameVector, SameLinks
    <3> QED  BY <2>2, <2>4, <3>1, SilentKeeps DEF MemberInv, PingedJoined
  <2> QED  BY <2>2, <2>3, <2>4
<1>14. ASSUME NEW c \in Conn, Lose(c)  PROVE MemberInv'
  <2>1. /\ link[c] \in {"up", "closing"} /\ link' = [link EXCEPT ![c] = "down"]
        /\ wire' = [wire EXCEPT ![c] = <<>>] /\ UNCHANGED <<servers, reader>>
    BY <1>14 DEF Lose, task
  <2>2. SameVector /\ SameLinks
    BY <2>1 DEF SameVector, SameLinks, TypeOK
  <2> QED  BY <2>1, <2>2, SilentKeeps DEF MemberInv, PingedJoined, TypeOK
<1> QED
  BY <1>1, <1>2, <1>3, <1>4, <1>5, <1>6, <1>7, <1>8, <1>9, <1>10, <1>11, <1>12, <1>13, <1>14
     DEF Next, ClusterStep

-----------------------------------------------------------------------------
(* The refinement.                                                         *)

pending == {r \in Request : InHand(r)}
members == {servers[i].name : i \in DOMAIN servers}

(* What is pending is what was issued and not answered.                    *)
LEMMA PendingIsUnanswered ==
  RequestInv => pending = {r \in Request : r \in issued /\ answer[r] = None}
<1> SUFFICES ASSUME RequestInv, NEW r \in Request
             PROVE  InHand(r) <=> r \in issued /\ answer[r] = None
  BY DEF pending
<1>1. OnePlace(r)
  BY DEF RequestInv
<1>2. DOMAIN reader = 1 .. Len(reader) /\ DOMAIN queue_reqs = 1 .. Len(queue_reqs)
  BY DEF RequestInv, TypeInv, TypeOK
<1>3. InHand(r) <=> AtReader(r) \/ Buffered(r) \/ InWork(r)
  BY <1>2 DEF InHand, AtReader, Buffered, InWork, Contains
<1> QED  BY <1>1, <1>3 DEF OnePlace, Answered

LEMMA PendingIsUnansweredNext ==
  (RequestInv => pending = {r \in Request : r \in issued /\ answer[r] = None})'
BY PendingIsUnanswered, PTL

(* The pong that is handled comes from a server that is registered.        *)
LEMMA PongFromMember ==
  ASSUME TypeOK, MemberInv, Receive("ServerPong")
  PROVE  msg.name \in members
<1>1. /\ 1 \in DOMAIN reader /\ msg = reader[1] /\ msg.type = "ServerPong" /\ msg.name \in Name
  BY Received, MsgFields, LenProperties, EmptySeq DEF msg, TypeOK
<1>2. PICK c \in Joined(msg.name) : TRUE
  BY <1>1 DEF MemberInv, PongsOfMembers, PongsFrom, Members
<1>3. InVector(msg.name) # {}
  BY <1>1, <1>2, FS_EmptySet DEF MemberInv, SameSize
<1> QED  BY <1>3 DEF InVector, MemberInv, VectorOK, members

(* A request is answered: what an answer does to the abstract state.       *)
LEMMA AnswerReplies ==
  ASSUME RequestInv, RequestInv', state.tag # "Idle", NEW n \in Name,
         Respond(state.server, n), issued' = issued
  PROVE  \E r \in Request : QS!Reply(r, n)
<1>1. PICK r \in Request : r = state.server
  BY BusyServer DEF RequestInv, TypeInv, TypeOK
<1>2. r \in issued /\ answer[r] = None
  BY <1>1 DEF RequestInv, OnePlace, InWork, Answered
<1>3. answer' = [answer EXCEPT ![r] = n] /\ answer \in [Request -> Name \cup {None}]
  BY <1>1 DEF Respond, RequestInv, TypeInv, TypeOK
<1>4. n # None
  BY ConfigAssumption
<1>5. r \in pending /\ pending' = pending \ {r}
  BY <1>2, <1>3, <1>4, PendingIsUnanswered, PendingIsUnansweredNext
<1> QED  BY <1>3, <1>5 DEF QS!Reply, pending

(* The steps that answer nobody.                                           *)
LEMMA PendingKept ==
  ASSUME RequestInv, RequestInv', UNCHANGED <<issued, answer>>
  PROVE  pending' = pending
BY PendingIsUnanswered, PendingIsUnansweredNext

(* Taking the first server of a name out of the vector takes out the name, *)
(* or nothing if another server has it too.                                *)
LEMMA PopMembers ==
  ASSUME TypeOK, MemberInv, HandlePopServer
  PROVE  \E n \in Name : members' = members \/ members' = members \ {n}
<1> DEFINE n == NameOf[msg.conn]
           i0 == Position(n)
<1>1. n \in Name /\ Named(n) # {}
  BY Received, MsgFields, ConfigAssumption, PopLeaves DEF HandlePopServer
<1>2. i0 \in DOMAIN servers /\ servers[i0].name = n /\ servers' = RemoveAt(servers, i0)
  BY <1>1, PositionIn DEF TypeOK, HandlePopServer
<1> HIDE DEF n, i0
<1>3. /\ DOMAIN servers = 1 .. Len(servers) /\ Len(servers) \in Nat /\ i0 \in Nat
      /\ DOMAIN servers' = 1 .. Len(servers) - 1
      /\ \A j \in 1 .. i0 - 1 : servers'[j] = servers[j]
      /\ \A j \in i0 .. Len(servers) - 1 : servers'[j] = servers[j + 1]
  <2>1. servers \in Seq(Server)
    BY DEF TypeOK
  <2>2. DOMAIN servers = 1 .. Len(servers) /\ Len(servers) \in Nat /\ i0 \in Nat
    BY <1>2, <2>1
  <2>3. /\ DOMAIN RemoveAt(servers, i0) = 1 .. Len(servers) - 1
        /\ \A j \in 1 .. i0 - 1 : RemoveAt(servers, i0)[j] = servers[j]
        /\ \A j \in i0 .. Len(servers) - 1 : RemoveAt(servers, i0)[j] = servers[j + 1]
    BY <1>2, <2>1, RemoveAtElements
  <2> QED  BY <1>2, <2>2, <2>3
<1>4. ASSUME NEW j \in DOMAIN servers'
      PROVE  \E i \in DOMAIN servers : servers'[j] = servers[i]
  <2>1. CASE j < i0
    BY <1>2, <1>3, <2>1
  <2>2. CASE ~(j < i0)
    BY <1>2, <1>3, <2>2
  <2> QED  BY <2>1, <2>2
<1>5. ASSUME NEW i \in DOMAIN servers, i # i0
      PROVE  \E j \in DOMAIN servers' : servers'[j] = servers[i]
  <2>1. CASE i < i0
    BY <1>2, <1>3, <2>1
  <2>2. CASE i > i0
    <3>1. i - 1 \in i0 .. Len(servers) - 1 /\ (i - 1) + 1 = i
      BY <1>2, <1>3, <2>2
    <3>2. i - 1 \in DOMAIN servers'
      BY <1>2, <1>3, <3>1
    <3> QED  BY <1>3, <3>1, <3>2
  <2> QED  BY <1>2, <1>3, <1>5, <2>1, <2>2
<1>6. members' \subseteq members
  BY <1>4 DEF members
<1>7. members \ {n} \subseteq members'
  BY <1>2, <1>5 DEF members
<1> QED  BY <1>1, <1>6, <1>7

Implementation == RequestInv /\ MemberInv

LEMMA StepRefines ==
  ASSUME Implementation, RequestInv', [Next]_vars
  PROVE  [QS!Next]_(QS!vars)
<1> USE DEF Implementation
<1>1. TypeOK
  BY DEF RequestInv, TypeInv
<1>2. ASSUME UNCHANGED <<issued, answer>>, members' = members
      PROVE  UNCHANGED QS!vars
  BY <1>2, PendingKept DEF QS!vars, pending, members
<1>3. CASE HandlePushServer
  <2> DEFINE s == NewServer(msg.conn)
  <2>1. PICK n0 \in Name : n0 = NameOf[msg.conn]
    BY <1>1, <1>3, Received, MsgFields, ConfigAssumption DEF HandlePushServer
  <2>2. s \in Server /\ s.name = n0 /\ servers' = Append(servers, s)
    BY <1>1, <1>3, <2>1, Received, MsgFields DEF HandlePushServer, NewServer, Server
  <2>3. state.tag = "Starting" => Respond(state.server, n0)
    BY <1>3, <2>1 DEF HandlePushServer
  <2> HIDE DEF s
  <2>4. members' = members \cup {n0}
    <3>1. /\ DOMAIN servers = 1 .. Len(servers) /\ Len(servers) \in Nat
          /\ DOMAIN servers' = 1 .. Len(servers) + 1
          /\ \A i \in 1 .. Len(servers) : servers'[i] = servers[i]
          /\ servers'[Len(servers) + 1] = s
      BY <1>1, <2>2, AppendProperties DEF TypeOK
    <3> QED  BY <2>2, <3>1 DEF members
  <2>5. issued' = issued
    BY <1>3 DEF HandlePushServer, env
  <2>6. CASE state.tag = "Starting"
    <3>1. PICK r \in Request : QS!Reply(r, n0)
      BY <2>3, <2>5, <2>6, AnswerReplies
    <3>2. QS!JoinAndAnswer(r, n0)
      BY <2>4, <3>1 DEF QS!JoinAndAnswer, members
    <3> QED  BY <3>2 DEF QS!Next
  <2>7. CASE state.tag # "Starting"
    <3>1. answer' = answer
      BY <1>3, <2>7 DEF HandlePushServer
    <3>2. pending' = pending
      BY <2>5, <3>1, PendingKept
    <3>3. QS!Join(n0)
      BY <2>4, <3>1, <3>2 DEF QS!Join, members, pending
    <3> QED  BY <2>1, <3>3 DEF QS!Next
  <2> QED  BY <2>6, <2>7
<1>4. CASE HandlePopServer
  <2>1. UNCHANGED <<issued, answer>>
    BY <1>4 DEF HandlePopServer
  <2>2. PICK n \in Name : members' = members \/ members' = members \ {n}
    BY <1>1, <1>4, PopMembers
  <2>3. CASE members' = members \ {n}
    <3>1. QS!Leave(n)
      <4>1. pending' = pending
        BY <2>1, PendingKept
      <4> QED  BY <2>1, <2>3, <4>1 DEF QS!Leave, members, pending
    <3> QED  BY <3>1 DEF QS!Next
  <2> QED  BY <1>2, <2>1, <2>2, <2>3
<1>5. CASE HandleUpdateActive
  <2>1. UNCHANGED <<issued, answer>>
    BY <1>5 DEF HandleUpdateActive, env
  <2>2. members' = members
    <3>1. CASE Named(msg.name) # {}
      <4> DEFINE p == Position(msg.name)
      <4>1. p \in DOMAIN servers
        BY <1>1, <3>1, PositionIn DEF TypeOK
      <4>2. servers' = [servers EXCEPT ![p] = [@ EXCEPT !.active = msg.active]]
        BY <1>5, <3>1 DEF HandleUpdateActive
      <4>3. \A i \in DOMAIN servers : servers[i] \in Server
        BY <1>1, VectorTyped
      <4> HIDE DEF p
      <4> QED  BY <1>1, <4>1, <4>2, <4>3 DEF members, Server, TypeOK
    <3>2. CASE Named(msg.name) = {}
      BY <1>5, <3>2 DEF HandleUpdateActive, members
    <3> QED  BY <3>1, <3>2
  <2> QED  BY <1>2, <2>1, <2>2
<1>6. CASE HandleServerPong
  <2>1. servers' = servers /\ issued' = issued
    BY <1>6 DEF HandleServerPong, env
  <2>2. CASE Late(msg.timer) \/ state.tag # "RecvPong"
    BY <1>2, <1>6, <2>1, <2>2 DEF HandleServerPong, members
  <2>3. CASE ~(Late(msg.timer) \/ state.tag # "RecvPong")
    <3>1. PICK n \in Name : n = msg.name
      BY <1>1, <1>6, Received, MsgFields DEF HandleServerPong
    <3>2. n \in members
      BY <1>1, <1>6, <3>1, PongFromMember DEF HandleServerPong
    <3>3. Respond(state.server, n)
      BY <1>6, <2>3, <3>1 DEF HandleServerPong
    <3>4. PICK r \in Request : QS!Reply(r, n)
      BY <2>1, <2>3, <3>3, AnswerReplies
    <3>5. QS!Answer(r, n)
      BY <2>1, <3>2, <3>4 DEF QS!Answer, members
    <3> QED  BY <3>5 DEF QS!Next
  <2> QED  BY <2>2, <2>3
<1>7. CASE HandleQueueServer \/ Ping \/ StartTimer \/ HandleTimerCompleted \/ UNCHANGED vars
  BY <1>2, <1>7
     DEF HandleQueueServer, Ping, StartTimer, HandleTimerCompleted, vars, env, members
<1>8. ASSUME NEW r \in Request, Dispatch(r)  PROVE QS!Submit(r)
  <2>1. r \notin issued /\ issued' = issued \cup {r} /\ UNCHANGED <<servers, answer>>
    BY <1>8 DEF Dispatch, task
  <2>2. answer[r] = None
    BY <2>1 DEF RequestInv, OnePlace, Answered
  <2>3. r \notin pending /\ pending' = pending \cup {r}
    BY <2>1, <2>2, PendingIsUnanswered, PendingIsUnansweredNext
  <2> QED  BY <2>1, <2>2, <2>3 DEF QS!Submit, pending, members
<1>9. CASE TimerFires \/ (\E c \in Conn : Connect(c) \/ ReadPing(c) \/ Lose(c) \/ Unlink(c))
           \/ (\E c \in Conn, b \in BOOLEAN : SetActive(c, b))
  BY <1>2, <1>9
     DEF TimerFires, Connect, ReadPing, Lose, Unlink, SetActive, task, env, members
<1> QED
  BY <1>3, <1>4, <1>5, <1>6, <1>7, <1>8, <1>9 DEF Next, ClusterStep, QS!Next

LEMMA InitRefines == Init => QS!Init
<1> SUFFICES ASSUME Init PROVE QS!Init
  OBVIOUS
<1>1. pending = {} /\ members = {}
  BY ConfigAssumption DEF Init, pending, members, InHand, Idle
<1> QED  BY <1>1 DEF Init, QS!Init, pending, members

(* The cluster keeps the promise of QueueService for any number of         *)
(* connections, names and requests: every request is answered at most      *)
(* once, with the name of a server that is registered at that moment, and  *)
(* is neither lost nor answered twice, however servers come and go, even   *)
(* several under one name, and however pings, pongs, timers and the        *)
(* channel are interleaved.                                                *)
THEOREM ClusterImplementsQueueService == Spec => ImplementsQueueService
<1>1. Init => Implementation
  BY InitRequestInv, InitMemberInv DEF Implementation
<1>2. Implementation /\ [Next]_vars => Implementation'
  BY NextRequestInv, NextMemberInv DEF Implementation, RequestInv, TypeInv
<1>3. Implementation /\ Implementation' /\ [Next]_vars => [QS!Next]_(QS!vars)
  BY StepRefines DEF Implementation
<1> QED
  BY <1>1, <1>2, <1>3, InitRefines, PTL DEF Spec, ImplementsQueueService, QS!Spec
=============================================================================

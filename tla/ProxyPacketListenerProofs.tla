---------------------- MODULE ProxyPacketListenerProofs ----------------------
(***************************************************************************)
(* Theorems about ProxyPacketListener, for any set of names, even an       *)
(* infinite one, any priorities and any number of packets: the server that *)
(* joining players are sent to is well defined and the right one.          *)
(***************************************************************************)
EXTENDS ProxyPacketListener, SequenceTheorems, WellFoundedInduction, TLAPS

(* A name is in the bucket of its priority from when it is first linked;   *)
(* buckets hold nothing else and grow by a name per packet.                *)
BucketsOK ==
  /\ \A b \in Priority :
       /\ Len(serverPriorities[b]) <= packets
       /\ \A i \in DOMAIN serverPriorities[b] : PriorityOf[serverPriorities[b][i]] = b
  /\ \A n \in Registered :
       \E i \in DOMAIN serverPriorities[PriorityOf[n]] : serverPriorities[PriorityOf[n]][i] = n

(* Some priority is above that of every server in the table: without a     *)
(* bound there might be no best server.                                    *)
PrioritiesBounded == \E q \in Nat : \A n \in Registered : PriorityOf[n] <= q

TableInv == TypeOK /\ BucketsOK /\ PrioritiesBounded

-----------------------------------------------------------------------------
(* The best candidate.                                                     *)

(* A set of naturals that is not empty has a least element.                *)
LEMMA LeastNat ==
  ASSUME NEW T, T \subseteq Nat, T # {}
  PROVE  \E i \in T : \A j \in T : i <= j
<1>1. PICK i \in T : \A j \in T : ~(<<j, i>> \in OpToRel(<, Nat))
  BY WFMin, NatLessThanWellFounded, Zenon
<1>2. ASSUME NEW j \in T  PROVE i <= j
  <2>1. <<j, i>> \in Nat \X Nat /\ i \in Nat /\ j \in Nat
    OBVIOUS
  <2>2. ~(j < i)
    <3>1. <<j, i>> \notin OpToRel(<, Nat)
      BY <1>1
    <3> QED  BY <2>1, <3>1, Zenon DEF OpToRel
  <2> QED  BY <2>1, <2>2
<1> QED  BY <1>2

Best == CHOOSE x \in Candidates : \A y \in Candidates : Before(x, y)

(* What a candidate is.                                                    *)
LEMMA CandidateFields ==
  ASSUME TableInv, NEW x \in Candidates
  PROVE  /\ x = <<x[1], x[2]>> /\ x[1] \in Priority /\ x[1] \in Nat /\ x[2] \in Nat
         /\ x[2] \in DOMAIN serverPriorities[x[1]]
         /\ serverPriorities[x[1]][x[2]] \in Registered
         /\ PriorityOf[serverPriorities[x[1]][x[2]]] = x[1]
BY ProxyAssumption DEF Candidates, TableInv, BucketsOK, Priority

(* Among the candidates there is one that comes before all others.         *)
LEMMA BestExists ==
  ASSUME TableInv, Candidates # {}
  PROVE  Best \in Candidates /\ \A y \in Candidates : Before(Best, y)
<1>1. PICK q \in Nat : \A n \in Registered : PriorityOf[n] <= q
  BY DEF TableInv, PrioritiesBounded
<1>2. \A x \in Candidates : x[1] \in Nat /\ x[1] <= q /\ x[2] \in Nat
  BY <1>1, CandidateFields
<1> DEFINE T == {q - x[1] : x \in Candidates}
<1>3. PICK t \in T : \A u \in T : t <= u
  <2>1. T \subseteq Nat /\ T # {}
    BY <1>2
  <2> HIDE DEF T
  <2> QED  BY <2>1, LeastNat
<1>4. PICK x \in Candidates : t = q - x[1]
  OBVIOUS
<1>5. ASSUME NEW y \in Candidates  PROVE y[1] <= x[1]
  <2>1. t <= q - y[1]
    BY <1>3
  <2> HIDE DEF T
  <2> QED  BY <1>2, <1>4, <2>1
<1> DEFINE U == {y[2] : y \in {z \in Candidates : z[1] = x[1]}}
<1>6. PICK i \in U : \A j \in U : i <= j
  <2>1. U \subseteq Nat /\ U # {}
    BY <1>2
  <2> HIDE DEF U
  <2> QED  BY <2>1, LeastNat
<1>7. PICK w \in Candidates : w[1] = x[1] /\ w[2] = i
  OBVIOUS
<1>8. \A y \in Candidates : Before(w, y)
  <2> SUFFICES ASSUME NEW y \in Candidates PROVE Before(w, y)
    OBVIOUS
  <2>1. y[1] = x[1] => i <= y[2]
    BY <1>6
  <2> QED  BY <1>2, <1>5, <1>7, <2>1 DEF Before
<1> QED  BY <1>8 DEF Best

(* Every linked name is a candidate, at the place it was first linked.     *)
LEMMA RegisteredIsCandidate ==
  ASSUME TableInv, NEW n \in Registered
  PROVE  /\ FirstLinked(n) \in Nat
         /\ <<PriorityOf[n], FirstLinked(n)>> \in Candidates
         /\ serverPriorities[PriorityOf[n]][FirstLinked(n)] = n
         /\ \A i \in DOMAIN serverPriorities[PriorityOf[n]] :
              serverPriorities[PriorityOf[n]][i] = n => FirstLinked(n) <= i
<1> DEFINE b == PriorityOf[n]
           s == serverPriorities[b]
           T == {i \in DOMAIN s : s[i] = n}
<1>1. n \in Name /\ b \in Priority /\ s \in Seq(Name) /\ Len(s) <= packets /\ packets \in Nat
  BY ProxyAssumption DEF TableInv, TypeOK, BucketsOK, Priority
<1>2. DOMAIN s = 1 .. Len(s) /\ Len(s) \in Nat
  BY <1>1
<1>3. T \subseteq Nat /\ T # {}
  BY <1>2 DEF TableInv, BucketsOK
<1>4. PICK i \in T : \A j \in T : i <= j
  <2> HIDE DEF T
  <2> QED  BY <1>3, LeastNat
<1>5. \A j \in 1 .. i - 1 : s[j] # n
  BY <1>2, <1>4
<1>6. FirstLinked(n) \in DOMAIN s /\ s[FirstLinked(n)] = n
      /\ \A j \in 1 .. FirstLinked(n) - 1 : s[j] # n
  BY <1>4, <1>5 DEF FirstLinked
<1>7. \A j \in DOMAIN s : s[j] = n => FirstLinked(n) <= j
  BY <1>2, <1>6
<1>8. FirstLinked(n) \in 1 .. packets
  BY <1>1, <1>2, <1>6
<1> QED  BY <1>1, <1>2, <1>6, <1>7, <1>8 DEF Candidates

(* What the new default is.                                                *)
LEMMA DefaultAfter ==
  ASSUME TableInv, RecomputeServerJoinOrder, Candidates # {}
  PROVE  \E n \in Registered :
           /\ server' = registered[n]
           /\ <<PriorityOf[n], Best[2]>> = Best
           /\ serverPriorities[PriorityOf[n]][Best[2]] = n
           /\ Best \in Candidates /\ \A y \in Candidates : Before(Best, y)
<1>1. Best \in Candidates /\ \A y \in Candidates : Before(Best, y)
  BY BestExists
<1>2. server' = registered[serverPriorities[Best[1]][Best[2]]]
  BY DEF RecomputeServerJoinOrder, Best
<1> QED  BY <1>1, <1>2, CandidateFields

-----------------------------------------------------------------------------
(* The inductive invariant.                                                *)

LEMMA InitTableInv == Init => TableInv
<1> SUFFICES ASSUME Init PROVE TableInv
  OBVIOUS
<1>1. Registered = {}
  BY DEF Init, Registered
<1>2. TypeOK
  BY <1>1, ProxyAssumption DEF Init, TypeOK
<1>3. BucketsOK /\ PrioritiesBounded
  BY <1>1 DEF Init, BucketsOK, PrioritiesBounded
<1> QED  BY <1>2, <1>3 DEF TableInv

LEMMA LinkKeepsTable ==
  ASSUME TableInv, NEW n \in Name, OnLinkServerPacket(n)
  PROVE  TableInv'
<1> DEFINE b == PriorityOf[n]
           s == serverPriorities[b]
           t == Append(s, n)
<1>1. /\ b \in Priority /\ b \in Nat /\ s \in Seq(Name) /\ Len(s) <= packets
      /\ packets \in Nat /\ packets' = packets + 1 /\ packets' <= MaxPackets
  BY ProxyAssumption DEF TableInv, TypeOK, BucketsOK, Priority, OnLinkServerPacket, Receive
<1>2. serverPriorities' = [serverPriorities EXCEPT ![b] = t]
  BY DEF OnLinkServerPacket
<1>3. /\ t \in Seq(Name) /\ Len(t) = Len(s) + 1
      /\ DOMAIN s = 1 .. Len(s) /\ Len(s) \in Nat
      /\ DOMAIN t = 1 .. Len(s) + 1
      /\ \A i \in 1 .. Len(s) : t[i] = s[i]
      /\ t[Len(s) + 1] = n
  BY <1>1, AppendProperties
<1>4. /\ Registered' = Registered \cup {n}
      /\ \A m \in Registered' : registered'[m] = IF m = n THEN <<n, packets>> ELSE registered[m]
  BY DEF OnLinkServerPacket, Registered
<1> HIDE DEF b, s, t
<1>5. TypeOK'
  <2>1. serverPriorities' \in [Priority -> Seq(Name)]
    BY <1>2, <1>3 DEF TableInv, TypeOK
  <2>2. /\ Registered' \subseteq Name
        /\ \A m \in Registered' : registered'[m] \in {m} \X (0 .. MaxPackets)
    <3>1. \A m \in Registered : m \in Name /\ registered[m] \in {m} \X (0 .. MaxPackets)
      BY DEF TableInv, TypeOK
    <3>2. packets \in 0 .. MaxPackets
      BY DEF TableInv, TypeOK
    <3> QED  BY <1>4, <3>1, <3>2
  <2>3. packets' \in 0 .. MaxPackets
    BY <1>1, ProxyAssumption
  <2> QED  BY <2>1, <2>2, <2>3 DEF TableInv, TypeOK, OnLinkServerPacket
<1>6. BucketsOK'
  <2>1. \A c \in Priority :
          serverPriorities'[c] = IF c = b THEN t ELSE serverPriorities[c]
    BY <1>1, <1>2 DEF TableInv, TypeOK
  <2>2. \A c \in Priority :
          /\ Len(serverPriorities[c]) \in Nat /\ Len(serverPriorities[c]) <= packets
          /\ \A i \in DOMAIN serverPriorities[c] : PriorityOf[serverPriorities[c][i]] = c
    BY DEF TableInv, TypeOK, BucketsOK
  <2>3. s = serverPriorities[b] /\ b = PriorityOf[n]
    BY DEF s, b
  <2>4. ASSUME NEW c \in Priority
        PROVE  /\ Len(serverPriorities'[c]) <= packets'
               /\ \A i \in DOMAIN serverPriorities'[c] : PriorityOf[serverPriorities'[c][i]] = c
    <3>1. CASE c = b
      <4>1. serverPriorities'[c] = t
        BY <2>1, <3>1
      <4>2. \A i \in 1 .. Len(s) : PriorityOf[s[i]] = b
        BY <1>1, <1>3, <2>2, <2>3
      <4>3. \A i \in 1 .. Len(s) + 1 : PriorityOf[t[i]] = b
        BY <1>3, <2>3, <4>2
      <4> QED  BY <1>1, <1>3, <3>1, <4>1, <4>3
    <3>2. CASE c # b
      <4>1. serverPriorities'[c] = serverPriorities[c]
        BY <2>1, <3>2
      <4> QED  BY <1>1, <2>2, <4>1
    <3> QED  BY <3>1, <3>2
  <2>5. ASSUME NEW m \in Registered'
        PROVE  \E i \in DOMAIN serverPriorities'[PriorityOf[m]] :
                 serverPriorities'[PriorityOf[m]][i] = m
    <3>1. PriorityOf[m] \in Priority
      BY <1>4 DEF TableInv, TypeOK, Priority
    <3>2. CASE m = n
      <4>1. Len(s) + 1 \in DOMAIN serverPriorities'[b] /\ serverPriorities'[b][Len(s) + 1] = n
        BY <1>1, <1>3, <2>1
      <4> QED  BY <2>3, <3>2, <4>1
    <3>3. CASE m # n
      <4>1. PICK i \in DOMAIN serverPriorities[PriorityOf[m]] :
              serverPriorities[PriorityOf[m]][i] = m
        BY <1>4, <3>3 DEF TableInv, BucketsOK
      <4>2. CASE PriorityOf[m] = b
        <5>1. serverPriorities'[b] = t /\ i \in 1 .. Len(s) /\ s[i] = m
          BY <1>1, <1>3, <2>1, <2>3, <4>1, <4>2
        <5>2. i \in DOMAIN t /\ t[i] = m
          BY <1>1, <1>3, <5>1
        <5> QED  BY <4>2, <5>1, <5>2
      <4>3. CASE PriorityOf[m] # b
        <5>1. serverPriorities'[PriorityOf[m]] = serverPriorities[PriorityOf[m]]
          BY <2>1, <3>1, <4>3
        <5> QED  BY <4>1, <5>1
      <4> QED  BY <4>2, <4>3
    <3> QED  BY <3>2, <3>3
  <2> QED  BY <2>4, <2>5 DEF BucketsOK
<1>7. PrioritiesBounded'
  <2>1. PICK q \in Nat : \A m \in Registered : PriorityOf[m] <= q
    BY DEF TableInv, PrioritiesBounded
  <2>2. \A m \in Registered : PriorityOf[m] \in Nat
    BY ProxyAssumption DEF TableInv, TypeOK
  <2>3. b + q \in Nat /\ \A m \in Registered' : PriorityOf[m] <= b + q
    BY <1>1, <1>4, <2>1, <2>2 DEF b
  <2> QED  BY <2>3 DEF PrioritiesBounded
<1> QED  BY <1>5, <1>6, <1>7 DEF TableInv

LEMMA NextTableInv == TableInv /\ [Next]_vars => TableInv'
<1> SUFFICES ASSUME TableInv, [Next]_vars PROVE TableInv'
  OBVIOUS
<1>1. TypeOK
  BY DEF TableInv
<1>2. ASSUME TypeOK', serverPriorities' = serverPriorities, Registered' \subseteq Registered,
             packets' >= packets
      PROVE  TableInv'
  <2>1. \A b \in Priority : Len(serverPriorities[b]) \in Nat
    BY <1>1 DEF TypeOK
  <2>2. packets \in Nat /\ packets' \in Nat
    BY <1>1, <1>2 DEF TypeOK
  <2>3. BucketsOK'
    BY <1>2, <2>1, <2>2 DEF TableInv, BucketsOK
  <2>4. PrioritiesBounded'
    BY <1>2 DEF TableInv, PrioritiesBounded
  <2> QED  BY <1>2, <2>3, <2>4 DEF TableInv
<1>3. ASSUME NEW n \in Name, OnLinkServerPacket(n)  PROVE TableInv'
  BY <1>3, LinkKeepsTable
<1>4. ASSUME NEW n \in Name, OnUnlinkServerPacket(n)  PROVE TableInv'
  <2>1. /\ Registered' \subseteq Registered
        /\ \A m \in Registered' : registered'[m] = registered[m]
    BY <1>4 DEF OnUnlinkServerPacket, RemoveServer, Registered
  <2>2. /\ serverPriorities' = serverPriorities /\ packets' = packets + 1
        /\ packets' <= MaxPackets
    BY <1>1, <1>4, ProxyAssumption DEF OnUnlinkServerPacket, Receive, TypeOK
  <2>3. TypeOK'
    BY <1>1, <1>4, <2>1, <2>2, ProxyAssumption DEF TypeOK, OnUnlinkServerPacket
  <2> QED  BY <1>1, <1>2, <2>1, <2>2, <2>3 DEF TypeOK
<1>5. CASE RecomputeServerJoinOrder
  <2>1. server' \in ServerInfo \cup {None}
    <3>1. CASE Candidates = {}
      BY <1>1, <1>5, <3>1 DEF RecomputeServerJoinOrder, TypeOK
    <3>2. CASE Candidates # {}
      <4>1. PICK n \in Registered : server' = registered[n]
        BY <1>5, <3>2, DefaultAfter
      <4> QED  BY <1>1, <4>1, ProxyAssumption DEF TypeOK, ServerInfo
    <3> QED  BY <3>1, <3>2
  <2>2. /\ Registered' = Registered /\ serverPriorities' = serverPriorities
        /\ packets' = packets
    BY <1>5 DEF RecomputeServerJoinOrder, Registered
  <2>3. TypeOK'
    BY <1>1, <1>5, <2>1, <2>2 DEF TypeOK, RecomputeServerJoinOrder
  <2> QED  BY <1>1, <1>2, <2>2, <2>3 DEF TypeOK
<1>6. ASSUME NEW p \in Player, NEW n \in Name, OnTransportPlayerPacket(p, n)  PROVE TableInv'
  <2>1. /\ Registered' = Registered /\ serverPriorities' = serverPriorities
        /\ registered' = registered /\ packets' = packets + 1 /\ packets' <= MaxPackets
    BY <1>1, <1>6, ProxyAssumption DEF OnTransportPlayerPacket, Receive, Registered, TypeOK
  <2>2. n \in Registered => registered[n] \in ServerInfo
    BY <1>1, ProxyAssumption DEF TypeOK, ServerInfo
  <2>3. where' \in [Player -> ServerInfo \cup {None}] /\ thread' \in {"idle", "dead"}
    BY <1>1, <1>6, <2>2 DEF OnTransportPlayerPacket, Receive, TypeOK
  <2>4. TypeOK'
    BY <1>1, <1>6, <2>1, <2>3, ProxyAssumption DEF TypeOK, OnTransportPlayerPacket
  <2> QED  BY <1>1, <1>2, <2>1, <2>4 DEF TypeOK
<1>7. ASSUME NEW p \in Player, Join(p) \/ Quit(p)  PROVE TableInv'
  <2>1. /\ Registered' = Registered /\ serverPriorities' = serverPriorities
        /\ packets' = packets
    BY <1>7 DEF Join, Quit, Registered
  <2>2. TypeOK'
    BY <1>1, <1>7, <2>1 DEF TypeOK, Join, Quit
  <2> QED  BY <1>1, <1>2, <2>1, <2>2 DEF TypeOK
<1>8. CASE UNCHANGED vars
  <2>1. Registered' = Registered
    BY <1>8 DEF vars, Registered
  <2>2. TypeOK'
    BY <1>1, <1>8, <2>1 DEF TypeOK, vars
  <2> QED  BY <1>1, <1>2, <1>8, <2>1, <2>2 DEF vars, TypeOK
<1> QED  BY <1>3, <1>4, <1>5, <1>6, <1>7, <1>8 DEF Next

-----------------------------------------------------------------------------
LEMMA TableInvariant == Spec => []TableInv
BY InitTableInv, NextTableInv, PTL DEF Spec

(* Every variable keeps a value of its Java type; in particular the best   *)
(* server that is looked for is always found.                              *)
THEOREM ProxyTypeCorrect == Spec => []TypeOK
<1>1. TableInv => TypeOK
  BY DEF TableInv
<1> QED  BY <1>1, TableInvariant, PTL

LEMMA NextDefaultIsBest == TableInv /\ DefaultIsBest /\ [Next]_vars => DefaultIsBest'
<1> SUFFICES ASSUME TableInv, DefaultIsBest, [Next]_vars, thread' \in {"idle", "dead"},
                    Registered' # {}
             PROVE  \E n \in Registered' :
                      /\ server' = registered'[n]
                      /\ \A m \in Registered' : PriorityOf[m] <= PriorityOf[n]
  BY DEF DefaultIsBest, IsDefault
<1>1. CASE RecomputeServerJoinOrder
  <2>1. Registered' = Registered /\ registered' = registered
    BY <1>1 DEF RecomputeServerJoinOrder, Registered
  <2>2. Candidates # {}
    BY <2>1, RegisteredIsCandidate
  <2>3. PICK n \in Registered :
          /\ server' = registered[n] /\ <<PriorityOf[n], Best[2]>> = Best
          /\ Best \in Candidates /\ \A y \in Candidates : Before(Best, y)
    BY <1>1, <2>2, DefaultAfter
  <2>4. ASSUME NEW m \in Registered  PROVE PriorityOf[m] <= PriorityOf[n]
    <3>1. <<PriorityOf[m], FirstLinked(m)>> \in Candidates
      BY RegisteredIsCandidate
    <3>2. Before(Best, <<PriorityOf[m], FirstLinked(m)>>)
      BY <2>3, <3>1
    <3>3. PriorityOf[m] \in Nat /\ PriorityOf[n] \in Nat
      BY ProxyAssumption DEF TableInv, TypeOK
    <3> QED  BY <2>3, <3>2, <3>3 DEF Before
  <2> QED  BY <2>1, <2>3, <2>4
<1>2. ASSUME UNCHANGED <<registered, server>>, thread \in {"idle", "dead"}
      PROVE  \E n \in Registered' :
               /\ server' = registered'[n]
               /\ \A m \in Registered' : PriorityOf[m] <= PriorityOf[n]
  BY <1>2 DEF DefaultIsBest, IsDefault, Registered
<1>3. CASE \E n \in Name : OnLinkServerPacket(n)
  BY <1>3 DEF OnLinkServerPacket
<1>4. CASE \E n \in Name : OnUnlinkServerPacket(n)
  BY <1>2, <1>4 DEF OnUnlinkServerPacket, Receive
<1>5. CASE \E p \in Player, n \in Name : OnTransportPlayerPacket(p, n)
  BY <1>2, <1>5 DEF OnTransportPlayerPacket, Receive
<1>6. CASE (\E p \in Player : Join(p) \/ Quit(p)) \/ UNCHANGED vars
  BY <1>2, <1>6 DEF Join, Quit, vars
<1> QED  BY <1>1, <1>3, <1>4, <1>5, <1>6 DEF Next

(* Between two packets the default is, if any server is linked, a linked   *)
(* server that no other has a higher priority than, whatever names were    *)
(* linked, unlinked and linked again before.                               *)
THEOREM DefaultIsAlwaysBest == Spec => []DefaultIsBest
<1>1. Init => DefaultIsBest
  BY DEF Init, DefaultIsBest, Registered
<1> QED  BY <1>1, TableInvariant, NextDefaultIsBest, PTL DEF Spec

(* The default changes from one linked server to another only for a higher *)
(* priority, or the same and an earlier first link.                        *)
THEOREM DefaultIsSticky == Spec => DefaultSticky
<1>1. TableInv /\ [Next]_vars =>
        [\A n, m \in Registered :
           IsDefault(n) /\ n # m /\ server' = registered[m] =>
             \/ PriorityOf[m] > PriorityOf[n]
             \/ PriorityOf[m] = PriorityOf[n] /\ FirstLinked(m) < FirstLinked(n)]_vars
  <2> SUFFICES ASSUME TableInv, Next, NEW n \in Registered, NEW m \in Registered,
                      server = registered[n], n # m, server' = registered[m]
               PROVE  \/ PriorityOf[m] > PriorityOf[n]
                      \/ PriorityOf[m] = PriorityOf[n] /\ FirstLinked(m) < FirstLinked(n)
    BY DEF IsDefault
  <2>1. \A k \in Registered : registered[k][1] = k
    BY DEF TableInv, TypeOK
  <2>2. server' # server
    BY <2>1
  <2>3. RecomputeServerJoinOrder /\ Candidates # {}
    BY <2>2, RegisteredIsCandidate
       DEF Next, OnLinkServerPacket, OnUnlinkServerPacket, OnTransportPlayerPacket, Join, Quit
  <2>4. PICK k \in Registered :
          /\ server' = registered[k] /\ <<PriorityOf[k], Best[2]>> = Best
          /\ serverPriorities[PriorityOf[k]][Best[2]] = k
          /\ Best \in Candidates /\ \A y \in Candidates : Before(Best, y)
    BY <2>3, DefaultAfter
  <2>5. k = m
    BY <2>1, <2>4
  <2>6. /\ FirstLinked(n) \in Nat /\ FirstLinked(m) \in Nat
        /\ <<PriorityOf[n], FirstLinked(n)>> \in Candidates
        /\ serverPriorities[PriorityOf[n]][FirstLinked(n)] = n
    BY RegisteredIsCandidate
  <2>7. /\ Best[1] = PriorityOf[m] /\ Best[2] \in Nat
        /\ Best[2] \in DOMAIN serverPriorities[PriorityOf[m]]
    BY <2>4, <2>5, CandidateFields
  <2>8. FirstLinked(m) <= Best[2]
    BY <2>4, <2>5, <2>7, RegisteredIsCandidate
  <2>9. Before(Best, <<PriorityOf[n], FirstLinked(n)>>)
    BY <2>4, <2>6
  <2>10. PriorityOf[m] = PriorityOf[n] => Best[2] # FirstLinked(n)
    BY <2>4, <2>5, <2>6
  <2> QED  BY <2>6, <2>7, <2>8, <2>9, <2>10 DEF Before
<1> QED  BY <1>1, TableInvariant, PTL DEF Spec, DefaultSticky
=============================================================================

------------------------ MODULE ProxyPacketListener ------------------------
(***************************************************************************)
(* The proxy's side of the controller connection                           *)
(* (serverplugin/.../proxy/ProxyPacketListener.java) and the reconnect     *)
(* handler that decides where a joining player goes                        *)
(* (RejoinReconnectHandler.java).  The connection's thread handles one     *)
(* packet at a time; BungeeCord's own threads ask the reconnect handler    *)
(* whenever a player joins, also between two steps of a packet's handler.  *)
(* The table of servers and the players are BungeeCord's.                  *)
(***************************************************************************)
EXTENDS Integers, Sequences, FiniteSets

CONSTANTS
  Name,        \* names of servers the controller links
  PriorityOf,  \* priority the controller links each name with (Kind::priority)
  Player,
  MaxPackets,  \* bound: packets the controller sends
  None

ASSUME ProxyAssumption ==
  /\ PriorityOf \in [Name -> Nat]
  /\ MaxPackets \in Nat
  /\ None \notin Name

Priority == {PriorityOf[n] : n \in Name}

(* A ServerInfo object: relinking a name makes another one.                *)
ServerInfo == Name \X Nat

VARIABLES
  registered,       \* BungeeCord's table: the ServerInfo of each name in it
  serverPriorities, \* names of each priority, in the order they were linked
  server,           \* rejoinReconnectHandler.server
  held,             \* what that field has held: it is not volatile, so another
                    \* thread may read an old value
  thread,           \* "idle", "linking" or "unlinking" (the table is changed, the
                    \* default not yet), or "dead" of an uncaught exception
  where,            \* the ServerInfo each player is on, None if offline
  packets           \* packets received

vars == <<registered, serverPriorities, server, held, thread, where, packets>>

Registered == DOMAIN registered

Receive == thread = "idle" /\ packets < MaxPackets /\ packets' = packets + 1

-----------------------------------------------------------------------------
(* Variants of the definitions below, as a slip in the code would have     *)
(* them; each shows that some property notices.                            *)

BlankEntry(n) == [registered EXCEPT ![n] = None]
BeforeAscending(x, y) == x[1] < y[1] \/ (x[1] = y[1] /\ x[2] <= y[2])
BeforeLatest(x, y) == x[1] > y[1] \/ (x[1] = y[1] /\ x[2] >= y[2])

-----------------------------------------------------------------------------
(* The handlers.                                                           *)

(* The server enters the table, replacing one of the same name, and its    *)
(* name is added to the bucket of its priority, even if it is there.       *)
OnLinkServerPacket(n) ==
  /\ Receive
  /\ registered' = [m \in Registered \cup {n} |->
                      IF m = n THEN <<n, packets>> ELSE registered[m]]
  /\ serverPriorities' = [serverPriorities EXCEPT ![PriorityOf[n]] = Append(@, n)]
  /\ thread' = "linking"
  /\ UNCHANGED <<server, held, where>>

RemoveServer(n) == [m \in Registered \ {n} |-> registered[m]]

(* The server leaves the table; its name stays in its bucket.              *)
OnUnlinkServerPacket(n) ==
  /\ Receive
  /\ IF n \in Registered
     THEN /\ registered' = RemoveServer(n)
          /\ thread' = "unlinking"
     ELSE UNCHANGED <<registered, thread>>
  /\ UNCHANGED <<serverPriorities, server, held, where>>

(* The first name, from the highest priority down and in the order of its  *)
(* bucket, that is in the table.                                           *)
Candidates == {x \in Priority \X (1 .. packets) :
                 /\ x[2] \in DOMAIN serverPriorities[x[1]]
                 /\ serverPriorities[x[1]][x[2]] \in Registered}

Before(x, y) == x[1] > y[1] \/ (x[1] = y[1] /\ x[2] <= y[2])

(* The default is left as it was when no server is in the table.           *)
RecomputeServerJoinOrder ==
  /\ thread \in {"linking", "unlinking"}
  /\ thread' = "idle"
  /\ IF Candidates = {}
     THEN UNCHANGED server
     ELSE LET best == CHOOSE x \in Candidates : \A y \in Candidates : Before(x, y)
          IN server' = registered[serverPriorities[best[1]][best[2]]]
  /\ held' = held \cup {server'}
  /\ UNCHANGED <<registered, serverPriorities, where, packets>>

(* A player who is online is connected to the server; for a name that is   *)
(* not in the table connect is called with null, which it rejects with an  *)
(* exception that nothing on the thread catches.                           *)
OnTransportPlayerPacket(p, n) ==
  /\ Receive
  /\ IF where[p] = None
     THEN UNCHANGED <<where, thread>>
     ELSE IF n \in Registered
          THEN where' = [where EXCEPT ![p] = registered[n]] /\ UNCHANGED thread
          ELSE thread' = "dead" /\ UNCHANGED where
  /\ UNCHANGED <<registered, serverPriorities, server, held>>

-----------------------------------------------------------------------------
(* BungeeCord's threads.                                                   *)

(* A player joins and is sent where the reconnect handler says.            *)
Join(p) ==
  /\ where[p] = None
  /\ \E s \in held \ {None} : where' = [where EXCEPT ![p] = s]
  /\ UNCHANGED <<registered, serverPriorities, server, held, thread, packets>>

Quit(p) ==
  /\ where[p] # None
  /\ where' = [where EXCEPT ![p] = None]
  /\ UNCHANGED <<registered, serverPriorities, server, held, thread, packets>>

Init ==
  /\ registered = [n \in {} |-> None]
  /\ serverPriorities = [b \in Priority |-> <<>>]
  /\ server = None
  /\ held = {None}
  /\ thread = "idle"
  /\ where = [p \in Player |-> None]
  /\ packets = 0

Next ==
  \/ \E n \in Name : OnLinkServerPacket(n) \/ OnUnlinkServerPacket(n)
  \/ RecomputeServerJoinOrder
  \/ \E p \in Player, n \in Name : OnTransportPlayerPacket(p, n)
  \/ \E p \in Player : Join(p) \/ Quit(p)

Spec == Init /\ [][Next]_vars

-----------------------------------------------------------------------------
(* Properties.                                                             *)

(* Every variable holds a value of its Java type.                          *)
TypeOK ==
  /\ Registered \subseteq Name
  /\ \A n \in Registered : registered[n] \in {n} \X (0 .. MaxPackets)
  /\ serverPriorities \in [Priority -> Seq(Name)]
  /\ server \in held /\ held \subseteq ServerInfo \cup {None}
  /\ thread \in {"idle", "linking", "unlinking", "dead"}
  /\ where \in [Player -> ServerInfo \cup {None}]
  /\ packets \in 0 .. MaxPackets

IsDefault(n) == n \in Registered /\ server = registered[n]

(* "The server with the highest priority has all players forwarded to it   *)
(* on join" (controller/src/transport.rs:51), for the default, on the      *)
(* listener's thread: between two packets, if any server is linked, it is  *)
(* the linked server, as last linked, of a name no other linked name has a *)
(* higher priority than.  Names that were unlinked and linked again, in    *)
(* any order, do not disturb this.  Join reads the default on another      *)
(* thread and need not find the last one.                                  *)
DefaultIsBest ==
  thread \in {"idle", "dead"} /\ Registered # {} =>
    \E n \in Registered :
      IsDefault(n) /\ \A m \in Registered : PriorityOf[m] <= PriorityOf[n]

FirstLinked(n) ==
  CHOOSE i \in DOMAIN serverPriorities[PriorityOf[n]] :
    /\ serverPriorities[PriorityOf[n]][i] = n
    /\ \A j \in 1 .. i - 1 : serverPriorities[PriorityOf[n]][j] # n

(* The default does not change without need: one that stays linked gives   *)
(* way only to a server of higher priority, or of the same and linked for  *)
(* the first time before it.                                               *)
DefaultSticky ==
  [][\A n, m \in Registered :
       IsDefault(n) /\ n # m /\ server' = registered[m] =>
         \/ PriorityOf[m] > PriorityOf[n]
         \/ PriorityOf[m] = PriorityOf[n] /\ FirstLinked(m) < FirstLinked(n)]_vars
=============================================================================

------------------------------- MODULE System -------------------------------
(***************************************************************************)
(* The controller (Brain) together with the listener of the proxy it talks *)
(* to (ProxyPacketListener): what the brain writes is what the listener    *)
(* handles, one packet after the other, and an exception nobody catches in *)
(* the listener closes the connection the brain cannot live without.       *)
(* Players join through the proxy and ask from the server they are on.     *)
(***************************************************************************)
EXTENDS Brain

CONSTANT MaxPackets  \* bound: packets the listener handles

LinkName ==
       {Preset[s].name : s \in DOMAIN Preset}
  \cup (({"Lobby"} \cup MinigameKind) \X (0 .. Cardinality(Server)))

(* Kind::priority, for a server is named after its kind.                   *)
PriorityOf ==
  [n \in LinkName |-> IF n[1] = "Lobby" THEN 2 ELSE IF n[1] = "Limbo" THEN 1 ELSE 0]

ASSUME SystemAssumption ==
  /\ MaxPackets \in Nat
  /\ IsFiniteSet(Server) /\ None \notin LinkName
  /\ \A s \in DOMAIN Preset : Preset[s].name[1] = Preset[s].kind

VARIABLES registered, serverPriorities, server, held, thread, where, packets

listener == <<registered, serverPriorities, server, held, thread, where, packets>>

Listener == INSTANCE ProxyPacketListener WITH Name <- LinkName, Player <- Served

-----------------------------------------------------------------------------
(* The next packet goes to its handler.                                    *)
ListenerReads ==
  /\ ProxyReads
  /\ LET packet == Head(to_proxy) IN
     \/ packet.type = "LinkServer" /\ Listener!OnLinkServerPacket(packet.name)
     \/ packet.type = "UnlinkServer" /\ Listener!OnUnlinkServerPacket(packet.name)
     \/ /\ packet.type = "TransportPlayer"
        /\ Listener!OnTransportPlayerPacket(packet.player, packet.name)

InUse(s) == proxy_server # None /\ s = proxy_server[1]

(* The exception that ends the listener's thread leaves the try statement, *)
(* which closes the connection; nothing makes another one.                 *)
ThreadUnwinds ==
  /\ BrainAlive
  /\ thread = "dead"
  /\ \E s \in Server : InUse(s) /\ Open(s) /\ Disconnected(s)
  /\ UNCHANGED <<stopped, listener>>

Reconnects(s) == (InUse(s) => thread # "dead") /\ Connect(s)

(* The other steps of the proxy's threads.                                 *)
ProxyStep ==
  /\ BrainAlive
  /\ \/ Listener!RecomputeServerJoinOrder
     \/ \E r \in Served : Listener!Join(r) \/ Listener!Quit(r)
  /\ UNCHANGED vars

(* A player asks from a server that players were sent to when they joined. *)
PlayerAsks(c, r) ==
  /\ ReadRequest(c, r)
  /\ r \in Served => \E s \in held \ {None} : s[1] = NameOf(c)

SystemInit == Init /\ Listener!Init

SystemNext ==
  \/ ListenerReads \/ ThreadUnwinds \/ ProxyStep
  \/ /\ \/ Tasks
        \/ \E c \in Conn, r \in Request : PlayerAsks(c, r)
        \/ \E s \in Server : Reconnects(s) \/ SeesEnd(s) \/ Breaks(s) \/ Stops(s)
     /\ UNCHANGED listener

SystemSpec == SystemInit /\ [][SystemNext]_<<vars, listener>>

-----------------------------------------------------------------------------
(* Properties.                                                             *)

(* "The server with the highest priority has all players forwarded to it   *)
(* on join" (controller/src/transport.rs:51), as far as the listener keeps *)
(* it: once things settle, the default is a server that is connected to    *)
(* the controller, and of the best kind among those the proxy knows,       *)
(* whatever connections broke, servers came back and packets came late.    *)
(* Where a player who joins goes is another matter: BungeeCord's threads   *)
(* read the default from a plain field, and may find an old one (Join).    *)
DefaultIsBestConnected ==
  Settled /\ thread = "idle" /\ Listener!Registered # {} =>
    \E s \in Connected :
      /\ Listener!IsDefault(ident[s].name)
      /\ \A n \in Listener!Registered : PriorityOf[n] <= PriorityOf[ident[s].name]

(* The listener's thread is not ended by the controller's own doing: only  *)
(* a server whose connection ended can be one the proxy does not know when *)
(* it is told to send a player there.                                      *)
ListenerEndsOnlyAfterLoss ==
  thread = "dead" => \E c \in Conn : task[c] = "done" /\ KindOf(c) # "Proxy"

(* "if we lose the connection to our proxy (which should be on the same    *)
(* machine), that something so terrible has happened that it's worth it to *)
(* abandon ship" (controller/src/brain.rs:92): the connection is lost, and *)
(* the brain ends, only when the proxy's process has stopped.              *)
BrainEndsWithProxyProcess ==
  phase = "dead" => proxy_server # None /\ proxy_server[1] \in stopped
=============================================================================

----------------------- MODULE MCProxyPacketListener -----------------------
(* Instances of ProxyPacketListener for TLC: two lobbies of the same       *)
(* priority and a minigame server.                                         *)
EXTENDS ProxyPacketListener

CONSTANTS lobby, lobby2, minigame

MCPriorityOf == [n \in Name |-> IF n = minigame THEN 0 ELSE 2]
=============================================================================

------------------------------ MODULE MCBrain ------------------------------
(* Instances of Brain for TLC.  The proxy p and whatever else runs before  *)
(* the brain starts containers; s1, s2 and s3 are the containers to come.  *)
EXTENDS Brain, TLC

CONSTANTS p, q, old, s1, s2, s3

ProxyId    == [kind |-> "Proxy", name |-> ProxyName]
MinigameId == [kind |-> "mg", name |-> <<"mg", 0>>]

(* The normal start: only the proxy runs.                                  *)
OneProxy   == (p :> ProxyId)

(* An operator's minigame server runs, under a name no container gets.     *)
WithOther  == (p :> ProxyId @@ old :> [MinigameId EXCEPT !.name = <<"mg", 7>>])

(* Someone starts a second proxy.                                          *)
TwoProxies == (p :> ProxyId @@ q :> ProxyId)

(* Players ask for minigames, as /request does.                            *)
Minigames  == [r \in Request |-> "mg"]

(* Servers that keep their connection, and a proxy that may lose it once.  *)
Once       == [s \in Server |-> 1]
ProxyTwice == [s \in Server |-> IF s = p THEN 2 ELSE 1]
=============================================================================

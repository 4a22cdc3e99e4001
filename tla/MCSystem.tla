------------------------------ MODULE MCSystem ------------------------------
(* Instances of System for TLC, with the constants of MCBrain.  The bound  *)
(* of packets is above what the instances can make the brain write.        *)
EXTENDS System, TLC

CONSTANTS p, q, old, s1, s2

ProxyId     == [kind |-> "Proxy", name |-> ProxyName]
MinigameId  == [kind |-> "mg", name |-> <<"mg", 7>>]

(* The normal start: only the proxy runs.                                  *)
OneProxy    == (p :> ProxyId)

(* An operator's minigame server runs, and a second proxy.                 *)
TwoAndOther == (p :> ProxyId @@ q :> ProxyId @@ old :> MinigameId)

(* Players ask for minigames, as /request does.                            *)
MCWants     == [r \in Request |-> "mg"]

(* Servers that keep their connection, and an operator's server that loses *)
(* it once.                                                                *)
Once        == [s \in Server |-> 1]
OldTwice    == [s \in Server |-> IF s = old THEN 2 ELSE 1]

(* The two proxies start alike.                                            *)
Proxies     == Permutations({p, q})
=============================================================================

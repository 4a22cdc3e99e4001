------------------------- MODULE MCMinigameCluster -------------------------
(* Instances of MinigameCluster for TLC.                                   *)
EXTENDS MinigameCluster

CONSTANTS c1, c2, c3, n1, n2, r1, r2, r3

(* c2 has the name of c1: the server n1 reconnecting, or a second server   *)
(* that was given the same name.                                           *)
MCNameOf == [c \in Conn |-> IF c = c3 THEN n2 ELSE n1]

(* i32::MIN: the label wraps after one or two rounds of these instances.   *)
MCMinTimer == -2

(* No property tells one request from another.                             *)
Symmetry == Permutations(Request)
=============================================================================

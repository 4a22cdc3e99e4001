---------------------------- MODULE QueueService ----------------------------
(***************************************************************************)
(* What a minigame cluster promises to the brain, without timers, pings or *)
(* message loops: servers join and leave, requests for a server are        *)
(* submitted, and a submitted request stays pending until it is answered,  *)
(* once, with the name of a server that is a member of the cluster at that *)
(* moment.  MinigameCluster implements this specification.                 *)
(***************************************************************************)
CONSTANTS
  Request,   \* the one-shot reply channels handed out by queue_server()
  Name,      \* names of minigame servers
  None       \* "not answered yet"

VARIABLES
  pending,   \* requests submitted and not yet answered
  members,   \* names of the servers registered with the cluster
  answer     \* what each request was answered with

vars == <<pending, members, answer>>

Init ==
  /\ pending = {}
  /\ members = {}
  /\ answer = [r \in Request |-> None]

(* MinigameClusterHandle::queue_server: a new reply channel is handed in.  *)
Submit(r) ==
  /\ r \notin pending
  /\ answer[r] = None
  /\ pending' = pending \cup {r}
  /\ UNCHANGED <<members, answer>>

Join(n) ==
  /\ members' = members \cup {n}
  /\ UNCHANGED <<pending, answer>>

Leave(n) ==
  /\ members' = members \ {n}
  /\ UNCHANGED <<pending, answer>>

Reply(r, n) ==
  /\ r \in pending
  /\ pending' = pending \ {r}
  /\ answer' = [answer EXCEPT ![r] = n]

(* A member that said it accepts players gets the player.                  *)
Answer(r, n) ==
  /\ n \in members
  /\ Reply(r, n)
  /\ UNCHANGED members

(* A server started on demand gets the player as it joins.                 *)
JoinAndAnswer(r, n) ==
  /\ Reply(r, n)
  /\ members' = members \cup {n}

Next ==
  \/ \E r \in Request : Submit(r)
  \/ \E n \in Name : Join(n) \/ Leave(n)
  \/ \E r \in Request, n \in Name : Answer(r, n) \/ JoinAndAnswer(r, n)

Spec == Init /\ [][Next]_vars
=============================================================================

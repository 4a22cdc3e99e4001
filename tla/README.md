# A TLA+ model of ephemeral-minigame-server

The system starts Minecraft minigame servers when players ask for one. A
*controller* (Rust, `src/controller`) starts containers and talks over TCP to a
*proxy* (BungeeCord with the plugin in `src/serverplugin`) and to lobby and
minigame *servers* (Bukkit with the same plugin). This directory models the
controller, and the proxy's and the servers' side of its protocol, model-checks them with TLC and
proves the safety properties that TLC checks with TLAPS, some of them under hypotheses that
section 4 names.

All paths below are relative to the repository, all modules to this directory.

## 1. The system

### Components

| Component | State it keeps | Operations | What makes it hard |
|---|---|---|---|
| **Minigame cluster** `controller/src/minigame_cluster.rs`, one task per minigame kind | `servers`, `state` (Idle, RecvPong, Starting, the last two with the reply channel of the request), `queue_reqs`, `timer_now` | PushServer, PopServer, UpdateActive, QueueServer, ServerPong, TimerCompleted | one request at a time, buffered requests, timers that cannot be cancelled, late pongs, a label that wraps, awaiting a socket inside the loop |
| **Brain** `controller/src/brain.rs`, one task | write halves of the proxy and the lobby, `used_names`, the handles of the clusters; while booting, a buffer | NewConn, Unlink, Dispatch, ClusterForward, Spawn, Transport; a boot loop that waits for the proxy | order of messages across boot, everything identified by name, errors and panics that end it in the middle of a handler |
| **Client connections** `controller/src/client.rs`, one task per TCP connection | a read half, the identity it authenticated with | authenticate and register; forward Request, UpdateActive, Pong; report the end | runs concurrently with the brain; its end and the brain's write half are independent |
| **Dispatch tasks** `brain.rs:275` | the receiving half of a reply channel | wait for a cluster, then send Transport | the answer is stale by the time it is used |
| **Computer map / HTTP API** `controller/src/http.rs` | names with a status | set, list | updated by the brain only, also on its way out |
| **Container spawner** `brain.rs:355` | none | start a container with a name | may fail, may never come up |
| **Proxy packet listener** `serverplugin/.../proxy/` | BungeeCord's table of servers, `serverPriorities`, the default server | link, unlink, transport; players joining | joins run on other threads; an uncaught exception ends the thread |
| **Server listener, commands** `serverplugin/.../server/` | `acceptingPlayers`, the current connection | answer a ping, `/close`, `/request` | commands and packets on different threads |
| **Plugin connection** `serverplugin/.../transport/` | socket, backoff | connect, read, write, reconnect | frames written in two steps by two threads; reconnects |
| Dashboard, debug minigame, images, scripts | none | | not modelled |

### Interactions

    plugin  --TCP-->  handle_client  --BrainMsg-->  brain  --TCP-->  proxy plugin
    server  <--TCP--  cluster (ping)                |   ^ Spawn, Transport
                      ^  ClusterMsg                 |   |
                      +-----------------------------+   +-- cluster, dispatch tasks

All channels inside the controller are unbounded and in order per sender. The
brain is the only one that writes to the proxy; a cluster is the only one that
writes to its servers. A player's request runs: server, `handle_client`, brain,
cluster, (timer, brain, container, `handle_client`, brain, cluster,) dispatch
task, brain, proxy.

### What makes each component correct

- Cluster: no reply channel is lost or used twice; buffered requests are looked
  at; a round always has its timeout; late pongs and timeouts are recognised; every request is
  answered.
- Brain: its tables, the clusters and the proxy agree on who is connected; it
  ends only with its proxy; names are unique; requests survive boot.
- Proxy: the default, which joining players are sent to, is the best server that is
  linked, and changes only when it must.
- A server and its connection: however its threads mix their frames and
  whenever its connection breaks, it ends up in its cluster with the connection it
  has, and active if it accepts players.
- Brain and proxy together: the default settles to a connected server, and neither
  side ends the other while all is well.

The hazards of the code, each with its line, are in `PROJECT.json`.

## 2. Modules

| Module | Models | EXTENDS / INSTANCE |
|---|---|---|
| `QueueService` | what a cluster promises: a submitted request is answered once, with a member | |
| `MinigameCluster` | `run_minigame_cluster`, with its timers, servers and connections as environment | `QueueService` (refinement) |
| `Brain` | `start`, `handle_client`, dispatch tasks, the name set, the computer map; a cluster by what `QueueService` says of it | |
| `ProxyPacketListener` | the proxy's listener and reconnect handler | |
| `System` | the controller and the proxy's listener as one system | `Brain`, `ProxyPacketListener` (composition) |
| `ServerConnection` | a minigame server: its two threads, its connections, their `handle_client` tasks, its entry in the cluster | |
| `MC*` | instances for TLC | the module they name |
| `ChannelLemmas` | sending on and receiving from a channel, removing from a vector | used by all proofs but the listener's |
| `MinigameClusterProofs` | types, wakeups, timers and conservation of requests | `MinigameCluster` |
| `MinigameClusterRoundProofs` | labels tell the rounds apart | `MinigameClusterProofs` |
| `MinigameClusterRefinement` | the cluster implements `QueueService` | `MinigameClusterProofs` |
| `BrainProofs` | theorems about `Brain` | `Brain` |
| `ProxyPacketListenerProofs` | theorems about the listener | `ProxyPacketListener` |
| `SystemProofs` | theorems about the two together | `System`, `BrainProofs`, `ProxyPacketListenerProofs` |
| `ServerConnectionProofs` | theorems about `ServerConnection` | `ServerConnection` |

### MinigameCluster

Variables have the names of the code's locals. `reader` is the task's channel;
the buffered requests and the state hold requests where the code holds the
sending half of their one-shot channel, and `answer` is what the channel
delivered. Each arm of the `match` is one action (`HandlePushServer`, ...).
`QueueServer` is the only arm with an await that others can see, the write of a
ping, so it is three: `HandleQueueServer` receives, `Ping` writes to the server
at `next_ping`, `StartTimer` ends the handler. A handler can only begin when
`next_ping = 0`. `Ping` is disabled while the socket is full, which is what
`await` does; to a connection that is gone the write fails and is logged.

The environment: `Dispatch` is the brain forwarding a request, `Connect` and
`Unlink` a connection that comes and goes (two connections may have the same
name: a reconnect), `ReadPing` a server that reads a ping and answers or not,
`SetActive` the `/close` command, `TimerFires` the end of a sleep. The hop
through the brain is left out: in its main loop it keeps the order of what one
connection sends, and the connections may interleave in any way (what the boot
buffer does to that order is in `Brain` and `ServerConnection`). `to_brain`
counts the Spawn messages nobody has acted on; a connection in `Started`
answers one of them, any other one connects on its own.

### Brain

`phase` is where `start()` is: `boot` (brain.rs:102), `resend` (127), `main`
(141), or over. A connection is the n-th one of a server process. It has three
parts that end separately: the server's end (`end`), the read half (`task`, the
state of its `handle_client`), and the write half, which lives as long as
somebody owns it (`Held`): a message on its way, the brain, or a cluster. A
server notices that its connection is closed when the write half is dropped
(`SeesEnd`).

Every handler is one action: the awaits in it are writes to the proxy and calls
of Docker, and nobody else writes what the brain keeps. A handler ends in
`GoOn`, `Fail` (an error is returned and the status set) or `Panic` (it is not);
a write to the proxy may fail once its connection is closed. A write that blocks
because the proxy does not read is not modelled.

A cluster is `members`, `pending` and an inbox: it handles its messages in
order and answers any pending request with the name of any member at any time.
`MinigameCluster` refines `QueueService`, which says the same. The identity of a
server of the operator, or of an earlier run, is given by `Preset`; containers
get theirs from `SpawnContainer`.

A request names the kind of server it wants (`Wants`): for a minigame it goes to a
cluster, for a lobby the handler meets a `todo!()` and panics, any other is
denied. The plugin's `/request` asks for minigames only, so no run has the others.

The model stops when the brain is over: every later send to it fails, and
nothing starts it again.

### ProxyPacketListener

A `ServerInfo` is a name and the packet that made it, for relinking a name makes
a new object. The handlers for link and unlink are two steps, the change of the
table and the recomputation of the default, between which other threads see the
table; a packet is taken only between two handlers. The field that holds the
default is not volatile, so a joining player may get any value it has held
(`held`), also a server that is unlinked by then. The properties are therefore about
the field, as the listener's thread leaves it; none is about where a player goes.

### System

`System` extends `Brain` and instantiates `ProxyPacketListener` with the names the
controller can link and the players whose requests are served. The two meet in
`ListenerReads`: the packet at the head of `to_proxy` is taken by `ProxyReads`
and, in the same step, by its handler. A player asks only from a server that
the reconnect handler sent joining players to (`PlayerAsks`). A handler that
threw leaves the thread dead; `ThreadUnwinds` is the end of the try
statement, which closes the connection, and nothing opens another one
(`Reconnects`), for the catch clause takes only an IOException.

### ServerConnection

One minigame server seen from both sides. `Thread` are the thread of
`ManagedControllerConnection` and Bukkit's main thread, which runs the commands.
`writing` holds, for each, the packet it is in the middle of: a frame is
two steps (`WriteNext`), its length on the connection the listener holds then,
its payload on the same one. `sent` is a stream of halves of frames; `handle_client`
takes a packet off it when a length is followed by its own payload. When
another frame's half comes in between, what is read in place of the payload begins
with the zero bytes of a length and decodes to no packet (`Garbled`).

A connection ends on the server's side when a write or a read fails, and in the
controller when the task meets an error (`ReadError`) or the last owner of the write
half drops it (`Held`). The cluster is its vector; `PopServer` and `SetActive`
take the first entry of the name, as the code does.

The server may connect before the proxy (one of an operator, or of an earlier run of the
controller) or after it (a container always does). Before, it meets the boot loop: `Buffer`
puts its messages aside, and `Resend` sends them again, one at a time, behind what came in the
meantime (brain.rs:102-129). With that an Unlink can overtake the NewConn of its connection, and an old
update can undo a newer one; `aside` remembers whether anything was put aside. In the main loop the
brain passes messages on in order, so that its channel and the cluster's are one queue,
`messages`. What the brain drops because no cluster exists yet (brain.rs:216, 234) finds an
empty vector here.

## 3. Runs

TLC checks deadlock nowhere: all systems may stop (no more requests, the brain
over, the bound of packets reached).

| Run | Checks | Instance |
|---|---|---|
| `cluster_safety` | types, `RequestConserved`, `NoLostWakeup`, `RoundHasTimer`, `StaleEventsIgnored`, `AnsweredByPingedServer`, `ImplementsQueueService` | 3 requests, 2 connections of the same name, one of them started on demand, sockets of 1 ping, labels -2..1, 1 update |
| `cluster_live` | `EveryRequestAnswered`, `RoundEnds` | 2 requests, 3 connections, 2 of them started on demand, sockets of 2 |
| `cluster_block` | `LoopNeverBlocks`, violated | as above with a socket of 1 |
| `brain_safety` | agreement of all tables, conservation of requests, order of transports, the brain's end | proxy whose connection may break and come back, an early server, 2 containers, one of which may stop, 1 request |
| `brain_live` | `UniqueNames`, `StoppedServersUnlinked`, `RequestsServed` | proxy, 3 containers, 2 requests, one of them without a player; one container may stop, and have `/close` run on it |
| `brain_boot`, `brain_second_proxy`, `brain_close` | one property each, violated | the smallest instance that shows it |
| `system_faults` | `DeadServersUnlinked`, `ClustersAgree`, `RequestsConserved`, `DefaultIsBestConnected`, `ListenerEndsOnlyAfterLoss` | 2 proxies, a server whose connection breaks and comes back, 1 container, 1 player, Docker may fail; the proxies are symmetric |
| `system_cascade` | `BrainEndsWithProxyProcess`, violated | proxy, a lobby, a minigame server that may stop, 1 player |
| `proxy_safety` | types, `DefaultIsBest`, `DefaultSticky` | 2 lobbies, a minigame server, 1 player, 6 packets |
| `connection` | types, `TableHeals`, `WillingServerActive`, `ConfirmedRequestsArrive`, `EventuallyRegistered` | 2 commands (`/close` with either value, `/request` once), 1 round of pings, 1 broken or refused connection, 6 connections; the proxy connects at any moment |

Why these bounds are enough. The cluster works on one request at a time, so
three requests give one in work, one buffered and one on its way, which is
where they can be confused. Four labels and a round or two per request make
labels wrap while older events are about. Two connections of one name
are what the tables by name can confuse. In the brain two containers are a
lobby and a minigame server, three add a second minigame server, which
can get the name of one that stopped; one request
visits every queue. The default of the proxy depends on the first link of a
name and on relinks: six packets relink two names in another order. In
`System` ten packets are more than the instances can make the brain write. In
`ServerConnection` two commands can each spoil a frame, or set the flag to and
fro; together with a break they lead to at most five connections, so that the
bound of six is never what keeps the server from connecting. `TableHeals`
was reached with the wrong entry taken out: an old connection's task that is
slow to authenticate enters its server behind the new connection, and its end
then takes out the new one.

The label of a round has the width of the instance, not 32 bits. No property
depends on it except that a label must not come back while an event with that label
is still pending: the instances allow at most as many rounds as requests, and
the code needs that fewer than 2^32 rounds end in the second a timer sleeps.

### Fairness

`MinigameCluster!FairSpec`: tokio runs a task that can run (weak fairness of the
loop and of the timers), and Docker brings up what it was told to
(`Connect` of a started server). Nothing is assumed of servers that run: they may
never read nor answer. `EveryRequestAnswered` therefore needs sockets that have
room for the pings of all rounds; `cluster_block` shows what happens otherwise.

`ServerConnection!FairSpec`: the plugin's threads and tokio's tasks run. A
thread that has something to read, write or connect does so in the end, and both
ends of a broken connection come to see it (TCP reports it to whoever writes, or
the other end's close does). No command is ever due, nor a ping, nor that a proxy
connects: `EventuallyRegistered` excepts a brain that stays in its boot loop.

`Brain!FairSpec`: weak fairness of the brain, of the clusters, of the dispatch
tasks, of the proxy reading its connection, of `handle_client` tasks and of
servers connecting. A cluster that has a pending request and may ask for
a server does so: that is its timer.

### Disagreements found

1. `cluster_block`: a comment says the loop can never block
   (`minigame_cluster.rs:98`); the write of a ping does (`:179`).
2. `brain_boot`: the boot buffer is sent behind newer messages (`brain.rs:127`);
   an Unlink overtakes its NewConn and a dead server stays linked.
3. `brain_second_proxy`: a second proxy is "not handled" (`brain.rs:158`), yet the
   end of its connection panics the brain (`:207`). The same happens to a proxy that
   comes back before its old connection was registered or seen to end, which is why
   `brain_safety`, where it may, only checks `BrainEndsAfterProxyLoss`.
4. `brain_close`: `/close` on a lobby ends its read loop (`client.rs:126`) while the
   brain keeps its write half: the lobby is unlinked and never reconnects.
5. `system_cascade`: a minigame server answers and stops; it is unlinked before the
   player is moved; the proxy's listener misses a `return`
   (`ProxyPacketListener.java:125`) and calls `connect(null)`; the exception ends
   the listener's thread and closes its connection, and the brain panics.

Four more have no run. A panic skips the line that takes the brain off the
dashboard (`brain.rs:72`), so that a dead brain is shown as online. When the last server is unlinked, the default stays
(`ProxyPacketListener.java:155`) and joining players are sent to a server that
players should not be routed to "in any circumstance" (`transport.rs:81`).

A server may reconnect before its old connection was read to its end. The old
Unlink (`brain.rs:201`) then takes the name of a connected server out of the brain's
tables and the proxy's, and nothing links it again: `LiveServersLinked` fails, so that in
`brain_safety` only the proxy reconnects, and `system_faults`, where a server does, checks
what holds with it. The cluster's table does heal from this (`TableHeals`, `ClustersAgree`),
because it drops the connection with the entry; the others hold names only.

The resend of the boot buffer (`brain.rs:127`) also breaks `TableHeals`,
`EventuallyRegistered` and `WillingServerActive`, which are therefore stated for a brain that put
nothing aside: an Unlink that overtook its NewConn leaves the server in the vector twice
once it reconnects, and an old `/close false` handled after a newer `/close true`
leaves a server inactive that accepts players, though "an active minigame server will
receive" pings (`transport.rs:115`).

## 4. Theorems

TLAPS proves every safety property that the passing runs check, each for every
value of the constants that the module's assumption allows. What a theorem
assumes beyond that is a named hypothesis, stated in the theorem:

| Theorem | States | Hypothesis |
|---|---|---|
| `MinigameClusterProofs` | | |
| `TypeCorrect` | `TypeOK` | |
| `WakeupNeverLost` | `NoLostWakeup` | |
| `RoundAlwaysHasTimer` | `RoundHasTimer` | |
| `RequestsAreConserved` | `RequestConserved` | |
| `MinigameClusterRoundProofs` | | |
| `StaleEventsAreIgnored` | `StaleEventsIgnored` | `LabelsSuffice` |
| `AnswersComeFromPinged` | `AnsweredByPingedServer` | `LabelsSuffice` |
| `MinigameClusterRefinement` | | |
| `ClusterImplementsQueueService` | `ImplementsQueueService` | |
| `BrainProofs` | | |
| `BrainTypeCorrect` | `TypeOK` | |
| `BrainOutlivesServers` | `BrainEndsAfterProxyLoss` | `NoOtherEnd` |
| `TransportsFollowLinks` | `TransportFollowsLink` | |
| `RequestsAreNeverLost` | `RequestsConserved` | |
| `DeadServersAreUnlinked` | `DeadServersUnlinked` | `NoEarlyServers` |
| `BooksAlwaysAgree` | `BooksAgree` | `PresetsNamedByKind` |
| `ClustersAlwaysAgree` | `ClustersAgree` | `NoEarlyServers` |
| `LiveServersAreLinked` | `LiveServersLinked`, as long as `OnlyMinigamesClose` | `NoEarlyServers`, `[]NamesTakeTurns` |
| `NamesStayUnique` | `UniqueNames` | |
| `ProxyPacketListenerProofs` | | |
| `ProxyTypeCorrect` | `TypeOK` | |
| `DefaultIsAlwaysBest` | `DefaultIsBest` | |
| `DefaultIsSticky` | `DefaultSticky` | |
| `SystemProofs` | | |
| `RequestsAreNeverLostInSystem` | `RequestsConserved` | |
| `ListenerOutlivesController` | `ListenerEndsOnlyAfterLoss` | |
| `DeadServersAreUnlinkedInSystem` | `DeadServersUnlinked` | `NoEarlyServers` |
| `DefaultIsBestInSystem` | `DefaultIsBestConnected` | `NoEarlyServers` |
| `ServerConnectionProofs` | | |
| `ConnectionTypeCorrect` | `TypeOK` | |
| `TableHealsAfterReconnect` | `TableHeals` | |
| `ConfirmedRequestsAreKept` | `ConfirmedRequestsArrive` | |
| `WillingServersAreActive` | `WillingServerActive` | |

### What is assumed

The modules' assumptions (`ConfigAssumption`, `BrainAssumption`,
`ProxyAssumption`, `SystemAssumption`, `ConnectionAssumption`) type the constants,
keep `None` apart from the values it stands beside (identities and connections
among them), and say what the code fixes: the proxy's name, and that minigame kinds are
not the words the controller reserves. `System` needs finitely many servers: a name
made up for a container counts what is in use, so it stays below their number.
TLC evaluates them in every run.

The hypotheses are needed:

- `LabelsSuffice`: fewer requests than labels. Labels wrap, so an event that
  lingers for a whole turn of them is taken for one of the current round.
  `cluster_safety` has one label more than it has requests, the least the
  hypothesis allows; in the code there are 2^32.
- `NoOtherEnd`: Docker does not fail, no request asks for a lobby, no limbo server
  runs. Each of these ends the brain, by a `?` or a panic, with the proxy connected.
- `NoEarlyServers`: no game server of an earlier run is there before the proxy.
  `brain_boot` shows that `DeadServersUnlinked` fails when one is, as an Unlink may overtake
  its NewConn; the cluster then keeps the connection as well.
- `PresetsNamedByKind`: an operator names a server like a container, the kind
  first. A game server with the name of the brain or of the proxy would share its line
  on the dashboard, and its end would show them as offline.
- `NamesTakeTurns`, in every state: no two connections of one name are read at a time. Servers
  may reconnect as often as they like, as long as the old connection is read to its
  end before the new one registers, which is the order in which an end that is seen at
  once comes; section 3 says what the other order does. It also keeps two servers that were
  given one name apart.
- `OnlyMinigamesClose`: `/close` was run on minigame servers only. It is a state
  predicate, so the theorem says that the property holds until somebody closes a
  lobby; `brain_close` shows that it may fail then.

`UniqueNames` needs no hypothesis because it says itself when a name can be
doubled: when a server of that name went `Astray`, which is to say that it goes on after it lost a
connection, or was there before the brain and connected.

`brain_live` satisfies all hypotheses about `Brain` but `OnlyMinigamesClose`, and
`system_faults` all but `NoOtherEnd` and `NamesTakeTurns`. `brain_safety` has an
early server and lies outside `NoEarlyServers`: the run checks the tables where the
theorems about them do not reach, with a server that does not stop.

### How the proofs go

Each theorem has an inductive invariant and one lemma per action, or per group of
actions that touch the same variables; the temporal step combines them.
`ChannelLemmas` has what all of them need of channels, which are sequences: what
is on a channel, how often, what is behind what, after a send and a receive.

**Cluster.** `TypeOK` is not inductive: `StartTimer` puts the request of `state` in
a timer, which has a type only if the state is `RecvPong` whenever the ping loop
runs. `TypeInv` is `TypeOK` with that fact (`PingsInRound`). `NoLostWakeup` is
inductive over it: every step that ends in Idle either finds the buffer empty or
queues its head, and the only step that takes a `QueueServer` off the channel
while Idle leaves Idle. `RoundHasTimer` is too, because a timer started for
a round is labelled `timer_now`, and handling that very message ends the round.
For `RequestConserved` the places of a request are counted: `OnePlace` says each
unanswered one is on the channel, in the buffer or in the state, once and in one
of them. `RoundInv` is about labels: `timer_now` is the label of the number of rounds
that are over, and every timer, pong and ping is outdated (it has the label of an
earlier round) or belongs to the round that runs; labels of different rounds differ
under `LabelsSuffice`.

**Refinement.** The members of `QueueService` are the names in the vector and those in
the PushServer and PopServer messages ahead; `MemberInv` says that each
connection's messages follow its life, and that whoever can answer a ping is a
member. Every step is then a `Submit`, `Join`, `Leave`, `Reply` or a stutter. This is
what lets `Brain` stand on `QueueService` in place of the cluster.

**Brain.** The lemmas are proved for `Step`, which is `Next` or the proxy hanging up
in the middle of a step, so that `SystemProofs` can use them for `ThreadUnwinds` as well.
`EndInv`: a brain that is over has met a closed connection of a proxy. `LinkInv`
follows a name from the message that links it to the cluster, its answer and the transport:
the packet that links a name was written before anyone can answer with it.
`ConserveInv` names the stages of a request and says it is in one of them, once,
through the boot buffer that is sent again. `DeadInv` says of every name on its way to
the proxy's table that a connection of it reads, or its Unlink is still to come behind
it: in the brain's channel, on the proxy's connection, or in the table.
`BooksInv` relates the books to what the proxy *will* route to once it has read what was
written (`Routed`): the brain changes its books and writes to the proxy in one
handler, so the two agree in every state of the main loop, not only at rest.

**Brain, tables by name.** Two servers may have one name, and a server may come back before
its old connection was seen to end, so `PopServer`, which takes out the first entry of the
name, may take out the wrong one. What is inductive is a count: for each name, the vector of a
cluster has as many entries as there are connections of that name which the cluster
was told of and not yet told the end of (`CountInv`, over `Counted`). `LifeInv` and `VectorInv` follow a
connection from its task through the brain's channel and the cluster's: it is announced
once, and its end once and later. At rest every connection that is counted is read and
open; whoever is open holds its write half (`Settled`), which only the vector can do, so
that each counted connection is an entry; as there are no more entries than connections of the name, the
entries are these, each once (`SettledCounts`, `SettledNames`). `ClosedInv` says that the
task of a connection that is open has not ended unless `/close` ended it.

**Brain, links.** `TurnInv`: the end of an old connection of a name is on the brain's channel
before the NewConn of the new one, and a connection that is read and was announced is routed to
(`Routed`, as in `BooksInv`). It needs `NamesTakeTurns`, without which the old end may come second.

**Brain, names.** `NameInv` is about names nobody went astray with. Their holders have made one
connection at most (`FirstOnly`), which lays claim to the name until the brain handled its end;
the name is used meanwhile, so `NextFreeName` does not give it out, and no two connections claim it
(`NamesInv`). The one Spawn of a lobby is on its way or was acted on (`OneLobby`), so there
is one lobby that was started.

**Proxy listener.** `TableInv` relates the priority buckets to the table: a linked name is in
the bucket of its priority, so the highest bucket that has a linked name is the best server.

**System.** `BrainMoves` and `ListenerMoves` show that a step of `System` is a step of `Brain`
and of `ProxyPacketListener`, or none, so the invariants of both carry over. `ListenInv`
adds that the table of the listener is what `Brain` calls `linked`, and with `LinkInv` it
shows that the listener is told to move a player to an unknown server only after a loss.

**Server connection.** `TypeInv` says which thread may write on which connection, and what
a task that reads has authenticated with. `TableInv` is a count: the entries of the vector and the
connections that joined on the channel are, together, as many as the connections whose
end is still to come, so that at rest what is left is the connection the
server has; it needs `~aside`, as each end must come behind its beginning. `RequestInv`
follows a packet from the thread's two writes through the stream of halves, the boot
buffer and the channel to the dispatch. `WillInv` says that every update that makes an
entry inactive is undone by something still on its way, if the server accepts players:
an update behind it, the end of the connection whose entry it hits, or the packet the
main thread is about to write.

### What is only model-checked

- Liveness (`EveryRequestAnswered`, `RoundEnds`, `StoppedServersUnlinked`, `RequestsServed`,
  `EventuallyRegistered`): these rest on fairness, thus on ENABLED, which TLAPS does not
  handle.
- The tables of `Brain` with a server that is there before the proxy: as long as it does not
  stop, `brain_safety` finds them right.
- The refinement of `QueueService` by the cluster inside `Brain`: `Brain` has the same
  steps by definition (`ClusterAnswers`, `ClusterReceives`), not by a proof.

## 5. Not modelled

- MessagePack; the HTTP server and the dashboard; images and scripts.
- Packets a well-behaved plugin does not send, and addresses that do not parse.
- Limbo servers, which nothing in the repository starts: `ServerJoins` has the
  branch that panics, no run enters it.
- Connections that die without a word to either end. A side that only reads never
  learns of it, for the code sets neither timeouts nor keepalives.
- A write to the proxy that blocks because the proxy does not read.
- Time: the backoff is a number of seconds nobody waits, a timer fires at any
  moment after it was started.
- What BungeeCord and Bukkit do beyond the calls the plugins make.
- The growth of queues and of the priority buckets.

## 6. Plan

Done: the cluster and its abstract service; the brain; the proxy's listener; the
two composed; a server's connection from both ends; the proofs of section 4.
Left, in this order:

1. `ClustersAgree`, `LiveServersLinked` and `BooksAgree` carried over to `System`, as
   `DeadServersUnlinked` and `RequestsConserved` are.
2. A hypothesis weaker than `NoEarlyServers`: early servers that keep their connection until the
   resend is over.
3. Where a player goes, in terms of what `held` may still hold.

# OTE-Stack in TLA+

OTE-Stack connects Kubernetes and k3s clusters into a tree. A *cluster controller* runs beside
every cluster; it keeps a connection to its parent and serves connections of its children. The
root cluster controller also serves the *controller manager* and writes `Cluster` resources. At
the edge, an *edge hub* keeps nodes working while the center is out of reach.

This directory holds TLA+ models of the parts of it where goroutines, connections and processes
meet, TLC configurations for small instances, and proofs for all instances. `PROJECT.json` maps
every definition to the lines it models.

## The system and its hard behaviours

| Part | State | Operations | What is hard |
|---|---|---|---|
| Tree (`clusterrouter`, `tunnel/edgetunnel`, `tunnel/cloudtunnel`) | neighbour maps, blacklist, connections | connect, reconnect, broadcast, update, close | stale and reordered broadcasts while clusters look for new parents |
| Sessions of a child (`cloudtunnel`, `clusterhandler`, `k8sclient`) | clients, Childs, route, Cluster resource | access, connect, register, close, unregister | goroutines of an old session run after the new one has begun |
| Routes (`clusterrouter`, `clusterhandler`, `edgehandler`) | subtree tables, queues | register, unregister, report | messages overtake each other and outlive connections |
| Edge handler (`edgehandler`) | report timers, stop tokens | connect and disconnect hooks, report | hooks run late, one token fits |
| Controller tunnel (`tunnel/controller_tunnel`) | channel, health flag, condition variable | read, reconnect, send, resend | the flag is shared, once without the lock |
| Leader election (`cmd/clustercontroller`, `tunnel`) | lease, leader address, redirects | elect, observe, start, redirect, go back | failover, chains of redirects |
| Dispatch (`clusterhandler`, `clusterselector`) | routes, selectors, responses | select, send, merge | selectors are rewritten at every level, over routes that change |
| Shim (`clustershim`, `edgehandler`) | one connected controller, a channel of one | dial, store, announce, read, answer, clear | check and store apart, answers to a connection that was replaced |
| Reports (`reporter`, `controllermanager`) | maps, versions, replicas | report, list, create, update, delete | a goroutine per event, conflicts, lost reports |
| Edge hub (`edgehub`, `loadbalancer`, `syncer`, `storage`, `server`) | cache, database, two remote flags | health check, start and stop syncers, serve | failing transitions, restarts, writes during an outage |
| Watches (`server/handler`, `syncer`) | subscribers, their lock and channels | list, subscribe, send, leave | sends under a lock that leavers need |
| Edge nodes (`controller/edgenode`) | nodes to patch | observe, record, patch | patches race with a node that is back |

All of these have a module. What is left out of each is said under *Not modelled*.

## Modules

**ClusterTree** (`MCClusterTree`, `ClusterTreeProofs`). One set of variables per cluster
controller: the three maps of `ClusterRouter`, `clients` of the cloud tunnel, parent, address and
blacklist of the edge tunnel. Goroutines that have been started and not run are bags (`closing`,
`outbox`): they run in any order. `MessageBags` has the operators on bags, for `SubtreeRoute` too;
it writes them out because the provers take several times as long with the module `Bags`. `late` is the message that went through the unbuffered
`EdgeToClusterChan` just before its connection was lost. Names stand for listen addresses. The
age of a blacklist entry is a free choice between `TryOldest` and `TrySame`. Any dial may fail.

**ChildSession** (`TunnelProofs`). One child at the root. A session is a dial with its
handler, its reader and the goroutines these start; each has its own program counter. The
apiserver answers every request, and `UpdateStatus` is one step because resource versions make
its retry loop one.

**ClusterRouter, SubtreeRoute** (`MCSubtreeRoute`, `SubtreeRouteProofs`). The table operations
of the router, and the clusters that exchange registrations, unregistrations and reports. A
handler is one step. Messages are bags, handled in any order, and a cluster reports whatever has
become of its earlier reports (`MaxReports` bounds those under way). A history variable,
`overtaken`, says that a parent has handled a message too late (`Outdated`): the unregistration of
a child that is registered again, or a registration or report of a child that is unregistered.
That `ChildMessageChan` drops messages when it is full and `sendToParent` gives up after a timeout
is left out.

**ControllerTunnel, OrderedQueue** (`TunnelProofs`). Reader and sender, one action
between two points where the other can interfere. The check of the flag and the wait are
separate steps. `OrderedQueue` is what the sender promises; the message in hand is the first of
its queue.

**SubtreeReporter** (`EdgeHandlerProofs`). Counts of timers by where they are, and tokens.

**LeaderRedirect** (`TunnelProofs`). Replicas with the callbacks of leader election, and
one tunnel. The lease stays with a replica whose process has ended until it runs out. `Start` of
the cluster handler is a step of its own, and ends the process when the replica listens already.
Election itself is external: one holder at a time, and a leader that cannot renew ends first.

**ControlDispatch** (run through `MCSubtreeRoute`; `SubtreeRouteProofs`). Requests on their way
down the routes of SubtreeRoute, as operators evaluated in every state of the routes:
`selectChild`, `sendToChild` and `handleMessageFromParent` give the copies of a request hop by hop
(`Copies`), `receiveMessageFromTunnel` says which of them are handled, and `mergeToApiserver`
takes the responses. A selector is a set of patterns and a pattern the set
of names it matches; a name used as a pattern matches every name it is a part of (`Containing`).
A request takes no time.

**ShimConnection, EdgeHandler** (`EdgeHandlerProofs`). The shim server with its one connection, and the requests of the
edge handler that cross it. A dial has a goroutine at the server with a program counter: check,
upgrade, store, announce, read, announce, clear. `isConnected` is a queue of length one, which
the k8s shim reads (`Consumer`) and the k3s shim does not. A history variable, `raced`, says that
two dials were between check and store together. `EdgeHandler` adds requests from the parent,
which go to a local shim or over the connection, and their responses.

**Reports, EdgeReporter, UpstreamProcessor, ReportPipeline** (`ReportPipelineProofs`,
`ReportSettledProofs`). `Reports` holds what is under way, counted and without an order; `EdgeReporter` the apiserver of the edge, the informer queues and
the reporters with the pod reporter's maps; `UpstreamProcessor` the replicas of the controller
manager, one request to the central apiserver per step, with conflicts (`fresh`) and retries.
`ReportPipeline` composes them and loses reports. The kind and whether reports are lightweight
are chosen at the start. `center` has a version and a status per name, as these are written by
two requests. `missed` is a history variable.

**EdgeStore, LoadBalancer, Syncers, EdgeServer, EdgeHub** (`MCEdgeHub`, `EdgeHubProofs`). One object of any
kind the hub serves. `EdgeStore` is the cache and the LevelDB, including the empty name under
which secrets and configmaps are created; `LoadBalancer` the health check with its signal, which
blocks until it is taken; `Syncers` the informers, StopChan and the merge; `EdgeServer` the
handlers of requests, which read the flag first and use the storage later. `EdgeHub` adds the
goroutine of `initEdgehub`, outages, and the end and restart of the hub. The informer of
client-go is external. A handler is one step: one that runs while `StopSyncer` closes StopChan
is taken to have ended before, and notifications not taken are dropped. In the code `StopSyncer`
does not wait for it, see *Not modelled*.

**WatchFilter, EdgeWatch** (`MCEdgeWatch`, `EdgeProofs`). `WatchFilter` has the filters of initial and later
events for every kind. In `EdgeWatch` every change starts a goroutine that takes the read lock
and sends to the subscribers one by one, over channels without a buffer; watchers subscribe and
leave under the write lock, and a writer that waits keeps new readers out, as `sync.RWMutex` does.
A change adds, updates or deletes the object. A watcher that has an event from its channel writes
it to its client, which takes as long as the client likes: neither `Fprintf` nor `Message.Send` to
a hijacked connection has a deadline. Clients may leave (`Disconnect`) or stay and stop reading
(`Stall`).

**EdgeNodes** (`EdgeProofs`). Kubelets, the lifecycle controller (both external), the informer queue of the edge
node controller, the map of nodes to patch with its mutex, and the patch loop. A kubelet posts
Ready as true or as false (`Posted`). `missed` is a history variable: the last request for an
EdgeNode failed, or was not made because no controller ran. `handleNodeDelete` panics when the
informer hands it a `DeletedFinalStateUnknown`, which comes after a watch that was interrupted
while a node was deleted; the end of the process at any time (`End`) stands for it.

Definitions called broken variants in the module headers are used nowhere in the
specifications. Putting one in the place of its original makes a property fail.

## Runs

| Run | Instance | Shows |
|---|---|---|
| `tree_recovery` | 4 clusters, established or one just joined, 1 fault | `LevelsKept`, `NoCycle`, `Reconnects` |
| `sessions` | 2 sessions, clock 0..2 | `SingleReader`, `NoGhostChild`, `OnlyClosesForget`, `StatusMovesForward`, `Forgotten` |
| `routes` | 5 clusters in 4 levels, one with a child moves; 1 or 2 reports of a cluster under way; 3 responses | `RoutesDescend`, `RoutesConverge`, `DispatchReaches`, `DispatchSelected`, `AnswersMerged` |
| `tunnel_order` | 4 messages, buffer 2, 2 ended and 1 stuck connection | `NoLostWakeup`, `KeepsOrder`, `ReconnectResumes` |
| `reporter` | 5 lost connections, queue of 2 | `NoTimerLeak`, `DisconnectReturns`, `Reported` |
| `leader` | 3 replicas, 2 faults | `OnlyLeaderServes`, `FindsLeader` |
| `reports` | 5 kinds, 2 names of which 1 is left over at the center, 2 replicas, 2 tries, 3 versions, 2 starts, 1 loss | `VersionForward`, `SettledAgrees`, `RestartHeals` |
| `hub` | every kind, 2 versions, 1 local write, 2 faults for one kind of each sort | `InformersStopped`, `OfflineWritesKept`, `NothingStale`, `Follows` |
| `watch` | every kind, 2 watchers of which 1 leaves or stops reading, 2 changes | `NothingMissed`, `OnlyClientsBlock` |
| `nodes` | 2 nodes, 2 faults, 1 failed request | `PatchedIsRecorded`, `Settles` |
| `shim` | k8s shim, 3 dials, 2 breaks, 1 request | `OneController`, `ResponsesReturn`, `WorkingKept`, `NextIsTaken`, `ReportersFollow` |
| `shim_k3s` | k3s shim, 2 dials, 2 breaks | **violated** `NextIsTaken` |

`tunnel_order`, `watch` and `nodes` check the types of their module too (`TypeOK`,
`NodesTypeOK`); in the others they are left to the proofs, which have them for all values of the
constants. The largest are `reports` (854,000 states), `watch` (775,000), `shim` (357,000), `hub` and `nodes`
(280,000); each takes two to four minutes or less.

What the properties of the last six say, with those on routes and dispatch, and what they leave out because the code does not promise it:

- `RoutesConverge`: in the end every cluster knows the way to every cluster below it and no other,
  unless a parent has handled a message too late (`overtaken`). Reports that are lost, overtake
  each other or come from a child that left and is not unregistered yet do no lasting harm.
- `DispatchReaches`, `DispatchSelected`: with true routes, every connected cluster the selector
  matches handles the request; with any mixture of old and new routes, nobody handles it but
  clusters the selector matches and clusters whose name contains the name of one. The
  second half is there because `selectChild` sends names as patterns without anchors.
- `AnswersMerged`: whatever order answers are merged in, what is left of each cluster is the
  newest of its own answers, and there is nothing of a cluster that did not answer.
- `VersionForward`: the edge-version of a stored object never goes back while it exists.
- `SettledAgrees`: updates commute. Excepted are objects deleted at the center or of which a
  report was lost or given up (`missed`): a late update creates a deleted object again, a pod
  deleted and created within five seconds is deleted last, a create that loses a race is dropped.
- `RestartHeals`: reporters that start again repair all of that, if their list is sent (an empty
  list of pods is not).
- `InformersStopped`, `OfflineWritesKept`, `NothingStale`, `Follows`: outages leave no informers
  running (a handler that is half way through is not looked at), acknowledged local writes survive the outage and a restart in it, what the center does
  not have does not stay in the LevelDB, and the hub follows the center, unless the last start of
  the syncers failed, which is not tried again.
- `NothingMissed`: from its subscription on, a client gets every event its query selects; a
  websocket, which subscribes first, the newest version too. A chunked watch misses what changes
  between its list and its subscription, and of two websockets of one second only one is
  subscribed. Both are in the model and excepted.
- `OnlyClientsBlock`: in the end every event has gone out, unless a watcher left while an event
  was sent to it, or the client of one stays connected and does not read (`Blocked`). Both are
  real, and both keep every other subscriber of the kind from its events.
- `PatchedIsRecorded`: at the moment a patch makes the center show a node as ready in the name of
  its kubelet, the EdgeNode says NotReady. Excepted are a last request that failed (`missed`) and a
  round of patches that was under way when the node came back: it writes over what the kubelet has
  posted.
- `Settles`: such a patch does not last. In the end a node that says it is ready is recorded as
  Ready, one that is away is spoken for and recorded as NotReady, and one that is gone is forgotten,
  with its EdgeNode unless the deletion failed or was not heard of. Nothing is said of the EdgeNode
  of a node that posts Ready as false: the code records Ready (see below).
- `OneController`, `ResponsesReturn`, `WorkingKept`, `ReportersFollow`: hold as long as no two dials
  overlap between check and store (`raced`); with overlap two goroutines share the stored
  connection, and the first to end closes it or leaves nil for the other.

*Bounds.* Two sessions, two parents to choose from and one move are what it takes for an old
goroutine to meet a new connection. A buffer of two with four messages is full behind a message
in hand. Three replicas make a chain of two redirects. Two replicas of the processors, two tries and three
versions make a conflict with an older and with a newer report, and a retry that is given up. Two
faults bring an outage during the transition of another; one local write and two versions are a
write that the center contradicts. Kinds of the hub with the same handlers take the same steps, so
that `MCEdgeHub` lets faults happen to one kind of each sort only (`Followed`). Two watchers are a sender between two channels and a leaver;
`Asked` of `MCEdgeWatch` leaves out kinds, queries and ways of watching that together take the same
steps as others.
In `routes`, two reports of one parent of the mover overtake each other, and the report of the
mover, with its child in it, overtakes its unregistration.
Three dials are a connection, its successor and one that overlaps. The bounds count faults, messages and time;
everything between two faults is unbounded. Larger trees and more faults are the matter of the
proofs, for the safety properties.

*Starting states.* `tree_recovery` and `routes` begin in the state a
start without faults leads to (`Established`). `tree_recovery` begins besides in the state where
the last cluster has just connected and nobody has been told (`Joining`), so that a link may be
lost while a message is on it.

*Fairness.* Goroutines are scheduled (WF), and a select or a mutex does not pass over the same
waiter for ever (SF on `StopTimer`, `LockForDial`, `LockForCheck`). From the outside: a dial that
is repeated to somebody who would answer succeeds in the end (SF on `Connect`, `DialSucceeds`),
a blacklist entry gets old (SF on `TryOldest`), the read on a dead connection fails, and a
process that ended is started again (`Restart` in LeaderRedirect, `Start` in EdgeNodes, the
restart of the hub is free). The modules on reports, hub, watches and shim put the steps of goroutines under one condition
(`Reporting`, `Processing`, `Checking`, `Running`, `Connecting`, `Requesting`): each of them comes
to an end when nothing happens outside, so that weak fairness of their disjunction is enough, and
less than what the scheduler gives; in ReportPipeline only while the edge stays as it is (`calm`).
In SubtreeRoute a cluster reports, and of its messages some one moves on (`Forward`): no given
message is promised to arrive. Strong fairness is used where something is possible again and
again without staying so: an informer that lists a center that comes and goes (`Listing`), the
mutex of the node map (`Handler`, `LockMap`), a kubelet that posts and the lifecycle controller that
looks at a node.

*Assumptions on timing.* In LeaderRedirect, `OnNewLeader` has returned before the next leader is reported,
which is at least `retryPeriod` later. With `FindsLeader`, a leader is assumed to stay: since a failover may end every
replica that listens, and each may be seen as the leader by another before it ends, the model has
behaviours in which no leader ever stays (TLC finds one after a single fault).

## Where the code does not keep what it says

`shim_k3s` is violated. `connected` announces a lost connection on `isConnected` before it clears
the client "to wait for next" (the comment after it). The channel holds one value, and
the k3s shim never reads it: the `true` of the first connection fills it, the `false` blocks, and
every later dial is refused. The k8s shim, which reads the channel, passes.

The models contain more behaviour of this sort. The properties above are stated so that they
hold beside it:

- Broadcasts of neighbours are goroutines without order: the older of two may arrive last, and
  stays (ClusterTree; `LevelsKept` holds for old lists too).
- The unregistration of an old session takes away the route the new one has added, and the child
  stays connected without one; `closeChild` does the same to `Childs` (ChildSession;
  `OnlyClosesForget` says that nothing else does).
- A report of a cluster with children, handled after the unregistration of its sender, leaves
  routes for ever, and an unregistration handled after the child has registered again takes its
  route (SubtreeRoute; `RoutesConverge` excepts both, and TLC finds both in `routes` when they are
  not excepted).
- Goroutines of `syncToNode` have no order: the event of an update may reach a client after that of
  the deletion (EdgeWatch; `NothingMissed` is about which events arrive).
- `handleNodeUpdate` records every post of a kubelet as Ready ("if node is ready, update edgenode
  status", `edgenode_controller.go:155`), also one that says Ready is false; by
  `docs/edge-autonomy.md` the EdgeNode shows the true status of the node (EdgeNodes).
- `health = false` without the lock may hit the flag of a new connection; the sender then sleeps
  until the next reconnect (ControllerTunnel; `ReconnectResumes`).
- A second redirect overwrites the configured address, and a standby that is elected starts its
  handler again and ends on its own listener (LeaderRedirect; `FindsLeader` holds because
  processes are started again).
- A StartSyncer that fails leaves StopChan closed, so that the next StopSyncer fails and
  `RemoteEnable` stays true during the outage, and what is written locally then is in the LevelDB
  but not in the cache (`OfflineWritesKept` is about outages with the flag down). MergeDelete
  deletes the certificates kept for use without the center (EdgeHub).

## Proofs

All theorems are about the specification of a module without its fairness (`Spec`, or
`SessionSpec`, `LeaderSpec`, `ReporterSpec`, `NodesSpec` where several modules are proved about
together), for all values of the constants that satisfy the named assumptions (`TreeAssumption`,
`SessionAssumption`, ...), and without the timing assumptions of the MC modules. The inductive
invariants named here are definitions of the component's module or of the module with its proofs.
TLC has checked each of them on the instance of the component's run.

- **ClusterTreeProofs.** `LevelsKept` is inductive because it speaks of maps, messages and edges
  together: a message from level *n* becomes neighbours of level *n+1* and candidate parents of
  level *n*. `Acyclic` follows: in any set of clusters, the parent of one at the smallest level
  is outside.
- **SubtreeRouteProofs.** `RoutesLeadDown`, from `MessagesDescend`: what is queued anywhere names
  only clusters below its sender. Lemmas say what each table operation returns. The same invariant
  gives `DispatchIsComplete`: every connection leads one level up (`LineRises`), so that each
  cluster above *x* has one child that leads to *x* (`PortOnLine`), true routes name that child, and
  after *i* hops a copy that still matches *x* is *i* places down the line from the root to *x*.
  `DispatchIsSelective` needs no more than the types: `Containing` is transitive, so that widening
  a selector at every hop is widening it once (`CopiesSelected`). `NewestAnswersKept` follows the
  status answer by answer (`MergeNewest`). The three are about functions computed step by step
  (`Copies`, `Line`, `Merged`): `Recursion` shows that such a function exists and `UpTo` is the
  induction over its steps, both from the fact that a set of naturals has a smallest element.
- **TunnelProofs.** The controller tunnel: `WakeupKept`, from `LockHeld` (who holds the lock, and
  that the flag is down between check and wait), and `OrderKept`, the refinement of
  `OrderedQueue`. Redirects: `LeaderServes`, from `AcceptorLeads` (a replica that would accept a
  tunnel, or is about to, is the leader). Sessions: `OneReader`, `NoGhost`, `StatusForward` as an
  action property, and `ClosesForget`, from `Remembered` (a session that reads has its registration
  behind it or to come, and its close still to come).
- **EdgeHandlerProofs.** `TimersBalanced`, inductive with the types. `OneControllerServed`, from
  `ShimInv`: dials that do not overlap are alone from check to clear (`Alone`); the goroutines past
  `do` are either the one whose connection is stored (`Balanced`) or too many (`Surplus`), and too
  many only after dials that overlapped. `WorkingConnectionsKept` adds `EndsBroken`: a goroutine
  that is about to clear the client found its own connection broken. `ResponsesReturned`, from `AnswersReturn`: goroutines in
  balance answer where they read, and balance comes back only with all connections lost.
- **EdgeHubProofs.** `NoInformerLeaks`, `WritesKept` and `NothingStaleLeft`. The inductive invariant has the types,
  `Counted` (a local write under way is within its bound), `SyncersStopped` (StopChan is open only
  while the storage is remote, informers whose StopChan is closed have nothing left to handle, and
  the load balancer asks for a start only after they were stopped) and `WritesSafe` (an
  acknowledged value is in the LevelDB and in the cache, if there is one, and the storage is
  local). They are needed together: only that informers are stopped keeps their handlers from
  overwriting an acknowledged value. `NothingStale` needs two more: `NotesLead` (the notifications
  queued lead from one version to the next, up to what the indexer has) and `HandlersFollow` (the
  LevelDB has what the handlers were told last or nothing; what an earlier run left is in the batch
  of the merge, or is about to be replaced).
- **ReportPipelineProofs.** `VersionsOnlyGrow`, from `FreshReads`: a replica that has read an
  object which nobody has changed since brings a version that is not older, so that a write
  either does not lower the version or is refused.
- **ReportSettledProofs.** `ReportsCommute`: `SettledAgrees` for any number of objects, replicas,
  writes, conflicts and losses. The invariant follows the last version of an object from the edge
  to the center: the last notification that waits is the object as it is (`LastNotified`); when
  none waits, an entry with the last version is on its way, or the center has it, unless the
  object is left out (`LastUnderWay`); no version anywhere is ahead of the object (`NotAhead`), so
  that `checkEdgeVersion` never turns the last one away; and an update whose status is to be
  written has its version stored (`CallsFollow`), so that the two writes agree in the end. Every
  step of a processor is shown to be `Onward`: it brings no entry of its own, and lets go of the
  last one only with the center up to date or the object left out.
- **EdgeProofs.** Watches: `EventsReachClients`, from `SubscribersServed` (a version that a
  subscriber has not got is with a goroutine that has not passed it, `Underway`, and a subscriber
  stays one until its client is gone). Edge nodes: `PatchesRecorded`, an action property, from
  `MapIsRecorded` (a node in the map has an EdgeNode that says NotReady, with the exceptions of the
  property), which needs `AddsFirst` (a node without an EdgeNode is added, in the events still to be
  handled, before it is updated, at first and after every deletion) and `RecordedBefore`;
  `NodesTypeCorrect` comes from the same invariant.

Every module proves the types of its variables first. `USE SMTT(30)` at the top of a module leaves
its steps to SMT, with more time than they need; those that name `Zenon` are first-order steps in a
context that is large for SMT.

Every safety property of the runs is proved. Only model-checked is liveness (`Reconnects`, `Forgotten`, `RoutesConverge`, `ReconnectResumes`,
`DisconnectReturns`, `Reported`, `FindsLeader`, `RestartHeals`, `Follows`, `OnlyClientsBlock`,
`Settles`, `NextIsTaken`, `ReportersFollow`), since fairness is out of the prover's reach.

## Not modelled

- **Locking of the router, controller list of the cloud tunnel.** Tables are changed in one step.
  `NeighborRouterMessage` takes the read lock twice, and `SubTreeOfPort` and the controller list
  are used without a lock; a Go data race has outcomes that no interleaving shows.
- **A failed update of a ClusterController resource.** `mergeToApiserver` reads and updates it
  under a mutex, so that responses are merged one after the other as in ControlDispatch; an `Update`
  that the apiserver refuses is left out.
- **A handler that runs across `StopSyncer`.** `StopSyncer` closes StopChan and does not wait: the handler
  may write the storage once more after `RemoteEnable` is down, over a local write too.
- **Event reporter and cluster status.** The shim does not start the first; the second is a
  periodic message without state.
- **Load balancer.** Choice of a backend and the TCP proxy; only whether any backend answers.
- **Edge server.** URL routing, TLS and X.509, and the contents of objects: what is modelled is
  what a handler does to the storage and which events a watch selects.
- **Namespace and cluster CRD controllers.** One event makes one request, and no state is kept.
- **Processes.** Flags, wiring of informers, signals; the event recorder; generated clients,
  informers and messages.
- **`ChildMessageChan` when it is full**, and the timeout of `sendToParent`, except as a lost
  report in ReportPipeline.

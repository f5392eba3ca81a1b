---------------------------- MODULE EdgeReporter ----------------------------
(***************************************************************************)
(* The reporters of the k8s cluster shim (pkg/reporter).  They run while a *)
(* cluster controller is connected to the shim.  Starting them creates     *)
(* informers, which first report everything that exists, and a goroutine   *)
(* that reports the list of all keys.  The pod reporter collects changes   *)
(* and sends them every five seconds; the others send one report for every *)
(* change, in a goroutine of its own.                                      *)
(*                                                                         *)
(* Notifications are queued per object: the handlers of two objects do not *)
(* touch each other's state, so their order does not matter.               *)
(***************************************************************************)
EXTENDS Reports, Sequences

CONSTANTS
  MaxConnects,   \* bound: how often a cluster controller connects
  MaxPending     \* bound: notifications of an object that wait for a handler

ASSUME ReporterAssumption == MaxConnects \in Nat /\ MaxPending \in Nat

VARIABLES
  edge,      \* objects in the apiserver of the edge cluster
  clock,     \* the last resourceVersion it has given
  calm,      \* from now on nobody changes the edge and no connection is lost
  running,   \* reporters are started
  events,    \* notifications of the informer that no handler has seen, per name
  listing,   \* the goroutine reportFullList waits for the caches
  podMap,    \* updatedPodsMap of the pod reporter
  connects

edgeVars == <<edge, clock, calm>>
reporterVars == <<running, events, listing, podMap, connects>>

\* A notification says whether the object was deleted.
Events == [obj : Objects, deleted : BOOLEAN]

ReporterTypeOK ==
  /\ kind \in Kinds /\ lightweight \in BOOLEAN
  /\ edge \in [Names -> Objects]
  /\ clock \in Versions
  /\ calm \in BOOLEAN /\ running \in BOOLEAN /\ listing \in BOOLEAN
  /\ events \in [Names -> Seq(Events)]
  /\ podMap \in ReportType
  /\ connects \in 0..MaxConnects

\* Reporters of an earlier connection have stopped; objects may exist.
ReporterInit ==
  /\ kind \in Kinds
  /\ lightweight \in (IF kind = "pod" THEN BOOLEAN ELSE {FALSE})
  /\ edge \in [Names -> {Absent, [version |-> 1, dying |-> FALSE]}]
  /\ \A n \in Leftover : edge[n] = Absent
  /\ clock = 1
  /\ calm = FALSE
  /\ running = FALSE
  /\ events = [n \in Names |-> <<>>]
  /\ listing = FALSE
  /\ podMap = NoReport
  /\ connects = 0

Exists(n) == edge[n].version # 0

-----------------------------------------------------------------------------
\* The apiserver of the edge cluster stores obj as n and notifies the informer.
Store(n, obj, seen, deleted) ==
  /\ ~calm
  /\ clock < MaxVersion
  /\ Len(events[n]) < MaxPending
  /\ clock' = clock + 1
  /\ edge' = [edge EXCEPT ![n] = obj]
  /\ events' = IF running
               THEN [events EXCEPT ![n] = Append(@, [obj |-> seen, deleted |-> deleted])]
               ELSE events
  /\ UNCHANGED <<calm, running, listing, podMap, connects>>

\* Somebody creates or changes an object of the edge cluster.
Change(n) ==
  LET obj == [version |-> clock + 1, dying |-> edge[n].dying]
  IN  Store(n, obj, obj, FALSE)

\* Somebody deletes a pod: it gets a deletionTimestamp first.
Terminate(n) ==
  LET obj == [version |-> clock + 1, dying |-> TRUE]
  IN  /\ kind = "pod"
      /\ Exists(n) /\ ~edge[n].dying
      /\ Store(n, obj, obj, FALSE)

\* An object is gone.
Remove(n) ==
  /\ Exists(n)
  /\ Store(n, Absent, edge[n], TRUE)

\* The edge cluster stays as it is from now on.
CalmDown ==
  /\ ~calm
  /\ calm' = TRUE
  /\ UNCHANGED <<edge, clock>>
  /\ UNCHANGED reporterVars

-----------------------------------------------------------------------------
\* startReporters: the informer notifies of everything there is.
StartReporters ==
  /\ ~running
  /\ connects < MaxConnects
  /\ connects' = connects + 1
  /\ running' = TRUE
  /\ events' = [n \in Names |->
                  IF Exists(n) THEN <<[obj |-> edge[n], deleted |-> FALSE]>> ELSE <<>>]
  /\ listing' = TRUE
  /\ podMap' = NoReport
  /\ UNCHANGED edgeVars

\* stopReporters: notifications that wait are dropped with the informer, and
\* so is what the pod reporter has collected.
StopReporters ==
  /\ ~calm
  /\ running
  /\ running' = FALSE
  /\ events' = [n \in Names |-> <<>>]
  /\ listing' = FALSE
  /\ podMap' = NoReport
  /\ UNCHANGED <<edge, clock, calm, connects>>

\* A handler takes the next notification of n.
Handles(n, deleted) ==
  /\ running
  /\ events[n] # <<>>
  /\ Head(events[n]).deleted = deleted
  /\ events' = [events EXCEPT ![n] = Tail(@)]
  /\ UNCHANGED <<running, listing, connects>>
  /\ UNCHANGED edgeVars

-----------------------------------------------------------------------------
\* lightWeightPod keeps the name and the labels of the metadata only.
lightWeightPod(obj) == [obj EXCEPT !.dying = FALSE]

ReportedPod(obj) == IF lightweight THEN lightWeightPod(obj) ELSE obj

\* SetUpdateMap: an entry for the same name is replaced; DelMap stays.
SetUpdateMap(n, obj) ==
  podMap' = [podMap EXCEPT !.update = {e \in @ : e.name # n} \cup {Entry(n, obj)}]

\* SetDelMap
SetDelMap(n) ==
  podMap' = [podMap EXCEPT !.update = {e \in @ : e.name # n}, !.del = @ \cup {n}]

handlePod(n) ==
  /\ kind = "pod"
  /\ Handles(n, FALSE)
  /\ SetUpdateMap(n, ReportedPod(Head(events[n]).obj))
  /\ UNCHANGED flight

deletePod(n) ==
  /\ kind = "pod"
  /\ Handles(n, TRUE)
  /\ SetDelMap(n)
  /\ UNCHANGED flight

\* The list waits in the map for the next tick.
reportFullListPod ==
  /\ kind = "pod"
  /\ running /\ listing
  /\ listing' = FALSE
  /\ podMap' = [podMap EXCEPT !.full = {{n \in Names : Exists(n)}}]
  /\ UNCHANGED <<running, events, connects, flight>>
  /\ UNCHANGED edgeVars

\* sendClusterMessageToSyncChan, every tickerDuration.
sendClusterMessageToSyncChan ==
  /\ kind = "pod"
  /\ running
  /\ podMap.update # {} \/ podMap.del # {} \/ ~(podMap.full \subseteq {{}})
  /\ Send(podMap)
  /\ podMap' = NoReport
  /\ UNCHANGED <<running, events, listing, connects>>
  /\ UNCHANGED edgeVars

PodReporter ==
  \/ \E n \in Names : handlePod(n) \/ deletePod(n)
  \/ reportFullListPod
  \/ sendClusterMessageToSyncChan

-----------------------------------------------------------------------------
\* go sendToSyncChan with one object in UpdateMap ...
ReportUpdate(n) ==
  /\ Handles(n, FALSE)
  /\ Send(Report({}, {Entry(n, Head(events[n]).obj)}, {}))
  /\ UNCHANGED podMap

\* ... with one object in DelMap ...
ReportDelete(n) ==
  /\ Handles(n, TRUE)
  /\ Send(Report({}, {}, {n}))
  /\ UNCHANGED podMap

\* ... and with the list of all keys.
ReportList ==
  /\ running /\ listing
  /\ listing' = FALSE
  /\ Send(Report({{n \in Names : Exists(n)}}, {}, {}))
  /\ UNCHANGED <<running, events, podMap, connects>>
  /\ UNCHANGED edgeVars

handleNode(n) == kind = "node" /\ ReportUpdate(n)
deleteNode(n) == kind = "node" /\ ReportDelete(n)
reportFullListNode == kind = "node" /\ ReportList

handleDeployment(n) == kind = "deployment" /\ ReportUpdate(n)
deleteDeployment(n) == kind = "deployment" /\ ReportDelete(n)
reportFullListDeployment == kind = "deployment" /\ ReportList

handleDaemonset(n) == kind = "daemonset" /\ ReportUpdate(n)
deleteDaemonset(n) == kind = "daemonset" /\ ReportDelete(n)
reportFullListDaemonset == kind = "daemonset" /\ ReportList

handleService(n) == kind = "service" /\ ReportUpdate(n)
deleteService(n) == kind = "service" /\ ReportDelete(n)
reportFullListService == kind = "service" /\ ReportList

ImmediateReporter ==
  \/ \E n \in Names :
       \/ handleNode(n) \/ deleteNode(n)
       \/ handleDeployment(n) \/ deleteDeployment(n)
       \/ handleDaemonset(n) \/ deleteDaemonset(n)
       \/ handleService(n) \/ deleteService(n)
  \/ reportFullListNode \/ reportFullListDeployment
  \/ reportFullListDaemonset \/ reportFullListService

\* Something changes at the edge, or the cluster controller is lost.
EdgeStep ==
  \/ \E n \in Names \ Leftover : Change(n) \/ Terminate(n) \/ Remove(n)
  \/ StopReporters

ReporterStep == PodReporter \/ ImmediateReporter
=============================================================================

----------------------------- MODULE EdgeNodes -----------------------------
(***************************************************************************)
(* The edge node controller (pkg/controller/edgenode).  Kubelets post the  *)
(* Ready condition of their nodes; the node lifecycle controller of the    *)
(* center sets it to Unknown when a kubelet is out of reach.  The edge     *)
(* node controller then posts a good condition in the name of the node,    *)
(* and records in the EdgeNode resource that the node is not ready.  It    *)
(* learns from an informer, later, and patches from a map of nodes every   *)
(* ten seconds, holding the lock of the map: a node may be back, or gone   *)
(* again, when an event about it is handled.  The controller may end at    *)
(* any time and start again with an empty map; requests to the apiserver   *)
(* for EdgeNodes may fail.                                                 *)
(*                                                                         *)
(* UpdatedKeepsPatching, UpdatedNotTaken and DeleteUnlocked are broken     *)
(* variants of the definition that follows, used to show that properties   *)
(* depend on it.                                                           *)
(***************************************************************************)
EXTENDS Naturals, Sequences, FiniteSets

CONSTANTS
  Nodes,
  MaxFaults,  \* bound: disconnections, deletions of nodes and ends of the controller
  MaxErrors,  \* bound: failed requests
  MaxEvents   \* bound: nothing but a patch adds to so many events of the informer

ASSUME NodesAssumption == MaxFaults \in Nat /\ MaxErrors \in Nat /\ MaxEvents \in Nat \ {0}
                         /\ IsFiniteSet(Nodes)

VARIABLES
  up,             \* the kubelet of a node reaches the center
  node,           \* the Ready condition of the Node resource, or Gone
  edgeNode,       \* the status of the EdgeNode resource, or Absent
  running,        \* the controller runs
  events,         \* what the informer has to hand over, in the order of the watch
  task,           \* the handler is about to change updateNodeMap, or is idle
  updateNodeMap,  \* the nodes to patch
  patching,       \* nodes the loop of updateNodeStatus still has to patch
  locked,         \* updateNodeStatus holds updateNodeMapMutex
  missed,         \* history: the last request for the EdgeNode failed or was not made
  faults, errors

center == <<node, edgeNode>>
controller == <<task, updateNodeMap, patching, locked>>
nodesVars == <<up, node, edgeNode, running, events, controller, missed, faults, errors>>

Gone == "gone"
Absent == "absent"

(* "none": there is no Ready condition; "ready" and "notready": true and    *)
(* false, posted by the kubelet; "edge": true, with the reason              *)
(* EdgeControllerReady.                                                     *)
Posted == {"ready", "notready"}
Conditions == Posted \cup {"none", "unknown", "edge"}
Event == [type : {"add", "update", "delete"}, name : Nodes, condition : Conditions]
Idle == [op |-> "idle"]
Task == {Idle} \cup [op : {"add", "delete"}, name : Nodes]

\* Types; only updateNodeStatus patches, under its lock, what is in the map.
NodesTypeOK ==
  /\ up \in [Nodes -> BOOLEAN]
  /\ node \in [Nodes -> Conditions \cup {Gone}]
  /\ edgeNode \in [Nodes -> {Absent, "NotReady", "Ready"}]
  /\ running \in BOOLEAN
  /\ events \in Seq(Event) /\ Len(events) <= MaxEvents + Cardinality(Nodes)
  /\ task \in Task
  /\ updateNodeMap \in SUBSET Nodes
  /\ patching \in SUBSET updateNodeMap
  /\ locked \in BOOLEAN
  /\ ~locked => patching = {}
  /\ missed \in [Nodes -> BOOLEAN]
  /\ faults \in 0..MaxFaults /\ errors \in 0..MaxErrors

\* Nodes that are about to join a center whose controller is about to start.
NodesInit ==
  /\ up = [n \in Nodes |-> TRUE]
  /\ node = [n \in Nodes |-> Gone]
  /\ edgeNode = [n \in Nodes |-> Absent]
  /\ running = FALSE
  /\ events = <<>>
  /\ task = Idle /\ updateNodeMap = {} /\ patching = {} /\ locked = FALSE
  /\ missed = [n \in Nodes |-> FALSE]
  /\ faults = 0 /\ errors = 0

-----------------------------------------------------------------------------
(* The apiserver, and who else writes to it (external) *)

(* A write to the Node resource gets a new resource version, and the        *)
(* informer of a running controller an event.                               *)
Notify(t, n, c) ==
  IF running THEN events' = Append(events, [type |-> t, name |-> n, condition |-> c])
             ELSE UNCHANGED events

Room == Len(events) < MaxEvents

Write(n, c) ==
  /\ node' = [node EXCEPT ![n] = c]
  /\ Notify(IF node[n] = Gone THEN "add" ELSE "update", n, c)

\* A kubelet registers its node, and posts its status again and again.
Post(n) ==
  /\ up[n] /\ Room
  /\ \E c \in IF node[n] = Gone THEN Posted \cup {"none"} ELSE Posted : Write(n, c)
  /\ UNCHANGED <<up, edgeNode, running, controller, missed, faults, errors>>

(* The lifecycle controller has seen no heartbeat for 40 seconds.  It sees  *)
(* one every ten of a node that is being patched.                           *)
Expire(n) ==
  /\ ~up[n] /\ Room
  /\ node[n] \notin {Gone, "unknown"}
  /\ ~(running /\ node[n] = "edge" /\ n \in updateNodeMap)
  /\ Write(n, "unknown")
  /\ UNCHANGED <<up, edgeNode, running, controller, missed, faults, errors>>

Leave(n) ==
  /\ up[n] /\ faults < MaxFaults
  /\ up' = [up EXCEPT ![n] = FALSE]
  /\ faults' = faults + 1
  /\ UNCHANGED <<center, running, events, controller, missed, errors>>

Reconnect(n) ==
  /\ ~up[n]
  /\ up' = [up EXCEPT ![n] = TRUE]
  /\ UNCHANGED <<center, running, events, controller, missed, faults, errors>>

(* Somebody deletes the resource of a node.  A controller that does not run *)
(* will not hear of it.                                                     *)
DeleteNode(n) ==
  /\ node[n] # Gone /\ Room /\ faults < MaxFaults
  /\ node' = [node EXCEPT ![n] = Gone]
  /\ Notify("delete", n, node[n])
  /\ missed' = IF running THEN missed ELSE [missed EXCEPT ![n] = @ \/ edgeNode[n] # Absent]
  /\ faults' = faults + 1
  /\ UNCHANGED <<up, edgeNode, running, controller, errors>>

-----------------------------------------------------------------------------
(* The handlers of the informer *)

(* Requests for the EdgeNode of n: with the status s it gets, or it is left *)
(* as it is and an error is logged.  Nobody else writes EdgeNodes.          *)
Request(n, s) ==
  \/ /\ edgeNode' = [edgeNode EXCEPT ![n] = s]
     /\ missed' = [missed EXCEPT ![n] = FALSE]
     /\ UNCHANGED errors
  \/ /\ errors < MaxErrors
     /\ errors' = errors + 1
     /\ missed' = [missed EXCEPT ![n] = TRUE]
     /\ UNCHANGED edgeNode

\* updateEdgeNodeStatus: without an EdgeNode, Get fails.
updateEdgeNodeStatus(n, s) ==
  IF edgeNode[n] = Absent THEN UNCHANGED <<edgeNode, missed, errors>> ELSE Request(n, s)

Then(op, n) == task' = [op |-> op, name |-> n]
Done == UNCHANGED <<edgeNode, missed, errors, task>>

(* An EdgeNode is created if there is none; a Create that fails ends the    *)
(* handler, a Get that fails does not.  Of the others only a node that is   *)
(* out of reach is recorded and taken over.                                 *)
handleNodeAdd(n, c) ==
  LET away == c \in {"unknown", "edge"}
  IN IF edgeNode[n] = Absent
     THEN /\ Request(n, "NotReady")
          /\ \/ away /\ Then("add", n)
             \/ (~away \/ missed'[n]) /\ UNCHANGED task
     ELSE IF away THEN updateEdgeNodeStatus(n, "NotReady") /\ Then("add", n)
                  ELSE Done

UpdatedKeepsPatching(n, c) ==
  CASE c = "none"    -> updateEdgeNodeStatus(n, "NotReady") /\ UNCHANGED task
    [] c = "unknown" -> updateEdgeNodeStatus(n, "NotReady") /\ Then("add", n)
    [] c = "edge"    -> Done
    [] OTHER         -> updateEdgeNodeStatus(n, "Ready") /\ UNCHANGED task

UpdatedNotTaken(n, c) ==
  CASE c \in {"none", "unknown"} -> updateEdgeNodeStatus(n, "NotReady") /\ UNCHANGED task
    [] c = "edge"                -> Done
    [] OTHER                     -> updateEdgeNodeStatus(n, "Ready") /\ Then("delete", n)

handleNodeUpdate(n, c) ==
  CASE c = "none"    -> updateEdgeNodeStatus(n, "NotReady") /\ UNCHANGED task
    [] c = "unknown" -> updateEdgeNodeStatus(n, "NotReady") /\ Then("add", n)
    [] c = "edge"    -> Done
    [] OTHER         -> updateEdgeNodeStatus(n, "Ready") /\ Then("delete", n)

handleNodeDelete(n) == Request(n, Absent) /\ Then("delete", n)

(* The informer hands over its next event.  A resync, with the resource     *)
(* version of before, is dropped in the UpdateFunc and left out.            *)
Handle ==
  /\ running /\ task = Idle /\ events # <<>>
  /\ LET e == Head(events)
     IN CASE e.type = "add"    -> handleNodeAdd(e.name, e.condition)
          [] e.type = "update" -> handleNodeUpdate(e.name, e.condition)
          [] e.type = "delete" -> handleNodeDelete(e.name)
  /\ events' = Tail(events)
  /\ UNCHANGED <<up, node, running, updateNodeMap, patching, locked, faults>>

addUpdatedNode ==
  /\ task.op = "add" /\ ~locked
  /\ updateNodeMap' = updateNodeMap \cup {task.name}
  /\ task' = Idle
  /\ UNCHANGED <<up, center, running, events, patching, locked, missed, faults, errors>>

DeleteUnlocked ==
  /\ task.op = "delete"
  /\ updateNodeMap' = updateNodeMap \ {task.name}
  /\ task' = Idle
  /\ UNCHANGED <<up, center, running, events, patching, locked, missed, faults, errors>>

deleteUpdatedNode ==
  /\ task.op = "delete" /\ ~locked
  /\ updateNodeMap' = updateNodeMap \ {task.name}
  /\ task' = Idle
  /\ UNCHANGED <<up, center, running, events, patching, locked, missed, faults, errors>>

-----------------------------------------------------------------------------
(* updateNodeStatus, every ten seconds *)

LockMap ==
  /\ running /\ ~locked /\ updateNodeMap # {} /\ Room
  /\ locked' = TRUE
  /\ patching' = updateNodeMap
  /\ UNCHANGED <<up, center, running, events, task, updateNodeMap, missed, faults, errors>>

\* PatchStatus, which does not compare resource versions; its error is logged.
Patch(n) ==
  /\ n \in patching
  /\ patching' = patching \ {n}
  /\ \/ node[n] # Gone /\ Write(n, "edge") /\ UNCHANGED errors
     \/ node[n] = Gone /\ UNCHANGED <<node, events, errors>>
     \/ errors < MaxErrors /\ errors' = errors + 1 /\ UNCHANGED <<node, events>>
  /\ UNCHANGED <<up, edgeNode, running, task, updateNodeMap, locked, missed, faults>>

UnlockMap ==
  /\ locked /\ patching = {}
  /\ locked' = FALSE
  /\ UNCHANGED <<up, center, running, events, task, updateNodeMap, patching, missed, faults, errors>>

PatchLoop == (\E n \in Nodes : Patch(n)) \/ UnlockMap

-----------------------------------------------------------------------------
(* The process *)

\* The sequences that have every element of a set once.  They are the SetToSeqs
\* of SequencesExt, a module with which the provers take much longer.
Orders(S) == {s \in [1..Cardinality(S) -> S] : \A i, j \in DOMAIN s : s[i] = s[j] => i = j}

\* Start: the informer lists the nodes there are, in any order.
Start ==
  /\ ~running
  /\ running' = TRUE
  /\ \E s \in Orders({n \in Nodes : node[n] # Gone}) :
       events' = [i \in DOMAIN s |-> [type |-> "add", name |-> s[i], condition |-> node[s[i]]]]
  /\ UNCHANGED <<up, center, controller, missed, faults, errors>>

(* The process ends, and with it what the informer still had to hand over.  *)
(* It panics in handleNodeDelete when its watch was interrupted while a     *)
(* node was deleted: the informer hands over a DeletedFinalStateUnknown.    *)
End ==
  /\ running /\ faults < MaxFaults
  /\ running' = FALSE
  /\ faults' = faults + 1
  /\ events' = <<>> /\ task' = Idle /\ updateNodeMap' = {} /\ patching' = {} /\ locked' = FALSE
  /\ missed' = [n \in Nodes |-> missed[n] \/ (node[n] = Gone /\ edgeNode[n] # Absent)]
  /\ UNCHANGED <<up, center, errors>>

Handler == Handle \/ addUpdatedNode \/ deleteUpdatedNode

NodesNext ==
  \/ \E n \in Nodes : Post(n) \/ Expire(n) \/ Leave(n) \/ Reconnect(n) \/ DeleteNode(n)
  \/ Handler \/ LockMap \/ PatchLoop \/ Start \/ End

NodesSpec == NodesInit /\ [][NodesNext]_nodesVars

(* The goroutines of the controller are scheduled, the mutex passes over    *)
(* nobody for ever, and the process is started again.  A kubelet that       *)
(* reaches the center posts, and the lifecycle controller looks at every    *)
(* node, again and again.                                                   *)
FairNodes ==
  /\ NodesSpec
  /\ SF_nodesVars(Handler) /\ SF_nodesVars(LockMap) /\ WF_nodesVars(PatchLoop \/ Start)
  /\ \A n \in Nodes : SF_nodesVars(Post(n)) /\ SF_nodesVars(Expire(n))

-----------------------------------------------------------------------------
(* A node is to be patched only while its EdgeNode says NotReady: handlers  *)
(* change the EdgeNode before the map in both directions.                   *)
MapIsRecorded ==
  \A n \in updateNodeMap :
    edgeNode[n] = "NotReady" \/ missed[n] \/ task = [op |-> "delete", name |-> n]

(* When a patch of the controller makes the center show a node as ready in  *)
(* the name of its kubelet, the EdgeNode says NotReady, unless the last     *)
(* request for the EdgeNode failed, or the handler of the kubelet's return  *)
(* waits for the lock: the round of updateNodeStatus that holds it may      *)
(* still patch over what the kubelet has posted, which stands until the     *)
(* kubelet posts again.                                                     *)
PatchedIsRecorded ==
  [][\A n \in Nodes :
       node'[n] = "edge" /\ node[n] # "edge" =>
         edgeNode[n] = "NotReady" \/ missed[n] \/ task = [op |-> "delete", name |-> n]]_nodesVars

(* Of the events from the i-th on, the first about n is that it was added;  *)
(* without any, the node is gone.                                           *)
AddNext(n, i) ==
  \/ node[n] = Gone /\ \A j \in i..Len(events) : events[j].name # n
  \/ \E j \in i..Len(events) :
       /\ events[j].name = n /\ events[j].type = "add"
       /\ \A k \in i..(j - 1) : events[k].name # n

(* A node without an EdgeNode is added before it is updated, at first and   *)
(* after every deletion.                                                    *)
AddsFirst ==
  \A n \in Nodes :
    /\ edgeNode[n] = Absent /\ ~missed[n] => AddNext(n, 1)
    /\ \A i \in 1..Len(events) :
         events[i].type = "delete" /\ events[i].name = n => AddNext(n, i + 1)

(* Why MapIsRecorded holds: because of AddsFirst, an update finds no        *)
(* EdgeNode to change only when a request failed.                           *)
RecordedBefore ==
  /\ Len(events) + Cardinality(patching) <= MaxEvents + Cardinality(Nodes)
  /\ ~running => events = <<>> /\ task = Idle /\ updateNodeMap = {} /\ ~locked
  /\ task.op = "add" => edgeNode[task.name] = "NotReady" \/ missed[task.name]
  /\ running => AddsFirst

(* However often a node was lost, deleted or back, and the controller       *)
(* restarted: in the end a node that is back speaks for itself and, when it *)
(* says that it is ready, is recorded as Ready; one that is away is spoken  *)
(* for and recorded as NotReady; one that is gone is forgotten, and its     *)
(* EdgeNode deleted unless that failed or nobody was there to do it.  A     *)
(* failed request is made up for by the next post of a kubelet, except for  *)
(* an EdgeNode that could not be created; for a node that is away there is  *)
(* no next event.                                                           *)
Settles ==
  <>[](\A n \in Nodes :
         IF node[n] = Gone THEN n \notin updateNodeMap /\ (edgeNode[n] = Absent \/ missed[n])
         ELSE IF up[n]
         THEN /\ node[n] \in Posted
              /\ n \notin updateNodeMap
              /\ node[n] = "ready" => edgeNode[n] = "Ready" \/ (edgeNode[n] = Absent /\ missed[n])
         ELSE ~missed[n] => /\ node[n] = "edge"
                            /\ n \in updateNodeMap
                            /\ edgeNode[n] = "NotReady")
=============================================================================

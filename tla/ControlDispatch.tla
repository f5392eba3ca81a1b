-------------------------- MODULE ControlDispatch --------------------------
(***************************************************************************)
(* Control requests on their way down the tree of SubtreeRoute, and their  *)
(* responses at the root (clusterhandler.go, clusterselector).             *)
(*                                                                         *)
(* A selector is a set of patterns, and a pattern is given by the names it *)
(* matches.  Every cluster on the way replaces the selector by the names   *)
(* it has selected behind each port.  These are patterns again, without    *)
(* anchors: a name matches every name it is a part of.                     *)
(*                                                                         *)
(* A request takes no time in the model: it is sent in any state of the    *)
(* routes, and finds the same state everywhere.                            *)
(*                                                                         *)
(* SelectAdjacent and SelectBehind are broken variants of selectChild, and *)
(* MergeLast of mergeToApiserver, used to show that properties depend on   *)
(* them.                                                                   *)
(***************************************************************************)
EXTENDS SubtreeRoute, Sequences

CONSTANTS
  Containing,  \* the names a name is a part of
  Selectors,   \* selectors of the requests
  MaxTime,     \* bound: timestamps of responses, in seconds
  MaxResponses \* bound: responses to a request

ASSUME DispatchAssumption ==
  /\ Containing \in [Node -> SUBSET Node]
  /\ \A n \in Node : n \in Containing[n] /\ \A m \in Containing[n] : Containing[m] \subseteq Containing[n]
  /\ Selectors \subseteq SUBSET SUBSET Node
  /\ MaxTime \in Nat /\ MaxResponses \in Nat

-----------------------------------------------------------------------------
(* The way down *)

Has(selector, name) == \E pattern \in selector : name \in pattern

ClustersToSelector(clusters) == {Containing[x] : x \in clusters}

\* The clusters to be reached through each port.
PortsToSubtreeClusters(r, clusters) ==
  [port \in {r[x] : x \in clusters} |-> {x \in clusters : r[x] = port}]

Selected(n, selector) == {x \in DOMAIN route[n] : Has(selector, x)}

SelectAdjacent(n, selector) ==
  LET ports == PortsToSubtreeClusters(route[n], Selected(n, selector) \cap {x \in DOMAIN route[n] : route[n][x] = x})
  IN  [port \in DOMAIN ports |-> ClustersToSelector(ports[port])]

SelectBehind(n, selector) ==
  LET ports == PortsToSubtreeClusters(route[n], Selected(n, selector))
  IN  [port \in DOMAIN ports |-> ClustersToSelector({x \in DOMAIN route[n] : route[n][x] = port})]

\* The selector to be sent to each port.
selectChild(n, selector) ==
  LET ports == PortsToSubtreeClusters(route[n], Selected(n, selector))
  IN  [port \in DOMAIN ports |-> ClustersToSelector(ports[port])]

\* sendToChild: Send finds the clients that are connected.
sendToChild(n, ports) == {port \in ports : port # Root /\ parent[port] = n}

\* handleMessageFromParent: the copies of a request that a cluster sends on.
handleMessageFromParent(m) ==
  LET sent == selectChild(m.to, m.selector)
  IN  {[to |-> port, selector |-> sent[port]] : port \in sendToChild(m.to, DOMAIN sent)}

\* The copies of a request that are k hops from the root, which it starts at.
Copies(selector, k) ==
  LET Hop[i \in 0..k] ==
        IF i = 0 THEN {[to |-> Root, selector |-> selector]}
        ELSE UNION {handleMessageFromParent(m) : m \in Hop[i - 1]}
  IN  Hop[k]

\* receiveMessageFromTunnel looks for the name of its cluster in the selector.
receiveMessageFromTunnel(m) == Has(m.selector, m.to)

(* addClusterController, and controllerMsgHandler, at the root: the clusters *)
(* that handle the request.  A connection leads one level down, so that     *)
(* nobody is further from the root than its level.                          *)
addClusterController(selector) ==
  {n \in NonRoot : \E k \in 1..Level[n] :
     \E m \in Copies(selector, k) : m.to = n /\ receiveMessageFromTunnel(m)}

-----------------------------------------------------------------------------
(* The responses: sequences in the order in which goroutines merge them *)

\* A cluster answers what it has handled; messages may come twice.
Responses(selector) == [name : addClusterController(selector), time : 0..MaxTime]

MergeLast(status, r) == [n \in DOMAIN status \cup {r.name} |-> IF n = r.name THEN r.time ELSE status[n]]

\* The status of a ClusterController resource: a time for the clusters that answered.
mergeToApiserver(status, r) ==
  [n \in DOMAIN status \cup {r.name} |->
     IF n = r.name /\ (n \notin DOMAIN status \/ status[n] < r.time) THEN r.time ELSE status[n]]

Merged(responses) ==
  LET Status[i \in 0..Len(responses)] ==
        IF i = 0 THEN <<>> ELSE mergeToApiserver(Status[i - 1], responses[i])
  IN  Status[Len(responses)]

-----------------------------------------------------------------------------
(* When the routes are the true ones, every connected cluster whose name    *)
(* matches the selector handles the request, however often the selector is  *)
(* rewritten on the way.                                                    *)
DispatchReaches ==
  RoutesTrue => \A s \in Selectors :
                  {n \in NonRoot : TruePort(Root, n) # None /\ Has(s, n)} \subseteq addClusterController(s)

(* In any mixture of old and new routes, a cluster that handles a request   *)
(* is one that its selector matches, or its name contains the name of one:  *)
(* selectChild may widen a request that much ("a cmd can be sent to the     *)
(* exact clusters", docs/clustercontroller-dev.md), and no further.         *)
DispatchSelected ==
  \A s \in Selectors :
    addClusterController(s) \subseteq UNION {Containing[n] : n \in {m \in Node : Has(s, m)}}

\* Nothing is under way in the tree.
Quiet == \A n \in Node : tasks[n] = EmptyBag /\ up[n] = EmptyBag /\ inbox[n] = EmptyBag

\* Of every cluster that answered, the newest of its answers, and nothing else.
Newest(rs, status) ==
  /\ \A i \in DOMAIN rs : rs[i].name \in DOMAIN status /\ rs[i].time <= status[rs[i].name]
  /\ \A n \in DOMAIN status : \E i \in DOMAIN rs : rs[i].name = n /\ rs[i].time = status[n]

(* The answers to a request sent in a quiet tree, merged by goroutines in   *)
(* any order and more than once, leave for every cluster that answered the  *)
(* newest of its answers, and none of another cluster is lost.              *)
AnswersMerged ==
  Quiet => \A s \in Selectors : \A k \in 0..MaxResponses : \A rs \in [1..k -> Responses(s)] :
    Newest(rs, Merged(rs))
=============================================================================

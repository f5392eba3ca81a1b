---------------------------- MODULE SubtreeRoute ----------------------------
(***************************************************************************)
(* The routes to all clusters of a subtree, kept by every cluster above.   *)
(*                                                                         *)
(* A parent registers and unregisters a child in goroutines of its own,    *)
(* and passes both on to its own parent.  Besides, every cluster reports   *)
(* the names in its subtree to its parent once a second.  On their way up  *)
(* messages wait in sendToParentChan of the sender, where the next         *)
(* connection finds them, and in ChildMessageChan of the receiver, where   *)
(* ten goroutines take them out: they overtake each other and arrive after *)
(* the child has left.                                                     *)
(*                                                                         *)
(* HandleRegistAsChild is a broken variant of the definition that follows  *)
(* it, used to show that the properties depend on it.                      *)
(***************************************************************************)
EXTENDS Naturals, FiniteSets, MessageBags, ClusterRouter

CONSTANTS
  Node,      \* cluster names
  Root,
  None,      \* not connected
  Level,     \* depth of a cluster in the configured tree
  Movers,    \* the clusters that lose their parents
  MaxMoves,  \* bound: connections lost in a behaviour
  MaxReports \* bound: reports of each cluster under way

ASSUME TreeAssumption ==
  /\ Root \in Node
  /\ None \notin Node
  /\ Level \in [Node -> Nat]
  /\ Movers \subseteq Node \ {Root}
  /\ MaxMoves \in Nat
  /\ MaxReports \in [Node \ {Root} -> Nat]

NonRoot == Node \ {Root}

\* ClusterTree: a cluster dials clusters one level above it.
Above(c) == {p \in Node : Level[p] + 1 = Level[c]}

Below(c) == {x \in Node : Level[x] > Level[c]}

VARIABLES
  parent,  \* the connection of the edge tunnel
  tasks,   \* goroutines of a parent that register and unregister its children
  up,      \* messages of a cluster that are not sent yet
  inbox,   \* messages read from the children: pairs of client and message
  route,   \* ClusterRouter.subtreeRouter
  moves,
  overtaken \* history: a parent has handled a message that is Outdated

vars == <<parent, tasks, up, inbox, route, moves, overtaken>>

Task == [kind : {"regist", "unregist"}, name : NonRoot]
Report == [kind : {"subtree"}, subs : SUBSET Node]
Msg == Task \cup Report

Regist(c) == [kind |-> "regist", name |-> c]
Unregist(c) == [kind |-> "unregist", name |-> c]
Subtree(subs) == [kind |-> "subtree", subs |-> subs]

\* The types of the connections, queues and routes.
TypeOK ==
  /\ parent \in [NonRoot -> Node \cup {None}]
  /\ DOMAIN tasks = Node /\ \A n \in Node : BagToSet(tasks[n]) \subseteq Task
  /\ DOMAIN up = Node /\ \A n \in Node : BagToSet(up[n]) \subseteq Msg
  /\ DOMAIN inbox = Node /\ \A n \in Node : BagToSet(inbox[n]) \subseteq NonRoot \X Msg
  /\ DOMAIN route = Node
  /\ \A n \in Node : DOMAIN route[n] \subseteq Node /\ route[n] \in [DOMAIN route[n] -> Node]
  /\ moves \in 0..MaxMoves
  /\ overtaken \in BOOLEAN

Init ==
  /\ parent = [c \in NonRoot |-> None]
  /\ tasks = [n \in Node |-> EmptyBag]
  /\ up = [n \in Node |-> EmptyBag]
  /\ inbox = [n \in Node |-> EmptyBag]
  /\ route = [n \in Node |-> <<>>]
  /\ moves = 0 /\ overtaken = FALSE

-----------------------------------------------------------------------------
\* A child comes to p and checkClusterName starts its registration.
Connect(c, p) ==
  /\ parent[c] = None
  /\ parent' = [parent EXCEPT ![c] = p]
  /\ tasks' = [tasks EXCEPT ![p] = BagAdd(@, Regist(c))]
  /\ UNCHANGED <<up, inbox, route, moves, overtaken>>

\* It leaves and closeChild starts its unregistration.
Disconnect(c) ==
  /\ parent[c] # None
  /\ moves < MaxMoves
  /\ moves' = moves + 1
  /\ parent' = [parent EXCEPT ![c] = None]
  /\ tasks' = [tasks EXCEPT ![parent[c]] = BagAdd(@, Unregist(c))]
  /\ UNCHANGED <<up, inbox, route, overtaken>>

\* transmitToParent; the root has no parent and writes to its apiserver.
Transmit(p, m) ==
  up' = IF p = Root THEN up ELSE [up EXCEPT ![p] = BagAdd(@, m)]

HandleRegistAsChild(p, c, m) ==
  IF Duplicated(route[p], m.name, m.name)
  THEN UNCHANGED <<route, up>>
  ELSE /\ route' = [route EXCEPT ![p] = AddRoute(@, m.name, m.name)]
       /\ Transmit(p, m)

\* handleRegistClusterMessage and handleUnregistClusterMessage, of client c at p.
HandleRegist(p, c, m) ==
  IF Duplicated(route[p], m.name, c)
  THEN UNCHANGED <<route, up>>
  ELSE /\ route' = [route EXCEPT ![p] = AddRoute(@, m.name, c)]
       /\ Transmit(p, m)

HandleUnregist(p, c, m) ==
  /\ route' = [route EXCEPT ![p] = DelRoute(@, m.name, c)]
  /\ Transmit(p, m)

HandleSubtree(p, c, m) ==
  /\ route' = [route EXCEPT ![p] = UpdateRouteToSubtree(@, m.subs, c)]
  /\ UNCHANGED up

\* handleMessageFromChild.
Handle(p, c, m) ==
  \/ m.kind = "regist" /\ HandleRegist(p, c, m)
  \/ m.kind = "unregist" /\ HandleUnregist(p, c, m)
  \/ m.kind = "subtree" /\ HandleSubtree(p, c, m)

(* What p handles too late, of or about its client c.  The unregistration   *)
(* of a child that is connected again comes after the new registration and  *)
(* takes the child's route away.  A registration or a report of a child     *)
(* that has left comes after its unregistration, and brings routes through  *)
(* the child that nobody takes away.                                        *)
Outdated(p, c, m) ==
  IF m = Unregist(c)
  THEN parent[c] = p /\ ~BagIn(Regist(c), tasks[p])
  ELSE /\ parent[c] # p /\ ~BagIn(Unregist(c), tasks[p])
       /\ m.kind = "regist" \/ (m.kind = "subtree" /\ m.subs # {})

\* A local registration: the client is the child itself.
RunTask(p, m) ==
  /\ Handle(p, m.name, m)
  /\ tasks' = [tasks EXCEPT ![p] = BagDel(@, m)]
  /\ overtaken' = (overtaken \/ Outdated(p, m.name, m))
  /\ UNCHANGED <<parent, inbox, moves>>

\* One of the goroutines of handleChildMessage takes a message of client c.
HandleChildMessage(p, c, m) ==
  /\ Handle(p, c, m)
  /\ inbox' = [inbox EXCEPT ![p] = BagDel(@, <<c, m>>)]
  /\ overtaken' = (overtaken \/ Outdated(p, c, m))
  /\ UNCHANGED <<parent, tasks, moves>>

\* sendMessageToParent: without a connection the message is lost.
SendToParent(c, m) ==
  /\ up' = [up EXCEPT ![c] = BagDel(@, m)]
  /\ inbox' = IF parent[c] = None THEN inbox
              ELSE [inbox EXCEPT ![parent[c]] = BagAdd(@, <<c, m>>)]
  /\ UNCHANGED <<parent, tasks, route, moves, overtaken>>

\* How many reports of c wait to be sent or to be handled.
ReportsUnderWay(c) ==
  LET Copy(b) == {k \in BagToSet(b) \X (1..MaxReports[c]) : k[2] <= CopiesIn(k[1], b)}
      Waiting == {k \in Copy(up[c]) : k[1].kind = "subtree"}
      Read(p) == {k \in Copy(inbox[p]) : k[1][1] = c /\ k[1][2].kind = "subtree"}
  IN  Cardinality(Waiting) + Cardinality(UNION {{p} \X Read(p) : p \in Above(c)})

(* reportSubTree, on connecting and every subtreeReportDuration, whatever   *)
(* has become of the earlier reports (SubtreeReporter is about the timer).  *)
ReportSubTree(c) ==
  /\ parent[c] # None
  /\ ReportsUnderWay(c) < MaxReports[c]
  /\ up' = [up EXCEPT ![c] = BagAdd(@, Subtree(DOMAIN route[c]))]
  /\ UNCHANGED <<parent, tasks, inbox, route, moves, overtaken>>

Next ==
  \/ \E c \in NonRoot : \/ \E p \in Above(c) : Connect(c, p)
                        \/ \E m \in BagToSet(up[c]) : SendToParent(c, m)
                        \/ ReportSubTree(c)
  \/ \E c \in Movers : Disconnect(c)
  \/ \E p \in Node : \/ \E m \in BagToSet(tasks[p]) : RunTask(p, m)
                     \/ \E e \in BagToSet(inbox[p]) : HandleChildMessage(p, e[1], e[2])

Spec == Init /\ [][Next]_vars

(* Every goroutine is scheduled, the report timer fires and a cluster finds *)
(* a parent again (ClusterTree).  Of the messages of a cluster some one     *)
(* moves on: nothing says that a given one ever does.                       *)
Forward(c) ==
  \/ \E m \in BagToSet(up[c]) : SendToParent(c, m)
  \/ \E p \in Above(c) : \E e \in BagToSet(inbox[p]) : e[1] = c /\ HandleChildMessage(p, c, e[2])

Fairness ==
  /\ \A c \in NonRoot : /\ WF_vars(\E p \in Above(c) : Connect(c, p))
                        /\ WF_vars(ReportSubTree(c))
                        /\ WF_vars(Forward(c))
  /\ \A p \in Node : WF_vars(\E m \in BagToSet(tasks[p]) : RunTask(p, m))

-----------------------------------------------------------------------------
(* A route leads down: its port is one level below, its target is not       *)
(* above the port, and a child is reached through itself.  A message that   *)
(* follows the routes of any mixture of old and new tables never comes back *)
(* to a cluster it has passed.                                              *)
RoutesDescend ==
  \A n \in Node : \A x \in DOMAIN route[n] :
    /\ n \in Above(route[n][x])
    /\ Level[x] > Level[n]
    /\ n \in Above(x) => route[n][x] = x

(* Why it holds: what a cluster passes on names only clusters below it,     *)
(* whichever connection takes it, and a client is one level below.          *)
Carried(c) ==
  {m \in Msg : IF m.kind = "subtree" THEN m.subs \subseteq Below(c) ELSE m.name \in Below(c)}

MessagesDescend ==
  /\ \A c \in NonRoot : parent[c] # None => parent[c] \in Above(c)
  /\ \A p \in Node : /\ \A m \in BagToSet(tasks[p]) : p \in Above(m.name)
                     /\ BagToSet(up[p]) \subseteq Carried(p)
                     /\ \A e \in BagToSet(inbox[p]) : p \in Above(e[1]) /\ e[2] \in Carried(e[1])

\* x, the cluster it is connected to, the next one above, and so on; None after the last.
Line(x) ==
  LET Up[i \in 0..Level[x]] ==
        IF i = 0 THEN x ELSE IF Up[i - 1] \in NonRoot THEN parent[Up[i - 1]] ELSE None
  IN  Up

\* The child of n through which x is really connected.
Ports(n, x) ==
  LET line == Line(x) IN {y \in NonRoot : parent[y] = n /\ \E i \in 0..Level[x] : line[i] = y}

TruePort(n, x) ==
  LET ports == Ports(n, x) IN IF ports = {} THEN None ELSE CHOOSE y \in ports : TRUE

RoutesTrue ==
  \A n \in Node : \A x \in NonRoot :
    LET port == TruePort(n, x)
    IN  IF port = None THEN x \notin DOMAIN route[n]
        ELSE x \in DOMAIN route[n] /\ route[n][x] = port

(* Once nobody moves any more, every cluster knows the way to every cluster *)
(* below it, and no other ("it knows the child through which can reach to   *)
(* that cluster", docs/clustercontroller-dev.md), unless some parent has    *)
(* handled a message of a child that had moved on after it had settled the  *)
(* child's coming or leaving.  Reports that overtake each other, are lost,  *)
(* or come from a child that has left before it is unregistered do no       *)
(* lasting harm.                                                            *)
RoutesConverge == <>[](RoutesTrue \/ overtaken)
=============================================================================

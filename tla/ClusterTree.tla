----------------------------- MODULE ClusterTree -----------------------------
(***************************************************************************)
(* Connection recovery in the tree of cluster controllers.                 *)
(*                                                                         *)
(* Every cluster controller keeps three neighbour maps (router.go):        *)
(* Childs, Neighbor and ParentNeighbor.  A parent broadcasts its own maps  *)
(* whenever one changes; a child takes Childs as its Neighbor and Neighbor *)
(* as its ParentNeighbor.  A child that loses its parent dials the members *)
(* of ParentNeighbor, with a FIFO blacklist of addresses that did not      *)
(* answer (edgetunnel.go).                                                 *)
(*                                                                         *)
(* A cluster name stands for its listen address too, a map from names to   *)
(* addresses is the set of its names, and a nil map is an empty one.       *)
(*                                                                         *)
(* FreshNeighbor, TryOldestKept and UpdateSwapped are broken variants of   *)
(* the definition that follows each of them, used to show that the         *)
(* properties depend on it.                                                *)
(***************************************************************************)
EXTENDS Naturals, Sequences, MessageBags

CONSTANTS
  Node,        \* cluster names
  Root,        \* the root cluster (config.RootClusterName)
  None,        \* no parent connection
  ConfParent,  \* conf.ParentCluster of every cluster but the root
  Level,       \* depth of a cluster in the configured tree
  MaxFaults    \* bound: link failures and crashes in a behaviour

\* The configuration is a tree: following --parent-cluster descends one level.
ASSUME TreeAssumption ==
  /\ Root \in Node
  /\ None \notin Node
  /\ ConfParent \in [Node \ {Root} -> Node]
  /\ Level \in [Node -> Nat]
  /\ \A n \in Node \ {Root} : Level[n] = Level[ConfParent[n]] + 1
  /\ MaxFaults \in Nat

NonRoot == Node \ {Root}

VARIABLES
  proc,            \* process of a cluster: "down", "starting" or "running"
  childs,          \* ClusterRouter.Childs
  neighbor,        \* ClusterRouter.Neighbor
  parentNeighbor,  \* ClusterRouter.ParentNeighbor
  clients,         \* cloudTunnel.clients: children with a stored connection
  closing,         \* closeChild goroutines not yet run, as a bag of children
  outbox,          \* Broadcast goroutines not yet run, as a bag of messages
  inbox,           \* route messages written to the child and not yet read
  late,            \* the message handleMessageFromParent holds from a lost connection
  parent,          \* the cluster the edge tunnel believes it is connected to
  cloudAddr,       \* edgeTunnel.cloudAddr
  blacklist,       \* CloudBlackList.addrList
  faults

routerVars == <<childs, neighbor, parentNeighbor>>
cloudVars == <<clients, closing>>
msgVars == <<outbox, inbox, late>>
edgeVars == <<parent, cloudAddr, blacklist>>
vars == <<proc, routerVars, cloudVars, msgVars, edgeVars, faults>>

\* A NeighborRoute message: the maps of the sender a receiver makes use of.
RouteMsg == [childs : SUBSET Node, neighbor : SUBSET Node]

\* f holds a bag for every cluster n, of elements of T[n].
BagsOver(f, T) == DOMAIN f = Node /\ \A n \in Node : BagToSet(f[n]) \subseteq T[n]

AnyChild == [n \in Node |-> NonRoot]
AnyMsg == [n \in Node |-> RouteMsg]

\* The types of the state of the cluster controllers.
TypeOK ==
  /\ proc \in [Node -> {"down", "starting", "running"}]
  /\ childs \in [Node -> SUBSET NonRoot]
  /\ neighbor \in [Node -> SUBSET Node]
  /\ parentNeighbor \in [Node -> SUBSET Node]
  /\ clients \in [Node -> SUBSET NonRoot]
  /\ BagsOver(closing, AnyChild)
  /\ BagsOver(outbox, AnyMsg)
  /\ BagsOver(inbox, AnyMsg)
  /\ late \in [Node -> SUBSET RouteMsg]
  /\ parent \in [NonRoot -> Node \cup {None}]
  /\ cloudAddr \in [NonRoot -> Node]
  /\ blacklist \in [NonRoot -> Seq(Node)]
  /\ faults \in 0..MaxFaults

Init ==
  /\ proc = [n \in Node |-> IF n = Root THEN "running" ELSE "starting"]
  /\ childs = [n \in Node |-> {}]
  /\ neighbor = [n \in Node |-> {}]
  /\ parentNeighbor = [n \in Node |-> {}]
  /\ clients = [n \in Node |-> {}]
  /\ closing = [n \in Node |-> EmptyBag]
  /\ outbox = [n \in Node |-> EmptyBag]
  /\ inbox = [n \in Node |-> EmptyBag]
  /\ late = [n \in Node |-> {}]
  /\ parent = [n \in NonRoot |-> None]
  /\ cloudAddr = ConfParent
  /\ blacklist = [n \in NonRoot |-> <<>>]
  /\ faults = 0

-----------------------------------------------------------------------------
(* cloudtunnel.go, accessHandler: the parent takes the connection unless it *)
(* already holds one of that name or the child is a candidate parent of it. *)
Accepts(p, c) ==
  /\ proc[p] # "down"
  /\ c \notin clients[p]
  /\ c \notin parentNeighbor[p]

\* NeighborRouterMessage of n, once its Childs are cs.
RouterMessage(n, cs) == [childs |-> cs, neighbor |-> neighbor[n]]

\* AddChild refuses a name it already has, and notifies the children otherwise.
AddChild(p, c) ==
  /\ childs' = [childs EXCEPT ![p] = @ \cup {c}]
  /\ outbox' = IF c \in childs[p] THEN outbox
               ELSE [outbox EXCEPT ![p] = BagAdd(@, RouterMessage(p, childs[p] \cup {c}))]

\* DelChild notifies the children whether or not it deleted one.
DelChild(p, c) ==
  /\ childs' = [childs EXCEPT ![p] = @ \ {c}]
  /\ outbox' = [outbox EXCEPT ![p] = BagAdd(@, RouterMessage(p, childs[p] \ {c}))]

(* A successful connect of the edge tunnel, from Start or from reconnect,   *)
(* with the hook afterClusterConnect it runs at the parent.                 *)
Connect(c) ==
  LET p == cloudAddr[c] IN
  /\ proc[c] # "down"
  /\ parent[c] = None
  /\ Accepts(p, c)
  /\ parent' = [parent EXCEPT ![c] = p]
  /\ proc' = [proc EXCEPT ![c] = "running"]
  /\ blacklist' = [blacklist EXCEPT ![c] = <<>>]
  /\ clients' = [clients EXCEPT ![p] = @ \cup {c}]
  /\ AddChild(p, c)
  /\ UNCHANGED <<neighbor, parentNeighbor, closing, inbox, late, cloudAddr, faults>>

\* CloudBlackList: no duplicates, new addresses at the back.
Find(bl, a) == \E i \in DOMAIN bl : bl[i] = a

Push(bl, a) == IF Find(bl, a) THEN bl ELSE Append(bl, a)

(* A failed connect in reconnect, and chooseParentNeighbor after it.  Any   *)
(* dial may fail.  The address that failed goes to the blacklist, and c     *)
(* goes on with a parent neighbour that is not on the list.                 *)
Failed(c) == Push(blacklist[c], cloudAddr[c])

FreshNeighbor(c) == {a \in neighbor[c] : ~Find(Failed(c), a)}
Fresh(c) == {a \in parentNeighbor[c] : ~Find(Failed(c), a)}

TryNeighbor(c) ==
  /\ proc[c] = "running"
  /\ parent[c] = None
  /\ \E a \in Fresh(c) : cloudAddr' = [cloudAddr EXCEPT ![c] = a]
  /\ blacklist' = [blacklist EXCEPT ![c] = Failed(c)]
  /\ UNCHANGED <<proc, routerVars, cloudVars, msgVars, parent, faults>>

TryOldestKept(c) ==
  /\ proc[c] = "running"
  /\ parent[c] = None
  /\ Fresh(c) = {}
  /\ blacklist[c] # <<>>
  /\ cloudAddr' = [cloudAddr EXCEPT ![c] = Head(Failed(c))]
  /\ blacklist' = [blacklist EXCEPT ![c] = Failed(c)]
  /\ UNCHANGED <<proc, routerVars, cloudVars, msgVars, parent, faults>>

(* All parent neighbours are listed: Pop takes the oldest address off the   *)
(* list, unless it has been there for less than blacklistSeconds.           *)
TryOldest(c) ==
  /\ proc[c] = "running"
  /\ parent[c] = None
  /\ Fresh(c) = {}
  /\ blacklist[c] # <<>>
  /\ cloudAddr' = [cloudAddr EXCEPT ![c] = Head(Failed(c))]
  /\ blacklist' = [blacklist EXCEPT ![c] = Tail(Failed(c))]
  /\ UNCHANGED <<proc, routerVars, cloudVars, msgVars, parent, faults>>

\* Nothing to choose yet: the same parent again after waitConnection seconds.
TrySame(c) ==
  /\ proc[c] = "running"
  /\ parent[c] = None
  /\ Fresh(c) = {}
  /\ blacklist' = [blacklist EXCEPT ![c] = Failed(c)]
  /\ UNCHANGED <<proc, routerVars, cloudVars, msgVars, parent, cloudAddr, faults>>

(* The edge side of a connection ends: the read loop of the edge tunnel     *)
(* fails and reconnect begins.  Messages not yet read are lost.  The one    *)
(* that went through the unbuffered EdgeToClusterChan is not: it is handled *)
(* later, before any message of the next connection.                        *)
LinkDown(c) ==
  /\ parent[c] # None
  /\ \/ /\ c \in clients[parent[c]]
        /\ faults < MaxFaults
        /\ faults' = faults + 1
     \/ /\ c \notin clients[parent[c]]
        /\ UNCHANGED faults
  /\ parent' = [parent EXCEPT ![c] = None]
  /\ \/ UNCHANGED late
     \/ /\ late[c] = {}
        /\ \E m \in BagToSet(inbox[c]) : late' = [late EXCEPT ![c] = {m}]
  /\ inbox' = [inbox EXCEPT ![c] = EmptyBag]
  /\ UNCHANGED <<proc, routerVars, cloudVars, outbox, cloudAddr, blacklist>>

(* The parent's side ends: the read loop of cloudTunnel.connect fails, the  *)
(* client is deleted and closeChild starts as a goroutine.                  *)
ServerClose(p, c) ==
  /\ c \in clients[p]
  /\ \/ /\ parent[c] = p
        /\ faults < MaxFaults
        /\ faults' = faults + 1
     \/ /\ parent[c] # p
        /\ UNCHANGED faults
  /\ clients' = [clients EXCEPT ![p] = @ \ {c}]
  /\ closing' = [closing EXCEPT ![p] = BagAdd(@, c)]
  /\ UNCHANGED <<proc, routerVars, msgVars, edgeVars>>

\* closeChild: the unregistration it starts besides is in SubtreeRoute.
CloseChild(p, c) ==
  /\ BagIn(c, closing[p])
  /\ closing' = [closing EXCEPT ![p] = BagDel(@, c)]
  /\ DelChild(p, c)
  /\ UNCHANGED <<proc, neighbor, parentNeighbor, clients, inbox, late, edgeVars, faults>>

-----------------------------------------------------------------------------
\* The children with both ends of their connection up.
Receivers(p) == {c \in clients[p] : parent[c] = p}

(* The goroutine of sendToChild: it runs at any time after it was started,  *)
(* so broadcasts overtake each other, and it writes to the children that    *)
(* are connected when it runs.                                              *)
Broadcast(p, m) ==
  /\ BagIn(m, outbox[p])
  /\ outbox' = [outbox EXCEPT ![p] = BagDel(@, m)]
  /\ inbox' = [c \in Node |-> IF c \in Receivers(p)
                              THEN BagAdd(inbox[c], m) ELSE inbox[c]]
  /\ UNCHANGED <<proc, routerVars, cloudVars, late, edgeVars, faults>>

UpdateSwapped(c, m) ==
  /\ neighbor' = [neighbor EXCEPT ![c] = m.neighbor]
  /\ outbox' = IF neighbor[c] = m.neighbor THEN outbox
               ELSE [outbox EXCEPT ![c] =
                       BagAdd(@, [childs |-> childs[c], neighbor |-> m.neighbor])]
  /\ parentNeighbor' = [parentNeighbor EXCEPT ![c] = m.childs]
  /\ UNCHANGED <<proc, childs, cloudVars, edgeVars, faults>>

(* UpdateRouter: the parent's children are my neighbours, the parent's      *)
(* neighbours my candidate parents.  My children are told when the first    *)
(* changed.                                                                 *)
Update(c, m) ==
  /\ neighbor' = [neighbor EXCEPT ![c] = m.childs]
  /\ outbox' = IF neighbor[c] = m.childs THEN outbox
               ELSE [outbox EXCEPT ![c] =
                       BagAdd(@, [childs |-> childs[c], neighbor |-> m.childs])]
  /\ parentNeighbor' = [parentNeighbor EXCEPT ![c] = m.neighbor]
  /\ UNCHANGED <<proc, childs, cloudVars, edgeVars, faults>>

\* handleMessageFromParent takes the next message ...
UpdateRouter(c, m) ==
  /\ late[c] = {}
  /\ inbox' = [inbox EXCEPT ![c] = BagDel(@, m)]
  /\ Update(c, m)
  /\ UNCHANGED late

\* ... or goes on with the one it took before the connection was lost.
UpdateRouterLate(c, m) ==
  /\ late' = [late EXCEPT ![c] = {}]
  /\ Update(c, m)
  /\ UNCHANGED inbox

-----------------------------------------------------------------------------
(* A cluster controller dies.  Its maps, goroutines and connections go with *)
(* it; its parent and its children notice through their own read loops.     *)
Crash(n) ==
  /\ n # Root
  /\ proc[n] # "down"
  /\ faults < MaxFaults
  /\ faults' = faults + 1
  /\ proc' = [proc EXCEPT ![n] = "down"]
  /\ childs' = [childs EXCEPT ![n] = {}]
  /\ neighbor' = [neighbor EXCEPT ![n] = {}]
  /\ parentNeighbor' = [parentNeighbor EXCEPT ![n] = {}]
  /\ clients' = [clients EXCEPT ![n] = {}]
  /\ closing' = [closing EXCEPT ![n] = EmptyBag]
  /\ outbox' = [outbox EXCEPT ![n] = EmptyBag]
  /\ inbox' = [inbox EXCEPT ![n] = EmptyBag]
  /\ late' = [late EXCEPT ![n] = {}]
  /\ parent' = [parent EXCEPT ![n] = None]
  /\ cloudAddr' = [cloudAddr EXCEPT ![n] = ConfParent[n]]
  /\ blacklist' = [blacklist EXCEPT ![n] = <<>>]

\* A new process with the same flags: it listens, and dials its configured parent.
Restart(n) ==
  /\ proc[n] = "down"
  /\ proc' = [proc EXCEPT ![n] = "starting"]
  /\ UNCHANGED <<routerVars, cloudVars, msgVars, edgeVars, faults>>

Next ==
  \/ \E c \in NonRoot : \/ Connect(c)
                        \/ TryNeighbor(c)
                        \/ TryOldest(c)
                        \/ TrySame(c)
                        \/ LinkDown(c)
                        \/ \E m \in BagToSet(inbox[c]) : UpdateRouter(c, m)
                        \/ \E m \in late[c] : UpdateRouterLate(c, m)
                        \/ Crash(c)
                        \/ Restart(c)
  \/ \E p \in Node : \/ \E c \in clients[p] : ServerClose(p, c)
                     \/ \E c \in BagToSet(closing[p]) : CloseChild(p, c)
                     \/ \E m \in BagToSet(outbox[p]) : Broadcast(p, m)

Spec == Init /\ [][Next]_vars

\* Parents of c at its place in the tree: by LevelsKept it has no others.
Above(c) == {p \in Node : Level[p] + 1 = Level[c]}

(* reconnect is an endless loop; a dial of a cluster that would take the    *)
(* connection does not fail for ever; an address on the blacklist gets old  *)
(* enough for Pop; and the read loop of a parent notices that the other end *)
(* of its connection is gone.                                               *)
Fairness ==
  /\ \A c \in NonRoot : /\ SF_vars(Connect(c))
                        /\ WF_vars(TryNeighbor(c) \/ TryOldest(c) \/ TrySame(c))
                        /\ SF_vars(TryOldest(c))
  /\ \A c \in NonRoot : \A p \in Above(c) : WF_vars(parent[c] # p /\ ServerClose(p, c))

-----------------------------------------------------------------------------
Peers(n) == {p \in Node : Level[p] = Level[n]}
Below(n) == {c \in Node : Level[c] = Level[n] + 1}

\* What a cluster may tell its children, and what it may be told.
MsgFrom == [n \in Node |-> [childs : SUBSET Below(n), neighbor : SUBSET Peers(n)]]
MsgTo == [n \in Node |-> [childs : SUBSET Peers(n), neighbor : SUBSET Above(n)]]

RouterLevels ==
  \A n \in Node : /\ childs[n] \subseteq Below(n)
                  /\ neighbor[n] \subseteq Peers(n)
                  /\ parentNeighbor[n] \subseteq Above(n)

MsgLevels ==
  /\ BagsOver(outbox, MsgFrom)
  /\ BagsOver(inbox, MsgTo)
  /\ \A n \in Node : late[n] \subseteq MsgTo[n]

EdgeLevels ==
  \A c \in NonRoot : /\ parent[c] \in Above(c) \cup {None}
                     /\ cloudAddr[c] \in Above(c)
                     /\ blacklist[c] \in Seq(Above(c))

(* Recovery keeps the shape of the tree: everything a cluster dials         *)
(* (edgetunnel.go chooseParentNeighbor) is one level above it, whatever     *)
(* messages are on their way, so it ends up at the depth its configuration  *)
(* gave it.                                                                 *)
LevelsKept == RouterLevels /\ MsgLevels /\ EdgeLevels

(* No set of clusters is closed under "parent of": nobody becomes its own   *)
(* ancestor, however the neighbour messages are delayed and reordered while *)
(* clusters lose their parents, crash and come back (isInParentPool:        *)
(* "cluster does not allow its candidate parent to be it's child").         *)
NoCycle ==
  \A S \in SUBSET NonRoot : S # {} => \E c \in S : parent[c] \notin S

(* A cluster is not cut off while somebody it knows of is up: its           *)
(* configured parent, a parent neighbour or an address it has blacklisted.  *)
(* The blacklist is what makes it go round (CloudBlackList, edgetunnel.go). *)
Candidates(c) ==
  parentNeighbor[c] \cup {cloudAddr[c]} \cup {blacklist[c][i] : i \in DOMAIN blacklist[c]}

Reconnects ==
  \A c \in NonRoot : \A p \in Above(c) :
    ~<>[](/\ proc[c] = "running" /\ parent[c] = None
          /\ proc[p] # "down" /\ p \in Candidates(c))
=============================================================================

----------------------------- MODULE EdgeProofs -----------------------------
(***************************************************************************)
(* Watches of the edge server, for any number of watchers and changes, and *)
(* the edge node controller, for any number of nodes, faults and events.   *)
(***************************************************************************)
EXTENDS EdgeWatch, EdgeNodes, FiniteSetTheorems, TLAPS

\* A leaf without a method of its own is left to SMT, and given time.
USE SMTT(30)

-----------------------------------------------------------------------------
(* The filters of watches *)

(* The field selector of a query that selects the object lets it pass.      *)
LEMMA SelectedByField ==
  ASSUME Selected, NEW nodeName, kind = "pod" => nodeName = obj.node
  PROVE  IsFilterFromQueryParams(query.field, nodeName, obj.name)
<1>1. \/ query.field = <<>>
      \/ query.field = <<"metadata.name", obj.name>>
      \/ kind = "pod" /\ query.field = <<"spec.nodeName", obj.node>>
  BY Zenon DEF Selected
<1>2. CASE query.field = <<>>
  BY <1>2 DEF IsFilterFromQueryParams
<1>3. CASE query.field = <<"metadata.name", obj.name>>
  BY <1>3 DEF IsFilterFromQueryParams
<1>4. CASE kind = "pod" /\ query.field = <<"spec.nodeName", obj.node>>
  BY <1>4 DEF IsFilterFromQueryParams
<1> QED
  BY <1>1, <1>2, <1>3, <1>4

(* A query that selects the object passes the filter of later events.       *)
LEMMA SelectedIsWatched ==
  ASSUME Selected PROVE checkIsNeedToWatch(kind, query, obj)
<1>1. IsFilterFromQueryParams(query.field, IF kind = "pod" THEN obj.node ELSE "", obj.name)
  BY SelectedByField, Zenon
<1> QED
  BY <1>1, Zenon DEF Selected, checkIsNeedToWatch

(* It passes the filter of the initial events of its kind, too.             *)
LEMMA SelectedIsListed ==
  ASSUME Selected, kind \in WatchKinds PROVE GetInitWatchEvent(kind, query, obj)
<1>1. ASSUME NEW nodeName, kind = "pod" => nodeName = obj.node
      PROVE  Namespaced(query, obj, nodeName) /\ Named(query, obj, nodeName)
  BY <1>1, SelectedByField, Zenon DEF Selected, Namespaced, Named
<1>2. kind # "pod" => Namespaced(query, obj, "") /\ Named(query, obj, "")
  BY <1>1, Zenon
<1>3. kind = "pod" => Namespaced(query, obj, obj.node)
  BY <1>1
<1> QED
  BY <1>2, <1>3, Zenon
  DEF Selected, WatchKinds, GetInitWatchEvent, PodInit, ServiceInit, EndpointInit, NodeInit,
      NamespaceInit, SecretInit, ConfigMapInit, LeaseInit, NetworkPolicyInit, CSIDriverInit,
      CSINodeInit, RuntimeClassInit, CSRInit

-----------------------------------------------------------------------------
(* Watchers and syncers *)

(* What a goroutine goes on with after a channel.                           *)
LEMMA NextChannelIs ==
  ASSUME NEW left \in SUBSET Watchers, NEW s \in NextChannel(left)
  PROVE  /\ s \in [at : {"none", "start", "send", "end"}, left : SUBSET Watchers,
                   to : Watchers \cup {None}]
         /\ s.at \in {"send", "end"}
         /\ s.at = "send" <=> s.to # None
         /\ \A w \in left : s.at = "send" /\ (w \in s.left \/ w = s.to)
BY WatchAssumption DEF NextChannel, None

(* Every step keeps the types.                                              *)
LEMMA WatchTypeStep == TypeOK /\ [Next]_vars => TypeOK'
<1> SUFFICES ASSUME TypeOK, [Next]_vars PROVE TypeOK'
  OBVIOUS
<1> USE WatchAssumption DEF TypeOK, fixed, Go
<1>1. CASE Change
  <2>1. cache + 1 \in Versions /\ cache' = cache + 1 /\ cache' \in 0..MaxVersion
    BY <1>1 DEF Change, Versions
  <2>2. present' \in BOOLEAN
    BY <1>1, Zenon DEF Change
  <2>3. cache' # 0
    BY <2>1
  <2> QED
    BY <1>1, <2>1, <2>2, <2>3 DEF Change, Started
<1>2. ASSUME NEW v \in Versions, syncToNode(v) PROVE TypeOK'
  BY <1>2, NextChannelIs DEF syncToNode
<1>3. ASSUME NEW w \in Watchers, SendInit(w) PROVE TypeOK'
  <2>1. got' \in [Watchers -> SUBSET Versions]
    BY <1>3 DEF SendInit, Versions
  <2>2. pc' \in [Watchers -> {"list", "add", "loop", "write", "leave", "gone"}]
    BY <1>3 DEF SendInit, After
  <2> QED
    BY <1>3, <2>1, <2>2, ZenonT(30) DEF SendInit
<1>4. ASSUME NEW w \in Watchers, Lock(w) \/ Send(w) \/ Closed(w) \/ Disconnect(w) \/ Delete(w)
      PROVE  TypeOK'
  <2>1. CASE Lock(w)
    BY <2>1, Zenon DEF Lock
  <2>2. CASE Send(w)
    BY <2>2, Zenon DEF Send
  <2>3. CASE Closed(w)
    BY <2>3, Zenon DEF Closed
  <2>4. CASE Disconnect(w)
    BY <2>4, Zenon DEF Disconnect
  <2>5. CASE Delete(w)
    BY <2>5, Zenon DEF Delete
  <2> QED
    BY <1>4, <2>1, <2>2, <2>3, <2>4, <2>5
<1>8. ASSUME NEW w \in Watchers, Stall(w) PROVE TypeOK'
  BY <1>8 DEF Stall
<1>5. ASSUME NEW w \in Watchers, Add(w) PROVE TypeOK'
  BY <1>5 DEF Add, After
<1>6. ASSUME NEW w \in Watchers, Receive(w) PROVE TypeOK'
  <2>1. PICK v \in Versions : /\ send[v].at = "send" /\ send[v].to = w /\ pc[w] = "loop"
                              /\ \E s \in NextChannel(send[v].left) : send' = [send EXCEPT ![v] = s]
                              /\ got' \in {got, [got EXCEPT ![w] = @ \cup {v}]}
                              /\ pc' \in {pc, [pc EXCEPT ![w] = "write"]}
                              /\ UNCHANGED <<fixed, cache, present, open, stalled, key, pending, before>>
    BY <1>6, Zenon DEF Receive
  <2>2. PICK s \in NextChannel(send[v].left) : send' = [send EXCEPT ![v] = s]
    BY <2>1, Zenon
  <2> QED
    BY <2>1, <2>2, NextChannelIs
<1>7. CASE UNCHANGED vars
  BY <1>7 DEF vars
<1> QED
  BY <1>1, <1>2, <1>3, <1>4, <1>5, <1>6, <1>7, <1>8, ZenonT(30) DEF Next, Running, doChunkWatch, doWebsocketWatch

(* The state of watchers and syncers is well typed.                         *)
THEOREM WatchTypeCorrect == Spec => []TypeOK
<1>1. Init => TypeOK
  <2> SUFFICES ASSUME Init PROVE TypeOK
    OBVIOUS
  <2>1. send \in [Versions -> [at : {"none", "start", "send", "end"},
                              left : SUBSET Watchers, to : Watchers \cup {None}]]
        /\ \A v \in Versions : send[v].at = "send" <=> send[v].to # None
    BY Zenon DEF Init, Unsent
  <2>2. mode \in [Watchers -> {"chunk", "websocket"}]
    BY WatchAssumption, Zenon DEF Init
  <2>4. cache = 0 /\ present = FALSE /\ stalled = {} /\ MaxVersion \in Nat
    BY WatchAssumption, Zenon DEF Init
  <2>3. pc \in [Watchers -> {"list", "add", "loop", "write", "leave", "gone"}]
    BY Zenon DEF Init, watchHandler
  <2>5. kind \in WatchKinds /\ obj \in Objects /\ query \in Queries /\ pending = None
    BY Zenon DEF Init
  <2>6. /\ open = [w \in Watchers |-> TRUE] /\ key = [w \in Watchers |-> None]
        /\ got = [w \in Watchers |-> {}] /\ before = [w \in Watchers |-> {}]
    BY ZenonT(30) DEF Init
  <2> QED
    <3>3. cache \in 0..MaxVersion
      BY <2>4
    <3>1. present \in BOOLEAN /\ (present => cache # 0)
      BY <2>4, Zenon
    <3>2. open \in [Watchers -> BOOLEAN] /\ stalled \in SUBSET Watchers
      BY <2>4, <2>6, Zenon
    <3> QED
      BY <2>1, <2>2, <2>3, <2>5, <2>6, <3>1, <3>2, <3>3, ZenonT(30) DEF TypeOK
<1> QED
  BY <1>1, WatchTypeStep, PTL DEF Spec

(* Every step keeps what SubscribersServed says of subscribers.             *)
LEMMA SubscriberStep == TypeOK /\ SubscribersServed /\ [Next]_vars => SubscribersServed'
<1> SUFFICES ASSUME TypeOK, SubscribersServed, [Next]_vars PROVE SubscribersServed'
  OBVIOUS
<1> USE WatchAssumption DEF TypeOK, SubscribersServed
<1>0. ASSUME UNCHANGED fixed PROVE Selected' = Selected
  BY <1>0, Zenon DEF Selected, fixed
<1>1. CASE Change
  <2>1. /\ cache' = cache + 1 /\ send'[cache + 1].at = "start"
        /\ \A v \in 1..cache : send'[v] = send[v]
        /\ UNCHANGED <<fixed, pc, open, key, got, before>>
    BY <1>1 DEF Change, Versions, Started
  <2>2. \A v \in 1..cache : \A w \in Watchers : Underway(v, w)' = Underway(v, w)
    BY <2>1 DEF Underway
  <2>3. \A w \in Watchers : Underway(cache, w)'
    BY <2>1 DEF Underway
  <2>4. \A v \in 1..cache' : v \in 1..cache \/ v = cache'
    BY <2>1
  <2>5. \A v \in 1..cache' : send'[v].at # "none"
    BY <2>1, <2>4
  <2>6. Selected' = Selected /\ mode' = mode /\ pc' = pc /\ open' = open /\ key' = key
    BY <1>0, <2>1 DEF fixed
  <2>7. \A w \in Watchers : Selected' /\ key'[w] # None /\ open'[w] =>
          \A v \in 1..cache' : v \in before'[w] \cup got'[w] \/ Underway(v, w)'
    BY <2>1, <2>2, <2>3, <2>4, <2>6
  <2> QED
    BY <2>3, <2>5, <2>6, <2>7, Zenon
<1>2. ASSUME NEW v \in Versions, syncToNode(v) PROVE SubscribersServed'
  <2>1. PICK s \in NextChannel({w \in Watchers : key[w] # None}) : send' = [send EXCEPT ![v] = s]
    BY <1>2, Zenon DEF syncToNode
  <2>2. /\ s.at \in {"send", "end"}
        /\ \A w \in Watchers : key[w] # None => s.at = "send" /\ (w \in s.left \/ w = s.to)
    <3> DEFINE left == {w \in Watchers : key[w] # None}
    <3>1. left \in SUBSET Watchers /\ s \in NextChannel(left)
      OBVIOUS
    <3> HIDE DEF left
    <3>2. s.at \in {"send", "end"} /\ \A w \in left : s.at = "send" /\ (w \in s.left \/ w = s.to)
      BY <3>1, NextChannelIs, Zenon
    <3> QED
      BY <3>2 DEF left
  <2>3. \A u \in 1..cache : \A w \in Watchers : key[w] # None /\ Underway(u, w) => Underway(u, w)'
    BY <2>1, <2>2 DEF Underway, Versions
  <2>4. \A u \in 1..cache : send'[u].at # "none"
    BY <2>1, <2>2 DEF Versions
  <2> QED
    BY <1>0, <1>2, <2>3, <2>4 DEF syncToNode, fixed
<1>3. ASSUME NEW w \in Watchers, SendInit(w) PROVE SubscribersServed'
  <2>1. Selected /\ present => cache \in got'[w]
    BY <1>3, SelectedIsListed DEF SendInit
  <2>2. \A u \in 1..cache : \A x \in Watchers : Underway(u, x)' = Underway(u, x)
    BY <1>3, Zenon DEF SendInit, Underway
  <2> QED
    BY <1>0, <1>3, <2>1, <2>2 DEF SendInit, fixed, Go, After
<1>4. ASSUME NEW w \in Watchers, Lock(w) \/ Closed(w) \/ Disconnect(w) \/ Stall(w) \/ Delete(w)
      PROVE  SubscribersServed'
  BY <1>0, <1>4 DEF Lock, Closed, Disconnect, Stall, Delete, fixed, Underway
<1>8. ASSUME NEW w \in Watchers, Send(w) PROVE SubscribersServed'
  BY <1>0, <1>8 DEF Send, fixed, Underway
<1>5. ASSUME NEW w \in Watchers, Add(w) PROVE SubscribersServed'
  <2>1. \A v \in 1..cache : v \in before'[w] \/ Underway(v, w)'
    BY <1>5 DEF Add, Locked, Underway, Versions
  <2> QED
    BY <1>0, <1>5, <2>1 DEF Add, Go, After, fixed, Underway
<1>6. ASSUME NEW w \in Watchers, Receive(w) PROVE SubscribersServed'
  <2>1. PICK v \in Versions :
          /\ send[v].at = "send" /\ send[v].to = w /\ pc[w] = "loop"
          /\ \E s \in NextChannel(send[v].left) : send' = [send EXCEPT ![v] = s]
          /\ Selected => got' = [got EXCEPT ![w] = @ \cup {v}]
          /\ got' \in {got, [got EXCEPT ![w] = @ \cup {v}]}
          /\ pc' \in {pc, [pc EXCEPT ![w] = "write"]}
          /\ UNCHANGED <<fixed, cache, present, open, stalled, key, pending, before>>
    BY <1>6, SelectedIsWatched, Zenon DEF Receive
  <2>2. PICK s \in NextChannel(send[v].left) : send' = [send EXCEPT ![v] = s]
    BY <2>1, ZenonT(30)
  <2>3. \A u \in 1..cache : \A x \in Watchers :
          Underway(u, x) => Underway(u, x)' \/ (u = v /\ x = w)
    <3>1. send[v].left \in SUBSET Watchers /\ send'[v] = s
          /\ \A u \in 1..cache : u # v => send'[u] = send[u]
      BY <2>2 DEF Versions
    <3>2. \A x \in send[v].left : s.at = "send" /\ (x \in s.left \/ x = s.to)
      BY <2>2, <3>1, NextChannelIs, Zenon
    <3> QED
      BY <2>1, <3>1, <3>2, ZenonT(30) DEF Underway
  <2>4. \A u \in 1..cache : send'[u].at # "none"
    BY <2>1, <2>2, NextChannelIs DEF Versions
  <2>5. \A x \in Watchers \ {w} : got'[x] = got[x] /\ pc'[x] = pc[x]
    BY <2>1
  <2>6. got[w] \subseteq got'[w] /\ pc'[w] \in {"loop", "write"} /\ (Selected => v \in got'[w])
    BY <2>1
  <2>7. Selected' = Selected /\ UNCHANGED <<mode, cache, present, open, key, before>>
    BY <1>0, <2>1, Zenon DEF fixed
  <2>8. ASSUME NEW x \in Watchers, Selected, key[x] # None, open[x], NEW u \in 1..cache,
               u \in got[x] \/ Underway(u, x)
        PROVE  u \in got'[x] \/ Underway(u, x)'
    BY <2>3, <2>5, <2>6, <2>8
  <2> QED
    BY <2>1, <2>4, <2>5, <2>6, <2>7, <2>8
<1>7. CASE UNCHANGED vars
  BY <1>0, <1>7 DEF vars, fixed, Underway
<1> QED
  BY <1>1, <1>2, <1>3, <1>4, <1>5, <1>6, <1>7, <1>8, ZenonT(30) DEF Next, Running, doChunkWatch, doWebsocketWatch

(* From its subscription on a client gets every event that its query        *)
(* selects, and over a websocket the newest version of what exists.         *)
THEOREM EventsReachClients == Spec => []NothingMissed
<1>1. Init => SubscribersServed
  <2>1. Init => cache = 0 /\ key = [w \in Watchers |-> None]
                /\ \A w \in Watchers : pc[w] \in {"list", "add"}
    BY Zenon DEF Init, watchHandler
  <2> QED
    BY <2>1 DEF SubscribersServed
<1>2. TypeOK /\ SubscribersServed => NothingMissed
  BY DEF TypeOK, SubscribersServed, NothingMissed, Underway
<1> QED
  BY <1>1, <1>2, SubscriberStep, WatchTypeCorrect, PTL DEF Spec

-----------------------------------------------------------------------------
(* The edge node controller *)

(* A listing of the nodes (Orders) names each of them, so the informer   *)
(* of a controller that starts misses none.                                 *)
LEMMA Enumerated ==
  ASSUME NEW S, IsFiniteSet(S), NEW s \in Orders(S)
  PROVE  /\ Cardinality(S) \in Nat
         /\ s \in [1..Cardinality(S) -> S]
         /\ \A x \in S : \E i \in 1..Cardinality(S) : s[i] = x
<1> DEFINE D == 1..Cardinality(S)
<1>1. Cardinality(S) \in Nat
  BY FS_CardinalityType
<1>2. s \in [D -> S] /\ \A i, j \in D : i # j => s[i] # s[j]
  BY DEF Orders
<1>3. s \in Injection(D, S)
  BY <1>2 DEF Injection, IsInjective
<1>4. Cardinality(D) = Cardinality(S)
  BY <1>1, FS_Interval
<1>5. s \in Surjection(D, S)
  BY <1>3, <1>4, FS_Injection, Zenon
<1> QED
  BY <1>1, <1>2, <1>5 DEF Surjection

\* When the first event has been handed over, the others move up by one.
LEMMA Shifted ==
  ASSUME events \in Seq(Event), events # <<>>, events' = Tail(events), node' = node,
         NEW n \in Nodes, NEW i \in Nat \ {0}, AddNext(n, i + 1)
  PROVE  AddNext(n, i)'
<1>1. /\ Len(events) \in Nat \ {0} /\ Len(events') = Len(events) - 1
      /\ \A k \in 1..Len(events') : events'[k] = events[k + 1]
  OBVIOUS
<1>2. CASE node[n] = Gone /\ \A j \in (i + 1)..Len(events) : events[j].name # n
  BY <1>1, <1>2 DEF AddNext
<1>3. ASSUME NEW j \in (i + 1)..Len(events), events[j].name = n, events[j].type = "add",
             \A k \in (i + 1)..(j - 1) : events[k].name # n
      PROVE  AddNext(n, i)'
  <2>1. j - 1 \in i..Len(events') /\ events'[j - 1] = events[j]
    BY <1>1, <1>3
  <2>2. \A k \in i..((j - 1) - 1) : events'[k].name # n
    BY <1>1, <1>3
  <2> QED
    BY <2>1, <2>2, <1>3, Zenon DEF AddNext
<1> QED
  BY <1>2, <1>3, Zenon DEF AddNext

\* An event about another node changes nothing for n.
LEMMA PassedOver ==
  ASSUME events \in Seq(Event), NEW n \in Nodes, events # <<>>, AddNext(n, 1),
         events[1].name # n
  PROVE  AddNext(n, 2)
BY DEF AddNext

(* The informer announces a change of the node m after all others; what it  *)
(* says of a node that was gone is that it was added.                       *)
LEMMA Announced ==
  ASSUME NodesTypeOK, AddsFirst, NEW e \in Event,
         events' = Append(events, e), edgeNode' = edgeNode, missed' = missed,
         \A n \in Nodes \ {e.name} : node'[n] = node[n],
         node[e.name] = Gone => e.type = "add",
         e.type = "delete" => node'[e.name] = Gone
  PROVE  AddsFirst'
<1> DEFINE L == Len(events)
<1>1. /\ L \in Nat /\ Len(events') = L + 1 /\ events'[L + 1] = e
      /\ \A k \in 1..L : events'[k] = events[k]
  BY DEF NodesTypeOK
<1>2. ASSUME NEW n \in Nodes, NEW i \in 1..(L + 1), AddNext(n, i)
      PROVE  AddNext(n, i)'
  <2>1. CASE node[n] = Gone /\ \A j \in i..L : events[j].name # n
    <3>1. CASE n = e.name
      <4>1. L + 1 \in i..Len(events') /\ events'[L + 1].name = n /\ events'[L + 1].type = "add"
        BY <1>1, <2>1, <3>1
      <4>2. \A k \in i..((L + 1) - 1) : events'[k].name # n
        BY <1>1, <2>1
      <4> QED
        BY <4>1, <4>2, <1>1 DEF AddNext
    <3>2. CASE n # e.name
      BY <1>1, <2>1, <3>2 DEF AddNext
    <3> QED
      BY <3>1, <3>2
  <2>2. CASE \E j \in i..L : /\ events[j].name = n /\ events[j].type = "add"
                             /\ \A k \in i..(j - 1) : events[k].name # n
    BY <1>1, <2>2 DEF AddNext
  <2> QED
    BY <1>2, <2>1, <2>2, Zenon DEF AddNext
<1>3. ASSUME NEW n \in Nodes, edgeNode'[n] = Absent, ~missed'[n]
      PROVE  AddNext(n, 1)'
  BY <1>1, <1>2, <1>3 DEF AddsFirst
<1>4. ASSUME NEW n \in Nodes, NEW i \in 1..Len(events'),
             events'[i].type = "delete", events'[i].name = n
      PROVE  AddNext(n, i + 1)'
  <2>1. CASE i \in 1..L
    BY <1>1, <1>2, <1>4, <2>1 DEF AddsFirst
  <2>2. CASE i = L + 1
    BY <1>1, <1>4, <2>2 DEF AddNext
  <2> QED
    BY <1>1, <2>1, <2>2
<1> QED
  BY <1>3, <1>4 DEF AddsFirst

\* A request gives the EdgeNode of n its status or is recorded as missed.
LEMMA Requested ==
  ASSUME NodesTypeOK, NEW n \in Nodes, NEW s \in {Absent, "NotReady", "Ready"}, Request(n, s)
  PROVE  /\ edgeNode' \in [Nodes -> {Absent, "NotReady", "Ready"}]
         /\ missed' \in [Nodes -> BOOLEAN]
         /\ errors' \in 0..MaxErrors
         /\ \A m \in Nodes \ {n} : edgeNode'[m] = edgeNode[m] /\ missed'[m] = missed[m]
         /\ (edgeNode'[n] = s /\ ~missed'[n]) \/ missed'[n]
<1>1. CASE edgeNode' = [edgeNode EXCEPT ![n] = s] /\ missed' = [missed EXCEPT ![n] = FALSE]
           /\ UNCHANGED errors
  <2>1. missed' \in [Nodes -> BOOLEAN]
    BY <1>1, Zenon DEF NodesTypeOK
  <2> QED
    BY <1>1, <2>1 DEF NodesTypeOK
<1>2. CASE errors < MaxErrors /\ errors' = errors + 1 /\ missed' = [missed EXCEPT ![n] = TRUE]
           /\ UNCHANGED edgeNode
  <2>1. missed' \in [Nodes -> BOOLEAN]
    BY <1>2, Zenon DEF NodesTypeOK
  <2>2. errors' \in 0..MaxErrors
    BY <1>2, NodesAssumption DEF NodesTypeOK
  <2> QED
    BY <1>2, <2>1, <2>2 DEF NodesTypeOK
<1> QED
  BY <1>1, <1>2 DEF Request

(* What handling the first event amounts to: nothing; a node recorded as    *)
(* NotReady, and perhaps taken over; an update of a node without an         *)
(* EdgeNode; a node recorded as Ready, or deleted, and left to itself.      *)
LEMMA HandleCases ==
  ASSUME NodesTypeOK, Handle
  PROVE  LET e == events[1] IN
         \/ /\ e.type = "add" => edgeNode[e.name] # Absent
            /\ UNCHANGED <<edgeNode, missed, errors, task>>
         \/ Request(e.name, "NotReady") /\ (task' = Idle \/ task' = [op |-> "add", name |-> e.name])
         \/ /\ e.type = "update" /\ edgeNode[e.name] = Absent
            /\ UNCHANGED <<edgeNode, missed, errors>>
            /\ task' \in [op : {"add", "delete"}, name : {e.name}]
         \/ Request(e.name, "Ready") /\ task' = [op |-> "delete", name |-> e.name]
         \/ /\ e.type = "delete" /\ Request(e.name, Absent)
            /\ task' = [op |-> "delete", name |-> e.name]
<1> DEFINE e == events[1]
<1>1. e \in Event /\ e = Head(events) /\ task = Idle
  BY DEF NodesTypeOK, Handle
<1>2. CASE e.type = "add"
  <2>1. handleNodeAdd(e.name, e.condition)
    BY <1>1, <1>2, ZenonT(30) DEF Handle
  <2> QED
    BY <1>1, <2>1, ZenonT(30) DEF handleNodeAdd, updateEdgeNodeStatus, Then, Done
<1>3. CASE e.type = "update"
  <2>1. handleNodeUpdate(e.name, e.condition)
    BY <1>1, <1>3, Zenon DEF Handle
  <2>2. CASE edgeNode[e.name] = Absent
    BY <1>1, <1>3, <2>1, <2>2 DEF handleNodeUpdate, updateEdgeNodeStatus, Then, Done
  <2>3. CASE edgeNode[e.name] # Absent
    BY <1>1, <1>3, <2>1, <2>3, ZenonT(30) DEF handleNodeUpdate, updateEdgeNodeStatus, Then, Done
  <2> QED
    BY <2>2, <2>3, ZenonT(30)
<1>4. CASE e.type = "delete"
  <2>1. handleNodeDelete(e.name)
    BY <1>1, <1>4, Zenon DEF Handle
  <2> QED
    BY <1>4, <2>1, ZenonT(30) DEF handleNodeDelete, Then
<1> QED
  BY <1>1, <1>2, <1>3, <1>4, Zenon DEF Event

\* There are no more nodes to patch than nodes.
LEMMA PatchingCount ==
  ASSUME NEW S \in SUBSET Nodes
  PROVE  IsFiniteSet(S) /\ Cardinality(S) \in Nat /\ Cardinality(S) <= Cardinality(Nodes)
         /\ Cardinality(Nodes) \in Nat
BY NodesAssumption, FS_CardinalityType, FS_Subset

(* Handling an event keeps the types and RecordedBefore, and leaves no node *)
(* in the map without its record or the handler about to take it out.       *)
LEMMA HandleKeeps ==
  ASSUME NodesTypeOK, RecordedBefore, MapIsRecorded, Handle
  PROVE  NodesTypeOK' /\ RecordedBefore' /\ MapIsRecorded'
<1> DEFINE n == events[1].name
           Status == {Absent, "NotReady", "Ready"}
<1>1. /\ events[1] \in Event /\ n \in Nodes /\ task = Idle /\ running
      /\ events \in Seq(Event) /\ events # <<>> /\ events' = Tail(events)
      /\ UNCHANGED <<up, node, running, updateNodeMap, patching, locked, faults>>
  <2>1. /\ task = Idle /\ running /\ events # <<>> /\ events' = Tail(events)
        /\ UNCHANGED <<up, node, running, updateNodeMap, patching, locked, faults>>
    BY Zenon DEF Handle
  <2>2. events \in Seq(Event)
    BY DEF NodesTypeOK
  <2>3. events[1] \in Event
    BY <2>1, <2>2
  <2> QED
    BY <2>1, <2>2, <2>3 DEF Event
<1>2. /\ edgeNode' \in [Nodes -> Status] /\ missed' \in [Nodes -> BOOLEAN]
      /\ errors' \in 0..MaxErrors
      /\ \A m \in Nodes \ {n} : edgeNode'[m] = edgeNode[m] /\ missed'[m] = missed[m]
  <2>1. CASE UNCHANGED <<edgeNode, missed, errors>>
    BY <2>1, Zenon DEF NodesTypeOK
  <2>2. CASE \E s \in Status : Request(n, s)
    BY <2>2, <1>1, Requested, Zenon
  <2> QED
    BY <2>1, <2>2, HandleCases
<1>3. task' = Idle \/ task' \in [op : {"add", "delete"}, name : {n}]
  BY <1>1, HandleCases
<1>4. AddsFirst
  BY <1>1, ZenonT(30) DEF RecordedBefore
<1>5. /\ edgeNode[n] = Absent /\ ~missed[n] => events[1].type = "add"
      /\ events[1].type = "delete" => AddNext(n, 2)
  <2>1. 1 \in 1..Len(events) /\ 1 + 1 = 2
    BY <1>1
  <2> QED
    BY <1>1, <1>4, <2>1 DEF AddsFirst, AddNext
<1>6. /\ task'.op = "add" => edgeNode'[n] = "NotReady" \/ missed'[n]
      /\ n \in updateNodeMap =>
           edgeNode'[n] = "NotReady" \/ missed'[n] \/ task' = [op |-> "delete", name |-> n]
      /\ edgeNode'[n] = Absent /\ ~missed'[n] => AddNext(n, 2)
  <2>1. CASE /\ events[1].type = "add" => edgeNode[n] # Absent
             /\ UNCHANGED <<edgeNode, missed, errors, task>>
    BY <2>1, <1>1, <1>5, Zenon DEF Idle, MapIsRecorded
  <2>2. CASE Request(n, "NotReady")
    BY <2>2, <1>1, Requested, ZenonT(30) DEF Absent
  <2>3. CASE events[1].type = "update" /\ edgeNode[n] = Absent
             /\ UNCHANGED <<edgeNode, missed, errors>>
    BY <1>1, <1>5, <2>3, ZenonT(30)
  <2>4. CASE Request(n, "Ready") /\ task' = [op |-> "delete", name |-> n]
    BY <2>4, <1>1, Requested, ZenonT(30) DEF Absent
  <2>5. CASE events[1].type = "delete" /\ task' = [op |-> "delete", name |-> n]
    BY <2>5, <1>5, Zenon
  <2> QED
    BY <2>1, <2>2, <2>3, <2>4, <2>5, HandleCases, Zenon
<1>7. AddsFirst'
  <2>1. ASSUME NEW m \in Nodes, edgeNode'[m] = Absent, ~missed'[m]
        PROVE  AddNext(m, 1)'
    <3>1. AddNext(m, 1 + 1)
      BY <1>1, <1>2, <1>4, <1>6, <2>1, PassedOver DEF AddsFirst
    <3> QED
      BY <1>1, <3>1, Shifted
  <2>2. ASSUME NEW m \in Nodes, NEW i \in 1..Len(events'),
               events'[i].type = "delete", events'[i].name = m
        PROVE  AddNext(m, i + 1)'
    <3>1. i + 1 \in 1..Len(events) /\ events[i + 1] = events'[i]
      BY <1>1
    <3>2. AddNext(m, (i + 1) + 1)
      BY <1>4, <2>2, <3>1 DEF AddsFirst
    <3> QED
      BY <1>1, <3>2, Shifted
  <2> QED
    BY <2>1, <2>2 DEF AddsFirst
<1>8. Len(events') = Len(events) - 1 /\ events' \in Seq(Event)
  BY <1>1
<1>9. NodesTypeOK'
  <2>1. /\ up' \in [Nodes -> BOOLEAN] /\ running' \in BOOLEAN /\ locked' \in BOOLEAN
        /\ node' \in [Nodes -> Conditions \cup {Gone}]
        /\ updateNodeMap' \in SUBSET Nodes /\ patching' \in SUBSET updateNodeMap'
        /\ (~locked => patching = {})' /\ faults' \in 0..MaxFaults
    BY <1>1, Zenon DEF NodesTypeOK
  <2>2. task' \in Task
    BY <1>1, <1>3 DEF Task
  <2>3. Len(events') <= MaxEvents + Cardinality(Nodes)
    BY <1>1, <1>8, NodesAssumption, FS_CardinalityType DEF NodesTypeOK
  <2> QED
    BY <1>2, <1>8, <2>1, <2>2, <2>3, Zenon DEF NodesTypeOK
<1>10. RecordedBefore'
  <2>1. (Len(events) + Cardinality(patching) <= MaxEvents + Cardinality(Nodes))'
    BY <1>1, <1>8, PatchingCount, NodesAssumption DEF RecordedBefore, NodesTypeOK
  <2>2. task'.op = "add" => edgeNode'[task'.name] = "NotReady" \/ missed'[task'.name]
    BY <1>3, <1>6 DEF Idle
  <2> QED
    BY <1>1, <1>7, <2>1, <2>2, Zenon DEF RecordedBefore
<1>11. MapIsRecorded'
  BY <1>1, <1>2, <1>6, ZenonT(60) DEF MapIsRecorded, NodesTypeOK, Idle
<1> QED
  BY <1>9, <1>10, <1>11

\* A change of a node adds at most one event, in the order AddsFirst asks for.
LEMMA Noticed ==
  ASSUME NodesTypeOK, RecordedBefore, NEW n \in Nodes, NEW t \in {"add", "update", "delete"},
         NEW c \in Conditions, NEW o \in Conditions \cup {Gone},
         node' = [node EXCEPT ![n] = o], Notify(t, n, c),
         node[n] = Gone => t = "add", t = "delete" => o = Gone,
         UNCHANGED <<edgeNode, running>>, running => UNCHANGED missed
  PROVE  /\ node' \in [Nodes -> Conditions \cup {Gone}]
         /\ events' \in Seq(Event) /\ Len(events') \in Nat /\ Len(events') <= Len(events) + 1
         /\ ~running' => events' = <<>>
         /\ running' => AddsFirst'
<1> DEFINE e == [type |-> t, name |-> n, condition |-> c]
<1>1. e \in Event /\ events \in Seq(Event)
  BY DEF Event, NodesTypeOK
<1>2. node' \in [Nodes -> Conditions \cup {Gone}] /\ node'[n] = o
      /\ \A m \in Nodes \ {n} : node'[m] = node[m]
  BY DEF NodesTypeOK
<1>3. CASE running
  <2>1. events' = Append(events, e) /\ AddsFirst /\ running'
    BY <1>3 DEF Notify, RecordedBefore
  <2>2. AddsFirst'
    BY <1>1, <1>2, <2>1, Announced, Zenon
  <2> QED
    BY <1>1, <1>2, <2>1, <2>2
<1>4. CASE ~running
  <2>1. events' = events /\ events = <<>> /\ ~running'
    BY <1>4 DEF Notify, RecordedBefore
  <2> QED
    BY <1>1, <1>2, <2>1
<1> QED
  BY <1>3, <1>4

\* A kubelet or the lifecycle controller writes the condition of a node.
LEMMA WriteKeeps ==
  ASSUME NodesTypeOK, RecordedBefore, MapIsRecorded,
         NEW n \in Nodes, NEW c \in Conditions, Room, Write(n, c),
         UNCHANGED <<up, edgeNode, running, controller, missed, faults, errors>>
  PROVE  NodesTypeOK' /\ RecordedBefore' /\ MapIsRecorded'
<1> DEFINE t == IF node[n] = Gone THEN "add" ELSE "update"
<1>1. UNCHANGED <<up, edgeNode, running, task, updateNodeMap, patching, locked, missed, faults, errors>>
  BY Zenon DEF controller
<1>2. /\ node' \in [Nodes -> Conditions \cup {Gone}]
      /\ events' \in Seq(Event) /\ Len(events') \in Nat /\ Len(events') <= Len(events) + 1
      /\ ~running' => events' = <<>>
      /\ running' => AddsFirst'
  BY <1>1, Noticed, Zenon DEF Write
<1>3. (Len(events) + Cardinality(patching) <= MaxEvents + Cardinality(Nodes))'
      /\ Len(events') <= MaxEvents + Cardinality(Nodes)
  <2>1. Len(events) \in Nat /\ Len(events) < MaxEvents /\ patching' \in SUBSET Nodes
    BY <1>1 DEF Room, NodesTypeOK
  <2> QED
    BY <1>2, <2>1, PatchingCount, NodesAssumption
<1>4. NodesTypeOK'
  BY <1>1, <1>2, <1>3, ZenonT(30) DEF NodesTypeOK
<1>5. RecordedBefore'
  BY <1>1, <1>2, <1>3 DEF RecordedBefore
<1>6. MapIsRecorded'
  BY <1>1, Zenon DEF MapIsRecorded
<1> QED
  BY <1>4, <1>5, <1>6

\* Somebody deletes a node, whose name may come back.
LEMMA DeleteKeeps ==
  ASSUME NodesTypeOK, RecordedBefore, MapIsRecorded, NEW n \in Nodes, DeleteNode(n)
  PROVE  NodesTypeOK' /\ RecordedBefore' /\ MapIsRecorded'
<1>1. /\ UNCHANGED <<up, edgeNode, running, task, updateNodeMap, patching, locked, errors>>
      /\ running => UNCHANGED missed
  BY Zenon DEF DeleteNode, controller
<1>7. missed' \in [Nodes -> BOOLEAN]
  BY Zenon DEF DeleteNode, NodesTypeOK
<1>8. ~running => updateNodeMap' = {} /\ task'.op # "add"
  BY <1>1 DEF RecordedBefore, Idle
<1>2. /\ node' \in [Nodes -> Conditions \cup {Gone}]
      /\ events' \in Seq(Event) /\ Len(events') \in Nat /\ Len(events') <= Len(events) + 1
      /\ ~running' => events' = <<>>
      /\ running' => AddsFirst'
  <2>1. node[n] \in Conditions
    BY DEF NodesTypeOK, DeleteNode
  <2> QED
    BY <1>1, <2>1, Noticed, Zenon DEF DeleteNode
<1>3. (Len(events) + Cardinality(patching) <= MaxEvents + Cardinality(Nodes))'
      /\ Len(events') <= MaxEvents + Cardinality(Nodes) /\ faults' \in 0..MaxFaults
  <2>1. Len(events) \in Nat /\ Len(events) < MaxEvents /\ patching' \in SUBSET Nodes
    BY <1>1 DEF Room, NodesTypeOK, DeleteNode
  <2>2. faults \in 0..MaxFaults /\ faults < MaxFaults /\ faults' = faults + 1
    BY DEF NodesTypeOK, DeleteNode
  <2> QED
    BY <1>2, <2>1, <2>2, PatchingCount, NodesAssumption
<1>4. NodesTypeOK'
  BY <1>1, <1>2, <1>3, <1>7, ZenonT(30) DEF NodesTypeOK
<1>5. RecordedBefore'
  BY <1>1, <1>2, <1>3, <1>8, ZenonT(30) DEF RecordedBefore
<1>6. MapIsRecorded'
  BY <1>1, <1>8, ZenonT(30) DEF MapIsRecorded
<1> QED
  BY <1>4, <1>5, <1>6

\* AddsFirst is about the nodes, their EdgeNodes and the events, nothing else.
LEMMA Undisturbed ==
  ASSUME UNCHANGED <<node, events, edgeNode, missed>>, AddsFirst
  PROVE  AddsFirst'
<1>1. node' = node /\ events' = events /\ edgeNode' = edgeNode /\ missed' = missed
  OBVIOUS
<1>2. \A n \in Nodes : \A i : AddNext(n, i) => AddNext(n, i)'
  BY <1>1, Zenon DEF AddNext
<1> QED
  BY <1>1, <1>2, Zenon DEF AddsFirst

\* The patch of a node makes its event in the place its turn has reserved.
LEMMA PatchKeeps ==
  ASSUME NodesTypeOK, RecordedBefore, MapIsRecorded, NEW n \in Nodes, Patch(n)
  PROVE  NodesTypeOK' /\ RecordedBefore' /\ MapIsRecorded'
<1>1. /\ UNCHANGED <<up, edgeNode, running, task, updateNodeMap, locked, missed, faults>>
      /\ n \in patching /\ patching' = patching \ {n}
  BY Zenon DEF Patch
<1>2. /\ node' \in [Nodes -> Conditions \cup {Gone}]
      /\ events' \in Seq(Event) /\ Len(events') \in Nat /\ Len(events') <= Len(events) + 1
      /\ ~running' => events' = <<>>
      /\ running' => AddsFirst'
      /\ errors' \in 0..MaxErrors
  <2>1. CASE node[n] # Gone /\ Write(n, "edge") /\ UNCHANGED errors
    <3>1. "edge" \in Conditions /\ errors' \in 0..MaxErrors
      BY <2>1 DEF Conditions, NodesTypeOK
    <3>2. node' = [node EXCEPT ![n] = "edge"] /\ Notify("update", n, "edge")
      BY <2>1 DEF Write
    <3> QED
      BY <1>1, <2>1, <3>1, <3>2, Noticed, Zenon
  <2>2. CASE UNCHANGED <<node, events>> /\ errors' \in 0..MaxErrors
    <3>1. events \in Seq(Event) /\ node \in [Nodes -> Conditions \cup {Gone}]
      BY Zenon DEF NodesTypeOK
    <3>2. (~running => events = <<>>)' /\ (running => AddsFirst)'
      BY <1>1, <2>2, Undisturbed DEF RecordedBefore
    <3> QED
      BY <2>2, <3>1, <3>2
  <2>3. errors' = errors \/ (errors < MaxErrors /\ errors' = errors + 1)
    BY Zenon DEF Patch
  <2>4. errors' \in 0..MaxErrors
    BY <2>3, NodesAssumption DEF NodesTypeOK
  <2> QED
    BY <2>1, <2>2, <2>4 DEF Patch
<1>3. /\ (Len(events) + Cardinality(patching) <= MaxEvents + Cardinality(Nodes))'
      /\ Len(events') <= MaxEvents + Cardinality(Nodes)
  <2>1. patching \in SUBSET Nodes /\ patching' \in SUBSET Nodes /\ Len(events) \in Nat
    BY <1>1 DEF NodesTypeOK
  <2>2. /\ Cardinality(patching) \in Nat /\ Cardinality(patching') \in Nat
        /\ Cardinality(Nodes) \in Nat
        /\ Cardinality(patching') = Cardinality(patching) - 1
    BY <1>1, <2>1, PatchingCount, FS_RemoveElement
  <2> QED
    BY <1>2, <2>1, <2>2, NodesAssumption DEF RecordedBefore
<1>4. NodesTypeOK'
  BY <1>1, <1>2, <1>3, ZenonT(30) DEF NodesTypeOK
<1>5. RecordedBefore'
  BY <1>1, <1>2, <1>3 DEF RecordedBefore
<1>6. MapIsRecorded'
  BY <1>1, Zenon DEF MapIsRecorded
<1> QED
  BY <1>4, <1>5, <1>6

(* A controller that starts is told that each node there is was added: a    *)
(* node it gets no event about is gone.                                     *)
LEMMA StartKeeps ==
  ASSUME NodesTypeOK, RecordedBefore, MapIsRecorded, Start
  PROVE  NodesTypeOK' /\ RecordedBefore' /\ MapIsRecorded'
<1> DEFINE S == {n \in Nodes : node[n] # Gone}
<1>1. /\ UNCHANGED <<up, node, edgeNode, task, updateNodeMap, patching, locked, missed, faults, errors>>
      /\ ~running /\ running' = TRUE
  BY Zenon DEF Start, center, controller
<1>2. task = Idle /\ updateNodeMap = {} /\ patching = {}
  BY <1>1 DEF RecordedBefore, NodesTypeOK
<1>3. PICK s \in Orders(S) :
        events' = [i \in DOMAIN s |-> [type |-> "add", name |-> s[i], condition |-> node[s[i]]]]
  BY Zenon DEF Start
<1>4. /\ Cardinality(S) \in Nat /\ Cardinality(S) <= Cardinality(Nodes) /\ Cardinality(Nodes) \in Nat
      /\ s \in [1..Cardinality(S) -> S]
      /\ \A n \in S : \E i \in 1..Cardinality(S) : s[i] = n
  <2>1. S \in SUBSET Nodes
    OBVIOUS
  <2> QED
    BY <1>3, <2>1, PatchingCount, Enumerated, ZenonT(30)
<1>5. /\ events' \in Seq(Event) /\ Len(events') = Cardinality(S)
      /\ \A i \in 1..Len(events') : events'[i].type = "add" /\ events'[i].name = s[i]
  <2>1. \A i \in 1..Cardinality(S) :
          [type |-> "add", name |-> s[i], condition |-> node[s[i]]] \in Event
    BY <1>4 DEF Event, NodesTypeOK
  <2>2. events' \in [1..Cardinality(S) -> Event]
    BY <1>3, <1>4, <2>1, Zenon
  <2> QED
    BY <1>3, <1>4, <2>2
<1>6. AddsFirst'
  <2>1. ASSUME NEW n \in Nodes
        PROVE  AddNext(n, 1)'
    <3>1. CASE n \notin S
      BY <1>1, <1>4, <1>5, <3>1 DEF AddNext
    <3>2. CASE n \in S
      <4>1. PICK i \in 1..Cardinality(S) : s[i] = n
        BY <1>4, <3>2
      <4>2. \A j \in 1..Cardinality(S) : s[j] = n => j = i
        BY <1>3, <4>1, ZenonT(30) DEF Orders
      <4>3. i \in 1..Len(events') /\ events'[i].name = n /\ events'[i].type = "add"
        BY <1>5, <4>1
      <4>4. \A k \in 1..(i - 1) : events'[k].name # n
        BY <1>4, <1>5, <4>1, <4>2
      <4> QED
        BY <4>3, <4>4 DEF AddNext
    <3> QED
      BY <3>1, <3>2, ZenonT(30)
  <2> QED
    BY <1>5, <2>1 DEF AddsFirst
<1>7. Cardinality(patching') = 0
  BY <1>1, <1>2, FS_EmptySet
<1>8. Len(events') <= MaxEvents + Cardinality(Nodes)
  BY <1>4, <1>5, NodesAssumption
<1>9. NodesTypeOK'
  BY <1>1, <1>5, <1>8, ZenonT(30) DEF NodesTypeOK
<1>10. RecordedBefore'
  <2>1. Len(events') + Cardinality(patching') <= MaxEvents + Cardinality(Nodes)
    BY <1>4, <1>5, <1>7, NodesAssumption
  <2>2. running' /\ task'.op # "add"
    BY <1>1, <1>2 DEF Idle
  <2> QED
    BY <1>6, <2>1, <2>2, ZenonT(30) DEF RecordedBefore
<1>11. MapIsRecorded'
  BY <1>1, <1>2 DEF MapIsRecorded
<1> QED
  BY <1>9, <1>10, <1>11

(* What the handler and updateNodeStatus do to the map under its lock, and  *)
(* the end of the controller, which forgets the map.                        *)
LEMMA MapKeeps ==
  ASSUME NodesTypeOK, RecordedBefore, MapIsRecorded,
         addUpdatedNode \/ deleteUpdatedNode \/ LockMap \/ UnlockMap \/ End
  PROVE  NodesTypeOK' /\ RecordedBefore' /\ MapIsRecorded'
<1>1. CASE addUpdatedNode
  <2>1. /\ UNCHANGED <<up, node, edgeNode, running, events, patching, locked, missed, faults, errors>>
        /\ updateNodeMap' = updateNodeMap \cup {task.name} /\ task' = Idle /\ task.op = "add"
    BY <1>1, ZenonT(30) DEF addUpdatedNode, center
  <2>2. task.name \in Nodes /\ running /\ task' \in Task
    BY <2>1 DEF NodesTypeOK, RecordedBefore, Task, Idle
  <2>3. updateNodeMap' \in SUBSET Nodes /\ patching' \in SUBSET updateNodeMap'
    BY <2>1, <2>2, ZenonT(30) DEF NodesTypeOK
  <2>4. AddsFirst'
    BY <2>1, <2>2, Undisturbed DEF RecordedBefore
  <2>5. NodesTypeOK'
    BY <2>1, <2>2, <2>3, ZenonT(30) DEF NodesTypeOK
  <2>6. RecordedBefore'
    BY <2>1, <2>2, <2>4 DEF RecordedBefore, Idle
  <2>7. MapIsRecorded'
    BY <2>1, <2>2 DEF MapIsRecorded, RecordedBefore
  <2> QED
    BY <2>5, <2>6, <2>7
<1>2. CASE deleteUpdatedNode
  <2>1. /\ UNCHANGED <<up, node, edgeNode, running, events, patching, locked, missed, faults, errors>>
        /\ updateNodeMap' = updateNodeMap \ {task.name} /\ task' = Idle /\ task.op = "delete"
        /\ ~locked
    BY <1>2, ZenonT(30) DEF deleteUpdatedNode, center
  <2>2. task.name \in Nodes /\ running /\ task' \in Task
    BY <2>1 DEF NodesTypeOK, RecordedBefore, Task, Idle
  <2>3. updateNodeMap' \in SUBSET Nodes /\ patching' \in SUBSET updateNodeMap'
    BY <2>1, <2>2 DEF NodesTypeOK
  <2>4. AddsFirst'
    BY <2>1, <2>2, Undisturbed DEF RecordedBefore
  <2>5. NodesTypeOK'
    BY <2>1, <2>2, <2>3, ZenonT(30) DEF NodesTypeOK
  <2>6. RecordedBefore'
    BY <2>1, <2>2, <2>4 DEF RecordedBefore, Idle
  <2>7. MapIsRecorded'
    BY <2>1, <2>2 DEF MapIsRecorded
  <2> QED
    BY <2>5, <2>6, <2>7
<1>3. CASE LockMap \/ UnlockMap
  <2>1. /\ UNCHANGED <<up, node, edgeNode, running, events, task, updateNodeMap, missed, faults, errors>>
        /\ locked' \in BOOLEAN /\ (~locked' => patching' = {})
        /\ running' \/ ~locked'
        /\ \/ patching' = patching
           \/ patching' = updateNodeMap /\ Room
    <3>1. CASE LockMap
      BY <3>1 DEF LockMap, center
    <3>2. CASE UnlockMap
      BY <3>2, Zenon DEF UnlockMap, center
    <3> QED
      BY <1>3, <3>1, <3>2
  <2>2. patching' \in SUBSET updateNodeMap'
    BY <2>1 DEF NodesTypeOK
  <2>3. (Len(events) + Cardinality(patching) <= MaxEvents + Cardinality(Nodes))'
    <3>1. Len(events) \in Nat /\ updateNodeMap \in SUBSET Nodes
      BY DEF NodesTypeOK
    <3> QED
      BY <2>1, <3>1, PatchingCount, NodesAssumption DEF RecordedBefore, Room
  <2>4. (running => AddsFirst)'
    BY <2>1, Undisturbed DEF RecordedBefore
  <2>5. NodesTypeOK'
    BY <2>1, <2>2, ZenonT(30) DEF NodesTypeOK
  <2>6. RecordedBefore'
    BY <2>1, <2>3, <2>4 DEF RecordedBefore
  <2>7. MapIsRecorded'
    BY <2>1, Zenon DEF MapIsRecorded
  <2> QED
    BY <2>5, <2>6, <2>7
<1>4. CASE End
  <2>1. /\ UNCHANGED <<up, node, edgeNode, errors>>
        /\ running' = FALSE /\ events' = <<>> /\ task' = Idle /\ updateNodeMap' = {}
        /\ patching' = {} /\ locked' = FALSE /\ faults < MaxFaults /\ faults' = faults + 1
    BY <1>4, Zenon DEF End, center
  <2>2. /\ events' \in Seq(Event) /\ Len(events') = 0 /\ Cardinality(patching') = 0
        /\ task' \in Task /\ faults' \in 0..MaxFaults /\ Cardinality(Nodes) \in Nat
    BY <2>1, FS_EmptySet, PatchingCount, NodesAssumption DEF Task, NodesTypeOK
  <2>3. Len(events') <= MaxEvents + Cardinality(Nodes)
    BY <2>2, NodesAssumption
  <2>7. missed' \in [Nodes -> BOOLEAN]
    BY <1>4, Zenon DEF End
  <2>4. NodesTypeOK'
    BY <2>1, <2>2, <2>3, <2>7, ZenonT(30) DEF NodesTypeOK
  <2>5. RecordedBefore'
    BY <2>1, <2>2, NodesAssumption DEF RecordedBefore, Idle
  <2>6. MapIsRecorded'
    BY <2>1 DEF MapIsRecorded
  <2> QED
    BY <2>4, <2>5, <2>6
<1> QED
  BY <1>1, <1>2, <1>3, <1>4

\* Every step of the edge node controller keeps the invariant.
LEMMA NodesStep ==
  ASSUME NodesTypeOK, RecordedBefore, MapIsRecorded, [NodesNext]_nodesVars
  PROVE  NodesTypeOK' /\ RecordedBefore' /\ MapIsRecorded'
<1>1. ASSUME NEW n \in Nodes, Post(n)
      PROVE  NodesTypeOK' /\ RecordedBefore' /\ MapIsRecorded'
  BY <1>1, WriteKeeps, ZenonT(30) DEF Post, Conditions
<1>2. ASSUME NEW n \in Nodes, Expire(n)
      PROVE  NodesTypeOK' /\ RecordedBefore' /\ MapIsRecorded'
  BY <1>2, WriteKeeps, ZenonT(30) DEF Expire, Conditions
<1>3. ASSUME NEW n \in Nodes, Leave(n) \/ Reconnect(n)
      PROVE  NodesTypeOK' /\ RecordedBefore' /\ MapIsRecorded'
  <2>1. /\ UNCHANGED <<node, edgeNode, running, events, task, updateNodeMap, patching, locked, missed, errors>>
        /\ up' = [up EXCEPT ![n] = FALSE] \/ up' = [up EXCEPT ![n] = TRUE]
        /\ faults' = faults \/ (faults < MaxFaults /\ faults' = faults + 1)
    BY <1>3, Zenon DEF Leave, Reconnect, center, controller
  <2>2. up' \in [Nodes -> BOOLEAN]
    BY <2>1, Zenon DEF NodesTypeOK
  <2>3. faults' \in 0..MaxFaults
    BY <2>1, NodesAssumption DEF NodesTypeOK
  <2>4. NodesTypeOK'
    BY <2>1, <2>2, <2>3, ZenonT(30) DEF NodesTypeOK
  <2>5. RecordedBefore'
    BY <2>1, Undisturbed DEF RecordedBefore
  <2>6. MapIsRecorded'
    BY <2>1, Zenon DEF MapIsRecorded
  <2> QED
    BY <2>4, <2>5, <2>6
<1>4. CASE UNCHANGED nodesVars
  <2>1. UNCHANGED <<up, node, edgeNode, running, events, task, updateNodeMap, patching, locked, missed, faults, errors>>
    BY <1>4, Zenon DEF nodesVars, controller
  <2>2. NodesTypeOK'
    BY <2>1, ZenonT(30) DEF NodesTypeOK
  <2>3. RecordedBefore'
    BY <2>1, Undisturbed DEF RecordedBefore
  <2>4. MapIsRecorded'
    BY <2>1, Zenon DEF MapIsRecorded
  <2> QED
    BY <2>2, <2>3, <2>4
<1> QED
  BY <1>1, <1>2, <1>3, <1>4, DeleteKeeps, HandleKeeps, PatchKeeps, StartKeeps, MapKeeps, ZenonT(60)
     DEF NodesNext, Handler, PatchLoop

(* Type correctness of the edge node controller, and that a node is in the  *)
(* map only with its EdgeNode NotReady, unless a request failed or the      *)
(* handler is about to take it out.                                         *)
LEMMA MapRecorded == NodesSpec => [](NodesTypeOK /\ MapIsRecorded)
<1>1. NodesInit => NodesTypeOK /\ RecordedBefore /\ MapIsRecorded
  <2> SUFFICES ASSUME NodesInit PROVE NodesTypeOK /\ RecordedBefore /\ MapIsRecorded
    OBVIOUS
  <2>1. /\ running = FALSE /\ events = <<>> /\ task = Idle /\ updateNodeMap = {} /\ patching = {}
        /\ locked = FALSE /\ faults = 0 /\ errors = 0
    BY Zenon DEF NodesInit
  <2>2. /\ events \in Seq(Event) /\ Len(events) = 0 /\ Cardinality(patching) = 0
        /\ task \in Task /\ Cardinality(Nodes) \in Nat
        /\ faults \in 0..MaxFaults /\ errors \in 0..MaxErrors
    BY <2>1, FS_EmptySet, PatchingCount, NodesAssumption DEF Task
  <2>3. /\ up \in [Nodes -> BOOLEAN] /\ missed \in [Nodes -> BOOLEAN]
        /\ node \in [Nodes -> Conditions \cup {Gone}]
        /\ edgeNode \in [Nodes -> {Absent, "NotReady", "Ready"}]
    BY DEF NodesInit
  <2>4. Len(events) <= MaxEvents + Cardinality(Nodes)
    BY <2>2, NodesAssumption
  <2>5. NodesTypeOK
    BY <2>1, <2>2, <2>3, <2>4, ZenonT(30) DEF NodesTypeOK
  <2>6. RecordedBefore
    BY <2>1, <2>2, NodesAssumption DEF RecordedBefore, Idle
  <2>7. MapIsRecorded
    BY <2>1 DEF MapIsRecorded
  <2> QED
    BY <2>5, <2>6, <2>7
<1> QED
  BY <1>1, NodesStep, PTL DEF NodesSpec

(* The state of the edge node controller is well typed: the events of its   *)
(* informer keep their bound, and nodes are patched under the lock only.    *)
THEOREM NodesTypeCorrect == NodesSpec => []NodesTypeOK
BY MapRecorded, PTL

(* The controller makes the center show a node as ready in the name of its  *)
(* kubelet only when the EdgeNode says NotReady, except after a failed      *)
(* request and in the round that the handler of the kubelet's return waits  *)
(* for.                                                                     *)
THEOREM PatchesRecorded == NodesSpec => PatchedIsRecorded
<1> DEFINE Recorded(n) == edgeNode[n] = "NotReady" \/ missed[n] \/ task = [op |-> "delete", name |-> n]
           Step == \A n \in Nodes : node'[n] = "edge" /\ node[n] # "edge" => Recorded(n)
<1>1. NodesTypeOK /\ MapIsRecorded /\ [NodesNext]_nodesVars => [Step]_nodesVars
  <2> SUFFICES ASSUME NodesTypeOK, MapIsRecorded, NodesNext,
                      NEW n \in Nodes, node'[n] = "edge", node[n] # "edge"
               PROVE  Recorded(n)
    BY Zenon
  <2>1. ASSUME NEW m \in Nodes, NEW c, node' = [node EXCEPT ![m] = c]
        PROVE  m = n /\ c = "edge"
    BY <2>1 DEF NodesTypeOK
  <2>2. node' # node
    OBVIOUS
  <2>3. ASSUME NEW m \in Nodes
        PROVE  ~Post(m) /\ ~Expire(m) /\ ~Leave(m) /\ ~Reconnect(m) /\ ~DeleteNode(m)
    <3>1. ~Post(m)
      BY <2>1, <2>3 DEF Post, Write, Posted
    <3>2. ~Expire(m)
      BY <2>1, <2>3 DEF Expire, Write
    <3>3. ~Leave(m) /\ ~Reconnect(m)
      BY <2>2, Zenon DEF Leave, Reconnect, center
    <3>4. ~DeleteNode(m)
      BY <2>1, <2>3 DEF DeleteNode, Gone
    <3> QED
      BY <3>1, <3>2, <3>3, <3>4
  <2>4. ~Handler /\ ~LockMap /\ ~UnlockMap /\ ~Start /\ ~End
    BY <2>2, ZenonT(30) DEF Handler, Handle, addUpdatedNode, deleteUpdatedNode, LockMap, UnlockMap, Start, End, center
  <2>5. PICK m \in Nodes : Patch(m)
    BY <2>3, <2>4, ZenonT(30) DEF NodesNext, PatchLoop
  <2>6. m \in updateNodeMap /\ m = n
    BY <2>1, <2>2, <2>5 DEF Patch, Write, NodesTypeOK
  <2> QED
    BY <2>6, Zenon DEF MapIsRecorded
<1>2. [][Step]_nodesVars => PatchedIsRecorded
  BY Zenon DEF PatchedIsRecorded
<1> QED
  BY <1>1, <1>2, MapRecorded, PTL DEF NodesSpec
=============================================================================

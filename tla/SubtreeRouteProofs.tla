------------------------ MODULE SubtreeRouteProofs ------------------------
(***************************************************************************)
(* The routes of every tree lead down, whatever order the messages about   *)
(* them are handled in and however often clusters move.  Requests that     *)
(* follow them reach what they select, and their answers are merged.       *)
(*                                                                         *)
(* Copies, Line and Merged are computed step by step: Recursion shows that *)
(* such a function exists, which is all its definition needs to be used,   *)
(* and UpTo is the induction over its steps.                               *)
(***************************************************************************)
EXTENDS ControlDispatch, WellFoundedInduction, TLAPS

\* A leaf without a method of its own is left to SMT, and given time.
USE SMTT(30)

(* A queue gains the message that is put in, and nothing else.              *)
LEMMA BagAddElements ==
  ASSUME NEW b, NEW e
  PROVE  BagToSet(BagAdd(b, e)) = BagToSet(b) \cup {e}
BY DEF BagToSet, BagAdd

(* Taking a message out of a queue brings no new one in.                    *)
LEMMA BagDelElements ==
  ASSUME NEW b, NEW e
  PROVE  BagToSet(BagDel(b, e)) \subseteq BagToSet(b)
BY DEF BagToSet, BagDel

(* Nothing is queued at the start.                                          *)
LEMMA EmptyBagElements == BagToSet(EmptyBag) = {}
BY DEF BagToSet, EmptyBag

(* A table of routes of n: names of clusters, and children to reach them.   *)
Table(n, r) ==
  /\ DOMAIN r \subseteq Node
  /\ r \in [DOMAIN r -> Node]
  /\ \A x \in DOMAIN r : /\ n \in Above(r[x])
                         /\ Level[x] > Level[n]
                         /\ n \in Above(x) => r[x] = x

\* Names a client c of n may bring: its own, or one below it.
Brings(c, x) == x = c \/ x \in Below(c)

(* AddRoute of a name its client may bring keeps a table.                   *)
LEMMA AddRouteTable ==
  ASSUME NEW n \in Node, NEW r, Table(n, r), NEW c \in Node, n \in Above(c),
         NEW x \in Node, Brings(c, x)
  PROVE  Table(n, AddRoute(r, x, c))
<1> DEFINE new == AddRoute(r, x, c)
<1>1. DOMAIN new = DOMAIN r \cup {x}
  BY DEF AddRoute
<1>2. \A y \in DOMAIN new : new[y] = IF y \in DOMAIN r THEN r[y] ELSE c
  BY DEF AddRoute
<1>3. new = [y \in DOMAIN new |-> new[y]]
  BY DEF AddRoute
<1>4. Level[x] > Level[n] /\ (n \in Above(x) => c = x)
  BY TreeAssumption DEF Brings, Below, Above
<1> HIDE DEF new
<1>5. new \in [DOMAIN new -> Node]
  BY <1>1, <1>2, <1>3 DEF Table
<1> QED
  BY <1>1, <1>2, <1>4, <1>5, ZenonT(30) DEF Table, new

(* Removing routes keeps a table.                                           *)
LEMMA RemoveTable ==
  ASSUME NEW n \in Node, NEW r, Table(n, r), NEW gone
  PROVE  Table(n, Remove(r, gone))
BY DEF Table, Remove

(* DelRoute keeps a table.                                                  *)
LEMMA DelRouteTable ==
  ASSUME NEW n \in Node, NEW r, Table(n, r), NEW x, NEW c
  PROVE  Table(n, DelRoute(r, x, c))
BY RemoveTable DEF DelRoute

(* updateRouteToSubtree with names below the client keeps a table.          *)
LEMMA SubtreeTable ==
  ASSUME NEW n \in Node, NEW r, Table(n, r), NEW c \in Node, n \in Above(c),
         NEW subs, subs \subseteq Below(c)
  PROVE  Table(n, UpdateRouteToSubtree(r, subs, c))
<1> DEFINE new == AddSubtree(r, subs, c)
<1>1. DOMAIN new = DOMAIN r \cup subs
  BY DEF AddSubtree
<1>2. \A y \in DOMAIN new : new[y] = IF y \in DOMAIN r THEN r[y] ELSE c
  BY DEF AddSubtree
<1>3. new = [y \in DOMAIN new |-> new[y]]
  BY DEF AddSubtree
<1>4. \A y \in subs : y \in Node /\ Level[y] > Level[n] /\ n \notin Above(y)
  BY TreeAssumption DEF Below, Above
<1> HIDE DEF new
<1>5. new \in [DOMAIN new -> Node]
  BY <1>1, <1>2, <1>3 DEF Table
<1>6. Table(n, new)
  BY <1>1, <1>2, <1>4, <1>5, Zenon DEF Table
<1> QED
  BY <1>6, RemoveTable, ZenonT(30) DEF UpdateRouteToSubtree, new

\* All of the tables.
Tables(f) == DOMAIN f = Node /\ \A n \in Node : Table(n, f[n])

(* The queues, told apart from the tables: one bag per cluster, each of its *)
(* elements one that may be in that bag.                                    *)
Queues(f, T) == DOMAIN f = Node /\ \A n \in Node : BagToSet(f[n]) \subseteq T[n]

Tasks == [p \in Node |-> {m \in Task : p \in Above(m.name)}]
Outputs == [p \in Node |-> Carried(p)]
Inputs == [p \in Node |-> {e \in NonRoot \X Msg : p \in Above(e[1]) /\ e[2] \in Carried(e[1])}]

(* The inductive invariant, put together from its parts.                    *)
LEMMA InvParts ==
  (TypeOK /\ RoutesDescend /\ MessagesDescend) <=>
    /\ parent \in [NonRoot -> Node \cup {None}]
    /\ \A c \in NonRoot : parent[c] # None => parent[c] \in Above(c)
    /\ Queues(tasks, Tasks)
    /\ Queues(up, Outputs)
    /\ Queues(inbox, Inputs)
    /\ Tables(route)
    /\ moves \in 0..MaxMoves
    /\ overtaken \in BOOLEAN
<1>1. \A n : Carried(n) \subseteq Msg
  BY DEF Carried
<1> QED
  BY <1>1, Zenon DEF TypeOK, RoutesDescend, MessagesDescend, Queues, Tasks, Outputs, Inputs, Tables, Table

(* The same for the next state.                                             *)
LEMMA InvPartsNext ==
  (TypeOK /\ RoutesDescend /\ MessagesDescend)' <=>
    /\ parent' \in [NonRoot -> Node \cup {None}]
    /\ \A c \in NonRoot : parent'[c] # None => parent'[c] \in Above(c)
    /\ Queues(tasks', Tasks)
    /\ Queues(up', Outputs)
    /\ Queues(inbox', Inputs)
    /\ Tables(route')
    /\ moves' \in 0..MaxMoves
    /\ overtaken' \in BOOLEAN
<1>1. \A n : Carried(n) \subseteq Msg
  BY DEF Carried
<1> QED
  BY <1>1, Zenon DEF TypeOK, RoutesDescend, MessagesDescend, Queues, Tasks, Outputs, Inputs, Tables, Table
(* Putting a message that may be there into a queue.                        *)
LEMMA QueueAdd ==
  ASSUME NEW T, NEW f, Queues(f, T), NEW n \in Node, NEW e \in T[n]
  PROVE  Queues([f EXCEPT ![n] = BagAdd(@, e)], T)
BY BagAddElements DEF Queues

(* Taking a message out of a queue.                                         *)
LEMMA QueueDel ==
  ASSUME NEW T, NEW f, Queues(f, T), NEW n \in Node, NEW e
  PROVE  Queues([f EXCEPT ![n] = BagDel(@, e)], T)
BY BagDelElements DEF Queues
(* A handler keeps the tables and the queue to the parent: its client is a  *)
(* child of p, and the message names the client or clusters below it.       *)
LEMMA HandleStep ==
  ASSUME Tables(route), Queues(up, Outputs),
         NEW p \in Node, NEW c \in NonRoot, p \in Above(c),
         NEW m \in Msg,
         m \in Carried(c) \/ (m \in Task /\ m.name = c),
         Handle(p, c, m)
  PROVE  Tables(route') /\ Queues(up', Outputs)
<1> USE DEF NonRoot
<1>1. Table(p, route[p]) /\ DOMAIN route = Node
  BY DEF Tables
<1>2. ASSUME NEW r, Table(p, r), route' = [route EXCEPT ![p] = r]
      PROVE  Tables(route')
  BY <1>2 DEF Tables
<1>3. ASSUME m.kind # "subtree"
      PROVE  m \in Task /\ m.name \in Node /\ Brings(c, m.name) /\ m \in Outputs[p]
  <2>1. m \in Task /\ m.name \in Node
    BY <1>3 DEF Msg, Report, Task
  <2>2. Brings(c, m.name)
    BY <1>3 DEF Carried, Brings
  <2>3. m.name \in Below(p)
    BY <2>1, <2>2, TreeAssumption DEF Brings, Below, Above
  <2> QED
    BY <1>3, <2>1, <2>2, <2>3, Zenon DEF Carried, Outputs
<1>4. ASSUME m.kind # "subtree", Transmit(p, m)
      PROVE  Queues(up', Outputs)
  <2>1. Queues([up EXCEPT ![p] = BagAdd(@, m)], Outputs)
    BY <1>3, <1>4, QueueAdd, Zenon
  <2> QED
    BY <1>4, <2>1, Zenon DEF Transmit
<1>5. CASE m.kind = "regist" /\ HandleRegist(p, c, m)
  <2>1. CASE Duplicated(route[p], m.name, c)
    BY <1>5, <2>1, Zenon DEF HandleRegist
  <2>2. CASE ~Duplicated(route[p], m.name, c)
    <3>1. Table(p, AddRoute(route[p], m.name, c))
      BY <1>1, <1>3, <1>5, AddRouteTable
    <3>2. route' = [route EXCEPT ![p] = AddRoute(route[p], m.name, c)] /\ Transmit(p, m)
      BY <1>5, <2>2 DEF HandleRegist
    <3> QED
      BY <1>2, <1>4, <1>5, <3>1, <3>2, ZenonT(30)
  <2> QED
    BY <2>1, <2>2, Zenon
<1>6. CASE m.kind = "unregist" /\ HandleUnregist(p, c, m)
  <2>1. Table(p, DelRoute(route[p], m.name, c))
    BY <1>1, DelRouteTable, ZenonT(30)
  <2>2. route' = [route EXCEPT ![p] = DelRoute(route[p], m.name, c)] /\ Transmit(p, m)
    BY <1>6 DEF HandleUnregist
  <2> QED
    BY <1>2, <1>4, <1>6, <2>1, <2>2, ZenonT(30)
<1>7. CASE m.kind = "subtree" /\ HandleSubtree(p, c, m)
  <2>1. m.subs \subseteq Below(c)
    BY <1>7 DEF Carried, Task
  <2>2. Table(p, UpdateRouteToSubtree(route[p], m.subs, c))
    BY <1>1, <2>1, SubtreeTable, ZenonT(30)
  <2>3. route' = [route EXCEPT ![p] = UpdateRouteToSubtree(route[p], m.subs, c)] /\ up' = up
    BY <1>7 DEF HandleSubtree
  <2> QED
    BY <1>2, <2>2, <2>3, ZenonT(30)
<1> QED
  BY <1>5, <1>6, <1>7, Zenon DEF Handle

(* Every step keeps the inductive invariant.                                *)
LEMMA DescendStep ==
  TypeOK /\ RoutesDescend /\ MessagesDescend /\ [Next]_vars
    => (TypeOK /\ RoutesDescend /\ MessagesDescend)'
<1> SUFFICES ASSUME TypeOK, RoutesDescend, MessagesDescend, [Next]_vars
             PROVE  (TypeOK /\ RoutesDescend /\ MessagesDescend)'
  OBVIOUS
<1>0. /\ parent \in [NonRoot -> Node \cup {None}]
      /\ \A c \in NonRoot : parent[c] # None => parent[c] \in Above(c)
      /\ Queues(tasks, Tasks)
      /\ Queues(up, Outputs)
      /\ Queues(inbox, Inputs)
      /\ Tables(route)
      /\ moves \in 0..MaxMoves
      /\ overtaken \in BOOLEAN
  BY InvParts, Zenon
<1>1. ASSUME NEW c \in NonRoot, NEW p \in Above(c), Connect(c, p)
      PROVE  (TypeOK /\ RoutesDescend /\ MessagesDescend)'
  <2>1. p \in Node /\ Regist(c) \in Tasks[p]
    BY DEF Above, Tasks, Task, Regist
  <2>2. Queues(tasks', Tasks)
    BY <1>0, <1>1, <2>1, QueueAdd, Zenon DEF Connect
  <2> QED
    BY <1>0, <1>1, <2>1, <2>2, InvPartsNext, ZenonT(30) DEF Connect
<1>2. ASSUME NEW c \in NonRoot, NEW m \in BagToSet(up[c]), SendToParent(c, m)
      PROVE  (TypeOK /\ RoutesDescend /\ MessagesDescend)'
  <2>1. Queues(up', Outputs)
    BY <1>0, <1>2, QueueDel, ZenonT(30) DEF SendToParent, NonRoot
  <2>2. m \in Carried(c) /\ m \in Msg
    BY <1>0 DEF Queues, Outputs, NonRoot, Carried
  <2>3. Queues(inbox', Inputs)
    <3>1. CASE parent[c] = None
      BY <1>0, <1>2, <3>1 DEF SendToParent
    <3>2. CASE parent[c] # None
      <4>1. parent[c] \in Node /\ <<c, m>> \in Inputs[parent[c]]
        BY <1>0, <2>2, <3>2 DEF Inputs
      <4> QED
        BY <1>0, <1>2, <3>2, <4>1, QueueAdd, ZenonT(30) DEF SendToParent
    <3> QED
      BY <3>1, <3>2, ZenonT(30)
  <2> QED
    BY <1>0, <1>2, <2>1, <2>3, InvPartsNext DEF SendToParent
<1>3. ASSUME NEW c \in NonRoot, ReportSubTree(c)
      PROVE  (TypeOK /\ RoutesDescend /\ MessagesDescend)'
  <2> DEFINE m == Subtree(DOMAIN route[c])
  <2>1. DOMAIN route[c] \subseteq Below(c)
    BY <1>0 DEF Tables, Table, Below, NonRoot
  <2>2. m \in Outputs[c]
    BY <2>1 DEF Outputs, Carried, Msg, Report, NonRoot, Below, Subtree
  <2>3. Queues(up', Outputs)
    BY <1>0, <1>3, <2>2, QueueAdd, ZenonT(30) DEF ReportSubTree, NonRoot
  <2> QED
    BY <1>0, <1>3, <2>3, InvPartsNext, Zenon DEF ReportSubTree
<1>4. ASSUME NEW c \in Movers, Disconnect(c)
      PROVE  (TypeOK /\ RoutesDescend /\ MessagesDescend)'
  <2>1. c \in NonRoot /\ parent[c] \in Node
    BY <1>0, <1>4, TreeAssumption, ZenonT(30) DEF Disconnect, NonRoot
  <2>2. Unregist(c) \in Tasks[parent[c]]
    BY <1>0, <1>4, <2>1, ZenonT(30) DEF Disconnect, Tasks, Task, Unregist
  <2>3. Queues(tasks', Tasks)
    BY <1>0, <1>4, <2>1, <2>2, QueueAdd, ZenonT(30) DEF Disconnect
  <2>4. moves' \in 0..MaxMoves
    BY <1>0, <1>4, TreeAssumption DEF Disconnect
  <2> QED
    BY <1>0, <1>4, <2>3, <2>4, InvPartsNext, ZenonT(30) DEF Disconnect
<1>5. ASSUME NEW p \in Node, NEW m \in BagToSet(tasks[p]), RunTask(p, m)
      PROVE  (TypeOK /\ RoutesDescend /\ MessagesDescend)'
  <2>1. m \in Task /\ m.name \in NonRoot /\ p \in Above(m.name) /\ m \in Msg
    BY <1>0 DEF Queues, Tasks, Task, Msg
  <2>2. Tables(route') /\ Queues(up', Outputs)
    BY <1>0, <1>5, <2>1, HandleStep, Zenon DEF RunTask
  <2>3. Queues(tasks', Tasks)
    BY <1>0, <1>5, QueueDel, ZenonT(30) DEF RunTask
  <2>4. overtaken' \in BOOLEAN
    BY <1>5, Zenon DEF RunTask
  <2> QED
    BY <1>0, <1>5, <2>2, <2>3, <2>4, InvPartsNext, Zenon DEF RunTask
<1>6. ASSUME NEW p \in Node, NEW e \in BagToSet(inbox[p]), HandleChildMessage(p, e[1], e[2])
      PROVE  (TypeOK /\ RoutesDescend /\ MessagesDescend)'
  <2>1. e[1] \in NonRoot /\ e[2] \in Msg /\ p \in Above(e[1]) /\ e[2] \in Carried(e[1])
    BY <1>0 DEF Queues, Inputs
  <2>2. Tables(route') /\ Queues(up', Outputs)
    BY <1>0, <1>6, <2>1, HandleStep, ZenonT(30) DEF HandleChildMessage
  <2>3. Queues(inbox', Inputs)
    BY <1>0, <1>6, QueueDel, ZenonT(30) DEF HandleChildMessage
  <2>4. overtaken' \in BOOLEAN
    BY <1>6, Zenon DEF HandleChildMessage
  <2> QED
    BY <1>0, <1>6, <2>2, <2>3, <2>4, InvPartsNext, ZenonT(30) DEF HandleChildMessage
<1>7. CASE UNCHANGED vars
  BY <1>0, <1>7, InvPartsNext, ZenonT(30) DEF vars
<1> QED
  BY <1>1, <1>2, <1>3, <1>4, <1>5, <1>6, <1>7, ZenonT(30) DEF Next

(* The initial state satisfies the inductive invariant.                     *)
LEMMA DescendInit == Init => TypeOK /\ RoutesDescend /\ MessagesDescend
<1> SUFFICES ASSUME Init PROVE TypeOK /\ RoutesDescend /\ MessagesDescend
  OBVIOUS
<1>1. Queues(tasks, Tasks) /\ Queues(up, Outputs) /\ Queues(inbox, Inputs)
  BY EmptyBagElements DEF Init, Queues
<1>2. Tables(route)
  BY DEF Init, Tables, Table
<1>3. parent \in [NonRoot -> Node \cup {None}] /\ \A c \in NonRoot : parent[c] = None
  BY DEF Init
<1>4. moves \in 0..MaxMoves
  BY TreeAssumption DEF Init
<1>5. overtaken \in BOOLEAN
  BY Zenon DEF Init
<1> QED
  BY <1>1, <1>2, <1>3, <1>4, <1>5, InvParts, ZenonT(30)

(* The state of the routes and of the messages about them is well typed.    *)
THEOREM TypeCorrect == Spec => []TypeOK
<1>1. TypeOK /\ RoutesDescend /\ MessagesDescend /\ [Next]_vars
        => (TypeOK /\ RoutesDescend /\ MessagesDescend)'
  BY DescendStep
<1> QED
  BY <1>1, DescendInit, PTL DEF Spec

(* Routes lead down in every reachable state (AddRoute, DelRoute and        *)
(* updateRouteToSubtree with the messages that reach them).                 *)
THEOREM RoutesLeadDown == Spec => []RoutesDescend
<1>1. TypeOK /\ RoutesDescend /\ MessagesDescend /\ [Next]_vars
        => (TypeOK /\ RoutesDescend /\ MessagesDescend)'
  BY DescendStep
<1> QED
  BY <1>1, DescendInit, PTL DEF Spec

-----------------------------------------------------------------------------
(* Functions that are computed step by step *)

(* Induction up to a bound.                                                 *)
LEMMA UpTo ==
  ASSUME NEW k \in Nat, NEW P, 0 \in P, \A i \in 0..k : i \in P /\ i + 1 \in 0..k => i + 1 \in P
  PROVE  0..k \subseteq P
<1> DEFINE T == (0..k) \ P
<1> SUFFICES ASSUME T # {} PROVE FALSE
  OBVIOUS
<1>1. T \subseteq Nat
  OBVIOUS
<1>2. \E x \in T : \A y \in T : ~(<<y, x>> \in OpToRel(<, Nat))
  <2> HIDE DEF T
  <2> QED
    BY <1>1, NatLessThanWellFounded, WFMin, ZenonT(30)
<1>3. PICK x \in T : \A y \in T : ~(y < x)
  BY <1>1, <1>2, Zenon DEF OpToRel
<1>4. x \in Nat /\ x # 0 /\ x - 1 \in 0..k /\ x - 1 < x /\ (x - 1) + 1 = x
  OBVIOUS
<1> QED
  BY <1>3, <1>4

\* g starts with b, and f takes it from each place to the next.
Stepwise(g, k, b, f) == g = [i \in 0..k |-> IF i = 0 THEN b ELSE f[i][g[i - 1]]]

(* A function that is given step by step up to a bound exists.              *)
LEMMA Recursion ==
  ASSUME NEW k \in Nat, NEW S, NEW b \in S, NEW f \in [1..k -> [S -> S]]
  PROVE  \E g \in [0..k -> S] : Stepwise(g, k, b, f)
<1> DEFINE Is(g, j) == \A i \in 0..j : g[i] = IF i = 0 THEN b ELSE f[i][g[i - 1]]
           P == {j \in 0..k : \E g \in [0..j -> S] : Is(g, j)}
<1>1. 0 \in P
  <2>1. [i \in 0..0 |-> b] \in [0..0 -> S] /\ Is([i \in 0..0 |-> b], 0)
    OBVIOUS
  <2>2. \E g \in [0..0 -> S] : Is(g, 0)
    <3> HIDE DEF Is
    <3> QED
      BY <2>1, Zenon
  <2> QED
    BY <2>2
<1>2. ASSUME NEW j \in 0..k, j \in P, j + 1 \in 0..k
      PROVE  j + 1 \in P
  <2>1. PICK g \in [0..j -> S] : Is(g, j)
    BY <1>2
  <2> DEFINE h == [i \in 0..(j + 1) |-> IF i = j + 1 THEN f[i][g[j]] ELSE g[i]]
  <2>2. f[j + 1][g[j]] \in S
    BY <1>2
  <2>3. h \in [0..(j + 1) -> S]
    BY <2>2
  <2>4. Is(h, j + 1)
    <3>1. ASSUME NEW i \in 0..j PROVE h[i] = IF i = 0 THEN b ELSE f[i][h[i - 1]]
      <4>1. h[i] = g[i] /\ (i # 0 => h[i - 1] = g[i - 1])
        OBVIOUS
      <4> QED
        BY <2>1, <4>1, Zenon
    <3>2. h[j + 1] = f[j + 1][h[(j + 1) - 1]] /\ j + 1 # 0
      OBVIOUS
    <3>3. \A i \in 0..(j + 1) : i \in 0..j \/ i = j + 1
      OBVIOUS
    <3> HIDE DEF h
    <3> QED
      BY <3>1, <3>2, <3>3, ZenonT(30)
  <2> QED
    BY <1>2, <2>3, <2>4, ZenonT(30)
<1>3. 0..k \subseteq P
  <2> HIDE DEF P
  <2> QED
    BY <1>1, <1>2, UpTo, Zenon
<1>4. PICK g \in [0..k -> S] : Is(g, k)
  BY <1>3
<1>5. g = [i \in 0..k |-> IF i = 0 THEN b ELSE f[i][g[i - 1]]]
  BY <1>4
<1> QED
  BY <1>5, Zenon DEF Stepwise

\* Responses of some clusters, and what may be stored of them.
Answers(names) == [name : names, time : Nat]
Stored(names) == UNION {[D -> Nat] : D \in SUBSET names}

\* The status st has the newest of each cluster among the first j of rs.
NewestOf(rs, j, st) ==
  /\ \A i \in 1..j : rs[i].name \in DOMAIN st /\ rs[i].time <= st[rs[i].name]
  /\ \A n \in DOMAIN st : \E i \in 1..j : rs[i].name = n /\ rs[i].time = st[n]

(* mergeToApiserver stores times of clusters.                               *)
LEMMA MergeStores ==
  ASSUME NEW names, NEW st \in Stored(names), NEW r \in Answers(names)
  PROVE  mergeToApiserver(st, r) \in Stored(names)
<1>1. PICK D \in SUBSET names : st \in [D -> Nat]
  BY DEF Stored
<1>2. mergeToApiserver(st, r) \in [D \cup {r.name} -> Nat]
  BY <1>1 DEF mergeToApiserver, Answers
<1>3. D \cup {r.name} \in SUBSET names
  BY Zenon DEF Answers
<1> QED
  BY <1>2, <1>3, ZenonT(30) DEF Stored

(* mergeToApiserver with one more response.                                 *)
LEMMA MergeNewest ==
  ASSUME NEW names, NEW k \in Nat, NEW rs \in [1..k -> Answers(names)], NEW j \in 0..k, j + 1 \in 0..k,
         NEW st \in Stored(names), NewestOf(rs, j, st)
  PROVE  NewestOf(rs, j + 1, mergeToApiserver(st, rs[j + 1]))
<1> DEFINE r == rs[j + 1]
           new == mergeToApiserver(st, r)
<1>1. r \in Answers(names) /\ \A i \in 1..j : rs[i] \in Answers(names)
  OBVIOUS
<1>2. \A n \in DOMAIN st : st[n] \in Nat
  BY DEF Stored
<1>3. /\ DOMAIN new = DOMAIN st \cup {r.name}
      /\ \A n \in DOMAIN new :
           new[n] = IF n = r.name /\ (n \notin DOMAIN st \/ st[n] < r.time) THEN r.time ELSE st[n]
  BY DEF mergeToApiserver
<1> HIDE DEF new
<1>4. r.time <= new[r.name] /\ r.name \in DOMAIN new
  BY <1>1, <1>2, <1>3 DEF Answers
<1>5. ASSUME NEW i \in 1..j
      PROVE  rs[i].name \in DOMAIN new /\ rs[i].time <= new[rs[i].name]
  <2>1. rs[i].name \in DOMAIN st /\ rs[i].time <= st[rs[i].name]
    BY DEF NewestOf
  <2>2. rs[i].time \in Nat /\ r.time \in Nat /\ st[rs[i].name] \in Nat
    BY <1>1, <1>2, <2>1, Zenon DEF Answers
  <2>3. \/ new[rs[i].name] = r.time /\ st[rs[i].name] < r.time
        \/ new[rs[i].name] = st[rs[i].name]
    BY <1>3, <2>1
  <2> HIDE DEF r
  <2> QED
    BY <1>3, <2>1, <2>2, <2>3
<1>6. \A i \in 1..(j + 1) : i \in 1..j \/ i = j + 1
  OBVIOUS
<1>7. 1..j \subseteq 1..(j + 1) /\ j + 1 \in 1..(j + 1)
  OBVIOUS
<1>8. ASSUME NEW n \in DOMAIN new
      PROVE  \E i \in 1..(j + 1) : rs[i].name = n /\ rs[i].time = new[n]
  <2>1. CASE n = r.name /\ new[n] = r.time
    BY <1>7, <2>1
  <2>2. CASE n \in DOMAIN st /\ new[n] = st[n]
    <3>1. PICK i \in 1..j : rs[i].name = n /\ rs[i].time = st[n]
      BY <2>2 DEF NewestOf
    <3> QED
      BY <1>7, <2>2, <3>1
  <2> QED
    BY <1>3, <2>1, <2>2, Zenon
<1> HIDE DEF r
<1>9. \A i \in 1..(j + 1) : rs[i].name \in DOMAIN new /\ rs[i].time <= new[rs[i].name]
  BY <1>4, <1>5, <1>6 DEF r
<1> QED
  BY <1>8, <1>9, ZenonT(30) DEF NewestOf, new, r

(* Merged is computed response by response.                                 *)
LEMMA MergedSteps ==
  ASSUME NEW names, NEW k \in Nat, NEW rs \in [1..k -> Answers(names)]
  PROVE  \E g : 
           /\ g = [i \in 0..k |-> IF i = 0 THEN <<>> ELSE mergeToApiserver(g[i - 1], rs[i])]
           /\ Merged(rs) = g[k]
<1> DEFINE S == Stored(names)
           b == <<>>
           f == [i \in 1..k |-> [st \in S |-> mergeToApiserver(st, rs[i])]]
           Is(g) == g = [i \in 0..k |-> IF i = 0 THEN <<>> ELSE mergeToApiserver(g[i - 1], rs[i])]
<1>1. b \in S
  <2>1. <<>> \in [{} -> Nat]
    OBVIOUS
  <2> QED
    BY <2>1, Zenon DEF Stored
<1>2. f \in [1..k -> [S -> S]]
  BY MergeStores
<1>3. PICK g \in [0..k -> S] : Stepwise(g, k, b, f)
  <2> HIDE DEF S, b, f
  <2> QED
    BY <1>1, <1>2, Recursion, ZenonT(30)
<1>4. \A i \in 0..k : i # 0 => i \in 1..k /\ i - 1 \in 0..k
  OBVIOUS
<1>5. \A i \in 0..k : i # 0 => f[i][g[i - 1]] = mergeToApiserver(g[i - 1], rs[i])
  BY <1>4
<1>6. Is(g)
  BY <1>3, <1>5, ZenonT(30) DEF Stepwise
<1>7. Len(rs) = k
  OBVIOUS
<1> DEFINE c == CHOOSE h : Is(h)
<1>8. Merged(rs) = c[k]
  BY <1>7, Zenon DEF Merged
<1>9. Is(c)
  <2> HIDE DEF Is
  <2> QED
    BY <1>6, ZenonT(30)
<1> QED
  BY <1>8, <1>9, Zenon

(* Responses merged one by one, in any order, leave the newest.             *)
LEMMA MergedNewest ==
  ASSUME NEW names, NEW k \in Nat, NEW rs \in [1..k -> Answers(names)]
  PROVE  Newest(rs, Merged(rs))
<1>1. PICK g : /\ g = [i \in 0..k |-> IF i = 0 THEN <<>> ELSE mergeToApiserver(g[i - 1], rs[i])]
               /\ Merged(rs) = g[k]
  BY MergedSteps, Zenon
<1> DEFINE P == {j \in 0..k : g[j] \in Stored(names) /\ NewestOf(rs, j, g[j])}
<1>2. 0 \in P
  <2>1. g[0] = <<>> /\ DOMAIN g[0] = {} /\ 1..0 = {}
    BY <1>1
  <2>2. <<>> \in [{} -> Nat]
    OBVIOUS
  <2>3. g[0] \in Stored(names)
    BY <2>1, <2>2, ZenonT(30) DEF Stored
  <2>4. NewestOf(rs, 0, g[0])
    BY <2>1 DEF NewestOf
  <2> QED
    BY <2>3, <2>4
<1>3. ASSUME NEW j \in 0..k, j \in P, j + 1 \in 0..k
      PROVE  j + 1 \in P
  <2>1. g[j + 1] = mergeToApiserver(g[j], rs[j + 1])
    BY <1>1, <1>3
  <2>2. g[j] \in Stored(names) /\ NewestOf(rs, j, g[j])
    BY <1>3
  <2>3. rs[j + 1] \in Answers(names)
    BY <1>3
  <2>4. g[j + 1] \in Stored(names)
    BY <2>1, <2>2, <2>3, MergeStores, ZenonT(30)
  <2>5. NewestOf(rs, j + 1, g[j + 1])
    BY <1>3, <2>1, <2>2, MergeNewest, ZenonT(30)
  <2> QED
    BY <1>3, <2>4, <2>5
<1>4. k \in P
  <2>1. 0..k \subseteq P
    <3> HIDE DEF P
    <3> QED
      BY <1>2, <1>3, UpTo, ZenonT(30)
  <2> QED
    BY <2>1
<1> QED
  BY <1>1, <1>4 DEF Newest, NewestOf

\* Copies of requests.
Copy == [to : Node, selector : SUBSET SUBSET Node]

\* The names that the names matched by s are a part of.
Widened(s) == UNION {Containing[n] : n \in {m \in Node : Has(s, m)}}

(* A cluster sends a copy through every port that leads to a cluster the    *)
(* selector matches, and no other; its selector has the names it matched.   *)
LEMMA Forwarded ==
  ASSUME TypeOK, NEW m \in Copy
  PROVE  /\ handleMessageFromParent(m) \subseteq Copy
         /\ \A c \in handleMessageFromParent(m) : \A x \in Node : Has(c.selector, x) =>
              \E y \in Node : Has(m.selector, y) /\ x \in Containing[y]
         /\ \A y \in DOMAIN route[m.to] :
              Has(m.selector, y) /\ route[m.to][y] \in NonRoot /\ parent[route[m.to][y]] = m.to =>
                \E c \in handleMessageFromParent(m) : c.to = route[m.to][y] /\ Has(c.selector, y)
<1> DEFINE n == m.to
           r == route[n]
           all == Selected(n, m.selector)
           sent == selectChild(n, m.selector)
           through(p) == {x \in all : r[x] = p}
<1>1. n \in Node /\ m.selector \in SUBSET SUBSET Node
  BY DEF Copy
<1>2. DOMAIN r \subseteq Node /\ r \in [DOMAIN r -> Node]
  BY <1>1 DEF TypeOK
<1>3. all = {x \in DOMAIN r : Has(m.selector, x)}
  BY DEF Selected
<1>4. /\ DOMAIN sent = {r[x] : x \in all}
      /\ \A p \in DOMAIN sent : sent[p] = {Containing[x] : x \in through(p)}
  BY Zenon DEF selectChild, PortsToSubtreeClusters, ClustersToSelector
<1>5. \A x \in Node : Containing[x] \in SUBSET Node /\ x \in Containing[x]
  BY DispatchAssumption
<1> HIDE DEF sent, all, r
<1>6. handleMessageFromParent(m) =
        {[to |-> p, selector |-> sent[p]] : p \in {q \in DOMAIN sent : q # Root /\ parent[q] = n}}
  BY DEF handleMessageFromParent, sendToChild, sent
<1>7. ASSUME NEW p \in DOMAIN sent
      PROVE  p \in Node /\ sent[p] \in SUBSET SUBSET Node
             /\ \A x : Has(sent[p], x) => \E y \in Node : Has(m.selector, y) /\ x \in Containing[y]
  <2>1. p \in Node
    BY <1>2, <1>3, <1>4
  <2>2. sent[p] \in SUBSET SUBSET Node
    BY <1>2, <1>3, <1>4, <1>5
  <2>3. ASSUME NEW x, Has(sent[p], x)
        PROVE  \E y \in Node : Has(m.selector, y) /\ x \in Containing[y]
    <3>1. PICK y \in through(p) : x \in Containing[y]
      BY <1>4, <2>3 DEF Has
    <3> QED
      BY <1>2, <1>3, <3>1
  <2> QED
    BY <2>1, <2>2, <2>3
<1>8. handleMessageFromParent(m) \subseteq Copy
  BY <1>6, <1>7 DEF Copy
<1>9. ASSUME NEW c \in handleMessageFromParent(m), NEW x \in Node, Has(c.selector, x)
      PROVE  \E y \in Node : Has(m.selector, y) /\ x \in Containing[y]
  <2>1. PICK p \in DOMAIN sent : c = [to |-> p, selector |-> sent[p]]
    BY <1>6
  <2>2. Has(sent[p], x)
    BY <1>9, <2>1
  <2> QED
    BY <1>7, <2>2
<1>10. ASSUME NEW y \in DOMAIN r, Has(m.selector, y), r[y] \in NonRoot, parent[r[y]] = n
       PROVE  \E c \in handleMessageFromParent(m) : c.to = r[y] /\ Has(c.selector, y)
  <2> DEFINE p == r[y]
             c == [to |-> p, selector |-> sent[p]]
  <2>1. y \in through(p) /\ p \in DOMAIN sent
    BY <1>3, <1>4, <1>10
  <2>2. Containing[y] \in sent[p] /\ y \in Containing[y]
    BY <1>2, <1>4, <1>5, <2>1
  <2>3. Has(c.selector, y) /\ c.to = p
    BY <2>2 DEF Has
  <2>4. c \in handleMessageFromParent(m)
    BY <1>6, <1>10, <2>1 DEF NonRoot
  <2> QED
    BY <2>3, <2>4
<1> QED
  BY <1>8, <1>9, <1>10 DEF r

(* Copies is computed hop by hop.                                           *)
LEMMA CopiesSteps ==
  ASSUME TypeOK, NEW s \in SUBSET SUBSET Node, NEW k \in Nat
  PROVE  \E g : /\ g = [i \in 0..k |-> IF i = 0 THEN {[to |-> Root, selector |-> s]}
                                       ELSE UNION {handleMessageFromParent(m) : m \in g[i - 1]}]
                /\ Copies(s, k) = g[k]
<1> DEFINE S == SUBSET Copy
           b == {[to |-> Root, selector |-> s]}
           Sends(C) == UNION {handleMessageFromParent(m) : m \in C}
           f == [i \in 1..k |-> [C \in S |-> Sends(C)]]
           Is(g) == g = [i \in 0..k |-> IF i = 0 THEN {[to |-> Root, selector |-> s]}
                                        ELSE UNION {handleMessageFromParent(m) : m \in g[i - 1]}]
<1>1. b \in S
  BY TreeAssumption DEF Copy
<1>2. \A C \in S : Sends(C) \in S
  BY Forwarded
<1>3. f \in [1..k -> [S -> S]]
  <2> HIDE DEF S, Sends
  <2> QED
    BY <1>2
<1>4. PICK g \in [0..k -> S] : Stepwise(g, k, b, f)
  <2> HIDE DEF S, b, f
  <2> QED
    BY <1>1, <1>3, Recursion, ZenonT(30)
<1>5. \A i \in 0..k : i # 0 => i \in 1..k /\ i - 1 \in 0..k
  OBVIOUS
<1>6. \A i \in 0..k : i # 0 => f[i][g[i - 1]] = Sends(g[i - 1])
  <2> HIDE DEF S, Sends
  <2> QED
    BY <1>5
<1>7. Is(g)
  <2>1. g = [i \in 0..k |-> IF i = 0 THEN b ELSE Sends(g[i - 1])]
    <3> HIDE DEF S, b, f, Sends
    <3> QED
      BY <1>4, <1>6, ZenonT(30) DEF Stepwise
  <2> QED
    BY <2>1, Zenon
<1> DEFINE c == CHOOSE h : Is(h)
<1>8. Copies(s, k) = c[k]
  BY Zenon DEF Copies
<1>9. Is(c)
  <2> HIDE DEF Is
  <2> QED
    BY <1>7, Zenon
<1> QED
  BY <1>8, <1>9, ZenonT(30)

(* The copies of a request match nothing outside of what its selector       *)
(* matches, widened once: each cluster widens what another has widened.     *)
LEMMA CopiesSelected ==
  ASSUME TypeOK, NEW s \in SUBSET SUBSET Node, NEW k \in Nat
  PROVE  /\ Copies(s, k) \subseteq Copy
         /\ \A m \in Copies(s, k) : \A x \in Node : Has(m.selector, x) => x \in Widened(s)
<1>1. PICK g : /\ g = [i \in 0..k |-> IF i = 0 THEN {[to |-> Root, selector |-> s]}
                                      ELSE UNION {handleMessageFromParent(m) : m \in g[i - 1]}]
               /\ Copies(s, k) = g[k]
  BY CopiesSteps, ZenonT(30)
<1> DEFINE Within(m) == \A x \in Node : Has(m.selector, x) => x \in Widened(s)
           P == {j \in 0..k : g[j] \subseteq Copy /\ \A m \in g[j] : Within(m)}
<1>2. 0 \in P
  <2>1. g[0] = {[to |-> Root, selector |-> s]}
    BY <1>1
  <2>2. [to |-> Root, selector |-> s] \in Copy
    BY TreeAssumption DEF Copy
  <2>3. \A x \in Node : Has(s, x) => x \in Widened(s)
    BY DispatchAssumption DEF Widened
  <2> QED
    BY <2>1, <2>2, <2>3
<1>3. ASSUME NEW j \in 0..k, j \in P, j + 1 \in 0..k
      PROVE  j + 1 \in P
  <2>1. g[j + 1] = UNION {handleMessageFromParent(m) : m \in g[j]}
    BY <1>1, <1>3
  <2>2. ASSUME NEW c \in g[j + 1]
        PROVE  c \in Copy /\ Within(c)
    <3>1. PICK m \in g[j] : c \in handleMessageFromParent(m)
      BY <2>1
    <3>2. m \in Copy /\ Within(m)
      BY <1>3
    <3>3. c \in Copy
      BY <3>1, <3>2, Forwarded
    <3>4. ASSUME NEW x \in Node, Has(c.selector, x)
          PROVE  x \in Widened(s)
      <4>1. PICK y \in Node : Has(m.selector, y) /\ x \in Containing[y]
        BY <3>1, <3>2, <3>4, Forwarded, ZenonT(30)
      <4>2. y \in Widened(s)
        BY <3>2, <4>1
      <4>3. PICK z \in Node : Has(s, z) /\ y \in Containing[z]
        BY <4>2 DEF Widened
      <4>4. x \in Containing[z]
        BY <4>1, <4>3, DispatchAssumption
      <4> QED
        BY <4>3, <4>4 DEF Widened
    <3> QED
      BY <3>3, <3>4
  <2> QED
    BY <1>3, <2>2
<1>4. k \in P
  <2>1. 0..k \subseteq P
    <3> HIDE DEF P
    <3> QED
      BY <1>2, <1>3, UpTo, ZenonT(30)
  <2> QED
    BY <2>1
<1> QED
  BY <1>1, <1>4

(* What handles a request is what its selector matches, widened once.       *)
LEMMA Selective == TypeOK => DispatchSelected
<1> SUFFICES ASSUME TypeOK, NEW s \in Selectors, NEW n \in addClusterController(s)
             PROVE  n \in Widened(s)
  BY DEF DispatchSelected, Widened
<1>1. s \in SUBSET SUBSET Node
  BY DispatchAssumption
<1>2. PICK k \in 1..Level[n] : \E m \in Copies(s, k) : m.to = n /\ Has(m.selector, n)
  BY DEF addClusterController, receiveMessageFromTunnel
<1>3. n \in Node /\ k \in Nat
  BY TreeAssumption DEF addClusterController, NonRoot
<1> QED
  BY <1>1, <1>2, <1>3, CopiesSelected

-----------------------------------------------------------------------------
(* Line(x) is computed cluster by cluster, and stays in the tree.           *)
LEMMA LineSteps ==
  ASSUME TypeOK, NEW x \in Node
  PROVE  /\ Line(x) \in [0..Level[x] -> Node \cup {None}]
         /\ Line(x)[0] = x
         /\ \A i \in 0..Level[x] : i + 1 \in 0..Level[x] =>
              Line(x)[i + 1] = IF Line(x)[i] \in NonRoot THEN parent[Line(x)[i]] ELSE None
<1> DEFINE k == Level[x]
           S == Node \cup {None}
           To(v) == IF v \in NonRoot THEN parent[v] ELSE None
           f == [i \in 1..k |-> [v \in S |-> To(v)]]
           Is(g) == g = [i \in 0..k |-> IF i = 0 THEN x
                                        ELSE IF g[i - 1] \in NonRoot THEN parent[g[i - 1]] ELSE None]
<1>1. k \in Nat /\ x \in S
  BY TreeAssumption
<1>2. \A v \in S : To(v) \in S
  BY DEF TypeOK
<1> HIDE DEF k
<1>3. f \in [1..k -> [S -> S]]
  <2> HIDE DEF S, To
  <2> QED
    BY <1>2
<1>4. PICK g \in [0..k -> S] : Stepwise(g, k, x, f)
  <2> HIDE DEF S, f
  <2> QED
    BY <1>1, <1>3, Recursion, ZenonT(30)
<1>5. \A i \in 0..k : i # 0 => i \in 1..k /\ i - 1 \in 0..k
  BY <1>1
<1>6. \A i \in 0..k : i # 0 => f[i][g[i - 1]] = To(g[i - 1])
  <2> HIDE DEF S, To
  <2> QED
    BY <1>5
<1>7. Is(g)
  <2>1. g = [i \in 0..k |-> IF i = 0 THEN x ELSE To(g[i - 1])]
    <3> HIDE DEF S, f, To
    <3> QED
      BY <1>4, <1>6, Zenon DEF Stepwise
  <2> QED
    BY <2>1, Zenon
<1> DEFINE c == CHOOSE h : Is(h)
<1>8. Line(x) = c
  BY Zenon DEF Line, k
<1>9. Is(c)
  <2> HIDE DEF Is
  <2> QED
    BY <1>7, Zenon
<1> HIDE DEF c
<1>10. c[0] = x
  BY <1>1, <1>9
<1>11. \A i \in 0..k : i + 1 \in 0..k => c[i + 1] = To(c[i])
  BY <1>1, <1>9
<1>12. \A i \in 0..k : c[i] \in S
  <2> DEFINE P == {i \in 0..k : c[i] \in S}
  <2>1. 0 \in P
    BY <1>1, <1>10
  <2>2. \A i \in 0..k : i \in P /\ i + 1 \in 0..k => i + 1 \in P
    <3> HIDE DEF S, To
    <3> QED
      BY <1>2, <1>11
  <2>3. 0..k \subseteq P
    <3> HIDE DEF P
    <3> QED
      BY <1>1, <2>1, <2>2, UpTo, ZenonT(30)
  <2> QED
    BY <2>3
<1>13. c \in [0..k -> S]
  <2>1. c = [i \in 0..k |-> c[i]]
    BY <1>9
  <2> HIDE DEF S
  <2> QED
    BY <1>12, <2>1
<1> QED
  BY <1>8, <1>10, <1>11, <1>13, ZenonT(30) DEF k

(* Every connection leads one level up, so that a cluster of the line of x  *)
(* is as far above it as its place in the line.                             *)
LEMMA LineRises ==
  ASSUME TypeOK, MessagesDescend, NEW x \in Node, NEW i \in 0..Level[x], Line(x)[i] \in Node
  PROVE  Level[Line(x)[i]] + i = Level[x]
<1> DEFINE k == Level[x]
           u == Line(x)
           P == {j \in 0..k : u[j] \in Node => Level[u[j]] + j = k}
<1>1. k \in Nat /\ \A n \in Node : Level[n] \in Nat
  BY TreeAssumption
<1>2. /\ u[0] = x
      /\ \A j \in 0..k : u[j] \in Node \cup {None}
      /\ \A j \in 0..k : j + 1 \in 0..k => u[j + 1] = IF u[j] \in NonRoot THEN parent[u[j]] ELSE None
  BY LineSteps, Zenon
<1> HIDE DEF u, k
<1>3. 0 \in P
  <2>1. Level[x] + 0 = k
    BY <1>1 DEF k
  <2> QED
    BY <1>1, <1>2, <2>1
<1>4. ASSUME NEW j \in 0..k, j \in P, j + 1 \in 0..k
      PROVE  j + 1 \in P
  <2> SUFFICES ASSUME u[j + 1] \in Node PROVE Level[u[j + 1]] + (j + 1) = k
    BY <1>4
  <2>1. u[j] \in NonRoot /\ u[j + 1] = parent[u[j]]
    BY <1>2, <1>4, TreeAssumption
  <2>2. parent[u[j]] \in Above(u[j])
    BY <2>1, TreeAssumption DEF MessagesDescend
  <2>3. u[j] \in Node /\ Level[u[j + 1]] + 1 = Level[u[j]]
    BY <2>1, <2>2 DEF Above, NonRoot
  <2>4. Level[u[j]] + j = k
    BY <1>4, <2>3
  <2> QED
    BY <1>1, <2>3, <2>4
<1>5. 0..k \subseteq P
  <2> HIDE DEF P
  <2> QED
    BY <1>1, <1>3, <1>4, UpTo, ZenonT(30)
<1> QED
  BY <1>5 DEF u, k

(* A cluster of the line of x is the port to x of the cluster it is         *)
(* connected to: there is no other at its level.                            *)
LEMMA PortOnLine ==
  ASSUME TypeOK, MessagesDescend, NEW x \in Node, NEW n \in Node,
         NEW i \in 0..Level[x], Line(x)[i] \in NonRoot, parent[Line(x)[i]] = n
  PROVE  TruePort(n, x) = Line(x)[i]
<1> DEFINE u == Line(x)
<1>1. u[i] \in Ports(n, x)
  BY DEF Ports
<1>2. ASSUME NEW y \in Ports(n, x)
      PROVE  y = u[i]
  <2>1. PICK j \in 0..Level[x] : u[j] = y
    BY DEF Ports
  <2>2. y \in NonRoot /\ parent[y] = n
    BY DEF Ports
  <2>3. n # None
    BY TreeAssumption
  <2>4. Level[n] + 1 = Level[y] /\ Level[n] + 1 = Level[u[i]]
    BY <2>2, <2>3, ZenonT(30) DEF MessagesDescend, Above
  <2>5. Level[u[i]] + i = Level[x]
    BY LineRises DEF NonRoot
  <2>6. Level[u[j]] + j = Level[x]
    BY <2>1, <2>2, LineRises, ZenonT(30) DEF NonRoot
  <2>7. Level[n] \in Nat /\ Level[x] \in Nat
    BY TreeAssumption
  <2>8. i = j
    BY <2>1, <2>4, <2>5, <2>6, <2>7
  <2> QED
    BY <2>1, <2>8
<1> HIDE DEF u
<1>3. (CHOOSE y \in Ports(n, x) : TRUE) = u[i]
  BY <1>1, <1>2, ZenonT(30)
<1> QED
  BY <1>1, <1>3, ZenonT(30) DEF TruePort, u

(* Below the root every cluster up to the last one of the line is connected *)
(* to the next.                                                             *)
LEMMA LineConnected ==
  ASSUME TypeOK, MessagesDescend, NEW x \in Node, TruePort(Root, x) # None
  PROVE  \E k \in Nat : /\ k + 1 \in 0..Level[x]
                        /\ Line(x)[k + 1] = Root
                        /\ \A i \in 0..k : Line(x)[i] \in NonRoot /\ parent[Line(x)[i]] = Line(x)[i + 1]
<1> DEFINE u == Line(x)
<1>1. \A j \in 0..Level[x] : j + 1 \in 0..Level[x] =>
        u[j + 1] = IF u[j] \in NonRoot THEN parent[u[j]] ELSE None
  BY LineSteps
<1>2. PICK k \in 0..Level[x] : u[k] \in NonRoot /\ parent[u[k]] = Root
  BY DEF TruePort, Ports
<1>3. Level[x] \in Nat /\ Level[Root] \in Nat /\ None \notin NonRoot /\ Root # None
  BY TreeAssumption DEF NonRoot
<1>4. Level[u[k]] + k = Level[x]
  BY <1>2, LineRises DEF NonRoot
<1>5. Level[Root] + 1 = Level[u[k]]
  BY <1>2, <1>3 DEF MessagesDescend, Above
<1>6. k \in Nat /\ k + 1 \in 0..Level[x]
  BY <1>3, <1>4, <1>5
<1> HIDE DEF u
<1> DEFINE P == {i \in 0..k : u[k - i] \in NonRoot}
<1>7. 0 \in P
  BY <1>2, <1>6
<1>8. ASSUME NEW i \in 0..k, i \in P, i + 1 \in 0..k
      PROVE  i + 1 \in P
  <2>1. k - (i + 1) \in 0..Level[x] /\ (k - (i + 1)) + 1 = k - i /\ k - i \in 0..Level[x]
    BY <1>3, <1>6, <1>8
  <2>2. u[k - i] \in NonRoot
    BY <1>8
  <2>3. u[k - (i + 1)] \in NonRoot
    BY <1>1, <1>3, <2>1, <2>2
  <2> QED
    BY <1>8, <2>3
<1>9. 0..k \subseteq P
  <2> HIDE DEF P
  <2> QED
    BY <1>6, <1>7, <1>8, UpTo, ZenonT(30)
<1>10. ASSUME NEW i \in 0..k
       PROVE  u[i] \in NonRoot /\ parent[u[i]] = u[i + 1]
  <2>1. k - i \in 0..k /\ k - (k - i) = i /\ i \in 0..Level[x] /\ i + 1 \in 0..Level[x]
    BY <1>3, <1>6
  <2>2. u[i] \in NonRoot
    BY <1>9, <2>1
  <2> QED
    BY <1>1, <2>1, <2>2
<1>11. u[k + 1] = Root
  BY <1>1, <1>2, <1>6
<1> QED
  BY <1>6, <1>10, <1>11 DEF u

(* Along true routes a copy that has the name of x goes down the line of x. *)
LEMMA Reaching == TypeOK /\ MessagesDescend => DispatchReaches
<1> SUFFICES ASSUME TypeOK, MessagesDescend, RoutesTrue, NEW s \in Selectors,
                    NEW x \in NonRoot, TruePort(Root, x) # None, Has(s, x)
             PROVE  x \in addClusterController(s)
  BY DEF DispatchReaches
<1> DEFINE u == Line(x)
<1>1. x \in Node /\ Level[x] \in Nat /\ s \in SUBSET SUBSET Node
  BY DispatchAssumption, TreeAssumption DEF NonRoot
<1>2. PICK k \in Nat : /\ k + 1 \in 0..Level[x]
                       /\ u[k + 1] = Root
                       /\ \A i \in 0..k : u[i] \in NonRoot /\ parent[u[i]] = u[i + 1]
  BY <1>1, LineConnected, Zenon
<1>3. PICK g : /\ g = [i \in 0..(k + 1) |-> IF i = 0 THEN {[to |-> Root, selector |-> s]}
                                            ELSE UNION {handleMessageFromParent(m) : m \in g[i - 1]}]
               /\ Copies(s, k + 1) = g[k + 1]
  <2>1. k + 1 \in Nat
    OBVIOUS
  <2> QED
    BY <1>1, <2>1, CopiesSteps, ZenonT(30)
<1> DEFINE P == {i \in 0..(k + 1) : \E m \in g[i] : m \in Copy /\ m.to = u[k + 1 - i] /\ Has(m.selector, x)}
<1>4. 0 \in P
  <2> DEFINE m == [to |-> Root, selector |-> s]
  <2>1. m \in g[0] /\ k + 1 - 0 = k + 1
    BY <1>3
  <2>2. m \in Copy /\ m.to = u[k + 1] /\ Has(m.selector, x)
    BY <1>1, <1>2, TreeAssumption, ZenonT(30) DEF Copy
  <2> HIDE DEF u
  <2> QED
    BY <2>1, <2>2
<1>5. ASSUME NEW i \in 0..(k + 1), i \in P, i + 1 \in 0..(k + 1)
      PROVE  i + 1 \in P
  <2>1. PICK m \in g[i] : m \in Copy /\ m.to = u[k + 1 - i] /\ Has(m.selector, x)
    BY <1>5
  <2> DEFINE j == k + 1 - (i + 1)
             y == u[j]
  <2>2. j \in 0..k /\ j + 1 = k + 1 - i /\ j \in 0..Level[x]
    BY <1>1, <1>2, <1>5
  <2>3. y \in NonRoot /\ parent[y] = m.to
    BY <1>2, <2>1, <2>2, Zenon
  <2>4. m.to \in Node /\ m.to # None
    BY <2>1, TreeAssumption DEF Copy
  <2>5. TruePort(m.to, x) = y
    <3> HIDE DEF j
    <3> QED
      BY <1>1, <2>2, <2>3, <2>4, PortOnLine, ZenonT(30)
  <2> HIDE DEF y, j, u
  <2>6. y # None
    BY <2>3, TreeAssumption, Zenon DEF NonRoot
  <2>7. x \in DOMAIN route[m.to] /\ route[m.to][x] = y
    BY <2>4, <2>5, <2>6 DEF RoutesTrue
  <2>8. PICK c \in handleMessageFromParent(m) : c.to = y /\ Has(c.selector, x)
    BY <2>1, <2>3, <2>7, Forwarded, ZenonT(30)
  <2>9. c \in Copy
    BY <2>1, Forwarded
  <2>10. c \in g[i + 1]
    <3>1. g[i + 1] = UNION {handleMessageFromParent(n) : n \in g[i]}
      BY <1>3, <1>5
    <3> QED
      BY <3>1
  <2> QED
    BY <1>5, <2>8, <2>9, <2>10, ZenonT(30) DEF y, j
<1>6. k + 1 \in P
  <2>1. 0..(k + 1) \subseteq P /\ k + 1 \in 0..(k + 1)
    <3>1. k + 1 \in Nat /\ k + 1 \in 0..(k + 1)
      OBVIOUS
    <3> HIDE DEF P
    <3> QED
      BY <1>4, <1>5, <3>1, UpTo, ZenonT(30)
  <2> QED
    BY <2>1
<1>7. PICK m \in Copies(s, k + 1) : m.to = x /\ Has(m.selector, x)
  <2>1. k + 1 - (k + 1) = 0 /\ u[0] = x
    BY <1>1, LineSteps
  <2> HIDE DEF u
  <2> QED
    BY <1>3, <1>6, <2>1, Zenon
<1>8. k + 1 \in 1..Level[x]
  BY <1>2
<1> QED
  BY <1>7, <1>8 DEF addClusterController, receiveMessageFromTunnel

(* What a cluster answered is merged by name and time.                      *)
LEMMA Merging == AnswersMerged
<1> SUFFICES ASSUME NEW s \in Selectors, NEW k \in 0..MaxResponses, NEW rs \in [1..k -> Responses(s)]
             PROVE  Newest(rs, Merged(rs))
  BY DEF AnswersMerged
<1>1. Responses(s) \subseteq Answers(NonRoot)
  BY DispatchAssumption DEF Responses, Answers, addClusterController
<1>2. k \in Nat /\ rs \in [1..k -> Answers(NonRoot)]
  BY <1>1
<1> QED
  BY <1>2, MergedNewest, Zenon

-----------------------------------------------------------------------------
(* Wherever a request comes while routes change, whoever handles it has a   *)
(* name that contains one its selector matches (selectChild rewrites the    *)
(* selector at every cluster on the way).                                   *)
THEOREM DispatchIsSelective == Spec => []DispatchSelected
<1>1. TypeOK => DispatchSelected
  BY Selective
<1> QED
  BY <1>1, TypeCorrect, PTL

(* Whenever the routes are the true ones, a request reaches every connected *)
(* cluster that its selector matches, through any number of clusters that   *)
(* rewrite the selector (selectChild, handleMessageFromParent).             *)
THEOREM DispatchIsComplete == Spec => []DispatchReaches
<1>1. TypeOK /\ RoutesDescend /\ MessagesDescend /\ [Next]_vars
        => (TypeOK /\ RoutesDescend /\ MessagesDescend)'
  BY DescendStep
<1>2. TypeOK /\ MessagesDescend => DispatchReaches
  BY Reaching
<1> QED
  BY <1>1, <1>2, DescendInit, PTL DEF Spec

(* Any number of answers, merged in any order and more than once, leave the *)
(* newest one of every cluster (mergeToApiserver).                          *)
THEOREM NewestAnswersKept == Spec => []AnswersMerged
<1>1. AnswersMerged
  BY Merging
<1> QED
  BY <1>1, PTL
=============================================================================

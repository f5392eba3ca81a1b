------------------------- MODULE ClusterTreeProofs -------------------------
(***************************************************************************)
(* The tree of cluster controllers keeps its shape, for every tree of      *)
(* configurations and any number of faults.                                *)
(***************************************************************************)
EXTENDS ClusterTree, SequenceTheorems, WellFoundedInduction, TLAPS

\* A leaf without a method of its own is left to SMT, and given time.
USE SMTT(30)

(* Starting a goroutine adds its message to a bag and nothing else.         *)
LEMMA BagAddElements ==
  ASSUME NEW b, NEW e
  PROVE  BagToSet(BagAdd(b, e)) = BagToSet(b) \cup {e}
BY DEF BagToSet, BagAdd

(* Running a goroutine brings no new message into a bag.                    *)
LEMMA BagDelElements ==
  ASSUME NEW b, NEW e
  PROVE  BagToSet(BagDel(b, e)) \subseteq BagToSet(b)
BY DEF BagToSet, BagDel

(* No goroutine, no message.                                                *)
LEMMA EmptyBagElements == BagToSet(EmptyBag) = {}
BY DEF BagToSet, EmptyBag

(* CloudBlackList.Push keeps a list of addresses a list of addresses.       *)
LEMMA PushType ==
  ASSUME NEW S, NEW bl \in Seq(S), NEW a \in S
  PROVE  Push(bl, a) \in Seq(S) /\ Push(bl, a) # <<>>
<1>1. CASE Find(bl, a)
  <2>1. PICK i \in DOMAIN bl : bl[i] = a
    BY <1>1 DEF Find
  <2>2. bl # <<>>
    BY <2>1
  <2> QED
    BY <1>1, <2>2, ZenonT(30) DEF Push
<1>2. CASE ~Find(bl, a)
  BY <1>2, AppendProperties DEF Push
<1> QED
  BY <1>1, <1>2, Zenon

(* What reconnect dials next comes from the addresses a cluster holds.      *)
LEMMA FailedType ==
  ASSUME NEW c \in NonRoot, NEW S, blacklist[c] \in Seq(S), cloudAddr[c] \in S
  PROVE  /\ Failed(c) \in Seq(S)
         /\ Head(Failed(c)) \in S
         /\ Tail(Failed(c)) \in Seq(S)
<1>1. Failed(c) \in Seq(S) /\ Failed(c) # <<>>
  BY PushType, ZenonT(30) DEF Failed
<1> QED
  BY <1>1, HeadTailProperties, Zenon

(* The bags of all clusters, when one goroutine starts at a cluster ...     *)
LEMMA StartOne ==
  ASSUME NEW f, NEW T, BagsOver(f, T), NEW n \in Node, NEW e \in T[n]
  PROVE  BagsOver([f EXCEPT ![n] = BagAdd(f[n], e)], T)
BY BagAddElements DEF BagsOver

(* ... when one has run ...                                                 *)
LEMMA EndOne ==
  ASSUME NEW f, NEW T, BagsOver(f, T), NEW n \in Node, NEW e
  PROVE  BagsOver([f EXCEPT ![n] = BagDel(f[n], e)], T)
BY BagDelElements DEF BagsOver

(* ... and when all of them are lost.                                       *)
LEMMA LoseAll ==
  ASSUME NEW f, NEW T, BagsOver(f, T), NEW n \in Node
  PROVE  BagsOver([f EXCEPT ![n] = EmptyBag], T)
BY EmptyBagElements DEF BagsOver

(* A broadcast puts its message into the bags of the receivers.             *)
LEMMA Deliver ==
  ASSUME NEW f, NEW g, NEW T, BagsOver(f, T), NEW e,
         DOMAIN g = Node,
         \A n \in Node : g[n] = f[n] \/ (g[n] = BagAdd(f[n], e) /\ e \in T[n])
  PROVE  BagsOver(g, T)
BY BagAddElements DEF BagsOver

(* There is nothing in the bags of a cluster that has just started.         *)
LEMMA NoneStarted ==
  ASSUME NEW f, NEW T, f = [n \in Node |-> EmptyBag]
  PROVE  BagsOver(f, T)
BY EmptyBagElements DEF BagsOver

-----------------------------------------------------------------------------
(* Every step of Next leaves the state well typed.                          *)
LEMMA TypeStep == TypeOK /\ [Next]_vars => TypeOK'
<1> SUFFICES ASSUME TypeOK, [Next]_vars PROVE TypeOK'
  OBVIOUS
<1> USE TreeAssumption DEF NonRoot
<1>0. \A n \in Node : \A e \in RouteMsg : e \in AnyMsg[n]
  BY DEF AnyMsg
<1>1. ASSUME NEW c \in NonRoot, Connect(c) PROVE TypeOK'
  <2> DEFINE p == cloudAddr[c]
             m == RouterMessage(p, childs[p] \cup {c})
  <2>1. m \in RouteMsg /\ p \in Node
    BY DEF RouterMessage, RouteMsg, TypeOK
  <2>2. blacklist' \in [NonRoot -> Seq(Node)]
    BY <1>1, EmptySeq DEF Connect, AddChild, TypeOK
  <2>3. BagsOver([outbox EXCEPT ![p] = BagAdd(outbox[p], m)], AnyMsg)
    BY <2>1, <1>0, StartOne, Zenon DEF TypeOK
  <2>4. BagsOver(outbox', AnyMsg)
    BY <1>1, <2>3, ZenonT(30) DEF Connect, AddChild, TypeOK
  <2> QED
    BY <1>1, <2>1, <2>2, <2>4 DEF Connect, AddChild, TypeOK
<1>2. ASSUME NEW c \in NonRoot, TryNeighbor(c) PROVE TypeOK'
  <2>1. Failed(c) \in Seq(Node)
    BY FailedType DEF TypeOK
  <2> QED
    BY <1>2, <2>1 DEF TryNeighbor, Fresh, routerVars, cloudVars, msgVars, TypeOK
<1>3. ASSUME NEW c \in NonRoot, TryOldest(c) PROVE TypeOK'
  <2>1. Head(Failed(c)) \in Node /\ Tail(Failed(c)) \in Seq(Node)
    BY FailedType, Zenon DEF TypeOK
  <2> QED
    BY <1>3, <2>1, ZenonT(30) DEF TryOldest, routerVars, cloudVars, msgVars, TypeOK
<1>4. ASSUME NEW c \in NonRoot, TrySame(c) PROVE TypeOK'
  <2>1. Failed(c) \in Seq(Node)
    BY FailedType DEF TypeOK
  <2> QED
    BY <1>4, <2>1, ZenonT(30) DEF TrySame, routerVars, cloudVars, msgVars, TypeOK
<1>5. ASSUME NEW c \in NonRoot, LinkDown(c) PROVE TypeOK'
  <2>1. BagsOver(inbox', AnyMsg)
    BY <1>5, LoseAll, Zenon DEF LinkDown, TypeOK
  <2>2. \A m \in BagToSet(inbox[c]) : m \in RouteMsg
    BY DEF TypeOK, BagsOver, AnyMsg
  <2>3. late' \in [Node -> SUBSET RouteMsg]
    <3>1. CASE UNCHANGED late
      BY <3>1 DEF TypeOK
    <3>2. CASE \E m \in BagToSet(inbox[c]) : late' = [late EXCEPT ![c] = {m}]
      <4>1. PICK m \in BagToSet(inbox[c]) : late' = [late EXCEPT ![c] = {m}]
        BY <3>2, Zenon
      <4> QED
        BY <2>2, <4>1 DEF TypeOK
    <3> QED
      BY <1>5, <3>1, <3>2, Zenon DEF LinkDown
  <2> QED
    BY <1>5, <2>1, <2>3 DEF LinkDown, routerVars, cloudVars, TypeOK
<1>6. ASSUME NEW c \in NonRoot, NEW m \in RouteMsg, Update(c, m)
      PROVE  /\ BagsOver(outbox', AnyMsg)
             /\ neighbor' \in [Node -> SUBSET Node]
             /\ parentNeighbor' \in [Node -> SUBSET Node]
  <2> DEFINE r == [childs |-> childs[c], neighbor |-> m.childs]
  <2>1. r \in RouteMsg /\ m.childs \in SUBSET Node /\ m.neighbor \in SUBSET Node
    BY DEF RouteMsg, TypeOK
  <2>2. BagsOver([outbox EXCEPT ![c] = BagAdd(outbox[c], r)], AnyMsg)
    BY <2>1, <1>0, StartOne, Zenon DEF TypeOK
  <2> QED
    BY <1>6, <2>1, <2>2, ZenonT(30) DEF Update, TypeOK
<1>7. ASSUME NEW c \in NonRoot, NEW m \in BagToSet(inbox[c]), UpdateRouter(c, m)
      PROVE  TypeOK'
  <2>1. m \in RouteMsg
    BY DEF TypeOK, BagsOver, AnyMsg
  <2>2. BagsOver(inbox', AnyMsg)
    BY <1>7, EndOne, Zenon DEF UpdateRouter, TypeOK
  <2> QED
    BY <1>6, <1>7, <2>1, <2>2, ZenonT(30) DEF UpdateRouter, Update, cloudVars, edgeVars, TypeOK
<1>8. ASSUME NEW c \in NonRoot, NEW m \in late[c], UpdateRouterLate(c, m)
      PROVE  TypeOK'
  <2>1. m \in RouteMsg
    BY Zenon DEF TypeOK
  <2> QED
    BY <1>6, <1>8, <2>1, Zenon DEF UpdateRouterLate, Update, cloudVars, edgeVars, TypeOK
<1>9. ASSUME NEW c \in NonRoot, Crash(c) PROVE TypeOK'
  <2>1. BagsOver(closing', AnyChild) /\ BagsOver(outbox', AnyMsg) /\ BagsOver(inbox', AnyMsg)
    BY <1>9, LoseAll, Zenon DEF Crash, TypeOK
  <2>2. blacklist' \in [NonRoot -> Seq(Node)]
    BY <1>9, EmptySeq, Zenon DEF Crash, TypeOK
  <2> QED
    BY <1>9, <2>1, <2>2 DEF Crash, TypeOK
<1>10. ASSUME NEW c \in NonRoot, Restart(c) PROVE TypeOK'
  BY <1>10, Zenon DEF Restart, routerVars, cloudVars, msgVars, edgeVars, TypeOK
<1>11. ASSUME NEW p \in Node, NEW c \in clients[p], ServerClose(p, c) PROVE TypeOK'
  <2>1. c \in AnyChild[p]
    BY DEF TypeOK, AnyChild
  <2>2. BagsOver(closing', AnyChild)
    BY <1>11, <2>1, StartOne, ZenonT(30) DEF ServerClose, TypeOK
  <2> QED
    BY <1>11, <2>2 DEF ServerClose, routerVars, msgVars, edgeVars, TypeOK
<1>12. ASSUME NEW p \in Node, NEW c \in BagToSet(closing[p]), CloseChild(p, c)
       PROVE  TypeOK'
  <2>1. RouterMessage(p, childs[p] \ {c}) \in RouteMsg
    BY DEF RouterMessage, RouteMsg, TypeOK
  <2>2. BagsOver(outbox', AnyMsg)
    BY <1>12, <1>0, <2>1, StartOne, ZenonT(30) DEF CloseChild, DelChild, TypeOK
  <2>3. BagsOver(closing', AnyChild)
    BY <1>12, EndOne, ZenonT(30) DEF CloseChild, DelChild, TypeOK
  <2> QED
    BY <1>12, <2>2, <2>3, ZenonT(30) DEF CloseChild, DelChild, edgeVars, TypeOK
<1>13. ASSUME NEW p \in Node, NEW m \in BagToSet(outbox[p]), Broadcast(p, m)
       PROVE  TypeOK'
  <2>1. m \in RouteMsg
    BY DEF TypeOK, BagsOver, AnyMsg
  <2>2. /\ DOMAIN inbox' = Node
        /\ \A n \in Node : inbox'[n] = inbox[n]
                         \/ (inbox'[n] = BagAdd(inbox[n], m) /\ m \in AnyMsg[n])
    BY <1>0, <1>13, <2>1, ZenonT(30) DEF Broadcast
  <2>3. BagsOver(inbox', AnyMsg)
    <3>1. BagsOver(inbox, AnyMsg)
      BY DEF TypeOK
    <3> QED
      BY <2>2, <3>1, Deliver
  <2>4. BagsOver(outbox', AnyMsg)
    BY <1>13, EndOne, ZenonT(30) DEF Broadcast, TypeOK
  <2> QED
    BY <1>13, <2>3, <2>4, ZenonT(30) DEF Broadcast, routerVars, cloudVars, edgeVars, TypeOK
<1>14. ASSUME UNCHANGED vars PROVE TypeOK'
  BY <1>14 DEF vars, routerVars, cloudVars, msgVars, edgeVars, TypeOK
<1> QED
  BY <1>1, <1>2, <1>3, <1>4, <1>5, <1>7, <1>8, <1>9, <1>10, <1>11, <1>12, <1>13, <1>14, ZenonT(30)
     DEF Next

(* The state of every cluster controller stays well typed.                  *)
THEOREM TypeCorrect == Spec => []TypeOK
<1>1. Init => TypeOK
  <2> SUFFICES ASSUME Init PROVE TypeOK
    OBVIOUS
  <2>1. BagsOver(closing, AnyChild) /\ BagsOver(outbox, AnyMsg) /\ BagsOver(inbox, AnyMsg)
    BY NoneStarted, Zenon DEF Init
  <2>2. blacklist \in [NonRoot -> Seq(Node)]
    BY EmptySeq DEF Init
  <2> QED
    BY TreeAssumption, <2>1, <2>2 DEF Init, TypeOK, NonRoot
<1> QED
  BY <1>1, TypeStep, PTL DEF Spec

-----------------------------------------------------------------------------
(* Seen from a parent, its children and its neighbours are on the levels of *)
(* its child's neighbours and candidate parents.                            *)
LEMMA ParentLevels ==
  ASSUME NEW c \in Node, NEW p \in Above(c)
  PROVE  /\ p \in Node
         /\ c \in Below(p)
         /\ MsgFrom[p] = MsgTo[c]
<1>1. p \in Node /\ Level[p] + 1 = Level[c]
  BY DEF Above
<1>2. \A n \in Node : Level[n] \in Nat
  BY TreeAssumption
<1>3. Below(p) = Peers(c)
  BY <1>1, <1>2, Zenon DEF Below, Peers
<1>4. Peers(p) = Above(c)
  BY <1>1, <1>2 DEF Above, Peers
<1> QED
  BY <1>1, <1>3, <1>4, ZenonT(30) DEF Below, MsgFrom, MsgTo

(* Every step keeps what the clusters know of each other on their levels.   *)
LEMMA LevelStep == TypeOK /\ LevelsKept /\ [Next]_vars => LevelsKept'
<1> SUFFICES ASSUME TypeOK, RouterLevels, MsgLevels, EdgeLevels, [Next]_vars
             PROVE  RouterLevels' /\ MsgLevels' /\ EdgeLevels'
  BY DEF LevelsKept
<1> USE TreeAssumption DEF NonRoot
<1>0. \A n \in Node : \A cs \in SUBSET Below(n), ns \in SUBSET Peers(n) :
        [childs |-> cs, neighbor |-> ns] \in MsgFrom[n]
  BY DEF MsgFrom
<1>1. ASSUME NEW c \in NonRoot, Connect(c)
      PROVE  RouterLevels' /\ MsgLevels' /\ EdgeLevels'
  <2> DEFINE p == cloudAddr[c]
             m == RouterMessage(p, childs[p] \cup {c})
  <2>1. p \in Above(c) /\ p \in Node /\ c \in Below(p)
    BY ParentLevels DEF EdgeLevels
  <2>2. m \in MsgFrom[p]
    BY <1>0, <2>1, ZenonT(30) DEF RouterMessage, RouterLevels
  <2>3. BagsOver([outbox EXCEPT ![p] = BagAdd(outbox[p], m)], MsgFrom)
    BY <2>1, <2>2, StartOne, ZenonT(30) DEF MsgLevels
  <2>4. MsgLevels'
    BY <1>1, <2>3, ZenonT(30) DEF Connect, AddChild, MsgLevels
  <2>5. RouterLevels'
    BY <1>1, <2>1, ZenonT(30) DEF Connect, AddChild, RouterLevels, TypeOK
  <2>6. \A k \in NonRoot : blacklist'[k] \in Seq(Above(k))
    BY <1>1, EmptySeq DEF Connect, AddChild, EdgeLevels, TypeOK
  <2>7. EdgeLevels'
    BY <1>1, <2>1, <2>6, ZenonT(30) DEF Connect, AddChild, EdgeLevels, TypeOK
  <2> QED
    BY <2>4, <2>5, <2>7
<1>2. ASSUME NEW c \in NonRoot, TryNeighbor(c) \/ TryOldest(c) \/ TrySame(c)
      PROVE  RouterLevels' /\ MsgLevels' /\ EdgeLevels'
  <2>1. /\ Failed(c) \in Seq(Above(c))
        /\ Head(Failed(c)) \in Above(c)
        /\ Tail(Failed(c)) \in Seq(Above(c))
    BY FailedType DEF EdgeLevels
  <2>2. Fresh(c) \subseteq Above(c)
    BY DEF Fresh, RouterLevels
  <2>3. EdgeLevels'
    <3>1. CASE TryNeighbor(c)
      BY <3>1, <2>1, <2>2, ZenonT(30) DEF TryNeighbor, EdgeLevels, TypeOK
    <3>2. CASE TryOldest(c)
      BY <3>2, <2>1, ZenonT(30) DEF TryOldest, EdgeLevels, TypeOK
    <3>3. CASE TrySame(c)
      BY <3>3, <2>1, ZenonT(30) DEF TrySame, EdgeLevels, TypeOK
    <3> QED
      BY <1>2, <3>1, <3>2, <3>3, Zenon
  <2> QED
    BY <1>2, <2>3, ZenonT(30) DEF TryNeighbor, TryOldest, TrySame, routerVars, msgVars, RouterLevels, MsgLevels
<1>3. ASSUME NEW c \in NonRoot, LinkDown(c)
      PROVE  RouterLevels' /\ MsgLevels' /\ EdgeLevels'
  <2>1. BagsOver(inbox', MsgTo)
    BY <1>3, LoseAll, Zenon DEF LinkDown, MsgLevels
  <2>2. \A m \in BagToSet(inbox[c]) : m \in MsgTo[c]
    BY DEF MsgLevels, BagsOver
  <2>3. \A n \in Node : late'[n] \subseteq MsgTo[n]
    <3>1. CASE UNCHANGED late
      BY <3>1, Zenon DEF MsgLevels
    <3>2. CASE \E m \in BagToSet(inbox[c]) : late' = [late EXCEPT ![c] = {m}]
      <4>1. PICK m \in BagToSet(inbox[c]) : late' = [late EXCEPT ![c] = {m}]
        BY <3>2, ZenonT(30)
      <4> QED
        BY <2>2, <4>1, ZenonT(30) DEF TypeOK, MsgLevels
    <3> QED
      BY <1>3, <3>1, <3>2, ZenonT(30) DEF LinkDown
  <2>4. MsgLevels'
    BY <1>3, <2>1, <2>3, ZenonT(30) DEF LinkDown, MsgLevels
  <2> QED
    BY <1>3, <2>4 DEF LinkDown, routerVars, RouterLevels, EdgeLevels, TypeOK
<1>4. ASSUME NEW c \in NonRoot, NEW m \in MsgTo[c], Update(c, m)
      PROVE  RouterLevels' /\ BagsOver(outbox', MsgFrom) /\ EdgeLevels'
  <2> DEFINE r == [childs |-> childs[c], neighbor |-> m.childs]
  <2>1. m.childs \subseteq Peers(c) /\ m.neighbor \subseteq Above(c)
    BY ZenonT(30)  DEF MsgTo
  <2>2. r \in MsgFrom[c]
    BY <1>0, <2>1, ZenonT(30) DEF RouterLevels
  <2>3. BagsOver([outbox EXCEPT ![c] = BagAdd(outbox[c], r)], MsgFrom)
    BY <2>2, StartOne, ZenonT(30) DEF MsgLevels
  <2>4. BagsOver(outbox', MsgFrom)
    BY <1>4, <2>3, Zenon DEF Update, MsgLevels
  <2>5. RouterLevels'
    BY <1>4, <2>1, Zenon DEF Update, RouterLevels, TypeOK
  <2> QED
    BY <1>4, <2>4, <2>5, ZenonT(30) DEF Update, edgeVars, EdgeLevels
<1>5. ASSUME NEW c \in NonRoot, NEW m \in BagToSet(inbox[c]), UpdateRouter(c, m)
      PROVE  RouterLevels' /\ MsgLevels' /\ EdgeLevels'
  <2>1. m \in MsgTo[c]
    BY Zenon DEF MsgLevels, BagsOver
  <2>2. BagsOver(inbox', MsgTo)
    BY <1>5, EndOne, ZenonT(30) DEF UpdateRouter, MsgLevels
  <2> QED
    BY <1>4, <1>5, <2>1, <2>2, ZenonT(30) DEF UpdateRouter, MsgLevels
<1>6. ASSUME NEW c \in NonRoot, NEW m \in late[c], UpdateRouterLate(c, m)
      PROVE  RouterLevels' /\ MsgLevels' /\ EdgeLevels'
  <2>1. m \in MsgTo[c]
    BY DEF MsgLevels
  <2>2. \A n \in Node : late'[n] \subseteq MsgTo[n]
    BY <1>6 DEF UpdateRouterLate, MsgLevels, TypeOK
  <2> QED
    BY <1>4, <1>6, <2>1, <2>2 DEF UpdateRouterLate, MsgLevels
<1>7. ASSUME NEW c \in NonRoot, Crash(c)
      PROVE  RouterLevels' /\ MsgLevels' /\ EdgeLevels'
  <2>1. BagsOver(outbox', MsgFrom) /\ BagsOver(inbox', MsgTo)
    BY <1>7, LoseAll, ZenonT(30) DEF Crash, MsgLevels
  <2>2. MsgLevels'
    BY <1>7, <2>1 DEF Crash, MsgLevels, TypeOK
  <2>3. ConfParent[c] \in Above(c)
    BY DEF Above
  <2>4. \A k \in NonRoot : blacklist'[k] \in Seq(Above(k))
    BY <1>7, EmptySeq, Zenon DEF Crash, EdgeLevels, TypeOK
  <2>5. EdgeLevels'
    BY <1>7, <2>3, <2>4, Zenon DEF Crash, EdgeLevels, TypeOK
  <2>6. RouterLevels'
    BY <1>7, Zenon DEF Crash, RouterLevels, TypeOK
  <2> QED
    BY <2>2, <2>5, <2>6, ZenonT(30)
<1>8. ASSUME NEW c \in NonRoot, Restart(c)
      PROVE  RouterLevels' /\ MsgLevels' /\ EdgeLevels'
  BY <1>8, Zenon DEF Restart, routerVars, msgVars, edgeVars, RouterLevels, MsgLevels, EdgeLevels
<1>9. ASSUME NEW p \in Node, NEW c \in clients[p], ServerClose(p, c)
      PROVE  RouterLevels' /\ MsgLevels' /\ EdgeLevels'
  BY <1>9, Zenon DEF ServerClose, routerVars, msgVars, edgeVars, RouterLevels, MsgLevels, EdgeLevels
<1>10. ASSUME NEW p \in Node, NEW c \in BagToSet(closing[p]), CloseChild(p, c)
       PROVE  RouterLevels' /\ MsgLevels' /\ EdgeLevels'
  <2>1. RouterMessage(p, childs[p] \ {c}) \in MsgFrom[p]
    BY <1>0 DEF RouterMessage, RouterLevels
  <2>2. BagsOver(outbox', MsgFrom)
    BY <1>10, <2>1, StartOne, ZenonT(30) DEF CloseChild, DelChild, MsgLevels
  <2>3. RouterLevels'
    BY <1>10 DEF CloseChild, DelChild, RouterLevels, TypeOK
  <2> QED
    BY <1>10, <2>2, <2>3, ZenonT(30) DEF CloseChild, DelChild, edgeVars, MsgLevels, EdgeLevels
<1>11. ASSUME NEW p \in Node, NEW m \in BagToSet(outbox[p]), Broadcast(p, m)
       PROVE  RouterLevels' /\ MsgLevels' /\ EdgeLevels'
  <2>1. m \in MsgFrom[p]
    BY DEF MsgLevels, BagsOver
  <2>2. ASSUME NEW c \in NonRoot, parent[c] = p PROVE m \in MsgTo[c]
    <3>1. p \in Above(c)
      BY <2>2 DEF EdgeLevels
    <3> QED
      BY <2>1, <3>1, ParentLevels
  <2>6. \A n \in Receivers(p) : m \in MsgTo[n]
    <3>1. \A n \in Receivers(p) : n \in NonRoot /\ parent[n] = p
      BY Zenon DEF Receivers, TypeOK
    <3> QED
      BY <2>2, <3>1, Zenon
  <2>3. /\ DOMAIN inbox' = Node
        /\ \A n \in Node : inbox'[n] = inbox[n]
                         \/ (inbox'[n] = BagAdd(inbox[n], m) /\ m \in MsgTo[n])
    BY <1>11, <2>6, ZenonT(30) DEF Broadcast
  <2>4. BagsOver(inbox', MsgTo)
    BY <2>3, Deliver DEF MsgLevels
  <2>5. BagsOver(outbox', MsgFrom)
    BY <1>11, EndOne, Zenon DEF Broadcast, MsgLevels
  <2> QED
    BY <1>11, <2>4, <2>5, ZenonT(30) DEF Broadcast, routerVars, edgeVars, RouterLevels, MsgLevels, EdgeLevels
<1>12. ASSUME UNCHANGED vars PROVE RouterLevels' /\ MsgLevels' /\ EdgeLevels'
  BY <1>12, Zenon DEF vars, routerVars, msgVars, edgeVars, RouterLevels, MsgLevels, EdgeLevels
<1> QED
  BY <1>1, <1>2, <1>3, <1>5, <1>6, <1>7, <1>8, <1>9, <1>10, <1>11, <1>12 DEF Next

(* In every tree, whatever is lost, delayed or restarted, a cluster only    *)
(* ever dials clusters one level above the one its configuration gave it.   *)
THEOREM LevelsPreserved == Spec => []LevelsKept
<1>1. Init => LevelsKept
  <2> SUFFICES ASSUME Init PROVE LevelsKept
    OBVIOUS
  <2> USE TreeAssumption DEF NonRoot
  <2>1. BagsOver(outbox, MsgFrom) /\ BagsOver(inbox, MsgTo)
    BY NoneStarted DEF Init
  <2>2. \A c \in NonRoot : blacklist[c] \in Seq(Above(c))
    BY EmptySeq DEF Init
  <2>3. \A c \in NonRoot : ConfParent[c] \in Above(c)
    BY DEF Above
  <2> QED
    BY <2>1, <2>2, <2>3 DEF Init, LevelsKept, RouterLevels, MsgLevels, EdgeLevels
<1> QED
  BY <1>1, TypeCorrect, LevelStep, PTL DEF Spec

(* A tree whose levels are kept has no cycle: in a set closed under "parent *)
(* of" the cluster of the least level would have a parent above it.         *)
LEMMA LevelsExcludeCycles == TypeOK /\ LevelsKept => NoCycle
<1> SUFFICES ASSUME TypeOK, LevelsKept,
                    NEW S \in SUBSET NonRoot, S # {}, \A c \in S : parent[c] \in S
             PROVE  FALSE
  BY DEF NoCycle
<1> DEFINE R == OpToRel(<, Nat)
           T == {Level[c] : c \in S}
<1>1. T \subseteq Nat /\ T # {}
  BY TreeAssumption DEF NonRoot
<1>2. \E x \in T : \A y \in T : ~(<<y, x>> \in R)
  <2> HIDE DEF T
  <2> QED
    BY <1>1, NatLessThanWellFounded, WFMin, Zenon
<1>3. PICK c \in S : \A y \in T : ~(<<y, Level[c]>> \in R)
  BY <1>2, Zenon
<1>4. Level[parent[c]] \in T /\ Level[parent[c]] + 1 = Level[c]
  <2>1. parent[c] # None
    BY TreeAssumption DEF NonRoot
  <2> QED
    BY <2>1, Zenon DEF LevelsKept, EdgeLevels, Above
<1>5. <<Level[parent[c]], Level[c]>> \in R
  BY <1>1, <1>4 DEF OpToRel
<1> QED
  BY <1>3, <1>4, <1>5, Zenon

(* No cluster is ever its own ancestor.                                     *)
THEOREM Acyclic == Spec => []NoCycle
BY TypeCorrect, LevelsPreserved, LevelsExcludeCycles, PTL
=============================================================================

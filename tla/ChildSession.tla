---------------------------- MODULE ChildSession ----------------------------
(***************************************************************************)
(* The sessions of one child cluster at the root cluster controller.       *)
(*                                                                         *)
(* A session is one dial of the child: an http handler (accessHandler), a  *)
(* goroutine that serves the connection (cloudTunnel.connect), and the     *)
(* goroutines both start on the way, which register the child, close it    *)
(* and unregister it.  Sessions of the same child overlap: the child dials *)
(* again as soon as it has given up a connection, while the goroutines of  *)
(* the earlier one are still to run.                                       *)
(*                                                                         *)
(* The child has one name, so that Childs, the route from its name to its  *)
(* name and its Cluster resource are one value each.  The apiserver        *)
(* answers every request, and updates are serialised by its resource       *)
(* versions: UpdateStatus is one step.                                     *)
(*                                                                         *)
(* UpgradeTakesBack, StoreAlways, ReadFailsUnnotified and UpdateAlways are *)
(* broken variants of the definition that follows each of them, used to    *)
(* show that the properties depend on it.                                  *)
(***************************************************************************)
EXTENDS Naturals

CONSTANTS
  MaxSessions,  \* bound: dials of the child
  MaxTime       \* bound: the clock, in seconds

ASSUME SessionAssumption == MaxSessions \in Nat /\ MaxTime \in Nat

Session == 1..MaxSessions

NoSession == 0

VARIABLES
  link,    \* the child's view of a session
  stage,   \* where accessHandler or connect of a session is
  reg,     \* the goroutine that registers the child
  close,   \* the goroutines that close and unregister it
  regT,    \* ClusterRegistry.Time of the registration
  closeT,  \* ClusterRegistry.Time of the close
  clients, \* cloudTunnel.clients: the session stored for the child
  child,   \* the child is in ClusterRouter.Childs
  route,   \* the child is in subtreeRouter
  crd,     \* Cluster resource of the child: status and timestamp
  clock

threads == <<stage, reg, close>>
shared == <<clients, child, route, crd>>
sessionVars == <<link, threads, regT, closeT, shared, clock>>

\* A session between LoadOrStore and clients.Delete.
Serving == {"stored", "reading", "ended"}

\* Types of the state of the sessions and of what they share.
SessionTypeOK ==
  /\ link \in [Session -> {"idle", "dialing", "up", "gone"}]
  /\ stage \in [Session -> {"idle", "arrived", "checked", "registered", "connecting",
                            "done"} \cup Serving]
  /\ reg \in [Session -> {"none", "pending", "routed", "create", "update", "done"}]
  /\ close \in [Session -> {"none", "pending", "unregist", "unrouted", "update", "done"}]
  /\ regT \in [Session -> 0..MaxTime]
  /\ closeT \in [Session -> 0..MaxTime]
  /\ clients \in Session \cup {NoSession}
  /\ child \in BOOLEAN
  /\ route \in BOOLEAN
  /\ crd \in [status : {"absent", "online", "offline"}, ts : 0..MaxTime]
  /\ clock \in 0..MaxTime

SessionInit ==
  /\ link = [s \in Session |-> "idle"]
  /\ stage = [s \in Session |-> "idle"]
  /\ reg = [s \in Session |-> "none"]
  /\ close = [s \in Session |-> "none"]
  /\ regT = [s \in Session |-> 0]
  /\ closeT = [s \in Session |-> 0]
  /\ clients = NoSession
  /\ child = FALSE
  /\ route = FALSE
  /\ crd = [status |-> "absent", ts |-> 0]
  /\ clock = 0

-----------------------------------------------------------------------------
(* The child.                                                               *)

\* edgeTunnel.connect: one dial at a time.
Dial(s) ==
  /\ stage[s] = "idle"
  /\ \A t \in 1..(s - 1) : link[t] = "gone"
  /\ link' = [link EXCEPT ![s] = "dialing"]
  /\ stage' = [stage EXCEPT ![s] = "arrived"]
  /\ UNCHANGED <<reg, close, regT, closeT, shared, clock>>

\* The handshake times out at the child, or the child loses the connection.
GiveUp(s) ==
  /\ link[s] \in {"dialing", "up"}
  /\ link' = [link EXCEPT ![s] = "gone"]
  /\ UNCHANGED <<threads, regT, closeT, shared, clock>>

-----------------------------------------------------------------------------
(* accessHandler.                                                           *)

\* clients.Load: a child that has a connection is refused.
Access(s) ==
  /\ stage[s] = "arrived"
  /\ \/ /\ clients = NoSession
        /\ stage' = [stage EXCEPT ![s] = "checked"]
        /\ UNCHANGED link
     \/ /\ clients # NoSession
        /\ stage' = [stage EXCEPT ![s] = "done"]
        /\ link' = [link EXCEPT ![s] = "gone"]
  /\ UNCHANGED <<reg, close, regT, closeT, shared, clock>>

\* The registration gets its time, and checkClusterName starts its goroutine.
CheckClusterName(s) ==
  /\ stage[s] = "checked"
  /\ regT' = [regT EXCEPT ![s] = clock]
  /\ reg' = [reg EXCEPT ![s] = "pending"]
  /\ stage' = [stage EXCEPT ![s] = "registered"]
  /\ UNCHANGED <<link, close, closeT, shared, clock>>

UpgradeTakesBack(s) ==
  /\ stage[s] = "registered"
  /\ \/ /\ stage' = [stage EXCEPT ![s] = "connecting"]
        /\ link' = [link EXCEPT ![s] = IF @ = "dialing" THEN "up" ELSE @]
        /\ UNCHANGED route
     \/ /\ stage' = [stage EXCEPT ![s] = "done"]
        /\ link' = [link EXCEPT ![s] = "gone"]
        /\ route' = FALSE
  /\ UNCHANGED <<reg, close, regT, closeT, clients, child, crd, clock>>

\* upgrader.Upgrade may fail: the registration is not taken back.
Upgrade(s) ==
  /\ stage[s] = "registered"
  /\ \/ /\ stage' = [stage EXCEPT ![s] = "connecting"]
        /\ link' = [link EXCEPT ![s] = IF @ = "dialing" THEN "up" ELSE @]
     \/ /\ stage' = [stage EXCEPT ![s] = "done"]
        /\ link' = [link EXCEPT ![s] = "gone"]
  /\ UNCHANGED <<reg, close, regT, closeT, shared, clock>>

-----------------------------------------------------------------------------
(* cloudTunnel.connect.                                                     *)

StoreAlways(s) ==
  /\ stage[s] = "connecting"
  /\ clients' = s
  /\ stage' = [stage EXCEPT ![s] = "stored"]
  /\ UNCHANGED <<link, reg, close, regT, closeT, child, route, crd, clock>>

\* clients.LoadOrStore: the second connection of a child is closed.
LoadOrStore(s) ==
  /\ stage[s] = "connecting"
  /\ \/ /\ clients = NoSession
        /\ clients' = s
        /\ stage' = [stage EXCEPT ![s] = "stored"]
        /\ UNCHANGED link
     \/ /\ clients # NoSession
        /\ stage' = [stage EXCEPT ![s] = "done"]
        /\ link' = [link EXCEPT ![s] = "gone"]
        /\ UNCHANGED clients
  /\ UNCHANGED <<reg, close, regT, closeT, child, route, crd, clock>>

\* afterConnectHook: AddChild, which refuses a name it already has.
AddChild(s) ==
  /\ stage[s] = "stored"
  /\ child' = TRUE
  /\ stage' = [stage EXCEPT ![s] = "reading"]
  /\ UNCHANGED <<link, reg, close, regT, closeT, clients, route, crd, clock>>

ReadFailsUnnotified(s) ==
  /\ stage[s] = "reading"
  /\ link' = [link EXCEPT ![s] = "gone"]
  /\ stage' = [stage EXCEPT ![s] = "ended"]
  /\ UNCHANGED <<reg, close, regT, closeT, shared, clock>>

\* The read loop ends: the close gets its time, and closeChild is started.
ReadFails(s) ==
  /\ stage[s] = "reading"
  /\ link' = [link EXCEPT ![s] = "gone"]
  /\ closeT' = [closeT EXCEPT ![s] = clock]
  /\ close' = [close EXCEPT ![s] = "pending"]
  /\ stage' = [stage EXCEPT ![s] = "ended"]
  /\ UNCHANGED <<reg, regT, shared, clock>>

\* clients.Delete.
DeleteClient(s) ==
  /\ stage[s] = "ended"
  /\ clients' = NoSession
  /\ stage' = [stage EXCEPT ![s] = "done"]
  /\ UNCHANGED <<link, reg, close, regT, closeT, child, route, crd, clock>>

-----------------------------------------------------------------------------
(* The goroutine that registers the child: handleRegistClusterMessage.      *)

\* AddRoute from the child's name to itself never meets another port.
RegistRoute(s) ==
  /\ reg[s] = "pending"
  /\ route' = TRUE
  /\ reg' = [reg EXCEPT ![s] = "routed"]
  /\ UNCHANGED <<link, stage, close, regT, closeT, clients, child, crd, clock>>

\* createOrUpdateCluster reads the resource ...
RegistGet(s) ==
  /\ reg[s] = "routed"
  /\ reg' = [reg EXCEPT ![s] = IF crd.status = "absent" THEN "create" ELSE "update"]
  /\ UNCHANGED <<link, stage, close, regT, closeT, shared, clock>>

\* ... and creates it, with the time of the creation (an existing one is kept) ...
RegistCreate(s) ==
  /\ reg[s] = "create"
  /\ crd' = IF crd.status = "absent" THEN [status |-> "online", ts |-> clock] ELSE crd
  /\ reg' = [reg EXCEPT ![s] = "done"]
  /\ UNCHANGED <<link, stage, close, regT, closeT, clients, child, route, clock>>

UpdateAlways(status, ts) == crd' = [status |-> status, ts |-> ts]

\* UpdateStatus: nothing older than, or as old as, the stored status is written.
UpdateStatus(status, ts) ==
  crd' = IF ts > crd.ts THEN [status |-> status, ts |-> ts] ELSE crd

\* ... or updates it with the time of the registration.
RegistUpdate(s) ==
  /\ reg[s] = "update"
  /\ UpdateStatus("online", regT[s])
  /\ reg' = [reg EXCEPT ![s] = "done"]
  /\ UNCHANGED <<link, stage, close, regT, closeT, clients, child, route, clock>>

-----------------------------------------------------------------------------
(* The goroutines of a close: closeChild, and handleUnregistClusterMessage  *)
(* in the one it starts.                                                    *)

CloseChild(s) ==
  /\ close[s] = "pending"
  /\ child' = FALSE
  /\ close' = [close EXCEPT ![s] = "unregist"]
  /\ UNCHANGED <<link, stage, reg, regT, closeT, clients, route, crd, clock>>

\* DelRoute of a child deletes every route through it.
UnregistRoute(s) ==
  /\ close[s] = "unregist"
  /\ route' = FALSE
  /\ close' = [close EXCEPT ![s] = "unrouted"]
  /\ UNCHANGED <<link, stage, reg, regT, closeT, clients, child, crd, clock>>

UnregistGet(s) ==
  /\ close[s] = "unrouted"
  /\ close' = [close EXCEPT ![s] = IF crd.status = "absent" THEN "done" ELSE "update"]
  /\ UNCHANGED <<link, stage, reg, regT, closeT, shared, clock>>

UnregistUpdate(s) ==
  /\ close[s] = "update"
  /\ UpdateStatus("offline", closeT[s])
  /\ close' = [close EXCEPT ![s] = "done"]
  /\ UNCHANGED <<link, stage, reg, regT, closeT, clients, child, route, clock>>

-----------------------------------------------------------------------------
Tick ==
  /\ clock < MaxTime
  /\ clock' = clock + 1
  /\ UNCHANGED <<link, threads, regT, closeT, shared>>

\* The steps of the root that need nobody else.
Serve(s) ==
  \/ Access(s) \/ CheckClusterName(s) \/ Upgrade(s) \/ LoadOrStore(s) \/ AddChild(s)
  \/ DeleteClient(s)
  \/ RegistRoute(s) \/ RegistGet(s) \/ RegistCreate(s) \/ RegistUpdate(s)
  \/ CloseChild(s) \/ UnregistRoute(s) \/ UnregistGet(s) \/ UnregistUpdate(s)

SessionNext ==
  \/ \E s \in Session : Dial(s) \/ GiveUp(s) \/ Serve(s) \/ ReadFails(s)
  \/ Tick

SessionSpec == SessionInit /\ [][SessionNext]_sessionVars

(* Goroutines are scheduled, and a read from a connection the child has     *)
(* left fails.                                                              *)
FairSessions ==
  /\ SessionSpec
  /\ \A s \in Session : WF_sessionVars(Serve(s)) /\ WF_sessionVars(link[s] = "gone" /\ ReadFails(s))

-----------------------------------------------------------------------------
(* LoadOrStore lets one session of a child through: the messages of a child *)
(* are read by one goroutine, and clients.Delete at its end never removes   *)
(* the connection of another session (cloudTunnel.connect).                 *)
SingleReader ==
  \A s \in Session : stage[s] \in Serving <=> clients = s

(* A child in Childs has a reader, or closeChild is on its way to remove    *)
(* it: no child stays in the neighbour messages after its connection ended. *)
NoGhostChild ==
  child => \E s \in Session : stage[s] = "reading" \/ close[s] = "pending"

(* The status of a Cluster resource moves forward in time: a registration   *)
(* or a close that is processed late never replaces a newer status          *)
(* (updateClusterIsValid).                                                  *)
StatusMovesForward ==
  [][crd.status # "absent" /\ crd' # crd => crd'.ts > crd.ts]_sessionVars

(* A child that stays away is forgotten: its connection is removed from     *)
(* clients and its name from Childs.                                        *)
Forgotten ==
  <>[](\A s \in Session : link[s] \in {"idle", "gone"}) => <>[](clients = NoSession /\ ~child)

(* Only the close of an earlier session can take a connected child out of   *)
(* Childs or take its route: dials that were given up, lost LoadOrStore or  *)
(* failed to upgrade leave both alone.  (The close of an earlier session    *)
(* does take them, when its goroutine runs after the new session began.)    *)
OnlyClosesForget ==
  \A s \in Session :
    stage[s] = "reading" /\ (\A t \in Session : close[t] \in {"none", "pending"}) =>
      child /\ (reg[s] # "pending" => route)

\* Why it holds: a session that reads has its registration behind it or to come,
\* and its close still to come.
Remembered ==
  /\ \A s \in Session : stage[s] \in Serving \cup {"registered", "connecting"} => reg[s] # "none"
  /\ \A s \in Session : stage[s] \notin {"ended", "done"} => close[s] = "none"
  /\ (\A t \in Session : close[t] \in {"none", "pending"}) =>
       \A s \in Session : /\ stage[s] = "reading" => child
                          /\ reg[s] \notin {"none", "pending"} => route
=============================================================================

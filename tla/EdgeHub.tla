------------------------------ MODULE EdgeHub ------------------------------
(***************************************************************************)
(* The edge hub (cmd/edgehub): load balancer, syncers, storage and edge    *)
(* server, and the goroutine of initEdgehub that starts and stops the      *)
(* syncers on the signals of the load balancer.  The center goes up and    *)
(* down, its object changes, and the hub may end at any time and start     *)
(* again on its LevelDB.                                                   *)
(*                                                                         *)
(* ReceiveKeep is a broken variant of ReceiveFalse, used to show that      *)
(* properties depend on it.                                                *)
(***************************************************************************)
EXTENDS EdgeServer

CONSTANTS
  MaxFaults,   \* bound: times the center is lost or the hub ends
  MaxEvents    \* bound: faults, changes at the center and local writes together

ASSUME HubAssumption == MaxFaults \in Nat /\ MaxEvents \in Nat

VARIABLES
  hub,      \* where the goroutine of initEdgehub is
  faults,   \* faults so far
  late      \* a history variable: the storage took a request after the syncers
            \* had been started

vars == <<kind, storeVars, up, center, served, lbVars, syncerVars, serverVars, hub, faults, late>>

\* Types of all variables.
TypeOK ==
  /\ StoreTypeOK /\ LoadBalancerTypeOK /\ SyncerTypeOK /\ ServerTypeOK
  /\ hub \in {"wait", "sync", "merge"}
  /\ hub # "merge" => batch = {}
  /\ faults \in 0..MaxFaults
  /\ late \in BOOLEAN

\* A hub starts, on an empty LevelDB or on one of an earlier run.
Init ==
  /\ kind \in Kinds
  /\ up \in BOOLEAN
  /\ served \in IF kind \in OptionalKinds THEN BOOLEAN ELSE {TRUE}
  /\ clock = 1
  /\ center \in IF kind = Cert THEN {1} ELSE IF Kept THEN {Absent, 1} ELSE {Absent}
  /\ \/ NewEdgehubStore([k \in Keys |-> Absent])
     \/ kind \notin ReviewKinds /\ NewEdgehubStore([own |-> 1, blank |-> Absent])
  /\ LoadBalancerInit
  /\ stopChan = "nil" /\ leaked = 0 /\ informer = Off /\ shared = FALSE
  /\ ServerInit
  /\ hub = "wait" /\ faults = 0 /\ late = FALSE

world == <<up, center, clock, faults>>

-----------------------------------------------------------------------------
(* The center (external) *)

Lost == up /\ faults < MaxFaults /\ up' = FALSE /\ faults' = faults + 1
Back == ~up /\ up' = TRUE /\ UNCHANGED faults

Reach ==
  /\ Lost \/ Back
  /\ UNCHANGED <<kind, storeVars, center, served, lbVars, syncerVars, serverVars, hub, late>>

Change ==
  /\ Kept
  /\ Write \/ (center # Absent /\ center' = Absent /\ UNCHANGED clock)
  /\ UNCHANGED <<kind, storeVars, up, served, lbVars, syncerVars, writes, request, acked, hub, faults, late>>

-----------------------------------------------------------------------------
(* The goroutine of initEdgehub *)

\* It receives a true.
ReceiveTrue ==
  /\ hub = "wait" /\ signal = "true"
  /\ signal' = "taken"
  /\ RemoteEnable' = TRUE
  /\ NewSyncerInformerFactory
  /\ hub' = "sync"
  /\ acked' = NoIndexer
  /\ late' = FALSE
  /\ UNCHANGED <<cache, levelDB, batch, remoteEnable>>

ReceiveKeep ==
  /\ hub = "wait" /\ signal = "false"
  /\ signal' = "none"
  /\ RemoteEnable' = FALSE
  /\ UNCHANGED <<cache, levelDB, batch, remoteEnable, syncerVars, hub, acked, late>>

\* It receives a false.  When there is nothing to stop, RemoteEnable stays up.
ReceiveFalse ==
  /\ hub = "wait" /\ signal = "false"
  /\ signal' = "none"
  /\ RemoteEnable' = (RemoteEnable /\ stopChan # "open")
  /\ StopSyncer
  /\ UNCHANGED <<cache, levelDB, batch, remoteEnable, hub, acked, late>>

\* The informers, of this or another kind, do not sync in time.
StartFails ==
  /\ hub = "sync"
  /\ hub' = "wait"
  /\ StopSyncer
  /\ UNCHANGED <<storeVars, lbVars, acked, late>>

StartSyncs ==
  /\ hub = "sync" /\ Synced
  /\ hub' = "merge"
  /\ RefreshStorage
  /\ UNCHANGED <<lbVars, acked, late>>

StartEnds ==
  /\ hub = "merge"
  /\ hub' = "wait"
  /\ MergeDelete
  /\ UNCHANGED <<RemoteEnable, cache, lbVars, syncerVars, acked, late>>

StartSyncer == ReceiveTrue \/ StartSyncs \/ StartEnds

HubStep ==
  /\ StartSyncer \/ StartFails \/ ReceiveFalse
  /\ UNCHANGED <<kind, world, served, writes, request>>

\* The hub ends, on a signal or otherwise, and is started again.
Restart ==
  /\ faults < MaxFaults
  /\ faults' = faults + 1
  /\ cache' = RebuildCache(levelDB)
  /\ RemoteEnable' = FALSE /\ batch' = {}
  /\ remoteEnable' = FALSE /\ signal' = "none"
  /\ stopChan' = "nil" /\ leaked' = 0 /\ informer' = Off /\ shared' = FALSE
  /\ request' = "none"
  /\ hub' = "wait" /\ late' = FALSE
  /\ UNCHANGED <<kind, up, center, clock, served, levelDB, writes, acked>>

-----------------------------------------------------------------------------
quiet == <<kind, world, served>>

Checking ==
  /\ healthCheck \/ Enable
  /\ UNCHANGED <<quiet, storeVars, syncerVars, writes, request, acked, hub, late>>

Listing == ListAndWatch /\ UNCHANGED <<quiet, lbVars, writes, request, acked, hub, late>>
Resyncing == Resync /\ UNCHANGED <<quiet, lbVars, writes, request, acked, hub, late>>
Handling == Handle /\ UNCHANGED <<quiet, lbVars, writes, request, acked, hub, late>>

Requesting ==
  /\ Serving
  /\ late' = (late \/ (RemoteEnable /\ levelDB' # levelDB /\ kind # Cert))
  /\ UNCHANGED <<kind, up, served, lbVars, syncerVars, hub, faults>>

Next ==
  \/ (Reach \/ Change \/ Restart \/ Requesting) /\ faults' + clock' + writes' <= MaxEvents
  \/ HubStep
  \/ Checking
  \/ Listing \/ Resyncing \/ Handling

Spec == Init /\ [][Next]_vars

\* The health check is repeated, goroutines run, and an informer that often can
\* take a change of a center that it reaches does so.
Fairness == WF_vars(Checking \/ HubStep) /\ SF_vars(Listing) /\ WF_vars(Handling)

-----------------------------------------------------------------------------
(***************************************************************************)
(* StartSyncer never loses the StopChan of informers that still run, and   *)
(* no informers are left running when the storage becomes local, whatever  *)
(* the order of outages, timeouts, failed starts and signals.  Of their    *)
(* handlers it says that none is called after that; one that is running    *)
(* when StopChan is closed is not looked at (StopSyncer).                  *)
(***************************************************************************)
InformersStopped == leaked = 0 /\ (~RemoteEnable => stopChan # "open" /\ informer.notes = <<>>)

(***************************************************************************)
(* What the edge server has acknowledged during an outage is in the        *)
(* LevelDB, and is what Get and List answer if the cache has the kind,     *)
(* until the center is back: also when the hub ends and starts again in    *)
(* between.  It is about handlers of informers that ended before StopChan  *)
(* was closed, as in InformersStopped.                                     *)
(***************************************************************************)
OfflineWritesKept ==
  acked # NoIndexer =>
    /\ levelDB["own"] = acked
    /\ cache # NoIndexer => DoGet = acked /\ DoList \subseteq {acked}

\* The syncers run and have nothing left to do.
Rest ==
  /\ hub = "wait" /\ signal = "none" /\ remoteEnable
  /\ shared /\ informer.index = center /\ informer.notes = <<>>
  /\ request = "none" /\ ~late

(***************************************************************************)
(* With the center connected and nothing left to handle, the LevelDB has   *)
(* no object that the center does not have and no other version of it, so  *)
(* that an outage or a restart cannot bring back what was deleted: handlers *)
(* write what the informers see, and MergeDelete removes the rest.         *)
(***************************************************************************)
NothingStale == Rest => levelDB["blank"] = Absent /\ levelDB["own"] \in {Absent, center}

\* What the handlers have been told after all but the notifications from the
\* i-th on.
Told(i) == IF i \in 1..Len(informer.notes) THEN informer.notes[i].old ELSE informer.index

\* Notifications lead from one version to the next, up to what the indexer has.
NotesLead ==
  \A i \in 1..Len(informer.notes) :
    informer.notes[i].new = Told(i + 1) /\ (Told(i) # Absent \/ Told(i + 1) # Absent)

(***************************************************************************)
(* Why NothingStale holds: the LevelDB has what the handlers were told     *)
(* last, or nothing.  An object of an earlier run is left there until the  *)
(* merge, or until it is replaced because the informer has seen another.   *)
(***************************************************************************)
HandlersFollow ==
  /\ shared => registerSyncer
  /\ shared /\ ~late => levelDB["blank"] = Absent \/ "blank" \in batch
  /\ stopChan = "open" /\ registerSyncer /\ ~late =>
       \/ levelDB["own"] \in {Absent, Told(1)}
       \/ Told(1) = Absent /\ (~shared \/ informer.notes # <<>> \/ "own" \in batch)

InSync == registerSyncer => shared /\ cache = center

(***************************************************************************)
(* Once the center stays up or down, the hub follows.  If it is up, the    *)
(* load balancer is enabled and the cache is what the center has, unless   *)
(* the last start of the syncers has failed; if it is down, requests are   *)
(* answered locally and no informers run.                                  *)
(***************************************************************************)
Follows ==
  <>[](IF up THEN remoteEnable /\ (InSync \/ stopChan = "closed")
             ELSE ~remoteEnable /\ stopChan # "open")

=============================================================================

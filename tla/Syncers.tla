------------------------------ MODULE Syncers ------------------------------
(***************************************************************************)
(* The syncers of the edge hub (pkg/syncer).  StartSyncer makes informers  *)
(* with a new StopChan, waits until they have listed the center, makes     *)
(* their indexers the cache of the storage and deletes from the LevelDB    *)
(* what they do not have.  From then on they share the indexer with the    *)
(* storage ("shared").  StopSyncer closes StopChan: informers end, and     *)
(* notifications that their handlers have not taken are dropped.           *)
(*                                                                         *)
(* The informer of client-go is external: it lists and watches the center, *)
(* updates its indexer, and queues a notification for the handler.         *)
(* Versions that follow each other before it looks are seen as one change. *)
(* That every handler also starts a syncToNode is the matter of            *)
(* EdgeWatch.                                                              *)
(***************************************************************************)
EXTENDS EdgeStore, LoadBalancer

CONSTANT MaxNotes   \* bound: notifications queued

ASSUME SyncerAssumption == MaxNotes \in Nat \ {0}

VARIABLES
  center,     \* the object at the center
  served,     \* the apiserver of the center knows the kind
  stopChan,   \* SyncContext.StopChan: "nil", "open" or "closed"
  leaked,     \* generations of informers whose StopChan is out of reach
  informer,   \* the informer of the kind made last
  shared      \* its indexer is the one in the cache of the storage

syncerVars == <<stopChan, leaked, informer, shared>>

Notes == [old : Values, new : Values]
Off == [on |-> FALSE, listed |-> FALSE, index |-> Absent, notes |-> <<>>]
NewInformer == [Off EXCEPT !.on = TRUE]

SyncerTypeOK ==
  /\ center \in 0..MaxVersion
  /\ served \in BOOLEAN
  /\ stopChan \in {"nil", "open", "closed"}
  /\ leaked \in Nat
  /\ informer \in [on : BOOLEAN, listed : BOOLEAN, index : 0..MaxVersion, notes : Seq(Notes)]
  /\ shared \in BOOLEAN

\* A kind is optional when registerSyncer asks the center for it.
checkResourceExist == served

registerSyncer == kind \in CoreKinds \cup UnnamedKinds \/ (kind \in OptionalKinds /\ checkResourceExist)

-----------------------------------------------------------------------------
(* The informer *)

\* It lists the center, or the watch brings a change.
ListAndWatch ==
  /\ informer.on /\ registerSyncer /\ up
  /\ ~informer.listed \/ informer.index # center
  /\ Len(informer.notes) < MaxNotes
  /\ LET note == [old |-> informer.index, new |-> center]
     IN informer' = [informer EXCEPT
          !.listed = TRUE, !.index = center,
          !.notes = IF note.old = note.new THEN @ ELSE Append(@, note)]
  /\ cache' = IF shared THEN center ELSE cache
  /\ UNCHANGED <<RemoteEnable, levelDB, batch, stopChan, leaked, shared>>

\* Every so often the informer notifies its handlers of what it has.
Resync ==
  /\ informer.on /\ informer.index # Absent /\ informer.notes = <<>>
  /\ informer' = [informer EXCEPT
       !.notes = <<[old |-> informer.index, new |-> informer.index]>>]
  /\ UNCHANGED <<storeVars, stopChan, leaked, shared>>

-----------------------------------------------------------------------------
(* The syncers: handlers of the notifications *)

syncToStorage(action, v) ==
  CASE action \in {"Added", "Modified"} -> Update("own", v)
    [] action = "Deleted" -> Delete("own")

handleAddEvent(n) == n.old = Absent /\ n.new # Absent /\ syncToStorage("Added", n.new)

\* An update to the same version is a resync.
handleUpdateEvent(n) ==
  /\ n.old # Absent /\ n.new # Absent
  /\ IF n.old = n.new THEN UNCHANGED storeVars ELSE syncToStorage("Modified", n.new)

handleDeleteEvent(n) == n.new = Absent /\ syncToStorage("Deleted", n.old)

Handles(k) ==
  /\ kind = k
  /\ informer.notes # <<>>
  /\ informer' = [informer EXCEPT !.notes = Tail(@)]
  /\ LET n == Head(informer.notes)
     IN handleAddEvent(n) \/ handleUpdateEvent(n) \/ handleDeleteEvent(n)
  /\ UNCHANGED <<stopChan, leaked, shared>>

PodSyncer == Handles("pod")
NodeSyncer == Handles("node")
ServiceSyncer == Handles("service")
EndpointSyncer == Handles("endpoint")
ConfigMapSyncer == Handles("configmap")
SecretSyncer == Handles("secret")
NamespaceSyncer == Handles("namespace")
EventSyncer == Handles("event")
LeaseSyncer == Handles("lease")
NetworkPolicySyncer == Handles("networkpolicy")
CSIDriverSyncer == Handles("csidriver")
CSINodeSyncer == Handles("csinode")
RuntimeClassSyncer == Handles("runtimeclass")
CSRSyncer == Handles("csr")

Handle ==
  \/ PodSyncer \/ NodeSyncer \/ ServiceSyncer \/ EndpointSyncer
  \/ ConfigMapSyncer \/ SecretSyncer \/ NamespaceSyncer \/ EventSyncer
  \/ LeaseSyncer \/ NetworkPolicySyncer \/ CSIDriverSyncer \/ CSINodeSyncer
  \/ RuntimeClassSyncer \/ CSRSyncer

-----------------------------------------------------------------------------
(* Start and stop *)

\* The part before the wait.  A StopChan that is still open is forgotten.
NewSyncerInformerFactory ==
  /\ leaked' = leaked + IF stopChan = "open" THEN 1 ELSE 0
  /\ stopChan' = "open"
  /\ informer' = IF registerSyncer THEN NewInformer ELSE Off
  /\ shared' = FALSE

\* WaitForCacheSync is over.
Synced == registerSyncer => informer.listed

\* The part after it; MergeDelete iterates over the LevelDB with the new cache.
RefreshStorage ==
  LET indexer == IF registerSyncer THEN informer.index ELSE NoIndexer
  IN /\ cache' = indexer
     /\ shared' = registerSyncer
     /\ batch' = Unmatched(indexer)
     /\ UNCHANGED <<RemoteEnable, levelDB, stopChan, leaked, informer>>

\* StopSyncer, whose error is that there is nothing to stop.  It does not wait for
\* a handler that is running when it closes StopChan, which may write the storage
\* once more; here handlers are one step, and such a handler has ended before.
StopSyncer ==
  IF stopChan = "open"
  THEN /\ stopChan' = "closed"
       /\ informer' = Off
       /\ shared' = FALSE
       /\ UNCHANGED leaked
  ELSE UNCHANGED syncerVars

=============================================================================

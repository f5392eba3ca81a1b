--------------------------- MODULE EdgeHubProofs ---------------------------
(***************************************************************************)
(* For every number of faults, changes, writes and notifications: the      *)
(* informers of the edge hub never run beside a local storage, what the    *)
(* edge server acknowledges during an outage is kept until the center is   *)
(* back, and then nothing stale is left in the LevelDB.                    *)
(***************************************************************************)
EXTENDS EdgeHub, TLAPS

\* A leaf without a method of its own is left to SMT, and given time.
USE SMTT(30)

\* A local write that has been asked for is still within its bound.
Counted == request \in {"create", "put"} => writes < MaxWrites

\* The informers run only while the storage is remote.  The load balancer asks
\* for a start only when the last signal has stopped them.
SyncersStopped ==
  /\ leaked = 0
  /\ stopChan # "open" => ~informer.on /\ informer.notes = <<>> /\ ~shared
  /\ stopChan = "open" => RemoteEnable
  /\ signal \in {"none", "true"} /\ ~remoteEnable => stopChan # "open"
  /\ signal = "true" => ~remoteEnable
  /\ hub \in {"sync", "merge"} => stopChan = "open"

\* What was acknowledged during an outage is in the LevelDB and in the cache, if
\* there is one, and nobody but the edge server writes until the center is back.
WritesSafe ==
  /\ request = "keep" => kind = Cert
  /\ kind \notin UnnamedKinds => levelDB["blank"] = Absent
  /\ acked # NoIndexer =>
       /\ ~RemoteEnable /\ kind # Cert
       /\ levelDB["own"] = acked
       /\ cache \in {acked, NoIndexer}
       /\ acked = Absent => kind \notin UnnamedKinds

IInv == TypeOK /\ Counted /\ SyncersStopped /\ WritesSafe

-----------------------------------------------------------------------------
(* The handlers of all kinds are instances of a few steps. *)

\* A syncer handles a notification of its kind.
LEMMA HandleStep == Handle => Handles(kind)
BY DEF Handle, PodSyncer, NodeSyncer, ServiceSyncer, EndpointSyncer, ConfigMapSyncer,
       SecretSyncer, NamespaceSyncer, EventSyncer, LeaseSyncer, NetworkPolicySyncer,
       CSIDriverSyncer, CSINodeSyncer, RuntimeClassSyncer, CSRSyncer, Handles

\* A handler of the edge server asks, patches, answers, fetches or keeps.
LEMMA ServingStep ==
  ASSUME Serving
  PROVE  \/ kind # Cert /\ \E op \in {"create", "put", "delete"} : Ask(op)
         \/ DoUpdatePatch
         \/ kind # Cert /\ Answer
         \/ Fetch
         \/ Keep
BY DEF Serving, PodHandler, NodeHandler, ServiceHandler, EndpointHandler, NamespaceHandler,
       ConfigMapHandler, SecretHandler, EventHandler, LeaseHandler, NetworkPolicyHandler,
       CSIDriverHandler, CSINodeHandler, RuntimeClassHandler, CertSigningRequestHandler,
       TokenReviewHandler, SubjectAccessReviewHandler, CertHandler, configHandler,
       fileHandler, keyHandler, versionHandler, Serves, createHandler, updatePutHandler,
       updatePatchHandler, deleteHandler, Cert

\* What the storage holds stays within its types.
LEMMA UpdateType ==
  ASSUME StoreTypeOK, NEW k \in Keys, NEW v \in Values, Update(k, v)
  PROVE  /\ cache' \in Values \cup {NoIndexer}
         /\ levelDB' \in [Keys -> Values]
         /\ UNCHANGED <<RemoteEnable, batch>>
BY DEF StoreTypeOK, Update

LEMMA DeleteType ==
  ASSUME StoreTypeOK, NEW k \in Keys, Delete(k)
  PROVE  /\ cache' \in Values \cup {NoIndexer}
         /\ levelDB' \in [Keys -> Values]
         /\ UNCHANGED <<RemoteEnable, batch>>
BY StoreAssumption DEF StoreTypeOK, Delete, Values, Absent

LEMMA RebuildType ==
  ASSUME NEW db \in [Keys -> Values]
  PROVE  RebuildCache(db) \in Values \cup {NoIndexer}
<1>1. Absent \in Values /\ db["own"] \in Values /\ db["blank"] \in Values
  BY StoreAssumption DEF Values, Absent, Keys
<1> QED
  BY <1>1 DEF RebuildCache

\* A local write is a value of its own: neither absent nor the mark of no indexer.
LEMMA LocalValue ==
  ASSUME writes \in 0..MaxWrites, writes < MaxWrites
  PROVE  /\ Local(writes + 1) \in Values \ {Absent}
         /\ Local(writes + 1) # NoIndexer
         /\ writes + 1 \in 0..MaxWrites
BY StoreAssumption DEF Local, Values, Absent, NoIndexer

LEMMA VersionValues == 0..MaxVersion \subseteq Values /\ Absent \in 0..MaxVersion /\ NoIndexer \notin Values
BY StoreAssumption DEF Values, Absent, NoIndexer

-----------------------------------------------------------------------------
(* Types *)

LEMMA InitTypes == Init => TypeOK /\ Counted
<1> SUFFICES ASSUME Init PROVE TypeOK /\ Counted
  OBVIOUS
<1>1. \E db \in [Keys -> {Absent, 1}] : NewEdgehubStore(db)
  <2>1. [k \in Keys |-> Absent] \in [Keys -> {Absent, 1}]
    OBVIOUS
  <2>2. [own |-> 1, blank |-> Absent] \in [Keys -> {Absent, 1}]
    BY DEF Keys
  <2> QED
    BY <2>1, <2>2 DEF Init
<1>2. PICK db \in [Keys -> {Absent, 1}] : NewEdgehubStore(db)
  BY <1>1
<1>3. {Absent, 1} \subseteq Values /\ {Absent, 1} \subseteq 0..MaxVersion
  BY StoreAssumption DEF Values, Absent
<1>4. db \in [Keys -> Values]
  BY <1>2, <1>3
<1>5. RebuildCache(db) \in Values \cup {NoIndexer}
  BY <1>4, RebuildType
<1>6. StoreTypeOK /\ batch = {}
  BY <1>2, <1>4, <1>5, Zenon DEF StoreTypeOK, NewEdgehubStore, Init
<1>7. SyncerTypeOK
  <2>1. <<>> \in Seq(Notes)
    OBVIOUS
  <2>2. Off \in [on : BOOLEAN, listed : BOOLEAN, index : 0..MaxVersion, notes : Seq(Notes)]
    BY <2>1, <1>3 DEF Off
  <2>3. center \in 0..MaxVersion
    BY <1>3 DEF Init
  <2> QED
    BY <2>2, <2>3, Zenon DEF Init, SyncerTypeOK
<1>8. LoadBalancerTypeOK
  BY Zenon DEF Init, LoadBalancerInit, LoadBalancerTypeOK, Signals
<1>9. ServerTypeOK /\ Counted
  BY StoreAssumption, <1>3 DEF Init, ServerInit, ServerTypeOK, Requests, Counted
<1>10. faults \in 0..MaxFaults /\ hub = "wait"
  BY HubAssumption DEF Init
<1>11. late \in BOOLEAN
  BY Zenon DEF Init
<1> QED
  BY <1>6, <1>7, <1>8, <1>9, <1>10, <1>11 DEF TypeOK

\* The edge server.
LEMMA RequestingTypes ==
  ASSUME TypeOK, Counted, Requesting
  PROVE  TypeOK' /\ Counted'
<1> USE DEF TypeOK, Counted, Requesting
<1>0. UNCHANGED <<kind, up, served, lbVars, syncerVars, hub, faults>> /\ late' \in BOOLEAN
  OBVIOUS
<1>1. Absent \in 0..MaxVersion /\ 0..MaxVersion \subseteq Values
  BY VersionValues
<1>2. ASSUME NEW op \in {"create", "put", "patch", "delete"}, Forward(op)
      PROVE  center' \in 0..MaxVersion /\ clock' \in 0..MaxVersion
  <2>1. clock \in 0..MaxVersion
    BY DEF ServerTypeOK
  <2>2. CASE Write
    BY <2>1, <2>2, StoreAssumption DEF Write
  <2>3. CASE center' = Absent /\ UNCHANGED clock
    BY <2>1, <2>3, <1>1
  <2> QED
    BY <1>2, <2>2, <2>3, Zenon DEF Forward
<1>3. ASSUME NEW op \in {"create", "put", "delete"}, Ask(op)
      PROVE  TypeOK' /\ Counted'
  <2>1. center' \in 0..MaxVersion /\ clock' \in 0..MaxVersion
    BY <1>2, <1>3 DEF Ask, ServerTypeOK, SyncerTypeOK
  <2>2. request' \in Requests /\ Counted'
    BY <1>3 DEF Ask, ServerTypeOK, Requests
  <2> QED
    BY <1>0, <1>3, <2>1, <2>2
       DEF Ask, storeVars, lbVars, syncerVars, StoreTypeOK, LoadBalancerTypeOK, SyncerTypeOK, ServerTypeOK
<1>4. CASE DoUpdatePatch
  <2>1. center' \in 0..MaxVersion /\ clock' \in 0..MaxVersion
    BY <1>2, <1>4 DEF DoUpdatePatch
  <2> QED
    BY <1>0, <1>4, <2>1
       DEF DoUpdatePatch, storeVars, lbVars, syncerVars, StoreTypeOK, LoadBalancerTypeOK, SyncerTypeOK, ServerTypeOK
<1>5. ASSUME NEW k \in Keys, request \in {"create", "put"}, Store(k)
      PROVE  StoreTypeOK' /\ batch' = batch /\ writes' \in 0..MaxWrites /\ acked' \in Values \cup {NoIndexer}
  <2>1. Local(writes + 1) \in Values /\ writes + 1 \in 0..MaxWrites
    BY <1>5, LocalValue DEF ServerTypeOK
  <2>2. StoreTypeOK' /\ batch' = batch
    BY <1>0, <1>5, <2>1, UpdateType DEF Store, StoreTypeOK
  <2> QED
    BY <1>5, <2>1, <2>2 DEF Store
<1>6. CASE Answer
  <2>1. StoreTypeOK' /\ batch' = batch /\ writes' \in 0..MaxWrites /\ acked' \in Values \cup {NoIndexer}
    <3>1. CASE DoCreate
      BY <1>0, <1>5, <3>1, Zenon DEF DoCreate, CreateKey, Keys, storeVars, StoreTypeOK, ServerTypeOK
    <3>2. CASE DoUpdatePut
      BY <1>5, <3>2 DEF DoUpdatePut, Keys
    <3>3. CASE DoDelete
      <4>1. Delete("own") /\ "own" \in Keys /\ writes' = writes /\ acked' \in {NoIndexer, Absent}
        BY <3>3, Zenon DEF DoDelete, Keys
      <4>2. /\ cache' \in Values \cup {NoIndexer} /\ levelDB' \in [Keys -> Values]
            /\ RemoteEnable' = RemoteEnable /\ batch' = batch
        BY <1>0, <4>1, DeleteType
      <4> QED
        BY <1>0, <1>1, <4>1, <4>2, Zenon DEF StoreTypeOK, ServerTypeOK
    <3> QED
      BY <1>6, <3>1, <3>2, <3>3 DEF Answer
  <2> QED
    BY <1>0, <1>6, <2>1
       DEF Answer, lbVars, syncerVars, LoadBalancerTypeOK, SyncerTypeOK, ServerTypeOK, Requests
<1>7. CASE Fetch
  BY <1>0, <1>7
     DEF Fetch, storeVars, lbVars, syncerVars, StoreTypeOK, LoadBalancerTypeOK, SyncerTypeOK, ServerTypeOK, Requests
<1>8. CASE Keep
  <2>1. StoreTypeOK' /\ batch' = batch
    BY <1>0, <1>1, <1>8, UpdateType, Zenon DEF Keep, StoreTypeOK, SyncerTypeOK, Keys
  <2> QED
    BY <1>0, <1>8, <2>1
       DEF Keep, lbVars, syncerVars, LoadBalancerTypeOK, SyncerTypeOK, ServerTypeOK, Requests
<1> QED
  BY <1>3, <1>4, <1>6, <1>7, <1>8, ServingStep

\* The record of an informer.
Informers == [on : BOOLEAN, listed : BOOLEAN, index : 0..MaxVersion, notes : Seq(Notes)]

LEMMA InformerTypes == Off \in Informers /\ NewInformer \in Informers
<1>1. <<>> \in Seq(Notes)
  OBVIOUS
<1>2. Off \in Informers
  BY <1>1, VersionValues DEF Informers, Off
<1> QED
  BY <1>2, Zenon DEF Informers, NewInformer

LEMMA StopTypes ==
  ASSUME SyncerTypeOK, StopSyncer
  PROVE  /\ stopChan' \in {"nil", "open", "closed"} /\ leaked' \in Nat
         /\ informer' \in Informers /\ shared' \in BOOLEAN
<1>1. CASE stopChan = "open"
  BY <1>1, InformerTypes, Zenon DEF SyncerTypeOK, StopSyncer
<1>2. CASE stopChan # "open"
  BY <1>2 DEF SyncerTypeOK, StopSyncer, Informers, syncerVars
<1> QED
  BY <1>1, <1>2

\* The goroutine of initEdgehub.
LEMMA HubTypes ==
  ASSUME TypeOK, Counted, HubStep
  PROVE  TypeOK' /\ Counted'
<1> USE DEF TypeOK, Counted, HubStep
<1>0. UNCHANGED <<kind, up, center, clock, faults, served, writes, request>>
  BY DEF world
<1>1. CASE ReceiveTrue
  <2>1. informer' \in Informers /\ leaked' \in Nat
    BY <1>1, InformerTypes DEF ReceiveTrue, NewSyncerInformerFactory, SyncerTypeOK
  <2>2. acked' \in Values \cup {NoIndexer}
    BY <1>1 DEF ReceiveTrue
  <2> QED
    BY <1>0, <1>1, <2>1, <2>2, Zenon
       DEF ReceiveTrue, NewSyncerInformerFactory, Informers, Signals,
           StoreTypeOK, LoadBalancerTypeOK, SyncerTypeOK, ServerTypeOK
<1>2. CASE ReceiveFalse
  <2>1. RemoteEnable' \in BOOLEAN
    BY <1>2 DEF ReceiveFalse
  <2> QED
    BY <1>0, <1>2, <2>1, StopTypes
       DEF ReceiveFalse, Informers, Signals,
           StoreTypeOK, LoadBalancerTypeOK, SyncerTypeOK, ServerTypeOK
<1>3. CASE StartFails
  BY <1>0, <1>3, StopTypes
     DEF StartFails, Informers, storeVars, lbVars,
         StoreTypeOK, LoadBalancerTypeOK, SyncerTypeOK, ServerTypeOK
<1>4. CASE StartSyncs
  <2>1. cache' \in Values \cup {NoIndexer} /\ batch' \subseteq Keys /\ shared' \in BOOLEAN
    <3>1. informer.index \in Values
      BY VersionValues DEF SyncerTypeOK
    <3>2. registerSyncer \in BOOLEAN
      BY DEF registerSyncer, checkResourceExist, SyncerTypeOK
    <3> QED
      BY <1>4, <3>1, <3>2 DEF StartSyncs, RefreshStorage, Unmatched
  <2> QED
    BY <1>0, <1>4, <2>1
       DEF StartSyncs, RefreshStorage, lbVars,
           StoreTypeOK, LoadBalancerTypeOK, SyncerTypeOK, ServerTypeOK
<1>5. CASE StartEnds
  <2>1. levelDB' \in [Keys -> Values]
    BY <1>5, VersionValues DEF StartEnds, MergeDelete, StoreTypeOK
  <2> QED
    BY <1>0, <1>5, <2>1
       DEF StartEnds, MergeDelete, lbVars, syncerVars,
           StoreTypeOK, LoadBalancerTypeOK, SyncerTypeOK, ServerTypeOK
<1> QED
  BY <1>1, <1>2, <1>3, <1>4, <1>5 DEF StartSyncer

\* Informers and their handlers.
LEMMA ListingTypes ==
  ASSUME TypeOK, Counted, Listing \/ Resyncing \/ Handling
  PROVE  TypeOK' /\ Counted'
<1> USE DEF TypeOK, Counted
<1>0. UNCHANGED <<kind, up, center, clock, faults, served, lbVars, writes, request, acked, hub, late>>
  BY DEF Listing, Resyncing, Handling, quiet, world
<1>1. informer \in Informers /\ center \in 0..MaxVersion /\ 0..MaxVersion \subseteq Values
  BY VersionValues DEF SyncerTypeOK, Informers
<1>2. CASE Listing
  <2> DEFINE note == [old |-> informer.index, new |-> center]
             notes == IF note.old = note.new THEN informer.notes ELSE Append(informer.notes, note)
  <2>1. note \in Notes
    BY <1>1 DEF Notes, Informers
  <2>2. notes \in Seq(Notes)
    BY <1>1, <2>1 DEF Informers
  <2>3. informer' = [informer EXCEPT !.listed = TRUE, !.index = center, !.notes = notes]
    BY <1>2 DEF Listing, ListAndWatch
  <2>4. informer' \in Informers
    BY <1>1, <2>2, <2>3, Zenon DEF Informers
  <2>5. cache' \in Values \cup {NoIndexer}
    BY <1>1, <1>2 DEF Listing, ListAndWatch, StoreTypeOK
  <2> QED
    BY <1>0, <1>2, <2>4, <2>5
       DEF Listing, ListAndWatch, Informers, lbVars,
           StoreTypeOK, LoadBalancerTypeOK, SyncerTypeOK, ServerTypeOK
<1>3. CASE Resyncing
  <2> DEFINE note == [old |-> informer.index, new |-> informer.index]
  <2>1. note \in Notes
    BY <1>1 DEF Notes, Informers
  <2>2. <<note>> \in Seq(Notes)
    BY <2>1
  <2>3. informer' \in Informers
    BY <1>1, <1>3, <2>2, Zenon DEF Resyncing, Resync, Informers
  <2> QED
    BY <1>0, <1>3, <2>3
       DEF Resyncing, Resync, Informers, storeVars, lbVars,
           StoreTypeOK, LoadBalancerTypeOK, SyncerTypeOK, ServerTypeOK
<1>4. CASE Handling
  <2>0. Handles(kind)
    BY <1>4, HandleStep DEF Handling
  <2>1. Tail(informer.notes) \in Seq(Notes) /\ Head(informer.notes) \in Notes
    BY <1>1, <2>0 DEF Handles, Informers
  <2>2. informer' \in Informers
    BY <1>1, <2>0, <2>1, Zenon DEF Handles, Informers
  <2>3. StoreTypeOK' /\ batch' = batch
    <3> DEFINE n == Head(informer.notes)
    <3>1. n.old \in Values /\ n.new \in Values
      BY <2>1 DEF Notes
    <3>2. \/ Update("own", n.new)
          \/ Delete("own")
          \/ UNCHANGED storeVars
      BY <2>0 DEF Handles, handleAddEvent, handleUpdateEvent, handleDeleteEvent, syncToStorage
    <3>3. CASE Update("own", n.new)
      BY <1>0, <3>1, <3>3, UpdateType, Zenon DEF StoreTypeOK, Keys
    <3>4. CASE Delete("own")
      BY <1>0, <3>4, DeleteType, Zenon DEF StoreTypeOK, Keys
    <3>5. CASE UNCHANGED storeVars
      BY <1>0, <3>5 DEF storeVars, StoreTypeOK
    <3> QED
      BY <3>2, <3>3, <3>4, <3>5
  <2> QED
    BY <1>0, <2>0, <2>2, <2>3
       DEF Handles, Informers, lbVars, LoadBalancerTypeOK, SyncerTypeOK, ServerTypeOK
<1> QED
  BY <1>2, <1>3, <1>4

\* The world, restarts and the health check.
LEMMA WorldTypes ==
  ASSUME TypeOK, Counted, Reach \/ Change \/ Restart \/ Checking
  PROVE  TypeOK' /\ Counted'
<1> USE DEF TypeOK, Counted
<1>1. CASE Reach
  <2>1. faults' \in 0..MaxFaults
    BY <1>1, HubAssumption DEF Reach, Lost, Back
  <2>2. up' \in BOOLEAN
    BY <1>1, Zenon DEF Reach, Lost, Back
  <2> QED
    BY <1>1, <2>1, <2>2 DEF Reach, storeVars, lbVars, syncerVars, serverVars,
                      StoreTypeOK, LoadBalancerTypeOK, SyncerTypeOK, ServerTypeOK
<1>2. CASE Change
  <2>1. center' \in 0..MaxVersion /\ clock' \in 0..MaxVersion
    BY <1>2, StoreAssumption DEF Change, Write, Absent, ServerTypeOK
  <2> QED
    BY <1>2, <2>1 DEF Change, storeVars, lbVars, syncerVars,
                      StoreTypeOK, LoadBalancerTypeOK, SyncerTypeOK, ServerTypeOK
<1>3. CASE Restart
  <2>1. cache' \in Values \cup {NoIndexer}
    BY <1>3, RebuildType DEF Restart, StoreTypeOK
  <2>2. informer' \in Informers
    BY <1>3, InformerTypes DEF Restart
  <2>3. faults' \in 0..MaxFaults
    BY <1>3, HubAssumption DEF Restart
  <2>4. StoreTypeOK' /\ batch' = {}
    BY <1>3, <2>1, Zenon DEF Restart, StoreTypeOK
  <2>5. SyncerTypeOK'
    BY <1>3, <2>2, Zenon DEF Restart, SyncerTypeOK, Informers
  <2>6. ServerTypeOK' /\ Counted'
    BY <1>3 DEF Restart, ServerTypeOK, Requests
  <2>7. LoadBalancerTypeOK' /\ hub' = "wait" /\ late' = FALSE
    BY <1>3, Zenon DEF Restart, LoadBalancerTypeOK, Signals
  <2> QED
    BY <2>3, <2>4, <2>5, <2>6, <2>7, Zenon
<1>4. CASE Checking
  <2>1. remoteEnable' \in BOOLEAN /\ signal' \in Signals
    BY <1>4, ZenonT(30) DEF Checking, healthCheck, Enable, sendSignalToSyncer, LoadBalancerTypeOK, Signals
  <2> QED
    BY <1>4, <2>1 DEF Checking, quiet, world, storeVars, syncerVars,
                      StoreTypeOK, LoadBalancerTypeOK, SyncerTypeOK, ServerTypeOK
<1> QED
  BY <1>1, <1>2, <1>3, <1>4, Zenon

LEMMA StutterTypes ==
  ASSUME TypeOK, Counted, UNCHANGED vars
  PROVE  TypeOK' /\ Counted'
BY DEF TypeOK, Counted, vars, storeVars, lbVars, syncerVars, serverVars,
       StoreTypeOK, LoadBalancerTypeOK, SyncerTypeOK, ServerTypeOK

LEMMA TypesStep == TypeOK /\ Counted /\ [Next]_vars => TypeOK' /\ Counted'
BY RequestingTypes, HubTypes, ListingTypes, WorldTypes, StutterTypes DEF Next

(***************************************************************************)
(* Every variable of the edge hub keeps its type, and MergeDelete is the   *)
(* only one to hold a batch.                                               *)
(***************************************************************************)
THEOREM TypeCorrect == Spec => []TypeOK
<1>1. TypeOK /\ Counted /\ [Next]_vars => (TypeOK /\ Counted)'
  BY TypesStep
<1> QED
  BY InitTypes, <1>1, PTL DEF Spec

-----------------------------------------------------------------------------
(* Informers *)

LEMMA InitStopped == Init => SyncersStopped
BY DEF Init, SyncersStopped, LoadBalancerInit, Off

LEMMA StoppedStep ==
  ASSUME TypeOK, SyncersStopped, [Next]_vars
  PROVE  SyncersStopped'
<1> USE DEF SyncersStopped
<1>0. /\ RemoteEnable \in BOOLEAN /\ remoteEnable \in BOOLEAN /\ shared \in BOOLEAN
      /\ signal \in Signals /\ informer \in Informers
  BY Zenon DEF TypeOK, StoreTypeOK, LoadBalancerTypeOK, SyncerTypeOK, Informers
<1>1. CASE Reach \/ Change \/ UNCHANGED vars
  BY <1>1 DEF Reach, Change, vars, storeVars, lbVars, syncerVars
<1>2. CASE Restart
  BY <1>2 DEF Restart, Off
<1>3. CASE Requesting
  <2>1. UNCHANGED RemoteEnable
    BY <1>3, ServingStep, ZenonT(30) DEF Requesting, Ask, DoUpdatePatch, Answer, DoCreate, DoUpdatePut, DoDelete,
       Store, Fetch, Keep, Update, Delete, storeVars
  <2> QED
    BY <1>3, <2>1, Zenon DEF Requesting, lbVars, syncerVars
<1>4. CASE HubStep
  <2>1. CASE ReceiveTrue
    BY <2>1 DEF ReceiveTrue, NewSyncerInformerFactory
  <2>2. CASE ReceiveFalse
    BY <1>0, <2>2 DEF ReceiveFalse, StopSyncer, syncerVars, Off
  <2>3. CASE StartFails
    BY <1>0, <2>3 DEF StartFails, StopSyncer, storeVars, lbVars, syncerVars, Off
  <2>4. CASE StartSyncs
    BY <2>4 DEF StartSyncs, RefreshStorage, lbVars
  <2>5. CASE StartEnds
    BY <2>5 DEF StartEnds, lbVars, syncerVars
  <2> QED
    BY <1>4, <2>1, <2>2, <2>3, <2>4, <2>5, ZenonT(30) DEF HubStep, StartSyncer
<1>5. CASE Checking
  BY <1>0, <1>5 DEF Checking, healthCheck, Enable, sendSignalToSyncer, storeVars, syncerVars, Signals
<1>6. CASE Listing
  BY <1>0, <1>6 DEF Listing, ListAndWatch, lbVars
<1>7. CASE Resyncing
  BY <1>0, <1>7 DEF Resyncing, Resync, storeVars, lbVars
<1>8. CASE Handling
  <2>1. Handles(kind) /\ UNCHANGED <<lbVars, hub>>
    BY <1>8, HandleStep DEF Handling
  <2>2. stopChan = "open"
    BY <2>1 DEF Handles
  <2>3. UNCHANGED RemoteEnable
    BY <2>1 DEF Handles, handleAddEvent, handleUpdateEvent, handleDeleteEvent, syncToStorage,
                Update, Delete, storeVars
  <2> QED
    BY <2>1, <2>2, <2>3 DEF Handles, lbVars
<1> QED
  BY <1>1, <1>2, <1>3, <1>4, <1>5, <1>6, <1>7, <1>8, ZenonT(30) DEF Next

LEMMA StoppedImplies == TypeOK /\ SyncersStopped => InformersStopped
BY DEF TypeOK, StoreTypeOK, SyncersStopped, InformersStopped

(***************************************************************************)
(* InformersStopped for every instance: StartSyncer never forgets an open  *)
(* StopChan, and no informer runs while the storage is local.              *)
(***************************************************************************)
THEOREM NoInformerLeaks == Spec => []InformersStopped
<1>1. Init => TypeOK /\ Counted /\ SyncersStopped
  BY InitTypes, InitStopped
<1>2. TypeOK /\ Counted /\ SyncersStopped /\ [Next]_vars
        => (TypeOK /\ Counted /\ SyncersStopped)'
  BY TypesStep, StoppedStep
<1> QED
  BY <1>1, <1>2, StoppedImplies, PTL DEF Spec

-----------------------------------------------------------------------------
(* Writes during an outage *)

LEMMA InitSafe == Init => WritesSafe
<1> SUFFICES ASSUME Init PROVE WritesSafe
  OBVIOUS
<1>1. acked = NoIndexer /\ request = "none"
  BY DEF Init, ServerInit
<1>2. levelDB["blank"] = Absent
  BY DEF Init, NewEdgehubStore, Keys
<1> QED
  BY <1>1, <1>2 DEF WritesSafe

\* The answer to a request, with the storage local or remote.
LEMMA AnswerSafe ==
  ASSUME IInv, kind # Cert, Answer, UNCHANGED <<kind, hub>>
  PROVE  WritesSafe'
<1> USE DEF WritesSafe
<1>0. TypeOK /\ Counted /\ WritesSafe
  BY DEF IInv
<1>1. levelDB \in [Keys -> Values] /\ NoIndexer \notin Values /\ Absent \in Values
  BY <1>0, VersionValues DEF TypeOK, StoreTypeOK
<1>2. ASSUME NEW k \in Keys, Store(k), k = "blank" => kind \in UnnamedKinds,
             request \in {"create", "put"}
      PROVE  WritesSafe'
  <2> DEFINE v == Local(writes + 1)
  <2>1. v \in Values \ {Absent} /\ v # NoIndexer
    BY <1>0, <1>2, LocalValue DEF TypeOK, ServerTypeOK, Counted
  <2>2. levelDB' = [levelDB EXCEPT ![k] = v] /\ UNCHANGED RemoteEnable
    BY <1>2 DEF Store, Update
  <2>3. kind' \notin UnnamedKinds => levelDB'["blank"] = Absent
    BY <1>0, <1>1, <1>2, <2>2 DEF Keys
  <2>4. acked' # NoIndexer => ~RemoteEnable /\ k = "own" /\ acked' = v
    BY <1>2 DEF Store, Keys
  <2>5. acked' # NoIndexer => levelDB'["own"] = v
    BY <1>1, <2>2, <2>4 DEF Keys
  <2>6. acked' # NoIndexer => cache' \in {v, NoIndexer}
    BY <1>2, <2>4 DEF Store, Update
  <2> QED
    BY <2>1, <2>2, <2>3, <2>4, <2>5, <2>6 DEF Answer
<1>3. CASE DoCreate
  <2>1. CASE CreateKey = "own" /\ InCache
    BY <1>0, <1>3, <2>1 DEF DoCreate, Answer, storeVars
  <2>2. CASE ~(CreateKey = "own" /\ InCache)
    BY <1>2, <1>3, <2>2 DEF DoCreate, CreateKey, Keys
  <2> QED
    BY <2>1, <2>2
<1>4. CASE DoUpdatePut
  BY <1>2, <1>4 DEF DoUpdatePut, Keys
<1>5. CASE DoDelete
  <2>1. levelDB' = [levelDB EXCEPT !["own"] = Absent] /\ UNCHANGED RemoteEnable
    BY <1>5 DEF DoDelete, Delete
  <2>2. levelDB'["own"] = Absent /\ levelDB'["blank"] = levelDB["blank"]
    BY <1>1, <2>1 DEF Keys
  <2>3. acked' # NoIndexer => ~RemoteEnable /\ kind \notin UnnamedKinds /\ acked' = Absent
    BY <1>5 DEF DoDelete
  <2>4. acked' # NoIndexer => cache' \in {Absent, NoIndexer}
    BY <1>5, <2>3, Zenon DEF DoDelete, Delete
  <2> QED
    BY <1>0, <2>1, <2>2, <2>3, <2>4 DEF Answer
<1> QED
  BY <1>3, <1>4, <1>5 DEF Answer

LEMMA RequestingSafe ==
  ASSUME IInv, Requesting
  PROVE  WritesSafe'
<1> USE DEF WritesSafe
<1>0. WritesSafe /\ UNCHANGED <<kind, hub>>
  BY DEF IInv, Requesting
<1>1. ASSUME NEW op \in {"create", "put", "delete"}, Ask(op)
      PROVE  WritesSafe'
  BY <1>0, <1>1 DEF Ask, storeVars
<1>2. CASE DoUpdatePatch
  BY <1>0, <1>2 DEF DoUpdatePatch, storeVars
<1>3. CASE Fetch
  BY <1>0, <1>3 DEF Fetch, storeVars
<1>4. CASE Keep
  <2>1. acked' = NoIndexer /\ request' = "none"
    BY <1>0, <1>4 DEF Keep
  <2>2. levelDB'["blank"] = levelDB["blank"]
    BY <1>4, Zenon DEF Keep, Update, IInv, TypeOK, StoreTypeOK, Keys
  <2> QED
    BY <1>0, <2>1, <2>2
<1> QED
  BY <1>0, <1>1, <1>2, <1>3, <1>4, AnswerSafe, ServingStep, Zenon DEF Requesting

LEMMA SafeStep ==
  ASSUME IInv, [Next]_vars
  PROVE  WritesSafe'
<1> USE DEF WritesSafe
<1>0. /\ WritesSafe /\ SyncersStopped
      /\ levelDB \in [Keys -> Values] /\ NoIndexer \notin Values
  BY VersionValues, Zenon DEF IInv, TypeOK, StoreTypeOK
<1>1. CASE Reach \/ Change \/ UNCHANGED vars
  BY <1>0, <1>1 DEF Reach, Change, vars, storeVars, serverVars
<1>2. CASE Restart
  <2>1. ASSUME acked # NoIndexer PROVE cache' \in {acked, NoIndexer}
    <3>1. CASE acked = Absent
      BY <1>0, <1>2, <2>1, <3>1 DEF Restart, RebuildCache, Keys
    <3>2. CASE acked # Absent
      BY <1>0, <1>2, <2>1, <3>2 DEF Restart, RebuildCache, Keys
    <3> QED
      BY <3>1, <3>2
  <2> QED
    BY <1>0, <1>2, <2>1 DEF Restart
<1>3. CASE Requesting
  BY <1>3, RequestingSafe, Zenon
<1>4. CASE HubStep
  <2>0. UNCHANGED <<kind, request>>
    BY <1>4 DEF HubStep
  <2>1. CASE ReceiveTrue
    BY <1>0, <2>0, <2>1 DEF ReceiveTrue
  <2>2. CASE ReceiveFalse
    BY <1>0, <2>0, <2>2, Zenon DEF ReceiveFalse
  <2>3. CASE StartFails
    BY <1>0, <2>0, <2>3, Zenon DEF StartFails, storeVars
  <2>4. CASE StartSyncs
    BY <1>0, <2>0, <2>4 DEF StartSyncs, RefreshStorage, SyncersStopped
  <2>5. CASE StartEnds
    <3>1. acked = NoIndexer /\ UNCHANGED acked
      BY <1>0, <2>5 DEF StartEnds, SyncersStopped
    <3>2. levelDB'["blank"] \in {Absent, levelDB["blank"]}
      BY <2>5 DEF StartEnds, MergeDelete, Keys
    <3> QED
      BY <1>0, <2>0, <3>1, <3>2
  <2> QED
    BY <1>4, <2>1, <2>2, <2>3, <2>4, <2>5 DEF HubStep, StartSyncer
<1>5. CASE Checking
  BY <1>0, <1>5 DEF Checking, quiet, storeVars
<1>6. CASE Resyncing
  BY <1>0, <1>6 DEF Resyncing, Resync, quiet, storeVars
<1>7. CASE Listing
  <2>1. acked = NoIndexer
    BY <1>0, <1>7 DEF Listing, ListAndWatch, SyncersStopped
  <2> QED
    BY <1>0, <1>7, <2>1 DEF Listing, ListAndWatch, quiet
<1>8. CASE Handling
  <2>1. Handles(kind)
    BY <1>8, HandleStep DEF Handling
  <2>2. acked = NoIndexer
    BY <1>0, <2>1 DEF Handles, SyncersStopped
  <2>3. levelDB'["blank"] = levelDB["blank"]
    BY <1>0, <2>1 DEF Handles, handleAddEvent, handleUpdateEvent, handleDeleteEvent, syncToStorage,
                      Update, Delete, storeVars, Keys
  <2> QED
    BY <1>0, <1>8, <2>2, <2>3 DEF Handling, quiet
<1> QED
  BY <1>1, <1>2, <1>3, <1>4, <1>5, <1>6, <1>7, <1>8, Zenon DEF Next

\* What is in the cache is what Get and List return.
LEMMA SafeImplies == IInv => OfflineWritesKept
<1> SUFFICES ASSUME IInv, acked # NoIndexer
             PROVE  /\ levelDB["own"] = acked
                    /\ cache # NoIndexer => DoGet = acked /\ DoList \subseteq {acked}
  BY DEF OfflineWritesKept
<1>1. levelDB["own"] = acked /\ cache \in {acked, NoIndexer}
  BY DEF IInv, WritesSafe
<1> QED
  BY <1>1 DEF DoGet, DoList, Get, List, InCache

(***************************************************************************)
(* OfflineWritesKept for every instance: an acknowledged local write       *)
(* survives restarts of the hub and is what the edge server answers, until *)
(* the syncers are started again.                                          *)
(***************************************************************************)
THEOREM WritesKept == Spec => []OfflineWritesKept
<1>1. Init => IInv
  BY InitTypes, InitStopped, InitSafe DEF IInv
<1>2. IInv /\ [Next]_vars => IInv'
  BY TypesStep, StoppedStep, SafeStep DEF IInv
<1> QED
  BY <1>1, <1>2, SafeImplies, PTL DEF Spec

-----------------------------------------------------------------------------
(* What the LevelDB keeps *)

StaleInv == IInv /\ NotesLead /\ HandlersFollow

\* Told, of a queue of notifications.
LEMMA ToldOff == informer.notes = <<>> => NotesLead /\ Told(1) = informer.index
BY DEF NotesLead, Told

LEMMA LeadStep ==
  ASSUME IInv, NotesLead, [Next]_vars
  PROVE  NotesLead'
<1>0. informer \in Informers /\ center \in 0..MaxVersion
  BY Zenon DEF IInv, TypeOK, SyncerTypeOK, Informers
<1>1. CASE UNCHANGED informer
  BY <1>1 DEF NotesLead, Told
<1>2. CASE informer'.notes = <<>>
  BY <1>2 DEF NotesLead, Told
<1>3. CASE Listing
  <2> DEFINE q == informer.notes
  <2>1. CASE informer.index = center
    <3>1. informer'.notes = q /\ informer'.index = informer.index
      BY <1>0, <1>3, <2>1, ZenonT(30) DEF Listing, ListAndWatch, Informers
    <3> QED
      BY <3>1 DEF NotesLead, Told
  <2>2. CASE informer.index # center
    <3>1. /\ informer'.notes = Append(q, [old |-> informer.index, new |-> center])
          /\ informer'.index = center
      BY <1>0, <1>3, <2>2 DEF Listing, ListAndWatch, Informers
    <3>2. q \in Seq(Notes) /\ Len(q) \in Nat
      BY <1>0 DEF Informers
    <3>3. PICK n \in Nat : n = Len(q)
      BY <3>2, ZenonT(30)
    <3>4. /\ Len(informer'.notes) = n + 1
          /\ \A i \in 1..n : informer'.notes[i] = q[i]
          /\ informer'.notes[n + 1] = [old |-> informer.index, new |-> center]
      BY <3>1, <3>2, <3>3
    <3>5. \A i \in 1..n : Told(i)' = Told(i)
      BY <3>3, <3>4 DEF Told
    <3>6. Told(n + 1)' = informer.index /\ Told(n + 1) = informer.index
      BY <3>3, <3>4 DEF Told
    <3>7. Told((n + 1) + 1)' = center
      BY <3>1, <3>4 DEF Told
    <3>8. ASSUME NEW i \in 1..n
          PROVE  informer'.notes[i].new = Told(i + 1)' /\ (Told(i)' # Absent \/ Told(i + 1)' # Absent)
      <4>1. i + 1 \in 1..n \/ i + 1 = n + 1
        OBVIOUS
      <4>2. Told(i)' = Told(i) /\ Told(i + 1)' = Told(i + 1)
        BY <3>5, <3>6, <4>1, Zenon
      <4> QED
        BY <3>3, <3>4, <4>2, Zenon DEF NotesLead
    <3>9. informer'.notes[n + 1].new = Told((n + 1) + 1)'
          /\ (Told(n + 1)' # Absent \/ Told((n + 1) + 1)' # Absent)
      BY <2>2, <3>4, <3>6, <3>7
    <3>10. \A i \in 1..(n + 1) : i \in 1..n \/ i = n + 1
      OBVIOUS
    <3> QED
      BY <3>4, <3>8, <3>9, <3>10, Zenon DEF NotesLead
  <2> QED
    BY <2>1, <2>2, Zenon
<1>4. CASE Resyncing
  <2>1. /\ informer'.notes = <<[old |-> informer.index, new |-> informer.index]>>
        /\ informer'.index = informer.index /\ informer.index # Absent
    BY <1>0, <1>4, Zenon DEF Resyncing, Resync, Informers
  <2>2. Len(informer'.notes) = 1 /\ informer'.notes[1] = [old |-> informer.index, new |-> informer.index]
    BY <2>1
  <2>3. Told(1)' = informer.index /\ Told(2)' = informer.index
    <3>1. 1 \in 1..Len(informer'.notes) /\ 2 \notin 1..Len(informer'.notes)
      BY <2>2
    <3>2. informer'.notes[1].old = informer.index
      BY <2>2
    <3> QED
      BY <2>1, <3>1, <3>2, Zenon DEF Told
  <2> QED
    BY <2>1, <2>2, <2>3 DEF NotesLead
<1>5. CASE Handling
  <2> DEFINE q == informer.notes
  <2>1. Handles(kind)
    BY <1>5, HandleStep DEF Handling
  <2>2. q # <<>> /\ informer'.notes = Tail(q) /\ informer'.index = informer.index
    BY <1>0, <2>1 DEF Handles, Informers
  <2>3. q \in Seq(Notes) /\ Len(q) \in Nat
    BY <1>0 DEF Informers
  <2>4. /\ Len(informer'.notes) = Len(q) - 1
        /\ \A i \in 1..(Len(q) - 1) : informer'.notes[i] = q[i + 1]
    BY <2>2, <2>3
  <2>5. \A i \in 1..Len(q) : Told(i)' = Told(i + 1)
    BY <2>2, <2>3, <2>4 DEF Told
  <2>6. \A i \in 1..(Len(q) - 1) : i \in 1..Len(q) /\ i + 1 \in 1..Len(q)
    BY <2>3
  <2> QED
    BY <2>4, <2>5, <2>6, ZenonT(30) DEF NotesLead
<1>6. CASE HubStep
  <2>1. informer'.notes = <<>> \/ UNCHANGED informer
    BY <1>6 DEF HubStep, StartSyncer, ReceiveTrue, ReceiveFalse, StartFails, StartSyncs, StartEnds,
                NewSyncerInformerFactory, NewInformer, StopSyncer, RefreshStorage, syncerVars, Off
  <2> QED
    BY <1>1, <1>2, <2>1
<1>7. CASE Reach \/ Change \/ Restart \/ Requesting \/ Checking \/ UNCHANGED vars
  <2>1. informer'.notes = <<>> \/ UNCHANGED informer
    <3>1. informer' = Off \/ UNCHANGED informer
      BY <1>7, Zenon DEF Reach, Change, Restart, Requesting, Checking, vars, syncerVars
    <3>2. Off.notes = <<>>
      BY Zenon DEF Off
    <3> QED
      BY <3>1, <3>2, Zenon
  <2> QED
    BY <1>1, <1>2, <2>1, Zenon
<1> QED
  BY <1>3, <1>4, <1>5, <1>6, <1>7, Zenon DEF Next

\* The storage takes a request: before the start, or late.
LEMMA RequestingFollows ==
  ASSUME IInv, HandlersFollow, Requesting
  PROVE  HandlersFollow'
<1>1. UNCHANGED <<kind, served, informer, stopChan, shared>> /\ UNCHANGED Told(1)
  BY DEF Requesting, syncerVars, Told
<1>2. batch' = batch /\ RemoteEnable' = RemoteEnable
  BY ServingStep, ZenonT(30) DEF Requesting, Ask, DoUpdatePatch, Answer, DoCreate, DoUpdatePut, DoDelete,
     Store, Fetch, Keep, Update, Delete, storeVars
<1>3. shared => stopChan = "open" /\ registerSyncer
  BY DEF IInv, SyncersStopped, HandlersFollow
<1>4. stopChan = "open" => RemoteEnable
  BY DEF IInv, SyncersStopped
<1>5. registerSyncer' = registerSyncer /\ (registerSyncer => kind # Cert)
  BY <1>1 DEF registerSyncer, checkResourceExist, CoreKinds, UnnamedKinds, OptionalKinds, Cert
<1>6. stopChan = "open" /\ registerSyncer /\ ~late' => ~late /\ levelDB' = levelDB
  BY <1>4, <1>5, ZenonT(30) DEF Requesting
<1> QED
  BY <1>1, <1>2, <1>3, <1>5, <1>6 DEF HandlersFollow

\* The goroutine of initEdgehub stops the informers, or starts them, and merges.
LEMMA HubFollows ==
  ASSUME IInv, HandlersFollow, HubStep
  PROVE  HandlersFollow'
<1> USE DEF HandlersFollow
<1>0. registerSyncer' = registerSyncer
  BY Zenon DEF HubStep, registerSyncer, checkResourceExist
<1>1. CASE ReceiveTrue
  <2>1. informer'.notes = <<>> /\ informer'.index = Absent /\ ~shared'
    BY <1>1, ZenonT(30) DEF ReceiveTrue, NewSyncerInformerFactory, NewInformer, Off
  <2> QED
    BY <1>0, <2>1 DEF Told
<1>2. CASE StopSyncer
  <2>1. stopChan' # "open" /\ ~shared'
    BY <1>2 DEF StopSyncer, syncerVars, IInv, SyncersStopped
  <2> QED
    BY <2>1
<1>3. CASE StartSyncs
  <2>1. /\ shared' = registerSyncer
        /\ registerSyncer => batch' = Unmatched(informer.index)
        /\ UNCHANGED <<levelDB, stopChan, informer, late>>
    BY <1>3 DEF StartSyncs, RefreshStorage
  <2>2. registerSyncer /\ levelDB["blank"] # Absent => "blank" \in batch'
    BY <2>1 DEF Unmatched, Keys
  <2>3. registerSyncer /\ levelDB["own"] # Absent /\ informer.index = Absent => "own" \in batch'
    BY <2>1 DEF Unmatched, Keys
  <2>4. informer.notes = <<>> => Told(1) = informer.index
    BY ToldOff
  <2>5. Told(1)' = Told(1)
    BY <2>1, Zenon DEF Told
  <2> QED
    BY <1>0, <2>1, <2>2, <2>3, <2>4, <2>5, Zenon
<1>4. CASE StartEnds
  <2>1. /\ UNCHANGED <<stopChan, informer, shared, late>> /\ Told(1)' = Told(1)
        /\ \A k \in Keys : levelDB'[k] = IF k \in batch THEN Absent ELSE levelDB[k]
    BY <1>4, Zenon DEF StartEnds, MergeDelete, syncerVars, Told
  <2> QED
    BY <1>0, <2>1, Zenon DEF Keys
<1> QED
  BY <1>1, <1>2, <1>3, <1>4, Zenon DEF HubStep, StartSyncer, ReceiveFalse, StartFails

\* Informers see the center, and handlers write what they are told.
LEMMA ListingFollows ==
  ASSUME IInv, NotesLead, HandlersFollow, Listing \/ Resyncing \/ Handling
  PROVE  HandlersFollow'
<1> USE DEF HandlersFollow
<1>0. UNCHANGED <<kind, served, late, stopChan, shared>> /\ registerSyncer' = registerSyncer
      /\ informer \in Informers
  BY HandleStep DEF Listing, Resyncing, Handling, ListAndWatch, Resync, Handles, quiet,
     registerSyncer, checkResourceExist, IInv, TypeOK, SyncerTypeOK, Informers
<1>1. informer.notes \in Seq(Notes) /\ Len(informer.notes) \in Nat
  BY <1>0 DEF Informers
<1>2. CASE Listing
  <2>1. UNCHANGED <<levelDB, batch>>
    BY <1>2, Zenon DEF Listing, ListAndWatch
  <2>2. Told(1)' = Told(1) /\ (informer.notes # <<>> => informer'.notes # <<>>)
    <3>1. CASE informer.index = center
      <4>1. informer'.notes = informer.notes /\ informer'.index = informer.index
        BY <1>0, <1>2, <3>1, Zenon DEF Listing, ListAndWatch, Informers
      <4> QED
        BY <4>1 DEF Told
    <3>2. CASE informer.index # center
      <4>1. informer'.notes = Append(informer.notes, [old |-> informer.index, new |-> center])
        BY <1>0, <1>2, <3>2, Zenon DEF Listing, ListAndWatch, Informers
      <4>2. /\ Len(informer'.notes) = Len(informer.notes) + 1
            /\ informer'.notes[1] = IF Len(informer.notes) = 0
                                    THEN [old |-> informer.index, new |-> center]
                                    ELSE informer.notes[1]
        BY <1>1, <4>1
      <4> QED
        BY <1>1, <4>2 DEF Told
    <3> QED
      BY <3>1, <3>2
  <2> QED
    BY <1>0, <2>1, <2>2, ZenonT(30)
<1>3. CASE Resyncing
  <2>1. /\ informer'.notes = <<[old |-> informer.index, new |-> informer.index]>>
        /\ informer.notes = <<>> /\ UNCHANGED <<levelDB, batch>>
    BY <1>0, <1>3, ZenonT(30) DEF Resyncing, Resync, Informers, storeVars
  <2>2. Told(1)' = informer.index /\ Told(1) = informer.index /\ informer'.notes # <<>>
    <3>1. 1 \in 1..Len(informer'.notes) /\ informer'.notes[1].old = informer.index /\ informer'.notes # <<>>
      BY <2>1
    <3> QED
      BY <2>1, <3>1, ToldOff, Zenon DEF Told
  <2> QED
    BY <1>0, <2>1, <2>2, ZenonT(30)
<1>4. CASE Handling
  <2>1. Handles(kind)
    BY <1>4, HandleStep DEF Handling
  <2>2. /\ informer.notes # <<>>
        /\ informer'.notes = Tail(informer.notes) /\ informer'.index = informer.index
    BY <1>0, <2>1 DEF Handles, Informers
  <2>3. Head(informer.notes).old = Told(1)
    BY <1>1, <2>2 DEF Told
  <2>4. Told(1)' = Told(2)
    BY <1>1, <2>2 DEF Told
  <2>5. Head(informer.notes).new = Told(2) /\ (Told(1) # Absent \/ Told(2) # Absent)
    BY <1>1, <2>2 DEF NotesLead
  <2>6. levelDB \in [Keys -> Values]
    BY DEF IInv, TypeOK, StoreTypeOK
  <2>7. /\ batch' = batch /\ levelDB'["blank"] = levelDB["blank"]
        /\ \/ levelDB'["own"] = Told(2)
           \/ levelDB' = levelDB /\ Told(1) = Told(2) /\ Told(1) # Absent
    BY <2>1, <2>3, <2>5, <2>6
       DEF Handles, handleAddEvent, handleUpdateEvent, handleDeleteEvent, syncToStorage,
           Update, Delete, storeVars, Keys
  <2> QED
    BY <1>0, <2>4, <2>7
<1> QED
  BY <1>2, <1>3, <1>4, Zenon

LEMMA FollowStep ==
  ASSUME StaleInv, [Next]_vars
  PROVE  HandlersFollow'
<1>0. IInv /\ NotesLead /\ HandlersFollow
  BY Zenon DEF StaleInv
<1>1. CASE Reach \/ Change \/ Checking \/ UNCHANGED vars
  <2>1. UNCHANGED <<kind, served, levelDB, batch, stopChan, informer, shared, late>>
    BY <1>1 DEF Reach, Change, Checking, vars, quiet, storeVars, syncerVars
  <2> QED
    BY <1>0, <2>1, Zenon DEF HandlersFollow, Told, registerSyncer, checkResourceExist
<1>2. CASE Restart
  <2>1. stopChan' # "open" /\ ~shared'
    BY <1>2 DEF Restart
  <2> QED
    BY <2>1 DEF HandlersFollow
<1> QED
  BY <1>0, <1>1, <1>2, RequestingFollows, HubFollows, ListingFollows DEF Next

LEMMA FollowImplies == StaleInv => NothingStale
<1> SUFFICES ASSUME StaleInv, Rest
             PROVE  levelDB["blank"] = Absent /\ levelDB["own"] \in {Absent, center}
  BY DEF NothingStale
<1>1. batch = {} /\ stopChan = "open"
  BY DEF StaleInv, IInv, TypeOK, SyncersStopped, Rest
<1>2. Told(1) = center
  BY ToldOff DEF Rest
<1> QED
  BY <1>1, <1>2 DEF StaleInv, HandlersFollow, Rest

(***************************************************************************)
(* NothingStale for every instance, with any number of notifications       *)
(* queued: when the syncers have nothing left to do, the LevelDB has no    *)
(* object that was deleted at the center while the hub was away, offline   *)
(* or about to merge.                                                      *)
(***************************************************************************)
THEOREM NothingStaleLeft == Spec => []NothingStale
<1>1. Init => StaleInv
  <2>1. Init => IInv
    BY InitTypes, InitStopped, InitSafe DEF IInv
  <2>2. Init => NotesLead
    BY ToldOff DEF Init, Off
  <2>3. Init => HandlersFollow
    BY DEF Init, HandlersFollow
  <2> QED
    BY <2>1, <2>2, <2>3, Zenon DEF StaleInv
<1>2. StaleInv /\ [Next]_vars => StaleInv'
  <2>1. IInv /\ [Next]_vars => IInv'
    BY TypesStep, StoppedStep, SafeStep DEF IInv
  <2> QED
    BY <2>1, LeadStep, FollowStep DEF StaleInv
<1> QED
  BY <1>1, <1>2, FollowImplies, PTL DEF Spec
=============================================================================

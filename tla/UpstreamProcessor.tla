------------------------- MODULE UpstreamProcessor -------------------------
(***************************************************************************)
(* The upstream processors of the controller manager (upstream_processor.go *)
(* and the processor of each kind).  Every replica of the controller       *)
(* manager handles the reports it is given one at a time; one step is one  *)
(* request to the central apiserver, so that replicas interleave between   *)
(* reading an object and writing it.                                       *)
(*                                                                         *)
(* The apiserver refuses to update an object that has changed since it was *)
(* read: "fresh" says that it has not.  Create clears the status, except   *)
(* that of a node; the status subresource may or may not take the labels,  *)
(* which depends on the kind.                                              *)
(*                                                                         *)
(* FullListKeeps, checkEdgeVersionNewer and PutBlind are broken variants of *)
(* the definition that follows each of them, used to show that properties  *)
(* depend on it.                                                           *)
(***************************************************************************)
EXTENDS Reports

CONSTANTS
  Replicas,   \* replicas of the controller manager
  Tries       \* attempts of RetryOnConflict with DefaultRetry

ASSUME ProcessorAssumption == Tries \in Nat \ {0}

VARIABLES
  center,     \* [Names -> version and status reported, version 0 if absent]
  work,       \* what is left of the report a replica handles
  call,       \* where a replica is in CreateOrUpdate
  missed      \* a history variable: names of which a report was lost or given up,
              \* or that were deleted here

processorVars == <<center, work, call, missed>>

Calls == {"none", "create", "read", "put", "readStatus", "putStatus"}
NoCall == [at |-> "none", entry |-> <<>>, fresh |-> FALSE, tries |-> 0]
Works == [full : Lists, excess : SUBSET Names, update : SUBSET Entries, del : SUBSET Names]
NoWork == [full |-> {}, excess |-> {}, update |-> {}, del |-> {}]
Gone == [version |-> 0, status |-> 0]

ProcessorTypeOK ==
  /\ DOMAIN flight \subseteq ReportType
  /\ center \in [Names -> [version : Versions, status : Versions]]
  /\ work \in [Replicas -> Works]
  /\ call \in [Replicas -> [at : Calls, entry : Entries \cup {<<>>}, fresh : BOOLEAN,
                            tries : 0..(Tries - 1)]]
  /\ \A r \in Replicas : call[r].at # "none" => call[r].entry \in Entries
  /\ missed \subseteq Names

\* The center has, or has not, what an earlier connection has reported.
ProcessorInit ==
  /\ flight = NoFlight
  /\ center \in [Names -> {Gone, [version |-> 1, status |-> 1]}]
  /\ \A n \in Leftover : center[n] # Gone
  /\ work = [r \in Replicas |-> NoWork]
  /\ call = [r \in Replicas |-> NoCall]
  /\ missed = {}

Stored(n) == center[n].version # 0
Idle(r) == work[r] = NoWork /\ call[r].at = "none"

-----------------------------------------------------------------------------
\* The object n has changed: what the other replicas have read of it is old.
Touched(r, n) ==
  [q \in Replicas |-> IF q # r /\ call[q].at # "none" /\ call[q].entry.name = n
                      THEN [call[q] EXCEPT !.fresh = FALSE] ELSE call[q]]

\* The call ends.
Return(r) == call' = [call EXCEPT ![r] = NoCall]

\* Delete without a grace period; a missing object is an error that is logged.
DeleteStored(r, n) ==
  /\ center' = [center EXCEPT ![n] = Gone]
  /\ call' = Touched(r, n)
  /\ missed' = missed \cup {n}

\* HandleReceivedMessage and processEdgeReport: a replica takes a report.
Receive(r, m, w) ==
  /\ Idle(r)
  /\ Took(m)
  /\ work' = [work EXCEPT ![r] = w]
  /\ UNCHANGED <<center, call, missed>>

Taken(m) == [full |-> m.full, excess |-> {}, update |-> m.update, del |-> m.del]

FullListKeeps(r) ==
  /\ \E L \in work[r].full :
       work' = [work EXCEPT ![r].full = {}, ![r].excess = L \cap {n \in Names : Stored(n)}]
  /\ UNCHANGED <<center, call, missed, flight>>

\* The full list: what the center has and the edge has not is in excess ...
FullList(r) ==
  /\ \E L \in work[r].full :
       work' = [work EXCEPT ![r].full = {}, ![r].excess = {n \in Names : Stored(n)} \ L]
  /\ UNCHANGED <<center, call, missed, flight>>

\* ... and is deleted.
DeleteExcess(r) ==
  /\ \E n \in work[r].excess :
       /\ work' = [work EXCEPT ![r].excess = @ \ {n}]
       /\ DeleteStored(r, n)
  /\ UNCHANGED flight

\* The turn of UpdateMap, then of DelMap.
Updating(r) == work[r].full = {} /\ work[r].excess = {} /\ call[r].at = "none"
Deleting(r) == Updating(r) /\ work[r].update = {}

\* CreateOrUpdate begins with a Get.
CreateOrUpdate(r, e) ==
  /\ work' = [work EXCEPT ![r].update = @ \ {e}]
  /\ call' = [call EXCEPT ![r] = [at |-> IF Stored(e.name) THEN "read" ELSE "create",
                                  entry |-> e, fresh |-> FALSE, tries |-> 0]]
  /\ UNCHANGED <<center, missed, flight>>

\* Create fails if somebody else has created the object since.
Create(r, status, next) ==
  LET e == call[r].entry
  IN  /\ call[r].at = "create"
      /\ \/ /\ ~Stored(e.name)
            /\ center' = [center EXCEPT ![e.name] = [version |-> e.version, status |-> status]]
            /\ next
            /\ UNCHANGED missed
         \/ /\ Stored(e.name)
            /\ Return(r)
            /\ missed' = missed \cup {e.name}
            /\ UNCHANGED center
      /\ UNCHANGED <<work, flight>>

checkEdgeVersionNewer(e) == e.version > center[e.name].version

\* checkEdgeVersion: equal versions pass.
checkEdgeVersion(e) == ~(e.version < center[e.name].version)

\* The function given to RetryOnConflict reads the object first ...
Read(r, from, to) ==
  LET e == call[r].entry
  IN  /\ call[r].at = from
      /\ IF Stored(e.name) /\ checkEdgeVersion(e)
         THEN call' = [call EXCEPT ![r].at = to, ![r].fresh = TRUE]
         ELSE Return(r)
      /\ UNCHANGED <<center, work, missed, flight>>

PutBlind(r, from, to, obj, next) ==
  /\ call[r].at = from
  /\ IF Stored(call[r].entry.name)
     THEN center' = [center EXCEPT ![call[r].entry.name] = obj] /\ next
     ELSE Return(r) /\ UNCHANGED center
  /\ UNCHANGED <<missed, work, flight>>

\* ... and writes it then, again from the start if that is a conflict.
Put(r, from, to, obj, next) ==
  LET e == call[r].entry
  IN  /\ call[r].at = from
      /\ \/ /\ ~Stored(e.name)
            /\ Return(r)
            /\ UNCHANGED <<center, missed>>
         \/ /\ Stored(e.name) /\ ~call[r].fresh
            /\ call[r].tries + 1 < Tries
            /\ call' = [call EXCEPT ![r].at = to, ![r].tries = @ + 1]
            /\ UNCHANGED <<center, missed>>
         \/ /\ Stored(e.name) /\ ~call[r].fresh
            /\ call[r].tries + 1 = Tries
            /\ Return(r)
            /\ missed' = missed \cup {e.name}
            /\ UNCHANGED center
         \/ /\ Stored(e.name) /\ call[r].fresh
            /\ center' = [center EXCEPT ![e.name] = obj]
            /\ next
            /\ UNCHANGED missed
      /\ UNCHANGED <<work, flight>>

\* The call goes on, or ends, after the object has been written.
ThenTo(r, at) ==
  call' = [Touched(r, call[r].entry.name) EXCEPT
             ![r] = [call[r] EXCEPT !.at = at, !.fresh = FALSE, !.tries = 0]]
ThenReturn(r) == call' = [Touched(r, call[r].entry.name) EXCEPT ![r] = NoCall]

\* Update and UpdateStatus, each in its own RetryOnConflict.
Update(r) ==
  LET e == call[r].entry
  IN  \/ Read(r, "read", "put")
      \/ Put(r, "put", "read", [center[e.name] EXCEPT !.version = e.version],
             ThenTo(r, "readStatus"))
      \/ Read(r, "readStatus", "putStatus")
      \/ /\ call[r].at = "putStatus"
         /\ \E v \in {center[e.name].version, e.version} :
              Put(r, "putStatus", "readStatus", [version |-> v, status |-> e.version],
                  ThenReturn(r))

\* The objects of DelMap, in any order.
DelMap(r) ==
  /\ Deleting(r)
  /\ \E n \in work[r].del :
       /\ work' = [work EXCEPT ![r].del = @ \ {n}]
       /\ DeleteStored(r, n)
  /\ UNCHANGED flight

-----------------------------------------------------------------------------
\* pod_processor.go.  An empty list is taken for no list; a pod that has a
\* deletionTimestamp is deleted.
handlePodReport(r, m) ==
  kind = "pod" /\ Receive(r, m, [Taken(m) EXCEPT !.full = @ \ {{}}])

handlePodFullList(r) == kind = "pod" /\ (FullList(r) \/ DeleteExcess(r))

CreateOrUpdatePod(r, e) ==
  \/ /\ e.dying
     /\ work' = [work EXCEPT ![r].update = @ \ {e}]
     /\ DeleteStored(r, e.name)
     /\ UNCHANGED flight
  \/ /\ ~e.dying
     /\ CreateOrUpdate(r, e)

handlePodUpdateMap(r) ==
  kind = "pod" /\ Updating(r) /\ \E e \in work[r].update : CreateOrUpdatePod(r, e)

CreatePod(r) == kind = "pod" /\ Create(r, 0, ThenTo(r, "read"))
UpdatePod(r) == kind = "pod" /\ Update(r)
handlePodDelMap(r) == kind = "pod" /\ DelMap(r)

PodProcessor(r) ==
  \/ \E m \in DOMAIN flight : handlePodReport(r, m)
  \/ handlePodFullList(r) \/ handlePodUpdateMap(r)
  \/ CreatePod(r) \/ UpdatePod(r) \/ handlePodDelMap(r)

-----------------------------------------------------------------------------
\* node_processor.go.  A node that has been created is not updated as well.
handleNodeReport(r, m) == kind = "node" /\ Receive(r, m, Taken(m))
handleNodeFullList(r) == kind = "node" /\ (FullList(r) \/ DeleteExcess(r))
handleNodeUpdateMap(r) ==
  kind = "node" /\ Updating(r) /\ \E e \in work[r].update : CreateOrUpdate(r, e)
CreateNode(r) == kind = "node" /\ Create(r, call[r].entry.version, ThenReturn(r))
UpdateNode(r) == kind = "node" /\ Update(r)
handleNodeDelMap(r) == kind = "node" /\ DelMap(r)

NodeProcessor(r) ==
  \/ \E m \in DOMAIN flight : handleNodeReport(r, m)
  \/ handleNodeFullList(r) \/ handleNodeUpdateMap(r)
  \/ CreateNode(r) \/ UpdateNode(r) \/ handleNodeDelMap(r)

-----------------------------------------------------------------------------
\* deployment_processor.go
handleDeploymentReport(r, m) == kind = "deployment" /\ Receive(r, m, Taken(m))
handleDeploymentFullList(r) == kind = "deployment" /\ (FullList(r) \/ DeleteExcess(r))
handleDeploymentUpdateMap(r) ==
  kind = "deployment" /\ Updating(r) /\ \E e \in work[r].update : CreateOrUpdate(r, e)
CreateDeployment(r) == kind = "deployment" /\ Create(r, 0, ThenTo(r, "read"))
UpdateDeployment(r) == kind = "deployment" /\ Update(r)
handleDeploymentDelMap(r) == kind = "deployment" /\ DelMap(r)

DeploymentProcessor(r) ==
  \/ \E m \in DOMAIN flight : handleDeploymentReport(r, m)
  \/ handleDeploymentFullList(r) \/ handleDeploymentUpdateMap(r)
  \/ CreateDeployment(r) \/ UpdateDeployment(r) \/ handleDeploymentDelMap(r)

-----------------------------------------------------------------------------
\* daemonset_processor.go
handleDaemonsetReport(r, m) == kind = "daemonset" /\ Receive(r, m, Taken(m))
handleDaemonsetFullList(r) == kind = "daemonset" /\ (FullList(r) \/ DeleteExcess(r))
handleDaemonsetUpdateMap(r) ==
  kind = "daemonset" /\ Updating(r) /\ \E e \in work[r].update : CreateOrUpdate(r, e)
CreateDaemonset(r) == kind = "daemonset" /\ Create(r, 0, ThenTo(r, "read"))
UpdateDaemonset(r) == kind = "daemonset" /\ Update(r)
handleDaemonsetDelMap(r) == kind = "daemonset" /\ DelMap(r)

DaemonsetProcessor(r) ==
  \/ \E m \in DOMAIN flight : handleDaemonsetReport(r, m)
  \/ handleDaemonsetFullList(r) \/ handleDaemonsetUpdateMap(r)
  \/ CreateDaemonset(r) \/ UpdateDaemonset(r) \/ handleDaemonsetDelMap(r)

-----------------------------------------------------------------------------
\* service_processor.go
handleServiceReport(r, m) == kind = "service" /\ Receive(r, m, Taken(m))
handleServiceFullList(r) == kind = "service" /\ (FullList(r) \/ DeleteExcess(r))
handleServiceUpdateMap(r) ==
  kind = "service" /\ Updating(r) /\ \E e \in work[r].update : CreateOrUpdate(r, e)
CreateService(r) == kind = "service" /\ Create(r, 0, ThenTo(r, "read"))
UpdateService(r) == kind = "service" /\ Update(r)
handleServiceDelMap(r) == kind = "service" /\ DelMap(r)

ServiceProcessor(r) ==
  \/ \E m \in DOMAIN flight : handleServiceReport(r, m)
  \/ handleServiceFullList(r) \/ handleServiceUpdateMap(r)
  \/ CreateService(r) \/ UpdateService(r) \/ handleServiceDelMap(r)

ProcessorStep ==
  \E r \in Replicas :
    PodProcessor(r) \/ NodeProcessor(r) \/ DeploymentProcessor(r)
    \/ DaemonsetProcessor(r) \/ ServiceProcessor(r)
=============================================================================

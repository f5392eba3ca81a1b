----------------------------- MODULE EdgeServer -----------------------------
(***************************************************************************)
(* The edge server of the edge hub (pkg/server): requests of the node for  *)
(* the object.  When the load balancer says that the center is enabled,    *)
(* the request is sent there; otherwise it is answered from the local      *)
(* storage.  The flag is read first and the storage used later: between    *)
(* the two the hub may start or stop the syncers.  One request is handled  *)
(* at a time.                                                              *)
(*                                                                         *)
(* Each kind registers its own handlers; those of the reviews only Create. *)
(* Get and List are answered from the cache always, and change nothing:    *)
(* they are operators.  The certificate handlers of k3s keep what the      *)
(* center sends.                                                           *)
(***************************************************************************)
EXTENDS Syncers

VARIABLES
  clock,    \* the last version given by the center
  writes,   \* number of local writes
  request,  \* what a handler is about to do with the storage, or "none"
  acked     \* a history variable: the outcome of the last request answered from the
            \* storage while the center was out (RemoteEnable down), or NoIndexer

serverVars == <<clock, writes, request, acked>>

Requests == {"none", "create", "put", "delete", "keep"}

ServerTypeOK ==
  /\ clock \in 0..MaxVersion
  /\ writes \in 0..MaxWrites
  /\ request \in Requests
  /\ acked \in Values \cup {NoIndexer}

ServerInit == writes = 0 /\ request = "none" /\ acked = NoIndexer

-----------------------------------------------------------------------------
(* The center, as far as requests and others change it (external) *)

\* The kinds of which the center keeps objects.
Kept == kind \notin ReviewKinds \cup {Cert} /\ served

Write == clock < MaxVersion /\ clock' = clock + 1 /\ center' = clock + 1

Forward(op) ==
  /\ up /\ Kept
  /\ CASE op = "create" -> center = Absent /\ Write
       [] op \in {"put", "patch"} -> center # Absent /\ Write
       [] op = "delete" -> center # Absent /\ center' = Absent /\ UNCHANGED clock

-----------------------------------------------------------------------------
(* Requests *)

\* The first half of a request.  A request to the center that fails changes nothing.
Ask(op) ==
  /\ request = "none"
  /\ IF IsRemoteEnable
     THEN Forward(op) /\ UNCHANGED request
     ELSE /\ op \in {"create", "put"} => writes < MaxWrites
          /\ request' = op
          /\ UNCHANGED <<center, clock>>
  /\ UNCHANGED <<storeVars, writes, acked>>

\* A value that the storage takes, in answer to a request.
Store(k) ==
  /\ writes' = writes + 1
  /\ Update(k, Local(writes + 1))
  /\ acked' = IF RemoteEnable \/ k = "blank" THEN NoIndexer ELSE Local(writes + 1)

\* The name under which a created object is looked up and stored.
CreateKey == IF kind \in UnnamedKinds THEN "blank" ELSE "own"

\* An object that exists is not created; nothing exists under the empty name.
DoCreate ==
  /\ request = "create"
  /\ IF CreateKey = "own" /\ InCache
     THEN UNCHANGED <<storeVars, writes, acked>>
     ELSE Store(CreateKey)

DoUpdatePut == request = "put" /\ Store("own")

\* A patch answered from the storage changes nothing there.
DoUpdatePatch ==
  /\ request = "none" /\ IsRemoteEnable
  /\ Forward("patch")
  /\ UNCHANGED <<storeVars, writes, request, acked>>

DoDelete ==
  /\ request = "delete"
  /\ Delete("own")
  /\ acked' = IF RemoteEnable \/ kind \in UnnamedKinds THEN NoIndexer ELSE Absent
  /\ UNCHANGED writes

DoGet == Get

\* The list handler of a kind filters the objects; that of events has none.
DoList == IF kind = "event" THEN {} ELSE List

\* The second half of a request.
Answer ==
  /\ DoCreate \/ DoUpdatePut \/ DoDelete
  /\ request' = "none"
  /\ UNCHANGED <<center, clock>>

createHandler == Ask("create")
updatePutHandler == Ask("put")
updatePatchHandler == DoUpdatePatch
deleteHandler == Ask("delete")

Serves(k) ==
  /\ kind = k
  /\ createHandler \/ updatePutHandler \/ updatePatchHandler \/ deleteHandler \/ Answer

PodHandler == Serves("pod")
NodeHandler == Serves("node")
ServiceHandler == Serves("service")
EndpointHandler == Serves("endpoint")
NamespaceHandler == Serves("namespace")
ConfigMapHandler == Serves("configmap")
SecretHandler == Serves("secret")
EventHandler == Serves("event")
LeaseHandler == Serves("lease")
NetworkPolicyHandler == Serves("networkpolicy")
CSIDriverHandler == Serves("csidriver")
CSINodeHandler == Serves("csinode")
RuntimeClassHandler == Serves("runtimeclass")
CertSigningRequestHandler == Serves("csr")
TokenReviewHandler == kind = "tokenreview" /\ (createHandler \/ Answer)
SubjectAccessReviewHandler == kind = "subjectaccessreview" /\ (createHandler \/ Answer)

-----------------------------------------------------------------------------
(* Certificates *)

\* A certificate handler asks the center, answers, and then keeps the answer.
\* Without the center it answers from the LevelDB.
Fetch ==
  /\ kind = Cert /\ request = "none" /\ IsRemoteEnable /\ up
  /\ request' = "keep"
  /\ UNCHANGED <<storeVars, center, clock, writes, acked>>

configHandler == Fetch
fileHandler == Fetch
keyHandler == Fetch
versionHandler == Fetch

Keep ==
  /\ request = "keep"
  /\ request' = "none"
  /\ Update("own", center)
  /\ UNCHANGED <<center, clock, writes, acked>>

CertHandler == configHandler \/ fileHandler \/ keyHandler \/ versionHandler \/ Keep

-----------------------------------------------------------------------------
Serving ==
  \/ PodHandler \/ NodeHandler \/ ServiceHandler \/ EndpointHandler \/ NamespaceHandler
  \/ ConfigMapHandler \/ SecretHandler \/ EventHandler
  \/ LeaseHandler \/ NetworkPolicyHandler \/ CSIDriverHandler \/ CSINodeHandler
  \/ RuntimeClassHandler \/ CertSigningRequestHandler
  \/ TokenReviewHandler \/ SubjectAccessReviewHandler
  \/ CertHandler

=============================================================================

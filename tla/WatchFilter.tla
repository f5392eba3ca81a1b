---------------------------- MODULE WatchFilter ----------------------------
(***************************************************************************)
(* Which objects a watch of the edge server is about: the filters of the   *)
(* initial events, one for each kind (GetInitWatchEvent), and the filter   *)
(* of later events (checkIsNeedToWatch).  A field selector is a sequence   *)
(* of the parts around its "="; empty strings are parameters not given.    *)
(***************************************************************************)
EXTENDS Naturals, Sequences

WatchKinds ==
  {"pod", "node", "service", "endpoint", "namespace", "event", "secret", "configmap",
   "lease", "networkpolicy", "csidriver", "csinode", "runtimeclass", "csr"}

ClusterKinds == {"node", "namespace", "csidriver", "csinode", "runtimeclass", "csr"}

Kubernetes == <<"metadata.name", "kubernetes">>

IsFilterFromQueryParams(field, nodeName, name) ==
  Len(field) >= 2 =>
    /\ field[1] = "metadata.name" => field[2] = name
    /\ field[1] = "spec.nodeName" => field[2] = nodeName

-----------------------------------------------------------------------------
(* Initial events: q is what is asked for, o an object in the cache *)

Named(q, o, nodeName) ==
  /\ q.name # "" => o.name = q.name
  /\ IsFilterFromQueryParams(q.field, nodeName, o.name)

Namespaced(q, o, nodeName) == (q.namespace # "" => o.namespace = q.namespace) /\ Named(q, o, nodeName)

PodInit(q, o) == Namespaced(q, o, o.node)
ServiceInit(q, o) == Namespaced(q, o, "")
\* The endpoint of the center is hidden from k3s agents.
EndpointInit(q, o) ==
  ~(q.namespace = "default" /\ q.field = Kubernetes) /\ Namespaced(q, o, "")
NodeInit(q, o) == Named(q, o, "")
NamespaceInit(q, o) == Named(q, o, "")
SecretInit(q, o) == Namespaced(q, o, "")
ConfigMapInit(q, o) == Namespaced(q, o, "")
EventInit(q, o) == FALSE
LeaseInit(q, o) == Namespaced(q, o, "")
NetworkPolicyInit(q, o) == Namespaced(q, o, "")
CSIDriverInit(q, o) == Namespaced(q, o, "")
CSINodeInit(q, o) == Namespaced(q, o, "")
RuntimeClassInit(q, o) == Namespaced(q, o, "")
CSRInit(q, o) == Namespaced(q, o, "")

GetInitWatchEvent(kind, q, o) ==
  CASE kind = "pod" -> PodInit(q, o)
    [] kind = "service" -> ServiceInit(q, o)
    [] kind = "endpoint" -> EndpointInit(q, o)
    [] kind = "node" -> NodeInit(q, o)
    [] kind = "namespace" -> NamespaceInit(q, o)
    [] kind = "secret" -> SecretInit(q, o)
    [] kind = "configmap" -> ConfigMapInit(q, o)
    [] kind = "event" -> EventInit(q, o)
    [] kind = "lease" -> LeaseInit(q, o)
    [] kind = "networkpolicy" -> NetworkPolicyInit(q, o)
    [] kind = "csidriver" -> CSIDriverInit(q, o)
    [] kind = "csinode" -> CSINodeInit(q, o)
    [] kind = "runtimeclass" -> RuntimeClassInit(q, o)
    [] kind = "csr" -> CSRInit(q, o)

-----------------------------------------------------------------------------
(* Later events *)

\* The name of the node is only known for pods.
checkIsNeedToWatch(kind, q, o) ==
  /\ ~(q.field = Kubernetes /\ kind = "endpoint")
  /\ IsFilterFromQueryParams(q.field, IF kind = "pod" THEN o.node ELSE "", o.name)
  /\ kind # "node" /\ q.namespace # "" => o.namespace = q.namespace
  /\ q.name # "" => o.name = q.name

=============================================================================

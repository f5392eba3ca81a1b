---------------------------- MODULE MCEdgeWatch ----------------------------
(***************************************************************************)
(* Objects and queries for EdgeWatch.                                      *)
(***************************************************************************)
EXTENDS EdgeWatch, TLC

CONSTANTS w1, w2

MCModes == {(w1 :> "chunk" @@ w2 :> "websocket"), (w1 :> "websocket" @@ w2 :> "websocket")}

MCObjects ==
  {[namespace |-> "default", name |-> "a", node |-> "n"],
   [namespace |-> "", name |-> "a", node |-> ""]}

\* By name, by node and namespace, and the endpoint of the center.
MCQueries ==
  {[field |-> <<"metadata.name", "a">>, namespace |-> "", name |-> ""],
   [field |-> <<"spec.nodeName", "n">>, namespace |-> "default", name |-> "a"],
   [field |-> Kubernetes, namespace |-> "default", name |-> ""]}

(* All kinds by name, and by both ways of watching; two websockets for one  *)
(* kind.  The node of an object is asked for where it is known and where it *)
(* is not, the endpoint of the center where it is one.                      *)
Asked ==
  /\ query.field[1] = "spec.nodeName" => kind \in {"pod", "service"}
  /\ query.field = Kubernetes => kind = "endpoint"
  /\ mode[w1] = "websocket" => kind = "pod"

AskedInit == Init /\ Asked

FairAsked == AskedInit /\ [][Next]_vars /\ WF_vars(Running)
=============================================================================

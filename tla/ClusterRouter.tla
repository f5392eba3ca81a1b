--------------------------- MODULE ClusterRouter ---------------------------
(***************************************************************************)
(* The subtree part of a cluster router: a map from the name of a cluster  *)
(* below this one to its port, the child through which it is reached.      *)
(*                                                                         *)
(* UpdateAddOnly is a broken variant of UpdateRouteToSubtree, used to show *)
(* that properties depend on it.                                           *)
(***************************************************************************)
\* AddRoute refuses a name that is already reached through another child.
Duplicated(r, to, port) == to \in DOMAIN r /\ r[to] # port

AddRoute(r, to, port) ==
  [x \in DOMAIN r \cup {to} |-> IF x \in DOMAIN r THEN r[x] ELSE port]

Remove(r, gone) == [x \in DOMAIN r \ gone |-> r[x]]

(* DelRoute removes the route if its port is the one asked for.  With a     *)
(* child's own name as the port it removes everything behind that child.    *)
DelRoute(r, to, port) ==
  IF to = port
  THEN Remove(r, {x \in DOMAIN r : x = to \/ r[x] = port})
  ELSE Remove(r, {x \in DOMAIN r : x = to /\ r[x] = port})

SubTreeOfPort(r, port) == {x \in DOMAIN r : r[x] = port /\ x # port}

AddSubtree(r, subs, port) ==
  [x \in DOMAIN r \cup subs |-> IF x \in DOMAIN r THEN r[x] ELSE port]

UpdateAddOnly(r, subs, port) == AddSubtree(r, subs, port)

(* updateRouteToSubtree: AddRoute of every name the child reports, then     *)
(* DelRoute of the names reached through it that it did not report.         *)
UpdateRouteToSubtree(r, subs, port) ==
  LET added == AddSubtree(r, subs, port)
  IN  Remove(added, SubTreeOfPort(added, port) \ subs)
=============================================================================

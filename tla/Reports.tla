------------------------------ MODULE Reports ------------------------------
(***************************************************************************)
(* What the reporters of an edge cluster and the upstream processors of    *)
(* the controller manager share: reports of one kind of resource and the   *)
(* reports that are under way.                                             *)
(*                                                                         *)
(* An object is its resourceVersion at the edge and whether it has a       *)
(* deletionTimestamp; version 0 stands for an object that does not exist.  *)
(* A report under way is a goroutine of a reporter, a message in SyncChan, *)
(* on a connection, or with one of the ten workers of a cluster controller *)
(* on its way: nothing keeps the order of two of them, and two may be the  *)
(* same.  They are counted by a function on those that are under way; the  *)
(* operators on it are written here because Bags brings a library of       *)
(* theorems with it under which the provers slow down.                     *)
(***************************************************************************)
EXTENDS Naturals, FiniteSets

CONSTANTS
  Names,       \* keys of the resources (namespace and name)
  Leftover,    \* those of objects that are gone from the edge, but not from the center
  MaxVersion,  \* bound: writes to the apiserver of the edge cluster
  MaxFlight    \* bound: different reports under way at the same time

ASSUME ReportsAssumption ==
  Leftover \subseteq Names /\ MaxVersion \in Nat \ {0} /\ MaxFlight \in Nat

VARIABLES
  kind,         \* the kind of resource that is followed
  lightweight,  \* IsLightweightReport
  flight        \* reports under way, and how many of each

Kinds == {"pod", "node", "deployment", "daemonset", "service"}
Versions == 0..MaxVersion
Objects == [version : Versions, dying : BOOLEAN]
Absent == [version |-> 0, dying |-> FALSE]
Entries == [name : Names, version : Versions, dying : BOOLEAN]

\* At most one list of all keys; a report without one has none.
Lists == {{}} \cup {{L} : L \in SUBSET Names}
ReportType == [full : Lists, update : SUBSET Entries, del : SUBSET Names]

\* PodResourceStatus, NodeResourceStatus and so on.
Report(full, update, del) == [full |-> full, update |-> update, del |-> del]
NoReport == Report({}, {}, {})

Entry(n, obj) == [name |-> n, version |-> obj.version, dying |-> obj.dying]

NoFlight == [m \in {} |-> 0]

Send(m) ==
  /\ Cardinality(DOMAIN flight) < MaxFlight
  /\ flight' = [x \in DOMAIN flight \cup {m} |->
                  IF x # m THEN flight[x] ELSE IF m \in DOMAIN flight THEN flight[m] + 1 ELSE 1]

Took(m) ==
  flight' = [x \in {x \in DOMAIN flight : x # m \/ flight[m] > 1} |->
               IF x # m THEN flight[x] ELSE flight[m] - 1]
=============================================================================

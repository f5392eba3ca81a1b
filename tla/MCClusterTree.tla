--------------------------- MODULE MCClusterTree ---------------------------
(* An instance of ClusterTree: a root, two clusters below it and one below  *)
(* the first of those.                                                      *)
EXTENDS ClusterTree

TwoLevelConf == [n \in {"a", "b", "c"} |-> IF n = "c" THEN "a" ELSE "root"]
TwoLevelLevel == [n \in {"root", "a", "b", "c"} |->
                    CASE n = "root" -> 0 [] n \in {"a", "b"} -> 1 [] OTHER -> 2]

(* The tree once everybody has connected and every route message has been   *)
(* handled: a state the fault-free start reaches from Init.                 *)
Established ==
  /\ proc = [n \in Node |-> "running"]
  /\ childs = [n \in Node |-> {c \in NonRoot : ConfParent[c] = n}]
  /\ clients = childs
  /\ neighbor = [n \in Node |-> IF n = Root THEN {} ELSE childs[ConfParent[n]]]
  /\ parentNeighbor = [n \in Node |-> IF n = Root THEN {} ELSE neighbor[ConfParent[n]]]
  /\ closing = [n \in Node |-> EmptyBag]
  /\ outbox = [n \in Node |-> EmptyBag]
  /\ inbox = [n \in Node |-> EmptyBag]
  /\ late = [n \in Node |-> {}]
  /\ parent = ConfParent
  /\ cloudAddr = ConfParent
  /\ blacklist = [n \in NonRoot |-> <<>>]
  /\ faults = 0

(* The same tree when "b" has just connected, as the last one: the others   *)
(* do not know of it yet and the message of the root is still to be sent.   *)
Joining ==
  /\ proc = [n \in Node |-> "running"]
  /\ childs = [n \in Node |-> {c \in NonRoot : ConfParent[c] = n}]
  /\ clients = childs
  /\ neighbor = [n \in Node |-> IF n \in {Root, "b"} THEN {} ELSE childs[ConfParent[n]] \ {"b"}]
  /\ parentNeighbor = [n \in Node |-> IF n \in {Root, "b"} THEN {} ELSE neighbor[ConfParent[n]]]
  /\ closing = [n \in Node |-> EmptyBag]
  /\ outbox = [n \in Node |-> IF n = Root THEN BagAdd(EmptyBag, RouterMessage(Root, childs[Root]))
                              ELSE EmptyBag]
  /\ inbox = [n \in Node |-> EmptyBag]
  /\ late = [n \in Node |-> {}]
  /\ parent = ConfParent
  /\ cloudAddr = ConfParent
  /\ blacklist = [n \in NonRoot |-> <<>>]
  /\ faults = 0

FairRecovery == (Established \/ Joining) /\ [][Next]_vars /\ Fairness
=============================================================================

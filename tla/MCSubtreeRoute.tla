--------------------------- MODULE MCSubtreeRoute ---------------------------
(* An instance of SubtreeRoute: two clusters below the root, and one with a *)
(* cluster below it that moves between them.  The name of the lowest        *)
(* contains that of the mover.                                              *)
EXTENDS ControlDispatch

BranchLevel == [n \in {"root", "a", "b", "c", "x"} |->
                  CASE n = "root" -> 0 [] n \in {"a", "b"} -> 1
                    [] n = "c" -> 2 [] OTHER -> 3]

BranchParent == [n \in {"a", "b", "c", "x"} |->
                   CASE n \in {"a", "b"} -> "root" [] n = "c" -> "a"
                     [] OTHER -> "c"]

(* Two reports of the cluster that the mover leaves are under way, and may  *)
(* overtake each other.  The leaf reports an empty subtree, which changes   *)
(* nothing, and is left out.                                                *)
BranchReports == [n \in {"a", "b", "c", "x"} |->
                    CASE n = "a" -> 2 [] n = "x" -> 0 [] OTHER -> 1]

LeafContains == [n \in Node |-> IF n = "c" THEN {"c", "x"} ELSE {n}]

\* One cluster by an anchored pattern, two of them, one branch, all.
SomeSelectors == {{{"c"}}, {{"x"}, {"b"}}, {{"a", "c"}}, {Node}}

\* All connected, all registered: a state the fault-free start reaches from Init.
Established ==
  /\ parent = BranchParent
  /\ tasks = [n \in Node |-> EmptyBag]
  /\ up = [n \in Node |-> EmptyBag]
  /\ inbox = [n \in Node |-> EmptyBag]
  /\ route = [n \in Node |->
                LET below == {x \in NonRoot : TruePort(n, x) # None}
                IN  [x \in below |-> TruePort(n, x)]]
  /\ moves = 0 /\ overtaken = FALSE

FairEstablished == Established /\ [][Next]_vars /\ Fairness
=============================================================================

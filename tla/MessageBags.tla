---------------------------- MODULE MessageBags ----------------------------
(***************************************************************************)
(* Goroutines and messages whose order nothing keeps: a bag counts how     *)
(* often each is there.  The operators of Bags that the models need are    *)
(* written out, because the provers take several times as long with that   *)
(* module in scope.                                                        *)
(***************************************************************************)
EXTENDS Naturals

EmptyBag == <<>>

BagToSet(b) == DOMAIN b

BagIn(e, b) == e \in DOMAIN b

CopiesIn(e, b) == IF e \in DOMAIN b THEN b[e] ELSE 0

BagAdd(b, e) == [x \in DOMAIN b \cup {e} |-> IF x = e THEN CopiesIn(e, b) + 1 ELSE b[x]]

BagDel(b, e) == [x \in {y \in DOMAIN b : y # e \/ b[y] > 1} |-> IF x = e THEN b[x] - 1 ELSE b[x]]
=============================================================================

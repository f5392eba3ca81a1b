----------------------------- MODULE MCEdgeHub -----------------------------
(***************************************************************************)
(* An instance of EdgeHub.  Kinds with the same handlers take the same     *)
(* steps: one of each sort is followed through outages and restarts, the   *)
(* others while there are none.                                            *)
(***************************************************************************)
EXTENDS EdgeHub

Followed == {"pod", "event", "secret", "lease", "tokenreview", Cert}

Faultless == kind \notin Followed => faults = 0

FairFollowed == Init /\ [][Next /\ Faultless']_vars /\ Fairness
=============================================================================

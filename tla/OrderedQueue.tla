---------------------------- MODULE OrderedQueue ----------------------------
(***************************************************************************)
(* What a sender promises of the messages given to it: they go out in the  *)
(* order they came in, each at most once, and one is thrown away only when *)
(* Limit others wait behind it.                                            *)
(***************************************************************************)
EXTENDS Naturals, Sequences

CONSTANTS Msg, Limit

VARIABLES
  queue,  \* given and not yet out
  out     \* handed to the connection

vars == <<queue, out>>

Init == queue = <<>> /\ out = <<>>

Put ==
  /\ \E m \in Msg : queue' = Append(queue, m)
  /\ UNCHANGED out

SendFirst ==
  /\ queue # <<>>
  /\ queue' = Tail(queue)
  /\ out' = Append(out, Head(queue))

ThrowFirst ==
  /\ Len(queue) > Limit
  /\ queue' = Tail(queue)
  /\ UNCHANGED out

Next == Put \/ SendFirst \/ ThrowFirst

Spec == Init /\ [][Next]_vars
=============================================================================

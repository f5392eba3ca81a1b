---------------------------- MODULE EdgeHandler ----------------------------
(***************************************************************************)
(* The edge handler of a cluster controller (edgehandler.go) and its shim: *)
(* requests from the parent go to the shim, in the process itself or       *)
(* remote, and responses go back to the parent.  The way to a remote shim  *)
(* and back is asynchronous; the connection may break anywhere on it, and  *)
(* the server answers on the connection that is stored when it answers.    *)
(* The channel to the parent and its timeout are in SubtreeReporter.       *)
(*                                                                         *)
(* ServeBreaks and AnswerAside are broken variants of the definition that  *)
(* follows each of them, used to show that properties depend on it.        *)
(***************************************************************************)
EXTENDS ShimConnection

CONSTANT Requests

VARIABLES
  remote,  \* the shim is remote
  at,      \* where a request, or its response, is
  conn,    \* the connection to the shim it was written to
  back     \* the connection its response was written to

vars == <<shimVars, remote, at, conn, back>>

Places == {"new", "writing", "sent", "served", "answered", "sent to parent", "done"}

\* Types of all variables.
TypeOK ==
  /\ ShimTypeOK
  /\ remote \in BOOLEAN
  /\ at \in [Requests -> Places]
  /\ conn \in [Requests -> Dials \cup {Nil}]
  /\ back \in [Requests -> Dials \cup {Nil}]
  /\ \A r \in Requests : back[r] # Nil => at[r] = "answered"

Init ==
  /\ ShimInit
  /\ remote \in BOOLEAN
  /\ at = [r \in Requests |-> "new"]
  /\ conn = [r \in Requests |-> Nil]
  /\ back = [r \in Requests |-> Nil]

Moves(r, l) == at' = [at EXCEPT ![r] = l]

-----------------------------------------------------------------------------
sendToParent(r) == Moves(r, "sent to parent")

(* Do of a shim: a ControlReq has a response, with the error if there is no *)
(* task, no handler for its destination or the handler fails; a             *)
(* ControlMultiReq and a command that is not supported have none.           *)
Commands == {"ControlReq", "ControlMultiReq", "other"}
Responds(command) == command = "ControlReq"

\* With a local shim the response comes with the return of Do.
DoLocal(r, command) ==
  /\ IF Responds(command) THEN sendToParent(r) ELSE Moves(r, "done")
  /\ UNCHANGED conn

\* With a remote one, a goroutine writes to the connection of this moment.
DoRemote(r) == Moves(r, "writing") /\ conn' = [conn EXCEPT ![r] = client]

Dropped(r) == Moves(r, "done") /\ UNCHANGED conn

handleMessage(r, command) ==
  IF command = "other" THEN Dropped(r)
  ELSE IF remote THEN DoRemote(r) ELSE DoLocal(r, command)

\* For a selector that has this cluster or not.  What the cluster handler does
\* with the message is in ControlDispatch.
receiveMessageFromTunnel(r) ==
  /\ at[r] = "new"
  /\ Dropped(r) \/ \E command \in Commands : handleMessage(r, command)
  /\ UNCHANGED <<shimVars, remote, back>>

\* Do of the remote client: an error of the write is not looked at.
Write(r) ==
  /\ at[r] = "writing"
  /\ Moves(r, IF conn[r] \in alive THEN "sent" ELSE "done")
  /\ UNCHANGED <<shimVars, remote, conn, back>>

ServeBreaks(d, r) ==
  /\ pc[d] = "reading" /\ reading[d] = conn[r] /\ at[r] = "sent"
  /\ \/ Moves(r, "served") /\ Goto(d, "serving") /\ UNCHANGED reading
     \/ Moves(r, "done") /\ Goto(d, "false") /\ reading' = [reading EXCEPT ![d] = Nil]
  /\ UNCHANGED <<ccclient, alive, client, isConnected, reporters, raced, drops, remote, conn, back>>

\* handleReadMessage, in the goroutine that reads: Do, and the response if any.
Serve(d, r) ==
  /\ pc[d] = "reading" /\ reading[d] = conn[r] /\ at[r] = "sent"
  /\ \/ Moves(r, "served") /\ Goto(d, "serving") /\ UNCHANGED reading
     \/ Moves(r, "done") /\ Goto(d, "read") /\ reading' = [reading EXCEPT ![d] = Nil]
  /\ UNCHANGED <<ccclient, alive, client, isConnected, reporters, raced, drops, remote, conn, back>>

AnswerAside(d, r) ==
  /\ at[r] = "served" /\ ccclient # Nil
  /\ \/ /\ pc[d] = "serving" /\ reading[d] = conn[r]
        /\ Goto(d, "read")
        /\ reading' = [reading EXCEPT ![d] = Nil]
        /\ UNCHANGED <<at, back>>
     \/ /\ \A e \in Dials : pc[e] # "serving"
        /\ Moves(r, "answered")
        /\ back' = [back EXCEPT ![r] = ccclient]
        /\ UNCHANGED <<pc, reading>>
  /\ UNCHANGED <<ccclient, alive, client, isConnected, reporters, raced, drops, remote, conn>>

Answer(d, r) ==
  /\ pc[d] = "serving" /\ at[r] = "served" /\ reading[d] = conn[r] /\ ccclient # Nil
  /\ Goto(d, "read")
  /\ reading' = [reading EXCEPT ![d] = Nil]
  /\ IF ccclient \in alive THEN /\ Moves(r, "answered")
                                /\ back' = [back EXCEPT ![r] = ccclient]
                           ELSE Moves(r, "done") /\ UNCHANGED back
  /\ UNCHANGED <<ccclient, alive, client, isConnected, reporters, raced, drops, remote, conn>>

\* handleReceiveMessage of the client, and handleRespFromShimClient.
Return(r) ==
  /\ at[r] = "answered" /\ client = back[r] /\ client \in alive
  /\ sendToParent(r)
  /\ back' = [back EXCEPT ![r] = Nil]
  /\ UNCHANGED <<shimVars, remote, conn>>

\* What was under way on a connection that no longer works.
Lost(r) ==
  /\ \/ at[r] \in {"sent", "served"} /\ conn[r] \notin alive /\ \A d \in Dials : pc[d] # "serving"
     \/ at[r] = "answered" /\ back[r] \notin alive
  /\ Moves(r, "done")
  /\ back' = [back EXCEPT ![r] = Nil]
  /\ UNCHANGED <<shimVars, remote, conn>>

-----------------------------------------------------------------------------
InUse ==
  {conn[r] : r \in {q \in Requests : at[q] \in {"writing", "sent", "served"}}}
    \cup {back[r] : r \in Requests}

Connecting ==
  /\ remote
  /\ \/ \E d \in Dials \ InUse : Dial(d)
     \/ ServerStep \/ Consume \/ ClientFails
     \/ \E d \in Dials : Panics(d)
  /\ UNCHANGED <<remote, at, conn, back>>

Dropping == (\E d \in Dials : Drop(d)) /\ UNCHANGED <<remote, at, conn, back>>

Requesting ==
  \E r \in Requests :
    \/ Write(r) \/ Return(r) \/ Lost(r)
    \/ \E d \in Dials : Serve(d, r) \/ Answer(d, r)

Next == Connecting \/ Dropping \/ Requesting \/ \E r \in Requests : receiveMessageFromTunnel(r)

Spec == Init /\ [][Next]_vars

(* Goroutines of shim and client run, and the client dials.  All of it ends *)
(* when no connection breaks, so that one condition is enough.              *)
FairSpec == Spec /\ WF_vars(Connecting \/ Requesting)

-----------------------------------------------------------------------------
(* A response goes back on the connection its request came on, although the *)
(* server writes it to whatever connection is stored: the goroutine that    *)
(* would clear the connection is the one that answers.                      *)
ResponsesReturn == \A r \in Requests : back[r] \in alive /\ ~raced => back[r] = conn[r]

(* Why it holds: goroutines that are in balance answer where they read, and *)
(* when they are not, balance comes back only with all connections lost.    *)
AnswersReturn == Balanced => \A r \in Requests : back[r] \in alive => back[r] = conn[r]

(* A connection that works is kept until it breaks, although the end of     *)
(* connected closes whatever connection is stored by then, which may be a   *)
(* later one, and a goroutine that finds none stored ends the process with  *)
(* all of them: both are left to dials that overlapped.                     *)
WorkingKept == [][raced \/ alive \subseteq alive' \/ drops' = drops + 1]_vars

(* A controller that is not connected, because the connection broke or the  *)
(* shim ended, is connected again: the server clears the client to wait for *)
(* the next.                                                                *)
NextIsTaken == (remote /\ client = Nil) ~> (client # Nil)

(* In the end the shim has the connection the client has, and its reporters *)
(* run, in whatever order connections were lost and announced; two dials    *)
(* that overlapped may leave it otherwise.                                  *)
ReportersFollow == <>[](~remote \/ raced \/ (client # Nil /\ ccclient = client /\ reporters))
=============================================================================

--------------------------- MODULE ShimConnection ---------------------------
(***************************************************************************)
(* A shim server and its one cluster controller (pkg/clustershim).  The    *)
(* remote shim client of the cluster controller dials until it is taken.   *)
(* The server looks for a connected controller in the handler of a dial    *)
(* and stores the new one later; a goroutine per dial then reads, always   *)
(* from the connection that is stored, and clears it when the read fails.  *)
(* The server tells the shim of both through isConnected, a channel of     *)
(* capacity one.  The shim for k8s starts and stops its reporters; the     *)
(* shim for k3s does not read the channel.                                 *)
(*                                                                         *)
(* A dial is one of a few slots that are used again.  A dial that is       *)
(* refused changes nothing and is left out.                                *)
(*                                                                         *)
(* DialUnchecked, TellOrDrop and ClearKeeps are broken variants of the     *)
(* definition that follows each of them, used to show that properties      *)
(* depend on it.                                                           *)
(***************************************************************************)
EXTENDS Naturals, Sequences

CONSTANTS
  Dials,     \* slots of dials
  Nil,
  Consumer,  \* the shim reads isConnected
  MaxDrops   \* bound: connections that break

ASSUME ShimAssumption == Nil \notin Dials /\ Consumer \in BOOLEAN /\ MaxDrops \in Nat

VARIABLES
  pc,           \* where the goroutine of a dial is at the server
  ccclient,     \* the connection stored in the server, or Nil
  reading,      \* the connection whose ReadMessage the goroutine is in
  alive,        \* connections that work
  client,       \* the connection of the shim client, Nil while it reconnects
  isConnected,  \* the channel
  reporters,    \* the reporters of the shim run
  raced,        \* a history variable: two dials were between check and store at once,
                \* and the server has not been without a dial since
  drops

shimVars == <<pc, ccclient, reading, alive, client, isConnected, reporters, raced, drops>>

ShimTypeOK ==
  /\ pc \in [Dials -> {"none", "checked", "upgraded", "true", "read", "reading", "serving", "false", "clear"}]
  /\ ccclient \in Dials \cup {Nil}
  /\ reading \in [Dials -> Dials \cup {Nil}]
  /\ \A d \in Dials : reading[d] # Nil <=> pc[d] \in {"reading", "serving"}
  /\ alive \in SUBSET Dials
  /\ client \in Dials \cup {Nil}
  /\ isConnected \in Seq(BOOLEAN) /\ Len(isConnected) <= 1
  /\ reporters \in BOOLEAN /\ raced \in BOOLEAN
  /\ drops \in 0..MaxDrops

ShimInit ==
  /\ pc = [d \in Dials |-> "none"]
  /\ ccclient = Nil
  /\ reading = [d \in Dials |-> Nil]
  /\ alive = {} /\ client = Nil
  /\ isConnected = <<>>
  /\ reporters = FALSE /\ raced = FALSE
  /\ drops = 0

Pending == {d \in Dials : pc[d] \in {"checked", "upgraded"}}
Goto(d, l) == pc' = [pc EXCEPT ![d] = l]

-----------------------------------------------------------------------------
(* The server *)

DialUnchecked(d) ==
  /\ client = Nil /\ alive \cap Pending = {}
  /\ pc[d] = "none" /\ \A e \in Dials : reading[e] # d
  /\ Goto(d, "checked")
  /\ alive' = alive \cup {d}
  /\ raced' = (Pending # {} \/ (raced /\ \E e \in Dials : pc[e] # "none"))
  /\ UNCHANGED <<ccclient, reading, client, isConnected, reporters, drops>>

\* connect of the client, and the check at the beginning of do.  The client
\* waits for the answer before it dials again.
Dial(d) ==
  /\ client = Nil /\ alive \cap Pending = {}
  /\ pc[d] = "none" /\ \A e \in Dials : reading[e] # d
  /\ ccclient = Nil
  /\ Goto(d, "checked")
  /\ alive' = alive \cup {d}
  /\ raced' = (Pending # {} \/ (raced /\ \E e \in Dials : pc[e] # "none"))
  /\ UNCHANGED <<ccclient, reading, client, isConnected, reporters, drops>>

\* With the answer the client is connected, before the server has stored it.
Upgrade(d) ==
  /\ pc[d] = "checked"
  /\ \/ Goto(d, "upgraded") /\ client' = IF d \in alive THEN d ELSE client
     \/ d \notin alive /\ Goto(d, "none") /\ UNCHANGED client
  /\ UNCHANGED <<ccclient, reading, alive, isConnected, reporters, raced, drops>>

Store(d) ==
  /\ pc[d] = "upgraded"
  /\ ccclient' = d
  /\ Goto(d, "true")
  /\ UNCHANGED <<reading, alive, client, isConnected, reporters, raced, drops>>

TellOrDrop(d) ==
  /\ pc[d] \in {"true", "false"}
  /\ isConnected' = IF isConnected = <<>> THEN <<pc[d] = "true">> ELSE isConnected
  /\ Goto(d, IF pc[d] = "true" THEN "read" ELSE "clear")
  /\ UNCHANGED <<ccclient, reading, alive, client, reporters, raced, drops>>

\* connected: both sends wait for room in the channel.
Tell(d) ==
  /\ pc[d] \in {"true", "false"} /\ isConnected = <<>>
  /\ isConnected' = <<pc[d] = "true">>
  /\ Goto(d, IF pc[d] = "true" THEN "read" ELSE "clear")
  /\ UNCHANGED <<ccclient, reading, alive, client, reporters, raced, drops>>

\* readMessage calls ReadMessage of the connection that is stored now.
Read(d) ==
  /\ pc[d] = "read" /\ ccclient # Nil
  /\ reading' = [reading EXCEPT ![d] = ccclient]
  /\ Goto(d, "reading")
  /\ UNCHANGED <<ccclient, alive, client, isConnected, reporters, raced, drops>>

ReadFails(d) ==
  /\ pc[d] = "reading" /\ reading[d] \notin alive /\ ccclient # Nil
  /\ reading' = [reading EXCEPT ![d] = Nil]
  /\ Goto(d, "false")
  /\ UNCHANGED <<ccclient, alive, client, isConnected, reporters, raced, drops>>

ClearKeeps(d) ==
  /\ pc[d] = "clear" /\ ccclient # Nil
  /\ alive' = alive \ {ccclient}
  /\ Goto(d, "none")
  /\ UNCHANGED <<ccclient, reading, client, isConnected, reporters, raced, drops>>

\* The end of connected closes the connection that is stored now.
Clear(d) ==
  /\ pc[d] = "clear" /\ ccclient # Nil
  /\ alive' = alive \ {ccclient}
  /\ ccclient' = Nil
  /\ Goto(d, "none")
  /\ UNCHANGED <<reading, client, isConnected, reporters, raced, drops>>

(* The goroutine uses ccclient when it is nil: the process ends, with its   *)
(* connections, and is started again.                                       *)
Panics(d) ==
  /\ ccclient = Nil
  /\ \/ pc[d] \in {"read", "serving", "clear"}
     \/ pc[d] = "reading" /\ reading[d] \notin alive
  /\ pc' = [e \in Dials |-> "none"]
  /\ reading' = [e \in Dials |-> Nil]
  /\ alive' = {} /\ isConnected' = <<>> /\ reporters' = FALSE /\ raced' = FALSE
  /\ UNCHANGED <<ccclient, client, drops>>

-----------------------------------------------------------------------------
(* The shim and the shim client *)

\* The loop of the shim: the reporters start, or stop.
Consume ==
  /\ Consumer /\ isConnected # <<>>
  /\ reporters' = Head(isConnected)
  /\ isConnected' = <<>>
  /\ UNCHANGED <<pc, ccclient, reading, alive, client, raced, drops>>

\* handleReceiveMessage of the client ends, and reconnect begins.
ClientFails ==
  /\ client # Nil /\ client \notin alive
  /\ client' = Nil
  /\ UNCHANGED <<pc, ccclient, reading, alive, isConnected, reporters, raced, drops>>

\* A connection breaks: the network, or the process of the client.
Drop(d) ==
  /\ d \in alive /\ drops < MaxDrops
  /\ alive' = alive \ {d}
  /\ drops' = drops + 1
  /\ UNCHANGED <<pc, ccclient, reading, client, isConnected, reporters, raced>>

ServerStep ==
  \E d \in Dials : Upgrade(d) \/ Store(d) \/ Tell(d) \/ Read(d) \/ ReadFails(d) \/ Clear(d)

-----------------------------------------------------------------------------
(* One controller at a time, as the message of do has it: as long as no two *)
(* dials overlap between check and store, there is one goroutine past do,   *)
(* the connection stored is its own, and it does not find Nil.              *)
OneController ==
  ~raced => \A d \in Dials : pc[d] \notin {"none", "checked", "upgraded"} =>
              /\ ccclient = d
              /\ \A e \in Dials \ {d} : pc[e] = "none"
              /\ reading[d] \in {d, Nil}

(* Why it holds: a connection is checked for while there is none, so that   *)
(* dials that do not overlap are alone from check to clear.                 *)
Alone == ~raced => \A d, e \in Dials : pc[d] # "none" /\ pc[e] # "none" => d = e

\* Goroutines past do.
Past == {d \in Dials : pc[d] \notin {"none", "checked", "upgraded"}}

(* Every goroutine past do has stored its connection and clears one.        *)
(* Either they are in balance, or a connection was stored over another.     *)
(* Then there is a goroutine too many until one of them uses Nil.           *)
Balanced == /\ ccclient = Nil => Past = {}
            /\ ccclient # Nil => Past = {ccclient} /\ reading[ccclient] \in {ccclient, Nil}

Surplus == Past # {} /\ (ccclient # Nil => \E d, e \in Past : d # e)

(* A goroutine that is about to clear the client found its own connection   *)
(* broken.                                                                  *)
EndsBroken == ~raced => \A d \in Dials : pc[d] \in {"false", "clear"} => d \notin alive

ShimInv == Alone /\ (Balanced \/ Surplus) /\ (raced \/ Balanced)
=============================================================================

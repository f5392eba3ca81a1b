-------------------------- MODULE SubtreeReporter --------------------------
(***************************************************************************)
(* The timers of the edge handler that report the subtree to the parent    *)
(* (edgehandler.go).  Every connection starts one in a goroutine; every    *)
(* lost connection puts one token into stopReportSubtree, a channel of     *)
(* capacity one, for any timer to take.  Connections come and go faster    *)
(* than timers start or look at the channel, so that several live at once. *)
(*                                                                         *)
(* Timers have no identity: goroutines are counted by where they are.      *)
(* ConnectUnhooked and StopTimerBreak are broken variants of the definition *)
(* that follows each of them, used to show that properties depend on it.   *)
(***************************************************************************)
EXTENDS Naturals

CONSTANTS
  MaxLosses,  \* bound: connections lost
  QueueCap    \* capacity of sendToParentChan

ASSUME ReporterAssumption == MaxLosses \in Nat /\ QueueCap \in Nat

VARIABLES
  tunnel,     \* the goroutine of the edge tunnel: "dialing", "reading", "stopping"
  hooks,      \* afterConnect goroutines that have not started their timer yet
  reporting,  \* timers in reportSubTree
  waiting,    \* timers in their select
  stop,       \* tokens in stopReportSubtree
  queue,      \* messages in sendToParentChan
  losses

timers == hooks + reporting + waiting
reporterVars == <<tunnel, hooks, reporting, waiting, stop, queue, losses>>

\* Types, and the capacities of the two channels.
ReporterTypeOK ==
  /\ tunnel \in {"dialing", "reading", "stopping"}
  /\ hooks \in Nat /\ reporting \in Nat /\ waiting \in Nat
  /\ stop \in 0..1
  /\ queue \in 0..QueueCap
  /\ losses \in 0..MaxLosses

ReporterInit ==
  /\ tunnel = "dialing"
  /\ hooks = 0 /\ reporting = 0 /\ waiting = 0
  /\ stop = 0
  /\ queue = 0
  /\ losses = 0

-----------------------------------------------------------------------------
ConnectUnhooked ==
  /\ tunnel = "dialing"
  /\ tunnel' = "reading"
  /\ hooks' = IF losses = 0 THEN hooks + 1 ELSE hooks
  /\ UNCHANGED <<reporting, waiting, stop, queue, losses>>

\* edgeTunnel.connect succeeds and starts the hook as a goroutine.
Connect ==
  /\ tunnel = "dialing"
  /\ tunnel' = "reading"
  /\ hooks' = hooks + 1
  /\ UNCHANGED <<reporting, waiting, stop, queue, losses>>

\* handleReceiveMessage leaves its loop.
Lose ==
  /\ tunnel = "reading"
  /\ losses < MaxLosses
  /\ losses' = losses + 1
  /\ tunnel' = "stopping"
  /\ UNCHANGED <<hooks, reporting, waiting, stop, queue>>

\* The hook of a lost connection: the send waits until the last token is taken.
AfterDisconnect ==
  /\ tunnel = "stopping"
  /\ stop = 0
  /\ stop' = 1
  /\ tunnel' = "dialing"
  /\ UNCHANGED <<hooks, reporting, waiting, queue, losses>>

\* reportSubTreeTimer begins, with a first report.
StartTimer ==
  /\ hooks > 0
  /\ hooks' = hooks - 1
  /\ reporting' = reporting + 1
  /\ UNCHANGED <<tunnel, waiting, stop, queue, losses>>

\* sendToParent puts the report into the channel, or gives up after a second.
Report ==
  /\ reporting > 0
  /\ queue' = IF queue < QueueCap THEN queue + 1 ELSE queue
  /\ reporting' = reporting - 1
  /\ waiting' = waiting + 1
  /\ UNCHANGED <<tunnel, hooks, stop, losses>>

StopTimerBreak ==
  /\ waiting > 0
  /\ stop > 0
  /\ stop' = stop - 1
  /\ UNCHANGED <<tunnel, hooks, reporting, waiting, queue, losses>>

\* The two cases of the select.
StopTimer ==
  /\ waiting > 0
  /\ stop > 0
  /\ stop' = stop - 1
  /\ waiting' = waiting - 1
  /\ UNCHANGED <<tunnel, hooks, reporting, queue, losses>>

Tick ==
  /\ waiting > 0
  /\ waiting' = waiting - 1
  /\ reporting' = reporting + 1
  /\ UNCHANGED <<tunnel, hooks, stop, queue, losses>>

\* sendMessageToParent takes a message, whether or not there is a parent.
SendToParent ==
  /\ queue > 0
  /\ queue' = queue - 1
  /\ UNCHANGED <<tunnel, hooks, reporting, waiting, stop, losses>>

ReporterNext ==
  \/ Connect \/ Lose \/ AfterDisconnect
  \/ StartTimer \/ Report \/ StopTimer \/ Tick
  \/ SendToParent

ReporterSpec == ReporterInit /\ [][ReporterNext]_reporterVars

(* Goroutines are scheduled and the ticker fires.  A select with both cases *)
(* ready takes either of them, so that a token is not left in the channel   *)
(* for ever by timers that come back to their select again and again.       *)
FairReporter ==
  /\ ReporterSpec
  /\ WF_reporterVars(AfterDisconnect) /\ WF_reporterVars(StartTimer) /\ WF_reporterVars(Report)
  /\ WF_reporterVars(Tick) /\ WF_reporterVars(SendToParent)
  /\ SF_reporterVars(StopTimer)

-----------------------------------------------------------------------------
(* One timer for the connection and one for every token: a token stops one  *)
(* timer, whichever takes it, so that no timer outlives its connection by   *)
(* more than a token to come and no connection is left without.             *)
NoTimerLeak == timers = stop + (IF tunnel = "dialing" THEN 0 ELSE 1)

(* afterDisconnect does not block the tunnel for ever: the token in its way *)
(* is taken, and the tunnel gets to reconnect.                              *)
DisconnectReturns == tunnel = "stopping" ~> tunnel = "dialing"

(* A connection that lasts is reported on by exactly one timer in the end,  *)
(* again and again.                                                         *)
Reported ==
  <>[](tunnel = "reading") => /\ <>[](timers = 1)
                              /\ []<><<Report>>_reporterVars
=============================================================================

-------------------------- MODULE ControllerTunnel --------------------------
(***************************************************************************)
(* The tunnel of the controller manager to the root cluster controller     *)
(* (controller_tunnel.go): a goroutine that reads from the connection and  *)
(* makes a new one when it ends, and a goroutine that sends what it finds  *)
(* in sendChan.  They share the connection, a health flag and a condition  *)
(* variable on which the sender waits for the reader.                      *)
(*                                                                         *)
(* Which address a dial goes to is the matter of LeaderRedirect.           *)
(*                                                                         *)
(* PublishOver, LockForDialSkipped, SignalLost and ResendLate are broken   *)
(* variants of the definition that follows each of them, used to show that *)
(* properties depend on it.                                                *)
(***************************************************************************)
EXTENDS Naturals, Sequences

CONSTANTS
  MaxMsgs,     \* bound: messages published
  BufferSize,  \* ControllerSendChanBufferSize
  MaxBreaks,   \* bound: connections that end
  MaxStuck     \* bound: connections on which only the writes fail

ASSUME TunnelAssumption ==
  MaxMsgs \in Nat /\ BufferSize \in Nat \ {0} /\ MaxBreaks \in Nat /\ MaxStuck \in Nat

Msgs == 1..MaxMsgs

VARIABLES
  conn,      \* the connection of e.wsclient: "up", "stuck" (writes fail) or "ended"
  health,    \* connectionHealth
  lock,      \* holder of connectionHealthCond.L: "free", "reader" or "sender"
  reader,    \* where the goroutine of Start is
  sender,    \* where sendFromChan is
  client,    \* the wsclient a Send has picked up: "current" or "old"
  hand,      \* the message of the sender, if it has one
  sendChan,
  sent,      \* messages written with success
  count,     \* messages published
  breaks,
  stucks

linkVars == <<conn, breaks, stucks>>
dataVars == <<hand, sendChan, sent, count>>
vars == <<health, lock, reader, sender, client, linkVars, dataVars>>

\* The sender holds the lock while it looks at the flag and while it sends again.
InLock == {"check", "unhealthy", "resend"}

\* Types of the state of the two goroutines.
TypeOK ==
  /\ conn \in {"up", "stuck", "ended"}
  /\ health \in BOOLEAN
  /\ lock \in {"free", "reader", "sender"}
  /\ reader \in {"reading", "lock", "dial", "signalRetry", "signalUp"}
  /\ sender \in {"take", "write", "failed", "lock", "waiting", "woken"} \cup InLock
  /\ client \in {"current", "old"}
  /\ hand \in Seq(Msgs) /\ Len(hand) = IF sender = "take" THEN 0 ELSE 1
  /\ sendChan \in Seq(Msgs) /\ Len(sendChan) <= BufferSize
  /\ sent \in Seq(Msgs)
  /\ count \in 0..MaxMsgs
  /\ breaks \in 0..MaxBreaks
  /\ stucks \in 0..MaxStuck

\* Start after its first connect.
Init ==
  /\ conn = "up"
  /\ health = TRUE
  /\ lock = "free"
  /\ reader = "reading"
  /\ sender = "take"
  /\ client = "current"
  /\ hand = <<>>
  /\ sendChan = <<>>
  /\ sent = <<>>
  /\ count = 0
  /\ breaks = 0
  /\ stucks = 0

-----------------------------------------------------------------------------
PublishOver ==
  /\ count < MaxMsgs
  /\ Len(sendChan) <= BufferSize
  /\ count' = count + 1
  /\ sendChan' = Append(sendChan, count + 1)
  /\ UNCHANGED <<health, lock, reader, sender, client, linkVars, hand, sent>>

\* A controller publishes a message; a full channel makes it wait.
Publish ==
  /\ count < MaxMsgs
  /\ Len(sendChan) < BufferSize
  /\ count' = count + 1
  /\ sendChan' = Append(sendChan, count + 1)
  /\ UNCHANGED <<health, lock, reader, sender, client, linkVars, hand, sent>>

\* The connection ends: reads and writes fail from now on.
Break ==
  /\ conn # "ended"
  /\ breaks < MaxBreaks
  /\ breaks' = breaks + 1
  /\ conn' = "ended"
  /\ UNCHANGED <<health, lock, reader, sender, client, stucks, dataVars>>

\* A write runs into WriteTimeout, and every later one fails; reads go on.
Stuck ==
  /\ conn = "up"
  /\ stucks < MaxStuck
  /\ stucks' = stucks + 1
  /\ conn' = "stuck"
  /\ UNCHANGED <<health, lock, reader, sender, client, breaks, dataVars>>

-----------------------------------------------------------------------------
(* The reader.                                                              *)

\* handleReceiveMessage returns, and the connection is closed.
ReadError ==
  /\ reader = "reading"
  /\ conn = "ended"
  /\ reader' = "lock"
  /\ UNCHANGED <<health, lock, sender, client, linkVars, dataVars>>

LockForDialSkipped ==
  /\ reader = "lock"
  /\ health' = FALSE
  /\ reader' = "dial"
  /\ UNCHANGED <<lock, sender, client, linkVars, dataVars>>

\* reconnect, from the top of its loop.
LockForDial ==
  /\ reader = "lock"
  /\ lock = "free"
  /\ lock' = "reader"
  /\ health' = FALSE
  /\ reader' = "dial"
  /\ UNCHANGED <<sender, client, linkVars, dataVars>>

DialFails ==
  /\ reader = "dial"
  /\ lock' = "free"
  /\ reader' = "signalRetry"
  /\ UNCHANGED <<health, sender, client, linkVars, dataVars>>

\* e.wsclient is a new one: a Send under way is left with the old one.
DialSucceeds ==
  /\ reader = "dial"
  /\ conn' = "up"
  /\ client' = IF sender = "write" THEN "old" ELSE client
  /\ health' = TRUE
  /\ lock' = "free"
  /\ reader' = "signalUp"
  /\ UNCHANGED <<sender, breaks, stucks, dataVars>>

SignalLost ==
  /\ reader \in {"signalRetry", "signalUp"}
  /\ sender' = IF sender = "waiting" /\ reader = "signalRetry" THEN "woken" ELSE sender
  /\ reader' = IF reader = "signalUp" THEN "reading" ELSE "lock"
  /\ UNCHANGED <<health, lock, client, linkVars, dataVars>>

\* connectionHealthCond.Signal, after the lock is released.
Signal ==
  /\ reader \in {"signalRetry", "signalUp"}
  /\ sender' = IF sender = "waiting" THEN "woken" ELSE sender
  /\ reader' = IF reader = "signalUp" THEN "reading" ELSE "lock"
  /\ UNCHANGED <<health, lock, client, linkVars, dataVars>>

-----------------------------------------------------------------------------
(* The sender.                                                              *)

\* It takes a message and Send picks up e.wsclient.
Take ==
  /\ sender = "take"
  /\ sendChan # <<>>
  /\ hand' = <<Head(sendChan)>>
  /\ sendChan' = Tail(sendChan)
  /\ client' = "current"
  /\ sender' = "write"
  /\ UNCHANGED <<health, lock, reader, linkVars, sent, count>>

Sent ==
  /\ sent' = sent \o hand
  /\ hand' = <<>>
  /\ sender' = "take"
  /\ UNCHANGED <<sendChan, count>>

\* WriteMessage.
Write ==
  /\ sender = "write"
  /\ \/ conn = "up" /\ client = "current" /\ Sent
     \/ (conn # "up" \/ client = "old") /\ sender' = "failed" /\ UNCHANGED dataVars
  /\ UNCHANGED <<health, lock, reader, client, linkVars>>

\* The flag is cleared without the lock.
MarkFailed ==
  /\ sender = "failed"
  /\ health' = FALSE
  /\ sender' = "lock"
  /\ UNCHANGED <<lock, reader, client, linkVars, dataVars>>

\* recoverAndReSend, and Wait on its return.
LockForCheck ==
  /\ sender \in {"lock", "woken"}
  /\ lock = "free"
  /\ lock' = "sender"
  /\ sender' = "check"
  /\ UNCHANGED <<health, reader, client, linkVars, dataVars>>

\* The loop looks at the flag ...
CheckHealth ==
  /\ sender = "check"
  /\ sender' = IF health THEN "resend" ELSE "unhealthy"
  /\ UNCHANGED <<health, lock, reader, client, linkVars, dataVars>>

\* ... and at the channel: if that is full, the message is thrown away.
Throw ==
  /\ sender = "unhealthy"
  /\ Len(sendChan) = BufferSize
  /\ hand' = <<>>
  /\ lock' = "free"
  /\ sender' = "take"
  /\ UNCHANGED <<health, reader, client, linkVars, sendChan, sent, count>>

\* Wait releases the lock and sleeps.
Wait ==
  /\ sender = "unhealthy"
  /\ Len(sendChan) < BufferSize
  /\ lock' = "free"
  /\ sender' = "waiting"
  /\ UNCHANGED <<health, reader, client, linkVars, dataVars>>

ResendLate ==
  /\ sender = "resend"
  /\ lock' = "free"
  /\ \/ conn = "up" /\ Sent /\ UNCHANGED health
     \/ /\ conn # "up"
        /\ sendChan # <<>>
        /\ sendChan' = Append(Tail(sendChan), hand[1])
        /\ hand' = <<Head(sendChan)>>
        /\ sender' = "lock"
        /\ health' = FALSE
        /\ UNCHANGED <<sent, count>>
  /\ UNCHANGED <<reader, client, linkVars>>

\* With the lock, so that e.wsclient is the current one.
Resend ==
  /\ sender = "resend"
  /\ lock' = "free"
  /\ \/ conn = "up" /\ Sent /\ UNCHANGED health
     \/ conn # "up" /\ sender' = "lock" /\ health' = FALSE /\ UNCHANGED dataVars
  /\ UNCHANGED <<reader, client, linkVars>>

-----------------------------------------------------------------------------
ReaderStep == ReadError \/ LockForDial \/ DialFails \/ DialSucceeds \/ Signal

SenderStep ==
  \/ Take \/ Write \/ MarkFailed \/ LockForCheck \/ CheckHealth \/ Throw \/ Wait \/ Resend

Next == Publish \/ Break \/ Stuck \/ ReaderStep \/ SenderStep

Spec == Init /\ [][Next]_vars

(* The goroutines are scheduled; a lock that becomes free again and again   *)
(* is given to the one that waits for it (sync.Mutex is fair to waiters);   *)
(* a dial that is repeated does not fail for ever.                          *)
FairSpec ==
  /\ Spec
  /\ WF_vars(ReaderStep) /\ WF_vars(SenderStep)
  /\ SF_vars(LockForDial) /\ SF_vars(LockForCheck) /\ SF_vars(DialSucceeds)

-----------------------------------------------------------------------------
(* A sender that sleeps on the condition variable while the flag is set has *)
(* a Signal to come: reconnect sets the flag with the lock and signals      *)
(* after it, so the wake-up cannot fall between the check and the Wait.     *)
NoLostWakeup == sender = "waiting" /\ health => reader = "signalUp"

\* Why it holds: who holds the lock, and what the flag is meanwhile.
LockHeld ==
  /\ lock = "sender" <=> sender \in InLock
  /\ lock = "reader" <=> reader = "dial"
  /\ sender = "unhealthy" => ~health

(* sendFromChan and recoverAndReSend keep the promise of OrderedQueue, the  *)
(* message in hand being the first of the queue: across failures and        *)
(* retries no message overtakes another, is written twice, or is lost       *)
(* unless the channel is full behind it.                                    *)
Queue == INSTANCE OrderedQueue WITH
           Msg <- Msgs, Limit <- BufferSize, queue <- hand \o sendChan, out <- sent

KeepsOrder == Queue!Spec

(* A sender that waits while the reader is about to connect (reconnect)     *)
(* gets rid of its message, unless only the writes fail on a connection: no *)
(* reader notices that.                                                     *)
ReconnectResumes ==
  [](conn # "stuck") => (sender = "waiting" /\ reader \in {"lock", "dial"} ~> sender = "take")
=============================================================================

---------------------------- MODULE TunnelProofs ----------------------------
(***************************************************************************)
(* Tunnels to the root.  The controller tunnel, for any number of messages *)
(* and failures: no wake-up is lost, and messages keep their order.  The   *)
(* replicas it looks for, for any number of them and of faults: only the   *)
(* leader serves.  The sessions of a child at the other end, for any       *)
(* number of dials: one reader, no ghost child, a route that only closes   *)
(* take, and a status that moves forward.                                  *)
(***************************************************************************)
EXTENDS ControllerTunnel, LeaderRedirect, ChildSession, SequenceTheorems, TLAPS

\* A leaf without a method of its own is left to SMT, and given time.
USE SMTT(30)

(* Every step keeps the types.                                              *)
LEMMA TypeStep == TypeOK /\ [Next]_vars => TypeOK'
<1> SUFFICES ASSUME TypeOK, [Next]_vars PROVE TypeOK'
  OBVIOUS
<1> USE TunnelAssumption DEF TypeOK, InLock
<1>1. CASE Publish
  <2>1. count + 1 \in Msgs /\ count + 1 \in 0..MaxMsgs
    BY <1>1 DEF Publish, Msgs
  <2>2. sendChan' \in Seq(Msgs) /\ Len(sendChan') <= BufferSize
    BY <1>1, <2>1 DEF Publish
  <2> QED
    BY <1>1, <2>1, <2>2 DEF Publish, linkVars
<1>2. CASE Break \/ Stuck
  <2>1. /\ UNCHANGED <<health, lock, reader, sender, client, hand, sendChan, sent, count>>
        /\ conn' \in {"up", "stuck", "ended"}
    BY <1>2, Zenon DEF Break, Stuck, dataVars
  <2>2. breaks' \in 0..MaxBreaks /\ stucks' \in 0..MaxStuck
    BY <1>2 DEF Break, Stuck
  <2> QED
    BY <2>1, <2>2, ZenonT(30)
<1>3. CASE ReaderStep
  BY <1>3, ZenonT(60) DEF ReaderStep, ReadError, LockForDial, DialFails, DialSucceeds, Signal,
              linkVars, dataVars
<1>4. CASE Take
  <2>1. Head(sendChan) \in Msgs /\ Tail(sendChan) \in Seq(Msgs)
        /\ Len(Tail(sendChan)) <= BufferSize
    BY <1>4 DEF Take
  <2>2. <<Head(sendChan)>> \in Seq(Msgs) /\ Len(<<Head(sendChan)>>) = 1
    BY <2>1
  <2> QED
    BY <1>4, <2>1, <2>2 DEF Take, linkVars
<1>5. ASSUME Sent PROVE /\ sent' \in Seq(Msgs) /\ hand' \in Seq(Msgs) /\ Len(hand') = 0
                        /\ sender' = "take" /\ sendChan' = sendChan /\ count' = count
  <2>1. sent \o hand \in Seq(Msgs)
    BY ConcatProperties
  <2> QED
    BY <1>5, <2>1 DEF Sent
<1>6. CASE Write
  BY <1>5, <1>6 DEF Write, linkVars, dataVars
<1>7. CASE Resend
  BY <1>5, <1>7, Zenon DEF Resend, linkVars, dataVars
<1>8. CASE Throw
  BY <1>8 DEF Throw, linkVars
<1>9. CASE MarkFailed \/ LockForCheck \/ CheckHealth \/ Wait
  BY <1>9, ZenonT(30) DEF MarkFailed, LockForCheck, CheckHealth, Wait, linkVars, dataVars
<1>10. CASE UNCHANGED vars
  BY <1>10 DEF vars, linkVars, dataVars
<1> QED
  BY <1>1, <1>2, <1>3, <1>4, <1>6, <1>7, <1>8, <1>9, <1>10 DEF Next, SenderStep

(* The state of the two goroutines is well typed.                           *)
THEOREM TypeCorrect == Spec => []TypeOK
<1>1. Init => TypeOK
  BY TunnelAssumption, EmptySeq DEF Init, TypeOK
<1> QED
  BY <1>1, TypeStep, PTL DEF Spec

(* Every step keeps the lock with its holder, and every sleeper with a      *)
(* signal to come.                                                          *)
LEMMA WakeupStep ==
  TypeOK /\ LockHeld /\ NoLostWakeup /\ [Next]_vars => LockHeld' /\ NoLostWakeup'
<1> SUFFICES ASSUME TypeOK, LockHeld, NoLostWakeup, [Next]_vars
             PROVE  LockHeld' /\ NoLostWakeup'
  OBVIOUS
<1> USE DEF LockHeld, NoLostWakeup, InLock
<1>1. CASE Publish \/ Break \/ Stuck
  BY <1>1 DEF Publish, Break, Stuck
<1>2. CASE ReadError \/ LockForDial \/ DialFails
  BY <1>2 DEF ReadError, LockForDial, DialFails
<1>3. CASE DialSucceeds
  BY <1>3 DEF DialSucceeds
<1>4. CASE Signal
  BY <1>4 DEF Signal
<1>5. CASE Take \/ Write \/ MarkFailed
  BY <1>5 DEF Take, Write, Sent, MarkFailed
<1>6. CASE LockForCheck \/ CheckHealth
  BY <1>6 DEF LockForCheck, CheckHealth
<1>7. CASE Throw \/ Wait
  BY <1>7 DEF Throw, Wait
<1>8. CASE Resend
  BY <1>8 DEF Resend, Sent
<1>9. CASE UNCHANGED vars
  BY <1>9 DEF vars
<1> QED
  BY <1>1, <1>2, <1>3, <1>4, <1>5, <1>6, <1>7, <1>8, <1>9 DEF Next, ReaderStep, SenderStep

(* No wake-up of recoverAndReSend is lost.                                  *)
THEOREM WakeupKept == Spec => []NoLostWakeup
<1>1. Init => LockHeld /\ NoLostWakeup
  BY DEF Init, LockHeld, NoLostWakeup, InLock
<1> QED
  BY <1>1, TypeCorrect, WakeupStep, PTL DEF Spec
-----------------------------------------------------------------------------
(* A message put in front of a queue is its first element.                  *)
LEMMA FirstOfQueue ==
  ASSUME NEW h \in Seq(Msgs), NEW s \in Seq(Msgs), Len(h) = 1
  PROVE  /\ h \o s # <<>>
         /\ Len(h \o s) = Len(s) + 1
         /\ Tail(h \o s) = s
         /\ Head(h \o s) = h[1]
         /\ h = <<h[1]>>
<1>0. /\ h \o s \in Seq(Msgs)
      /\ Len(h \o s) = Len(h) + Len(s)
      /\ \A i \in 1 .. Len(h) + Len(s) :
           (h \o s)[i] = IF i <= Len(h) THEN h[i] ELSE s[i - Len(h)]
  BY ConcatProperties, Zenon
<1>1. h \o s \in Seq(Msgs) /\ Len(h \o s) = Len(s) + 1 /\ Len(s) \in Nat
  BY <1>0, LenProperties
<1>2. \A i \in 1..Len(s) : (h \o s)[i + 1] = s[i]
  <2> SUFFICES ASSUME NEW i \in 1..Len(s) PROVE (h \o s)[i + 1] = s[i]
    BY Zenon
  <2>1. i + 1 \in 1 .. Len(h) + Len(s) /\ ~(i + 1 <= Len(h)) /\ (i + 1) - Len(h) = i
    BY <1>1
  <2> QED
    BY <1>0, <2>1
<1>3. Tail(h \o s) \in Seq(Msgs) /\ Len(Tail(h \o s)) = Len(s)
  BY <1>1
<1>4. \A i \in 1..Len(s) : Tail(h \o s)[i] = s[i]
  BY <1>1, <1>2
<1>5. Tail(h \o s) = s
  BY <1>3, <1>4, SeqEqual
<1>6. Head(h \o s) = h[1]
  BY <1>1, ConcatProperties
<1>7. h = <<h[1]>>
  BY SeqEqual
<1> QED
  BY <1>1, <1>5, <1>6, <1>7

(* Nothing in front of a queue leaves it as it is.                          *)
LEMMA NothingInHand ==
  ASSUME NEW h \in Seq(Msgs), NEW s \in Seq(Msgs), Len(h) = 0
  PROVE  h = <<>> /\ h \o s = s
BY EmptySeq, ConcatEmptySeq

(* A message put behind the channel is behind the whole queue.              *)
LEMMA AppendBehind ==
  ASSUME NEW h \in Seq(Msgs), NEW s \in Seq(Msgs), NEW m \in Msgs
  PROVE  h \o Append(s, m) = Append(h \o s, m)
<1>1. h \o s \in Seq(Msgs) /\ <<m>> \in Seq(Msgs)
  BY ConcatProperties
<1>2. (h \o s) \o <<m>> = h \o (s \o <<m>>)
  BY <1>1, ConcatAssociative
<1>3. Append(s, m) = s \o <<m>> /\ Append(h \o s, m) = (h \o s) \o <<m>>
  BY <1>1, AppendIsConcat, Zenon
<1> QED
  BY <1>2, <1>3, Zenon

(* A step of the tunnel is a step of the queue, or leaves it alone.         *)
LEMMA QueueStep == TypeOK /\ TypeOK' /\ [Next]_vars => [Queue!Next]_(Queue!vars)
<1> SUFFICES ASSUME TypeOK, TypeOK', [Next]_vars PROVE [Queue!Next]_(Queue!vars)
  OBVIOUS
<1>0. /\ hand \in Seq(Msgs) /\ sendChan \in Seq(Msgs) /\ sent \in Seq(Msgs)
      /\ hand' \in Seq(Msgs) /\ sendChan' \in Seq(Msgs) /\ sent' \in Seq(Msgs)
      /\ Len(hand) = IF sender = "take" THEN 0 ELSE 1
      /\ Len(hand') = IF sender' = "take" THEN 0 ELSE 1
      /\ Len(sendChan) \in Nat
  BY DEF TypeOK
<1>1. ASSUME UNCHANGED dataVars PROVE UNCHANGED Queue!vars
  BY <1>1 DEF dataVars, Queue!vars
<1>2. CASE Publish
  <2>1. count + 1 \in Msgs
    BY <1>2 DEF Publish, Msgs, TypeOK
  <2>2. hand \o Append(sendChan, count + 1) = Append(hand \o sendChan, count + 1)
    BY <1>0, <2>1, AppendBehind, Zenon
  <2>3. Queue!Put
    BY <1>2, <2>1, <2>2, Zenon DEF Publish, Queue!Put
  <2> QED
    BY <2>3 DEF Queue!Next
<1>3. CASE Take
  <2>1. hand \o sendChan = sendChan
    BY <1>0, <1>3, NothingInHand DEF Take
  <2>2. hand' \o sendChan' = sendChan
    <3>1. sendChan = <<Head(sendChan)>> \o Tail(sendChan)
      BY <1>0, <1>3, HeadTailProperties DEF Take
    <3> QED
      BY <1>3, <3>1 DEF Take
  <2> QED
    BY <1>3, <2>1, <2>2 DEF Take, Queue!vars
<1>4. ASSUME Sent, sender # "take" PROVE Queue!SendFirst
  <2>1. /\ hand \o sendChan # <<>>
        /\ Tail(hand \o sendChan) = sendChan
        /\ hand = <<Head(hand \o sendChan)>>
    BY <1>0, <1>4, FirstOfQueue, Zenon
  <2>2. hand' \o sendChan' = sendChan
    BY <1>0, <1>4, NothingInHand DEF Sent
  <2>3. sent \o hand = Append(sent, Head(hand \o sendChan))
    <3>1. Head(hand \o sendChan) \in Msgs
      BY <1>0, <1>4, <2>1, FirstOfQueue
    <3> QED
      BY <1>0, <2>1, <3>1, AppendIsConcat
  <2> QED
    BY <1>4, <2>1, <2>2, <2>3, Zenon DEF Sent, Queue!SendFirst
<1>5. CASE Write \/ Resend
  BY <1>1, <1>4, <1>5 DEF Write, Resend, Queue!Next
<1>6. CASE Throw
  <2>1. /\ Tail(hand \o sendChan) = sendChan
        /\ Len(hand \o sendChan) = Len(sendChan) + 1
    BY <1>0, <1>6, FirstOfQueue, ZenonT(30) DEF Throw
  <2>2. hand' \o sendChan' = sendChan
    BY <1>0, <1>6, NothingInHand DEF Throw
  <2>3. Len(hand \o sendChan) > BufferSize
    BY <1>0, <1>6, <2>1, TunnelAssumption DEF Throw
  <2>4. Queue!ThrowFirst
    BY <1>6, <2>1, <2>2, <2>3 DEF Throw, Queue!ThrowFirst
  <2> QED
    BY <2>4 DEF Queue!Next
<1>7. CASE \/ Break \/ Stuck \/ ReaderStep
           \/ MarkFailed \/ LockForCheck \/ CheckHealth \/ Wait \/ UNCHANGED vars
  <2>1. UNCHANGED dataVars
    BY <1>7 DEF Break, Stuck, ReaderStep, ReadError, LockForDial, DialFails, DialSucceeds,
                Signal, MarkFailed, LockForCheck, CheckHealth, Wait, vars
  <2> QED
    BY <1>1, <2>1, ZenonT(30)
<1> QED
  BY <1>2, <1>3, <1>5, <1>6, <1>7 DEF Next, SenderStep

(* The tunnel implements the queue: messages go out in order, at most once, *)
(* and none is thrown away unless the channel is full behind it.            *)
THEOREM OrderKept == Spec => KeepsOrder
<1>1. Init => Queue!Init
  <2>1. <<>> \o <<>> = <<>>
    BY EmptySeq, ConcatEmptySeq
  <2> QED
    BY <2>1 DEF Init, Queue!Init
<1> QED
  BY <1>1, TypeCorrect, QueueStep, PTL DEF Spec, KeepsOrder, Queue!Spec

-----------------------------------------------------------------------------
(* The replicas *)

(* The state of the replicas and of the tunnel is well typed.               *)
THEOREM LeaderTypeCorrect == LeaderSpec => []LeaderTypeOK
<1>1. LeaderInit => LeaderTypeOK
  BY ReplicaAssumption DEF LeaderInit, LeaderTypeOK
<1>2. LeaderTypeOK /\ [LeaderNext]_leaderVars => LeaderTypeOK'
  <2> SUFFICES ASSUME LeaderTypeOK, [LeaderNext]_leaderVars PROVE LeaderTypeOK'
    OBVIOUS
  <2> USE ReplicaAssumption DEF LeaderTypeOK
  <2>1. ASSUME NEW r \in Replica, Elect(r) \/ StartLeading(r) \/ Observe(r) PROVE LeaderTypeOK'
    BY <2>1 DEF Elect, StartLeading, Observe
  <2>2. ASSUME NEW r \in Replica, StartHandler(r) \/ Stop(r) \/ Restart(r) PROVE LeaderTypeOK'
    BY <2>2 DEF StartHandler, Stop, End, Restart
  <2>3. CASE Expire \/ Connect \/ Follow \/ GoBack \/ Disconnect
    BY <2>3 DEF Expire, Connect, Follow, GoBack, Disconnect, election
  <2>4. CASE UNCHANGED leaderVars
    BY <2>4 DEF leaderVars, election
  <2> QED
    BY <2>1, <2>2, <2>3, <2>4 DEF LeaderNext
<1> QED
  BY <1>1, <1>2, PTL DEF LeaderSpec

(* The replica a tunnel is connected to holds the lease.                    *)
THEOREM LeaderServes == LeaderSpec => []OnlyLeaderServes
<1>1. LeaderInit => AcceptorLeads /\ OnlyLeaderServes
  BY ZenonT(30) DEF LeaderInit, AcceptorLeads, OnlyLeaderServes
<1>2. LeaderTypeOK /\ AcceptorLeads /\ OnlyLeaderServes /\ [LeaderNext]_leaderVars
        => AcceptorLeads' /\ OnlyLeaderServes'
  <2> SUFFICES ASSUME LeaderTypeOK, AcceptorLeads, OnlyLeaderServes, [LeaderNext]_leaderVars
               PROVE  AcceptorLeads' /\ OnlyLeaderServes'
    OBVIOUS
  <2> USE ReplicaAssumption DEF LeaderTypeOK, AcceptorLeads, OnlyLeaderServes
  <2>1. ASSUME NEW r \in Replica, Elect(r) PROVE AcceptorLeads' /\ OnlyLeaderServes'
    BY <2>1 DEF Elect
  <2>2. ASSUME NEW r \in Replica, StartLeading(r) PROVE AcceptorLeads' /\ OnlyLeaderServes'
    BY <2>2 DEF StartLeading
  <2>3. ASSUME NEW r \in Replica, Observe(r) PROVE AcceptorLeads' /\ OnlyLeaderServes'
    BY <2>3 DEF Observe
  <2>4. ASSUME NEW r \in Replica, StartHandler(r) \/ Stop(r) PROVE AcceptorLeads' /\ OnlyLeaderServes'
    BY <2>4 DEF StartHandler, Stop, End
  <2>5. ASSUME NEW r \in Replica, Restart(r) PROVE AcceptorLeads' /\ OnlyLeaderServes'
    BY <2>5, Zenon DEF Restart
  <2>6. CASE Expire \/ Connect \/ Follow \/ GoBack \/ Disconnect
    BY <2>6 DEF Expire, Connect, Follow, GoBack, Disconnect, election
  <2>7. CASE UNCHANGED leaderVars
    BY <2>7, Zenon DEF leaderVars, election
  <2> QED
    BY <2>1, <2>2, <2>3, <2>4, <2>5, <2>6, <2>7 DEF LeaderNext
<1> QED
  BY <1>1, <1>2, LeaderTypeCorrect, PTL DEF LeaderSpec

-----------------------------------------------------------------------------
(* The sessions of a child *)

(* Every step leaves the state of the sessions well typed.                  *)
LEMMA SessionTypeStep == SessionTypeOK /\ [SessionNext]_sessionVars => SessionTypeOK'
<1> SUFFICES ASSUME SessionTypeOK, [SessionNext]_sessionVars PROVE SessionTypeOK'
  OBVIOUS
<1> USE SessionAssumption
<1>1. ASSUME NEW s \in Session, Dial(s) PROVE SessionTypeOK'
  BY <1>1 DEF Dial, SessionTypeOK, Serving, threads, shared
<1>2. ASSUME NEW s \in Session, GiveUp(s) PROVE SessionTypeOK'
  BY <1>2 DEF GiveUp, SessionTypeOK, Serving, threads, shared
<1>3. ASSUME NEW s \in Session, Access(s) PROVE SessionTypeOK'
  BY <1>3, Zenon DEF Access, SessionTypeOK, Serving, threads, shared
<1>4. ASSUME NEW s \in Session, CheckClusterName(s) PROVE SessionTypeOK'
  BY <1>4 DEF CheckClusterName, SessionTypeOK, Serving, threads, shared
<1>5. ASSUME NEW s \in Session, Upgrade(s) PROVE SessionTypeOK'
  BY <1>5, ZenonT(30) DEF Upgrade, SessionTypeOK, Serving, threads, shared
<1>6. ASSUME NEW s \in Session, LoadOrStore(s) PROVE SessionTypeOK'
  BY <1>6, ZenonT(30) DEF LoadOrStore, SessionTypeOK, Serving, threads, shared
<1>7. ASSUME NEW s \in Session, AddChild(s) PROVE SessionTypeOK'
  BY <1>7, Zenon DEF AddChild, SessionTypeOK, Serving, threads, shared
<1>8. ASSUME NEW s \in Session, ReadFails(s) PROVE SessionTypeOK'
  BY <1>8, Zenon DEF ReadFails, SessionTypeOK, Serving, threads, shared
<1>9. ASSUME NEW s \in Session, DeleteClient(s) PROVE SessionTypeOK'
  BY <1>9 DEF DeleteClient, SessionTypeOK, Serving, threads, shared
<1>10. ASSUME NEW s \in Session, RegistRoute(s) PROVE SessionTypeOK'
  BY <1>10 DEF RegistRoute, SessionTypeOK, Serving, threads, shared
<1>11. ASSUME NEW s \in Session, RegistGet(s) PROVE SessionTypeOK'
  BY <1>11, Zenon DEF RegistGet, SessionTypeOK, Serving, threads, shared
<1>12. ASSUME NEW s \in Session, RegistCreate(s) PROVE SessionTypeOK'
  BY <1>12, Zenon DEF RegistCreate, SessionTypeOK, Serving, threads, shared
<1>13. ASSUME NEW s \in Session, RegistUpdate(s) PROVE SessionTypeOK'
  BY <1>13 DEF RegistUpdate, UpdateStatus, SessionTypeOK, Serving, threads, shared
<1>14. ASSUME NEW s \in Session, CloseChild(s) PROVE SessionTypeOK'
  BY <1>14, Zenon DEF CloseChild, SessionTypeOK, Serving, threads, shared
<1>15. ASSUME NEW s \in Session, UnregistRoute(s) PROVE SessionTypeOK'
  BY <1>15, Zenon DEF UnregistRoute, SessionTypeOK, Serving, threads, shared
<1>16. ASSUME NEW s \in Session, UnregistGet(s) PROVE SessionTypeOK'
  BY <1>16 DEF UnregistGet, SessionTypeOK, Serving, threads, shared
<1>17. ASSUME NEW s \in Session, UnregistUpdate(s) PROVE SessionTypeOK'
  BY <1>17 DEF UnregistUpdate, UpdateStatus, SessionTypeOK, Serving, threads, shared
<1>18. ASSUME Tick PROVE SessionTypeOK'
  BY <1>18 DEF Tick, SessionTypeOK, Serving, threads, shared
<1>19. ASSUME UNCHANGED sessionVars PROVE SessionTypeOK'
  BY <1>19 DEF sessionVars, SessionTypeOK, Serving, threads, shared
<1> QED
  BY <1>1, <1>2, <1>3, <1>4, <1>5, <1>6, <1>7, <1>8, <1>9, <1>10, <1>11, <1>12, <1>13, <1>14, <1>15, <1>16, <1>17, <1>18, <1>19, ZenonT(30) DEF SessionNext, Serve

(* The state of the sessions stays well typed.                              *)
THEOREM SessionTypeCorrect == SessionSpec => []SessionTypeOK
<1>1. SessionInit => SessionTypeOK
  <2>1. 0 \in 0..MaxTime
    BY SessionAssumption
  <2> SUFFICES ASSUME SessionInit PROVE SessionTypeOK
    OBVIOUS
  <2>2. child \in BOOLEAN /\ route \in BOOLEAN
    BY Zenon DEF SessionInit
  <2>3. crd \in [status : {"absent", "online", "offline"}, ts : 0..MaxTime]
    BY <2>1, Zenon DEF SessionInit
  <2> QED
    BY <2>1, <2>2, <2>3 DEF SessionInit, SessionTypeOK, Serving
<1> QED
  BY <1>1, SessionTypeStep, PTL DEF SessionSpec

(* clients holds exactly the session that is between LoadOrStore and        *)
(* clients.Delete, after every step.                                        *)
LEMMA SingleReaderStep == SessionTypeOK /\ SingleReader /\ [SessionNext]_sessionVars => SingleReader'
<1> SUFFICES ASSUME SessionTypeOK, SingleReader, [SessionNext]_sessionVars PROVE SingleReader'
  OBVIOUS
<1> USE DEF SessionTypeOK
<1>0. NoSession \notin Session
  BY DEF NoSession, Session
<1>1. ASSUME NEW s \in Session, Dial(s) PROVE SingleReader'
  BY <1>1 DEF Dial, SingleReader, Serving, threads, shared
<1>2. ASSUME NEW s \in Session, GiveUp(s) PROVE SingleReader'
  BY <1>2 DEF GiveUp, SingleReader, Serving, threads, shared
<1>3. ASSUME NEW s \in Session, Access(s) PROVE SingleReader'
  BY <1>3 DEF Access, SingleReader, Serving, threads, shared
<1>4. ASSUME NEW s \in Session, CheckClusterName(s) PROVE SingleReader'
  BY <1>4 DEF CheckClusterName, SingleReader, Serving, threads, shared
<1>5. ASSUME NEW s \in Session, Upgrade(s) PROVE SingleReader'
  BY <1>5 DEF Upgrade, SingleReader, Serving, threads, shared
<1>6. ASSUME NEW s \in Session, LoadOrStore(s) PROVE SingleReader'
  BY <1>0, <1>6 DEF LoadOrStore, SingleReader, Serving, threads, shared
<1>7. ASSUME NEW s \in Session, AddChild(s) PROVE SingleReader'
  BY <1>7, Zenon DEF AddChild, SingleReader, Serving, threads, shared
<1>8. ASSUME NEW s \in Session, ReadFails(s) PROVE SingleReader'
  BY <1>8, ZenonT(30) DEF ReadFails, SingleReader, Serving, threads, shared
<1>9. ASSUME NEW s \in Session, DeleteClient(s) PROVE SingleReader'
  BY <1>0, <1>9 DEF DeleteClient, SingleReader, Serving, threads, shared
<1>10. ASSUME NEW s \in Session, RegistRoute(s) PROVE SingleReader'
  BY <1>10, Zenon DEF RegistRoute, SingleReader, Serving, threads, shared
<1>11. ASSUME NEW s \in Session, RegistGet(s) PROVE SingleReader'
  BY <1>11, Zenon DEF RegistGet, SingleReader, Serving, threads, shared
<1>12. ASSUME NEW s \in Session, RegistCreate(s) PROVE SingleReader'
  BY <1>12, Zenon DEF RegistCreate, SingleReader, Serving, threads, shared
<1>13. ASSUME NEW s \in Session, RegistUpdate(s) PROVE SingleReader'
  BY <1>13, Zenon DEF RegistUpdate, UpdateStatus, SingleReader, Serving, threads, shared
<1>14. ASSUME NEW s \in Session, CloseChild(s) PROVE SingleReader'
  BY <1>14 DEF CloseChild, SingleReader, Serving, threads, shared
<1>15. ASSUME NEW s \in Session, UnregistRoute(s) PROVE SingleReader'
  BY <1>15 DEF UnregistRoute, SingleReader, Serving, threads, shared
<1>16. ASSUME NEW s \in Session, UnregistGet(s) PROVE SingleReader'
  BY <1>16, Zenon DEF UnregistGet, SingleReader, Serving, threads, shared
<1>17. ASSUME NEW s \in Session, UnregistUpdate(s) PROVE SingleReader'
  BY <1>17, Zenon DEF UnregistUpdate, UpdateStatus, SingleReader, Serving, threads, shared
<1>18. ASSUME Tick PROVE SingleReader'
  BY <1>18, Zenon DEF Tick, SingleReader, Serving, threads, shared
<1>19. ASSUME UNCHANGED sessionVars PROVE SingleReader'
  BY <1>19 DEF sessionVars, SingleReader, Serving, threads, shared
<1> QED
  BY <1>1, <1>2, <1>3, <1>4, <1>5, <1>6, <1>7, <1>8, <1>9, <1>10, <1>11, <1>12, <1>13, <1>14, <1>15, <1>16, <1>17, <1>18, <1>19, Zenon DEF SessionNext, Serve

(* However many times a child dials, one goroutine reads its messages, and  *)
(* nobody removes a connection but its own session.                         *)
THEOREM OneReader == SessionSpec => []SingleReader
<1>1. SessionInit => SingleReader
  BY DEF SessionInit, SingleReader, Serving, NoSession, Session
<1> QED
  BY <1>1, SessionTypeCorrect, SingleReaderStep, PTL DEF SessionSpec

(* A child is taken off Childs by the close of the session that ends, after *)
(* every step.                                                              *)
LEMMA NoGhostStep == SessionTypeOK /\ NoGhostChild /\ [SessionNext]_sessionVars => NoGhostChild'
<1> SUFFICES ASSUME SessionTypeOK, NoGhostChild, [SessionNext]_sessionVars PROVE NoGhostChild'
  OBVIOUS
<1> USE DEF SessionTypeOK
<1>1. ASSUME NEW s \in Session, Dial(s) PROVE NoGhostChild'
  BY <1>1 DEF Dial, NoGhostChild, threads, shared
<1>2. ASSUME NEW s \in Session, GiveUp(s) PROVE NoGhostChild'
  BY <1>2 DEF GiveUp, NoGhostChild, threads, shared
<1>3. ASSUME NEW s \in Session, Access(s) PROVE NoGhostChild'
  BY <1>3 DEF Access, NoGhostChild, threads, shared
<1>4. ASSUME NEW s \in Session, CheckClusterName(s) PROVE NoGhostChild'
  BY <1>4 DEF CheckClusterName, NoGhostChild, threads, shared
<1>5. ASSUME NEW s \in Session, Upgrade(s) PROVE NoGhostChild'
  BY <1>5 DEF Upgrade, NoGhostChild, threads, shared
<1>6. ASSUME NEW s \in Session, LoadOrStore(s) PROVE NoGhostChild'
  BY <1>6 DEF LoadOrStore, NoGhostChild, threads, shared
<1>7. ASSUME NEW s \in Session, AddChild(s) PROVE NoGhostChild'
  BY <1>7 DEF AddChild, NoGhostChild, threads, shared
<1>8. ASSUME NEW s \in Session, ReadFails(s) PROVE NoGhostChild'
  BY <1>8 DEF ReadFails, NoGhostChild, threads, shared
<1>9. ASSUME NEW s \in Session, DeleteClient(s) PROVE NoGhostChild'
  BY <1>9 DEF DeleteClient, NoGhostChild, threads, shared
<1>10. ASSUME NEW s \in Session, RegistRoute(s) PROVE NoGhostChild'
  BY <1>10 DEF RegistRoute, NoGhostChild, threads, shared
<1>11. ASSUME NEW s \in Session, RegistGet(s) PROVE NoGhostChild'
  BY <1>11, Zenon DEF RegistGet, NoGhostChild, threads, shared
<1>12. ASSUME NEW s \in Session, RegistCreate(s) PROVE NoGhostChild'
  BY <1>12 DEF RegistCreate, NoGhostChild, threads, shared
<1>13. ASSUME NEW s \in Session, RegistUpdate(s) PROVE NoGhostChild'
  BY <1>13 DEF RegistUpdate, UpdateStatus, NoGhostChild, threads, shared
<1>14. ASSUME NEW s \in Session, CloseChild(s) PROVE NoGhostChild'
  BY <1>14 DEF CloseChild, NoGhostChild, threads, shared
<1>15. ASSUME NEW s \in Session, UnregistRoute(s) PROVE NoGhostChild'
  BY <1>15 DEF UnregistRoute, NoGhostChild, threads, shared
<1>16. ASSUME NEW s \in Session, UnregistGet(s) PROVE NoGhostChild'
  BY <1>16 DEF UnregistGet, NoGhostChild, threads, shared
<1>17. ASSUME NEW s \in Session, UnregistUpdate(s) PROVE NoGhostChild'
  BY <1>17 DEF UnregistUpdate, UpdateStatus, NoGhostChild, threads, shared
<1>18. ASSUME Tick PROVE NoGhostChild'
  BY <1>18 DEF Tick, NoGhostChild, threads, shared
<1>19. ASSUME UNCHANGED sessionVars PROVE NoGhostChild'
  BY <1>19 DEF sessionVars, NoGhostChild, threads, shared
<1> QED
  BY <1>1, <1>2, <1>3, <1>4, <1>5, <1>6, <1>7, <1>8, <1>9, <1>10, <1>11, <1>12, <1>13, <1>14, <1>15, <1>16, <1>17, <1>18, <1>19 DEF SessionNext, Serve

(* No child stays in Childs without a reader or a pending closeChild.       *)
THEOREM NoGhost == SessionSpec => []NoGhostChild
<1>1. SessionInit => NoGhostChild
  BY ZenonT(30)  DEF SessionInit, NoGhostChild
<1> QED
  BY <1>1, SessionTypeCorrect, NoGhostStep, PTL DEF SessionSpec

(* Until a close has run, a child that reads is in Childs and a child that  *)
(* is registered has its route, after every step.                           *)
LEMMA RememberedStep == SessionTypeOK /\ Remembered /\ [SessionNext]_sessionVars => Remembered'
<1> SUFFICES ASSUME SessionTypeOK, Remembered, [SessionNext]_sessionVars PROVE Remembered'
  OBVIOUS
<1> USE DEF SessionTypeOK
<1>1. ASSUME NEW s \in Session, Dial(s) PROVE Remembered'
  BY <1>1 DEF Dial, Remembered, Serving, threads, shared
<1>2. ASSUME NEW s \in Session, GiveUp(s) PROVE Remembered'
  BY <1>2, Zenon DEF GiveUp, Remembered, Serving, threads, shared
<1>3. ASSUME NEW s \in Session, Access(s) PROVE Remembered'
  BY <1>3 DEF Access, Remembered, Serving, threads, shared
<1>4. ASSUME NEW s \in Session, CheckClusterName(s) PROVE Remembered'
  BY <1>4 DEF CheckClusterName, Remembered, Serving, threads, shared
<1>5. ASSUME NEW s \in Session, Upgrade(s) PROVE Remembered'
  BY <1>5 DEF Upgrade, Remembered, Serving, threads, shared
<1>6. ASSUME NEW s \in Session, LoadOrStore(s) PROVE Remembered'
  BY <1>6 DEF LoadOrStore, Remembered, Serving, threads, shared
<1>7. ASSUME NEW s \in Session, AddChild(s) PROVE Remembered'
  BY <1>7 DEF AddChild, Remembered, Serving, threads, shared
<1>8. ASSUME NEW s \in Session, ReadFails(s) PROVE Remembered'
  BY <1>8 DEF ReadFails, Remembered, Serving, threads, shared
<1>9. ASSUME NEW s \in Session, DeleteClient(s) PROVE Remembered'
  BY <1>9 DEF DeleteClient, Remembered, Serving, threads, shared
<1>10. ASSUME NEW s \in Session, RegistRoute(s) PROVE Remembered'
  BY <1>10 DEF RegistRoute, Remembered, Serving, threads, shared
<1>11. ASSUME NEW s \in Session, RegistGet(s) PROVE Remembered'
  BY <1>11, Zenon DEF RegistGet, Remembered, Serving, threads, shared
<1>12. ASSUME NEW s \in Session, RegistCreate(s) PROVE Remembered'
  BY <1>12, Zenon DEF RegistCreate, Remembered, Serving, threads, shared
<1>13. ASSUME NEW s \in Session, RegistUpdate(s) PROVE Remembered'
  BY <1>13, Zenon DEF RegistUpdate, UpdateStatus, Remembered, Serving, threads, shared
<1>14. ASSUME NEW s \in Session, CloseChild(s) PROVE Remembered'
  BY <1>14 DEF CloseChild, Remembered, Serving, threads, shared
<1>15. ASSUME NEW s \in Session, UnregistRoute(s) PROVE Remembered'
  BY <1>15 DEF UnregistRoute, Remembered, Serving, threads, shared
<1>16. ASSUME NEW s \in Session, UnregistGet(s) PROVE Remembered'
  BY <1>16 DEF UnregistGet, Remembered, Serving, threads, shared
<1>17. ASSUME NEW s \in Session, UnregistUpdate(s) PROVE Remembered'
  BY <1>17 DEF UnregistUpdate, UpdateStatus, Remembered, Serving, threads, shared
<1>18. ASSUME Tick PROVE Remembered'
  BY <1>18, Zenon DEF Tick, Remembered, Serving, threads, shared
<1>19. ASSUME UNCHANGED sessionVars PROVE Remembered'
  BY <1>19 DEF sessionVars, Remembered, Serving, threads, shared
<1> QED
  BY <1>1, <1>2, <1>3, <1>4, <1>5, <1>6, <1>7, <1>8, <1>9, <1>10, <1>11, <1>12, <1>13, <1>14, <1>15, <1>16, <1>17, <1>18, <1>19 DEF SessionNext, Serve

(* However many dials overlap, a connected child loses its route and its    *)
(* place in Childs only to the close of an earlier session.                 *)
THEOREM ClosesForget == SessionSpec => []OnlyClosesForget
<1>1. SessionInit => Remembered
  BY Zenon DEF SessionInit, Remembered, Serving
<1>2. Remembered => OnlyClosesForget
  BY DEF Remembered, OnlyClosesForget, Serving
<1> QED
  BY <1>1, <1>2, SessionTypeCorrect, RememberedStep, PTL DEF SessionSpec

(* The status of the Cluster resource is only ever replaced by a newer one. *)
THEOREM StatusForward == SessionSpec => StatusMovesForward
<1> DEFINE Forward == crd.status # "absent" /\ crd' # crd => crd'.ts > crd.ts
<1>1. SessionTypeOK /\ [SessionNext]_sessionVars => [Forward]_sessionVars
  <2> SUFFICES ASSUME SessionTypeOK, [SessionNext]_sessionVars, crd.status # "absent", crd' # crd
               PROVE  crd'.ts > crd.ts
    OBVIOUS
  <2>1. \E s \in Session : RegistCreate(s) \/ RegistUpdate(s) \/ UnregistUpdate(s)
    BY Zenon DEF SessionNext, Serve, Dial, GiveUp, Access, CheckClusterName, Upgrade, LoadOrStore, AddChild,
           ReadFails, DeleteClient, RegistRoute, RegistGet, CloseChild, UnregistRoute,
           UnregistGet, Tick, threads, shared, sessionVars
  <2> QED
    BY <2>1 DEF RegistCreate, RegistUpdate, UnregistUpdate, UpdateStatus
<1> QED
  BY <1>1, SessionTypeCorrect, PTL DEF SessionSpec, StatusMovesForward
=============================================================================

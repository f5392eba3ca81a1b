------------------------- MODULE EdgeHandlerProofs -------------------------
(***************************************************************************)
(* The edge handler: its shim and the requests that cross it, for any      *)
(* number of dials, requests and breaks, and its report timers, for any    *)
(* number of connections.                                                  *)
(***************************************************************************)
EXTENDS EdgeHandler, SubtreeReporter, TLAPS

\* A leaf without a method of its own is left to SMT, and given time.
USE SMTT(30)

-----------------------------------------------------------------------------
(* The shim *)

(* The channel may be empty.                                                *)
LEMMA EmptyChannel == <<>> \in Seq(BOOLEAN) /\ Len(<<>>) = 0
OBVIOUS

(* Every step of shim and client keeps the types.                           *)
LEMMA ShimTypeStep ==
  ASSUME ShimTypeOK,
         \/ \E d \in Dials : Dial(d) \/ Panics(d) \/ Drop(d)
         \/ ServerStep \/ Consume \/ ClientFails
  PROVE  ShimTypeOK'
<1> USE ShimAssumption DEF ShimTypeOK, Goto
<1>1. ASSUME NEW d \in Dials, Dial(d) PROVE ShimTypeOK'
  <2>1. raced' \in BOOLEAN
    BY <1>1, Zenon DEF Dial
  <2> QED
    BY <1>1, <2>1 DEF Dial
<1>2. ASSUME NEW d \in Dials, Panics(d) PROVE ShimTypeOK'
  <2>1. isConnected' \in Seq(BOOLEAN) /\ Len(isConnected') = 0
    BY <1>2, EmptyChannel DEF Panics
  <2>2. raced' \in BOOLEAN /\ reporters' \in BOOLEAN
    BY <1>2, Zenon DEF Panics
  <2>3. pc' = [e \in Dials |-> "none"] /\ reading' = [e \in Dials |-> Nil] /\ alive' = {}
        /\ UNCHANGED <<ccclient, client, drops>>
    BY <1>2 DEF Panics
  <2> HIDE <1>2
  <2> QED
    BY <2>1, <2>2, <2>3
<1>3. ASSUME NEW d \in Dials, Drop(d) PROVE ShimTypeOK'
  BY <1>3 DEF Drop
<1>4. ASSUME NEW d \in Dials, Upgrade(d) PROVE ShimTypeOK'
  BY <1>4 DEF Upgrade
<1>5. ASSUME NEW d \in Dials, Store(d) PROVE ShimTypeOK'
  BY <1>5 DEF Store
<1>6. ASSUME NEW d \in Dials, Tell(d) PROVE ShimTypeOK'
  <2>1. isConnected' \in Seq(BOOLEAN) /\ Len(isConnected') = 1
    BY <1>6 DEF Tell
  <2> QED
    BY <1>6, <2>1 DEF Tell
<1>7. ASSUME NEW d \in Dials, Read(d) \/ ReadFails(d) \/ Clear(d) PROVE ShimTypeOK'
  BY <1>7 DEF Read, ReadFails, Clear
<1>8. CASE Consume
  <2>1. reporters' \in BOOLEAN
    BY <1>8 DEF Consume
  <2> QED
    BY <1>8, <2>1 DEF Consume
<1>9. CASE ClientFails
  BY <1>9 DEF ClientFails
<1> QED
  BY <1>1, <1>2, <1>3, <1>4, <1>5, <1>6, <1>7, <1>8, <1>9 DEF ServerStep

(* Every step keeps the types.                                              *)
LEMMA TypeStep == TypeOK /\ [Next]_vars => TypeOK'
<1> SUFFICES ASSUME TypeOK, [Next]_vars PROVE TypeOK'
  OBVIOUS
<1> USE ShimAssumption DEF TypeOK, Moves, Places
<1>1. CASE Connecting
  <2>1. ShimTypeOK'
    BY <1>1, ShimTypeStep, Zenon DEF Connecting
  <2> QED
    BY <1>1, <2>1, Zenon DEF Connecting
<1>2. CASE Dropping
  <2>1. ShimTypeOK'
    BY <1>2, ShimTypeStep, Zenon DEF Dropping
  <2> QED
    BY <1>2, <2>1, Zenon DEF Dropping
<1>3. ASSUME NEW r \in Requests, UNCHANGED shimVars,
             receiveMessageFromTunnel(r) \/ Write(r) \/ Return(r) \/ Lost(r)
      PROVE  TypeOK'
  <2>1. ShimTypeOK'
    BY <1>3, Zenon DEF shimVars, ShimTypeOK
  <2>2. client \in Dials \cup {Nil}
    BY Zenon DEF ShimTypeOK
  <2> QED
    BY <1>3, <2>1, <2>2, ZenonT(30)
    DEF receiveMessageFromTunnel, handleMessage, Dropped, DoRemote, DoLocal, sendToParent,
        Write, Return, Lost
<1>4. ASSUME NEW r \in Requests, NEW d \in Dials, Serve(d, r) \/ Answer(d, r) PROVE TypeOK'
  <2>1. ShimTypeOK'
    <3>1. CASE Serve(d, r)
      <4>1. pc[d] = "reading" /\ UNCHANGED <<ccclient, alive, client, isConnected, reporters, raced, drops>>
        BY <3>1, Zenon DEF Serve
      <4>2. \/ pc' = [pc EXCEPT ![d] = "serving"] /\ reading' = reading
            \/ pc' = [pc EXCEPT ![d] = "read"] /\ reading' = [reading EXCEPT ![d] = Nil]
        BY <3>1, Zenon DEF Serve, Goto
      <4>3. ASSUME pc' = [pc EXCEPT ![d] = "serving"], reading' = reading PROVE ShimTypeOK'
        BY <4>1, <4>3, Zenon DEF ShimTypeOK
      <4>4. ASSUME pc' = [pc EXCEPT ![d] = "read"], reading' = [reading EXCEPT ![d] = Nil]
            PROVE  ShimTypeOK'
        BY <4>1, <4>4, Zenon DEF ShimTypeOK
      <4> QED
        BY <4>2, <4>3, <4>4, Zenon
    <3>2. CASE Answer(d, r)
      BY <3>2, Zenon DEF Answer, ShimTypeOK, Goto
    <3> QED
      BY <1>4, <3>1, <3>2, Zenon
  <2>2. ccclient \in Dials \cup {Nil}
    BY Zenon DEF ShimTypeOK
  <2>3. CASE Serve(d, r)
    BY <2>1, <2>3, Zenon DEF Serve
  <2>4. CASE Answer(d, r)
    BY <2>1, <2>2, <2>4, Zenon DEF Answer
  <2> QED
    BY <1>4, <2>3, <2>4, Zenon
<1>5. CASE UNCHANGED vars
  BY <1>5, Zenon DEF vars, shimVars, ShimTypeOK
<1> QED
  BY <1>1, <1>2, <1>3, <1>4, <1>5, Zenon
  DEF Next, Requesting, receiveMessageFromTunnel, Write, Return, Lost

(* The state of shim, client and requests is well typed.                    *)
THEOREM TypeCorrect == Spec => []TypeOK
<1>1. Init => TypeOK
  <2> SUFFICES ASSUME Init PROVE TypeOK
    OBVIOUS
  <2>1. isConnected \in Seq(BOOLEAN) /\ Len(isConnected) = 0
    BY EmptyChannel DEF Init, ShimInit
  <2>2. raced \in BOOLEAN /\ reporters \in BOOLEAN
    BY Zenon DEF Init, ShimInit
  <2>3. ShimTypeOK
    BY <2>1, <2>2, ShimAssumption DEF Init, ShimInit, ShimTypeOK
  <2> QED
    BY <2>3 DEF Init, TypeOK, Places
<1> QED
  BY <1>1, TypeStep, PTL DEF Spec

(* A step that leaves the goroutines and what is stored alone, or moves one *)
(* of them within do or past it, keeps the balance.                         *)
LEMMA BalanceKept ==
  ASSUME ShimInv, UNCHANGED <<ccclient, raced>>,
         \A d \in Dials : (pc'[d] # "none") => (pc[d] # "none"),
         Past' = Past,
         \A d \in Dials : reading'[d] \in {reading[d], ccclient, Nil}
  PROVE  ShimInv' /\ (Balanced' => Balanced)
<1>1. Alone'
  BY DEF ShimInv, Alone
<1>2. Surplus' = Surplus
  BY DEF Surplus
<1>3. Balanced => Balanced'
  BY ShimAssumption DEF Balanced, Past
<1>4. Surplus => ~Balanced'
  BY DEF Surplus, Balanced
<1> QED
  BY <1>1, <1>2, <1>3, <1>4 DEF ShimInv

(* Every step of shim and client keeps ShimInv, and brings back the balance *)
(* only when the process ends.                                              *)
LEMMA ShimStep ==
  ASSUME ShimTypeOK, ShimInv,
         \/ \E d \in Dials : Dial(d) \/ Panics(d) \/ Drop(d)
         \/ ServerStep \/ Consume \/ ClientFails
  PROVE  ShimInv' /\ (Balanced' => Balanced \/ alive' = {})
<1> USE ShimAssumption DEF ShimTypeOK, Goto
<1>1. ASSUME NEW d \in Dials, Dial(d) PROVE ShimInv' /\ (Balanced' => Balanced)
  <2>1. Past' = Past /\ ccclient = Nil
    BY <1>1 DEF Dial, Past
  <2>2. Surplus' = Surplus /\ Balanced' = Balanced
    BY <1>1, <2>1 DEF Dial, Surplus, Balanced
  <2>3. CASE raced'
    BY <2>2, <2>3 DEF ShimInv, Alone
  <2>4. CASE ~raced'
    <3>1. Pending = {} /\ (~raced \/ \A e \in Dials : pc[e] = "none")
      BY <1>1, <2>4, Zenon DEF Dial
    <3>2. Past = {}
      BY <2>1, <3>1 DEF ShimInv, Balanced, Past
    <3>3. \A e \in Dials : pc[e] = "none"
      BY <3>1, <3>2, Zenon DEF Past, Pending
    <3>4. Alone'
      BY <1>1, <3>3 DEF Dial, Alone
    <3>5. Balanced
      BY <2>1, <3>2 DEF Balanced
    <3> QED
      BY <2>2, <3>4, <3>5 DEF ShimInv
  <2> QED
    BY <2>3, <2>4, <2>2
<1>2. ASSUME NEW d \in Dials, Panics(d) PROVE ShimInv' /\ alive' = {}
  BY <1>2 DEF Panics, ShimInv, Alone, Balanced, Past
<1>3. ASSUME NEW d \in Dials, Drop(d) PROVE ShimInv' /\ (Balanced' => Balanced)
  BY <1>3, BalanceKept DEF Drop, Past
<1>4. ASSUME NEW d \in Dials, Upgrade(d) PROVE ShimInv' /\ (Balanced' => Balanced)
  BY <1>4, BalanceKept DEF Upgrade, Past
<1>5. ASSUME NEW d \in Dials, Store(d) PROVE ShimInv' /\ (Balanced' => Balanced)
  <2>1. Past' = Past \cup {d} /\ d \notin Past /\ ccclient' = d /\ reading'[d] = Nil
    BY <1>5 DEF Store, Past
  <2>2. Alone'
    BY <1>5 DEF Store, ShimInv, Alone
  <2>3. CASE Past = {}
    <3>1. Balanced
      BY <2>3 DEF ShimInv, Surplus
    <3>2. Balanced'
      BY <2>1, <2>3 DEF Balanced
    <3> QED
      BY <2>2, <3>1, <3>2 DEF ShimInv
  <2>4. CASE Past # {}
    <3>1. raced /\ raced'
      BY <1>5, <2>1, <2>4 DEF Store, ShimInv, Alone, Past
    <3>2. Surplus' /\ ~Balanced'
      BY <2>1, <2>4 DEF Surplus, Balanced
    <3> QED
      BY <2>2, <3>1, <3>2 DEF ShimInv
  <2> QED
    BY <2>3, <2>4
<1>6. ASSUME NEW d \in Dials, Tell(d) PROVE ShimInv' /\ (Balanced' => Balanced)
  BY <1>6, BalanceKept DEF Tell, Past
<1>7. ASSUME NEW d \in Dials, Read(d) \/ ReadFails(d) PROVE ShimInv' /\ (Balanced' => Balanced)
  BY <1>7, BalanceKept DEF Read, ReadFails, Past
<1>8. ASSUME NEW d \in Dials, Clear(d) PROVE ShimInv' /\ (Balanced' => Balanced)
  <2>1. Past' = Past \ {d} /\ d \in Past /\ ccclient # Nil /\ ccclient' = Nil /\ raced' = raced
    BY <1>8 DEF Clear, Past
  <2>2. Alone'
    BY <1>8 DEF Clear, ShimInv, Alone
  <2>3. CASE Balanced
    <3>1. Balanced'
      BY <2>1, <2>3 DEF Balanced
    <3> QED
      BY <2>2, <2>3, <3>1 DEF ShimInv
  <2>4. CASE ~Balanced
    <3>1. raced' /\ Surplus
      BY <2>1, <2>4 DEF ShimInv
    <3>2. Surplus' /\ ~Balanced'
      BY <2>1, <3>1 DEF Surplus, Balanced
    <3> QED
      BY <2>2, <3>1, <3>2 DEF ShimInv
  <2> QED
    BY <2>3, <2>4
<1>9. CASE Consume \/ ClientFails
  BY <1>9, BalanceKept, ZenonT(30) DEF Consume, ClientFails, Past
<1> QED
  BY <1>1, <1>2, <1>3, <1>4, <1>5, <1>6, <1>7, <1>8, <1>9 DEF ServerStep

(* Every step keeps the balance of the shim and the way of the responses.   *)
LEMMA AnswerStep ==
  TypeOK /\ ShimInv /\ AnswersReturn /\ [Next]_vars => ShimInv' /\ AnswersReturn'
<1> SUFFICES ASSUME TypeOK, ShimInv, AnswersReturn, [Next]_vars
             PROVE  ShimInv' /\ AnswersReturn'
  OBVIOUS
<1> USE ShimAssumption DEF TypeOK
<1>1. CASE Connecting
  <2>1. ShimInv' /\ (Balanced' => Balanced \/ alive' = {})
    BY <1>1, ShimStep, ZenonT(30) DEF Connecting
  <2>2. \A r \in Requests : back[r] \in alive' => back[r] \in alive
    BY <1>1 DEF Connecting, InUse, Dial, ServerStep, Upgrade, Store, Tell, Read, ReadFails, Clear,
                Consume, ClientFails, Panics
  <2> QED
    BY <1>1, <2>1, <2>2 DEF AnswersReturn, Connecting
<1>2. CASE Dropping
  <2>1. ShimInv' /\ (Balanced' => Balanced \/ alive' = {})
    BY <1>2, ShimStep DEF Dropping
  <2>2. alive' \subseteq alive
    BY <1>2 DEF Dropping, Drop
  <2> QED
    BY <1>2, <2>1, <2>2 DEF AnswersReturn, Dropping
<1>3. ASSUME NEW r \in Requests, UNCHANGED shimVars,
             receiveMessageFromTunnel(r) \/ Write(r) \/ Return(r) \/ Lost(r)
      PROVE  ShimInv' /\ AnswersReturn'
  <2>1. ShimInv' /\ (Balanced' => Balanced)
    BY <1>3, BalanceKept DEF shimVars, Past, ShimTypeOK
  <2>2. \A q \in Requests : back'[q] \in alive => back'[q] = back[q] /\ conn'[q] = conn[q]
    BY <1>3, ZenonT(30) DEF receiveMessageFromTunnel, handleMessage, Dropped, DoRemote, DoLocal,
                Write, Return, Lost, ShimTypeOK
  <2> QED
    BY <1>3, <2>1, <2>2 DEF AnswersReturn, shimVars
<1>4. ASSUME NEW r \in Requests, NEW d \in Dials, Serve(d, r) PROVE ShimInv' /\ AnswersReturn'
  <2>1. ShimInv' /\ (Balanced' => Balanced)
    BY <1>4, BalanceKept, ZenonT(30) DEF Serve, Goto, Past, ShimTypeOK
  <2> QED
    BY <1>4, <2>1 DEF AnswersReturn, Serve
<1>5. ASSUME NEW r \in Requests, NEW d \in Dials, Answer(d, r) PROVE ShimInv' /\ AnswersReturn'
  <2>1. ShimInv' /\ (Balanced' => Balanced)
    BY <1>5, BalanceKept DEF Answer, Goto, Past, ShimTypeOK
  <2>2. Balanced => conn[r] = ccclient
    BY <1>5 DEF Answer, Balanced, Past, ShimTypeOK
  <2> QED
    BY <1>5, <2>1, <2>2, ZenonT(30) DEF AnswersReturn, Answer
<1>6. CASE UNCHANGED vars
  <2>1. ShimInv' /\ (Balanced' => Balanced)
    BY <1>6, BalanceKept DEF vars, shimVars, Past, ShimTypeOK
  <2> QED
    BY <1>6, <2>1 DEF AnswersReturn, vars, shimVars
<1> QED
  BY <1>1, <1>2, <1>3, <1>4, <1>5, <1>6
  DEF Next, Requesting, receiveMessageFromTunnel, Write, Return, Lost

(* Goroutines past do are in balance, or there is one too many; responses   *)
(* of goroutines in balance return where their requests came from.          *)
LEMMA BalanceCorrect == Spec => [](TypeOK /\ ShimInv /\ AnswersReturn)
<1>1. Init => ShimInv /\ AnswersReturn
  BY ShimAssumption DEF Init, ShimInit, ShimInv, Alone, Balanced, Past, AnswersReturn
<1> QED
  BY <1>1, AnswerStep, TypeCorrect, PTL DEF Spec

(* As long as no two dials overlap between check and store, one goroutine   *)
(* is past do, and the connection stored is its own.                        *)
THEOREM OneControllerServed == Spec => []OneController
<1>1. TypeOK /\ ShimInv => OneController
  BY ShimAssumption DEF ShimInv, Alone, Balanced, Past, OneController, TypeOK, ShimTypeOK
<1> QED
  BY <1>1, BalanceCorrect, PTL

(* A response goes back on the connection its request came on.              *)
THEOREM ResponsesReturned == Spec => []ResponsesReturn
<1>1. ShimInv /\ AnswersReturn => ResponsesReturn
  BY DEF ShimInv, AnswersReturn, ResponsesReturn
<1> QED
  BY <1>1, BalanceCorrect, PTL

(* A goroutine leaves its loop when its own connection is broken, and a     *)
(* broken connection is not used again before the goroutine has ended.      *)
LEMMA BrokenStep == TypeOK /\ ShimInv /\ EndsBroken /\ [Next]_vars => EndsBroken'
<1> SUFFICES ASSUME TypeOK, ShimInv, EndsBroken, [Next]_vars PROVE EndsBroken'
  OBVIOUS
<1> USE ShimAssumption DEF TypeOK, ShimTypeOK, EndsBroken, Goto
<1>1. ASSUME NEW d \in Dials, Dial(d) PROVE EndsBroken'
  <2>1. ~raced' => ~raced \/ \A e \in Dials : pc[e] = "none"
    BY <1>1, Zenon DEF Dial
  <2> QED
    BY <1>1, <2>1 DEF Dial
<1>2. ASSUME NEW d \in Dials, ReadFails(d) PROVE EndsBroken'
  <2>1. ~raced => reading[d] = d
    BY <1>2 DEF ReadFails, ShimInv, Balanced, Past
  <2> QED
    BY <1>2, <2>1 DEF ReadFails
<1>3. ASSUME NEW d \in Dials, Upgrade(d) \/ Store(d) \/ Tell(d) \/ Read(d) \/ Clear(d) PROVE EndsBroken'
  BY <1>3 DEF Upgrade, Store, Tell, Read, Clear
<1>4. ASSUME NEW d \in Dials, Panics(d) \/ Drop(d) PROVE EndsBroken'
  BY <1>4 DEF Panics, Drop
<1>5. ASSUME NEW r \in Requests, NEW d \in Dials, Serve(d, r) \/ Answer(d, r) PROVE EndsBroken'
  BY <1>5 DEF Serve, Answer
<1>6. ASSUME UNCHANGED <<pc, alive, raced>> PROVE EndsBroken'
  BY <1>6
<1> QED
  BY <1>1, <1>2, <1>3, <1>4, <1>5, <1>6, ZenonT(30)
  DEF Next, Connecting, Dropping, Requesting, ServerStep, Consume, ClientFails, vars, shimVars,
      receiveMessageFromTunnel, Write, Return, Lost

(* As long as no two dials overlap between check and store, the server      *)
(* closes no connection that works and does not end.                        *)
THEOREM WorkingConnectionsKept == Spec => WorkingKept
<1>1. Init => EndsBroken
  BY DEF Init, ShimInit, EndsBroken
<1>2. TypeOK /\ ShimInv /\ EndsBroken /\ [Next]_vars
        => [raced \/ alive \subseteq alive' \/ drops' = drops + 1]_vars
  <2> SUFFICES ASSUME TypeOK, ShimInv, EndsBroken, Next, ~raced
               PROVE  alive \subseteq alive' \/ drops' = drops + 1
    OBVIOUS
  <2> USE ShimAssumption DEF TypeOK, ShimTypeOK
  <2>1. ASSUME NEW d \in Dials, Clear(d) PROVE alive' = alive
    BY <2>1 DEF Clear, EndsBroken, ShimInv, Balanced, Past
  <2>2. ASSUME NEW d \in Dials, Panics(d) PROVE FALSE
    BY <2>2 DEF Panics, ShimInv, Balanced, Past
  <2>3. ASSUME NEW d \in Dials, Drop(d) PROVE drops' = drops + 1
    BY <2>3 DEF Drop
  <2>4. ASSUME NEW d \in Dials, Dial(d) PROVE alive \subseteq alive'
    BY <2>4 DEF Dial
  <2> QED
    BY <2>1, <2>2, <2>3, <2>4, ZenonT(30)
    DEF Next, Connecting, Dropping, Requesting, ServerStep, Upgrade, Store, Tell, Read, ReadFails,
        Consume, ClientFails, shimVars, receiveMessageFromTunnel, Write, Return, Lost, Serve, Answer
<1> QED
  BY <1>1, <1>2, BrokenStep, BalanceCorrect, PTL DEF Spec, WorkingKept

-----------------------------------------------------------------------------
(* The report timers *)

(* The counters keep their types and the channels their capacities.         *)
THEOREM ReporterTypeCorrect == ReporterSpec => []ReporterTypeOK
<1>1. ReporterInit => ReporterTypeOK
  BY ReporterAssumption DEF ReporterInit, ReporterTypeOK
<1>2. ReporterTypeOK /\ [ReporterNext]_reporterVars => ReporterTypeOK'
  BY ReporterAssumption
  DEF ReporterTypeOK, ReporterNext, Connect, Lose, AfterDisconnect, StartTimer, Report, StopTimer, Tick,
      SendToParent, reporterVars
<1> QED
  BY <1>1, <1>2, PTL DEF ReporterSpec

(* There is one timer for the connection and one for every token.           *)
THEOREM TimersBalanced == ReporterSpec => []NoTimerLeak
<1>1. ReporterInit => NoTimerLeak
  BY DEF ReporterInit, NoTimerLeak, timers
<1>2. ReporterTypeOK /\ NoTimerLeak /\ [ReporterNext]_reporterVars => NoTimerLeak'
  <2> SUFFICES ASSUME ReporterTypeOK, NoTimerLeak, [ReporterNext]_reporterVars PROVE NoTimerLeak'
    OBVIOUS
  <2> USE DEF ReporterTypeOK, NoTimerLeak, timers
  <2>1. CASE Connect \/ Lose \/ AfterDisconnect
    BY <2>1 DEF Connect, Lose, AfterDisconnect
  <2>2. CASE StartTimer \/ Report \/ Tick
    BY <2>2 DEF StartTimer, Report, Tick
  <2>3. CASE StopTimer
    BY <2>3 DEF StopTimer
  <2>4. CASE SendToParent
    BY <2>4 DEF SendToParent
  <2>5. CASE UNCHANGED reporterVars
    BY <2>5 DEF reporterVars
  <2> QED
    BY <2>1, <2>2, <2>3, <2>4, <2>5 DEF ReporterNext
<1> QED
  BY <1>1, <1>2, ReporterTypeCorrect, PTL DEF ReporterSpec
=============================================================================

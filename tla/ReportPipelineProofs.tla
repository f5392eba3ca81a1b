------------------------ MODULE ReportPipelineProofs ------------------------
(***************************************************************************)
(* For every set of objects and replicas, any number of changes, losses    *)
(* and conflicts: the edge-version of an object at the center never goes   *)
(* back while the object exists.                                           *)
(***************************************************************************)
EXTENDS ReportPipeline, TLAPS

\* A leaf without a method of its own is left to SMT, and given time.
USE SMTT(30)

CallType == [at : Calls, entry : Entries \cup {<<>>}, fresh : BOOLEAN, tries : 0..(Tries - 1)]

\* A replica that has read an object which nobody has changed since brings a
\* version that is not older.
FreshReads ==
  \A r \in Replicas :
    call[r].fresh => /\ call[r].at # "none"
                     /\ center[call[r].entry.name].version <= call[r].entry.version

\* What VersionForward says of one step.
Forward ==
  \A n \in Names : center[n].version # 0 /\ center'[n].version # 0
                     => center'[n].version >= center[n].version

-----------------------------------------------------------------------------
(* Reports under way *)

\* A report that is sent is under way, and nothing else is new.
LEMMA SendElements ==
  ASSUME NEW m, Send(m)
  PROVE  DOMAIN flight' = DOMAIN flight \cup {m}
BY DEF Send

\* A report that is taken or lost brings nothing new.
LEMMA TookElements ==
  ASSUME NEW m, Took(m)
  PROVE  DOMAIN flight' \subseteq DOMAIN flight
BY DEF Took

LEMMA NothingInNoFlight == DOMAIN NoFlight = {}
BY DEF NoFlight

LEMMA NoReportType == NoReport \in ReportType /\ {} \in Lists
BY DEF NoReport, Report, ReportType, Lists

LEMMA AbsentType == Absent \in Objects /\ 0 \in Versions
BY ReportsAssumption DEF Absent, Objects, Versions

LEMMA EntryType ==
  ASSUME NEW n \in Names, NEW obj \in Objects
  PROVE  Entry(n, obj) \in Entries
BY DEF Entry, Entries, Objects

-----------------------------------------------------------------------------
(* The processors of all kinds are instances of a few steps. *)

Step(r) ==
  \/ \E m \in DOMAIN flight :
       Receive(r, m, Taken(m)) \/ Receive(r, m, [Taken(m) EXCEPT !.full = @ \ {{}}])
  \/ FullList(r) \/ DeleteExcess(r) \/ DelMap(r)
  \/ call[r].at = "none" /\ \E e \in work[r].update : CreateOrUpdate(r, e) \/ CreateOrUpdatePod(r, e)
  \/ Create(r, 0, ThenTo(r, "read")) \/ Create(r, call[r].entry.version, ThenReturn(r))
  \/ Update(r)

LEMMA ReceiveStep ==
  ASSUME NEW r, NEW m, \/ handlePodReport(r, m) \/ handleNodeReport(r, m)
                       \/ handleDeploymentReport(r, m) \/ handleDaemonsetReport(r, m)
                       \/ handleServiceReport(r, m)
  PROVE  Receive(r, m, Taken(m)) \/ Receive(r, m, [Taken(m) EXCEPT !.full = @ \ {{}}])
BY DEF handlePodReport, handleNodeReport, handleDeploymentReport, handleDaemonsetReport,
       handleServiceReport

LEMMA StepOfKind ==
  ASSUME NEW r, \/ PodProcessor(r) \/ NodeProcessor(r) \/ DeploymentProcessor(r)
                \/ DaemonsetProcessor(r) \/ ServiceProcessor(r)
  PROVE  Step(r)
<1>1. CASE PodProcessor(r)
  BY <1>1, ReceiveStep, Zenon
     DEF Step, PodProcessor, handlePodFullList, handlePodUpdateMap, Updating, CreatePod, UpdatePod, handlePodDelMap
<1>2. CASE NodeProcessor(r)
  BY <1>2, ReceiveStep, Zenon
     DEF Step, NodeProcessor, handleNodeFullList, handleNodeUpdateMap, Updating, CreateNode, UpdateNode, handleNodeDelMap
<1>3. CASE DeploymentProcessor(r)
  BY <1>3, ReceiveStep, Zenon
     DEF Step, DeploymentProcessor, handleDeploymentFullList, handleDeploymentUpdateMap, Updating, CreateDeployment,
         UpdateDeployment, handleDeploymentDelMap
<1>4. CASE DaemonsetProcessor(r)
  BY <1>4, ReceiveStep, Zenon
     DEF Step, DaemonsetProcessor, handleDaemonsetFullList, handleDaemonsetUpdateMap, Updating, CreateDaemonset,
         UpdateDaemonset, handleDaemonsetDelMap
<1>5. CASE ServiceProcessor(r)
  BY <1>5, ReceiveStep, Zenon
     DEF Step, ServiceProcessor, handleServiceFullList, handleServiceUpdateMap, Updating, CreateService,
         UpdateService, handleServiceDelMap
<1> QED
  BY <1>1, <1>2, <1>3, <1>4, <1>5

-----------------------------------------------------------------------------
(* The processors *)

\* A write makes others conflict and leaves their calls alone otherwise.
LEMMA TouchedCalls ==
  ASSUME call \in [Replicas -> CallType], NEW r \in Replicas, NEW n \in Names
  PROVE  /\ Touched(r, n) \in [Replicas -> CallType]
         /\ \A q \in Replicas :
              /\ Touched(r, n)[q].at = call[q].at
              /\ Touched(r, n)[q].entry = call[q].entry
              /\ Touched(r, n)[q].fresh => call[q].fresh
              /\ q # r /\ call[q].at # "none" /\ call[q].entry.name = n => ~Touched(r, n)[q].fresh
BY Zenon DEF Touched, CallType

Stores == [version : Versions, status : Versions]

\* What a step of a processor has to keep of the center and the calls.
CallsOK ==
  /\ center \in [Names -> Stores]
  /\ call \in [Replicas -> CallType]
  /\ \A r \in Replicas : call[r].at # "none" => call[r].entry \in Entries
  /\ FreshReads

LEMMA EntryFields ==
  ASSUME NEW e \in Entries
  PROVE  e.name \in Names /\ e.version \in Versions /\ e.dying \in BOOLEAN
BY DEF Entries

\* A replica writes n and goes on with a call that has read nothing yet.
LEMMA WriteKeeps ==
  ASSUME CallsOK, NEW r \in Replicas, NEW n \in Names, NEW obj \in Stores,
         Stored(n) => obj.version >= center[n].version,
         center' = [center EXCEPT ![n] = obj],
         NEW c \in CallType, ~c.fresh, c.at # "none" => c.entry \in Entries,
         call' = [Touched(r, n) EXCEPT ![r] = c]
  PROVE  CallsOK' /\ Forward
<1> DEFINE T == Touched(r, n)
<1>1. /\ T \in [Replicas -> CallType]
      /\ \A q \in Replicas :
           /\ T[q].at = call[q].at
           /\ T[q].entry = call[q].entry
           /\ T[q].fresh => call[q].fresh
           /\ q # r /\ call[q].at # "none" /\ call[q].entry.name = n => ~T[q].fresh
  BY TouchedCalls DEF CallsOK
<1> HIDE DEF T
<1>2. call' = [T EXCEPT ![r] = c]
  BY DEF T
<1>3. center' \in [Names -> Stores] /\ call' \in [Replicas -> CallType]
  BY <1>1, <1>2, ZenonT(30) DEF CallsOK
<1>4. \A q \in Replicas : call'[q].at # "none" => call'[q].entry \in Entries
  BY <1>1, <1>2 DEF CallsOK
<1>5. ASSUME NEW q \in Replicas, call'[q].fresh
      PROVE  /\ call'[q].at # "none"
             /\ center'[call'[q].entry.name].version <= call'[q].entry.version
  <2>1. q # r /\ call'[q] = T[q]
    BY <1>1, <1>2, <1>5
  <2>2. /\ call[q].fresh /\ call[q].at # "none" /\ call[q].entry.name # n
        /\ center[call[q].entry.name].version <= call[q].entry.version
    BY <1>1, <1>5, <2>1 DEF CallsOK, FreshReads
  <2>3. call[q].entry.name \in Names
    BY <2>2, EntryFields DEF CallsOK
  <2>4. center'[call[q].entry.name] = center[call[q].entry.name]
    BY <2>2, <2>3 DEF CallsOK
  <2> QED
    BY <1>1, <2>1, <2>2, <2>4
<1>6. ASSUME NEW m \in Names, center[m].version # 0, center'[m].version # 0
      PROVE  center'[m].version >= center[m].version
  <2>1. center[m].version \in Nat
    BY ReportsAssumption DEF CallsOK, Stores, Versions
  <2> QED
    BY <1>6, <2>1 DEF CallsOK, Stored
<1>7. FreshReads'
  BY <1>5 DEF FreshReads
<1>8. Forward
  BY <1>6 DEF Forward
<1> QED
  BY <1>3, <1>4, <1>7, <1>8 DEF CallsOK

\* A replica deletes n.
LEMMA DeleteKeeps ==
  ASSUME CallsOK, NEW r \in Replicas, NEW n \in Names, DeleteStored(r, n)
  PROVE  CallsOK' /\ Forward
<1> DEFINE T == Touched(r, n)
<1>1. /\ T \in [Replicas -> CallType]
      /\ \A q \in Replicas :
           /\ T[q].at = call[q].at
           /\ T[q].entry = call[q].entry
           /\ T[q].fresh => call[q].fresh
  BY TouchedCalls DEF CallsOK
<1> HIDE DEF T
<1>2. call' = T /\ center' = [center EXCEPT ![n] = Gone]
  BY DEF T, DeleteStored
<1>3. Gone \in Stores /\ Gone.version = 0
  BY AbsentType DEF Gone, Stores
<1>4. center' \in [Names -> Stores]
  BY <1>2, <1>3 DEF CallsOK
<1>5. \A q \in Replicas : call'[q].at # "none" => call'[q].entry \in Entries
  BY <1>1, <1>2, Zenon DEF CallsOK
<1>6. ASSUME NEW q \in Replicas, call'[q].fresh
      PROVE  /\ call'[q].at # "none"
             /\ center'[call'[q].entry.name].version <= call'[q].entry.version
  <2>1. /\ call[q].fresh /\ call[q].at # "none"
        /\ center[call[q].entry.name].version <= call[q].entry.version
    BY <1>1, <1>2, <1>6 DEF CallsOK, FreshReads
  <2>2. call[q].entry.name \in Names /\ call[q].entry.version \in Nat
    BY <2>1, EntryFields, ReportsAssumption DEF CallsOK, Versions
  <2>3. center'[call[q].entry.name].version <= call[q].entry.version
    BY <1>2, <1>3, <2>1, <2>2 DEF CallsOK
  <2> QED
    BY <1>1, <1>2, <2>1, <2>3
<1>7. FreshReads'
  BY <1>6 DEF FreshReads
<1>8. ASSUME NEW m \in Names, center[m].version # 0, center'[m].version # 0
      PROVE  center'[m].version >= center[m].version
  <2>1. center[m].version \in Nat /\ center'[m] = center[m]
    BY <1>2, <1>3, <1>8, ReportsAssumption DEF CallsOK, Stores, Versions
  <2> QED
    BY <2>1
<1>9. Forward
  BY <1>8 DEF Forward
<1> QED
  BY <1>1, <1>2, <1>4, <1>5, <1>7, <1>9, Zenon DEF CallsOK

\* A replica leaves the center alone and goes on with another call.
LEMMA GoOnKeeps ==
  ASSUME CallsOK, NEW r \in Replicas, UNCHANGED center,
         NEW c \in CallType, call' = [call EXCEPT ![r] = c],
         c.at # "none" => c.entry \in Entries,
         c.fresh => c.at # "none" /\ center[c.entry.name].version <= c.entry.version
  PROVE  CallsOK' /\ Forward
<1>1. call' \in [Replicas -> CallType]
  BY DEF CallsOK
<1>2. FreshReads'
  BY DEF CallsOK, FreshReads
<1>3. Forward
  <2>1. \A n \in Names : center[n].version \in Nat
    BY ReportsAssumption DEF CallsOK, Stores, Versions
  <2> QED
    BY <2>1 DEF Forward
<1> QED
  BY <1>1, <1>2, <1>3 DEF CallsOK

LEMMA NoTries == 0 \in 0..(Tries - 1)
BY ProcessorAssumption

LEMMA NoCallType == NoCall \in CallType /\ NoCall.at = "none" /\ ~NoCall.fresh
BY NoTries DEF NoCall, CallType, Calls

\* Create, with what follows it.
LEMMA CreateKeeps ==
  ASSUME CallsOK, NEW r \in Replicas,
         \/ Create(r, 0, ThenTo(r, "read"))
         \/ Create(r, call[r].entry.version, ThenReturn(r))
  PROVE  CallsOK' /\ Forward /\ missed' \subseteq missed \cup Names /\ UNCHANGED <<work, flight>>
<1> DEFINE e == call[r].entry
<1>1. call[r].at = "create" /\ UNCHANGED <<work, flight>>
  BY DEF Create
<1>2. e \in Entries /\ e.name \in Names /\ e.version \in Versions
  BY <1>1, EntryFields DEF CallsOK
<1>3. CASE Stored(e.name)
  <2>1. Return(r) /\ UNCHANGED center /\ missed' = missed \cup {e.name}
    BY <1>3 DEF Create
  <2> QED
    BY <1>1, <1>2, <2>1, NoCallType, GoOnKeeps, Zenon DEF Return
<1>4. CASE ~Stored(e.name)
  <2>1. PICK status \in {0, e.version} :
          /\ center' = [center EXCEPT ![e.name] = [version |-> e.version, status |-> status]]
          /\ ThenTo(r, "read") \/ ThenReturn(r)
          /\ UNCHANGED missed
    BY <1>4 DEF Create
  <2>2. [version |-> e.version, status |-> status] \in Stores
    BY <1>2, AbsentType DEF Stores
  <2>3. CASE ThenReturn(r)
    BY <1>1, <1>2, <1>4, <2>1, <2>2, <2>3, NoCallType, WriteKeeps, Zenon DEF ThenReturn
  <2>4. CASE ThenTo(r, "read")
    <3> DEFINE c == [call[r] EXCEPT !.at = "read", !.fresh = FALSE, !.tries = 0]
    <3>1. c \in CallType /\ c.fresh = FALSE /\ c.entry = e
      BY NoTries, Zenon DEF CallsOK, CallType, Calls
    <3>2. call' = [Touched(r, e.name) EXCEPT ![r] = c]
      BY <2>4 DEF ThenTo
    <3> HIDE DEF c
    <3> QED
      BY <1>1, <1>2, <1>4, <2>1, <2>2, <3>1, <3>2, WriteKeeps, Zenon
  <2> QED
    BY <2>1, <2>3, <2>4, Zenon
<1> QED
  BY <1>3, <1>4

\* The Get that begins a try.
LEMMA ReadKeeps ==
  ASSUME CallsOK, NEW r \in Replicas, NEW from, NEW to \in Calls \ {"none"},
         from # "none", Read(r, from, to)
  PROVE  CallsOK' /\ Forward /\ UNCHANGED <<work, missed, flight>>
<1> DEFINE e == call[r].entry
           c == [call[r] EXCEPT !.at = to, !.fresh = TRUE]
<1>1. call[r].at = from /\ UNCHANGED <<center, work, missed, flight>>
  BY DEF Read
<1>2. e \in Entries /\ e.name \in Names /\ e.version \in Versions
  BY <1>1, EntryFields DEF CallsOK
<1>3. CASE Stored(e.name) /\ checkEdgeVersion(e)
  <2>1. call' = [call EXCEPT ![r] = c]
    BY <1>3, Zenon DEF Read, CallsOK, CallType
  <2>2. c \in CallType /\ c.at = to /\ c.entry = e
    BY Zenon DEF CallsOK, CallType
  <2>3. center[e.name].version <= e.version
    <3>1. center[e.name].version \in Nat /\ e.version \in Nat
      BY <1>2, ReportsAssumption DEF CallsOK, Stores, Versions
    <3> QED
      BY <1>3, <3>1 DEF checkEdgeVersion
  <2> HIDE DEF c
  <2> QED
    BY <1>1, <1>2, <2>1, <2>2, <2>3, GoOnKeeps, Zenon
<1>4. CASE ~(Stored(e.name) /\ checkEdgeVersion(e))
  BY <1>1, <1>4, NoCallType, GoOnKeeps DEF Read, Return
<1> QED
  BY <1>3, <1>4

\* A Put that is refused: the object is gone, or has changed since.
Refused(r, to) ==
  /\ \/ Return(r)
     \/ /\ ~call[r].fresh
        /\ call[r].tries + 1 < Tries
        /\ call' = [call EXCEPT ![r].at = to, ![r].tries = @ + 1]
  /\ UNCHANGED center

LEMMA RefusedKeeps ==
  ASSUME CallsOK, NEW r \in Replicas, NEW to \in Calls, call[r].at # "none", Refused(r, to)
  PROVE  CallsOK' /\ Forward
<1>1. CASE Return(r)
  BY <1>1, NoCallType, GoOnKeeps, Zenon DEF Refused, Return
<1>2. CASE ~Return(r)
  <2> DEFINE c == [call[r] EXCEPT !.at = to, !.tries = @ + 1]
  <2>1. call[r] \in CallType /\ ~call[r].fresh /\ call[r].entry \in Entries
    BY <1>2 DEF Refused, CallsOK
  <2>2. call[r].tries + 1 \in 0..(Tries - 1)
    BY <1>2, <2>1, ProcessorAssumption DEF Refused, CallType
  <2>3. c \in CallType /\ c.fresh = call[r].fresh /\ c.entry = call[r].entry
    BY <2>1, <2>2, Zenon DEF CallType
  <2>4. call' = [call EXCEPT ![r] = c]
    BY <1>2, <2>1, Zenon DEF Refused, CallsOK, CallType
  <2> HIDE DEF c
  <2> QED
    BY <2>1, <2>3, <2>4, GoOnKeeps, Zenon DEF Refused
<1> QED
  BY <1>1, <1>2

\* Update and UpdateStatus.
LEMMA UpdateKeeps ==
  ASSUME CallsOK, NEW r \in Replicas, Update(r)
  PROVE  CallsOK' /\ Forward /\ missed' \subseteq missed \cup Names /\ UNCHANGED <<work, flight>>
<1> DEFINE e == call[r].entry
<1>1. CASE Read(r, "read", "put") \/ Read(r, "readStatus", "putStatus")
  BY <1>1, ReadKeeps, Zenon DEF Calls
<1>2. ASSUME call[r].at \in {"put", "putStatus"}
      PROVE  /\ e \in Entries /\ e.name \in Names /\ e.version \in Versions
             /\ center[e.name] \in Stores
             /\ call[r].fresh => center[e.name].version <= e.version
             /\ center[e.name].version \in Nat /\ e.version \in Nat
  <2>1. e \in Entries /\ e.name \in Names /\ e.version \in Versions
    BY <1>2, EntryFields DEF CallsOK
  <2> QED
    BY <1>2, <2>1, ReportsAssumption DEF CallsOK, FreshReads, Stores, Versions
<1>3. CASE Put(r, "put", "read", [center[e.name] EXCEPT !.version = e.version], ThenTo(r, "readStatus"))
  <2> DEFINE obj == [center[e.name] EXCEPT !.version = e.version]
             c == [call[r] EXCEPT !.at = "readStatus", !.fresh = FALSE, !.tries = 0]
  <2>1. call[r].at = "put" /\ UNCHANGED <<work, flight>> /\ missed' \subseteq missed \cup {e.name}
    BY <1>3, ZenonT(30) DEF Put
  <2>2. \/ Refused(r, "read")
        \/ /\ call[r].fresh
           /\ center' = [center EXCEPT ![e.name] = obj]
           /\ call' = [Touched(r, e.name) EXCEPT ![r] = c]
    BY <1>3, ZenonT(30) DEF Put, Refused, ThenTo
  <2>3. CASE Refused(r, "read")
    BY <1>2, <2>1, <2>3, RefusedKeeps, Zenon DEF Calls
  <2>4. obj \in Stores /\ obj.version = e.version
    BY <1>2, <2>1 DEF Stores
  <2>5. c \in CallType /\ c.fresh = FALSE /\ c.entry = e
    BY NoTries, ZenonT(30) DEF CallsOK, CallType, Calls
  <2> HIDE DEF obj, c
  <2>6. CASE ~Refused(r, "read")
    BY <1>2, <2>1, <2>2, <2>4, <2>5, <2>6, WriteKeeps
  <2> QED
    BY <2>3, <2>6
<1>4. ASSUME NEW v \in {center[e.name].version, e.version}, call[r].at = "putStatus",
             Put(r, "putStatus", "readStatus", [version |-> v, status |-> e.version], ThenReturn(r))
      PROVE  CallsOK' /\ Forward /\ missed' \subseteq missed \cup Names /\ UNCHANGED <<work, flight>>
  <2> DEFINE obj == [version |-> v, status |-> e.version]
  <2>1. UNCHANGED <<work, flight>> /\ missed' \subseteq missed \cup {e.name}
    BY <1>4, ZenonT(30) DEF Put
  <2>2. \/ Refused(r, "readStatus")
        \/ /\ call[r].fresh
           /\ center' = [center EXCEPT ![e.name] = obj]
           /\ call' = [Touched(r, e.name) EXCEPT ![r] = NoCall]
    BY <1>4, ZenonT(30) DEF Put, Refused, ThenReturn
  <2>3. CASE Refused(r, "readStatus")
    BY <1>2, <1>4, <2>1, <2>3, RefusedKeeps, Zenon DEF Calls
  <2>4. obj \in Stores /\ obj.version = v
    BY <1>2, <1>4, Zenon DEF Stores
  <2>5. call[r].fresh => obj.version >= center[e.name].version
    BY <1>2, <1>4, <2>4
  <2> HIDE DEF obj
  <2>6. CASE ~Refused(r, "readStatus")
    <3>1. /\ call[r].fresh /\ e.name \in Names
          /\ center' = [center EXCEPT ![e.name] = obj]
          /\ call' = [Touched(r, e.name) EXCEPT ![r] = NoCall]
      BY <1>2, <1>4, <2>2, <2>6, Zenon
    <3> HIDE DEF e
    <3>2. CallsOK' /\ Forward
      BY <2>4, <2>5, <3>1, NoCallType, WriteKeeps, ZenonT(30)
    <3> QED
      BY <2>1, <3>1, <3>2, Zenon
  <2> QED
    BY <2>3, <2>6
<1> QED
  BY <1>1, <1>3, <1>4 DEF Update

LEMMA CallsOfTypes == ProcessorTypeOK /\ FreshReads => CallsOK
BY DEF ProcessorTypeOK, CallsOK, CallType, Stores

LEMMA TypesOfCalls ==
  ASSUME CallsOK, DOMAIN flight \subseteq ReportType, work \in [Replicas -> Works],
         missed \subseteq Names
  PROVE  ProcessorTypeOK /\ FreshReads
BY DEF ProcessorTypeOK, CallsOK, CallType, Stores

\* What is left of a report is less than before.
LEMMA WorkTypes ==
  ASSUME work \in [Replicas -> Works], NEW r \in Replicas
  PROVE  /\ work[r].full \in Lists /\ work[r].excess \subseteq Names
         /\ work[r].update \subseteq Entries /\ work[r].del \subseteq Names
         /\ \A n : [work EXCEPT ![r].excess = @ \ {n}] \in [Replicas -> Works]
         /\ \A e : [work EXCEPT ![r].update = @ \ {e}] \in [Replicas -> Works]
         /\ \A n : [work EXCEPT ![r].del = @ \ {n}] \in [Replicas -> Works]
         /\ \A S \in SUBSET Names : [work EXCEPT ![r].full = {}, ![r].excess = S] \in [Replicas -> Works]
BY NoReportType, Zenon DEF Works

LEMMA TakenTypes ==
  ASSUME NEW m \in ReportType
  PROVE  Taken(m) \in Works /\ [Taken(m) EXCEPT !.full = @ \ {{}}] \in Works
<1>1. m.full \in Lists /\ m.update \subseteq Entries /\ m.del \subseteq Names
  BY DEF ReportType
<1>2. Taken(m) \in Works
  BY <1>1 DEF Taken, Works
<1>3. m.full \ {{}} \in Lists
  BY <1>1, Zenon DEF Lists
<1> QED
  BY <1>2, <1>3, Zenon DEF Taken, Works

\* Every step of a processor.
LEMMA ProcessorKeeps ==
  ASSUME ProcessorTypeOK, FreshReads, ProcessorStep
  PROVE  ProcessorTypeOK' /\ FreshReads' /\ Forward
<1> DEFINE Typed == /\ DOMAIN flight \subseteq ReportType
                    /\ work \in [Replicas -> Works]
                    /\ missed \subseteq Names
<1>0. CallsOK /\ Typed
  BY CallsOfTypes DEF ProcessorTypeOK
<1> SUFFICES CallsOK' /\ Forward /\ Typed'
  <2>1. ASSUME CallsOK', Typed' PROVE ProcessorTypeOK' /\ FreshReads'
    BY <2>1 DEF ProcessorTypeOK, CallsOK, CallType, Stores
  <2> QED
    BY <2>1
<1>1. PICK r \in Replicas : Step(r)
  BY StepOfKind DEF ProcessorStep
<1>2. UNCHANGED <<center, call>> => CallsOK' /\ Forward
  <2>1. \A n \in Names : center[n].version \in Nat
    BY <1>0, ReportsAssumption DEF CallsOK, Stores, Versions
  <2> QED
    BY <1>0, <2>1 DEF CallsOK, FreshReads, Forward
<1>3. ASSUME NEW m \in DOMAIN flight,
             Receive(r, m, Taken(m)) \/ Receive(r, m, [Taken(m) EXCEPT !.full = @ \ {{}}])
      PROVE  CallsOK' /\ Forward /\ Typed'
  <2>1. PICK w \in Works : Receive(r, m, w)
    BY <1>0, <1>3, TakenTypes
  <2> QED
    BY <1>0, <1>2, <2>1, TookElements DEF Receive
<1>4. CASE FullList(r)
  <2>1. PICK L \in work[r].full :
          work' = [work EXCEPT ![r].full = {}, ![r].excess = {n \in Names : Stored(n)} \ L]
    BY <1>4, Zenon DEF FullList
  <2>2. work' \in [Replicas -> Works]
    BY <1>0, <2>1, WorkTypes, Zenon
  <2> QED
    BY <1>0, <1>2, <1>4, <2>2 DEF FullList
<1>5. CASE DeleteExcess(r)
  <2>1. PICK n \in work[r].excess :
          work' = [work EXCEPT ![r].excess = @ \ {n}] /\ DeleteStored(r, n)
    BY <1>5, Zenon DEF DeleteExcess
  <2>2. n \in Names /\ work' \in [Replicas -> Works]
    BY <1>0, <2>1, WorkTypes, Zenon
  <2> QED
    BY <1>0, <1>5, <2>1, <2>2, DeleteKeeps, Zenon DEF DeleteExcess, DeleteStored
<1>6. CASE DelMap(r)
  <2>1. PICK n \in work[r].del :
          work' = [work EXCEPT ![r].del = @ \ {n}] /\ DeleteStored(r, n)
    BY <1>6, Zenon DEF DelMap
  <2>2. n \in Names /\ work' \in [Replicas -> Works]
    BY <1>0, <2>1, WorkTypes, Zenon
  <2> QED
    BY <1>0, <1>6, <2>1, <2>2, DeleteKeeps, Zenon DEF DelMap, DeleteStored
<1>7. ASSUME NEW e \in work[r].update, CreateOrUpdate(r, e)
      PROVE  CallsOK' /\ Forward /\ Typed'
  <2> DEFINE c == [at |-> IF Stored(e.name) THEN "read" ELSE "create",
                   entry |-> e, fresh |-> FALSE, tries |-> 0]
  <2>1. e \in Entries /\ work' \in [Replicas -> Works]
    BY <1>0, <1>7, WorkTypes, Zenon DEF CreateOrUpdate
  <2>2. c \in CallType /\ c.entry = e /\ c.fresh = FALSE
    BY <2>1, NoTries DEF CallType, Calls
  <2>3. call' = [call EXCEPT ![r] = c] /\ UNCHANGED <<center, missed, flight>>
    BY <1>7 DEF CreateOrUpdate
  <2> HIDE DEF c
  <2> QED
    BY <1>0, <2>1, <2>2, <2>3, GoOnKeeps, Zenon
<1>8. ASSUME NEW e \in work[r].update, CreateOrUpdatePod(r, e)
      PROVE  CallsOK' /\ Forward /\ Typed'
  <2>1. CASE CreateOrUpdate(r, e)
    BY <1>7, <2>1
  <2>2. CASE /\ work' = [work EXCEPT ![r].update = @ \ {e}]
             /\ DeleteStored(r, e.name)
             /\ UNCHANGED flight
    <3>1. e \in Entries /\ work' \in [Replicas -> Works]
      BY <1>0, <2>2, WorkTypes, Zenon
    <3> QED
      BY <1>0, <2>2, <3>1, DeleteKeeps, EntryFields, Zenon DEF DeleteStored
  <2> QED
    BY <1>8, <2>1, <2>2 DEF CreateOrUpdatePod
<1>9. CASE Create(r, 0, ThenTo(r, "read")) \/ Create(r, call[r].entry.version, ThenReturn(r))
  BY <1>0, <1>9, CreateKeeps
<1>10. CASE Update(r)
  BY <1>0, <1>10, UpdateKeeps
<1> QED
  BY <1>1, <1>3, <1>4, <1>5, <1>6, <1>7, <1>8, <1>9, <1>10, Zenon DEF Step

-----------------------------------------------------------------------------
(* The reporters and the edge cluster *)

\* The processors and what is under way, when neither takes a step.
Quiet == UNCHANGED <<center, work, call, missed>>

LEMMA QuietKeeps ==
  ASSUME ProcessorTypeOK, FreshReads, Quiet, DOMAIN flight' \subseteq ReportType
  PROVE  ProcessorTypeOK' /\ FreshReads' /\ Forward
<1>1. \A n \in Names : center[n].version \in Nat
  BY ReportsAssumption DEF ProcessorTypeOK, Versions
<1> QED
  BY <1>1 DEF Quiet, ProcessorTypeOK, FreshReads, Forward

LEMMA StoreTypes ==
  ASSUME ReporterTypeOK, NEW n \in Names, NEW obj \in Objects, NEW seen \in Objects,
         NEW deleted \in BOOLEAN, Store(n, obj, seen, deleted), UNCHANGED <<kind, lightweight>>
  PROVE  ReporterTypeOK'
<1> DEFINE event == [obj |-> seen, deleted |-> deleted]
<1>1. event \in Events
  BY DEF Events
<1>2. clock' \in Versions
  BY ReportsAssumption DEF Store, ReporterTypeOK, Versions
<1>3. Append(events[n], event) \in Seq(Events)
  BY <1>1 DEF ReporterTypeOK
<1> HIDE DEF event
<1>4. events' = IF running THEN [events EXCEPT ![n] = Append(@, event)] ELSE events
  BY DEF Store, event
<1>5. events' \in [Names -> Seq(Events)]
  BY <1>3, <1>4 DEF ReporterTypeOK
<1>6. edge' \in [Names -> Objects]
  BY DEF Store, ReporterTypeOK
<1> QED
  BY <1>2, <1>5, <1>6 DEF Store, ReporterTypeOK

LEMMA EdgeTypes ==
  ASSUME ReporterTypeOK, EdgeStep, UNCHANGED <<kind, lightweight>>
  PROVE  ReporterTypeOK'
<1>1. ASSUME NEW n \in Names, Change(n) \/ Terminate(n) \/ Remove(n)
      PROVE  ReporterTypeOK'
  <2>1. edge[n] \in Objects /\ edge[n].dying \in BOOLEAN /\ Absent \in Objects
    BY AbsentType DEF ReporterTypeOK, Objects
  <2>2. clock < MaxVersion => clock + 1 \in Versions
    BY ReportsAssumption DEF ReporterTypeOK, Versions
  <2>3. CASE Change(n)
    <3> DEFINE obj == [version |-> clock + 1, dying |-> edge[n].dying]
    <3>1. Store(n, obj, obj, FALSE) /\ clock < MaxVersion
      BY <2>3 DEF Change, Store
    <3>2. obj \in Objects
      BY <2>1, <2>2, <3>1 DEF Objects
    <3> QED
      BY <3>1, <3>2, StoreTypes, Zenon
  <2>4. CASE Terminate(n)
    <3> DEFINE obj == [version |-> clock + 1, dying |-> TRUE]
    <3>1. Store(n, obj, obj, FALSE) /\ clock < MaxVersion
      BY <2>4 DEF Terminate, Store
    <3>2. obj \in Objects
      BY <2>2, <3>1 DEF Objects
    <3> QED
      BY <3>1, <3>2, StoreTypes, Zenon
  <2>5. CASE Remove(n)
    BY <2>1, <2>5, StoreTypes, Zenon DEF Remove
  <2> QED
    BY <1>1, <2>3, <2>4, <2>5
<1>2. CASE StopReporters
  <2>1. events' \in [Names -> Seq(Events)]
    BY <1>2 DEF StopReporters
  <2> QED
    BY <1>2, <2>1, NoReportType, Zenon DEF StopReporters, ReporterTypeOK
<1> QED
  BY <1>1, <1>2 DEF EdgeStep

LEMMA StartTypes ==
  ASSUME ReporterTypeOK, StartReporters, UNCHANGED <<kind, lightweight>>
  PROVE  ReporterTypeOK'
<1>1. \A n \in Names : [obj |-> edge[n], deleted |-> FALSE] \in Events
  BY DEF ReporterTypeOK, Events
<1>2. \A n \in Names : (IF Exists(n) THEN <<[obj |-> edge[n], deleted |-> FALSE]>> ELSE <<>>) \in Seq(Events)
  BY <1>1
<1>3. events' \in [Names -> Seq(Events)]
  BY <1>2 DEF StartReporters
<1>4. connects' \in 0..MaxConnects
  BY ReporterAssumption DEF StartReporters, ReporterTypeOK
<1> QED
  BY <1>3, <1>4, NoReportType DEF StartReporters, ReporterTypeOK, edgeVars

\* A handler takes a notification.
LEMMA HandlesTypes ==
  ASSUME ReporterTypeOK, NEW n \in Names, NEW deleted, Handles(n, deleted)
  PROVE  /\ Head(events[n]).obj \in Objects
         /\ events' \in [Names -> Seq(Events)]
         /\ UNCHANGED <<running, listing, connects, edge, clock, calm>>
<1>1. Head(events[n]) \in Events /\ Tail(events[n]) \in Seq(Events)
  BY DEF ReporterTypeOK, Handles
<1> QED
  BY <1>1, Zenon DEF ReporterTypeOK, Handles, Events, edgeVars

LEMMA PodTypes ==
  ASSUME ReporterTypeOK, DOMAIN flight \subseteq ReportType, PodReporter,
         UNCHANGED <<kind, lightweight>>
  PROVE  ReporterTypeOK' /\ DOMAIN flight' \subseteq ReportType
<1>0. podMap.full \in Lists /\ podMap.update \subseteq Entries /\ podMap.del \subseteq Names
  BY DEF ReporterTypeOK, ReportType
<1>1. ASSUME NEW n \in Names, handlePod(n)
      PROVE  ReporterTypeOK' /\ DOMAIN flight' \subseteq ReportType
  <2> DEFINE obj == ReportedPod(Head(events[n]).obj)
  <2>1. Handles(n, FALSE) /\ SetUpdateMap(n, obj) /\ UNCHANGED flight
    BY <1>1, Zenon DEF handlePod
  <2>2. obj \in Objects
    BY <2>1, HandlesTypes, Zenon DEF ReportedPod, lightWeightPod, Objects
  <2> HIDE DEF obj
  <2>3. Entry(n, obj) \in Entries
    BY <2>2, EntryType
  <2>4. podMap' \in ReportType
    BY <1>0, <2>1, <2>3, Zenon DEF SetUpdateMap, ReporterTypeOK, ReportType
  <2> QED
    BY <2>1, <2>4, HandlesTypes, Zenon DEF ReporterTypeOK
<1>2. ASSUME NEW n \in Names, deletePod(n)
      PROVE  ReporterTypeOK' /\ DOMAIN flight' \subseteq ReportType
  <2>1. Handles(n, TRUE) /\ SetDelMap(n) /\ UNCHANGED flight
    BY <1>2, Zenon DEF deletePod
  <2>2. podMap' \in ReportType
    BY <1>0, <2>1, Zenon DEF SetDelMap, ReporterTypeOK, ReportType
  <2> QED
    BY <2>1, <2>2, HandlesTypes, Zenon DEF ReporterTypeOK
<1>3. CASE reportFullListPod
  <2>1. {{n \in Names : Exists(n)}} \in Lists
    BY DEF Lists
  <2>2. podMap' \in ReportType
    BY <1>0, <1>3, <2>1, Zenon DEF reportFullListPod, ReporterTypeOK, ReportType
  <2> QED
    BY <1>3, <2>2, Zenon DEF reportFullListPod, ReporterTypeOK, edgeVars
<1>4. CASE sendClusterMessageToSyncChan
  <2>1. DOMAIN flight' = DOMAIN flight \cup {podMap}
    BY <1>4, SendElements DEF sendClusterMessageToSyncChan
  <2> QED
    BY <1>4, <2>1, NoReportType DEF sendClusterMessageToSyncChan, ReporterTypeOK, edgeVars
<1> QED
  BY <1>1, <1>2, <1>3, <1>4 DEF PodReporter

LEMMA ImmediateStep ==
  ASSUME ImmediateReporter
  PROVE  (\E n \in Names : ReportUpdate(n) \/ ReportDelete(n)) \/ ReportList
BY DEF ImmediateReporter, handleNode, deleteNode, reportFullListNode,
       handleDeployment, deleteDeployment, reportFullListDeployment,
       handleDaemonset, deleteDaemonset, reportFullListDaemonset,
       handleService, deleteService, reportFullListService

LEMMA ImmediateTypes ==
  ASSUME ReporterTypeOK, DOMAIN flight \subseteq ReportType, ImmediateReporter,
         UNCHANGED <<kind, lightweight>>
  PROVE  ReporterTypeOK' /\ DOMAIN flight' \subseteq ReportType
<1>1. ASSUME NEW n \in Names, ReportUpdate(n)
      PROVE  ReporterTypeOK' /\ DOMAIN flight' \subseteq ReportType
  <2> DEFINE m == Report({}, {Entry(n, Head(events[n]).obj)}, {})
  <2>1. Handles(n, FALSE) /\ Send(m) /\ UNCHANGED podMap
    BY <1>1, Zenon DEF ReportUpdate
  <2>2. Entry(n, Head(events[n]).obj) \in Entries
    BY <2>1, HandlesTypes, EntryType, Zenon
  <2>3. m \in ReportType
    BY <2>2, NoReportType DEF Report, ReportType
  <2> HIDE DEF m
  <2>4. DOMAIN flight' = DOMAIN flight \cup {m}
    BY <2>1, SendElements
  <2> QED
    BY <2>1, <2>3, <2>4, HandlesTypes, Zenon DEF ReporterTypeOK
<1>2. ASSUME NEW n \in Names, ReportDelete(n)
      PROVE  ReporterTypeOK' /\ DOMAIN flight' \subseteq ReportType
  <2> DEFINE m == Report({}, {}, {n})
  <2>1. Handles(n, TRUE) /\ Send(m) /\ UNCHANGED podMap
    BY <1>2, Zenon DEF ReportDelete
  <2>2. m \in ReportType
    BY NoReportType DEF Report, ReportType
  <2> HIDE DEF m
  <2>3. DOMAIN flight' = DOMAIN flight \cup {m}
    BY <2>1, SendElements
  <2> QED
    BY <2>1, <2>2, <2>3, HandlesTypes, Zenon DEF ReporterTypeOK
<1>3. CASE ReportList
  <2> DEFINE m == Report({{n \in Names : Exists(n)}}, {}, {})
  <2>1. Send(m)
    BY <1>3 DEF ReportList
  <2>2. {{n \in Names : Exists(n)}} \in Lists
    BY DEF Lists
  <2>3. m \in ReportType
    BY <2>2 DEF Report, ReportType
  <2> HIDE DEF m
  <2>4. DOMAIN flight' = DOMAIN flight \cup {m}
    BY <2>1, SendElements
  <2> QED
    BY <1>3, <2>3, <2>4, Zenon DEF ReportList, ReporterTypeOK, edgeVars
<1> QED
  BY <1>1, <1>2, <1>3, ImmediateStep

-----------------------------------------------------------------------------
(* The pipeline *)

LEMMA InitKeeps == Init => TypeOK /\ FreshReads
<1> SUFFICES ASSUME Init PROVE TypeOK /\ FreshReads
  OBVIOUS
<1>1. 0 \in Versions /\ 1 \in Versions
  BY ReportsAssumption DEF Versions
<1>2. ReporterTypeOK
  <2>1. [version |-> 1, dying |-> FALSE] \in Objects
    BY <1>1 DEF Objects
  <2>2. edge \in [Names -> Objects]
    BY <2>1, AbsentType, Zenon DEF Init, ReporterInit
  <2>3. events \in [Names -> Seq(Events)]
    BY DEF Init, ReporterInit
  <2>4. connects \in 0..MaxConnects
    BY ReporterAssumption DEF Init, ReporterInit
  <2> QED
    BY <1>1, <2>2, <2>3, <2>4, NoReportType, Zenon DEF Init, ReporterInit, ReporterTypeOK
<1>3. ProcessorTypeOK
  <2>1. center \in [Names -> [version : Versions, status : Versions]]
    BY <1>1 DEF Init, ProcessorInit, Gone
  <2>2. work \in [Replicas -> Works]
    BY NoReportType DEF Init, ProcessorInit, NoWork, Works
  <2>3. call \in [Replicas -> CallType] /\ \A r \in Replicas : call[r].at = "none"
    BY NoCallType DEF Init, ProcessorInit
  <2>4. DOMAIN flight = {} /\ missed = {}
    BY NothingInNoFlight DEF Init, ProcessorInit
  <2> QED
    BY <2>1, <2>2, <2>3, <2>4 DEF ProcessorTypeOK, CallType
<1>4. FreshReads
  BY NoCallType DEF Init, ProcessorInit, FreshReads
<1>5. lost \in 0..MaxLost
  BY PipelineAssumption DEF Init
<1> QED
  BY <1>2, <1>3, <1>4, <1>5 DEF TypeOK

LEMMA PipelineStep ==
  ASSUME TypeOK, FreshReads, [Next]_vars
  PROVE  TypeOK' /\ FreshReads' /\ Forward
<1>0. ReporterTypeOK /\ ProcessorTypeOK /\ lost \in 0..MaxLost /\ DOMAIN flight \subseteq ReportType
  BY DEF TypeOK, ProcessorTypeOK
<1>1. CASE EdgeStep /\ UNCHANGED <<fixed, flight, processorVars, lost>>
  <2>1. ReporterTypeOK'
    BY <1>0, <1>1, EdgeTypes DEF fixed
  <2>2. ProcessorTypeOK' /\ FreshReads' /\ Forward
    BY <1>0, <1>1, QuietKeeps DEF Quiet, processorVars
  <2> QED
    BY <1>0, <1>1, <2>1, <2>2 DEF TypeOK
<1>2. CASE Starting
  <2>1. ReporterTypeOK'
    BY <1>0, <1>2, StartTypes DEF Starting, fixed
  <2>2. ProcessorTypeOK' /\ FreshReads' /\ Forward
    BY <1>0, <1>2, QuietKeeps DEF Starting, Quiet, processorVars
  <2> QED
    BY <1>0, <1>2, <2>1, <2>2 DEF Starting, TypeOK
<1>3. CASE Reporting
  <2>1. UNCHANGED <<kind, lightweight, center, work, call, missed, lost>>
    BY <1>3 DEF Reporting, fixed, processorVars
  <2>2. ReporterTypeOK' /\ DOMAIN flight' \subseteq ReportType
    BY <1>0, <1>3, <2>1, PodTypes, ImmediateTypes DEF Reporting, ReporterStep
  <2>3. ProcessorTypeOK' /\ FreshReads' /\ Forward
    BY <1>0, <2>1, <2>2, QuietKeeps DEF Quiet
  <2> QED
    BY <1>0, <2>1, <2>2, <2>3 DEF TypeOK
<1>4. CASE Processing
  <2>1. ReporterTypeOK' /\ UNCHANGED lost
    BY <1>0, <1>4 DEF Processing, fixed, edgeVars, reporterVars, ReporterTypeOK
  <2>2. ProcessorTypeOK' /\ FreshReads' /\ Forward
    BY <1>0, <1>4, ProcessorKeeps, Zenon DEF Processing
  <2> QED
    BY <1>0, <2>1, <2>2 DEF TypeOK
<1>5. CASE Calm
  <2>1. ReporterTypeOK' /\ UNCHANGED lost
    BY <1>0, <1>5 DEF Calm, CalmDown, fixed, reporterVars, ReporterTypeOK
  <2>2. ProcessorTypeOK' /\ FreshReads' /\ Forward
    BY <1>0, <1>5, QuietKeeps DEF Calm, Quiet, processorVars
  <2> QED
    BY <1>0, <2>1, <2>2 DEF TypeOK
<1>6. ASSUME NEW m \in DOMAIN flight, Lose(m)
      PROVE  TypeOK' /\ FreshReads' /\ Forward
  <2>1. ReporterTypeOK'
    BY <1>0, <1>6 DEF Lose, fixed, edgeVars, reporterVars, ReporterTypeOK
  <2>2. lost' \in 0..MaxLost
    BY <1>0, <1>6, PipelineAssumption DEF Lose
  <2>3. DOMAIN flight' \subseteq ReportType
    BY <1>0, <1>6, TookElements, Zenon DEF Lose
  <2>4. missed' \subseteq Names
    <3>1. m.update \subseteq Entries
      BY <1>0 DEF ReportType
    <3>2. \A e \in m.update : e.name \in Names
      BY <3>1, EntryFields
    <3> QED
      BY <1>0, <1>6, <3>2 DEF Lose, ProcessorTypeOK
  <2>5. UNCHANGED <<center, work, call>>
    BY <1>6, ZenonT(30) DEF Lose
  <2>6. ProcessorTypeOK' /\ FreshReads'
    BY <1>0, <2>3, <2>4, <2>5, ZenonT(30) DEF ProcessorTypeOK, FreshReads
  <2>7. Forward
    <3>1. \A n \in Names : center[n].version \in Nat
      BY <1>0, ReportsAssumption DEF ProcessorTypeOK, Versions
    <3> QED
      BY <2>5, <3>1 DEF Forward
  <2> QED
    BY <2>1, <2>2, <2>6, <2>7, Zenon DEF TypeOK
<1>7. CASE UNCHANGED vars
  <2>1. ReporterTypeOK' /\ UNCHANGED lost
    BY <1>0, <1>7 DEF vars, edgeVars, reporterVars, ReporterTypeOK
  <2>2. ProcessorTypeOK' /\ FreshReads' /\ Forward
    BY <1>0, <1>7, QuietKeeps DEF vars, Quiet, processorVars
  <2> QED
    BY <1>0, <2>1, <2>2 DEF TypeOK
<1> QED
  BY <1>1, <1>2, <1>3, <1>4, <1>5, <1>6, <1>7 DEF Next

(***************************************************************************)
(* Every variable of the pipeline keeps its type; in particular a replica  *)
(* gives up after the tries that RetryOnConflict has.                      *)
(***************************************************************************)
THEOREM TypeCorrect == Spec => []TypeOK
<1>1. TypeOK /\ FreshReads /\ [Next]_vars => (TypeOK /\ FreshReads)'
  BY PipelineStep
<1> QED
  BY InitKeeps, <1>1, PTL DEF Spec

(***************************************************************************)
(* VersionForward for every instance: no interleaving of replicas takes    *)
(* the edge-version of an object back, because a Put that succeeds follows *)
(* a checkEdgeVersion of the object as it still is.                        *)
(***************************************************************************)
THEOREM VersionsOnlyGrow == Spec => VersionForward
<1>1. TypeOK /\ FreshReads /\ [Next]_vars => (TypeOK /\ FreshReads)'
  BY PipelineStep
<1>2. TypeOK /\ FreshReads /\ [Next]_vars
        => [\A n \in Names : center[n].version # 0 /\ center[n].version' # 0
                               => center[n].version' >= center[n].version]_vars
  BY PipelineStep DEF Forward
<1> QED
  BY InitKeeps, <1>1, <1>2, PTL DEF Spec, VersionForward
=============================================================================

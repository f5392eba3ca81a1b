--------------------------- MODULE ReportPipeline ---------------------------
(***************************************************************************)
(* Reporters at the edge, reports under way, and upstream processors at    *)
(* the center.  Reports overtake each other and may be lost: the shim      *)
(* drops what it cannot write, and so does a cluster controller whose      *)
(* ChildMessageChan is full.                                               *)
(***************************************************************************)
EXTENDS EdgeReporter, UpstreamProcessor

CONSTANTS
  MaxLost,    \* bound: reports lost
  MaxEvents   \* bound: writes, starts and losses together

ASSUME PipelineAssumption == MaxLost \in Nat /\ MaxEvents \in Nat

VARIABLE lost

vars == <<kind, lightweight, flight, edgeVars, reporterVars, processorVars, lost>>

\* Types of all variables.
TypeOK == ReporterTypeOK /\ ProcessorTypeOK /\ lost \in 0..MaxLost

Init == ReporterInit /\ ProcessorInit /\ lost = 0

NothingUnderWay == flight = NoFlight /\ \A r \in Replicas : Idle(r)

fixed == <<kind, lightweight>>

\* A report does not arrive.
Lose(m) ==
  /\ ~calm
  /\ lost < MaxLost
  /\ lost' = lost + 1
  /\ Took(m)
  /\ missed' = missed \cup {e.name : e \in m.update}
  /\ UNCHANGED <<fixed, center, work, call, edgeVars, reporterVars>>

\* A moment to look at: nothing is under way and nothing changes any more.
Calm ==
  /\ ~running /\ NothingUnderWay
  /\ CalmDown
  /\ UNCHANGED <<fixed, flight, processorVars, lost>>

Starting ==
  /\ StartReporters
  /\ clock + connects' + lost <= MaxEvents
  /\ UNCHANGED <<fixed, flight, processorVars, lost>>

Reporting == ReporterStep /\ UNCHANGED <<fixed, processorVars, lost>>

Processing == ProcessorStep /\ UNCHANGED <<fixed, edgeVars, reporterVars, lost>>

Next ==
  \/ EdgeStep /\ UNCHANGED <<fixed, flight, processorVars, lost>>
               /\ clock' + connects + lost <= MaxEvents
  \/ Starting
  \/ Reporting
  \/ Processing
  \/ Calm
  \/ \E m \in DOMAIN flight : Lose(m) /\ clock + connects + lost' <= MaxEvents

Spec == Init /\ [][Next]_vars

\* Goroutines run, and a cluster controller that is gone connects again.  All
\* of it ends when nothing changes, so that one condition is enough; it is
\* assumed for the time when the edge stays as it is only.
FairSpec == Spec /\ WF_vars(calm /\ (Reporting \/ Processing \/ Starting))

-----------------------------------------------------------------------------
(***************************************************************************)
(* The edge-version of a stored object never goes back while the object    *)
(* exists, whatever overtakes what and whichever replicas handle it:       *)
(* checkEdgeVersion is asked again after every conflict.                   *)
(***************************************************************************)
VersionForward ==
  [][\A n \in Names : center[n].version # 0 /\ center[n].version' # 0
                        => center[n].version' >= center[n].version]_vars

Settled ==
  /\ running /\ ~listing
  /\ \A n \in Names : events[n] = <<>>
  /\ podMap = NoReport
  /\ NothingUnderWay

(***************************************************************************)
(* Updates commute: once every report has been handled, the center has the *)
(* last version and the last status of every object, in whatever order the *)
(* reports came and although the two parts are written separately.  Left   *)
(* out are objects that were deleted at the center or of which a report    *)
(* was lost or given up.                                                   *)
(***************************************************************************)
SettledAgrees ==
  Settled => \A n \in Names :
               Exists(n) /\ ~edge[n].dying /\ n \notin missed
                 => center[n] = [version |-> edge[n].version, status |-> edge[n].version]

\* An entry is on its way to the center.
Carried(e) ==
  \/ e \in podMap.update
  \/ \E m \in DOMAIN flight : e \in m.update
  \/ \E r \in Replicas : e \in work[r].update
  \/ \E r \in Replicas : call[r].at # "none" /\ call[r].entry = e

\* A version that was given to n, and the last one if n has it now.
Given(n, v) == v \in 1..clock /\ (Exists(n) => v <= edge[n].version)

\* No version goes ahead of the object at the edge.
NotAhead ==
  /\ \A n \in Names : edge[n].version <= clock
  /\ \A n \in Names : Stored(n) => Given(n, center[n].version)
  /\ \A n \in Names : \A i \in 1..Len(events[n]) : Given(n, events[n][i].obj.version)
  /\ \A e \in Entries : Carried(e) => Given(e.name, e.version)

\* An object that is being updated exists, unless it was deleted, and has the
\* version of the entry when the status is written.
CallsFollow ==
  \A r \in Replicas :
    call[r].at \notin {"none", "create"} /\ call[r].entry.name \notin missed =>
      /\ Stored(call[r].entry.name)
      /\ call[r].at \in {"readStatus", "putStatus"} =>
           call[r].entry.version <= center[call[r].entry.name].version

\* The last notification is the object as it is.
LastNotified ==
  \A n \in Names :
    running /\ Exists(n) /\ events[n] # <<>> =>
      events[n][Len(events[n])] = [obj |-> edge[n], deleted |-> FALSE]

\* Why SettledAgrees holds: the last version of an object is at the center,
\* or it is on its way.
LastUnderWay ==
  \A n \in Names :
    running /\ Exists(n) /\ n \notin missed =>
      \/ events[n] # <<>>
      \/ \E e \in Entries : Carried(e) /\ e.name = n /\ e.version = edge[n].version
      \/ center[n] = [version |-> edge[n].version, status |-> edge[n].version]

\* What the center should have of n.
Expected(n) ==
  IF kind = "pod" /\ edge[n].dying /\ ~lightweight THEN 0 ELSE edge[n].version

\* The bounds allow for another start.
StartsLeft == connects < MaxConnects /\ clock + connects + lost < MaxEvents

\* The list of pods is not sent when it is empty.
ListIsSent == kind = "pod" => \E n \in Names : Exists(n)

(***************************************************************************)
(* Reporters that start while nothing is under way repair the center,      *)
(* whatever was lost, overtaken, deleted or recreated before: the list     *)
(* removes what is in excess and the informer reports the rest.            *)
(***************************************************************************)
RestartHeals ==
  (calm /\ ~running /\ StartsLeft /\ NothingUnderWay /\ ListIsSent)
    ~> (\A n \in Names : center[n].version = Expected(n))
=============================================================================

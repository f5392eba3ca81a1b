------------------------ MODULE ReportSettledProofs ------------------------
(***************************************************************************)
(* For every set of objects and replicas, any number of changes, losses    *)
(* and conflicts: when every report has been handled, the center has the   *)
(* last version and status of every object that was not left out.          *)
(***************************************************************************)
EXTENDS ReportPipelineProofs

\* A leaf without a method of its own is left to SMT, and given time.
USE SMTT(30)

\* Only the report that is taken leaves.
LEMMA OthersStay ==
  ASSUME NEW m, Took(m)
  PROVE  \A x \in DOMAIN flight : x # m => x \in DOMAIN flight'
BY DEF Took

\* The center has what the edge has of n.
Current(n) == center[n] = [version |-> edge[n].version, status |-> edge[n].version]

LEMMA CurrentFields ==
  ASSUME NEW n, Current(n)
  PROVE  center[n].version = edge[n].version /\ center[n].status = edge[n].version
BY DEF Current

\* What a step of a processor does to the entries and to the center.
Onward ==
  /\ missed \subseteq missed'
  /\ \A e \in Entries : Carried(e)' => Carried(e)
  /\ \A n \in Names : Stored(n)' =>
       \/ center'[n].version = center[n].version
       \/ \E e \in Entries : Carried(e) /\ e.name = n /\ e.version = center'[n].version
  /\ \A n \in Names \ missed' : Exists(n) /\ Current(n) => Current(n)'
  /\ \A e \in Entries :
       /\ Carried(e) /\ e.name \notin missed'
       /\ Exists(e.name) /\ e.version = edge[e.name].version
       => Carried(e)' \/ Current(e.name)'
  /\ CallsFollow'

\* A replica takes a report.
LEMMA ReceiveOnward ==
  ASSUME TypeOK, CallsFollow, NEW r \in Replicas, NEW m \in DOMAIN flight,
         NEW w \in Works, w.update = m.update, Receive(r, m, w), UNCHANGED <<edgeVars, podMap>>
  PROVE  Onward
<1>1. /\ UNCHANGED <<center, call, missed, edge, podMap>> /\ work[r] = NoWork
      /\ work' = [work EXCEPT ![r] = w] /\ Took(m)
  BY DEF Receive, Idle, edgeVars
<1>2. work[r].update = {} /\ work'[r].update = m.update
      /\ \A q \in Replicas \ {r} : work'[q] = work[q]
  BY <1>1 DEF NoWork, TypeOK, ProcessorTypeOK
<1>3. /\ DOMAIN flight' \subseteq DOMAIN flight
      /\ \A x \in DOMAIN flight : x # m => x \in DOMAIN flight'
  BY <1>1, TookElements, OthersStay
<1>4. \A e \in Entries : Carried(e)' <=> Carried(e)
  BY <1>1, <1>2, <1>3, Zenon DEF Carried
<1>5. CallsFollow'
  BY <1>1 DEF CallsFollow, Stored
<1> QED
  BY <1>1, <1>3, <1>4, <1>5 DEF Onward, Current

\* Calls keep their entries, except that of r.
SameCalls(r) ==
  \A q \in Replicas \ {r} : call'[q].at = call[q].at /\ call'[q].entry = call[q].entry

\* The keys in excess are found.
LEMMA FullListOnward ==
  ASSUME TypeOK, CallsFollow, NEW r \in Replicas, FullList(r),
         UNCHANGED <<edgeVars, podMap>>
  PROVE  Onward
<1>1. UNCHANGED <<center, call, missed, flight, edge, podMap>>
  BY DEF FullList, edgeVars
<1>2. \A q \in Replicas : work'[q].update = work[q].update
  BY DEF FullList, TypeOK, ProcessorTypeOK, Works
<1>3. \A e \in Entries : Carried(e)' <=> Carried(e)
  BY <1>1, <1>2, Zenon DEF Carried
<1>4. CallsFollow'
  BY <1>1 DEF CallsFollow, Stored
<1> QED
  BY <1>1, <1>3, <1>4 DEF Onward, Current

\* An object is deleted at the center, which is left out from then on.
LEMMA DeleteOnward ==
  ASSUME TypeOK, FreshReads, CallsFollow, NEW r \in Replicas, NEW n \in Names,
         DeleteStored(r, n), UNCHANGED <<edgeVars, podMap, flight>>,
         \A q \in Replicas : work'[q].update \subseteq work[q].update,
         \A q \in Replicas : \A e \in work[q].update : e.name = n \/ e \in work'[q].update
  PROVE  Onward
<1>1. /\ UNCHANGED <<edge, podMap, flight>>
      /\ center' = [center EXCEPT ![n] = Gone] /\ missed' = missed \cup {n}
      /\ call' = Touched(r, n)
  BY DEF DeleteStored, edgeVars
<1>2. \A q \in Replicas : call'[q].at = call[q].at /\ call'[q].entry = call[q].entry
  BY <1>1, TouchedCalls, CallsOfTypes DEF TypeOK, CallsOK
<1>3. \A e \in Entries : Carried(e)' => Carried(e)
  BY <1>1, <1>2 DEF Carried
<1>4. \A e \in Entries : Carried(e) /\ e.name # n => Carried(e)'
  BY <1>1, <1>2 DEF Carried
<1>5. \A m \in Names \ {n} : center'[m] = center[m]
  BY <1>1 DEF TypeOK, ProcessorTypeOK
<1>6. ~Stored(n)'
  BY <1>1, ZenonT(30) DEF TypeOK, ProcessorTypeOK, Stored, Gone
<1>7. CallsFollow'
  <2> SUFFICES ASSUME NEW q \in Replicas, call'[q].at \notin {"none", "create"},
                      call'[q].entry.name \notin missed'
               PROVE  /\ Stored(call[q].entry.name)'
                      /\ call'[q].at \in {"readStatus", "putStatus"} =>
                           call'[q].entry.version <= center'[call'[q].entry.name].version
    BY <1>2 DEF CallsFollow
  <2>1. call[q].entry.name \in Names \ {n} /\ call[q].entry.name \notin missed
    BY <1>1, <1>2, EntryFields DEF TypeOK, ProcessorTypeOK
  <2> QED
    BY <1>2, <1>5, <2>1 DEF CallsFollow, Stored
<1>8. \A m \in Names : Stored(m)' => center'[m].version = center[m].version
  BY <1>5, <1>6
<1>9. \A m \in Names \ missed' : Exists(m) /\ Current(m) => Current(m)'
  BY <1>1, <1>5 DEF Current
<1> QED
  BY <1>1, <1>3, <1>4, <1>7, <1>8, <1>9 DEF Onward

\* CreateOrUpdate takes an entry out of the report and looks for its object.
LEMMA BeginOnward ==
  ASSUME TypeOK, CallsFollow, NEW r \in Replicas, call[r].at = "none",
         NEW e \in work[r].update, CreateOrUpdate(r, e), UNCHANGED <<edgeVars, podMap>>
  PROVE  Onward
<1>1. /\ UNCHANGED <<center, missed, flight, edge, podMap>>
      /\ work' = [work EXCEPT ![r].update = @ \ {e}]
      /\ call' = [call EXCEPT ![r] = [at |-> IF Stored(e.name) THEN "read" ELSE "create",
                                      entry |-> e, fresh |-> FALSE, tries |-> 0]]
  BY DEF CreateOrUpdate, edgeVars
<1>2. /\ work'[r].update = work[r].update \ {e}
      /\ \A q \in Replicas \ {r} : work'[q] = work[q]
  BY <1>1 DEF TypeOK, ProcessorTypeOK, Works
<1>3. /\ call'[r].at # "none" /\ call'[r].entry = e
      /\ call'[r].at \notin {"none", "create"} => call'[r].at = "read" /\ Stored(e.name)
      /\ \A q \in Replicas \ {r} : call'[q] = call[q]
  BY <1>1 DEF TypeOK, ProcessorTypeOK
<1>4. \A x \in Entries : Carried(x)' => Carried(x)
  BY <1>1, <1>2, <1>3 DEF Carried
<1>5. \A x \in Entries : Carried(x) => Carried(x)'
  BY <1>1, <1>2, <1>3, Zenon DEF Carried
<1>6. CallsFollow'
  BY <1>1, <1>3 DEF CallsFollow, Stored
<1> QED
  BY <1>1, <1>4, <1>5, <1>6 DEF Onward, Current

\* What is under way is the same, except for the entry of a call that ends.
LEMMA CallMoves ==
  ASSUME NEW r \in Replicas, call[r].at # "none", SameCalls(r),
         UNCHANGED <<work, flight, podMap>>,
         call'[r].at = "none" \/ call'[r].entry = call[r].entry
  PROVE  /\ \A x \in Entries : Carried(x)' => Carried(x)
         /\ \A x \in Entries :
              Carried(x) => Carried(x)' \/ (x = call[r].entry /\ call'[r].at = "none")
<1>1. \A x \in Entries : Carried(x)' => Carried(x)
  BY DEF Carried, SameCalls
<1>2. \A x \in Entries :
        Carried(x) => Carried(x)' \/ (x = call[r].entry /\ call'[r].at = "none")
  BY DEF Carried, SameCalls
<1> QED
  BY <1>1, <1>2

\* The entry of a call is one that is under way.
LEMMA CallEntry ==
  ASSUME TypeOK, NotAhead, NEW r \in Replicas, call[r].at # "none"
  PROVE  /\ call[r].entry \in Entries /\ call[r].entry.name \in Names
         /\ Carried(call[r].entry) /\ call[r].entry.version \in Nat \ {0}
         /\ Given(call[r].entry.name, call[r].entry.version)
<1>1. call[r].entry \in Entries /\ Carried(call[r].entry)
  BY DEF TypeOK, ProcessorTypeOK, Carried
<1>2. call[r].entry.name \in Names /\ Given(call[r].entry.name, call[r].entry.version)
  BY <1>1, EntryFields DEF NotAhead
<1>3. clock \in Nat
  BY ReportsAssumption DEF TypeOK, ReporterTypeOK, Versions
<1> QED
  BY <1>1, <1>2, <1>3 DEF Given

\* A request that leaves the center as it is.  A call ends without a write
\* when the object is left out or the entry is not its last version.
LEMMA StayOnward ==
  ASSUME TypeOK, NotAhead, CallsFollow, NEW r \in Replicas,
         call[r].at \notin {"none"}, NEW c, call' = [call EXCEPT ![r] = c],
         UNCHANGED <<edgeVars, podMap, center, work, flight>>, missed \subseteq missed',
         c.at = "none" =>
           \/ call[r].entry.name \in missed'
           \/ Exists(call[r].entry.name) => call[r].entry.version # edge[call[r].entry.name].version,
         c.at # "none" =>
           /\ c.entry = call[r].entry /\ call[r].at # "create"
           /\ c.at \in {"readStatus", "putStatus"} => call[r].at \in {"readStatus", "putStatus"}
  PROVE  Onward
<1> DEFINE e == call[r].entry
<1>1. call'[r] = c /\ \A q \in Replicas \ {r} : call'[q] = call[q]
  BY DEF TypeOK, ProcessorTypeOK
<1>2. edge' = edge /\ SameCalls(r)
  BY <1>1 DEF edgeVars, SameCalls
<1>3. /\ \A x \in Entries : Carried(x)' => Carried(x)
      /\ \A x \in Entries : Carried(x) => Carried(x)' \/ (x = e /\ call'[r].at = "none")
  BY <1>1, <1>2, CallMoves, ZenonT(30)
<1>4. CallsFollow'
  BY <1>1 DEF CallsFollow, Stored
<1> QED
  BY <1>1, <1>2, <1>3, <1>4 DEF Onward, Current

\* Versions are ordered.
LEMMA VersionOrder ==
  /\ \A a \in Nat : a <= a
  /\ \A a, b \in Nat : a <= b /\ b <= a => b = a
  /\ \A a, b, c \in Nat : a <= b /\ b <= c => a <= c
OBVIOUS

\* A request in the call of r stores obj as n and goes on with c.
Writes(r, n, obj, c) ==
  /\ call[r].at # "none" /\ call[r].entry.name = n
  /\ center' = [center EXCEPT ![n] = obj]
  /\ call' = [Touched(r, n) EXCEPT ![r] = c]
  /\ UNCHANGED <<edgeVars, podMap, missed, work, flight>>

\* What obj takes from the object and from the entry v.
Renews(n, v, obj) ==
  /\ obj.version \in {center[n].version, v} /\ obj.version # 0
  /\ obj.status \in {0, center[n].status, v}
  /\ Stored(n) => /\ center[n].version <= v /\ center[n].version <= obj.version
                  /\ obj.status \in {center[n].status, v}

\* The call ends with everything written, or goes on with the same entry.
GoesOn(r, n, obj, c) ==
  LET e == call[r].entry
  IN  /\ c.at = "none" => n \in missed \/ (obj.version = e.version /\ obj.status = e.version)
      /\ c.at # "none" => /\ c.entry = e /\ c.at \in {"read", "readStatus"}
                          /\ obj.version = e.version

\* A request that writes the object of the call.
LEMMA WriteOnward ==
  ASSUME TypeOK, NotAhead, CallsFollow, NEW r \in Replicas, NEW n \in Names, NEW obj \in Stores,
         NEW c, Writes(r, n, obj, c), Renews(n, call[r].entry.version, obj), GoesOn(r, n, obj, c)
  PROVE  Onward
<1>0. PICK e \in Entries : /\ e = call[r].entry /\ e.name = n /\ Carried(e)
                           /\ e.version \in Nat \ {0} /\ Given(n, e.version)
  BY CallEntry, Zenon DEF Writes
<1>1. center[n].version \in Nat /\ edge[n].version \in Nat /\ obj.version \in Nat \ {0}
  BY ReportsAssumption DEF TypeOK, ProcessorTypeOK, ReporterTypeOK, Versions, Objects, Stores, Renews
<1>2. /\ UNCHANGED <<edge, podMap, missed, work, flight>> /\ call'[r] = c /\ call[r].at # "none"
      /\ \A q \in Replicas \ {r} : call'[q].at = call[q].at /\ call'[q].entry = call[q].entry
  BY TouchedCalls DEF Writes, edgeVars, TypeOK, ProcessorTypeOK, CallType
<1>3. center'[n] = obj /\ \A m \in Names \ {n} : center'[m] = center[m]
  BY Zenon DEF Writes, TypeOK, ProcessorTypeOK
<1>4. /\ \A x \in Entries : Carried(x)' => Carried(x)
      /\ \A x \in Entries : Carried(x) => Carried(x)' \/ (x = e /\ c.at = "none")
  <2>1. SameCalls(r)
    BY <1>2 DEF SameCalls
  <2>2. c.at = "none" \/ c.entry = call[r].entry
    BY ZenonT(30) DEF GoesOn
  <2> QED
    BY <1>0, <1>2, <2>1, <2>2, CallMoves, ZenonT(30)
<1>5. ASSUME NEW q \in Replicas, call'[q].at \notin {"none", "create"}, call'[q].entry.name \notin missed
      PROVE  /\ center'[call'[q].entry.name].version # 0
             /\ call'[q].at \in {"readStatus", "putStatus"} =>
                  call'[q].entry.version <= center'[call'[q].entry.name].version
  <2>1. CASE q = r
    <3>1. call'[q].entry = e /\ obj.version = e.version
      BY <1>0, <1>2, <1>5, <2>1 DEF GoesOn
    <3>2. center'[call'[q].entry.name].version = e.version
      BY <1>0, <1>3, <3>1, ZenonT(30)
    <3> QED
      BY <1>0, <3>1, <3>2, VersionOrder, ZenonT(30)
  <2>2. CASE q # r
    <3>1. call'[q].at = call[q].at /\ call'[q].entry = call[q].entry
      BY <1>2, <2>2
    <3>2. PICK x : x = call[q].entry /\ x.name \in Names /\ x.version \in Nat
      BY <1>5, <3>1, CallEntry, Zenon
    <3>3. /\ Stored(x.name)
          /\ call[q].at \in {"readStatus", "putStatus"} => x.version <= center[x.name].version
      BY <1>5, <3>1, <3>2, Zenon DEF CallsFollow
    <3>4. CASE x.name = n
      <4>1. center'[x.name] = obj /\ center[n].version <= obj.version
        BY <1>3, <3>3, <3>4 DEF Renews
      <4>2. call[q].at \in {"readStatus", "putStatus"} => x.version <= center[n].version
        BY <3>3, <3>4
      <4>3. x.version <= center[n].version => x.version <= obj.version
        BY <1>1, <3>2, <4>1, VersionOrder, Zenon
      <4> QED
        BY <1>1, <3>1, <3>2, <4>1, <4>2, <4>3, Zenon
    <3>5. CASE x.name # n
      BY <1>3, <3>1, <3>2, <3>3, <3>5, ZenonT(30) DEF Stored
    <3> QED
      BY <3>4, <3>5
  <2> QED
    BY <2>1, <2>2, ZenonT(30)
<1>6. CallsFollow'
  BY <1>2, <1>5, ZenonT(30) DEF CallsFollow, Stored
<1>7. ASSUME Exists(n), Current(n)
      PROVE  Current(n)'
  <2>1. center[n].version = edge[n].version /\ center[n].status = edge[n].version
    BY <1>7, CurrentFields, ZenonT(30)
  <2>2. Stored(n) /\ e.version <= edge[n].version
    BY <1>0, <1>7, <2>1, ZenonT(30) DEF Exists, Stored, Given
  <2>3. center[n].version <= e.version
    BY <1>0, <2>2 DEF Renews
  <2>4. e.version = edge[n].version
    BY <1>0, <1>1, <2>1, <2>2, <2>3, VersionOrder, ZenonT(30)
  <2>5. obj.version = edge[n].version /\ obj.status = edge[n].version
    BY <1>0, <2>1, <2>2, <2>4, ZenonT(30) DEF Renews
  <2> QED
    BY <1>2, <1>3, <2>5 DEF Current, Stores
<1>8. ASSUME e.version = edge[n].version, c.at = "none", n \notin missed
      PROVE  Current(n)'
  <2>1. obj.version = edge[n].version /\ obj.status = edge[n].version
    BY <1>0, <1>8, ZenonT(30) DEF GoesOn
  <2> QED
    BY <1>2, <1>3, <2>1 DEF Current, Stores
<1>9. \A m \in Names : Exists(m) /\ Current(m) => Current(m)'
  BY <1>2, <1>3, <1>7, ZenonT(30) DEF Current
<1>10. \A m \in Names : Stored(m)' =>
         \/ center'[m].version = center[m].version
         \/ \E x \in Entries : Carried(x) /\ x.name = m /\ x.version = center'[m].version
  BY <1>0, <1>3 DEF Renews
<1> QED
  BY <1>0, <1>2, <1>4, <1>6, <1>8, <1>9, <1>10, Zenon DEF Onward

\* Create, with what follows it.
LEMMA CreateOnward ==
  ASSUME TypeOK, NotAhead, CallsFollow, NEW r \in Replicas,
         \/ Create(r, 0, ThenTo(r, "read"))
         \/ Create(r, call[r].entry.version, ThenReturn(r)),
         UNCHANGED <<edgeVars, podMap>>
  PROVE  Onward
<1> DEFINE e == call[r].entry
           n == e.name
<1>1. call[r].at = "create" /\ UNCHANGED <<work, flight>>
  BY DEF Create
<1>2. e \in Entries /\ n \in Names /\ e.version \in Nat \ {0} /\ e.version \in Versions
  BY <1>1, CallEntry, EntryFields
<1>3. CASE Stored(n)
  <2>1. call' = [call EXCEPT ![r] = NoCall] /\ UNCHANGED center /\ missed' = missed \cup {n}
    BY <1>3 DEF Create, Return
  <2> QED
    BY <1>1, <2>1, NoCallType, StayOnward, ZenonT(30)
<1>4. CASE ~Stored(n)
  <2>1. UNCHANGED missed
    BY <1>4, Zenon DEF Create
  <2>2. CASE Create(r, 0, ThenTo(r, "read"))
    <3> DEFINE c == [call[r] EXCEPT !.at = "read", !.fresh = FALSE, !.tries = 0]
               obj == [version |-> e.version, status |-> 0]
    <3>1. center' = [center EXCEPT ![n] = obj] /\ call' = [Touched(r, n) EXCEPT ![r] = c]
      BY <1>4, <2>2, ZenonT(30) DEF Create, ThenTo
    <3>2. c.at = "read" /\ c.entry = e
      BY DEF TypeOK, ProcessorTypeOK
    <3>3. obj \in Stores /\ obj.version = e.version /\ obj.status = 0
      BY <1>2, AbsentType, Zenon DEF Stores
    <3> HIDE DEF c, obj
    <3>4. Writes(r, n, obj, c) /\ Renews(n, e.version, obj) /\ GoesOn(r, n, obj, c)
      BY <1>1, <1>2, <1>4, <2>1, <3>1, <3>2, <3>3, Zenon DEF Writes, Renews, GoesOn
    <3> QED
      BY <1>2, <3>3, <3>4, WriteOnward, Zenon
  <2>3. CASE Create(r, e.version, ThenReturn(r))
    <3> DEFINE obj == [version |-> e.version, status |-> e.version]
    <3>1. center' = [center EXCEPT ![n] = obj] /\ call' = [Touched(r, n) EXCEPT ![r] = NoCall]
      BY <1>4, <2>3, ZenonT(30) DEF Create, ThenReturn
    <3>2. obj \in Stores /\ obj.version = e.version /\ obj.status = e.version
      BY <1>2, ZenonT(30) DEF Stores
    <3> HIDE DEF obj
    <3>3. Writes(r, n, obj, NoCall) /\ Renews(n, e.version, obj) /\ GoesOn(r, n, obj, NoCall)
      BY <1>1, <1>2, <1>4, <2>1, <3>1, <3>2, NoCallType, ZenonT(30) DEF Writes, Renews, GoesOn
    <3> QED
      BY <1>2, <3>2, <3>3, WriteOnward
  <2> QED
    BY <2>2, <2>3, Zenon
<1> QED
  BY <1>3, <1>4, Zenon

\* The Get that begins a try: it finds the object, and finds it older, if the
\* entry is the last version.
LEMMA ReadOnward ==
  ASSUME TypeOK, NotAhead, CallsFollow, NEW r \in Replicas,
         Read(r, "read", "put") \/ Read(r, "readStatus", "putStatus"),
         UNCHANGED <<edgeVars, podMap>>
  PROVE  Onward
<1> DEFINE e == call[r].entry
           n == e.name
<1>1. call[r].at \in {"read", "readStatus"} /\ UNCHANGED <<center, work, missed, flight>>
  BY Zenon DEF Read
<1>2. /\ e \in Entries /\ n \in Names /\ e.version \in Nat
      /\ center[n].version \in Nat /\ edge[n].version \in Nat
  BY <1>1, CallEntry, ReportsAssumption DEF TypeOK, ProcessorTypeOK, ReporterTypeOK, Versions, Objects
<1>3. CASE Stored(n) /\ checkEdgeVersion(e)
  <2>1. PICK to \in {"put", "putStatus"} :
          /\ call' = [call EXCEPT ![r].at = to, ![r].fresh = TRUE]
          /\ to = "putStatus" => call[r].at = "readStatus"
    BY <1>3 DEF Read
  <2> DEFINE c == [call[r] EXCEPT !.at = to, !.fresh = TRUE]
  <2>2. call' = [call EXCEPT ![r] = c] /\ c.at = to /\ c.entry = e
    BY <2>1, Zenon DEF TypeOK, ProcessorTypeOK
  <2> HIDE DEF c
  <2> QED
    BY <1>1, <2>1, <2>2, StayOnward, Zenon
<1>4. CASE ~(Stored(n) /\ checkEdgeVersion(e))
  <2>1. call' = [call EXCEPT ![r] = NoCall]
    BY <1>4, ZenonT(30) DEF Read, Return
  <2>2. n \in missed \/ (Exists(n) => e.version # edge[n].version)
    <3> SUFFICES ASSUME n \notin missed, Exists(n) PROVE e.version # edge[n].version
      OBVIOUS
    <3>1. Stored(n)
      BY <1>1 DEF CallsFollow
    <3>2. e.version < center[n].version
      BY <1>4, <3>1, ZenonT(30) DEF checkEdgeVersion
    <3>3. center[n].version <= edge[n].version
      BY <1>2, <3>1 DEF NotAhead, Given
    <3> QED
      BY <1>2, <3>2, <3>3
  <2> QED
    BY <1>1, <2>1, <2>2, NoCallType, StayOnward, Zenon
<1> QED
  BY <1>3, <1>4

\* What Update writes, and how the call goes on.
Puts(from, e, obj, c) ==
  \/ /\ from = "put" /\ obj.version = e.version /\ obj.status = center[e.name].status
     /\ c.at = "readStatus" /\ c.entry = e
  \/ /\ from = "putStatus" /\ obj.version \in {center[e.name].version, e.version}
     /\ obj.status = e.version /\ c.at = "none"

\* Update and UpdateStatus that are refused, or that replace what was read.
LEMMA PutOnward ==
  ASSUME TypeOK, FreshReads, NotAhead, CallsFollow, NEW r \in Replicas,
         NEW from, NEW to, <<from, to>> \in {<<"put", "read">>, <<"putStatus", "readStatus">>},
         NEW obj \in Stores, NEW c, Puts(from, call[r].entry, obj, c),
         Put(r, from, to, obj, call' = [Touched(r, call[r].entry.name) EXCEPT ![r] = c]),
         UNCHANGED <<edgeVars, podMap>>
  PROVE  Onward
<1>1. /\ call[r].at = from /\ UNCHANGED <<work, flight>> /\ from \in {"put", "putStatus"}
      /\ (from = "put" => to = "read") /\ (from = "putStatus" => to = "readStatus")
  BY Zenon DEF Put
<1>2. PICK e \in Entries : e = call[r].entry /\ e.name \in Names /\ e.version \in Nat \ {0}
  BY <1>1, CallEntry, Zenon
<1>3. PICK n \in Names : n = e.name /\ center[n].version \in Nat
  BY <1>2, ReportsAssumption DEF TypeOK, ProcessorTypeOK, Versions
<1>4. CASE ~Stored(n)
  <2>1. call' = [call EXCEPT ![r] = NoCall] /\ UNCHANGED <<center, missed>>
    BY <1>2, <1>3, <1>4, ZenonT(30) DEF Put, Return
  <2>2. n \in missed
    BY <1>1, <1>2, <1>3, <1>4, ZenonT(30) DEF CallsFollow
  <2> QED
    BY <1>1, <1>2, <1>3, <2>1, <2>2, NoCallType, StayOnward, ZenonT(30)
<1>5. CASE Stored(n) /\ ~call[r].fresh
  <2>1. \/ call' = [call EXCEPT ![r].at = to, ![r].tries = @ + 1] /\ UNCHANGED <<center, missed>>
        \/ call' = [call EXCEPT ![r] = NoCall] /\ missed' = missed \cup {n} /\ UNCHANGED center
    BY <1>2, <1>3, <1>5 DEF Put, Return
  <2>2. CASE call' = [call EXCEPT ![r].at = to, ![r].tries = @ + 1] /\ UNCHANGED <<center, missed>>
    <3> DEFINE d == [call[r] EXCEPT !.at = to, !.tries = @ + 1]
    <3>1. call' = [call EXCEPT ![r] = d] /\ d.at = to /\ d.entry = call[r].entry
      BY <2>2, Zenon DEF TypeOK, ProcessorTypeOK
    <3> HIDE DEF d
    <3>2. /\ call[r].at \notin {"none"} /\ missed \subseteq missed'
          /\ UNCHANGED <<edgeVars, podMap, center, work, flight>>
      BY <1>1, <2>2
    <3>3. /\ d.at # "none" /\ call[r].at # "create"
          /\ d.at \in {"readStatus", "putStatus"} => call[r].at \in {"readStatus", "putStatus"}
      BY <1>1, <3>1
    <3> QED
      BY <3>1, <3>2, <3>3, StayOnward, Zenon
  <2>3. CASE call' = [call EXCEPT ![r] = NoCall] /\ missed' = missed \cup {n} /\ UNCHANGED center
    BY <1>1, <1>2, <1>3, <2>3, NoCallType, StayOnward, ZenonT(30)
  <2> QED
    BY <2>1, <2>2, <2>3, ZenonT(30)
<1>6. CASE Stored(n) /\ call[r].fresh
  <2>1. /\ center' = [center EXCEPT ![n] = obj] /\ UNCHANGED missed
        /\ call' = [Touched(r, n) EXCEPT ![r] = c]
    BY <1>2, <1>3, <1>6, ZenonT(30) DEF Put
  <2>2. center[n].version <= e.version /\ center[n].version # 0
    BY <1>2, <1>3, <1>6, ZenonT(30) DEF FreshReads, Stored
  <2>3. obj.version \in {center[n].version, e.version} /\ obj.status \in {center[n].status, e.version}
    BY <1>2, <1>3, ZenonT(30) DEF Puts
  <2>4. center[n].version <= obj.version /\ obj.version # 0
    BY <1>2, <1>3, <2>2, <2>3, VersionOrder, ZenonT(30)
  <2>5. ASSUME c.at = "none", n \notin missed
        PROVE  obj.version = e.version /\ obj.status = e.version
    <3>1. from = "putStatus"
      BY <2>5, ZenonT(30) DEF Puts
    <3>2. e.version <= center[n].version
      BY <1>1, <1>2, <1>3, <2>5, <3>1, ZenonT(30) DEF CallsFollow
    <3>3. e.version = center[n].version
      BY <1>2, <1>3, <2>2, <3>2, VersionOrder, ZenonT(30)
    <3> QED
      BY <1>2, <1>3, <3>1, <3>3, ZenonT(30) DEF Puts
  <2>6. c.at # "none" => c.entry = e /\ c.at = "readStatus" /\ obj.version = e.version
    BY <1>2, ZenonT(30) DEF Puts
  <2>7. Renews(n, e.version, obj)
    BY <2>2, <2>3, <2>4, Zenon DEF Renews
  <2>8. Writes(r, n, obj, c)
    BY <1>1, <1>2, <1>3, <2>1, ZenonT(30) DEF Writes
  <2>9. GoesOn(r, n, obj, c)
    BY <1>2, <2>5, <2>6, Zenon DEF GoesOn
  <2> QED
    BY <1>2, <2>7, <2>8, <2>9, WriteOnward
<1> QED
  BY <1>4, <1>5, <1>6

\* Update and UpdateStatus.
LEMMA UpdateOnward ==
  ASSUME TypeOK, FreshReads, NotAhead, CallsFollow, NEW r \in Replicas, Update(r),
         UNCHANGED <<edgeVars, podMap>>
  PROVE  Onward
<1> DEFINE e == call[r].entry
           n == e.name
<1>1. CASE Read(r, "read", "put") \/ Read(r, "readStatus", "putStatus")
  BY <1>1, ReadOnward, Zenon
<1>2. ASSUME call[r].at \in {"put", "putStatus"}
      PROVE  /\ n \in Names /\ e.version \in Versions /\ center[n] \in Stores
             /\ center[n].version \in Versions
  <2>1. n \in Names /\ e.version \in Versions
    BY <1>2, EntryFields, Zenon DEF TypeOK, ProcessorTypeOK
  <2> QED
    BY <2>1 DEF TypeOK, ProcessorTypeOK, Stores
<1>3. CASE Put(r, "put", "read", [center[n] EXCEPT !.version = e.version], ThenTo(r, "readStatus"))
  <2> DEFINE obj == [center[n] EXCEPT !.version = e.version]
             c == [call[r] EXCEPT !.at = "readStatus", !.fresh = FALSE, !.tries = 0]
  <2>1. call[r].at = "put"
    BY <1>3, Zenon DEF Put
  <2>2. obj \in Stores /\ obj.version = e.version /\ obj.status = center[n].status
    BY <1>2, <2>1 DEF Stores
  <2>3. c.at = "readStatus" /\ c.entry = e
    BY Zenon DEF TypeOK, ProcessorTypeOK
  <2>4. Put(r, "put", "read", obj, call' = [Touched(r, n) EXCEPT ![r] = c])
    BY <1>3, Zenon DEF Put, ThenTo
  <2>5. Puts("put", e, obj, c)
    BY <2>2, <2>3, Zenon DEF Puts
  <2> HIDE DEF obj, c
  <2> QED
    BY <2>2, <2>4, <2>5, PutOnward
<1>4. ASSUME NEW v \in {center[n].version, e.version}, call[r].at = "putStatus",
             Put(r, "putStatus", "readStatus", [version |-> v, status |-> e.version], ThenReturn(r))
      PROVE  Onward
  <2> DEFINE obj == [version |-> v, status |-> e.version]
  <2>1. obj \in Stores /\ obj.version = v /\ obj.status = e.version
    BY <1>2, <1>4, Zenon DEF Stores
  <2>2. Put(r, "putStatus", "readStatus", obj, call' = [Touched(r, n) EXCEPT ![r] = NoCall])
    BY <1>4, ZenonT(30) DEF Put, ThenReturn
  <2>3. Puts("putStatus", e, obj, NoCall)
    BY <1>4, <2>1, NoCallType DEF Puts
  <2> HIDE DEF obj
  <2> QED
    BY <2>1, <2>2, <2>3, PutOnward
<1> QED
  BY <1>1, <1>3, <1>4 DEF Update

\* Every step of a processor.
LEMMA ProcessorOnward ==
  ASSUME TypeOK, FreshReads, NotAhead, CallsFollow, ProcessorStep,
         UNCHANGED <<edgeVars, podMap>>
  PROVE  Onward
<1>1. PICK r \in Replicas : Step(r)
  BY StepOfKind DEF ProcessorStep
<1>2. /\ work \in [Replicas -> Works] /\ DOMAIN flight \subseteq ReportType
      /\ work[r].excess \subseteq Names /\ work[r].update \subseteq Entries /\ work[r].del \subseteq Names
  BY WorkTypes, Zenon DEF TypeOK, ProcessorTypeOK
<1>3. ASSUME NEW m \in DOMAIN flight,
             Receive(r, m, Taken(m)) \/ Receive(r, m, [Taken(m) EXCEPT !.full = @ \ {{}}])
      PROVE  Onward
  <2>1. m \in ReportType
    BY <1>2
  <2>2. Taken(m).update = m.update /\ [Taken(m) EXCEPT !.full = @ \ {{}}].update = m.update
    BY DEF Taken
  <2> QED
    BY <1>3, <2>1, <2>2, TakenTypes, ReceiveOnward, Zenon
<1>4. CASE FullList(r)
  BY <1>4, FullListOnward
<1>5. CASE DeleteExcess(r)
  <2>1. PICK n \in work[r].excess :
          work' = [work EXCEPT ![r].excess = @ \ {n}] /\ DeleteStored(r, n)
    BY <1>5, Zenon DEF DeleteExcess
  <2>2. n \in Names /\ \A q \in Replicas : work'[q].update = work[q].update
    BY <1>2, <2>1 DEF Works
  <2>3. UNCHANGED flight
    BY <1>5 DEF DeleteExcess
  <2> QED
    BY <2>1, <2>2, <2>3, DeleteOnward
<1>6. CASE DelMap(r)
  <2>1. PICK n \in work[r].del :
          work' = [work EXCEPT ![r].del = @ \ {n}] /\ DeleteStored(r, n)
    BY <1>6, Zenon DEF DelMap
  <2>2. n \in Names /\ \A q \in Replicas : work'[q].update = work[q].update
    BY <1>2, <2>1 DEF Works
  <2>3. UNCHANGED flight
    BY <1>6 DEF DelMap
  <2> QED
    BY <2>1, <2>2, <2>3, DeleteOnward
<1>7. ASSUME call[r].at = "none", NEW e \in work[r].update,
             CreateOrUpdate(r, e) \/ CreateOrUpdatePod(r, e)
      PROVE  Onward
  <2>1. CASE CreateOrUpdate(r, e)
    BY <1>7, <2>1, BeginOnward
  <2>2. CASE /\ work' = [work EXCEPT ![r].update = @ \ {e}]
             /\ DeleteStored(r, e.name)
             /\ UNCHANGED flight
    <3>1. e.name \in Names
      BY <1>2, EntryFields
    <3>2. \A q \in Replicas : work'[q].update = IF q = r THEN work[q].update \ {e} ELSE work[q].update
      BY <1>2, <2>2, Zenon DEF Works
    <3> QED
      BY <2>2, <3>1, <3>2, DeleteOnward
  <2> QED
    BY <1>7, <2>1, <2>2 DEF CreateOrUpdatePod
<1>8. CASE Create(r, 0, ThenTo(r, "read")) \/ Create(r, call[r].entry.version, ThenReturn(r))
  BY <1>8, CreateOnward
<1>9. CASE Update(r)
  BY <1>9, UpdateOnward, ZenonT(30)
<1> QED
  BY <1>1, <1>3, <1>4, <1>5, <1>6, <1>7, <1>8, <1>9, Zenon DEF Step

-----------------------------------------------------------------------------
\* The invariant, with the one that PipelineStep keeps.
SettledInv == NotAhead /\ CallsFollow /\ LastNotified /\ LastUnderWay

LEMMA VersionsAreNumbers ==
  ASSUME TypeOK
  PROVE  /\ clock \in Nat
         /\ \A n \in Names : edge[n].version \in Nat /\ events[n] \in Seq(Events)
         /\ \A n \in Names : \A i \in 1..Len(events[n]) : events[n][i].obj.version \in Nat
         /\ \A e \in Entries : e.name \in Names /\ e.version \in Nat
<1>1. \A n \in Names : edge[n] \in Objects /\ events[n] \in Seq(Events)
  BY DEF TypeOK, ReporterTypeOK
<1>2. ASSUME NEW n \in Names, NEW i \in 1..Len(events[n])
      PROVE  events[n][i].obj \in Objects
  <2>1. events[n][i] \in Events
    BY <1>1
  <2> QED
    BY <2>1 DEF Events
<1>3. \A e \in Entries : e.name \in Names /\ e.version \in Versions
  BY EntryFields, ZenonT(30)
<1> QED
  BY <1>1, <1>2, <1>3, ReportsAssumption DEF TypeOK, ReporterTypeOK, Objects, Versions

\* What a processor does keeps the invariant.
LEMMA OnwardKeeps ==
  ASSUME TypeOK, SettledInv, Onward, UNCHANGED <<edge, clock, running, events>>
  PROVE  SettledInv'
<1>1. \A n, v : Given(n, v)' <=> Given(n, v)
  BY Zenon DEF Given, Exists
<1>2. ASSUME NEW n \in Names, Stored(n)'
      PROVE  Given(n, center'[n].version)
  <2>1. CASE center'[n].version = center[n].version
    BY <1>2, <2>1 DEF SettledInv, NotAhead, Stored
  <2>2. CASE \E e \in Entries : Carried(e) /\ e.name = n /\ e.version = center'[n].version
    BY <2>2, Zenon DEF SettledInv, NotAhead
  <2> QED
    BY <1>2, <2>1, <2>2 DEF Onward
<1>3. NotAhead'
  <2>1. \A e \in Entries : Carried(e)' => Given(e.name, e.version)
    BY Zenon DEF Onward, SettledInv, NotAhead
  <2> QED
    BY <1>1, <1>2, <2>1, ZenonT(30) DEF SettledInv, NotAhead
<1>4. LastNotified'
  BY DEF SettledInv, LastNotified, Exists
<1>5. ASSUME NEW n \in Names, running, Exists(n), n \notin missed', events[n] = <<>>
      PROVE  \/ \E e \in Entries : Carried(e)' /\ e.name = n /\ e.version = edge[n].version
             \/ Current(n)'
  <2>1. n \notin missed
    BY <1>5 DEF Onward
  <2>2. CASE Current(n)
    BY <1>5, <2>2 DEF Onward
  <2>3. CASE \E e \in Entries : Carried(e) /\ e.name = n /\ e.version = edge[n].version
    BY <1>5, <2>3 DEF Onward
  <2> QED
    BY <1>5, <2>1, <2>2, <2>3, Zenon DEF SettledInv, LastUnderWay, Current
<1>6. LastUnderWay'
  BY <1>5 DEF LastUnderWay, Current, Exists
<1> QED
  BY <1>3, <1>4, <1>6, ZenonT(30) DEF SettledInv, Onward

\* Entries are handed on, or their names are left out.
LEMMA HandedOn ==
  ASSUME TypeOK, SettledInv, UNCHANGED <<edge, clock, running, events, center, call>>,
         missed \subseteq missed',
         \A e \in Entries : Carried(e)' => Carried(e),
         \A e \in Entries : Carried(e) /\ e.name \notin missed' => Carried(e)'
  PROVE  SettledInv'
<1>1. CallsFollow'
  BY DEF SettledInv, CallsFollow, Stored
<1>2. Onward
  BY <1>1 DEF Onward, Current
<1> QED
  BY <1>2, OnwardKeeps, ZenonT(30)

LEMMA Appended ==
  ASSUME NEW S, NEW s \in Seq(S), NEW x \in S
  PROVE  /\ Len(s) \in Nat /\ Len(Append(s, x)) = Len(s) + 1 /\ Append(s, x) # <<>>
         /\ Append(s, x)[Len(s) + 1] = x
         /\ \A i \in 1..Len(s) : Append(s, x)[i] = s[i]
OBVIOUS

\* The edge cluster stores an object.
LEMMA StoreKeeps ==
  ASSUME TypeOK, SettledInv, NEW n \in Names, NEW obj \in Objects, NEW seen \in Objects,
         NEW deleted \in BOOLEAN, Store(n, obj, seen, deleted), UNCHANGED <<flight, processorVars>>,
         \/ obj.version = clock + 1 /\ seen = obj /\ deleted = FALSE
         \/ obj.version = 0 /\ Exists(n) /\ seen = edge[n]
  PROVE  SettledInv'
<1> DEFINE event == [obj |-> seen, deleted |-> deleted]
           After(m, v) == v \in 1..clock' /\ (edge'[m].version # 0 => v <= edge'[m].version)
<1>1. /\ clock' = clock + 1 /\ edge' = [edge EXCEPT ![n] = obj] /\ UNCHANGED <<running, podMap>>
      /\ events' = IF running THEN [events EXCEPT ![n] = Append(@, event)] ELSE events
      /\ UNCHANGED <<center, work, call, missed, flight>>
  BY ZenonT(30)  DEF Store, processorVars
<1>2. /\ clock \in Nat /\ \A m \in Names : edge[m].version \in Nat
      /\ edge \in [Names -> Objects] /\ events \in [Names -> Seq(Events)]
      /\ \A m \in Names : edge[m].version <= clock
  BY VersionsAreNumbers DEF TypeOK, ReporterTypeOK, SettledInv, NotAhead
<1>3. edge'[n] = obj /\ \A m \in Names \ {n} : edge'[m] = edge[m]
  BY <1>1, <1>2, ZenonT(30)
<1>4. \A e : Carried(e)' <=> Carried(e)
  BY <1>1 DEF Carried
<1>5. ASSUME NEW m \in Names, NEW v, Given(m, v)
      PROVE  After(m, v)
  <2>1. v \in 1..clock /\ v \in 1..clock' /\ v <= clock + 1
    BY <1>1, <1>2, <1>5 DEF Given
  <2>2. CASE m = n
    BY <1>3, <2>1, <2>2
  <2>3. CASE m # n
    BY <1>3, <1>5, <2>1, <2>3 DEF Given, Exists
  <2> QED
    BY <2>2, <2>3
<1>6. After(n, seen.version)
  <2>1. CASE obj.version = clock + 1 /\ seen = obj
    BY <1>1, <1>2, <1>3, <2>1
  <2>2. CASE obj.version = 0 /\ Exists(n) /\ seen = edge[n]
    BY <1>1, <1>2, <1>3, <2>2 DEF Exists
  <2> QED
    BY <2>1, <2>2
<1>7. /\ \A m \in Names \ {n} : events'[m] = events[m]
      /\ running => events'[n] = Append(events[n], event)
      /\ ~running => events'[n] = events[n]
  BY <1>1, <1>2
<1>8. event \in Events /\ event.obj = seen
  BY DEF Events
<1> HIDE DEF event
<1>9. /\ running => /\ Len(events'[n]) = Len(events[n]) + 1 /\ events'[n] # <<>>
                    /\ events'[n][Len(events'[n])] = event
                    /\ \A i \in 1..Len(events[n]) : events'[n][i] = events[n][i]
      /\ Len(events[n]) \in Nat
  <2>1. events[n] \in Seq(Events)
    BY <1>2
  <2>2. Len(events[n]) \in Nat
    BY <2>1
  <2>3. CASE running
    BY <1>7, <1>8, <2>1, <2>3, Appended
  <2> QED
    BY <2>2, <2>3
<1>10. ASSUME NEW m \in Names, NEW i \in 1..Len(events'[m])
       PROVE  After(m, events'[m][i].obj.version)
  <2>1. \/ events'[m][i] = event /\ m = n
        \/ i \in 1..Len(events[m]) /\ events'[m][i] = events[m][i]
    BY <1>7, <1>9, <1>10
  <2>2. CASE events'[m][i] = event /\ m = n
    BY <1>6, <1>8, <2>2, Zenon
  <2>3. CASE i \in 1..Len(events[m]) /\ events'[m][i] = events[m][i]
    <3>1. Given(m, events[m][i].obj.version)
      BY <2>3 DEF SettledInv, NotAhead
    <3> QED
      BY <1>5, <2>3, <3>1, Zenon
  <2> QED
    BY <2>1, <2>2, <2>3, Zenon
<1>11. \A m \in Names : edge'[m].version <= clock'
  BY <1>1, <1>2, <1>3
<1>12. NotAhead'
  <2>1. ASSUME NEW m \in Names, center[m].version # 0
        PROVE  After(m, center[m].version)
    BY <1>5, <2>1 DEF SettledInv, NotAhead, Stored
  <2>2. ASSUME NEW e \in Entries, Carried(e)
        PROVE  After(e.name, e.version)
    BY <1>5, <2>2, EntryFields, ZenonT(30) DEF SettledInv, NotAhead
  <2> QED
    BY <1>1, <1>4, <1>10, <1>11, <2>1, <2>2, ZenonT(30) DEF NotAhead, Given, Exists, Stored
<1>13. LastNotified'
  <2> SUFFICES ASSUME NEW m \in Names, running, edge'[m].version # 0, events'[m] # <<>>
               PROVE  events'[m][Len(events'[m])] = [obj |-> edge'[m], deleted |-> FALSE]
    BY <1>1, Zenon DEF LastNotified, Exists
  <2>1. CASE m # n
    BY <1>3, <1>7, <2>1, Zenon DEF SettledInv, LastNotified, Exists
  <2>2. CASE m = n
    BY <1>3, <1>9, <2>2, Zenon DEF event
  <2> QED
    BY <2>1, <2>2
<1>14. LastUnderWay'
  <2> SUFFICES ASSUME NEW m \in Names, running, edge'[m].version # 0, m \notin missed, events'[m] = <<>>
               PROVE  \/ \E e \in Entries : Carried(e) /\ e.name = m /\ e.version = edge'[m].version
                      \/ center[m] = [version |-> edge'[m].version, status |-> edge'[m].version]
    BY <1>1, <1>4, Zenon DEF LastUnderWay, Exists
  <2>1. m # n
    BY <1>9
  <2> QED
    BY <1>3, <1>7, <2>1 DEF SettledInv, LastUnderWay, Exists
<1>15. CallsFollow'
  BY <1>1, Zenon DEF SettledInv, CallsFollow, Stored
<1> QED
  BY <1>12, <1>13, <1>14, <1>15 DEF SettledInv

LEMMA EmptyIffNoLength ==
  ASSUME NEW S, NEW s \in Seq(S)
  PROVE  s = <<>> <=> Len(s) = 0
OBVIOUS

LEMMA Dropped ==
  ASSUME NEW S, NEW s \in Seq(S), s # <<>>
  PROVE  /\ Tail(s) \in Seq(S) /\ Len(s) \in Nat /\ Len(s) >= 1 /\ Head(s) = s[1]
         /\ Len(Tail(s)) = Len(s) - 1 /\ (Tail(s) = <<>> <=> Len(s) = 1)
         /\ \A i \in 1..Len(Tail(s)) : Tail(s)[i] = s[i + 1] /\ i + 1 \in 1..Len(s)
         /\ Tail(s) # <<>> => Tail(s)[Len(Tail(s))] = s[Len(s)]
<1>0. Len(s) \in Nat /\ Len(s) # 0
  OBVIOUS
<1>1. /\ Tail(s) \in Seq(S) /\ Len(s) \in Nat /\ Len(s) >= 1 /\ Head(s) = s[1]
      /\ Len(Tail(s)) = Len(s) - 1
  BY <1>0
<1>2. \A i \in 1..(Len(s) - 1) : Tail(s)[i] = s[i + 1]
  OBVIOUS
<1>3. Tail(s) = <<>> <=> Len(s) = 1
  <2>1. Tail(s) = <<>> <=> Len(Tail(s)) = 0
    BY <1>1, EmptyIffNoLength, Zenon
  <2> QED
    BY <1>1, <2>1
<1>4. \A i \in 1..(Len(s) - 1) : i + 1 \in 1..Len(s)
  BY <1>1
<1>5. Tail(s) # <<>> => Len(s) - 1 \in 1..(Len(s) - 1) /\ (Len(s) - 1) + 1 = Len(s)
  BY <1>1, <1>3
<1> QED
  BY <1>1, <1>2, <1>3, <1>4, <1>5

\* A handler takes a notification and passes it on, in an entry unless the
\* object was deleted.
LEMMA HandlesKeeps ==
  ASSUME TypeOK, SettledInv, NEW n \in Names, NEW deleted \in BOOLEAN, Handles(n, deleted),
         UNCHANGED processorVars,
         \A e \in Entries : Carried(e)' =>
           Carried(e) \/ (e.name = n /\ e.version = Head(events[n]).obj.version),
         \A e \in Entries : Carried(e) /\ e.name # n => Carried(e)',
         ~deleted => \E e \in Entries : /\ Carried(e)' /\ e.name = n
                                        /\ e.version = Head(events[n]).obj.version
  PROVE  SettledInv'
<1>1. /\ UNCHANGED <<edge, clock, running, center, work, call, missed>>
      /\ running /\ events[n] # <<>> /\ Head(events[n]).deleted = deleted
      /\ events' = [events EXCEPT ![n] = Tail(@)]
  BY DEF Handles, edgeVars, processorVars
<1>2. events \in [Names -> Seq(Events)] /\ \A m \in Names : events[m] \in Seq(Events)
  BY Zenon DEF TypeOK, ReporterTypeOK
<1>3. events'[n] = Tail(events[n]) /\ \A m \in Names \ {n} : events'[m] = events[m]
  BY <1>1, <1>2, ZenonT(30)
<1>4. /\ Len(events[n]) \in Nat /\ Len(events[n]) >= 1 /\ Head(events[n]) = events[n][1]
      /\ events'[n] = <<>> <=> Len(events[n]) = 1
      /\ \A i \in 1..Len(events'[n]) : events'[n][i] = events[n][i + 1] /\ i + 1 \in 1..Len(events[n])
      /\ events'[n] # <<>> => events'[n][Len(events'[n])] = events[n][Len(events[n])]
  <2>1. events[n] \in Seq(Events) /\ events[n] # <<>>
    BY <1>1, <1>2
  <2> QED
    BY <1>3, <2>1, Dropped
<1>5. \A m \in Names : \A i \in 1..Len(events[m]) : Given(m, events[m][i].obj.version)
  BY DEF SettledInv, NotAhead
<1>6. Given(n, Head(events[n]).obj.version)
  <2>1. 1 \in 1..Len(events[n])
    BY <1>4
  <2> QED
    BY <1>4, <1>5, <2>1
<1>7. ASSUME NEW m \in Names, NEW i \in 1..Len(events'[m])
      PROVE  Given(m, events'[m][i].obj.version)
  <2>1. CASE m = n
    BY <1>4, <1>5, <2>1, Zenon
  <2>2. CASE m # n
    BY <1>3, <1>5, <1>7, <2>2, ZenonT(30)
  <2> QED
    BY <2>1, <2>2, Zenon
<1>8. ASSUME NEW e \in Entries, Carried(e)'
      PROVE  Given(e.name, e.version)
  BY <1>6, <1>8 DEF SettledInv, NotAhead
<1>9. NotAhead'
  BY <1>1, <1>7, <1>8, Zenon DEF SettledInv, NotAhead, Given, Exists, Stored
<1>10. LastNotified'
  <2> SUFFICES ASSUME NEW m \in Names, Exists(m), events'[m] # <<>>
               PROVE  events'[m][Len(events'[m])] = [obj |-> edge[m], deleted |-> FALSE]
    BY <1>1, Zenon DEF LastNotified, Exists
  <2>1. CASE m = n
    BY <1>1, <1>4, <2>1, Zenon DEF SettledInv, LastNotified
  <2>2. CASE m # n
    BY <1>1, <1>3, <2>2, Zenon DEF SettledInv, LastNotified
  <2> QED
    BY <2>1, <2>2, ZenonT(30)
<1>11. LastUnderWay'
  <2> SUFFICES ASSUME NEW m \in Names, Exists(m), m \notin missed, events'[m] = <<>>
               PROVE  \/ \E e \in Entries : Carried(e)' /\ e.name = m /\ e.version = edge[m].version
                      \/ center[m] = [version |-> edge[m].version, status |-> edge[m].version]
    BY <1>1, Zenon DEF LastUnderWay, Exists
  <2>1. CASE m = n
    <3>1. Head(events[n]) = [obj |-> edge[n], deleted |-> FALSE]
      BY <1>1, <1>4, <2>1, ZenonT(30) DEF SettledInv, LastNotified
    <3>2. Head(events[n]).obj = edge[n] /\ Head(events[n]).deleted = FALSE
      BY ONLY <3>1
    <3>3. ~deleted
      BY <1>1, <3>2, ZenonT(30)
    <3> QED
      BY <2>1, <3>2, <3>3, Zenon
  <2>2. CASE m # n
    <3>1. events[m] = <<>>
      BY <1>3, <2>2, Zenon
    <3>2. \/ \E e \in Entries : Carried(e) /\ e.name = m /\ e.version = edge[m].version
          \/ center[m] = [version |-> edge[m].version, status |-> edge[m].version]
      BY <1>1, <3>1, Zenon DEF SettledInv, LastUnderWay
    <3> QED
      BY <2>2, <3>2, Zenon
  <2> QED
    BY <2>1, <2>2
<1>12. CallsFollow'
  BY <1>1, Zenon DEF SettledInv, CallsFollow, Stored
<1> QED
  BY <1>9, <1>10, <1>11, <1>12, Zenon DEF SettledInv

\* Changes of the edge cluster, and the end of a connection.
LEMMA EdgeKeeps ==
  ASSUME TypeOK, SettledInv, EdgeStep, UNCHANGED <<flight, processorVars>>
  PROVE  SettledInv'
<1>1. ASSUME NEW n \in Names, Change(n) \/ Terminate(n) \/ Remove(n)
      PROVE  SettledInv'
  <2>1. edge[n] \in Objects /\ edge[n].dying \in BOOLEAN /\ clock \in Versions
    BY DEF TypeOK, ReporterTypeOK, Objects
  <2>2. ASSUME NEW dying \in BOOLEAN,
               Store(n, [version |-> clock + 1, dying |-> dying],
                        [version |-> clock + 1, dying |-> dying], FALSE)
        PROVE  SettledInv'
    <3>1. clock + 1 \in Versions
      BY <2>1, <2>2, ReportsAssumption DEF Store, Versions
    <3>2. [version |-> clock + 1, dying |-> dying] \in Objects
      BY <3>1 DEF Objects
    <3> QED
      BY <2>2, <3>2, StoreKeeps, Zenon
  <2>3. CASE Remove(n)
    <3>1. Absent \in Objects /\ Absent.version = 0
      BY AbsentType DEF Absent
    <3>2. Store(n, Absent, edge[n], TRUE) /\ Exists(n)
      BY <2>3, Zenon DEF Remove
    <3> HIDE DEF Absent
    <3> QED
      BY <2>1, <3>1, <3>2, StoreKeeps, Zenon
  <2> QED
    BY <1>1, <2>1, <2>2, <2>3, Zenon DEF Change, Terminate
<1>2. CASE StopReporters
  <2>1. /\ UNCHANGED <<edge, clock, center, work, call, missed, flight>> /\ ~running'
        /\ events' = [n \in Names |-> <<>>] /\ podMap' = NoReport
    BY <1>2 DEF StopReporters, processorVars
  <2>2. \A e : Carried(e)' => Carried(e)
    BY <2>1, Zenon DEF Carried, NoReport, Report
  <2>3. \A n \in Names : Len(events'[n]) = 0
    BY <2>1
  <2>4. NotAhead'
    BY <2>1, <2>2, <2>3 DEF SettledInv, NotAhead, Given, Exists, Stored
  <2> QED
    BY <2>1, <2>4, Zenon DEF SettledInv, LastNotified, LastUnderWay, CallsFollow, Stored
<1> QED
  BY <1>1, <1>2 DEF EdgeStep

\* The informer reports what exists.
LEMMA StartKeeps ==
  ASSUME TypeOK, SettledInv, StartReporters, UNCHANGED <<flight, processorVars>>
  PROVE  SettledInv'
<1>1. /\ UNCHANGED <<edge, clock, center, work, call, missed, flight>>
      /\ events' = [n \in Names |->
                      IF Exists(n) THEN <<[obj |-> edge[n], deleted |-> FALSE]>> ELSE <<>>]
      /\ podMap' = NoReport
  BY Zenon DEF StartReporters, edgeVars, processorVars
<1>2. \A e : Carried(e)' => Carried(e)
  BY <1>1, Zenon DEF Carried, NoReport, Report
<1>3. ASSUME NEW n \in Names
      PROVE  /\ ~Exists(n) => events'[n] = <<>>
             /\ Exists(n) => /\ events'[n] # <<>> /\ Len(events'[n]) = 1
                             /\ events'[n][1] = [obj |-> edge[n], deleted |-> FALSE]
                             /\ events'[n][1].obj = edge[n]
                             /\ Given(n, edge[n].version)
  <2>1. Exists(n) => Given(n, edge[n].version)
    BY VersionsAreNumbers DEF SettledInv, NotAhead, Given, Exists
  <2> DEFINE event == [obj |-> edge[n], deleted |-> FALSE]
  <2>2. event.obj = edge[n]
    OBVIOUS
  <2>3. events'[n] = IF Exists(n) THEN <<event>> ELSE <<>>
    BY <1>1
  <2> HIDE DEF event
  <2>4. <<event>> # <<>> /\ Len(<<event>>) = 1 /\ <<event>>[1] = event
    OBVIOUS
  <2>5. Exists(n) => events'[n] # <<>> /\ Len(events'[n]) = 1 /\ events'[n][1] = event
    BY <2>3, <2>4
  <2> QED
    BY <2>1, <2>2, <2>3, <2>5 DEF event
<1>4. ASSUME NEW n \in Names, NEW i \in 1..Len(events'[n])
      PROVE  Given(n, events'[n][i].obj.version)
  <2>1. Len(<<>>) = 0
    OBVIOUS
  <2>2. Len(events'[n]) = IF Exists(n) THEN 1 ELSE 0
    BY <1>3, <2>1, Zenon
  <2>3. Exists(n) /\ i = 1
    BY <2>2
  <2> QED
    BY <1>3, <2>3, Zenon
<1>5. NotAhead'
  BY <1>1, <1>2, <1>4, ZenonT(30) DEF SettledInv, NotAhead, Given, Exists, Stored
<1>6. LastNotified' /\ LastUnderWay'
  BY <1>1, <1>3, Zenon DEF LastNotified, LastUnderWay, Exists
<1>7. CallsFollow'
  BY <1>1 DEF SettledInv, CallsFollow, Stored
<1> QED
  BY <1>5, <1>6, <1>7 DEF SettledInv

\* What the pod reporter does.
LEMMA PodKeeps ==
  ASSUME TypeOK, SettledInv, PodReporter, UNCHANGED processorVars
  PROVE  SettledInv'
<1>0. /\ UNCHANGED <<center, work, call, missed>> /\ ReporterTypeOK
      /\ podMap \in ReportType
  BY DEF processorVars, SettledInv, TypeOK, ReporterTypeOK
<1>1. ASSUME NEW n \in Names, handlePod(n)
      PROVE  SettledInv'
  <2> DEFINE obj == ReportedPod(Head(events[n]).obj)
  <2>1. Handles(n, FALSE) /\ SetUpdateMap(n, obj) /\ UNCHANGED flight
    BY <1>1, Zenon DEF handlePod
  <2>2. obj \in Objects /\ obj.version = Head(events[n]).obj.version
    BY <1>0, <2>1, HandlesTypes, Zenon DEF ReportedPod, lightWeightPod, Objects
  <2> HIDE DEF obj
  <2>3. PICK x \in Entries : x = Entry(n, obj) /\ x.name = n /\ x.version = obj.version
    BY <2>2, EntryType, Zenon DEF Entry
  <2>4. podMap'.update = {e \in podMap.update : e.name # n} \cup {x}
    BY <1>0, <2>1, <2>3, Zenon DEF SetUpdateMap, ReportType
  <2>5. ASSUME NEW e \in Entries, Carried(e)'
        PROVE  Carried(e) \/ e = x
    BY <1>0, <2>1, <2>4, <2>5, Zenon DEF Carried
  <2>6. ASSUME NEW e \in Entries, Carried(e), e.name # n
        PROVE  Carried(e)'
    BY <1>0, <2>1, <2>4, <2>6 DEF Carried
  <2>7. Carried(x)'
    BY <2>4 DEF Carried
  <2>8. \E e \in Entries : Carried(e)' /\ e.name = n /\ e.version = Head(events[n]).obj.version
    BY <2>2, <2>3, <2>7
  <2>9. \A e \in Entries : Carried(e)' =>
          Carried(e) \/ (e.name = n /\ e.version = Head(events[n]).obj.version)
    BY <2>2, <2>3, <2>5
  <2> QED
    BY <1>0, <2>1, <2>6, <2>8, <2>9, HandlesKeeps, Zenon
<1>2. ASSUME NEW n \in Names, deletePod(n)
      PROVE  SettledInv'
  <2>1. Handles(n, TRUE) /\ SetDelMap(n) /\ UNCHANGED flight
    BY <1>2, Zenon DEF deletePod
  <2>2. podMap'.update = {e \in podMap.update : e.name # n}
    BY <1>0, <2>1 DEF SetDelMap, ReportType
  <2>3. /\ \A e : Carried(e)' => Carried(e)
        /\ \A e : Carried(e) /\ e.name # n => Carried(e)'
    BY <1>0, <2>1, <2>2 DEF Carried
  <2> QED
    BY <1>0, <2>1, <2>3, HandlesKeeps, Zenon
<1>3. CASE reportFullListPod
  <2>1. UNCHANGED <<edge, clock, running, events, flight>> /\ podMap'.update = podMap.update
    BY <1>0, <1>3, Zenon DEF reportFullListPod, edgeVars, ReportType
  <2>2. \A e : Carried(e)' <=> Carried(e)
    BY <1>0, <2>1 DEF Carried
  <2> QED
    BY <1>0, <2>1, <2>2, HandedOn
<1>4. CASE sendClusterMessageToSyncChan
  <2>1. UNCHANGED <<edge, clock, running, events>> /\ podMap' = NoReport /\ Send(podMap)
    BY <1>4 DEF sendClusterMessageToSyncChan, edgeVars
  <2>2. DOMAIN flight' = DOMAIN flight \cup {podMap}
    BY <1>0, <2>1, SendElements
  <2>3. \A e : Carried(e)' <=> Carried(e)
    BY <1>0, <2>1, <2>2 DEF Carried, NoReport, Report
  <2> QED
    BY <1>0, <2>1, <2>2, <2>3, HandedOn
<1> QED
  BY <1>1, <1>2, <1>3, <1>4 DEF PodReporter

\* What the other reporters do.
LEMMA ImmediateKeeps ==
  ASSUME TypeOK, SettledInv, ImmediateReporter, UNCHANGED processorVars
  PROVE  SettledInv'
<1>0. /\ UNCHANGED <<center, work, call, missed>> /\ ReporterTypeOK
  BY DEF processorVars, SettledInv, TypeOK
<1>1. ASSUME NEW n \in Names, ReportUpdate(n)
      PROVE  SettledInv'
  <2> DEFINE x == Entry(n, Head(events[n]).obj)
             m == Report({}, {x}, {})
  <2>1. Handles(n, FALSE) /\ Send(m) /\ UNCHANGED podMap /\ m.update = {x}
    BY <1>1, Zenon DEF ReportUpdate, Report
  <2>2. x \in Entries /\ x.name = n /\ x.version = Head(events[n]).obj.version
    BY <1>0, <2>1, HandlesTypes, EntryType, Zenon DEF Entry
  <2> HIDE DEF m, x
  <2>3. DOMAIN flight' = DOMAIN flight \cup {m}
    BY <1>0, <2>1, SendElements
  <2>4. \A e : Carried(e)' <=> Carried(e) \/ e = x
    BY <1>0, <2>1, <2>3 DEF Carried
  <2> QED
    BY <1>0, <2>1, <2>2, <2>3, <2>4, HandlesKeeps, Zenon
<1>2. ASSUME NEW n \in Names, ReportDelete(n)
      PROVE  SettledInv'
  <2> DEFINE m == Report({}, {}, {n})
  <2>1. Handles(n, TRUE) /\ Send(m) /\ UNCHANGED podMap /\ m.update = {}
    BY <1>2, Zenon DEF ReportDelete, Report
  <2> HIDE DEF m
  <2>2. DOMAIN flight' = DOMAIN flight \cup {m}
    BY <1>0, <2>1, SendElements
  <2>3. \A e : Carried(e)' <=> Carried(e)
    BY <1>0, <2>1, <2>2 DEF Carried
  <2> QED
    BY <1>0, <2>1, <2>2, <2>3, HandlesKeeps, Zenon
<1>3. CASE ReportList
  <2> DEFINE m == Report({{n \in Names : Exists(n)}}, {}, {})
  <2>1. Send(m) /\ m.update = {} /\ UNCHANGED <<edge, clock, running, events, podMap>>
    BY <1>3 DEF ReportList, Report, edgeVars
  <2> HIDE DEF m
  <2>2. DOMAIN flight' = DOMAIN flight \cup {m}
    BY <1>0, <2>1, SendElements, Zenon
  <2>3. \A e : Carried(e)' <=> Carried(e)
    BY <1>0, <2>1, <2>2, Zenon DEF Carried
  <2> QED
    BY <1>0, <2>1, <2>2, <2>3, HandedOn, Zenon
<1> QED
  BY <1>1, <1>2, <1>3, ImmediateStep

\* A report that is lost leaves its names out.
LEMMA LoseKeeps ==
  ASSUME TypeOK, SettledInv, NEW m \in DOMAIN flight, Lose(m)
  PROVE  SettledInv'
<1>1. /\ UNCHANGED <<edge, clock, running, events, podMap, center, work, call>> /\ Took(m)
      /\ missed' = missed \cup {e.name : e \in m.update}
  BY DEF Lose, edgeVars, reporterVars
<1>2. /\ DOMAIN flight' \subseteq DOMAIN flight
      /\ \A x \in DOMAIN flight : x # m => x \in DOMAIN flight'
  BY <1>1, TookElements, OthersStay, Zenon
<1>3. \A e \in Entries : Carried(e)' => Carried(e)
  BY <1>1, <1>2, Zenon DEF Carried
<1>4. ASSUME NEW e \in Entries, Carried(e), e.name \notin missed'
      PROVE  Carried(e)'
  <2>1. e \notin m.update
    BY <1>1, <1>4
  <2> QED
    BY <1>1, <1>2, <1>4, <2>1 DEF Carried
<1> QED
  BY <1>1, <1>2, <1>3, <1>4, HandedOn, Zenon

\* Every step keeps the invariant.
LEMMA SettledStep ==
  ASSUME TypeOK, FreshReads, SettledInv, [Next]_vars
  PROVE  SettledInv'
<1>1. CASE EdgeStep /\ UNCHANGED <<flight, processorVars>>
  BY <1>1, EdgeKeeps
<1>2. CASE Starting
  BY <1>2, StartKeeps DEF Starting
<1>3. CASE Reporting
  BY <1>3, PodKeeps, ImmediateKeeps DEF Reporting, ReporterStep
<1>4. CASE Processing
  <2>1. ProcessorStep /\ UNCHANGED <<edgeVars, podMap, edge, clock, running, events>>
    BY <1>4 DEF Processing, edgeVars, reporterVars
  <2>2. Onward
    BY <2>1, ProcessorOnward DEF SettledInv
  <2> QED
    BY <2>1, <2>2, OnwardKeeps
<1>5. CASE Calm \/ UNCHANGED vars
  <2>1. UNCHANGED <<edge, clock, running, events, podMap, flight, center, work, call, missed>>
    BY <1>5 DEF Calm, CalmDown, vars, edgeVars, reporterVars, processorVars
  <2>2. \A e : Carried(e)' <=> Carried(e)
    BY <2>1 DEF Carried
  <2> QED
    BY <2>1, <2>2, HandedOn, Zenon
<1>6. ASSUME NEW m \in DOMAIN flight, Lose(m)
      PROVE  SettledInv'
  BY <1>6, LoseKeeps
<1> QED
  BY <1>1, <1>2, <1>3, <1>4, <1>5, <1>6 DEF Next

\* The invariant holds at first.
LEMMA SettledInit == Init => SettledInv
<1> SUFFICES ASSUME Init PROVE SettledInv
  OBVIOUS
<1>1. /\ clock = 1 /\ running = FALSE /\ events = [n \in Names |-> <<>>] /\ podMap = NoReport
      /\ edge \in [Names -> {Absent, [version |-> 1, dying |-> FALSE]}]
  BY DEF Init, ReporterInit
<1>2. /\ flight = NoFlight /\ center \in [Names -> {Gone, [version |-> 1, status |-> 1]}]
      /\ work = [r \in Replicas |-> NoWork] /\ call = [r \in Replicas |-> NoCall]
  BY DEF Init, ProcessorInit
<1>3. \A n \in Names : edge[n].version \in {0, 1} /\ center[n].version \in {0, 1}
  BY <1>1, <1>2 DEF Absent, Gone
<1>4. \A e : ~Carried(e)
  <2>1. DOMAIN flight = {} /\ podMap.update = {}
    BY <1>1, <1>2, NothingInNoFlight, Zenon DEF NoReport, Report
  <2>2. \A r \in Replicas : work[r].update = {} /\ call[r].at = "none"
    BY <1>2 DEF NoWork, NoCall
  <2> QED
    BY <2>1, <2>2, Zenon DEF Carried
<1>5. \A n \in Names : Len(events[n]) = 0
  BY <1>1, Zenon
<1>6. NotAhead
  BY <1>1, <1>3, <1>4, <1>5 DEF NotAhead, Given, Exists, Stored
<1>7. CallsFollow
  BY <1>2, Zenon DEF CallsFollow, NoCall
<1> QED
  BY <1>1, <1>6, <1>7 DEF SettledInv, LastNotified, LastUnderWay

\* When nothing is on its way, the center has it.
LEMMA SettledInvImplies == TypeOK /\ SettledInv => SettledAgrees
<1> SUFFICES ASSUME TypeOK, SettledInv, Settled PROVE
      \A n \in Names : Exists(n) /\ n \notin missed
        => center[n] = [version |-> edge[n].version, status |-> edge[n].version]
  BY DEF SettledAgrees
<1>1. running /\ (\A n \in Names : events[n] = <<>>) /\ podMap = NoReport /\ flight = NoFlight
      /\ \A r \in Replicas : Idle(r)
  BY DEF Settled, NothingUnderWay
<1>2. \A e : ~Carried(e)
  <2>1. DOMAIN flight = {} /\ podMap.update = {}
    BY <1>1, NothingInNoFlight DEF NoReport, Report
  <2>2. \A r \in Replicas : work[r].update = {} /\ call[r].at = "none"
    BY <1>1 DEF Idle, NoWork
  <2> QED
    BY <2>1, <2>2 DEF Carried
<1> QED
  BY <1>1, <1>2, Zenon DEF SettledInv, LastUnderWay

(***************************************************************************)
(* Reports commute, for any number of objects, replicas and writes: when   *)
(* every report has been handled, the center has the last version and the  *)
(* last status of every object that was not deleted there and of which no  *)
(* report was lost or given up, in whatever order the reports came.        *)
(***************************************************************************)
THEOREM ReportsCommute == Spec => []SettledAgrees
<1>1. Init => TypeOK /\ FreshReads /\ SettledInv
  BY InitKeeps, SettledInit
<1>2. TypeOK /\ FreshReads /\ SettledInv /\ [Next]_vars => (TypeOK /\ FreshReads /\ SettledInv)'
  BY PipelineStep, SettledStep
<1> QED
  BY <1>1, <1>2, SettledInvImplies, PTL DEF Spec
=============================================================================

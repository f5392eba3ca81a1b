----------------------------- MODULE EdgeWatch -----------------------------
(***************************************************************************)
(* Watches of the edge server (pkg/server/handler/watcher.go) and the      *)
(* subscribers that syncers send to (pkg/syncer/syncer.go).  For every     *)
(* change of the object a syncer starts a goroutine syncToNode, which      *)
(* holds the read lock of the subscribers while it sends to one channel    *)
(* after the other.  Channels have no buffer.  Watchers take the write     *)
(* lock to come and to go; a goroutine that asks for it keeps new readers  *)
(* out.                                                                    *)
(*                                                                         *)
(* A chunked watch sends the initial events first and subscribes then,     *)
(* under a unique key; a websocket watch subscribes first, under the time  *)
(* in seconds.  There is no map of subscribers for events: a watch of them *)
(* ends when it subscribes.  No write to a client has a deadline: it       *)
(* returns when the client reads or is gone.                               *)
(*                                                                         *)
(* NextUnlocked, AfterChunk and DeleteLocked are broken variants of the    *)
(* definition that follows each of them, used to show that properties      *)
(* depend on it.                                                           *)
(***************************************************************************)
EXTENDS WatchFilter, FiniteSets

CONSTANTS
  Watchers,     \* watch requests
  Objects,      \* the watched object: name, namespace, node
  Queries,      \* parameters of watch requests
  Seconds,      \* the times at which websocket watches are made
  Modes,        \* which of them are chunked and which use a websocket
  MaxLost,      \* bound: clients that disconnect or stop reading
  MaxVersion    \* bound: changes of the object

ASSUME WatchAssumption ==
  /\ Modes \subseteq [Watchers -> {"chunk", "websocket"}]
  /\ "none" \notin Watchers
  /\ MaxVersion \in Nat \ {0} /\ MaxLost \in Nat

VARIABLES
  kind, obj, query, mode,   \* what is watched, and how each watcher does it
  cache,      \* number of changes made to the cache: versions of the object
  present,    \* the object is in the cache; FALSE at first and after a deletion
  send,       \* syncToNode of each version: where it is, what is left, what it sends to
  pc,         \* where each watcher is
  open,       \* its client is connected
  stalled,    \* watchers whose clients have stopped reading, with all buffers full
  key,        \* its key among the subscribers
  pending,    \* the watcher that asks for the write lock
  got,        \* versions it has taken to write them to its client
  before      \* a history variable: versions sent when the watcher subscribed

fixed == <<kind, obj, query, mode>>
vars == <<fixed, cache, present, send, pc, open, stalled, key, pending, got, before>>

Versions == 1..MaxVersion
None == "none"
Unsent == [at |-> "none", left |-> {}, to |-> None]
Started == [at |-> "start", left |-> {}, to |-> None]

\* Types of all variables.
TypeOK ==
  /\ kind \in WatchKinds /\ obj \in Objects /\ query \in Queries
  /\ mode \in [Watchers -> {"chunk", "websocket"}]
  /\ cache \in 0..MaxVersion /\ present \in BOOLEAN /\ (present => cache # 0)
  /\ send \in [Versions -> [at : {"none", "start", "send", "end"},
                            left : SUBSET Watchers, to : Watchers \cup {None}]]
  /\ \A v \in Versions : send[v].at = "send" <=> send[v].to # None
  /\ pc \in [Watchers -> {"list", "add", "loop", "write", "leave", "gone"}]
  /\ open \in [Watchers -> BOOLEAN] /\ stalled \in SUBSET Watchers
  /\ key \in [Watchers -> {None} \cup Seconds \cup Watchers]
  /\ pending \in Watchers \cup {None}
  /\ got \in [Watchers -> SUBSET Versions]
  /\ before \in [Watchers -> SUBSET Versions]

\* Where a watch begins.
watchHandler(m) == IF m = "chunk" THEN "list" ELSE "add"

\* A query for objects of the cluster names no namespace.
Init ==
  /\ kind \in WatchKinds /\ obj \in Objects /\ query \in Queries
  /\ kind \in ClusterKinds <=> obj.namespace = ""
  /\ kind \in ClusterKinds => query.namespace = ""
  /\ mode \in Modes
  /\ cache = 0 /\ present = FALSE
  /\ send = [v \in Versions |-> Unsent]
  /\ pc = [w \in Watchers |-> watchHandler(mode[w])]
  /\ open = [w \in Watchers |-> TRUE] /\ stalled = {}
  /\ key = [w \in Watchers |-> None]
  /\ pending = None
  /\ got = [w \in Watchers |-> {}]
  /\ before = [w \in Watchers |-> {}]

-----------------------------------------------------------------------------
(* Syncers *)

\* The informer adds, updates or deletes the object, and the handler of the
\* syncer starts a goroutine with the event.
Change ==
  /\ cache < MaxVersion
  /\ cache' = cache + 1
  /\ present' \in {TRUE, ~present}
  /\ send' = [send EXCEPT ![cache + 1] = Started]
  /\ UNCHANGED <<fixed, pc, open, stalled, key, pending, got, before>>

NextUnlocked(left) ==
  IF left = {} THEN {[at |-> "send", left |-> {}, to |-> None]}
               ELSE {[at |-> "send", left |-> left \ {w}, to |-> w] : w \in left}

\* The rest of the loop of syncToNode: the next subscriber, or RUnlock.
NextChannel(left) ==
  IF left = {} THEN {[at |-> "end", left |-> {}, to |-> None]}
               ELSE {[at |-> "send", left |-> left \ {w}, to |-> w] : w \in left}

\* RLock
syncToNode(v) ==
  /\ send[v].at = "start" /\ pending = None
  /\ \E s \in NextChannel({w \in Watchers : key[w] # None}) : send' = [send EXCEPT ![v] = s]
  /\ UNCHANGED <<fixed, cache, present, pc, open, stalled, key, pending, got, before>>

-----------------------------------------------------------------------------
(* Watchers *)

AfterChunk(w) == [list |-> "add", add |-> "loop"]

After(w) == IF mode[w] = "chunk" THEN [list |-> "add", add |-> "loop"]
                                 ELSE [add |-> "list", list |-> "loop"]
Go(w) == pc' = [pc EXCEPT ![w] = After(w)[@]]

\* A write to the client of w returns.
Writable(w) == open[w] => w \notin stalled

\* The initial events.
SendInit(w) ==
  /\ pc[w] = "list"
  /\ IF present /\ GetInitWatchEvent(kind, query, obj)
     THEN Writable(w) /\ got' = [got EXCEPT ![w] = @ \cup {cache}]
     ELSE UNCHANGED got
  /\ Go(w)
  /\ UNCHANGED <<fixed, cache, present, send, open, stalled, key, pending, before>>

\* Lock, up to the wait for readers.
Lock(w) ==
  /\ pc[w] \in {"add", "leave"} /\ pending = None
  /\ pending' = w
  /\ UNCHANGED <<fixed, cache, present, send, pc, open, stalled, key, got, before>>

Locked(w) == pending = w /\ \A v \in Versions : send[v].at # "send"

\* ResourceSubscriber.Add: a key that is there stays with its channel.
Add(w) ==
  /\ pc[w] = "add" /\ Locked(w)
  /\ pending' = None
  /\ IF kind = "event"
     THEN pc' = [pc EXCEPT ![w] = "gone"] /\ UNCHANGED key
     ELSE /\ Go(w)
          /\ \E k \in IF mode[w] = "chunk" THEN {w} ELSE Seconds :
               key' = IF \E u \in Watchers : key[u] = k THEN key ELSE [key EXCEPT ![w] = k]
  /\ before' = [before EXCEPT ![w] = {v \in Versions : send[v].at = "end"}]
  /\ UNCHANGED <<fixed, cache, present, send, open, stalled, got>>

DeleteLocked(w) ==
  /\ pc[w] = "leave" /\ Locked(w)
  /\ pc' = [pc EXCEPT ![w] = "gone"]
  /\ key' = [key EXCEPT ![w] = None]
  /\ UNCHANGED <<fixed, cache, present, send, open, stalled, pending, got, before>>

\* ResourceSubscriber.Delete
Delete(w) ==
  /\ pc[w] = "leave" /\ Locked(w)
  /\ pending' = None
  /\ pc' = [pc EXCEPT ![w] = "gone"]
  /\ key' = [key EXCEPT ![w] = None]
  /\ UNCHANGED <<fixed, cache, present, send, open, stalled, got, before>>

\* The channel passes an event, which the filter may drop.
Receive(w) ==
  \E v \in Versions :
    /\ send[v].at = "send" /\ send[v].to = w /\ pc[w] = "loop"
    /\ \E s \in NextChannel(send[v].left) : send' = [send EXCEPT ![v] = s]
    /\ IF checkIsNeedToWatch(kind, query, obj)
       THEN pc' = [pc EXCEPT ![w] = "write"] /\ got' = [got EXCEPT ![w] = @ \cup {v}]
       ELSE UNCHANGED <<pc, got>>
    /\ UNCHANGED <<fixed, cache, present, open, stalled, key, pending, before>>

\* A write to a websocket whose client is gone fails, and ends the loop.
Send(w) ==
  /\ pc[w] = "write" /\ Writable(w)
  /\ pc' = [pc EXCEPT ![w] = IF open[w] \/ mode[w] = "chunk" THEN "loop" ELSE "leave"]
  /\ UNCHANGED <<fixed, cache, present, send, open, stalled, key, pending, got, before>>

\* CloseNotify
Closed(w) ==
  /\ pc[w] = "loop" /\ mode[w] = "chunk" /\ ~open[w]
  /\ pc' = [pc EXCEPT ![w] = "leave"]
  /\ UNCHANGED <<fixed, cache, present, send, open, stalled, key, pending, got, before>>

doChunkWatch(w) ==
  /\ mode[w] = "chunk"
  /\ SendInit(w) \/ Lock(w) \/ Add(w) \/ Receive(w) \/ Send(w) \/ Closed(w) \/ Delete(w)

doWebsocketWatch(w) ==
  /\ mode[w] = "websocket"
  /\ Lock(w) \/ Add(w) \/ SendInit(w) \/ Receive(w) \/ Send(w) \/ Delete(w)

MayLose(w) == Cardinality({u \in Watchers \ {w} : ~open[u] \/ u \in stalled}) < MaxLost

\* The client goes away (external).
Disconnect(w) ==
  /\ open[w] /\ MayLose(w)
  /\ open' = [open EXCEPT ![w] = FALSE]
  /\ UNCHANGED <<fixed, cache, present, send, pc, stalled, key, pending, got, before>>

\* The client stays connected and reads no more (external).
Stall(w) ==
  /\ open[w] /\ w \notin stalled /\ MayLose(w)
  /\ stalled' = stalled \cup {w}
  /\ UNCHANGED <<fixed, cache, present, send, pc, open, key, pending, got, before>>

-----------------------------------------------------------------------------
Running ==
  \/ \E v \in Versions : syncToNode(v)
  \/ \E w \in Watchers : doChunkWatch(w) \/ doWebsocketWatch(w)

Next ==
  \/ Change
  \/ \E w \in Watchers : Disconnect(w) \/ Stall(w)
  \/ Running

Spec == Init /\ [][Next]_vars

\* Goroutines that can run do so.  None goes round in a circle.
FairSpec == Spec /\ WF_vars(Running)

-----------------------------------------------------------------------------
\* What a client means by its query, for objects other than the endpoint of
\* the center.
Selected ==
  /\ query.namespace \in {"", obj.namespace}
  /\ query.name \in {"", obj.name}
  /\ query.field \in {<<>>, <<"metadata.name", obj.name>>}
       \cup IF kind = "pod" THEN {<<"spec.nodeName", obj.node>>} ELSE {}
  /\ kind # "event" /\ ~(kind = "endpoint" /\ query.field = Kubernetes)

(***************************************************************************)
(* When no event is under way, a connected client that subscribed has got  *)
(* every event sent since that its query selects, deletions too; over a    *)
(* websocket, which subscribes before it lists, it has the newest version  *)
(* of an object that exists, whatever happened around its start.           *)
(***************************************************************************)
NothingMissed ==
  (\A v \in 1..cache : send[v].at = "end") =>
    \A w \in Watchers :
      Selected /\ pc[w] = "loop" /\ key[w] # None /\ open[w] =>
        /\ (1..cache) \ before[w] \subseteq got[w]
        /\ mode[w] = "websocket" /\ present => cache \in got[w]

\* The goroutine of version v has not passed watcher w.
Underway(v, w) ==
  send[v].at = "start" \/ (send[v].at = "send" /\ (w \in send[v].left \/ w = send[v].to))

(* Why it holds: who subscribes finds no goroutine half way through the     *)
(* subscribers, and stays one until the client is gone; what has passed it  *)
(* is taken.                                                                *)
SubscribersServed ==
  /\ \A v \in 1..cache : send[v].at # "none"
  /\ \A w \in Watchers :
       /\ key[w] # None => pc[w] \in {"list", "loop", "write", "leave"}
       /\ key[w] # None /\ pc[w] = "list" => mode[w] = "websocket"
       /\ pc[w] = "leave" => ~open[w]
       /\ Selected /\ key[w] # None /\ open[w] =>
            /\ \A v \in 1..cache : v \in before[w] \cup got[w] \/ Underway(v, w)
            /\ mode[w] = "websocket" /\ pc[w] \in {"loop", "write"} /\ present
                 => cache \in got[w] \/ Underway(cache, w)

\* The write of w waits for a client that does not read.
Stuck(w) == pc[w] \in {"list", "write"} /\ ~Writable(w)

\* A goroutine sends to a watcher that has left its loop and waits for the
\* goroutine to release the lock, or to one that waits for its client.
Blocked ==
  \E v \in Versions : send[v].at = "send" /\ (pc[send[v].to] = "leave" \/ Stuck(send[v].to))

\* No goroutine waits for the lock or on a channel.
Free ==
  /\ \A v \in Versions : send[v].at \in {"none", "end"}
  /\ \A w \in Watchers : pc[w] \in {"loop", "gone"} \/ Stuck(w)

(***************************************************************************)
(* Once changes and faults end, every syncToNode ends, and every watcher   *)
(* that comes or goes gets the lock, except in two cases: a watcher leaves *)
(* while an event is sent to it, or an event is sent to a watcher whose    *)
(* client is connected and does not read.  These are the only ways in      *)
(* which subscribers block each other.                                     *)
(***************************************************************************)
OnlyClientsBlock == <>[](Free \/ Blocked)
=============================================================================

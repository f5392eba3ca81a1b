----------------------------- MODULE EdgeStore -----------------------------
(***************************************************************************)
(* The local storage of the edge hub (pkg/storage): a cache of indexers,   *)
(* one for each kind of resource, and a LevelDB.  The model follows one    *)
(* object of one kind.  Its contents are numbers: 0 when it is absent,     *)
(* a version given by the center, or a value written at the edge.          *)
(*                                                                         *)
(* A secret or configmap created at the edge is stored in the LevelDB      *)
(* under an empty name ("blank") and not under its own.  Certificates are  *)
(* a kind whose contents no indexer takes.                                 *)
(*                                                                         *)
(* UpdateLevelDB and MergeNothing are broken variants of the definition that *)
(* follows each of them, used to show that properties depend on it.        *)
(***************************************************************************)
EXTENDS Naturals, Sequences

CONSTANTS
  MaxVersion,   \* bound: versions of the object at the center
  MaxWrites     \* bound: values written at the edge

ASSUME StoreAssumption == MaxVersion \in Nat \ {0} /\ MaxWrites \in Nat

VARIABLES
  kind,           \* the kind of the object
  RemoteEnable,   \* EdgehubStorage.RemoteEnable
  cache,          \* what Cache[kind] holds of the object
  levelDB,        \* [Keys -> Values]
  batch           \* keys that MergeDelete is about to delete

storeVars == <<RemoteEnable, cache, levelDB, batch>>

CoreKinds == {"pod", "node", "service", "endpoint", "namespace", "event"}
UnnamedKinds == {"secret", "configmap"}
OptionalKinds == {"lease", "networkpolicy", "csidriver", "csinode", "runtimeclass", "csr"}
ReviewKinds == {"tokenreview", "subjectaccessreview"}
Cert == "cert"
Kinds == CoreKinds \cup UnnamedKinds \cup OptionalKinds \cup ReviewKinds \cup {Cert}

Keys == {"own", "blank"}
Absent == 0
Local(n) == MaxVersion + n
Values == 0..(MaxVersion + MaxWrites)
\* Cache has no indexer for the kind.
NoIndexer == MaxVersion + MaxWrites + 1

StoreTypeOK ==
  /\ kind \in Kinds
  /\ RemoteEnable \in BOOLEAN
  /\ cache \in Values \cup {NoIndexer}
  /\ levelDB \in [Keys -> Values]
  /\ batch \subseteq Keys

\* The object in the map of indexers.  In the order of the LevelDB the empty
\* name comes first, so that the object under its own name is added last.
RebuildCache(db) ==
  CASE \A k \in Keys : db[k] = Absent -> NoIndexer
    [] kind = Cert /\ db["own"] # Absent -> Absent
    [] OTHER -> IF db["own"] # Absent THEN db["own"] ELSE db["blank"]

NewEdgehubStore(db) ==
  /\ levelDB = db
  /\ cache = RebuildCache(db)
  /\ RemoteEnable = FALSE
  /\ batch = {}

\* Get succeeds for the name of the object.
InCache == cache \notin {Absent, NoIndexer}

\* What Get returns (Absent for an error), and the objects that List has.
Get == IF InCache THEN cache ELSE Absent
List == IF InCache THEN {cache} ELSE {}

UpdateLevelDB(k, v) ==
  /\ cache' = cache
  /\ levelDB' = [levelDB EXCEPT ![k] = v]
  /\ UNCHANGED <<RemoteEnable, batch>>

\* Update writes the cache only when the center does not.
Update(k, v) ==
  /\ cache' = IF ~RemoteEnable /\ cache # NoIndexer /\ kind # Cert THEN v ELSE cache
  /\ levelDB' = [levelDB EXCEPT ![k] = v]
  /\ UNCHANGED <<RemoteEnable, batch>>

Delete(k) ==
  /\ cache' = IF ~RemoteEnable /\ cache # NoIndexer THEN Absent ELSE cache
  /\ levelDB' = [levelDB EXCEPT ![k] = Absent]
  /\ UNCHANGED <<RemoteEnable, batch>>

\* What the iterator of MergeDelete puts into its batch, given the cache.
Unmatched(c) ==
  {k \in Keys : levelDB[k] # Absent /\ ~(k = "own" /\ c \notin {Absent, NoIndexer})}

MergeNothing == levelDB' = levelDB /\ batch' = {}

\* The batch is written in one go, after the iteration.
MergeDelete ==
  /\ levelDB' = [k \in Keys |-> IF k \in batch THEN Absent ELSE levelDB[k]]
  /\ batch' = {}

=============================================================================

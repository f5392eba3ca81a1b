--------------------------- MODULE LeaderRedirect ---------------------------
(***************************************************************************)
(* The replicas of the root cluster controller, of which leader election   *)
(* makes one the leader, and a tunnel that looks for it.  A replica that   *)
(* is not the leader redirects to the address it last heard of as the      *)
(* leader's (cloudtunnel.go, app.go).  The tunnel follows, keeps the       *)
(* address it came from, and goes back there when it fails                 *)
(* (controller_tunnel.go; edgetunnel.go does the same and then turns to    *)
(* the parent neighbours of ClusterTree).                                  *)
(*                                                                         *)
(* A replica stands for its listen address.  The lease outlives a leader   *)
(* whose process ends, and is the leader's again if it comes back in time. *)
(* A leader that cannot renew it ends its process before it runs out.      *)
(*                                                                         *)
(* ObserveOnly and FollowInPlace are broken variants of the definition that *)
(* follows each of them, used to show that properties depend on it.        *)
(***************************************************************************)
EXTENDS Naturals

CONSTANTS
  Replica,   \* root cluster controllers
  Setting,   \* the address the tunnel is configured with
  None,      \* the empty address, no leader, no connection
  MaxFaults  \* bound: replicas that stop and connections that break

ASSUME ReplicaAssumption == Setting \in Replica /\ None \notin Replica /\ MaxFaults \in Nat

VARIABLES
  up,         \* replicas that run
  starting,   \* replicas about to call Start of their cluster handler
  listening,  \* replicas whose cluster handler listens
  leader,     \* holder of the lease
  seen,       \* the leader last reported to OnNewLeader
  known,      \* LeaderListenAddr
  cloudAddr,
  origin,     \* originCloudAddr
  tunnel,     \* the replica the tunnel is connected to
  faults

election == <<up, starting, listening, leader, seen, known>>
leaderVars == <<election, cloudAddr, origin, tunnel, faults>>

\* Types of the replicas and of the tunnel.
LeaderTypeOK ==
  /\ up \subseteq Replica
  /\ starting \subseteq up /\ listening \subseteq up
  /\ leader \in Replica \cup {None}
  /\ seen \in [Replica -> Replica \cup {None}]
  /\ known \in [Replica -> Replica \cup {None}]
  /\ cloudAddr \in Replica
  /\ origin \in Replica \cup {None}
  /\ tunnel \in up \cup {None}
  /\ faults \in 0..MaxFaults

LeaderInit ==
  /\ up = Replica
  /\ starting = {} /\ listening = {}
  /\ leader = None
  /\ seen = [r \in Replica |-> None]
  /\ known = [r \in Replica |-> None]
  /\ cloudAddr = Setting
  /\ origin = None
  /\ tunnel = None
  /\ faults = 0

-----------------------------------------------------------------------------
(* The replicas.                                                            *)

\* The lease is free, and r gets it.
Elect(r) ==
  /\ r \in up
  /\ leader = None
  /\ leader' = r
  /\ UNCHANGED <<up, starting, listening, seen, known, cloudAddr, origin, tunnel, faults>>

\* The lease of a replica that is gone runs out.
Expire ==
  /\ leader # None /\ leader \notin up
  /\ leader' = None
  /\ UNCHANGED <<up, starting, listening, seen, known, cloudAddr, origin, tunnel, faults>>

\* OnStartedLeading.
StartLeading(r) ==
  /\ r \in up /\ leader = r
  /\ known' = [known EXCEPT ![r] = None]
  /\ UNCHANGED <<up, starting, listening, leader, seen, cloudAddr, origin, tunnel, faults>>

ObserveOnly(r) ==
  /\ r \in up \ starting
  /\ leader \notin {None, seen[r]}
  /\ seen' = [seen EXCEPT ![r] = leader]
  /\ starting' = starting \cup {r}
  /\ UNCHANGED <<up, listening, leader, known, cloudAddr, origin, tunnel, faults>>

(* OnNewLeader keeps the address of another leader ...  It has returned     *)
(* before the next leader is reported: retryPeriod is two seconds.          *)
Observe(r) ==
  /\ r \in up \ starting
  /\ leader \notin {None, seen[r]}
  /\ seen' = [seen EXCEPT ![r] = leader]
  /\ known' = [known EXCEPT ![r] = IF leader = r THEN @ ELSE leader]
  /\ starting' = starting \cup {r}
  /\ UNCHANGED <<up, listening, leader, cloudAddr, origin, tunnel, faults>>

\* The process of r ends, and its connections with it.
End(r) ==
  /\ up' = up \ {r}
  /\ starting' = starting \ {r} /\ listening' = listening \ {r}
  /\ seen' = [seen EXCEPT ![r] = None]
  /\ known' = [known EXCEPT ![r] = None]
  /\ tunnel' = IF tunnel = r THEN None ELSE tunnel
  /\ UNCHANGED <<leader, cloudAddr, origin>>

(* ... and starts the handler.  Start listens on the address again at every *)
(* new leader: the second time that fails, and the error is fatal.          *)
StartHandler(r) ==
  /\ r \in starting
  /\ \/ /\ r \notin listening
        /\ starting' = starting \ {r} /\ listening' = listening \cup {r}
        /\ UNCHANGED <<up, leader, seen, known, cloudAddr, origin, tunnel>>
     \/ r \in listening /\ End(r)
  /\ UNCHANGED faults

\* A replica fails, or loses the lease (OnStoppedLeading).
Stop(r) ==
  /\ r \in up
  /\ faults < MaxFaults
  /\ faults' = faults + 1
  /\ End(r)

Restart(r) ==
  /\ r \notin up
  /\ up' = up \cup {r}
  /\ UNCHANGED <<starting, listening, leader, seen, known, cloudAddr, origin, tunnel, faults>>

-----------------------------------------------------------------------------
(* The tunnel.                                                              *)

\* A dial is answered, and not with a redirect.
Connect ==
  /\ tunnel = None
  /\ cloudAddr \in listening
  /\ known[cloudAddr] = None
  /\ tunnel' = cloudAddr
  /\ UNCHANGED <<election, cloudAddr, origin, faults>>

FollowInPlace ==
  /\ tunnel = None
  /\ cloudAddr \in listening
  /\ known[cloudAddr] # None
  /\ origin' = cloudAddr
  /\ UNCHANGED <<election, cloudAddr, tunnel, faults>>

\* A redirect: the tunnel keeps where it came from and dials again.
Follow ==
  /\ tunnel = None
  /\ cloudAddr \in listening
  /\ known[cloudAddr] # None
  /\ origin' = cloudAddr
  /\ cloudAddr' = known[cloudAddr]
  /\ UNCHANGED <<election, tunnel, faults>>

\* A dial fails: the origin is next, once.  Without one the same address is tried again.
GoBack ==
  /\ tunnel = None
  /\ cloudAddr \notin listening
  /\ origin # None
  /\ cloudAddr' = origin
  /\ origin' = None
  /\ UNCHANGED <<election, tunnel, faults>>

\* The connection breaks.
Disconnect ==
  /\ tunnel # None
  /\ faults < MaxFaults
  /\ faults' = faults + 1
  /\ tunnel' = None
  /\ UNCHANGED <<election, cloudAddr, origin>>

LeaderNext ==
  \/ \E r \in Replica : \/ Elect(r) \/ StartLeading(r) \/ Observe(r)
                        \/ StartHandler(r) \/ Stop(r) \/ Restart(r)
  \/ Expire
  \/ Connect \/ Follow \/ GoBack \/ Disconnect

LeaderSpec == LeaderInit /\ [][LeaderNext]_leaderVars

(* A free lease is taken, every replica hears of a leader, a process that   *)
(* ended is started again, and the tunnel goes on dialing.                  *)
FairLeader ==
  /\ LeaderSpec
  /\ WF_leaderVars(\E r \in Replica : Elect(r)) /\ WF_leaderVars(Expire)
  /\ \A r \in Replica : /\ WF_leaderVars(StartLeading(r)) /\ WF_leaderVars(Observe(r))
                        /\ WF_leaderVars(StartHandler(r)) /\ WF_leaderVars(Restart(r))
  /\ WF_leaderVars(Connect \/ Follow \/ GoBack)

-----------------------------------------------------------------------------
(* Only the leader serves: the replica a tunnel is connected to holds the   *)
(* lease, so that two tunnels are never served by two replicas              *)
(* (setLeaderListenAddr before clusterHandler.Start, Fatal in               *)
(* OnStoppedLeading).                                                       *)
OnlyLeaderServes == tunnel # None => leader = tunnel

\* Why it holds: a replica that would accept a tunnel is the leader.
AcceptorLeads == \A r \in starting \cup listening : known[r] = None => leader = r

(* Once a leader stays, a tunnel finds it and stays with it (redirect of    *)
(* accessHandler and controllerHandler, originCloudAddr of the tunnel).     *)
FindsLeader ==
  (\E r \in Replica : <>[](leader = r /\ r \in up)) => <>[](tunnel # None /\ tunnel = leader)
=============================================================================

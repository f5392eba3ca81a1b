---------------------------- MODULE LoadBalancer ----------------------------
(***************************************************************************)
(* The health check of the load balancer of the edge hub                   *)
(* (pkg/loadbalancer).  The center is up when one of its servers can be    *)
(* dialled.  HealthChan has no buffer: a signal waits until the hub takes  *)
(* it, and no check is made meanwhile.                                     *)
(*                                                                         *)
(* healthCheckOnce is a broken variant of healthCheck, used to show that   *)
(* properties depend on it.                                                *)
(***************************************************************************)
EXTENDS Naturals

VARIABLES
  up,            \* the center can be reached
  remoteEnable,  \* LoadBalancer.remoteEnable
  signal         \* the send on HealthChan under way: of "true" or of "false"; "taken"
                 \* when the hub has received a true

lbVars == <<remoteEnable, signal>>

Signals == {"none", "true", "taken", "false"}

LoadBalancerTypeOK == up \in BOOLEAN /\ remoteEnable \in BOOLEAN /\ signal \in Signals

\* Start: no signal has been sent.
LoadBalancerInit == remoteEnable = FALSE /\ signal = "none"

IsRemoteEnable == remoteEnable

\* The flag comes down before the hub is told, and goes up after it is.
sendSignalToSyncer(ready) ==
  IF ready
  THEN /\ ~remoteEnable
       /\ signal' = "true"
       /\ UNCHANGED remoteEnable
  ELSE /\ remoteEnable
       /\ remoteEnable' = FALSE
       /\ signal' = "false"

healthCheckOnce == signal = "none" /\ up /\ sendSignalToSyncer(TRUE)

healthCheck == signal = "none" /\ sendSignalToSyncer(up)

\* The rest of a send of true that the hub has received.
Enable ==
  /\ signal = "taken"
  /\ remoteEnable' = TRUE
  /\ signal' = "none"

=============================================================================

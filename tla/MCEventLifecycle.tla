-------------------------- MODULE MCEventLifecycle --------------------------
(* EventLifecycle for TLC: two deliveries of one event, which compete for     *)
(* its claim and for the one slot of the recovery.                            *)
EXTENDS EventLifecycle, TLC

CONSTANT event

Deliver == [d \in Deliveries |-> event]
=============================================================================

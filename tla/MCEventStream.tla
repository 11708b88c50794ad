---------------------------- MODULE MCEventStream ----------------------------
(* EventStream on small instances: capacities of one or two, so that the     *)
(* history rolls over, the ring laps a receiver and the queue fills.         *)
EXTENDS EventStream

CONSTANTS stdout, stderr

=============================================================================

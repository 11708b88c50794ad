----------------------------- MODULE MCRequests -----------------------------
(* What clients ask of a registered session: processes spawned into it, and  *)
(* requests to its control socket.  The two share no variable, so a property  *)
(* of one holds of their composition when it holds of that one alone: a       *)
(* behaviour moves only the part chosen at the start.                         *)
EXTENDS SpawnChild, SessionCalls

CONSTANTS g1, g2, k1

VARIABLE part

requestVars == <<vars, rpcVars, nameVars, part>>

RequestInit == Init /\ CallsInit /\ part \in {"spawn", "control"}

RequestNext ==
    /\ UNCHANGED part
    /\ \/ part = "spawn" /\ Next /\ UNCHANGED <<rpcVars, nameVars>>
       \/ part = "control" /\ CallsNext /\ UNCHANGED vars

\* No fair action of a part is enabled before the part has moved.
RequestSpec == RequestInit /\ [][RequestNext]_requestVars /\ Fairness /\ CallsFairness
=============================================================================

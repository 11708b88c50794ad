-------------------------- MODULE SessionLifecycle --------------------------
(***************************************************************************)
(* What the session registry promises to whoever bills or lists sessions:  *)
(* an instance is live once, never beside another live instance of its     *)
(* name, and after it has left the map exactly one session_stop follows.   *)
(***************************************************************************)
CONSTANTS Sid, NameOf

VARIABLE life   \* "absent", "live" (registered), "leaving", "stopped"

Init == life = [s \in Sid |-> "absent"]

Become(s, stage) == life' = [life EXCEPT ![s] = stage]

Start(s) ==
    /\ life[s] = "absent"
    /\ \A r \in Sid : NameOf[r] = NameOf[s] => life[r] # "live"
    /\ Become(s, "live")

Leave(s) == life[s] = "live" /\ Become(s, "leaving")

Stop(s) == life[s] = "leaving" /\ Become(s, "stopped")

Next == \E s \in Sid : Start(s) \/ Leave(s) \/ Stop(s)

Safety == Init /\ [][Next]_life

Spec == Safety /\ \A s \in Sid : WF_life(Stop(s))
=============================================================================

--------------------------- MODULE MCDaemonShutdown ---------------------------
(* DaemonShutdown for TLC: create() calls that ask for one name, by a client  *)
(* that waits for the end of one session before it asks for the next.  (What   *)
(* the shutdown guarantees is proved for every client.)                       *)
EXTENDS DaemonShutdown

CONSTANTS s1, s2, n1

NameOfPair == [s \in {s1, s2} |-> n1]
===============================================================================

-------------------------- MODULE MCSessionRegistry --------------------------
(* Instances of SessionRegistry for TLC: two create() calls that ask for the  *)
(* same name.                                                                *)
EXTENDS SessionRegistry

CONSTANTS s1, s2, n1

NameOfPair == [s \in {s1, s2} |-> n1]
=============================================================================

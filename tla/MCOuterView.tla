----------------------------- MODULE MCOuterView -----------------------------
(* What an attached session shares with its host: buffers, grabs and the     *)
(* clipboard.  The three share no variable, so a property of one holds of     *)
(* their composition when it holds of that one alone: a behaviour moves only  *)
(* the part chosen at the start.                                              *)
EXTENDS SessionBuffers, InputGrab, ClipboardBridge

CONSTANTS d1, s1, c1, c2

VARIABLE part

outerVars == <<vars, grabVars, clipVars, part>>

OuterInit == Init /\ GrabInit /\ ClipInit /\ part \in {"buffers", "grabs", "clipboard"}

OuterNext ==
    /\ UNCHANGED part
    /\ \/ part = "buffers" /\ Next /\ UNCHANGED <<grabVars, clipVars>>
       \/ part = "grabs" /\ GrabNext /\ UNCHANGED <<vars, clipVars>>
       \/ part = "clipboard" /\ ClipNext /\ UNCHANGED <<vars, grabVars>>

\* No fair action of a part is enabled before the part has moved.
OuterSpec == OuterInit /\ [][OuterNext]_outerVars /\ Fairness /\ GrabFairness /\ ClipFairness
=============================================================================

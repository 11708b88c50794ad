--------------------------- MODULE MCSessionSeat ---------------------------
EXTENDS SessionSeat
\* Client A has a keyboard, client B a pointer and no touch screen.
MCOwner == [d \in {"k1", "p1"} |-> IF d = "k1" THEN "A" ELSE "B"]
MCKind == [d \in {"k1", "p1"} |-> IF d = "k1" THEN "kbd" ELSE "ptr"]
MCCodeKind == [c \in {"key", "btn", "tap"} |-> IF c = "key" THEN "kbd" ELSE IF c = "btn" THEN "ptr" ELSE "touch"]
MCSdkEvent == {[code |-> "tap", on |-> TRUE]}
=============================================================================

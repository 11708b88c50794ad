------------------------------ MODULE MCCapture ------------------------------
(* The two consumers of a session's frames, the recorder and the remote      *)
(* viewer.  They share no variable, so a property of one holds of their       *)
(* composition when it holds of that one alone: a behaviour moves only the    *)
(* part chosen at the start.                                                  *)
EXTENDS RecordSession, ViewerStream

VARIABLE part

captureVars == <<recVars, viewerVars, part>>

CaptureInit == RecInit /\ ViewerInit /\ part \in {"recording", "viewer"}

CaptureNext ==
    /\ UNCHANGED part
    /\ \/ part = "recording" /\ RecNext /\ UNCHANGED viewerVars
       \/ part = "viewer" /\ ViewerNext /\ UNCHANGED recVars

\* No fair action of a part is enabled before the part has moved.
CaptureSpec == CaptureInit /\ [][CaptureNext]_captureVars /\ RecFairness /\ ViewerFairness
=============================================================================

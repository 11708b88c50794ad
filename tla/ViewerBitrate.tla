---------------------------- MODULE ViewerBitrate ----------------------------
(***************************************************************************)
(* The bitrate half of handleWS, composed with ViewerSlots: every viewer   *)
(* has a bandwidth estimate and a goroutine that, once a second, sends it  *)
(* to the session's one encoder if the viewer is primary and the estimate  *)
(* differs enough from what this goroutine sent last.  Rates are in units  *)
(* of 50 kbit/s.                                                           *)
(***************************************************************************)
EXTENDS ViewerSlots

CONSTANTS
    Rate,     \* values of the congestion controller's estimate
    MinRate,  \* minBitrate
    MaxRate   \* maxBitrate

VARIABLES
    estimate,  \* GetTargetBitrate of each viewer's estimator
    lastSent,  \* what each goroutine last sent, 0 before the first time
    bitrate    \* the encoder's bitrate, 0 before the first TagSetBitrate

rateVars == <<estimate, lastSent, bitrate>>
allVars == <<vars, rateVars>>

\* Every variable has its type, and what is sent to the encoder is in its range.
RateTypeOK ==
    /\ TypeOK
    /\ estimate \in [Conn -> Rate]
    /\ lastSent \in [Conn -> {0} \cup MinRate .. MaxRate]
    /\ bitrate \in {0} \cup MinRate .. MaxRate

RateInit ==
    /\ Init
    /\ estimate \in [Conn -> Rate]
    /\ lastSent = [c \in Conn |-> 0]
    /\ bitrate = 0

Clamp(r) == IF r < MinRate THEN MinRate ELSE IF r > MaxRate THEN MaxRate ELSE r

\* 85 % of the estimate, between the floor and the ceiling.
Target(c) == Clamp((estimate[c] * 85) \div 100)

\* A tenth of the last value, and no less than 150 kbit/s.
Threshold(last) == IF last \div 10 < 3 THEN 3 ELSE last \div 10

Distance(a, b) == IF a < b THEN b - a ELSE a - b

\* statsCtx is cancelled only after removeViewer, by a later deferred call.
Ticking(c) == pc[c] \in {"viewing", "removed"}

\* (mistake) An estimate that is not worth sending is remembered as sent.
TickRemembers(c) ==
    /\ Ticking(c) /\ c \in primary
    /\ LET target == Target(c)
       IN  /\ lastSent[c] # target
           /\ bitrate' = IF lastSent[c] = 0 \/ Distance(target, lastSent[c]) >=
                                               Threshold(lastSent[c])
                         THEN target ELSE bitrate
           /\ lastSent' = [lastSent EXCEPT ![c] = target]
    /\ UNCHANGED <<vars, estimate>>

\* The ticker fires at a primary viewer with a significant change.
Tick(c) ==
    /\ Ticking(c) /\ c \in primary
    /\ LET target == Target(c)
       IN  /\ \/ lastSent[c] = 0
              \/ Distance(target, lastSent[c]) >= Threshold(lastSent[c])
           /\ bitrate' = target
           /\ lastSent' = [lastSent EXCEPT ![c] = target]
    /\ UNCHANGED <<vars, estimate>>

\* The congestion controller revises a viewer's estimate.
Estimate(c) ==
    /\ Ticking(c)
    /\ \E r \in Rate \ {estimate[c]} : estimate' = [estimate EXCEPT ![c] = r]
    /\ UNCHANGED <<vars, lastSent, bitrate>>

\* A step of the handler; a new request starts with a goroutine of its own.
HandlerStep(c) ==
    /\ Handler(c)
    /\ lastSent' = [lastSent EXCEPT ![c] = IF pc'[c] = "idle" THEN 0 ELSE @]
    /\ UNCHANGED <<estimate, bitrate>>

RateNext == \E c \in Conn : HandlerStep(c) \/ Tick(c) \/ Estimate(c)

\* The ticker keeps firing; nothing else has to happen.
RateSpec == RateInit /\ [][RateNext]_allVars /\ \A c \in Conn : WF_allVars(Tick(c))

-----------------------------------------------------------------------------
\* The encoder's rate is within one threshold of what viewer c asks for.
Follows(c) == /\ bitrate # 0
              /\ Distance(Target(c), bitrate) < Threshold(bitrate)

\* "only the primary viewer's estimator drives the single shared encoder": once
\* a viewer stays primary and its estimate stays put, the encoder runs at it.
EncoderFollowsPrimary ==
    \A c \in Conn, r \in Rate :
        <>[](pc[c] = "viewing" /\ c \in primary /\ estimate[c] = r) => <>[]Follows(c)

=============================================================================

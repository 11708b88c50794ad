------------------------------ MODULE MCViewer ------------------------------
(* Two instances side by side; a behaviour moves the one chosen at the start. *)
(* ViewerSlots has more connections than slots, and more from one address     *)
(* than it may have at a time; with three viewers the newest that remains     *)
(* differs from the oldest.  Lone is ViewerBitrate with one connection and    *)
(* estimates below the floor, above the ceiling, and closer together than the *)
(* threshold.                                                                 *)
EXTENDS ViewerSlots, TLC

CONSTANTS c1, c2, c3, c4, c5, home, away, Rate, MinRate, MaxRate

AddressOf == c1 :> home @@ c2 :> home @@ c3 :> home @@ c4 :> away @@ c5 :> away

VARIABLES lone, lonePc, loneHandshakes, loneReserved, loneHolding, loneViewers,
          lonePrimary, loneChecked, estimate, lastSent, bitrate

loneVars == <<lonePc, loneHandshakes, loneReserved, loneHolding, loneViewers,
              lonePrimary, loneChecked, estimate, lastSent, bitrate>>

Lone == INSTANCE ViewerBitrate WITH
            Conn <- {c1}, Ip <- {home}, IpOf <- c1 :> home,
            pc <- lonePc, handshakes <- loneHandshakes, reserved <- loneReserved,
            holding <- loneHolding, viewers <- loneViewers, primary <- lonePrimary,
            checked <- loneChecked

ViewerInit == Init /\ Lone!RateInit /\ lone \in BOOLEAN /\ (lone \/ estimate[c1] = CHOOSE r \in Rate : TRUE)

ViewerNext ==
    /\ UNCHANGED lone
    /\ \/ lone /\ Lone!RateNext /\ UNCHANGED vars
       \/ ~lone /\ Next /\ UNCHANGED loneVars

\* The ticker of Lone is enabled only once Lone has moved.
ViewerSpec ==
    /\ ViewerInit /\ [][ViewerNext]_<<vars, loneVars, lone>>
    /\ WF_loneVars(Lone!Tick(c1))

\* ViewerBitrate's property, of a session with one viewer at a time: "only the primary
\* viewer's estimator drives the single shared encoder", so once it stays primary and
\* its estimate stays put the encoder runs at it.
EncoderFollowsPrimary == Lone!EncoderFollowsPrimary
=============================================================================

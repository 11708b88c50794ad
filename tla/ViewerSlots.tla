----------------------------- MODULE ViewerSlots -----------------------------
(***************************************************************************)
(* Admission and control of the WebRTC bridge's viewers                    *)
(* (waymux-neko-bridge, internal/server/server.go): the per-address        *)
(* handshake limit, the reservation of a viewer slot before the upgrade,   *)
(* its commit or release, the last-wins primary flag and the forwarding    *)
(* of input.  Each member of Conn is a handleWS goroutine; after it        *)
(* returns, the next request may use it again.                             *)
(***************************************************************************)
EXTENDS Integers, Sequences, FiniteSets

CONSTANTS
    Conn,        \* handleWS goroutines
    Ip,          \* client addresses
    IpOf,        \* the address each connection comes from
    MaxViewers,  \* maxViewers()
    MaxPerIp     \* maxHandshakesPerIP()

ASSUME ConstantsAssumption ==
    /\ IsFiniteSet(Conn)
    /\ IpOf \in [Conn -> Ip]
    /\ MaxViewers \in Nat \ {0}
    /\ MaxPerIp \in Nat \ {0}

VARIABLES
    pc,          \* how far each handler has come
    handshakes,  \* handshakesPerIP
    reserved,    \* reservedViewers
    holding,     \* handlers whose reservation's sync.Once has not fired
    viewers,     \* Server.viewers, in connect order
    primary,     \* handlers whose viewer.primary is set
    checked      \* handlers between the primary test and forwardInput

vars == <<pc, handshakes, reserved, holding, viewers, primary, checked>>

Stage == {"idle", "handshake", "reserved", "upgraded", "viewing", "removed",
          "closing", "leaving"}

Listed == {viewers[i] : i \in 1 .. Len(viewers)}

\* Every variable has its type.
TypeOK ==
    /\ pc \in [Conn -> Stage]
    /\ handshakes \in [Ip -> Nat]
    /\ reserved \in Nat
    /\ holding \subseteq Conn
    /\ viewers \in Seq(Conn)
    /\ primary \subseteq Conn
    /\ checked \subseteq Conn

Init ==
    /\ pc = [c \in Conn |-> "idle"]
    /\ handshakes = [a \in Ip |-> 0]
    /\ reserved = 0
    /\ holding = {}
    /\ viewers = <<>>
    /\ primary = {}
    /\ checked = {}

At(c, stage) == pc[c] = stage
Goto(c, stage) == pc' = [pc EXCEPT ![c] = stage]

\* The slice without its i-th element.
Spliced(s, i) == [j \in 1 .. Len(s) - 1 |-> IF j < i THEN s[j] ELSE s[j + 1]]

-----------------------------------------------------------------------------
(* handleWS up to the commit.                                               *)

\* The token is valid and the address below its limit; otherwise 401 or 429.
AcquireHandshakeSlot(c) ==
    /\ At(c, "idle")
    /\ handshakes[IpOf[c]] < MaxPerIp
    /\ handshakes' = [handshakes EXCEPT ![IpOf[c]] = @ + 1]
    /\ Goto(c, "handshake")
    /\ UNCHANGED <<reserved, holding, viewers, primary, checked>>

\* A slot is reserved under mu, or the request is refused with 503.
TryReserveViewerSlot(c) ==
    /\ At(c, "handshake")
    /\ IF Len(viewers) + reserved >= MaxViewers
       THEN Goto(c, "leaving") /\ UNCHANGED <<reserved, holding>>
       ELSE /\ Goto(c, "reserved")
            /\ reserved' = reserved + 1
            /\ holding' = holding \cup {c}
    /\ UNCHANGED <<handshakes, viewers, primary, checked>>

\* The WebSocket upgrade succeeds and the peer connection is set up.
Upgrade(c) ==
    /\ At(c, "reserved")
    /\ Goto(c, "upgraded")
    /\ UNCHANGED <<handshakes, reserved, holding, viewers, primary, checked>>

\* The upgrade or a step of the peer set-up fails: the deferred calls run.
SetupFails(c) ==
    /\ pc[c] \in {"reserved", "upgraded"}
    /\ Goto(c, "closing")
    /\ UNCHANGED <<handshakes, reserved, holding, viewers, primary, checked>>

\* (mistake) The commit leaves the reservation counted.
AddViewerKeepsReserved(c) ==
    /\ At(c, "upgraded")
    /\ holding' = holding \ {c}
    /\ viewers' = Append(viewers, c)
    /\ primary' = (primary \ Listed) \cup {c}
    /\ Goto(c, "viewing")
    /\ UNCHANGED <<handshakes, reserved, checked>>

\* viewerReservation.commit and addViewer: the reservation is consumed, and the
\* newest viewer takes control unless the defensive cap test refuses it.
AddViewer(c) ==
    /\ At(c, "upgraded")
    /\ holding' = holding \ {c}
    /\ reserved' = IF reserved > 0 THEN reserved - 1 ELSE 0
    /\ IF Len(viewers) >= MaxViewers
       THEN Goto(c, "closing") /\ UNCHANGED <<viewers, primary>>
       ELSE /\ viewers' = Append(viewers, c)
            /\ primary' = (primary \ Listed) \cup {c}
            /\ Goto(c, "viewing")
    /\ UNCHANGED <<handshakes, checked>>

-----------------------------------------------------------------------------
(* A connected viewer.                                                      *)

\* An input message is read by the primary; an observer's is dropped.
CheckPrimary(c) ==
    /\ At(c, "viewing") /\ c \notin checked
    /\ c \in primary
    /\ checked' = checked \cup {c}
    /\ UNCHANGED <<pc, handshakes, reserved, holding, viewers, primary>>

\* forwardInput writes it to the session.
ForwardInput(c) ==
    /\ c \in checked
    /\ checked' = checked \ {c}
    /\ UNCHANGED <<pc, handshakes, reserved, holding, viewers, primary>>

\* (mistake) Control falls to the oldest viewer.
RemoveViewerOldest(c) ==
    /\ At(c, "viewing") /\ c \notin checked
    /\ \E i \in 1 .. Len(viewers) :
          /\ viewers[i] = c
          /\ LET rest == Spliced(viewers, i)
             IN  /\ viewers' = rest
                 /\ primary' = IF c \in primary /\ rest # <<>>
                               THEN primary \cup {rest[1]} ELSE primary
    /\ Goto(c, "removed")
    /\ UNCHANGED <<handshakes, reserved, holding, checked>>

\* The read loop ends (the peer closed, or missed its pong deadline) and the
\* deferred removeViewer runs: control falls to the newest remaining viewer.
\* The flag of the viewer that left is not cleared.
RemoveViewer(c) ==
    /\ At(c, "viewing") /\ c \notin checked
    /\ \E i \in 1 .. Len(viewers) :
          /\ viewers[i] = c
          /\ LET rest == Spliced(viewers, i)
             IN  /\ viewers' = rest
                 /\ primary' = IF c \in primary /\ rest # <<>>
                               THEN primary \cup {rest[Len(rest)]} ELSE primary
    /\ Goto(c, "removed")
    /\ UNCHANGED <<handshakes, reserved, holding, checked>>

\* pc.Close, statsCancel, conn.stop and unregisterConn, deferred.
CancelStats(c) ==
    /\ At(c, "removed")
    /\ Goto(c, "closing")
    /\ UNCHANGED <<handshakes, reserved, holding, viewers, primary, checked>>

\* (mistake) The release does not share the commit's sync.Once.
ReleaseReservationAgain(c) ==
    /\ At(c, "closing")
    /\ reserved' = IF reserved > 0 THEN reserved - 1 ELSE reserved
    /\ holding' = holding \ {c}
    /\ Goto(c, "leaving")
    /\ UNCHANGED <<handshakes, viewers, primary, checked>>

\* viewerReservation.release, deferred: nothing after a commit.
ReleaseReservation(c) ==
    /\ At(c, "closing")
    /\ reserved' = IF c \in holding /\ reserved > 0 THEN reserved - 1 ELSE reserved
    /\ holding' = holding \ {c}
    /\ Goto(c, "leaving")
    /\ UNCHANGED <<handshakes, viewers, primary, checked>>

\* (mistake) The slot of the address is not returned.
ReleaseHandshakeKeeps(c) ==
    /\ At(c, "leaving")
    /\ primary' = primary \ {c}
    /\ Goto(c, "idle")
    /\ UNCHANGED <<handshakes, reserved, holding, viewers, checked>>

\* The last deferred call, after which the handler returns; its viewer is gone.
ReleaseHandshake(c) ==
    /\ At(c, "leaving")
    /\ handshakes' = [handshakes EXCEPT ![IpOf[c]] = IF @ <= 1 THEN 0 ELSE @ - 1]
    /\ primary' = primary \ {c}
    /\ Goto(c, "idle")
    /\ UNCHANGED <<reserved, holding, viewers, checked>>

\* What /status reports, under mu.
StatusHasPrimary == Len(viewers) > 0 /\ viewers[1] \in primary

-----------------------------------------------------------------------------
Handler(c) ==
    \/ AcquireHandshakeSlot(c) \/ TryReserveViewerSlot(c) \/ Upgrade(c)
    \/ SetupFails(c) \/ AddViewer(c) \/ CheckPrimary(c) \/ ForwardInput(c)
    \/ RemoveViewer(c) \/ CancelStats(c) \/ ReleaseReservation(c)
    \/ ReleaseHandshake(c)

Next == \E c \in Conn : Handler(c)

Spec == Init /\ [][Next]_vars

-----------------------------------------------------------------------------
(* Properties                                                               *)

\* Admitted viewers and reservations together never exceed the cap, whatever
\* bursts of upgrades, failures and departures do (reservedViewers).
CapIsKept == Len(viewers) + reserved <= MaxViewers

\* reservedViewers counts exactly the handlers whose reservation is neither
\* committed nor released: no slot leaks and none is returned twice.
ReservationsAreConserved == reserved = Cardinality(holding)

\* addViewer's cap test never refuses a handler that reserved its slot: "the
\* atomic reserve gate should make this unreachable on the normal path".
CommitIsNeverRefused ==
    \A c \in Conn : pc[c] = "upgraded" => Len(viewers) < MaxViewers

\* Exactly one listed viewer is primary while there is any, and it is the newest:
\* the last-wins policy of addViewer and removeViewer.
PrimaryIsNewest ==
    \A i \in 1 .. Len(viewers) : viewers[i] \in primary <=> i = Len(viewers)

\* The handlers of an address that are under way.
Open(a) == {c \in Conn : IpOf[c] = a /\ pc[c] # "idle"}

\* The counter of an address is the number of its handlers between acquire and
\* release, so it returns to zero and never exceeds the limit.
HandshakesAreCounted ==
    \A a \in Ip :
        /\ handshakes[a] = Cardinality(Open(a))
        /\ handshakes[a] <= MaxPerIp

\* However handlers fail, upgrade and leave, reservedViewers and the counters
\* of handshakesByIP are exactly what the open handlers hold.
CountersAreExact == ReservationsAreConserved /\ HandshakesAreCounted

\* The inductive strengthening: a handler holds its reservation from the gate to
\* the commit, and the slice lists the viewing handlers, each once.
IInv ==
    /\ TypeOK
    /\ CapIsKept
    /\ PrimaryIsNewest
    /\ \A c \in Conn : pc[c] \in {"reserved", "upgraded"} => c \in holding
    /\ \A c \in holding : pc[c] \in {"reserved", "upgraded", "closing"}
    /\ \A i \in 1 .. Len(viewers) : pc[viewers[i]] = "viewing"
    /\ \A i, j \in 1 .. Len(viewers) : viewers[i] = viewers[j] => i = j
    /\ ReservationsAreConserved
    /\ HandshakesAreCounted

\* "`primary` reports whether someone holds the input slot": what /status
\* computes, against the viewers' flags.
StatusReportsPrimary == StatusHasPrimary <=> Listed \cap primary # {}

\* "Only the primary viewer's input flows to the daemon."
ObserverInputIsDropped ==
    [][\A c \in Conn : (c \in checked /\ c \notin checked') => c \in primary]_vars

=============================================================================

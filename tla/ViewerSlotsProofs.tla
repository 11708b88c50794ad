-------------------------- MODULE ViewerSlotsProofs --------------------------
(***************************************************************************)
(* The bridge's admission invariants for every number of connections and   *)
(* addresses and every pair of limits.                                     *)
(***************************************************************************)
EXTENDS ViewerSlots, FiniteSetTheorems, TLAPS

\* The part of the invariant that involves no counting of sets.
SlotInv ==
    /\ TypeOK
    /\ CapIsKept
    /\ PrimaryIsNewest
    /\ \A c \in Conn : pc[c] \in {"reserved", "upgraded"} => c \in holding
    /\ \A c \in holding : pc[c] \in {"reserved", "upgraded", "closing"}
    /\ \A i \in 1 .. Len(viewers) : pc[viewers[i]] = "viewing"
    /\ \A i, j \in 1 .. Len(viewers) : viewers[i] = viewers[j] => i = j

\* Splicing an element out of a slice shifts the later ones down by one.
LEMMA SplicedIsSeq ==
  ASSUME NEW s \in Seq(Conn), NEW i \in 1 .. Len(s)
  PROVE  /\ Spliced(s, i) \in Seq(Conn)
         /\ Len(Spliced(s, i)) = Len(s) - 1
         /\ \A j \in 1 .. Len(s) - 1 :
                Spliced(s, i)[j] = IF j < i THEN s[j] ELSE s[j + 1]
<1> DEFINE n == Len(s) - 1
<1>1. n \in Nat /\ Len(s) \in Nat
  OBVIOUS
<1>2. Spliced(s, i) = [j \in 1 .. n |-> IF j < i THEN s[j] ELSE s[j + 1]]
  BY Zenon DEF Spliced
<1>3. \A j \in 1 .. n : (IF j < i THEN s[j] ELSE s[j + 1]) \in Conn
  OBVIOUS
<1>4. Spliced(s, i) \in [1 .. n -> Conn]
  BY <1>2, <1>3, Zenon
<1>5. Spliced(s, i) \in Seq(Conn) /\ Len(Spliced(s, i)) = n
  BY <1>1, <1>4
<1> QED
  BY <1>2, <1>5, Zenon

\* What the invariant says of the slice, in the form the steps below use.
LEMMA SlotFacts ==
  ASSUME SlotInv
  PROVE  /\ viewers \in Seq(Conn) /\ Len(viewers) \in Nat
         /\ \A i \in 1 .. Len(viewers) : viewers[i] \in Conn /\ pc[viewers[i]] = "viewing"
         /\ reserved \in Nat /\ MaxViewers \in Nat /\ Len(viewers) + reserved <= MaxViewers
         /\ pc \in [Conn -> Stage] /\ primary \subseteq Conn
         /\ holding \subseteq Conn /\ checked \subseteq Conn
         /\ handshakes \in [Ip -> Nat]
  BY ConstantsAssumption DEF SlotInv, TypeOK, CapIsKept

\* addViewer keeps the slots' invariant: the newcomer is the only primary.
LEMMA AddViewerStep ==
  ASSUME SlotInv, NEW c \in Conn, AddViewer(c)
  PROVE  SlotInv'
<1>1. pc[c] = "upgraded" /\ holding' = holding \ {c} /\ UNCHANGED <<handshakes, checked>>
      /\ reserved' = IF reserved > 0 THEN reserved - 1 ELSE 0
  BY Zenon DEF AddViewer, At
<1>2. CASE Len(viewers) >= MaxViewers
  <2>1. viewers' = viewers /\ primary' = primary /\ pc' = [pc EXCEPT ![c] = "closing"]
    BY <1>2, Zenon DEF AddViewer, Goto
  <2>2. TypeOK' /\ CapIsKept'
    BY <1>1, <2>1, SlotFacts DEF TypeOK, CapIsKept, Stage
  <2>3. PrimaryIsNewest'
    BY <2>1, Zenon DEF SlotInv, PrimaryIsNewest
  <2>4. \A i \in 1 .. Len(viewers) : viewers[i] # c
    BY <1>1, SlotFacts, Zenon
  <2> QED
    BY <1>1, <2>1, <2>2, <2>3, <2>4, SlotFacts DEF SlotInv
<1>3. CASE ~(Len(viewers) >= MaxViewers)
  <2> DEFINE n == Len(viewers)
  <2>1. /\ viewers' = Append(viewers, c)
        /\ pc' = [pc EXCEPT ![c] = "viewing"]
        /\ primary' = (primary \ Listed) \cup {c}
    BY <1>3, Zenon DEF AddViewer, Goto
  <2>2. /\ viewers' \in Seq(Conn) /\ Len(viewers') = n + 1 /\ n \in Nat
        /\ \A i \in 1 .. n : viewers'[i] = viewers[i]
        /\ viewers'[n + 1] = c
    BY <2>1, SlotFacts
  <2>3. TypeOK'
    BY <1>1, <2>1, <2>2, SlotFacts DEF TypeOK, Stage
  <2>4. CapIsKept'
    BY <1>1, <1>3, <2>2, SlotFacts DEF CapIsKept
  <2>5. \A i \in 1 .. n : viewers[i] # c /\ viewers[i] \in Listed
    BY <1>1, SlotFacts, Zenon DEF Listed
  <2>6. c \notin Listed
    BY <2>5, Zenon DEF Listed
  <2>7. PrimaryIsNewest'
    <3>1. \A i \in 1 .. n : viewers'[i] \notin primary'
      BY <2>1, <2>2, <2>5, SlotFacts, Zenon
    <3>2. viewers'[n + 1] \in primary'
      BY <2>1, <2>2, <2>6, Zenon
    <3>3. \A i \in 1 .. n + 1 : i = n + 1 \/ i \in 1 .. n
      BY <2>2
    <3>4. \A i \in 1 .. n : i # n + 1
      BY <2>2
    <3> HIDE DEF n
    <3> QED
      BY <2>2, <3>1, <3>2, <3>3, <3>4, Zenon DEF PrimaryIsNewest
  <2>8. /\ (\A x \in Conn : pc[x] \in {"reserved", "upgraded"} => x \in holding)'
        /\ (\A x \in holding : pc[x] \in {"reserved", "upgraded", "closing"})'
    BY <1>1, <2>1, SlotFacts, Zenon DEF SlotInv
  <2>9. (\A i \in 1 .. Len(viewers) : pc[viewers[i]] = "viewing")'
    BY <2>1, <2>2, SlotFacts
  <2>10. (\A i, j \in 1 .. Len(viewers) : viewers[i] = viewers[j] => i = j)'
    BY <2>2, <2>5 DEF SlotInv
  <2> HIDE DEF n
  <2> QED
    BY <2>3, <2>4, <2>7, <2>8, <2>9, <2>10, Zenon DEF SlotInv
<1> QED
  BY <1>2, <1>3, Zenon

\* removeViewer keeps it: control passes exactly when the last element leaves.
LEMMA RemoveViewerStep ==
  ASSUME SlotInv, NEW c \in Conn, RemoveViewer(c)
  PROVE  SlotInv'
<1>1. /\ pc[c] = "viewing" /\ pc' = [pc EXCEPT ![c] = "removed"]
      /\ UNCHANGED <<handshakes, reserved, holding, checked>>
  BY Zenon DEF RemoveViewer, At, Goto
<1>2. PICK i \in 1 .. Len(viewers) :
        /\ viewers[i] = c
        /\ viewers' = Spliced(viewers, i)
        /\ primary' = IF c \in primary /\ viewers' # <<>>
                      THEN primary \cup {viewers'[Len(viewers')]} ELSE primary
  BY Zenon DEF RemoveViewer
<1> DEFINE n == Len(viewers)
<1>3. /\ viewers' \in Seq(Conn) /\ Len(viewers') = n - 1 /\ n \in Nat
      /\ \A j \in 1 .. n - 1 :
            viewers'[j] = IF j < i THEN viewers[j] ELSE viewers[j + 1]
  BY <1>2, SplicedIsSeq, SlotFacts, Zenon
<1>4. \A j, k \in 1 .. n : viewers[j] = viewers[k] => j = k
  BY Zenon DEF SlotInv
<1>5. \A j \in 1 .. n : viewers[j] \in primary <=> j = n
  BY Zenon DEF SlotInv, PrimaryIsNewest
<1>6. \A j \in 1 .. n : viewers[j] \in Conn /\ pc[viewers[j]] = "viewing"
  BY SlotFacts, Zenon
<1>7. TypeOK'
  BY <1>1, <1>2, <1>3, SlotFacts DEF TypeOK, Stage
<1>8. CapIsKept'
  BY <1>1, <1>3, SlotFacts DEF CapIsKept
<1> HIDE DEF n
<1>9. \A j, k \in 1 .. n - 1 : viewers'[j] = viewers'[k] => j = k
  BY <1>3, <1>4
<1>10. i \in 1 .. n
  BY Zenon DEF n
<1>11. \A j \in 1 .. n - 1 : viewers'[j] # c /\ viewers'[j] \in Conn
                              /\ pc[viewers'[j]] = "viewing"
  <2>1. ASSUME NEW j \in 1 .. n - 1
        PROVE  \E k \in 1 .. n : k # i /\ viewers'[j] = viewers[k]
    <3>1. CASE j < i
      BY <1>3, <3>1
    <3>2. CASE ~(j < i)
      <4>1. j + 1 \in 1 .. n /\ j + 1 # i /\ viewers'[j] = viewers[j + 1]
        BY <1>3, <1>10, <3>2
      <4> QED
        BY <4>1, Zenon
    <3> QED
      BY <3>1, <3>2, Zenon
  <2> QED
    BY <1>2, <1>4, <1>6, <1>10, <2>1
<1>12. (\A j \in 1 .. Len(viewers) : pc[viewers[j]] = "viewing")'
  BY <1>1, <1>3, <1>11, SlotFacts, Zenon
<1>13. \A j \in 1 .. n - 1 : viewers'[j] \in primary' <=> j = n - 1
  <2>1. CASE i = n
    <3>1. c \in primary
      BY <1>2, <1>5, <1>10, <2>1, Zenon
    <3>2. \A j \in 1 .. n - 1 : viewers'[j] = viewers[j] /\ viewers'[j] \notin primary
      BY <1>3, <1>5, <2>1
    <3>3. ASSUME NEW j \in 1 .. n - 1
          PROVE  viewers'[j] \in primary' <=> j = n - 1
      <4>1. viewers' # <<>> /\ n - 1 \in 1 .. n - 1
        BY <1>3
      <4>2. viewers'[j] \in primary' <=> viewers'[j] = viewers'[n - 1]
        BY <1>2, <1>3, <1>11, <3>1, <3>2, <4>1, Zenon
      <4> QED
        BY <1>9, <4>1, <4>2, Zenon
    <3> QED
      BY <3>3, Zenon
  <2>2. CASE i # n
    <3>1. c \notin primary
      BY <1>2, <1>5, <1>10, <2>2, Zenon
    <3>2. primary' = primary
      BY <1>2, <3>1, Zenon
    <3>3. \A j \in 1 .. n - 1 : viewers'[j] \in primary <=> j = n - 1
      <4>1. ASSUME NEW j \in 1 .. n - 1, j < i PROVE viewers'[j] \notin primary /\ j # n - 1
        BY <1>3, <1>5, <1>10, <2>2, <4>1
      <4>2. ASSUME NEW j \in 1 .. n - 1, ~(j < i)
            PROVE  viewers'[j] \in primary <=> j = n - 1
        <5>1. viewers'[j] = viewers[j + 1] /\ j + 1 \in 1 .. n
          BY <1>3, <4>2
        <5>2. viewers[j + 1] \in primary <=> j + 1 = n
          BY <1>5, <5>1, Zenon
        <5> QED
          BY <1>3, <5>1, <5>2
      <4> QED
        BY <4>1, <4>2, Zenon
    <3> QED
      BY <1>11, <3>2, <3>3, Zenon
  <2> QED
    BY <2>1, <2>2, Zenon
<1>14. PrimaryIsNewest'
  BY <1>3, <1>13, Zenon DEF PrimaryIsNewest
<1>15. /\ (\A x \in Conn : pc[x] \in {"reserved", "upgraded"} => x \in holding)'
       /\ (\A x \in holding : pc[x] \in {"reserved", "upgraded", "closing"})'
  BY <1>1, SlotFacts, Zenon DEF SlotInv
<1> QED
  BY <1>3, <1>7, <1>8, <1>9, <1>12, <1>14, <1>15, Zenon DEF SlotInv

\* Every step of a handler keeps the slots' invariant.
LEMMA SlotStep ==
  ASSUME SlotInv, [Next]_vars
  PROVE  SlotInv'
<1> USE ConstantsAssumption
        DEF SlotInv, TypeOK, CapIsKept, PrimaryIsNewest, At, Goto, Stage
<1>1. ASSUME NEW c \in Conn, AcquireHandshakeSlot(c) PROVE SlotInv'
  <2>1. handshakes' \in [Ip -> Nat]
    BY <1>1 DEF AcquireHandshakeSlot
  <2> QED
    BY <1>1, <2>1 DEF AcquireHandshakeSlot
<1>2. ASSUME NEW c \in Conn, TryReserveViewerSlot(c) PROVE SlotInv'
  <2>1. CASE Len(viewers) + reserved >= MaxViewers
    <3>1. /\ pc[c] = "handshake" /\ pc' = [pc EXCEPT ![c] = "leaving"]
          /\ UNCHANGED <<handshakes, reserved, holding, viewers, primary, checked>>
      BY <1>2, <2>1, Zenon DEF TryReserveViewerSlot
    <3> QED
      BY <3>1
  <2>2. CASE ~(Len(viewers) + reserved >= MaxViewers)
    BY <1>2, <2>2, SMTT(30) DEF TryReserveViewerSlot
  <2> QED
    BY <2>1, <2>2, Zenon
<1>3. ASSUME NEW c \in Conn, Upgrade(c) PROVE SlotInv'
  BY <1>3 DEF Upgrade
<1>4. ASSUME NEW c \in Conn, SetupFails(c) PROVE SlotInv'
  BY <1>4 DEF SetupFails
<1>5. ASSUME NEW c \in Conn, CheckPrimary(c) PROVE SlotInv'
  BY <1>5, Zenon DEF CheckPrimary
<1>6. ASSUME NEW c \in Conn, ForwardInput(c) PROVE SlotInv'
  BY <1>6, Zenon DEF ForwardInput
<1>7. ASSUME NEW c \in Conn, CancelStats(c) PROVE SlotInv'
  BY <1>7 DEF CancelStats
<1>8. ASSUME NEW c \in Conn, ReleaseReservation(c) PROVE SlotInv'
  BY <1>8 DEF ReleaseReservation
<1>9. ASSUME NEW c \in Conn, ReleaseHandshake(c) PROVE SlotInv'
  BY <1>9, SMTT(30) DEF ReleaseHandshake
<1>10. CASE UNCHANGED vars
  BY <1>10, Zenon DEF vars
<1> HIDE DEF SlotInv, TypeOK, CapIsKept, PrimaryIsNewest, At, Goto, Stage
<1> QED
  BY <1>1, <1>2, <1>3, <1>4, <1>5, <1>6, <1>7, <1>8, <1>9, <1>10, AddViewerStep,
     RemoveViewerStep, Zenon DEF Next, Handler

\* reservedViewers keeps counting the unconsumed reservations.
LEMMA ReservationStep ==
  ASSUME SlotInv, ReservationsAreConserved, [Next]_vars
  PROVE  ReservationsAreConserved'
<1>1. IsFiniteSet(holding) /\ Cardinality(holding) \in Nat /\ reserved \in Nat
  BY ConstantsAssumption, SlotFacts, FS_Subset, FS_CardinalityType, Zenon
<1>2. ASSUME NEW c \in Conn
      PROVE  /\ Cardinality(holding \cup {c}) =
                  IF c \in holding THEN Cardinality(holding) ELSE Cardinality(holding) + 1
             /\ Cardinality(holding \ {c}) =
                  IF c \in holding THEN Cardinality(holding) - 1 ELSE Cardinality(holding)
  BY <1>1, FS_AddElement, FS_RemoveElement, Zenon
<1>3. ASSUME NEW c \in holding PROVE reserved > 0
  <2>1. Cardinality(holding) # 0
    BY <1>1, <1>3, FS_EmptySet, Zenon
  <2> QED
    BY <1>1, <2>1 DEF ReservationsAreConserved
<1>4. ASSUME NEW c \in Conn, TryReserveViewerSlot(c) PROVE ReservationsAreConserved'
  <2>1. c \notin holding
    BY <1>4, Zenon DEF SlotInv, TryReserveViewerSlot, At
  <2>2. \/ reserved' = reserved /\ holding' = holding
        \/ reserved' = reserved + 1 /\ holding' = holding \cup {c}
    BY <1>4, Zenon DEF TryReserveViewerSlot
  <2> QED
    BY <1>2, <2>1, <2>2, Zenon DEF ReservationsAreConserved
<1>5. ASSUME NEW c \in Conn, AddViewer(c) PROVE ReservationsAreConserved'
  <2>1. c \in holding
    BY <1>5, Zenon DEF SlotInv, AddViewer, At
  <2>2. holding' = holding \ {c} /\ reserved' = reserved - 1
    BY <1>3, <1>5, <2>1, Zenon DEF AddViewer
  <2> QED
    BY <1>2, <2>1, <2>2, Zenon DEF ReservationsAreConserved
<1>6. ASSUME NEW c \in Conn, ReleaseReservation(c) PROVE ReservationsAreConserved'
  <2>1. holding' = holding \ {c}
    BY <1>6, Zenon DEF ReleaseReservation
  <2>2. CASE c \in holding
    <3>1. reserved' = reserved - 1
      BY <1>3, <1>6, <2>2, Zenon DEF ReleaseReservation
    <3> QED
      BY <1>2, <2>1, <2>2, <3>1, Zenon DEF ReservationsAreConserved
  <2>3. CASE c \notin holding
    BY <1>2, <1>6, <2>1, <2>3, Zenon DEF ReservationsAreConserved, ReleaseReservation
  <2> QED
    BY <2>2, <2>3, Zenon
<1>7. ASSUME UNCHANGED <<reserved, holding>> PROVE ReservationsAreConserved'
  BY <1>7, Zenon DEF ReservationsAreConserved
<1> QED
  BY <1>4, <1>5, <1>6, <1>7, Zenon DEF Next, Handler, vars, AcquireHandshakeSlot, Upgrade,
     SetupFails, CheckPrimary, ForwardInput, RemoveViewer, CancelStats, ReleaseHandshake

\* handshakesPerIP keeps counting the handlers under way.
LEMMA HandshakeStep ==
  ASSUME SlotInv, HandshakesAreCounted, [Next]_vars
  PROVE  HandshakesAreCounted'
<1>1. /\ pc \in [Conn -> Stage] /\ IpOf \in [Conn -> Ip] /\ MaxPerIp \in Nat
      /\ handshakes \in [Ip -> Nat]
  BY ConstantsAssumption, SlotFacts, Zenon
<1>2. \A a \in Ip : IsFiniteSet(Open(a))
  BY ConstantsAssumption, FS_Subset, Zenon DEF Open
<1>3. ASSUME NEW c \in Conn, AcquireHandshakeSlot(c) PROVE HandshakesAreCounted'
  <2>1. /\ pc[c] = "idle" /\ pc' = [pc EXCEPT ![c] = "handshake"]
        /\ handshakes[IpOf[c]] < MaxPerIp
        /\ handshakes' = [handshakes EXCEPT ![IpOf[c]] = @ + 1]
    BY <1>3, Zenon DEF AcquireHandshakeSlot, At, Goto
  <2>2. ASSUME NEW a \in Ip
        PROVE  handshakes'[a] = Cardinality(Open(a)') /\ handshakes'[a] <= MaxPerIp
    <3>1. CASE a = IpOf[c]
      <4>1. c \notin Open(a) /\ Open(a)' = Open(a) \cup {c}
        BY <1>1, <2>1, <3>1, Zenon DEF Open
      <4>2. Cardinality(Open(a)') = Cardinality(Open(a)) + 1
        BY <1>2, <4>1, FS_AddElement, Zenon
      <4> QED
        BY <1>1, <2>1, <3>1, <4>2 DEF HandshakesAreCounted
    <3>2. CASE a # IpOf[c]
      <4>1. Open(a)' = Open(a)
        BY <1>1, <2>1, <3>2, Zenon DEF Open
      <4> QED
        BY <1>1, <2>1, <3>2, <4>1, Zenon DEF HandshakesAreCounted
    <3> QED
      BY <3>1, <3>2, Zenon
  <2> QED
    BY <2>2, Zenon DEF HandshakesAreCounted
<1>4. ASSUME NEW c \in Conn, ReleaseHandshake(c) PROVE HandshakesAreCounted'
  <2>1. /\ pc[c] = "leaving" /\ pc' = [pc EXCEPT ![c] = "idle"]
        /\ handshakes' = [handshakes EXCEPT ![IpOf[c]] = IF @ <= 1 THEN 0 ELSE @ - 1]
    BY <1>4, Zenon DEF ReleaseHandshake, At, Goto
  <2>2. ASSUME NEW a \in Ip
        PROVE  handshakes'[a] = Cardinality(Open(a)') /\ handshakes'[a] <= MaxPerIp
    <3>1. CASE a = IpOf[c]
      <4>1. c \in Open(a) /\ Open(a)' = Open(a) \ {c}
        BY <1>1, <2>1, <3>1, Zenon DEF Open
      <4>2. Cardinality(Open(a)') = Cardinality(Open(a)) - 1
        BY <1>2, <4>1, FS_RemoveElement, Zenon
      <4>3. Cardinality(Open(a)) # 0
        BY <1>2, <4>1, FS_EmptySet, Zenon
      <4>4. handshakes[a] = Cardinality(Open(a)) /\ handshakes[a] <= MaxPerIp
        BY Zenon DEF HandshakesAreCounted
      <4>5. handshakes'[a] = handshakes[a] - 1
        BY <1>1, <2>1, <3>1, <4>3, <4>4
      <4> QED
        BY <1>1, <4>2, <4>4, <4>5
    <3>2. CASE a # IpOf[c]
      <4>1. Open(a)' = Open(a)
        BY <1>1, <2>1, <3>2, Zenon DEF Open
      <4> QED
        BY <1>1, <2>1, <3>2, <4>1, Zenon DEF HandshakesAreCounted
    <3> QED
      BY <3>1, <3>2, Zenon
  <2> QED
    BY <2>2, Zenon DEF HandshakesAreCounted
<1>5. ASSUME handshakes' = handshakes,
             \A c \in Conn : pc'[c] = "idle" <=> pc[c] = "idle"
      PROVE  HandshakesAreCounted'
  <2>1. \A a \in Ip : Open(a)' = Open(a)
    BY <1>5, Zenon DEF Open
  <2> QED
    BY <1>5, <2>1, Zenon DEF HandshakesAreCounted
<1>6. ASSUME NEW c \in Conn, Handler(c),
             ~AcquireHandshakeSlot(c), ~ReleaseHandshake(c)
      PROVE  /\ handshakes' = handshakes
             /\ \A x \in Conn : pc'[x] = "idle" <=> pc[x] = "idle"
  BY <1>1, <1>6, Zenon DEF Handler, At, Goto, TryReserveViewerSlot, Upgrade, SetupFails,
     AddViewer, CheckPrimary, ForwardInput, RemoveViewer, CancelStats, ReleaseReservation
<1> QED
  BY <1>3, <1>4, <1>5, <1>6, Zenon DEF Next, vars

\* The inductive invariant holds of every behaviour of the bridge.
THEOREM Invariance == Spec => []IInv
<1>1. Init => IInv
  <2> SUFFICES ASSUME Init PROVE IInv
    BY Zenon
  <2>1. SlotInv
    BY ConstantsAssumption DEF Init, SlotInv, TypeOK, CapIsKept, PrimaryIsNewest, Stage
  <2>2. ReservationsAreConserved
    BY FS_EmptySet, Zenon DEF Init, ReservationsAreConserved
  <2>3. \A a \in Ip : Open(a) = {}
    BY Zenon DEF Init, Open
  <2>4. HandshakesAreCounted
    <3>1. \A a \in Ip : Cardinality(Open(a)) = 0
      BY <2>3, FS_EmptySet, Zenon
    <3>2. \A a \in Ip : handshakes[a] = 0
      BY Zenon DEF Init
    <3> QED
      BY <3>1, <3>2, ConstantsAssumption DEF HandshakesAreCounted
  <2> QED
    BY <2>1, <2>2, <2>4, Zenon DEF IInv, SlotInv
<1>2. IInv /\ [Next]_vars => IInv'
  BY SlotStep, ReservationStep, HandshakeStep, Zenon DEF IInv, SlotInv
<1> QED
  BY <1>1, <1>2, PTL DEF Spec

\* Viewers and reservations never exceed the cap.
THEOREM CapKept == Spec => []CapIsKept
<1>1. IInv => CapIsKept
  BY Zenon DEF IInv
<1> QED
  BY <1>1, Invariance, PTL

\* No reservation leaks and none is returned twice.
THEOREM Conservation == Spec => []ReservationsAreConserved
<1>1. IInv => ReservationsAreConserved
  BY Zenon DEF IInv
<1> QED
  BY <1>1, Invariance, PTL

\* The newest viewer, and no other, is primary.
THEOREM LastWins == Spec => []PrimaryIsNewest
<1>1. IInv => PrimaryIsNewest
  BY Zenon DEF IInv
<1> QED
  BY <1>1, Invariance, PTL

\* The handshake counters are exact and within the limit.
THEOREM HandshakeLimit == Spec => []HandshakesAreCounted
<1>1. IInv => HandshakesAreCounted
  BY Zenon DEF IInv
<1> QED
  BY <1>1, Invariance, PTL

\* reservedViewers and handshakesByIP are exactly what the open handlers hold.
THEOREM ExactCounters == Spec => []CountersAreExact
<1>1. IInv => CountersAreExact
  BY Zenon DEF IInv, CountersAreExact
<1> QED
  BY <1>1, Invariance, PTL

\* The defensive cap test of addViewer is unreachable for a handler that passed
\* the reservation gate.
THEOREM CommitSucceeds == Spec => []CommitIsNeverRefused
<1>1. IInv => CommitIsNeverRefused
  <2> SUFFICES ASSUME IInv, NEW c \in Conn, pc[c] = "upgraded"
               PROVE  Len(viewers) < MaxViewers
    BY Zenon DEF CommitIsNeverRefused
  <2>1. SlotInv
    BY Zenon DEF IInv, SlotInv
  <2>2. c \in holding
    BY <2>1, Zenon DEF SlotInv
  <2>3. IsFiniteSet(holding) /\ Cardinality(holding) \in Nat
    BY <2>1, ConstantsAssumption, SlotFacts, FS_Subset, FS_CardinalityType, Zenon
  <2>4. Cardinality(holding) # 0
    BY <2>2, <2>3, FS_EmptySet, Zenon
  <2>5. reserved > 0
    BY <2>3, <2>4 DEF IInv, ReservationsAreConserved
  <2> QED
    BY <2>1, <2>5, SlotFacts
<1> QED
  BY <1>1, Invariance, PTL

=============================================================================

---------------------------- MODULE OuterViewProofs ----------------------------
(* The buffers and the grabs an attached session shares with its host, for any  *)
(* set of buffers, tasks, inner clients and queue of the host's events.         *)
(*                                                                              *)
(* Buffers.  A dmabuf the client has committed and not yet got back is owed a   *)
(* release by exactly one of: the commit handler that has it in hand, the       *)
(* pending queue, the list of a buffer in flight to the host, and the pinned    *)
(* set the encoder task will signal.  Debt says so for each dmabuf; Safe adds   *)
(* that a task tapped from a headless commit reads a buffer whose release is    *)
(* still before it.  BufInv is these two with what they need of the types.      *)
(*                                                                              *)
(* Grabs.  GrabsAreOwned is inductive once it is known that a view that is gone *)
(* left no handle behind: the next one starts with none.                        *)
EXTENDS SessionBuffers, InputGrab, Integers, SequenceTheorems, TLAPS


\* The handler of wl_surface.commit still has to release b, or to queue it.
InHand(b) ==
    comp.buf = b /\ (comp.pc = "queue" \/ (comp.direct /\ comp.pc \in {"tap", "release"}))

\* The release handler of an outer buffer will find b in the list of direct releases.
Lists(i, b) == flight[i].buf = b /\ flight[i].then = "list"
Listed(b) == \E i \in DOMAIN flight : Lists(i, b)

\* Whoever owes the release of a dmabuf is the only one, and the client does not
\* have the buffer until then.
Debt(b) ==
    /\ b \in queue \/ InHand(b) \/ Listed(b) \/ b \in wanted => own[b] = "server"
    /\ b \in queue => ~InHand(b) /\ ~Listed(b) /\ b \notin wanted
    /\ InHand(b) => ~Listed(b) /\ b \notin wanted
    /\ Listed(b) => b \notin wanted
    /\ \A i, j \in DOMAIN flight : Lists(i, b) /\ Lists(j, b) => i = j

\* A task tapped from a headless commit has its release still before it.
Safe(t) == t.safe => own[t.buf] = "server" /\
                     (t.buf \in wanted \/ (comp.buf = t.buf /\ comp.direct /\ comp.pc = "release"))

Tasks == [buf : Dmabuf, safe : BOOLEAN]
Flights == [buf : Dmabuf, then : {"list", "hold", "none"}]

ViewOK ==
    /\ view = [pc |-> view.pc, id |-> view.id, stop |-> view.stop, dma |-> view.dma]
    /\ view.pc = "forward" => view.dma \in Dmabuf

BufTypes ==
    /\ own \in [Buf -> {"client", "server"}] /\ points \in [Buf -> Nat]
    /\ queue \subseteq Dmabuf /\ wanted \subseteq Dmabuf
    /\ slot \subseteq Tasks /\ taken \subseteq Tasks /\ flight \in Seq(Flights)
    /\ comp.pc \in {"idle", "queue", "tap", "release", "damage"}
    /\ comp = [pc |-> comp.pc, buf |-> comp.buf, direct |-> comp.direct]
    /\ comp.direct \in BOOLEAN
    /\ comp.pc # "idle" => comp.buf \in Buf
    /\ comp.pc = "queue" => comp.buf \in Dmabuf /\ ~comp.direct
    /\ comp.pc = "release" => comp.direct
    /\ ViewOK

BufInv ==
    /\ BufTypes /\ PointPerCommit /\ wanted \subseteq Pinned
    /\ \A b \in Dmabuf : Debt(b)
    /\ \A t \in slot \cup taken : Safe(t)

-----------------------------------------------------------------------------
\* Releasing signals the one point of each dmabuf that is given back.
LEMMA ReleaseSignals ==
  ASSUME BufTypes, PointPerCommit, NEW R, DoRelease(R)
  PROVE  /\ own' \in [Buf -> {"client", "server"}] /\ points' \in [Buf -> Nat]
         /\ \A b \in Buf : own'[b] = IF b \in R THEN "client" ELSE own[b]
         /\ PointPerCommit'
<1>1. /\ own' = [b \in Buf |-> IF b \in R THEN "client" ELSE own[b]]
      /\ points' = [b \in Buf |-> IF b \in R /\ points[b] > 0 THEN points[b] - 1 ELSE points[b]]
  BY Zenon DEF DoRelease
<1>2. own \in [Buf -> {"client", "server"}] /\ points \in [Buf -> Nat] /\ Dmabuf \subseteq Buf
  BY BufAssumption, Zenon DEF BufTypes
<1>3. own' \in [Buf -> {"client", "server"}] /\ points' \in [Buf -> Nat]
  BY <1>1, <1>2
<1>4. ASSUME NEW b \in Dmabuf PROVE points'[b] = IF own'[b] = "server" THEN 1 ELSE 0
  <2>1. points[b] = IF own[b] = "server" THEN 1 ELSE 0
    BY Zenon DEF PointPerCommit
  <2> QED BY <1>1, <1>2, <2>1
<1> QED BY <1>1, <1>3, <1>4, Zenon DEF PointPerCommit

\* Only dmabufs are pinned.
LEMMA PinnedDmabufs ==
  ASSUME BufTypes
  PROVE  Pinned \subseteq Dmabuf
<1>1. \A t \in slot \cup taken : t.buf \in Dmabuf
  BY Zenon DEF BufTypes, Tasks
<1>2. ASSUME NEW i \in DOMAIN flight PROVE flight[i].buf \in Dmabuf
  <2>1. flight[i] \in Flights
    BY DEF BufTypes
  <2> QED BY <2>1, Zenon DEF Flights
<1> QED BY <1>1, <1>2, Zenon DEF Pinned, Held

\* Steps that release nothing, and after which nobody owes what was not owed.
LEMMA QuietStep ==
  ASSUME BufInv, UNCHANGED <<own, points, wanted, queue, flight>>, BufTypes', wanted \subseteq Pinned',
         \A b \in Dmabuf : InHand(b)' => InHand(b),
         \A t \in slot' \cup taken' : Safe(t)'
  PROVE  BufInv'
<1>1. PointPerCommit'
  BY Zenon DEF BufInv, PointPerCommit
<1>2. ASSUME NEW b \in Dmabuf PROVE Debt(b)'
  <2>1. Debt(b) /\ (InHand(b)' => InHand(b))
    BY Zenon DEF BufInv
  <2>2. (Listed(b)' <=> Listed(b)) /\ \A i \in DOMAIN flight : Lists(i, b)' <=> Lists(i, b)
    BY Zenon DEF Listed, Lists
  <2> QED BY <2>1, <2>2, Zenon DEF Debt
<1> QED BY <1>1, <1>2, Zenon DEF BufInv

\* Whatever is queued is released, or left to the hold that pins it.
LEMMA FlushStep ==
  ASSUME BufInv, ReleaseInner(queue), queue' = {}, UNCHANGED <<comp, flight, slot, taken>>,
         ViewOK'
  PROVE  BufInv'
<1>1. DoRelease(queue \ Pinned) /\ wanted' = wanted \cup (queue \cap Pinned)
  BY Zenon DEF ReleaseInner
<1>2. /\ own' \in [Buf -> {"client", "server"}] /\ points' \in [Buf -> Nat] /\ PointPerCommit'
      /\ \A b \in Buf : own'[b] = IF b \in queue \ Pinned THEN "client" ELSE own[b]
  BY <1>1, ReleaseSignals, Zenon DEF BufInv
<1>3. BufTypes'
  BY <1>1, <1>2, Zenon DEF BufInv, BufTypes, ViewOK
<1>4. Pinned' = Pinned /\ wanted' \subseteq Pinned'
  BY <1>1, Zenon DEF BufInv, Pinned
<1>5. ASSUME NEW b \in Dmabuf PROVE Debt(b)'
  <2>1. Debt(b) /\ b \in Buf
    BY BufAssumption, Zenon DEF BufInv
  <2>2. (Listed(b)' <=> Listed(b)) /\ \A i \in DOMAIN flight : Lists(i, b)' <=> Lists(i, b)
    BY Zenon DEF Listed, Lists
  <2>3. InHand(b)' <=> InHand(b)
    BY Zenon DEF InHand
  <2> QED BY <1>1, <1>2, <2>1, <2>2, <2>3, Zenon DEF Debt
<1>6. ASSUME NEW t \in slot' \cup taken' PROVE Safe(t)'
  <2>1. Safe(t) /\ t.buf \in Buf
    BY <1>6, BufAssumption, Zenon DEF BufInv, BufTypes, Tasks
  <2>2. t.buf \in Pinned
    BY <1>6, Zenon DEF Pinned, Held
  <2> QED BY <1>1, <1>2, <2>1, <2>2, Zenon DEF Safe
<1> QED BY <1>2, <1>3, <1>4, <1>5, <1>6, Zenon DEF BufInv

\* The references change: the last hold of a buffer performs the release that was
\* asked for, and there is no other.
LEMMA SwapStep ==
  ASSUME BufInv, NEW S, S \subseteq Tasks, NEW T, T \subseteq Tasks, NEW F \in Seq(Flights),
         SwapHolds(S, T, F), queue' = queue, BufTypes',
         \A b \in Dmabuf : InHand(b)' => InHand(b),
         \A b \in Dmabuf : Listed(b)' => Listed(b),
         \A b \in Dmabuf : \A i, j \in DOMAIN F : Lists(i, b)' /\ Lists(j, b)' => i = j,
         \A t \in S \cup T : t.safe => own[t.buf] = "server" /\
             (t.buf \in wanted \/ (comp'.buf = t.buf /\ comp'.direct /\ comp'.pc = "release"))
  PROVE  BufInv'
<1> DEFINE freed == Pinned \ Held(S, T, F)
<1>1. /\ slot' = S /\ taken' = T /\ flight' = F
      /\ DoRelease(freed \cap wanted) /\ wanted' = wanted \ freed
  BY Zenon DEF SwapHolds
<1>2. Pinned' = Held(S, T, F)
  BY <1>1, Zenon DEF Pinned
<1>3. wanted' \subseteq Pinned'
  BY <1>1, <1>2, Zenon DEF BufInv
<1>4. ASSUME NEW t \in S \cup T PROVE t.buf \notin freed /\ t.buf \in Buf
  BY <1>4, BufAssumption, Zenon DEF Held, Tasks
<1> HIDE DEF freed
<1>5. /\ PointPerCommit'
      /\ \A b \in Buf : own'[b] = IF b \in freed \cap wanted THEN "client" ELSE own[b]
  BY <1>1, ReleaseSignals, Zenon DEF BufInv
<1>6. ASSUME NEW b \in Dmabuf PROVE Debt(b)'
  <2>1. Debt(b) /\ b \in Buf
    BY BufAssumption, Zenon DEF BufInv
  <2>2. (InHand(b)' => InHand(b)) /\ (Listed(b)' => Listed(b))
    BY Zenon
  <2>3. \A i, j \in DOMAIN flight' : Lists(i, b)' /\ Lists(j, b)' => i = j
    BY <1>1, Zenon
  <2> QED BY <1>1, <1>5, <2>1, <2>2, <2>3, Zenon DEF Debt
<1>7. ASSUME NEW t \in slot' \cup taken' PROVE Safe(t)'
  BY <1>1, <1>4, <1>5, <1>7, Zenon DEF Safe
<1> QED BY <1>3, <1>5, <1>6, <1>7, Zenon DEF BufInv

-----------------------------------------------------------------------------
LEMMA CompositorKeepsDebts == BufInv /\ CompositorNext => BufInv'
<1> SUFFICES ASSUME BufInv, CompositorNext PROVE BufInv'
  BY Zenon
<1> USE BufAssumption
<1>1. ASSUME NEW b \in Buf, Commit(b) PROVE BufInv'
  <2> DEFINE deferred == b \in Dmabuf /\ wake # 0
             pc == IF deferred THEN "queue" ELSE "tap"
  <2>1. /\ comp.pc = "idle" /\ own[b] = "client"
        /\ own' = [own EXCEPT ![b] = IF b = cur /\ b \notin Dmabuf THEN "client" ELSE "server"]
        /\ points' = (IF b \in Dmabuf THEN [points EXCEPT ![b] = @ + 1] ELSE points)
        /\ comp' = [pc |-> pc, buf |-> b, direct |-> ~deferred]
        /\ UNCHANGED <<queue, wanted, slot, taken, flight, view>>
    BY <1>1, Zenon DEF Commit, holdVars, viewVars
  <2>2. /\ comp'.pc = pc /\ comp'.buf = b /\ comp'.direct = ~deferred
        /\ comp'.direct \in BOOLEAN /\ pc \in {"queue", "tap"} /\ (pc = "queue" => b \in Dmabuf /\ ~comp'.direct)
    BY <2>1, Zenon
  <2> HIDE DEF pc, deferred
  <2>3. own' \in [Buf -> {"client", "server"}] /\ points' \in [Buf -> Nat]
    BY <2>1 DEF BufInv, BufTypes, ViewOK
  <2>4. BufTypes'
    BY <2>1, <2>2, <2>3, Zenon DEF BufInv, BufTypes, ViewOK
  <2>5. PointPerCommit'
    BY <2>1 DEF BufInv, BufTypes, PointPerCommit
  <2>6. wanted' \subseteq Pinned'
    BY <2>1, Zenon DEF BufInv, Pinned
  <2>7. ASSUME NEW x \in Dmabuf PROVE Debt(x)'
    <3>1. Debt(x) /\ ~InHand(x)
      BY <2>1, Zenon DEF BufInv, InHand
    <3>2. (Listed(x)' <=> Listed(x)) /\ \A i \in DOMAIN flight : Lists(i, x)' <=> Lists(i, x)
      BY <2>1, Zenon DEF Listed, Lists
    <3>3. CASE x # b
      <4>1. ~InHand(x)' /\ own'[x] = own[x]
        BY <2>1, <2>2, <3>3, Zenon DEF InHand, BufInv, BufTypes
      <4> QED BY <2>1, <3>1, <3>2, <4>1, Zenon DEF Debt
    <3>4. CASE x = b
      <4>1. own'[x] = "server"
        BY <2>1, <3>4, Zenon DEF BufInv, BufTypes, ViewOK
      <4> QED BY <2>1, <3>1, <3>2, <3>4, <4>1, Zenon DEF Debt
    <3> QED BY <3>3, <3>4, Zenon
  <2>8. ASSUME NEW t \in slot' \cup taken' PROVE Safe(t)'
    <3>1. Safe(t) /\ t.buf \in Buf
      BY <2>1, <2>8, Zenon DEF BufInv, BufTypes, Tasks
    <3> QED BY <2>1, <3>1, Zenon DEF Safe, BufInv, BufTypes
  <2> QED BY <2>4, <2>5, <2>6, <2>7, <2>8, Zenon DEF BufInv
<1>2. CASE CommitQueue
  <2>1. /\ comp.pc = "queue" /\ queue' = queue \cup {comp.buf} /\ comp' = [comp EXCEPT !.pc = "tap"]
        /\ UNCHANGED <<own, points, wanted, slot, taken, flight, view>>
    BY <1>2, Zenon DEF CommitQueue, holdVars, viewVars
  <2>2. /\ comp'.pc = "tap" /\ comp'.buf = comp.buf /\ comp'.direct = comp.direct
        /\ comp' = [pc |-> comp'.pc, buf |-> comp'.buf, direct |-> comp'.direct]
        /\ ~comp.direct /\ comp.buf \in Dmabuf
    BY <2>1, Zenon DEF BufInv, BufTypes, ViewOK
  <2>3. BufTypes'
    BY <2>1, <2>2, Zenon DEF BufInv, BufTypes, ViewOK
  <2>4. PointPerCommit' /\ wanted' \subseteq Pinned'
    BY <2>1, Zenon DEF BufInv, PointPerCommit, Pinned
  <2>5. ASSUME NEW x \in Dmabuf PROVE Debt(x)'
    <3>1. Debt(x) /\ ~InHand(x)' /\ (InHand(x) <=> x = comp.buf)
      BY <2>1, <2>2, Zenon DEF BufInv, InHand
    <3>2. (Listed(x)' <=> Listed(x)) /\ \A i \in DOMAIN flight : Lists(i, x)' <=> Lists(i, x)
      BY <2>1, Zenon DEF Listed, Lists
    <3> QED BY <2>1, <3>1, <3>2, Zenon DEF Debt
  <2>6. ASSUME NEW t \in slot' \cup taken' PROVE Safe(t)'
    <3>1. Safe(t)
      BY <2>1, <2>6, Zenon DEF BufInv
    <3> QED BY <2>1, <3>1, Zenon DEF Safe
  <2> QED BY <2>3, <2>4, <2>5, <2>6, Zenon DEF BufInv
<1>3. CASE CommitTap
  <2> DEFINE pc == IF comp.direct THEN "release" ELSE "damage"
  <2>1. /\ comp.pc = "tap" /\ Tap(comp.buf) /\ comp' = [comp EXCEPT !.pc = pc]
        /\ UNCHANGED <<queue, view>>
    BY <1>3, Zenon DEF CommitTap
  <2>2. /\ comp'.pc = pc /\ comp'.buf = comp.buf /\ comp'.direct = comp.direct
        /\ comp' = [pc |-> comp'.pc, buf |-> comp'.buf, direct |-> comp'.direct]
        /\ comp.buf \in Buf
    BY <2>1, Zenon DEF BufInv, BufTypes, ViewOK
  <2>3. \A b : InHand(b)' <=> InHand(b)
    BY <2>1, <2>2, Zenon DEF InHand, BufInv, BufTypes
  <2>4. ASSUME NEW S, S \subseteq Tasks, SwapHolds(S, taken, flight),
               \A t \in S : t.safe => comp.direct /\ t.buf = comp.buf /\ comp.buf \in Dmabuf
        PROVE  BufInv'
    <3>1. /\ slot' = S /\ taken' = taken /\ flight' = flight
          /\ DoRelease((Pinned \ Held(S, taken, flight)) \cap wanted)
          /\ wanted' = wanted \ (Pinned \ Held(S, taken, flight))
      BY <2>4, Zenon DEF SwapHolds
    <3>2. own' \in [Buf -> {"client", "server"}] /\ points' \in [Buf -> Nat]
      BY <3>1, ReleaseSignals, Zenon DEF BufInv
    <3>3. BufTypes'
      BY <2>1, <2>2, <2>4, <3>1, <3>2, Zenon DEF BufInv, BufTypes, ViewOK
    <3>4. \A b \in Dmabuf : Listed(b)' => Listed(b)
      BY <3>1, Zenon DEF Listed, Lists
    <3>5. \A b \in Dmabuf : \A i, j \in DOMAIN flight : Lists(i, b)' /\ Lists(j, b)' => i = j
      BY <3>1, Zenon DEF BufInv, Debt, Lists
    <3>6. ASSUME NEW t \in S \cup taken, t.safe
          PROVE  own[t.buf] = "server" /\
                   (t.buf \in wanted \/ (comp'.buf = t.buf /\ comp'.direct /\ comp'.pc = "release"))
      <4>1. CASE t \in taken
        <5>1. Safe(t)
          BY <4>1, Zenon DEF BufInv
        <5> QED BY <2>1, <3>6, <5>1, Zenon DEF Safe
      <4>2. CASE t \in S
        <5>1. comp.direct /\ t.buf = comp.buf /\ comp.buf \in Dmabuf
          BY <2>4, <3>6, <4>2, Zenon
        <5>2. InHand(comp.buf) /\ Debt(comp.buf)
          BY <2>1, <5>1, Zenon DEF InHand, BufInv
        <5> QED BY <2>2, <5>1, <5>2, Zenon DEF Debt
      <4> QED BY <3>6, <4>1, <4>2, Zenon
    <3>7. taken \subseteq Tasks /\ flight \in Seq(Flights)
      BY Zenon DEF BufInv, BufTypes, ViewOK
    <3> QED BY <2>1, <2>3, <2>4, <3>3, <3>4, <3>5, <3>6, <3>7, SwapStep, Zenon
  <2>5. CASE TapDmabuf(comp.buf)
    <3> DEFINE S == {Task(comp.buf, comp.direct)}
    <3>1. SwapHolds(S, taken, flight) /\ comp.buf \in Dmabuf
      BY <2>5, Zenon DEF TapDmabuf
    <3>2. S \subseteq Tasks /\ \A t \in S : t.safe => comp.direct /\ t.buf = comp.buf /\ comp.buf \in Dmabuf
      BY <3>1 DEF Task, Tasks, BufInv, BufTypes
    <3> HIDE DEF S
    <3> QED BY <2>4, <3>1, <3>2, Zenon
  <2>6. CASE TapPixels(comp.buf)
    <3> DEFINE S == {}
    <3>1. SwapHolds(S, taken, flight) /\ S \subseteq Tasks
          /\ \A t \in S : t.safe => comp.direct /\ t.buf = comp.buf /\ comp.buf \in Dmabuf
      BY <2>6, Zenon DEF TapPixels
    <3> HIDE DEF S
    <3> QED BY <2>4, <3>1, Zenon
  <2>7. CASE UNCHANGED <<own, points, wanted, holdVars, flight>>
    <3>1. UNCHANGED <<own, points, wanted, queue, flight, slot, taken>>
      BY <2>1, <2>7, Zenon DEF holdVars
    <3>2. BufTypes'
      BY <2>1, <2>2, <3>1, Zenon DEF BufInv, BufTypes, ViewOK
    <3>3. wanted \subseteq Pinned'
      BY <3>1, Zenon DEF BufInv, Pinned
    <3>4. ASSUME NEW t \in slot' \cup taken' PROVE Safe(t)'
      <4>1. Safe(t)
        BY <3>1, <3>4, Zenon DEF BufInv
      <4> QED BY <2>1, <3>1, <4>1, Zenon DEF Safe
    <3> QED BY <2>3, <3>1, <3>2, <3>3, <3>4, QuietStep, Zenon
  <2> QED BY <2>1, <2>5, <2>6, <2>7, Zenon DEF Tap
<1>4. CASE CommitRelease
  <2>1. /\ comp.pc = "release" /\ ReleaseInner({comp.buf}) /\ comp' = [comp EXCEPT !.pc = "damage"]
        /\ UNCHANGED <<queue, slot, taken, flight, view>>
    BY <1>4, Zenon DEF CommitRelease, holdVars, viewVars
  <2>2. /\ comp'.pc = "damage" /\ comp'.buf = comp.buf /\ comp'.direct = comp.direct
        /\ comp' = [pc |-> comp'.pc, buf |-> comp'.buf, direct |-> comp'.direct]
        /\ comp.buf \in Buf /\ comp.direct
    BY <2>1, Zenon DEF BufInv, BufTypes, ViewOK
  <2>3. /\ DoRelease({comp.buf} \ Pinned) /\ wanted' = wanted \cup ({comp.buf} \cap Pinned)
        /\ Pinned \subseteq Dmabuf /\ Pinned' = Pinned
    BY <2>1, PinnedDmabufs, Zenon DEF ReleaseInner, Pinned, BufInv
  <2>4. /\ own' \in [Buf -> {"client", "server"}] /\ points' \in [Buf -> Nat] /\ PointPerCommit'
        /\ \A b \in Buf : own'[b] = IF b \in {comp.buf} \ Pinned THEN "client" ELSE own[b]
    BY <2>3, ReleaseSignals, Zenon DEF BufInv
  <2>5. BufTypes' /\ wanted' \subseteq Pinned'
    BY <2>1, <2>2, <2>3, <2>4, Zenon DEF BufInv, BufTypes, ViewOK
  <2>6. ASSUME NEW x \in Dmabuf PROVE Debt(x)'
    <3>1. Debt(x) /\ ~InHand(x)' /\ (InHand(x) <=> x = comp.buf) /\ x \in Buf
      BY <2>1, <2>2, Zenon DEF BufInv, InHand
    <3>2. (Listed(x)' <=> Listed(x)) /\ \A i \in DOMAIN flight : Lists(i, x)' <=> Lists(i, x)
      BY <2>1, Zenon DEF Listed, Lists
    <3> QED BY <2>1, <2>3, <2>4, <3>1, <3>2, Zenon DEF Debt
  <2>7. ASSUME NEW t \in slot' \cup taken' PROVE Safe(t)'
    <3>1. Safe(t) /\ t.buf \in Buf /\ t.buf \in Pinned
      BY <2>1, <2>7, Zenon DEF BufInv, BufTypes, Tasks, Pinned, Held
    <3> QED BY <2>3, <2>4, <3>1, Zenon DEF Safe
  <2> QED BY <2>4, <2>5, <2>6, <2>7, Zenon DEF BufInv
<1>5. CASE CommitDamage
  <2>1. /\ comp.pc = "damage" /\ comp' = [pc |-> "idle", buf |-> None, direct |-> FALSE]
        /\ UNCHANGED <<own, points, wanted, queue, slot, taken, flight, view>>
    BY <1>5, Zenon DEF CommitDamage, holdVars, releaseVars
  <2>2. BufTypes' /\ \A b \in Dmabuf : ~InHand(b)'
    BY <2>1, Zenon DEF BufInv, BufTypes, ViewOK, InHand
  <2>3. wanted \subseteq Pinned'
    BY <2>1, Zenon DEF BufInv, Pinned
  <2>4. ASSUME NEW t \in slot' \cup taken' PROVE Safe(t)'
    <3>1. Safe(t)
      BY <2>1, <2>4, Zenon DEF BufInv
    <3> QED BY <2>1, <3>1, Zenon DEF Safe
  <2> QED BY <2>1, <2>2, <2>3, <2>4, QuietStep, Zenon
<1>6. CASE OtherCommit
  BY <1>6
  DEF OtherCommit, clientVars, holdVars, releaseVars, BufInv, BufTypes, ViewOK, PointPerCommit, Pinned,
              Debt, Safe, InHand, Listed, Lists
<1> QED
  BY <1>1, <1>2, <1>3, <1>4, <1>5, <1>6, Zenon DEF CompositorNext

\* A step that changes none of these variables.
LEMMA IdleStep ==
  ASSUME BufInv, UNCHANGED <<own, points, wanted, queue, flight, slot, taken, comp>>,
         ViewOK'
  PROVE  BufInv'
<1>1. BufTypes'
  BY Zenon DEF BufInv, BufTypes, ViewOK
<1>2. wanted \subseteq Pinned' /\ \A b \in Dmabuf : InHand(b)' => InHand(b)
  BY Zenon DEF BufInv, Pinned, InHand
<1>3. \A t \in slot' \cup taken' : Safe(t)'
  BY Zenon DEF BufInv, Safe
<1> QED BY <1>1, <1>2, <1>3, QuietStep, Zenon

\* The attach server flushes the queue, or touches none of it.
LEMMA ServerKeepsDebts == BufInv /\ ServerNext => BufInv'
<1> SUFFICES ASSUME BufInv, ServerNext PROVE BufInv'
  BY Zenon
<1>1. CASE GetSurface \/ Detach \/ Cleanup
  <2>1. UNCHANGED <<own, points, wanted, queue, flight, slot, taken, comp>>
        /\ (view' = view \/ view' = [view EXCEPT !.stop = TRUE])
    BY <1>1, Zenon DEF GetSurface, Detach, Cleanup, clientVars, holdVars, releaseVars
  <2>2. ViewOK'
    BY <2>1, Zenon DEF BufInv, BufTypes, ViewOK
  <2> QED BY <2>1, <2>2, IdleStep, Zenon
<1>2. CASE JoinReplace
  <2>1. ViewOK' /\ UNCHANGED <<own, points, wanted, queue, flight, slot, taken, comp>>
    BY <1>2, Zenon DEF JoinReplace, clientVars, holdVars, releaseVars, ViewOK
  <2> QED BY <2>1, IdleStep, Zenon
<1>3. CASE JoinDetach
  <2>1. /\ SetWake(0) /\ view.pc = "off" /\ view' = [view EXCEPT !.stop = FALSE]
        /\ UNCHANGED <<comp, flight, slot, taken>>
    BY <1>3, Zenon DEF JoinDetach, holdVars
  <2>2. ViewOK'
    BY <2>1, Zenon DEF BufInv, BufTypes, ViewOK
  <2> QED BY <2>1, <2>2, IdleStep, FlushStep, Zenon DEF SetWake
<1> QED BY <1>1, <1>2, <1>3, Zenon DEF ServerNext

\* What is left of the outer buffers when the i-th is gone.
LEMMA RemovedFlight ==
  ASSUME BufTypes, NEW i \in DOMAIN flight
  PROVE  /\ Remaining(i) \in Seq(Flights)
         /\ DOMAIN Remaining(i) = 1..(Len(flight) - 1)
         /\ \A j \in 1..(Len(flight) - 1) :
              Remaining(i)[j] = flight[IF j < i THEN j ELSE j + 1]
<1> DEFINE n == Len(flight)
           A == SubSeq(flight, 1, i - 1)
           B == SubSeq(flight, i + 1, n)
<1>1. flight \in Seq(Flights) /\ n \in Nat /\ i \in 1..n
  BY DEF BufTypes
<1>2. A \in Seq(Flights) /\ Len(A) = i - 1 /\ \A j \in 1..(i - 1) : A[j] = flight[j]
  <2>1. \A j \in 1..(i - 1) : flight[j] \in Flights
    BY <1>1
  <2> QED BY <1>1, <2>1, SubSeqProperties
<1>3. B \in Seq(Flights) /\ Len(B) = n - i /\ \A j \in 1..(n - i) : B[j] = flight[i + j]
  <2>1. \A j \in (i + 1)..n : flight[j] \in Flights
    BY <1>1
  <2> QED BY <1>1, <2>1, SubSeqProperties
<1>4. Remaining(i) = A \o B
  BY Zenon DEF Remaining
<1> HIDE DEF A, B
<1>5. /\ A \o B \in Seq(Flights) /\ Len(A \o B) = n - 1
      /\ \A j \in 1..(n - 1) : (A \o B)[j] = IF j < i THEN A[j] ELSE B[j - (i - 1)]
  <2>1. /\ A \o B \in Seq(Flights) /\ Len(A \o B) = Len(A) + Len(B)
        /\ \A j \in 1..(Len(A) + Len(B)) :
              (A \o B)[j] = IF j <= Len(A) THEN A[j] ELSE B[j - Len(A)]
    BY <1>2, <1>3, ConcatProperties, Zenon
  <2>2. Len(A) + Len(B) = n - 1 /\ \A j \in 1..(n - 1) : j <= Len(A) <=> j < i
    <3>1. Len(A) = i - 1 /\ Len(B) = n - i
      BY <1>2, <1>3, Zenon
    <3>2. (i - 1) + (n - i) = n - 1 /\ \A j \in 1..(n - 1) : j <= i - 1 <=> j < i
      BY <1>1
    <3> QED BY <3>1, <3>2, Zenon
  <2> QED BY <1>2, <2>1, <2>2, Zenon
<1>6. ASSUME NEW j \in 1..(n - 1) PROVE (A \o B)[j] = flight[IF j < i THEN j ELSE j + 1]
  <2>1. CASE j < i
    BY <1>1, <1>2, <1>5, <2>1
  <2>2. CASE ~(j < i)
    <3>1. j - (i - 1) \in 1..(n - i) /\ i + (j - (i - 1)) = j + 1
      BY <1>1, <2>2
    <3> QED BY <1>3, <1>5, <2>2, <3>1, Zenon
  <2> QED BY <2>1, <2>2, Zenon
<1>7. DOMAIN (A \o B) = 1..(n - 1)
  BY <1>1, <1>5
<1> HIDE DEF n
<1> QED BY <1>4, <1>5, <1>6, <1>7, Zenon DEF n

LEMMA HostKeepsDebts == BufInv /\ HostNext => BufInv'
<1> SUFFICES ASSUME BufInv, HostNext PROVE BufInv'
  BY Zenon
<1> USE BufAssumption
<1>1. CASE HostFrame
  <2>1. UNCHANGED <<own, points, wanted, queue, flight, slot, taken, comp, view>>
    BY <1>1, Zenon DEF HostFrame, clientVars, holdVars, releaseVars
  <2> QED BY <2>1, IdleStep, Zenon DEF BufInv, BufTypes, ViewOK
<1>2. ASSUME NEW broken \in BOOLEAN, HostClose(broken) PROVE BufInv'
  <2>1. /\ UNCHANGED <<own, points, wanted, queue, flight, slot, taken, comp>>
        /\ view' = [view EXCEPT !.pc = "leave"] \/ view' = [view EXCEPT !.stop = TRUE]
    BY <1>2, Zenon DEF HostClose, clientVars, holdVars, releaseVars
  <2>2. ViewOK'
    BY <2>1, Zenon DEF BufInv, BufTypes, ViewOK
  <2> QED BY <2>1, <2>2, IdleStep, Zenon
<1>3. ASSUME NEW i \in DOMAIN flight, HostRelease(i) PROVE BufInv'
  <2> DEFINE F == Remaining(i)
             At(j) == IF j < i THEN j ELSE j + 1
  <2>1. UNCHANGED <<comp, queue, view>>
    BY <1>3, Zenon DEF HostRelease
  <2>2. /\ F \in Seq(Flights) /\ DOMAIN F = 1..(Len(flight) - 1)
        /\ \A j \in DOMAIN F : F[j] = flight[At(j)]
    BY RemovedFlight, Zenon DEF BufInv
  <2>3. /\ \A j \in DOMAIN F : At(j) \in DOMAIN flight /\ At(j) # i
        /\ \A j, k \in DOMAIN F : At(j) = At(k) => j = k
        /\ \A k \in DOMAIN flight : k # i => \E j \in DOMAIN F : At(j) = k
    <3>1. DOMAIN flight = 1..Len(flight) /\ Len(flight) \in Nat
      BY DEF BufInv, BufTypes
    <3>2. \A k \in 1..Len(flight) : k < i => k \in 1..(Len(flight) - 1) /\ At(k) = k
      BY <3>1
    <3>3. \A k \in 1..Len(flight) : k > i => k - 1 \in 1..(Len(flight) - 1) /\ At(k - 1) = k
      BY <3>1
    <3>4. \A k \in 1..Len(flight) : k = i \/ k < i \/ k > i
      BY <3>1
    <3>5. \A k \in DOMAIN flight : k # i => \E j \in DOMAIN F : At(j) = k
      <4> HIDE DEF At
      <4> QED BY <2>2, <3>1, <3>2, <3>3, <3>4, Zenon
    <3>6. \A j \in 1..(Len(flight) - 1) : At(j) \in DOMAIN flight /\ At(j) # i
      BY <3>1
    <3>7. \A j, k \in 1..(Len(flight) - 1) : At(j) = At(k) => j = k
      BY <3>1
    <3> QED BY <2>2, <3>5, <3>6, <3>7, Zenon
  <2> HIDE DEF F, At
  <2>4. ASSUME flight' = F, NEW b \in Dmabuf
        PROVE  /\ Listed(b)' => \E k \in DOMAIN flight : k # i /\ Lists(k, b)
               /\ \A j, k \in DOMAIN F : Lists(j, b)' /\ Lists(k, b)' => j = k
    <3>1. \A j \in DOMAIN F : Lists(j, b)' <=> Lists(At(j), b)
      BY <2>2, <2>4, Zenon DEF Lists
    <3>2. Debt(b)
      BY Zenon DEF BufInv
    <3> QED BY <2>3, <2>4, <3>1, <3>2, Zenon DEF Debt, Listed
  <2>5. CASE flight[i].then = "list"
    <3> DEFINE b == flight[i].buf
    <3>1. ReleaseInner({b}) /\ flight' = F /\ UNCHANGED <<slot, taken>>
      BY <1>3, <2>5, Zenon DEF HostRelease, holdVars, F
    <3>2. Pinned' = Pinned
      <4>1. {F[j].buf : j \in {k \in DOMAIN F : F[k].then = "hold"}}
              = {flight[j].buf : j \in {k \in DOMAIN flight : flight[k].then = "hold"}}
        BY <2>2, <2>3, <2>5
      <4> QED BY <3>1, <4>1, Zenon DEF Pinned, Held
    <3>3. /\ DoRelease({b} \ Pinned) /\ wanted' = wanted \cup ({b} \cap Pinned)
          /\ Pinned \subseteq Dmabuf /\ b \in Dmabuf
      <4>1. flight[i] \in Flights
        BY DEF BufInv, BufTypes
      <4> QED BY <3>1, <4>1, PinnedDmabufs, Zenon DEF ReleaseInner, BufInv, Flights
    <3>4. /\ own' \in [Buf -> {"client", "server"}] /\ points' \in [Buf -> Nat] /\ PointPerCommit'
          /\ \A x \in Buf : own'[x] = IF x \in {b} \ Pinned THEN "client" ELSE own[x]
      BY <3>3, ReleaseSignals DEF BufInv
    <3>5. BufTypes' /\ wanted' \subseteq Pinned'
      BY <2>1, <2>2, <3>1, <3>2, <3>3, <3>4, Zenon DEF BufInv, BufTypes, ViewOK
    <3>6. Lists(i, b)
      BY <2>5, Zenon DEF Lists
    <3> HIDE DEF b
    <3>7. ASSUME NEW x \in Dmabuf PROVE Debt(x)'
      <4>1. Debt(x) /\ (InHand(x)' <=> InHand(x)) /\ x \in Buf
        BY <2>1, Zenon DEF BufInv, InHand
      <4>2. /\ Listed(x)' => \E k \in DOMAIN flight : k # i /\ Lists(k, x)
            /\ \A j, k \in DOMAIN flight' : Lists(j, x)' /\ Lists(k, x)' => j = k
        BY <2>4, <3>1, Zenon
      <4>3. (Listed(x)' => Listed(x)) /\ (x = b => Listed(x) /\ ~Listed(x)')
        BY <3>6, <4>1, <4>2, Zenon DEF Debt, Listed
      <4> QED BY <2>1, <3>3, <3>4, <4>1, <4>2, <4>3, Zenon DEF Debt
    <3>8. ASSUME NEW t \in slot' \cup taken' PROVE Safe(t)'
      <4>1. Safe(t) /\ t.buf \in Buf /\ t.buf \in Pinned
        BY <3>1, <3>8, Zenon DEF BufInv, BufTypes, Tasks, Pinned, Held
      <4> QED BY <2>1, <3>3, <3>4, <4>1, Zenon DEF Safe
    <3> QED BY <3>4, <3>5, <3>7, <3>8, Zenon DEF BufInv
  <2>6. CASE flight[i].then # "list"
    <3>1. SwapHolds(slot, taken, F)
      BY <1>3, <2>6, Zenon DEF HostRelease, F
    <3>2. /\ slot' = slot /\ taken' = taken /\ flight' = F
          /\ DoRelease((Pinned \ Held(slot, taken, F)) \cap wanted)
          /\ wanted' = wanted \ (Pinned \ Held(slot, taken, F))
      BY <3>1, Zenon DEF SwapHolds
    <3>3. own' \in [Buf -> {"client", "server"}] /\ points' \in [Buf -> Nat]
      BY <3>2, ReleaseSignals, Zenon DEF BufInv
    <3>4. BufTypes'
      BY <2>1, <2>2, <3>2, <3>3, Zenon DEF BufInv, BufTypes, ViewOK
    <3>5. \A b \in Dmabuf : Listed(b)' => Listed(b)
      BY <2>4, <3>2, Zenon DEF Listed
    <3>6. \A b \in Dmabuf : \A j, k \in DOMAIN F : Lists(j, b)' /\ Lists(k, b)' => j = k
      BY <2>4, <3>2, Zenon
    <3>7. \A b \in Dmabuf : InHand(b)' => InHand(b)
      BY <2>1, Zenon DEF InHand
    <3>8. \A t \in slot \cup taken : t.safe => own[t.buf] = "server" /\
             (t.buf \in wanted \/ (comp'.buf = t.buf /\ comp'.direct /\ comp'.pc = "release"))
      BY <2>1, Zenon DEF BufInv, Safe
    <3>9. slot \subseteq Tasks /\ taken \subseteq Tasks
      BY Zenon DEF BufInv, BufTypes
    <3> QED BY <2>1, <2>2, <3>1, <3>4, <3>5, <3>6, <3>7, <3>8, <3>9, SwapStep, Zenon
  <2> QED BY <2>5, <2>6, Zenon
<1> QED BY <1>1, <1>2, <1>3, Zenon DEF HostNext

\* take_pending_releases_split: a skipped buffer is released or left to its hold,
\* the forwarded one goes to the host's list, or to a hold nobody asked to release.
LEMMA ForwardKeepsDebts == BufInv /\ ViewForward => BufInv'
<1> SUFFICES ASSUME BufInv, ViewForward PROVE BufInv'
  BY Zenon
<1> USE BufAssumption
<1> DEFINE kept == queue \cap {view.dma}
           skipped == queue \ {view.dma}
           then == IF kept = {} THEN "none" ELSE IF Recording THEN "hold" ELSE "list"
           new == [buf |-> view.dma, then |-> then]
           to == Append(flight, new)
           put == IF ~Recording THEN slot ELSE {Task(b, FALSE) : b \in kept}
           freed == Pinned \ Held(put, taken, to)
           R == (skipped \ Pinned) \cup (freed \cap (wanted \cup skipped))
<1>1. /\ view.pc = "forward" /\ queue' = {} /\ slot' = put /\ flight' = to /\ DoRelease(R)
      /\ wanted' = (wanted \cup (skipped \cap Pinned)) \ freed
      /\ view' = [view EXCEPT !.pc = "run", !.dma = None]
      /\ UNCHANGED <<comp, taken>>
  BY Zenon DEF ViewForward
<1>2. view.dma \in Dmabuf
  BY <1>1, Zenon DEF BufInv, BufTypes, ViewOK
<1>3. new \in Flights /\ (new.then = "list" => view.dma \in queue) /\ new.buf = view.dma
  BY <1>2, Zenon DEF Flights
<1> HIDE DEF new
<1>4. PICK n \in Nat :
        /\ to \in Seq(Flights) /\ DOMAIN to = 1..(n + 1) /\ DOMAIN flight = 1..n
        /\ to[n + 1] = new /\ \A i \in DOMAIN flight : to[i] = flight[i]
  <2>1. /\ Len(flight) \in Nat /\ to \in Seq(Flights)
        /\ DOMAIN to = 1..(Len(flight) + 1) /\ DOMAIN flight = 1..Len(flight)
        /\ to[Len(flight) + 1] = new /\ \A i \in DOMAIN flight : to[i] = flight[i]
    BY <1>3 DEF BufInv, BufTypes
  <2> HIDE DEF to
  <2> QED BY <2>1, Zenon
<1>5. put \subseteq Tasks /\ \A t \in put : t.safe => t \in slot
  <2>1. \A b \in Dmabuf : Task(b, FALSE) \in Tasks /\ ~Task(b, FALSE).safe
    BY Zenon DEF Task, Tasks
  <2>2. kept \subseteq Dmabuf /\ slot \subseteq Tasks
    BY Zenon DEF BufInv, BufTypes
  <2> HIDE DEF kept
  <2> QED BY <2>1, <2>2, Zenon
<1>6. Pinned' = Held(put, taken, to)
  BY <1>1, Zenon DEF Pinned
<1>7. Pinned \subseteq Dmabuf
  BY PinnedDmabufs, Zenon DEF BufInv
<1>8. ASSUME NEW t \in put \cup taken PROVE t.buf \in Held(put, taken, to)
  BY <1>8, Zenon DEF Held
<1> HIDE DEF put, to
<1>9. /\ own' \in [Buf -> {"client", "server"}] /\ points' \in [Buf -> Nat] /\ PointPerCommit'
      /\ \A b \in Buf : own'[b] = IF b \in R THEN "client" ELSE own[b]
  <2> HIDE DEF R
  <2> QED BY <1>1, ReleaseSignals, Zenon DEF BufInv
<1>10. BufTypes'
  <2>1. ViewOK'
    BY <1>1, Zenon DEF BufInv, BufTypes, ViewOK
  <2> QED BY <1>1, <1>4, <1>5, <1>7, <1>9, <2>1, Zenon DEF BufInv, BufTypes
<1>11. wanted' \subseteq Pinned'
  BY <1>1, <1>6, Zenon DEF BufInv
<1>12. ASSUME NEW x \in Dmabuf PROVE Debt(x)'
  <2>1. Debt(x) /\ (InHand(x)' <=> InHand(x)) /\ x \in Buf /\ (x \in wanted => x \in Pinned)
    BY <1>1, Zenon DEF BufInv, InHand
  <2>2. /\ \A i \in DOMAIN flight : Lists(i, x)' <=> Lists(i, x)
        /\ Lists(n + 1, x)' => x = view.dma /\ x \in queue
    BY <1>1, <1>3, <1>4, Zenon DEF Lists
  <2>3. Listed(x)' => Listed(x) \/ (x = view.dma /\ x \in queue)
    BY <1>1, <1>4, <2>2 DEF Listed
  <2>4. \A i, j \in DOMAIN flight' : Lists(i, x)' /\ Lists(j, x)' => i = j
    <3>1. \A i \in DOMAIN flight' : i \in DOMAIN flight \/ i = n + 1
      BY <1>1, <1>4
    <3>2. x \in queue => \A i \in DOMAIN flight : ~Lists(i, x)
      BY <2>1, Zenon DEF Debt, Listed
    <3>3. \A i, j \in DOMAIN flight : Lists(i, x) /\ Lists(j, x) => i = j
      BY <2>1, Zenon DEF Debt
    <3> QED BY <2>2, <3>1, <3>2, <3>3, Zenon
  <2> HIDE DEF freed
  <2>5. own'[x] = IF x \in R THEN "client" ELSE own[x]
    BY <1>9, <2>1, Zenon
  <2>6. CASE x \in R
    <3>1. x \notin wanted' /\ x \notin queue' /\ (x \in wanted \/ x \in queue \ {view.dma})
      BY <1>1, <2>1, <2>6, Zenon
    <3>2. ~InHand(x)' /\ ~Listed(x)'
      BY <2>1, <2>3, <3>1, Zenon DEF Debt
    <3> QED BY <2>4, <3>1, <3>2, Zenon DEF Debt
  <2>7. CASE x \notin R
    <3>1. own'[x] = own[x] /\ x \notin queue'
      BY <1>1, <2>5, <2>7, Zenon
    <3>2. x \in wanted' => x \in wanted \/ (x \in queue /\ x # view.dma)
      BY <1>1, Zenon
    <3> QED BY <2>1, <2>3, <2>4, <3>1, <3>2, Zenon DEF Debt
  <2> QED BY <2>6, <2>7, Zenon
<1>13. ASSUME NEW t \in slot' \cup taken' PROVE Safe(t)'
  <2>1. t \in put \cup taken /\ (t.safe => t \in slot \cup taken)
    BY <1>1, <1>5, <1>13, Zenon
  <2>2. ASSUME t.safe PROVE Safe(t)'
    <3>1. Safe(t) /\ t.buf \in Buf /\ t.buf \in Pinned
      BY <2>1, <2>2, Zenon DEF BufInv, BufTypes, Tasks, Pinned, Held
    <3>2. t.buf \notin freed
      BY <1>8, <2>1, Zenon
    <3> HIDE DEF freed
    <3>3. t.buf \notin R /\ (t.buf \in wanted => t.buf \in wanted')
      BY <1>1, <3>1, <3>2, Zenon
    <3> HIDE DEF R
    <3> QED BY <1>1, <1>9, <3>1, <3>3, Zenon DEF Safe
  <2> QED BY <2>2, Zenon DEF Safe
<1> QED BY <1>9, <1>10, <1>11, <1>12, <1>13, Zenon DEF BufInv

LEMMA ViewKeepsDebts == BufInv /\ ViewNext => BufInv'
<1> SUFFICES ASSUME BufInv, ViewNext PROVE BufInv'
  BY Zenon
<1>1. ASSUME UNCHANGED <<own, points, wanted, queue, flight, slot, taken, comp>>,
             \/ view' = view
             \/ view' = [view EXCEPT !.pc = "off"] \/ view' = [view EXCEPT !.pc = "leave"]
             \/ view' = [view EXCEPT !.pc = "run"]
             \/ cur \in Dmabuf /\ view' = [view EXCEPT !.pc = "forward", !.dma = cur]
      PROVE  BufInv'
  <2>1. ViewOK'
    BY <1>1, Zenon DEF BufInv, BufTypes, ViewOK
  <2> QED BY <1>1, <2>1, IdleStep, Zenon
<1>2. ASSUME ReleaseInner(queue), queue' = {}, UNCHANGED <<comp, flight, slot, taken>>,
             view' = view \/ view' = [view EXCEPT !.pc = "run"]
      PROVE  BufInv'
  <2>1. ViewOK'
    BY <1>2, Zenon DEF BufInv, BufTypes, ViewOK
  <2> QED BY <1>2, <2>1, FlushStep, Zenon
<1>3. CASE ViewStart
  BY <1>1, <1>2, <1>3, Zenon DEF ViewStart, SetWake, holdVars
<1>4. CASE ViewFail \/ ViewStop
  BY <1>1, <1>4, Zenon DEF ViewFail, ViewStop, clientVars, holdVars, releaseVars
<1>5. CASE ViewIdle \/ ViewCopy
  BY <1>2, <1>5, Zenon DEF ViewIdle, ViewCopy, holdVars
<1>6. CASE ViewPick
  BY <1>1, <1>6, Zenon DEF ViewPick, holdVars, releaseVars
<1>7. CASE ViewForward
  BY <1>7, ForwardKeepsDebts, Zenon
<1>8. CASE ViewEnd
  <2> DEFINE F == <<>>
  <2>1. /\ SwapHolds(slot, taken, F) /\ UNCHANGED <<comp, queue>>
        /\ view' = [view EXCEPT !.pc = "off"]
    BY <1>8, Zenon DEF ViewEnd
  <2>2. F \in Seq(Flights) /\ DOMAIN F = {}
    OBVIOUS
  <2> HIDE DEF F
  <2>3. /\ slot' = slot /\ taken' = taken /\ flight' = F
        /\ DoRelease((Pinned \ Held(slot, taken, F)) \cap wanted)
        /\ wanted' = wanted \ (Pinned \ Held(slot, taken, F))
    BY <2>1, Zenon DEF SwapHolds
  <2>4. own' \in [Buf -> {"client", "server"}] /\ points' \in [Buf -> Nat]
    BY <2>3, ReleaseSignals, Zenon DEF BufInv
  <2>5. ViewOK'
    BY <2>1, Zenon DEF BufInv, BufTypes, ViewOK
  <2>6. BufTypes'
    BY <2>1, <2>2, <2>3, <2>4, <2>5, Zenon DEF BufInv, BufTypes
  <2>7. /\ \A b \in Dmabuf : ~Listed(b)' /\ (InHand(b)' => InHand(b))
        /\ \A b \in Dmabuf : \A i, j \in DOMAIN F : Lists(i, b)' /\ Lists(j, b)' => i = j
    BY <2>1, <2>2, <2>3, Zenon DEF Listed, InHand
  <2>8. \A t \in slot \cup taken : t.safe => own[t.buf] = "server" /\
             (t.buf \in wanted \/ (comp'.buf = t.buf /\ comp'.direct /\ comp'.pc = "release"))
    BY <2>1, Zenon DEF BufInv, Safe
  <2>9. slot \subseteq Tasks /\ taken \subseteq Tasks
    BY Zenon DEF BufInv, BufTypes
  <2> QED BY <2>1, <2>2, <2>6, <2>7, <2>8, <2>9, SwapStep, Zenon
<1> QED BY <1>3, <1>4, <1>5, <1>6, <1>7, <1>8, Zenon DEF ViewNext

LEMMA EncoderKeepsDebts == BufInv /\ EncoderNext => BufInv'
<1> SUFFICES ASSUME BufInv, EncoderNext PROVE BufInv'
  BY Zenon
<1>1. ASSUME slot' \subseteq Tasks, taken' \subseteq Tasks, slot \cup taken \subseteq slot' \cup taken',
             \A t \in slot' \cup taken' : t.safe => t \in slot \cup taken,
             UNCHANGED <<own, points, wanted, queue, flight, comp, view>>
      PROVE  BufInv'
  <2>1. BufTypes'
    BY <1>1, Zenon DEF BufInv, BufTypes, ViewOK
  <2>2. Pinned \subseteq Pinned'
    BY <1>1, Zenon DEF Pinned, Held
  <2>3. \A t \in slot' \cup taken' : Safe(t)'
    BY <1>1, Zenon DEF BufInv, Safe
  <2>4. \A b \in Dmabuf : InHand(b)' => InHand(b)
    BY <1>1, Zenon DEF InHand
  <2>5. wanted \subseteq Pinned'
    BY <2>2, Zenon DEF BufInv
  <2> QED BY <1>1, <2>1, <2>3, <2>4, <2>5, QuietStep, Zenon
<1>2. ASSUME NEW k \in {"cpu", "gpu"}, RecordStart(k) PROVE BufInv'
  <2>1. /\ slot = {} /\ slot' \subseteq {Task(b, FALSE) : b \in {cur} \cap Dmabuf}
        /\ UNCHANGED <<own, points, wanted, queue, flight, comp, view, taken>>
    BY <1>2, Zenon DEF RecordStart, clientVars, releaseVars, viewVars
  <2>2. \A t \in slot' : t \in Tasks /\ ~t.safe
    <3>1. \A b \in Dmabuf : Task(b, FALSE) \in Tasks /\ ~Task(b, FALSE).safe
      BY Zenon DEF Task, Tasks
    <3> QED BY <2>1, <3>1, Zenon
  <2> QED BY <1>1, <2>1, <2>2, Zenon DEF BufInv, BufTypes
<1>3. CASE RecordStop \/ EncoderTake
  BY <1>1, <1>3, Zenon
  DEF RecordStop, EncoderTake, clientVars, holdVars, releaseVars, viewVars, BufInv, BufTypes
<1>4. CASE EncoderDone
  <2>1. PICK t \in taken : SwapHolds(slot, taken \ {t}, flight)
    BY <1>4, Zenon DEF EncoderDone
  <2> DEFINE T == taken \ {t}
  <2>2. SwapHolds(slot, T, flight) /\ T \subseteq taken /\ UNCHANGED <<comp, queue, view>>
    BY <1>4, <2>1, Zenon DEF EncoderDone
  <2> HIDE DEF T
  <2>3. /\ slot' = slot /\ taken' = T /\ flight' = flight
        /\ DoRelease((Pinned \ Held(slot, T, flight)) \cap wanted)
        /\ wanted' = wanted \ (Pinned \ Held(slot, T, flight))
    BY <2>2, Zenon DEF SwapHolds
  <2>4. own' \in [Buf -> {"client", "server"}] /\ points' \in [Buf -> Nat]
    BY <2>3, ReleaseSignals, Zenon DEF BufInv
  <2>5. BufTypes'
    BY <2>2, <2>3, <2>4, Zenon DEF BufInv, BufTypes, ViewOK
  <2>6. /\ \A b \in Dmabuf : Listed(b)' => Listed(b)
        /\ \A b \in Dmabuf : InHand(b)' => InHand(b)
    BY <2>2, <2>3, Zenon DEF Listed, InHand, Lists
  <2>7. \A b \in Dmabuf : \A i, j \in DOMAIN flight : Lists(i, b)' /\ Lists(j, b)' => i = j
    BY <2>3, Zenon DEF BufInv, Debt, Lists
  <2>8. \A u \in slot \cup T : u.safe => own[u.buf] = "server" /\
             (u.buf \in wanted \/ (comp'.buf = u.buf /\ comp'.direct /\ comp'.pc = "release"))
    BY <2>2, Zenon DEF BufInv, Safe
  <2>9. slot \subseteq Tasks /\ T \subseteq Tasks /\ flight \in Seq(Flights)
    BY <2>2, Zenon DEF BufInv, BufTypes
  <2> QED BY <2>2, <2>5, <2>6, <2>7, <2>8, <2>9, SwapStep, Zenon
<1> QED BY <1>2, <1>3, <1>4, Zenon DEF EncoderNext

LEMMA BufStep == BufInv /\ [Next]_vars => BufInv'
<1>1. BufInv /\ UNCHANGED vars => BufInv'
  <2> SUFFICES ASSUME BufInv, UNCHANGED vars PROVE BufInv'
    BY Zenon
  <2>1. UNCHANGED <<own, points, wanted, queue, flight, slot, taken, comp, view>>
    BY Zenon DEF vars, clientVars, holdVars, releaseVars, viewVars
  <2>2. ViewOK'
    BY <2>1, Zenon DEF BufInv, BufTypes, ViewOK
  <2> QED BY <2>1, <2>2, IdleStep, Zenon
<1> QED BY <1>1, CompositorKeepsDebts, ViewKeepsDebts, HostKeepsDebts, ServerKeepsDebts,
           EncoderKeepsDebts, Zenon DEF Next

LEMMA BufInitially == Init => BufInv
<1> SUFFICES ASSUME Init PROVE BufInv
  BY Zenon
<1>1. BufTypes
  BY BufAssumption DEF Init, BufTypes, ViewOK
<1> QED BY <1>1, BufAssumption DEF Init, BufInv, PointPerCommit, Debt, InHand, Listed, Lists

\* For any number of buffers, commits, outer buffers and encoders: exactly one
\* release point is outstanding for a dmabuf in our hands and none for one the
\* client has, and a release that was put off has a hold left to perform it.
THEOREM ReleasesOwed == Spec => []ReleasesAreOwed
<1>1. BufInv => ReleasesAreOwed
  <2> SUFFICES ASSUME BufInv PROVE ReleasesAreOwed
    BY Zenon
  <2>1. wanted \subseteq Dmabuf
    BY Zenon DEF BufInv, BufTypes
  <2> QED BY <2>1, Zenon DEF BufInv, Debt, ReleasesAreOwed, DeferredReleaseHasHolder
<1> QED BY <1>1, BufInitially, BufStep, PTL DEF Spec

\* What an encoder reads after the tap of a headless commit stays out of the
\* client's hands until the encoder drops it.
THEOREM HeadlessStable == Spec => []HeadlessReadIsStable
<1>1. BufInv => HeadlessReadIsStable
  <2> SUFFICES ASSUME BufInv PROVE HeadlessReadIsStable
    BY Zenon
  <2>1. comp.pc = "tap" /\ comp.direct /\ comp.buf \in Dmabuf => InHand(comp.buf) /\ Debt(comp.buf)
    BY Zenon DEF BufInv, InHand
  <2> QED BY <2>1, Zenon DEF BufInv, Safe, Debt, HeadlessReadIsStable
<1> QED BY <1>1, BufInitially, BufStep, PTL DEF Spec

--------------------------------------------------------------------------------


\* The handles of the InputBridge and the host's objects.
HandlesOK ==
    /\ bridge \in [has : SUBSET (Globals \cup {"view", "pointer"}),
                   lockState : {"Unlocked", "Requesting", "Active", "Suspended"},
                   holds : SUBSET {"lock", "relative", "inhibitor"}]
    /\ grabs \in [lock : Int, relative : Int, inhibitor : Int]

GrabInv == HandlesOK /\ GrabsAreOwned /\ (~Up => bridge = NoBridge)

\* Every step of the clients, the view and the host keeps the handles and the
\* host's objects in step.
LEMMA GrabStep == GrabInv /\ [GrabNext]_grabVars => GrabInv'
<1> SUFFICES ASSUME GrabInv, [GrabNext]_grabVars PROVE GrabInv'
  BY Zenon
<1> USE DEF GrabInv, HandlesOK, GrabsAreOwned, clientSide, Up
<1>1. ASSUME NEW c \in Client, LockPointer(c) \/ DestroyLock(c) \/ Disconnect(c) PROVE GrabInv'
  BY <1>1, Zenon DEF LockPointer, DestroyLock, Disconnect
<1>2. ASSUME NEW c \in Client, InhibitShortcuts(c) \/ InhibitorDestroyed(c) PROVE GrabInv'
  BY <1>2, Zenon DEF InhibitShortcuts, InhibitorDestroyed
<1>3. CASE BridgeStarts
  BY <1>3 DEF BridgeStarts, NoBridge
<1>4. CASE Iterate
  <2> DEFINE lock == UpdateLock(lockCount > 0)
             inhibitor == UpdateInhibitor(anyInhibit \/ lockCount > 0)
  <2>1. /\ lock.state \in {"Unlocked", "Requesting", "Active", "Suspended"}
        /\ lock.handle \subseteq {"lock"}
        /\ lock.count = IF "lock" \in lock.handle THEN 1 ELSE 0
        /\ "lock" \in lock.handle <=> lock.state # "Unlocked"
    BY DEF UpdateLock, LockHandle
  <2>2. /\ inhibitor.handle \subseteq {"inhibitor"}
        /\ inhibitor.count = IF "inhibitor" \in inhibitor.handle THEN 1 ELSE 0
    BY DEF UpdateInhibitor
  <2>3. /\ bridge' = [bridge EXCEPT !.lockState = lock.state,
                         !.holds = (@ \cap {"relative"}) \cup lock.handle \cup inhibitor.handle]
        /\ grabs' = [grabs EXCEPT !.lock = lock.count, !.inhibitor = inhibitor.count]
        /\ Up
    BY <1>4, Zenon DEF Iterate
  <2> HIDE DEF lock, inhibitor
  <2>4. /\ bridge'.has = bridge.has /\ bridge'.lockState = lock.state
        /\ bridge'.holds = (bridge.holds \cap {"relative"}) \cup lock.handle \cup inhibitor.handle
    BY <2>3, Zenon
  <2>5. /\ grabs'.lock = lock.count /\ grabs'.inhibitor = inhibitor.count
        /\ grabs'.relative = grabs.relative
    BY <2>3, Zenon
  <2>6. HandlesOK'
    <3>1. (bridge.holds \cap {"relative"}) \cup lock.handle \cup inhibitor.handle
             \in SUBSET {"lock", "relative", "inhibitor"}
      BY <2>1, <2>2, Zenon
    <3>2. lock.count \in Int /\ inhibitor.count \in Int
      BY <2>1, <2>2
    <3> QED BY <2>1, <2>3, <3>1, <3>2, Zenon
  <2>7. GrabsAreOwned'
    BY <2>1, <2>2, <2>4, <2>5, <2>6
  <2> QED BY <2>3, <2>4, <2>6, <2>7, Zenon
<1>5. CASE OnNiriLocked
  <2> DEFINE subscribe == /\ bridge.lockState = "Requesting" /\ "relative" \notin bridge.holds
                          /\ {"pointer", "relative"} \subseteq bridge.has
  <2>1. CASE subscribe
    <3>1. /\ bridge' = [bridge EXCEPT !.holds = @ \cup {"relative"}, !.lockState = "Active"]
          /\ grabs' = [grabs EXCEPT !.relative = @ + 1]
      BY <1>5, <2>1, Zenon DEF OnNiriLocked
    <3>2. HandlesOK'
      <4>1. bridge.holds \cup {"relative"} \in SUBSET {"lock", "relative", "inhibitor"}
        BY Zenon
      <4>2. grabs' \in [lock : Int, relative : Int, inhibitor : Int]
        BY <3>1
      <4> QED BY <3>1, <4>1, <4>2, Zenon
    <3>3. /\ bridge'.holds = bridge.holds \cup {"relative"} /\ bridge'.lockState = "Active"
          /\ grabs'.lock = grabs.lock /\ grabs'.inhibitor = grabs.inhibitor
          /\ grabs'.relative = grabs.relative + 1
      BY <3>1, Zenon
    <3>4. GrabsAreOwned'
      BY <2>1, <3>2, <3>3
    <3> QED BY <1>5, <3>1, <3>2, <3>4, Zenon DEF OnNiriLocked
  <2>2. CASE ~subscribe
    <3>1. bridge' = [bridge EXCEPT !.lockState = IF @ \in {"Requesting", "Suspended"} THEN "Active" ELSE @]
      BY <1>5, <2>2, Zenon DEF OnNiriLocked
    <3>2. grabs' = grabs
      BY <1>5, <2>2, Zenon DEF OnNiriLocked
    <3> QED BY <1>5, <3>1, <3>2, Zenon DEF OnNiriLocked
  <2> QED BY <2>1, <2>2, Zenon
<1>6. CASE OnNiriUnlocked
  BY <1>6, Zenon DEF OnNiriUnlocked
<1>7. CASE Capabilities
  <2>1. PICK pointer \in SUBSET {"pointer"} :
            ResetForSeatChange([bridge EXCEPT !.has = (@ \ {"pointer"}) \cup pointer])
    BY <1>7, Zenon DEF Capabilities
  <2>2. /\ bridge' = [bridge EXCEPT !.has = (@ \ {"pointer"}) \cup pointer, !.holds = @ \ {"inhibitor"}]
        /\ grabs' = [grabs EXCEPT !.inhibitor = IF "inhibitor" \in bridge.holds THEN @ - 1 ELSE @]
    BY <2>1, Zenon DEF ResetForSeatChange
  <2>3. HandlesOK'
    <3>1. /\ (bridge.has \ {"pointer"}) \cup pointer \in SUBSET (Globals \cup {"view", "pointer"})
          /\ bridge.holds \ {"inhibitor"} \in SUBSET {"lock", "relative", "inhibitor"}
      BY Zenon
    <3>2. grabs' \in [lock : Int, relative : Int, inhibitor : Int]
      BY <2>2
    <3> QED BY <2>2, <3>1, <3>2, Zenon
  <2>4. /\ bridge'.holds = bridge.holds \ {"inhibitor"} /\ bridge'.lockState = bridge.lockState
        /\ bridge'.has = (bridge.has \ {"pointer"}) \cup pointer
        /\ grabs'.lock = grabs.lock /\ grabs'.relative = grabs.relative
        /\ grabs'.inhibitor = IF "inhibitor" \in bridge.holds THEN grabs.inhibitor - 1 ELSE grabs.inhibitor
    BY <2>2, Zenon
  <2>5. GrabsAreOwned'
    BY <2>3, <2>4
  <2> QED BY <1>7, <2>3, <2>4, <2>5, Zenon DEF Capabilities
<1>8. CASE BridgeCleanup
  BY <1>8 DEF BridgeCleanup, NoBridge
<1>9. CASE HostGrants \/ HostSuspends
  BY <1>9, Zenon DEF HostGrants, HostSuspends
<1>10. CASE UNCHANGED grabVars
  BY <1>10, Zenon DEF grabVars
<1> QED
  BY <1>1, <1>2, <1>3, <1>4, <1>5, <1>6, <1>7, <1>8, <1>9, <1>10, Zenon DEF GrabNext

\* update_lock, update_inhibitor, on_niri_locked, reset_for_seat_change and
\* cleanup keep the host's objects and the bridge's handles in step, whatever
\* the inner clients and the host do in between.
THEOREM GrabsOwned == GrabSpec => []GrabsAreOwned
<1>1. GrabInit => GrabInv
  BY DEF GrabInit, GrabInv, HandlesOK, GrabsAreOwned, NoBridge, NoGrabs, Up
<1>2. GrabInv => GrabsAreOwned
  BY Zenon DEF GrabInv
<1> QED BY <1>1, <1>2, GrabStep, PTL DEF GrabSpec
================================================================================

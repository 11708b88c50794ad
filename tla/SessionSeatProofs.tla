-------------------------- MODULE SessionSeatProofs --------------------------
(* The focus and the pressed keys of waymux-session's seat, for any number of *)
(* clients, windows and devices.  Both properties are stated outside          *)
(* unregister_surface; their inductive forms also say what holds inside it,   *)
(* between the removal of the id and the choice of the next focus, where the  *)
(* injecting threads already read the state.                                  *)
EXTENDS SessionSeat, WellFoundedInduction, TLAPS

(* FocusInv: windows, ids and focus.                                          *)

\* Ids are handed out once; the closing window is no longer registered, and only
\* it can be the focus without being registered.
WindowsOK ==
    /\ next \in Nat \ {0} /\ byId \subseteq 1..(next - 1)
    /\ byId \subseteq DOMAIN windows /\ DOMAIN windows \subseteq 1..(next - 1)
    /\ closing \in [w : 0..(next - 1), passes : 0..2] /\ closing.w \notin byId
    /\ focus \in byId \cup {0, closing.w}
    /\ NotClosing => focus \in byId \cup {0}
    /\ focus = 0 => \A w \in byId : windows[w].role = "panel"

\* A registered focus is known to all devices of its client.
Told == focus \in byId => \A d \in Devices(focus, windows) : at[d] = focus

FocusInv == WindowsOK /\ bound \subseteq Device /\ at \in [Device -> Nat] /\ Told

\* A bounded set of numbers that is not empty has its maximum.
LEMMA MaxIsMember ==
  ASSUME NEW n \in Nat, NEW S, S \subseteq 1..n, S # {}
  PROVE  Max(S) \in S
<1> DEFINE T == {n - x : x \in S}
<1>1. T \subseteq Nat
  OBVIOUS
<1>2. T # {}
  <2>1. PICK x \in S : TRUE
    BY Zenon
  <2>2. n - x \in T
    BY Zenon
  <2> QED BY <2>2, Zenon
<1>3. PICK t \in T : \A y \in T : <<y, t>> \notin OpToRel(<, Nat)
  <2> HIDE DEF T
  <2> QED BY <1>1, <1>2, NatLessThanWellFounded, WFMin, Zenon
<1>4. PICK m \in S : t = n - m
  BY Zenon
<1>5. ASSUME NEW x \in S PROVE m >= x
  <2>1. n - x \in T /\ n - x \in Nat /\ t \in Nat
    OBVIOUS
  <2>2. <<n - x, t>> \notin OpToRel(<, Nat)
    BY <1>3, <2>1, Zenon
  <2>3. ~(n - x < t)
    BY <2>1, <2>2, Zenon DEF OpToRel
  <2> QED BY <1>4, <2>3
<1> QED BY <1>5, Zenon DEF Max

\* The window that inherits the focus is registered.
LEMMA HeirIsRegistered ==
  ASSUME WindowsOK
  PROVE  Heir \in byId \cup {0} /\ (Heir = 0 => byId = {})
<1>1. CASE byId = {}
  BY <1>1, Zenon DEF Heir
<1>2. CASE byId # {}
  <2>1. Max(byId) \in byId
    BY <1>2, MaxIsMember DEF WindowsOK
  <2> QED BY <1>2, <2>1 DEF Heir, WindowsOK
<1> QED BY <1>1, <1>2, Zenon

\* A window that gets the next id leaves the others alone.
LEMMA AddedWindow ==
  ASSUME WindowsOK, NEW c, NEW role
  PROVE  /\ DOMAIN AddWindow(c, role) = DOMAIN windows \cup {next}
         /\ AddWindow(c, role)[next] = [client |-> c, role |-> role]
         /\ \A w \in byId : AddWindow(c, role)[w] = windows[w]
         /\ next \notin byId
BY DEF WindowsOK, AddWindow

\* register_surface: the new window has the focus and its devices know.
LEMMA RegisterTells ==
  ASSUME FocusInv, NEW W, RegisterSurface(next, W), windows' = W, UNCHANGED bound
  PROVE  /\ byId' = byId \cup {next} /\ focus' = next /\ at' \in [Device -> Nat]
         /\ \A d \in Devices(next, W) : at'[d] = next
<1>1. PICK A, D : SendEnter(next, W, A, D) /\ A \in [Device -> Nat]
  <2>1. LeftAt(focus) \in [Device -> Nat]
    BY Zenon DEF FocusInv, LeftAt
  <2> QED BY <2>1, Zenon DEF RegisterSurface, FocusInv
<1>2. at' \in [Device -> Nat]
  BY <1>1, Zenon DEF SendEnter, FocusInv, WindowsOK
<1>3. \A d \in Devices(next, W) : at'[d] = next
  BY <1>1, Zenon DEF SendEnter, Devices, FocusInv
<1> QED BY <1>2, <1>3, Zenon DEF RegisterSurface

LEMMA FocusStep == FocusInv /\ [Next]_vars => FocusInv'
<1> SUFFICES ASSUME FocusInv, [Next]_vars PROVE FocusInv'
  BY Zenon
<1> DEFINE Opens(c, role) ==
      /\ NotClosing /\ next' = next + 1 /\ windows' = AddWindow(c, role)
      /\ UNCHANGED <<closing, bound>>
<1>1. ASSUME NEW c, NEW role, Opens(c, role), RegisterSurface(next, windows')
      PROVE  FocusInv'
  <2>1. /\ byId' = byId \cup {next} /\ focus' = next /\ at' \in [Device -> Nat]
        /\ \A d \in Devices(next, windows') : at'[d] = next
    BY <1>1, RegisterTells, Zenon
  <2>2. DOMAIN windows' = DOMAIN windows \cup {next}
    BY <1>1, AddedWindow, Zenon DEF FocusInv
  <2>3. WindowsOK'
    BY <1>1, <2>1, <2>2 DEF FocusInv, WindowsOK, NotClosing
  <2>4. Told'
    BY <1>1, <2>1, Zenon DEF Told, Devices
  <2> QED BY <1>1, <2>1, <2>3, <2>4, Zenon DEF FocusInv
<1>2. ASSUME NEW c, Opens(c, "panel"), RegisterSurfaceNoFocus(next)
      PROVE  FocusInv'
  <2>1. /\ DOMAIN windows' = DOMAIN windows \cup {next}
        /\ windows'[next] = [client |-> c, role |-> "panel"]
        /\ \A w \in byId : windows'[w] = windows[w]
        /\ next \notin byId
    <3>1. WindowsOK /\ windows' = AddWindow(c, "panel")
      BY <1>2, Zenon DEF FocusInv
    <3> HIDE DEF Opens
    <3> QED BY <3>1, AddedWindow
  <2>2. byId' = byId \cup {next} /\ focus' = focus /\ at' = at
    BY <1>2, Zenon DEF RegisterSurfaceNoFocus
  <2>3. WindowsOK'
    BY <1>2, <2>1, <2>2 DEF FocusInv, WindowsOK, NotClosing
  <2>4. focus # next
    BY <1>2 DEF FocusInv, WindowsOK
  <2>5. Told'
    BY <1>2, <2>1, <2>2, <2>4, Zenon DEF Told, Devices, FocusInv
  <2> QED BY <1>2, <2>2, <2>3, <2>5, Zenon DEF FocusInv
<1>3. ASSUME NEW c \in Client, GetToplevel(c) PROVE FocusInv'
  BY <1>1, <1>3, Zenon DEF GetToplevel
<1>4. ASSUME NEW c \in Client, NEW r \in {"panel", "exclusive"}, CommitLayer(c, r) PROVE FocusInv'
  BY <1>1, <1>2, <1>4, Zenon DEF CommitLayer
<1>5. ASSUME NEW w \in byId, NEW n \in 1..2, Close(w, n) PROVE FocusInv'
  <2>1. closing' = [w |-> w, passes |-> n] /\ byId' = byId \ {w}
        /\ UNCHANGED <<windows, next, focus, bound, at, down>> /\ NotClosing
    BY <1>5, Zenon DEF Close, deviceVars
  <2>2. w \in 0..(next - 1)
    BY DEF FocusInv, WindowsOK
  <2>3. WindowsOK'
    BY <2>1, <2>2 DEF FocusInv, WindowsOK, NotClosing
  <2> QED BY <2>1, <2>3, Zenon DEF FocusInv, Told, Devices
<1>6. CASE Refocus
  <2>1. NewFocus \in byId \cup {0} /\ (NewFocus = 0 => \A w \in byId : windows[w].role = "panel")
    <3>1. focus # closing.w => focus \in byId \cup {0}
      BY Zenon DEF FocusInv, WindowsOK
    <3> QED BY <3>1, HeirIsRegistered, Zenon DEF NewFocus, FocusInv, WindowsOK
  <2>2. /\ focus' = NewFocus /\ UNCHANGED <<next, byId, bound>>
        /\ closing' = [closing EXCEPT !.passes = @ - 1] /\ closing.passes > 0
        /\ windows' = RemoveWindow(closing.w)
    BY <1>6, Zenon DEF Refocus
  <2>3. /\ DOMAIN windows' = DOMAIN windows \ {closing.w}
        /\ \A w \in byId : windows'[w] = windows[w]
    BY <2>2, Zenon DEF RemoveWindow, FocusInv, WindowsOK
  <2>4. closing' \in [w : 0..(next - 1), passes : 0..2] /\ closing'.w = closing.w
    BY <2>2 DEF FocusInv, WindowsOK
  <2>5. WindowsOK'
    BY <2>1, <2>2, <2>3, <2>4, Zenon DEF FocusInv, WindowsOK, NotClosing
  <2>6. at' \in [Device -> Nat] /\ Told'
    <3>1. CASE NewFocus \in byId
      <4>1. SendEnter(NewFocus, windows, at, down)
        BY <1>6, <3>1, Zenon DEF Refocus
      <4>2. NewFocus \in Nat
        BY <3>1 DEF FocusInv, WindowsOK
      <4>3. at' \in [Device -> Nat]
        BY <4>1, <4>2, Zenon DEF SendEnter, FocusInv
      <4>4. \A d \in Devices(NewFocus, windows) : at'[d] = NewFocus
        BY <4>1, Zenon DEF SendEnter, Devices, FocusInv
      <4>5. Devices(focus, windows)' = Devices(NewFocus, windows)
        BY <2>2, <2>3, <3>1, Zenon DEF Devices
      <4> QED BY <2>2, <4>3, <4>4, <4>5, Zenon DEF Told
    <3>2. CASE NewFocus \notin byId
      BY <1>6, <2>2, <3>2, Zenon DEF Refocus, Told, FocusInv
    <3> QED BY <3>1, <3>2, Zenon
  <2> QED BY <2>2, <2>5, <2>6, Zenon DEF FocusInv
<1>7. ASSUME NEW d \in Device, GetDevice(d) PROVE FocusInv'
  <2>1. bound' = bound \cup {d} /\ UNCHANGED windowVars
    BY <1>7, Zenon DEF GetDevice
  <2>2. at' = [at EXCEPT ![d] = IF /\ Kind[d] # "touch" /\ Live(focus)
                                   /\ ClientOf(focus) = Owner[d] THEN focus ELSE 0]
    BY <1>7, Zenon DEF GetDevice
  <2>3. focus \in Nat
    BY DEF FocusInv, WindowsOK
  <2>4. at' \in [Device -> Nat]
    BY <2>2, <2>3, Zenon DEF FocusInv
  <2>5. WindowsOK'
    BY <2>1, Zenon DEF FocusInv, WindowsOK, NotClosing, windowVars
  <2>6. Told'
    BY <2>1, <2>2, Zenon DEF FocusInv, Told, Devices, windowVars, Live, ClientOf
  <2> QED BY <2>1, <2>4, <2>5, <2>6, Zenon DEF FocusInv
<1>8. ASSUME NEW d \in Device, DropDevice(d) PROVE FocusInv'
  <2>1. bound' = bound \ {d} /\ UNCHANGED windowVars /\ at' = [at EXCEPT ![d] = 0]
    BY <1>8, Zenon DEF DropDevice
  <2>2. WindowsOK'
    BY <2>1, Zenon DEF FocusInv, WindowsOK, NotClosing, windowVars
  <2>3. Told'
    BY <2>1, Zenon DEF FocusInv, Told, Devices, windowVars
  <2> QED BY <2>1, <2>2, <2>3, Zenon DEF FocusInv
<1>9. ASSUME UNCHANGED <<windowVars, bound, at>> PROVE FocusInv'
  BY <1>9, Zenon DEF FocusInv, WindowsOK, NotClosing, Told, Devices, windowVars
<1>10. OuterNext \/ InjectNext \/ UNCHANGED vars => UNCHANGED <<windowVars, bound, at>>
  <2>1. ASSUME NEW c \in HostCode, OnKeyboardKey(c) \/ OnPointerButton(c) \/ Elsewhere(c)
        PROVE  UNCHANGED <<windowVars, bound, at>>
    BY <2>1, Zenon DEF OnKeyboardKey, OnPointerButton, OnCode, Elsewhere, deviceVars
  <2>2. ASSUME NEW t \in Thread, PickClient(t) \/ InjectKey(t) \/ InjectPointer(t) \/ InjectTouch(t)
        PROVE  UNCHANGED <<windowVars, bound, at>>
    BY <2>2, Zenon DEF PickClient, InjectKey, InjectPointer, InjectTouch, Deliver, deviceVars
  <2>3. OuterNext => UNCHANGED <<windowVars, bound, at>>
    BY <2>1, Zenon
    DEF OuterNext, Attach, SeatChange, Detach, Detached, OnKeyboardEnter, OnPointerEnter,
                OnKeyboardLeave, OnPointerLeave, deviceVars
  <2>4. InjectNext => UNCHANGED <<windowVars, bound, at>>
    BY <2>2, Zenon DEF InjectNext, InjectFocused, InjectWindow, deviceVars
  <2> QED BY <2>3, <2>4, Zenon DEF vars, deviceVars
<1> QED
  BY <1>3, <1>4, <1>5, <1>6, <1>7, <1>8, <1>9, <1>10, Zenon DEF Next, CompositorNext

LEMMA FocusInitially == Init => FocusInv
BY DEF Init, FocusInv, WindowsOK, Told, NotClosing

\* However windows come, close and change hands, outside unregister_surface the
\* focus is a registered window, or there are only panels, and every keyboard and
\* pointer of its client was sent the enter (register_surface,
\* unregister_surface and the late-binder branch of get_keyboard / get_pointer).
THEOREM FocusFollowed == Spec => []FocusIsFollowed
<1>1. FocusInv => FocusIsFollowed
  BY Zenon DEF FocusInv, WindowsOK, Told, FocusIsFollowed, FocusIsRegistered, DevicesFollowFocus
<1> QED BY <1>1, FocusInitially, FocusStep, PTL DEF Spec

-----------------------------------------------------------------------------
(* PressInv: held keys, jobs and what the clients believe is pressed.          *)

Codes(events) == {e.code : e \in events}

\* Keys are held only while the host's keyboard focus is on our surface, and only
\* a seat change forgets them; a view that is gone holds nothing and injects
\* nothing.
HeldOK ==
    /\ held \cup phys \subseteq HostCode /\ lost \subseteq Of("kbd", HostCode)
    /\ "kbd" \notin inside => Of("kbd", held) = {}
    /\ view # "on" => held = {}
    /\ view = "off" => job["outer"].todo = {}

\* A press on its way is of a code that is held until the thread is free again.
JobsOK ==
    /\ job = [t \in Thread |-> job[t]]
    /\ \A t \in Thread : job[t] = [todo |-> job[t].todo, to |-> job[t].to]
    /\ job["outer"].todo \subseteq [code : Code, on : BOOLEAN]
    /\ job["control"].todo \subseteq SdkEvent
    /\ \A e \in job["outer"].todo : e.on => e.code \in held \cup lost

\* A device only hears of codes of its kind.
DownOK == down \in [Device -> SUBSET Code] /\ \A d \in Device : \A c \in down[d] : CodeKind[c] = Kind[d]

\* What the clients of the focus believe is pressed is still to be released.  A
\* focus that came after the outer thread had picked its client starts from none.
Owed(d) == down[d] \cap HostCode \subseteq held \cup lost \cup Codes(job["outer"].todo)
Fresh(d) == job["outer"].to # {} /\ ClientOf(focus) \notin job["outer"].to => down[d] \cap HostCode = {}

PressInv ==
    /\ HeldOK /\ JobsOK /\ DownOK
    /\ focus \in byId => \A d \in Devices(focus, windows) : Owed(d) /\ Fresh(d)

\* Steps of the compositor thread: each device of the focus was just cleared by
\* an enter (or is new), or was one before and kept what it had.
LEMMA CompositorKeeps ==
  ASSUME PressInv, UNCHANGED <<hostVars, job>>, DownOK',
         focus' \in byId' => \A d \in Devices(focus, windows)' :
            \/ down'[d] = {}
            \/ /\ focus \in byId /\ d \in Devices(focus, windows)
               /\ down'[d] = down[d] /\ ClientOf(focus)' = ClientOf(focus)
  PROVE  PressInv'
<1>1. HeldOK' /\ JobsOK'
  BY Zenon DEF PressInv, HeldOK, JobsOK, hostVars
<1>2. ASSUME focus' \in byId', NEW d \in Devices(focus, windows)' PROVE Owed(d)' /\ Fresh(d)'
  <2>1. CASE down'[d] = {}
    BY <2>1, Zenon DEF Owed, Fresh
  <2>2. CASE /\ focus \in byId /\ d \in Devices(focus, windows)
             /\ down'[d] = down[d] /\ ClientOf(focus)' = ClientOf(focus)
    <3>1. Owed(d) /\ Fresh(d)
      BY <2>2, Zenon DEF PressInv
    <3> QED BY <2>2, <3>1, Zenon DEF Owed, Fresh, hostVars
  <2> QED BY <1>2, <2>1, <2>2, Zenon
<1> QED BY <1>1, <1>2, Zenon DEF PressInv

\* An enter clears what its devices believe and says nothing to the others.
LEMMA EnterClears ==
  ASSUME NEW w, NEW W, NEW A, NEW D, SendEnter(w, W, A, D), bound \subseteq Device,
         D \in [Device -> SUBSET Code], \A d \in Device : \A c \in D[d] : CodeKind[c] = Kind[d]
  PROVE  DownOK' /\ \A d \in Devices(w, W) : down'[d] = {}
<1>1. down' = [d \in Device |-> IF d \in Devices(w, W) THEN {} ELSE D[d]]
  BY Zenon DEF SendEnter
<1>2. Devices(w, W) \subseteq Device
  BY Zenon DEF Devices
<1> QED BY <1>1, <1>2, Zenon DEF DownOK

\* register_surface starts the new focus from none.
LEMMA RegisterClears ==
  ASSUME FocusInv, PressInv, NEW W, RegisterSurface(next, W)
  PROVE  DownOK' /\ \A d \in Devices(next, W) : down'[d] = {}
<1>1. CASE focus \in byId
  <2>1. SendEnter(next, W, LeftAt(focus), LeftDown(focus))
    BY <1>1, Zenon DEF RegisterSurface
  <2>2. /\ LeftDown(focus) \in [Device -> SUBSET Code]
        /\ \A d \in Device : \A c \in LeftDown(focus)[d] : CodeKind[c] = Kind[d]
    BY Zenon DEF LeftDown, PressInv, DownOK
  <2> QED BY <2>1, <2>2, EnterClears, Zenon DEF FocusInv
<1>2. CASE focus \notin byId
  <2>1. SendEnter(next, W, at, down)
    BY <1>2, Zenon DEF RegisterSurface
  <2> QED BY <2>1, EnterClears, Zenon DEF FocusInv, PressInv, DownOK
<1> QED BY <1>1, <1>2, Zenon

LEMMA CompositorPress == FocusInv /\ PressInv /\ CompositorNext => PressInv'
<1> SUFFICES ASSUME FocusInv, PressInv, CompositorNext PROVE PressInv'
  BY Zenon
<1>1. ASSUME RegisterSurface(next, windows'), UNCHANGED <<bound, hostVars, job>>
      PROVE  PressInv'
  <2>1. DownOK' /\ \A d \in Devices(next, windows') : down'[d] = {}
    BY RegisterClears, <1>1, Zenon
  <2>2. Devices(focus, windows)' = Devices(next, windows')
    BY <1>1, Zenon DEF RegisterSurface, Devices
  <2> QED BY <1>1, <2>1, <2>2, CompositorKeeps, Zenon
<1>2. ASSUME NEW c \in Client, GetToplevel(c) PROVE PressInv'
  BY <1>1, <1>2, Zenon DEF GetToplevel
<1>3. ASSUME NEW c \in Client, NEW r \in {"panel", "exclusive"}, CommitLayer(c, r) PROVE PressInv'
  <2>1. CASE r = "exclusive"
    BY <1>1, <1>3, <2>1, Zenon DEF CommitLayer
  <2>2. CASE r # "exclusive"
    <3>1. /\ byId' = byId \cup {next} /\ UNCHANGED <<focus, down, bound, hostVars, job>>
          /\ windows' = AddWindow(c, r)
      BY <1>3, <2>2, Zenon DEF CommitLayer, RegisterSurfaceNoFocus
    <3>2. focus \in byId' => focus \in byId /\ windows'[focus] = windows[focus]
      <4>1. focus # next
        BY DEF FocusInv, WindowsOK
      <4>2. WindowsOK
        BY Zenon DEF FocusInv
      <4>3. \A w \in byId : AddWindow(c, r)[w] = windows[w]
        BY <4>2 DEF AddWindow, WindowsOK
      <4> QED BY <3>1, <4>1, <4>3, Zenon
    <3>3. DownOK'
      BY <3>1, Zenon DEF PressInv, DownOK
    <3> QED BY <3>1, <3>2, <3>3, CompositorKeeps, Zenon DEF Devices, ClientOf
  <2> QED BY <2>1, <2>2, Zenon
<1>4. ASSUME NEW w \in byId, NEW n \in 1..2, Close(w, n) PROVE PressInv'
  <2>1. byId' = byId \ {w} /\ UNCHANGED <<windows, focus, bound, at, down, hostVars, job>>
    BY <1>4, Zenon DEF Close, deviceVars
  <2>2. DownOK'
    BY <2>1, Zenon DEF PressInv, DownOK
  <2> QED BY <2>1, <2>2, CompositorKeeps, Zenon DEF Devices, ClientOf
<1>5. CASE Refocus
  <2>1. focus' = NewFocus /\ windows' = RemoveWindow(closing.w)
        /\ UNCHANGED <<byId, bound, hostVars, job>>
    BY <1>5, Zenon DEF Refocus
  <2>2. CASE NewFocus \in byId
    <3>1. SendEnter(NewFocus, windows, at, down)
      BY <1>5, <2>2, Zenon DEF Refocus
    <3>2. DownOK' /\ \A d \in Devices(NewFocus, windows) : down'[d] = {}
      BY <3>1, EnterClears, Zenon DEF FocusInv, PressInv, DownOK
    <3>3. windows'[NewFocus] = windows[NewFocus]
      BY <2>1, <2>2, Zenon DEF RemoveWindow, FocusInv, WindowsOK
    <3>4. Devices(focus, windows)' = Devices(NewFocus, windows)
      BY <2>1, <3>3, Zenon DEF Devices
    <3> QED BY <2>1, <3>2, <3>4, CompositorKeeps, Zenon
  <2>3. CASE NewFocus \notin byId
    <3>1. DownOK'
      BY <1>5, <2>3, Zenon DEF Refocus, PressInv, DownOK
    <3> QED BY <2>1, <2>3, <3>1, CompositorKeeps, Zenon
  <2> QED BY <2>2, <2>3, Zenon
<1>6. ASSUME NEW d \in Device, GetDevice(d) \/ DropDevice(d) PROVE PressInv'
  <2>1. /\ down' = [down EXCEPT ![d] = {}] /\ UNCHANGED <<windowVars, hostVars, job>>
        /\ bound' \subseteq bound \cup {d}
    BY <1>6, Zenon DEF GetDevice, DropDevice
  <2>2. DownOK'
    BY <2>1, Zenon DEF PressInv, DownOK
  <2>3. ASSUME NEW x \in Devices(focus, windows)'
        PROVE  down'[x] = {} \/ (x \in Devices(focus, windows) /\ down'[x] = down[x])
    BY <2>1, <2>3, Zenon DEF PressInv, DownOK, Devices, windowVars, FocusInv
  <2> QED BY <2>1, <2>2, <2>3, CompositorKeeps, Zenon DEF windowVars, ClientOf
<1> QED BY <1>2, <1>3, <1>4, <1>5, <1>6, Zenon DEF CompositorNext

\* Steps of the outer-view thread between two jobs: no code stops being owed.
LEMMA OuterKeeps ==
  ASSUME PressInv, UNCHANGED <<windowVars, deviceVars>>, HeldOK', JobsOK',
         job'["outer"].to = job["outer"].to,
         held \cup lost \cup Codes(job["outer"].todo) \subseteq held' \cup lost' \cup Codes(job'["outer"].todo)
  PROVE  PressInv'
<1>1. DownOK'
  BY Zenon DEF PressInv, DownOK, deviceVars
<1>2. ASSUME focus' \in byId', NEW d \in Devices(focus, windows)' PROVE Owed(d)' /\ Fresh(d)'
  <2>1. Owed(d) /\ Fresh(d)
    BY <1>2, Zenon DEF PressInv, Devices, windowVars, deviceVars
  <2>2. down' = down /\ windows' = windows /\ focus' = focus
    BY Zenon DEF windowVars, deviceVars
  <2>3. Owed(d)'
    BY <2>1, <2>2, Zenon DEF Owed
  <2> QED BY <2>1, <2>2, <2>3, Zenon DEF Fresh, ClientOf
<1> QED BY <1>1, <1>2, Zenon DEF PressInv

\* Starting the releases of R, or the events of R: the free thread has a new job.
LEMMA StartsJob ==
  ASSUME PressInv, Free("outer"), NEW R, Start("outer", R),
         R \subseteq [code : Code, on : BOOLEAN], \A e \in R : e.on => e.code \in held' \cup lost'
  PROVE  /\ JobsOK' /\ job'["outer"].to = job["outer"].to
         /\ job'["outer"].todo = R /\ Codes(job["outer"].todo) = {}
<1>1. job' = [job EXCEPT !["outer"].todo = R] /\ job["outer"] = Idle
  BY Zenon DEF Start, Free
<1>2. job["outer"].todo = {} /\ job["outer"].to = {}
  BY <1>1 DEF Idle
<1>3. /\ job'["outer"] = [todo |-> R, to |-> {}] /\ job'["control"] = job["control"]
      /\ job' = [t \in Thread |-> job'[t]]
  <2>1. job = [t \in Thread |-> job[t]] /\ "outer" \in Thread /\ "control" \in Thread
    BY Zenon DEF PressInv, JobsOK, Thread
  <2>2. job' = [job EXCEPT !["outer"] = [Idle EXCEPT !.todo = R]]
    BY <1>1, Zenon
  <2>3. [Idle EXCEPT !.todo = R] = [todo |-> R, to |-> {}]
    BY DEF Idle
  <2> QED BY <2>1, <2>2, <2>3, Zenon
<1>4. JobsOK'
  <2>1. \A t \in Thread : job'[t] = [todo |-> job'[t].todo, to |-> job'[t].to]
    BY <1>3, Zenon DEF PressInv, JobsOK, Thread
  <2>2. job'["outer"].todo = R
    BY <1>3
  <2> QED BY <1>3, <2>1, <2>2, Zenon DEF PressInv, JobsOK
<1> QED BY <1>2, <1>3, <1>4 DEF Codes

\* A step that starts nothing and forgets no held or lost code keeps the jobs.
LEMMA SameJobs ==
  ASSUME PressInv, UNCHANGED job, job["outer"].todo = {} \/ held \cup lost \subseteq held' \cup lost'
  PROVE  JobsOK'
BY Zenon DEF PressInv, JobsOK

\* The releases of a set of codes.
LEMMA ReleaseEvents ==
  ASSUME NEW R, R \subseteq Code
  PROVE  /\ Releases(R) \subseteq [code : Code, on : BOOLEAN]
         /\ \A e \in Releases(R) : ~e.on
         /\ Codes(Releases(R)) = R
<1>1. ASSUME NEW e \in Releases(R)
      PROVE  e \in [code : Code, on : BOOLEAN] /\ ~e.on /\ e.code \in R
  <2>1. PICK c \in R : e = [code |-> c, on |-> FALSE]
    BY Zenon DEF Releases, Event
  <2> QED BY <2>1, Zenon
<1>2. ASSUME NEW c \in R PROVE c \in Codes(Releases(R))
  <2>1. [code |-> c, on |-> FALSE] \in Releases(R)
    BY Zenon DEF Releases, Event
  <2>2. [code |-> c, on |-> FALSE].code = c
    BY Zenon
  <2> QED BY <2>1, <2>2, Zenon DEF Codes
<1>3. ASSUME NEW c \in Codes(Releases(R)) PROVE c \in R
  BY <1>1, Zenon DEF Codes
<1> QED BY <1>1, <1>2, <1>3, Zenon

LEMMA OuterPress == PressInv /\ OuterNext => PressInv'
<1> SUFFICES ASSUME PressInv, OuterNext PROVE PressInv'
  BY Zenon
<1> USE SeatAssumption DEF HeldOK, Of
<1>1. CASE Attach
  <2>1. held' = {} /\ held = {} /\ view' = "on" /\ UNCHANGED <<windowVars, deviceVars, phys, lost, job>>
    BY <1>1, Zenon DEF Attach, PressInv
  <2>2. HeldOK'
    BY <2>1, Zenon DEF PressInv
  <2> QED BY <2>1, <2>2, SameJobs, OuterKeeps, Zenon
<1>2. CASE OnKeyboardEnter
  <2>1. /\ held' = Of("ptr", held) \cup Of("kbd", phys) /\ lost' = lost \ phys
        /\ UNCHANGED <<windowVars, deviceVars, view, phys, job>> /\ Free("outer") /\ view = "on"
        /\ inside' = inside \cup {"kbd"} /\ "kbd" \notin inside
    BY <1>2, Zenon DEF OnKeyboardEnter
  <2>2. held \cup lost \subseteq held' \cup lost'
    <3>1. \A c \in held : CodeKind[c] = "ptr"
      BY <2>1 DEF PressInv, Code
    <3>2. \A c \in lost : CodeKind[c] = "kbd"
      BY Zenon DEF PressInv
    <3> QED BY <2>1, <3>1, <3>2, Zenon
  <2>3. HeldOK'
    BY <2>1, Zenon DEF PressInv, Code
  <2> QED BY <2>1, <2>2, <2>3, SameJobs, OuterKeeps, Zenon
<1>3. CASE OnPointerEnter
  <2>1. inside' = inside \cup {"ptr"} /\ UNCHANGED <<windowVars, deviceVars, view, phys, held, lost, job>>
    BY <1>3, Zenon DEF OnPointerEnter
  <2>2. HeldOK'
    BY <2>1, Zenon DEF PressInv
  <2> QED BY <2>1, <2>2, SameJobs, OuterKeeps, Zenon
<1>4. ASSUME NEW kind, NEW R, R = Of(kind, held), Free("outer"), held' = held \ R,
             Start("outer", Releases(R)),
             UNCHANGED <<windowVars, deviceVars, lost>>, HeldOK'
      PROVE  PressInv'
  <2>1. R \subseteq Code
    BY <1>4, Zenon DEF PressInv, Code
  <2>2. Releases(R) \subseteq [code : Code, on : BOOLEAN] /\ \A e \in Releases(R) : ~e.on
    BY <2>1, ReleaseEvents, Zenon
  <2>3. /\ JobsOK' /\ job'["outer"].to = job["outer"].to
        /\ job'["outer"].todo = Releases(R) /\ Codes(job["outer"].todo) = {}
    BY <1>4, <2>2, StartsJob
  <2>4. Codes(Releases(R)) = R
    BY <2>1, ReleaseEvents, Zenon
  <2> QED BY <1>4, <2>3, <2>4, OuterKeeps, Zenon
<1>5. CASE OnKeyboardLeave
  <2>1. /\ Free("outer") /\ view = "on" /\ inside' = inside \ {"kbd"}
        /\ held' = Of("ptr", held) /\ Start("outer", Releases(Of("kbd", held)))
        /\ UNCHANGED <<windowVars, deviceVars, view, phys, lost>>
    BY <1>5, Zenon DEF OnKeyboardLeave
  <2>2. held' = held \ Of("kbd", held)
    BY <2>1, Zenon DEF PressInv, Code
  <2>3. HeldOK'
    BY <2>1, <2>2, Zenon DEF PressInv
  <2> HIDE DEF Of
  <2> QED BY <1>4, <2>1, <2>2, <2>3, Zenon
<1>6. CASE OnPointerLeave
  <2>1. /\ Free("outer") /\ view = "on" /\ inside' = inside \ {"ptr"}
        /\ held' = Of("kbd", held) /\ Start("outer", Releases(Of("ptr", held)))
        /\ UNCHANGED <<windowVars, deviceVars, view, phys, lost>>
    BY <1>6, Zenon DEF OnPointerLeave
  <2>2. held' = held \ Of("ptr", held)
    BY <2>1, Zenon DEF PressInv, Code
  <2>3. HeldOK'
    BY <2>1, <2>2, Zenon DEF PressInv
  <2> HIDE DEF Of
  <2> QED BY <1>4, <2>1, <2>2, <2>3, Zenon
<1>7. ASSUME NEW c \in HostCode, OnKeyboardKey(c) \/ OnPointerButton(c) PROVE PressInv'
  <2> DEFINE on == c \notin phys
             R == {Event(c, on)}
  <2>1. /\ view = "on" /\ CodeKind[c] \in inside /\ Free("outer")
        /\ phys' = (IF on THEN phys \cup {c} ELSE phys \ {c})
        /\ held' = (IF on THEN held \cup {c} ELSE held \ {c})
        /\ lost' = lost \ {c} /\ Start("outer", R)
        /\ UNCHANGED <<windowVars, deviceVars, view, inside>>
    BY <1>7, Zenon DEF OnKeyboardKey, OnPointerButton, OnCode
  <2>2. R \subseteq [code : Code, on : BOOLEAN] /\ \A e \in R : e.code = c /\ (e.on => on)
    <3>1. CASE on
      <4>1. R = {[code |-> c, on |-> TRUE]}
        BY <3>1, Zenon DEF Event
      <4> HIDE DEF R, on
      <4> QED BY <3>1, <4>1 DEF Code
    <3>2. CASE ~on
      <4>1. R = {[code |-> c, on |-> FALSE]}
        BY <3>2, Zenon DEF Event
      <4> HIDE DEF R, on
      <4> QED BY <3>2, <4>1 DEF Code
    <3> QED BY <3>1, <3>2, Zenon
  <2>3. \A e \in R : e.on => e.code \in held' \cup lost'
    BY <2>1, <2>2, Zenon
  <2>4. /\ JobsOK' /\ job'["outer"].to = job["outer"].to
        /\ job'["outer"].todo = R /\ Codes(job["outer"].todo) = {}
    <3> HIDE DEF R
    <3> QED BY <2>1, <2>2, <2>3, StartsJob, Zenon
  <2>5. Codes(R) = {c}
    BY DEF Codes, Event
  <2>6. HeldOK'
    BY <2>1 DEF PressInv
  <2>7. held \cup lost \cup Codes(job["outer"].todo) \subseteq held' \cup lost' \cup Codes(job'["outer"].todo)
    <3>1. held \subseteq held' \cup {c} /\ lost \subseteq lost' \cup {c}
      BY <2>1, Zenon
    <3>2. Codes(job'["outer"].todo) = {c}
      BY <2>4, <2>5, Zenon
    <3> QED BY <2>4, <3>1, <3>2, Zenon
  <2> QED BY <2>1, <2>4, <2>6, <2>7, OuterKeeps, Zenon
<1>8. ASSUME NEW c \in HostCode, Elsewhere(c) PROVE PressInv'
  <2>1. /\ phys' \subseteq phys \cup {c}
        /\ UNCHANGED <<windowVars, deviceVars, view, inside, held, lost, job>>
    BY <1>8, Zenon DEF Elsewhere
  <2>2. HeldOK'
    BY <2>1, Zenon DEF PressInv
  <2> QED BY <2>1, <2>2, SameJobs, OuterKeeps, Zenon
<1>9. CASE SeatChange
  <2>1. /\ inside' = {} /\ held' = Of("ptr", held) /\ lost' = lost \cup Of("kbd", held)
        /\ view = "on" /\ Free("outer") /\ UNCHANGED <<windowVars, deviceVars, view, phys, job>>
    BY <1>9, Zenon DEF SeatChange
  <2>2. held \cup lost \subseteq held' \cup lost'
    BY <2>1, Zenon DEF PressInv, Code
  <2>3. HeldOK'
    BY <2>1, Zenon DEF PressInv
  <2> QED BY <2>1, <2>2, <2>3, SameJobs, OuterKeeps, Zenon
<1>10. CASE Detach
  <2>1. /\ view = "on" /\ Free("outer") /\ view' = "leaving" /\ inside' = {}
        /\ held' = {} /\ Start("outer", Releases(held))
        /\ UNCHANGED <<windowVars, deviceVars, phys, lost>>
    BY <1>10, Zenon DEF Detach
  <2>2. HeldOK'
    BY <2>1, Zenon DEF PressInv
  <2>3. held \subseteq Code
    BY Zenon DEF PressInv, Code
  <2>4. /\ JobsOK' /\ job'["outer"].to = job["outer"].to
        /\ job'["outer"].todo = Releases(held) /\ Codes(job["outer"].todo) = {}
    BY <2>1, <2>3, ReleaseEvents, StartsJob, Zenon
  <2>5. Codes(Releases(held)) = held
    BY <2>3, ReleaseEvents, Zenon
  <2> QED BY <2>1, <2>2, <2>4, <2>5, OuterKeeps, Zenon
<1>11. CASE Detached
  <2>1. /\ view' = "off" /\ view = "leaving" /\ Free("outer")
        /\ UNCHANGED <<windowVars, deviceVars, inside, phys, held, lost, job>>
    BY <1>11, Zenon DEF Detached
  <2>2. HeldOK'
    BY <2>1 DEF PressInv, Free, Idle
  <2> QED BY <2>1, <2>2, SameJobs, OuterKeeps, Zenon
<1> QED
  BY <1>1, <1>2, <1>3, <1>5, <1>6, <1>7, <1>8, <1>9, <1>10, <1>11, Zenon DEF OuterNext

\* A step of one thread's job alone.
LEMMA JobChanges ==
  ASSUME PressInv, NEW t \in Thread, NEW todo, NEW to,
         job' = [job EXCEPT ![t] = [todo |-> todo, to |-> to]], UNCHANGED <<held, lost>>,
         t = "outer" => todo \subseteq job["outer"].todo,
         t = "control" => todo \subseteq SdkEvent
  PROVE  JobsOK' /\ job'[t] = [todo |-> todo, to |-> to] /\ \A u \in Thread \ {t} : job'[u] = job[u]
<1>1. job = [u \in Thread |-> job[u]]
  BY Zenon DEF PressInv, JobsOK
<1>2. /\ job'[t] = [todo |-> todo, to |-> to] /\ \A u \in Thread \ {t} : job'[u] = job[u]
      /\ job' = [u \in Thread |-> job'[u]]
  BY <1>1, Zenon
<1>3. job'[t].todo = todo /\ job'[t].to = to
  BY <1>2, Zenon
<1>4. \A u \in Thread : job'[u] = [todo |-> job'[u].todo, to |-> job'[u].to]
  BY <1>2, <1>3, Zenon DEF PressInv, JobsOK
<1>5. CASE t = "outer"
  <2>1. job'["control"] = job["control"] /\ job'["outer"].todo = todo
    BY <1>2, <1>3, <1>5, Zenon DEF Thread
  <2> QED BY <1>2, <1>4, <1>5, <2>1, Zenon DEF PressInv, JobsOK
<1>6. CASE t = "control"
  <2>1. job'["outer"] = job["outer"] /\ job'["control"].todo = todo
    BY <1>2, <1>3, <1>6, Zenon DEF Thread
  <2> QED BY <1>2, <1>4, <1>6, <2>1, Zenon DEF PressInv, JobsOK
<1> QED BY <1>2, <1>5, <1>6, Zenon DEF Thread

\* inject_*: the control thread delivers codes that the host does not have, and
\* the outer thread a release to every device that can have the key down, or to
\* the client that lost the focus.
LEMMA InjectPress == FocusInv /\ PressInv /\ InjectNext => PressInv'
<1> SUFFICES ASSUME FocusInv, PressInv, InjectNext PROVE PressInv'
  BY Zenon
<1>1. ASSUME UNCHANGED <<windowVars, deviceVars, hostVars>>, JobsOK', job'["outer"] = job["outer"]
      PROVE  PressInv'
  <2>1. HeldOK'
    BY <1>1, Zenon DEF PressInv, HeldOK, hostVars
  <2> QED BY <1>1, <2>1, OuterKeeps, Zenon DEF hostVars
<1>2. ASSUME NEW todo, NEW to, job' = [job EXCEPT !["control"] = [todo |-> todo, to |-> to]],
             todo \subseteq SdkEvent, UNCHANGED <<windowVars, deviceVars, hostVars>>
      PROVE  PressInv'
  <2>1. "control" \in Thread /\ "control" # "outer" /\ "outer" \in Thread
    BY Zenon DEF Thread
  <2>2. UNCHANGED <<held, lost>>
    BY <1>2, Zenon DEF hostVars
  <2>3. JobsOK' /\ job'["outer"] = job["outer"]
    BY <1>2, <2>1, <2>2, JobChanges, Zenon
  <2> QED BY <1>1, <1>2, <2>3, Zenon
<1>3. ASSUME NEW e \in SdkEvent, NEW w \in byId, InjectWindow(e, w) PROVE PressInv'
  BY <1>2, <1>3, Zenon DEF InjectWindow
<1>4. ASSUME NEW e \in SdkEvent, InjectFocused(e) PROVE PressInv'
  <2> DEFINE todo == {e}
             to == {}
  <2>1. job["control"] = Idle /\ job' = [job EXCEPT !["control"].todo = todo]
        /\ UNCHANGED <<windowVars, deviceVars, hostVars>>
    BY <1>4, Zenon DEF InjectFocused, Free, Start
  <2>2. job' = [job EXCEPT !["control"] = [todo |-> todo, to |-> to]]
    <3>1. [Idle EXCEPT !.todo = todo] = [todo |-> todo, to |-> to]
      BY DEF Idle
    <3> QED BY <2>1, <3>1, Zenon
  <2>3. todo \subseteq SdkEvent
    BY Zenon
  <2> HIDE DEF todo, to
  <2> QED BY <1>2, <2>1, <2>2, <2>3, Zenon
<1>5. ASSUME NEW t \in Thread, PickClient(t) PROVE PressInv'
  <2>1. PICK e \in job[t].todo :
          /\ job[t].to = {}
          /\ job' = [job EXCEPT ![t] = IF Live(focus)
                          THEN [todo |-> job[t].todo, to |-> {ClientOf(focus)}]
                          ELSE [todo |-> job[t].todo \ {e}, to |-> {}]]
          /\ UNCHANGED <<windowVars, deviceVars, hostVars>>
    BY <1>5, Zenon DEF PickClient
  <2> DEFINE todo == IF Live(focus) THEN job[t].todo ELSE job[t].todo \ {e}
             to == IF Live(focus) THEN {ClientOf(focus)} ELSE {}
  <2>2. job' = [job EXCEPT ![t] = [todo |-> todo, to |-> to]]
    BY <2>1, Zenon
  <2>3. t = "control" => todo \subseteq SdkEvent
    BY Zenon DEF PressInv, JobsOK
  <2>4. todo \subseteq job[t].todo /\ to \in {{}, {ClientOf(focus)}} /\ (focus \in byId => todo = job[t].todo)
    BY Zenon DEF Live
  <2> HIDE DEF todo, to
  <2>5. JobsOK' /\ job'[t] = [todo |-> todo, to |-> to] /\ \A u \in Thread \ {t} : job'[u] = job[u]
    <3>1. UNCHANGED <<held, lost>>
      BY <2>1, Zenon DEF hostVars
    <3>2. t = "outer" => todo \subseteq job["outer"].todo
      BY <2>4, Zenon
    <3> QED BY <2>2, <2>3, <3>1, <3>2, JobChanges, Zenon
  <2>6. CASE t = "control"
    <3>1. job'["outer"] = job["outer"]
      BY <2>5, <2>6, Zenon DEF Thread
    <3> QED BY <1>1, <2>1, <2>5, <3>1, Zenon
  <2>7. CASE t = "outer"
    <3>1. job'["outer"].todo = todo /\ job'["outer"].to = to
      BY <2>5, <2>7
    <3>2. HeldOK'
      BY <2>1, <2>4, <2>7, <3>1, Zenon DEF PressInv, HeldOK, hostVars
    <3>3. DownOK'
      BY <2>1, Zenon DEF PressInv, DownOK, deviceVars
    <3>4. ASSUME focus' \in byId', NEW d \in Devices(focus, windows)' PROVE Owed(d)' /\ Fresh(d)'
      <4>1. Owed(d) /\ focus \in byId
        BY <2>1, <3>4, Zenon DEF PressInv, Devices, windowVars, deviceVars
      <4>2. Owed(d)'
        <5>1. UNCHANGED <<down, held, lost>>
          BY <2>1, Zenon DEF deviceVars, hostVars
        <5>2. job'["outer"].todo = job["outer"].todo
          BY <2>4, <2>7, <3>1, <4>1, Zenon
        <5> QED BY <4>1, <5>1, <5>2, Zenon DEF Owed
      <4>3. Fresh(d)'
        BY <2>1, <2>4, <3>1, Zenon DEF Fresh, ClientOf, windowVars
      <4> QED BY <4>2, <4>3, Zenon
    <3> QED BY <2>5, <3>2, <3>3, <3>4, Zenon DEF PressInv
  <2> QED BY <2>6, <2>7, Zenon DEF Thread
<1>6. ASSUME NEW t \in Thread, NEW kind, Deliver(t, kind) PROVE PressInv'
  <2> DEFINE Reached == {d \in bound : Owner[d] \in job[t].to /\ Kind[d] = kind}
  <2>1. PICK e \in job[t].todo :
          /\ job[t].to # {} /\ CodeKind[e.code] = kind
          /\ down' = [d \in Device |-> IF d \notin Reached THEN down[d]
                         ELSE IF e.on THEN down[d] \cup {e.code} ELSE down[d] \ {e.code}]
          /\ job' = [job EXCEPT ![t] = [todo |-> job[t].todo \ {e}, to |-> {}]]
          /\ UNCHANGED <<windowVars, bound, at, hostVars>>
    BY <1>6, Zenon DEF Deliver
  <2>2. /\ UNCHANGED <<held, lost, windows, focus, byId, bound>>
        /\ Devices(focus, windows)' = Devices(focus, windows)
    BY <2>1, Zenon DEF hostVars, windowVars, Devices
  <2>3. JobsOK' /\ job'[t] = [todo |-> job[t].todo \ {e}, to |-> {}]
        /\ \A u \in Thread \ {t} : job'[u] = job[u]
    <3>1. t = "outer" => job[t].todo \ {e} \subseteq job["outer"].todo
      BY Zenon
    <3>2. t = "control" => job[t].todo \ {e} \subseteq SdkEvent
      BY Zenon DEF PressInv, JobsOK
    <3>3. UNCHANGED <<held, lost>>
      BY <2>2, Zenon
    <3> QED BY <2>1, <3>1, <3>2, <3>3, JobChanges, Zenon
  <2>4. e.code \in Code /\ (t = "control" => e.code \notin HostCode)
    <3>1. CASE t = "outer"
      BY <3>1, Zenon DEF PressInv, JobsOK
    <3>2. CASE t = "control"
      BY <3>2, SeatAssumption, Zenon DEF PressInv, JobsOK, Code
    <3> QED BY <3>1, <3>2, Zenon DEF Thread
  <2>5. DownOK'
    <3>1. \A d \in Device : d \in Reached => Kind[d] = kind
      BY Zenon
    <3> HIDE DEF Reached
    <3> QED BY <2>1, <2>4, <3>1, Zenon DEF PressInv, DownOK
  <2>6. CASE t = "control"
    <3>1. job'["outer"] = job["outer"]
      BY <2>3, <2>6, Zenon DEF Thread
    <3>2. \A d \in Device : down'[d] \cap HostCode = down[d] \cap HostCode
      <4> HIDE DEF Reached
      <4> QED BY <2>1, <2>4, <2>6, Zenon
    <3>3. HeldOK'
      <4>1. UNCHANGED <<view, inside, phys, held, lost>>
        BY <2>1, Zenon DEF hostVars
      <4> QED BY <3>1, <4>1, Zenon DEF PressInv, HeldOK, Of
    <3>4. ASSUME focus' \in byId', NEW d \in Devices(focus, windows)' PROVE Owed(d)' /\ Fresh(d)'
      <4>1. Owed(d) /\ Fresh(d) /\ d \in Device
        BY <2>2, <3>4, Zenon DEF PressInv, Devices, FocusInv
      <4>2. ClientOf(focus)' = ClientOf(focus)
        BY <2>2, Zenon DEF ClientOf
      <4> QED BY <2>2, <3>1, <3>2, <4>1, <4>2, Zenon DEF Owed, Fresh
    <3> QED BY <2>3, <2>5, <3>3, <3>4, Zenon DEF PressInv
  <2>7. CASE t = "outer"
    <3>1. job'["outer"].todo = job["outer"].todo \ {e} /\ job'["outer"].to = {}
      BY <2>3, <2>7
    <3>2. HeldOK'
      BY <2>1, <2>7, <3>1, Zenon DEF PressInv, HeldOK, hostVars
    <3>3. ASSUME focus' \in byId', NEW d \in Devices(focus, windows)' PROVE Owed(d)' /\ Fresh(d)'
      <4>1. /\ Owed(d) /\ Fresh(d) /\ d \in Device /\ d \in bound /\ Owner[d] = ClientOf(focus)
            /\ \A c \in down[d] : CodeKind[c] = Kind[d]
        BY <2>2, <3>3, Zenon DEF PressInv, Devices, FocusInv, DownOK, ClientOf
      <4>2. Fresh(d)'
        BY <3>1, Zenon DEF Fresh
      <4>3. CASE ClientOf(focus) \in job["outer"].to
        <5>1. d \in Reached <=> Kind[d] = kind
          BY <2>7, <4>1, <4>3, Zenon
        <5>2. e.on => e.code \in held \cup lost
          BY <2>7, Zenon DEF PressInv, JobsOK
        <5>3. ASSUME NEW x \in down'[d], x \in HostCode
              PROVE  x \in held \cup lost \cup Codes(job["outer"].todo \ {e})
          <6> HIDE DEF Reached
          <6>1. x \in down[d] \/ (e.on /\ x = e.code)
            BY <2>1, <4>1, <5>3, Zenon
          <6>2. CASE x = e.code
            BY <2>1, <4>1, <5>1, <5>2, <5>3, <6>1, <6>2, Zenon
          <6>3. CASE x # e.code
            <7>1. x \in down[d]
              BY <6>1, <6>3, Zenon
            <7>2. x \in held \cup lost \cup Codes(job["outer"].todo)
              BY <4>1, <5>3, <7>1, Zenon DEF Owed
            <7>3. x \in Codes(job["outer"].todo) => x \in Codes(job["outer"].todo \ {e})
              BY <6>3, Zenon DEF Codes
            <7> QED BY <7>2, <7>3, Zenon
          <6> QED BY <6>2, <6>3, Zenon
        <5>4. down'[d] \cap HostCode \subseteq held' \cup lost' \cup Codes(job'["outer"].todo)
          BY <2>2, <3>1, <5>3, Zenon
        <5> QED BY <4>2, <5>4, Zenon DEF Owed, Codes
      <4>4. CASE ClientOf(focus) \notin job["outer"].to
        <5>1. d \notin Reached
          BY <2>7, <4>1, <4>4, Zenon
        <5>2. down'[d] = down[d]
          BY <2>1, <4>1, <5>1, Zenon
        <5>3. down[d] \cap HostCode = {}
          BY <2>1, <2>7, <4>1, <4>4, Zenon DEF Fresh
        <5> QED BY <4>2, <5>2, <5>3, Zenon DEF Owed
      <4> QED BY <4>2, <4>3, <4>4, Zenon
    <3> QED BY <2>3, <2>5, <3>2, <3>3, Zenon DEF PressInv
  <2> QED BY <2>6, <2>7, Zenon DEF Thread
<1> QED
  BY <1>3, <1>4, <1>5, <1>6, Zenon DEF InjectNext, InjectKey, InjectPointer, InjectTouch

LEMMA PressStep == FocusInv /\ PressInv /\ [Next]_vars => PressInv'
<1>1. PressInv /\ UNCHANGED vars => PressInv'
  BY Zenon DEF PressInv, HeldOK, JobsOK, DownOK, Owed, Fresh, Devices, ClientOf, Codes,
         vars, windowVars, deviceVars, hostVars
<1> QED BY <1>1, CompositorPress, OuterPress, InjectPress, Zenon DEF Next

\* A host key or button that the focused client believes is pressed is held by
\* the bridge, on its way to be released, or was forgotten by a seat change, for
\* every interleaving of focus changes with the two steps of inject_key.
THEOREM PressedHeld == Spec => []PressedIsHeld
<1>1. Init => PressInv
  <2>1. job = [t \in Thread |-> Idle] /\ "outer" \in Thread /\ "control" \in Thread => JobsOK
    BY DEF JobsOK, Idle, Thread
  <2> QED BY <2>1 DEF Init, PressInv, HeldOK, DownOK, Idle, Thread, Of
<1>2. FocusInv /\ PressInv => PressedIsHeld
  BY Zenon DEF FocusInv, WindowsOK, PressInv, PressedIsHeld, Owed, Codes
<1> QED BY <1>1, <1>2, FocusInitially, FocusStep, PressStep, PTL DEF Spec
=============================================================================

---------------------------- MODULE SessionSeat ----------------------------
(* The seat of waymux-session: which windows exist, which one has the focus, *)
(* which wl_keyboard / wl_pointer of which client was told so, and how keys  *)
(* and buttons reach them from the host compositor (the outer view's         *)
(* InputBridge) and from the control socket.  Client requests run on the     *)
(* compositor thread; injection runs on the outer-view and control threads   *)
(* and takes each lock of State on its own.  Sources: state.rs, compositor.rs*)
(* input_bridge.rs and outer_view.rs of waymux-session.                      *)
EXTENDS Naturals, FiniteSets, FiniteSetsExt

CONSTANTS
    Client,      \* inner Wayland clients
    Device,      \* wl_keyboard, wl_pointer and wl_touch resources they may create
    Owner,       \* device -> its client
    Kind,        \* device -> "kbd", "ptr" or "touch"
    HostCode,    \* keys and buttons of the user's hardware
    SdkEvent,    \* [code, on] events injected over the control socket
    CodeKind,    \* code -> the kind of device that delivers it
    MaxWindow    \* bound on the windows ever created

Code == HostCode \cup {e.code : e \in SdkEvent}

ASSUME SeatAssumption ==
    /\ MaxWindow \in Nat /\ \A e \in SdkEvent : e.code \notin HostCode /\ e.on \in BOOLEAN
    /\ Owner \in [Device -> Client] /\ Kind \in [Device -> {"kbd", "ptr", "touch"}]
    /\ CodeKind \in [Code -> {"kbd", "ptr", "touch"}]
    /\ \A c \in HostCode : CodeKind[c] # "touch"

VARIABLES
    windows,  \* inner.windows: window id -> [client, role], for ids below next
    next,     \* next_window_id
    byId,     \* windows_by_id: the registered ids
    focus,    \* focused_window, 0 for None
    closing,  \* unregister_surface under way: [w, passes], passes = 0: none
    bound,    \* devices in the keyboards / pointers maps
    at,       \* device -> the window of the last enter it got, 0 after a leave
    down,     \* device -> codes its client believes are pressed
    view,     \* the outer view: "off", "on" or "leaving"
    inside,   \* kinds of host devices whose focus is on our surface
    phys,     \* what the user holds down
    held,     \* keys_held and buttons_held of the InputBridge
    lost,     \* (history) held keys forgotten by reset_for_seat_change
    job       \* thread -> inject_key / inject_pointer under way: [todo, to]

windowVars == <<windows, next, byId, focus, closing>>
deviceVars == <<bound, at, down>>
hostVars == <<view, inside, phys, held, lost>>
vars == <<windowVars, deviceVars, hostVars, job>>

Window == 1..MaxWindow
Thread == {"outer", "control"}
Idle == [todo |-> {}, to |-> {}]
Event(c, on) == [code |-> c, on |-> on]
Of(kind, codes) == {c \in codes : CodeKind[c] = kind}
NotClosing == closing.passes = 0
Live(w) == w \in byId
ClientOf(w) == windows[w].client

TypeOK ==
    /\ next \in 1..(MaxWindow + 1) /\ DOMAIN windows \subseteq 1..(next - 1)
    /\ byId \subseteq 1..(next - 1) /\ focus \in 0..(next - 1)
    /\ bound \subseteq Device /\ at \in [Device -> 0..MaxWindow]
    /\ down \in [Device -> SUBSET Code]
    /\ view \in {"off", "on", "leaving"} /\ held \cup lost \cup phys \subseteq HostCode
    /\ \A t \in Thread : Cardinality(job[t].to) <= 1

Init ==
    /\ windows = [w \in {} |-> 0] /\ next = 1 /\ byId = {} /\ focus = 0
    /\ closing = [w |-> 0, passes |-> 0]
    /\ bound = {} /\ at = [d \in Device |-> 0] /\ down = [d \in Device |-> {}]
    /\ view = "off" /\ inside = {} /\ phys = {} /\ held = {} /\ lost = {}
    /\ job = [t \in Thread |-> Idle]

-----------------------------------------------------------------------------
(* The compositor thread.                                                    *)

\* The wl_keyboard and wl_pointer resources of w's client; wl_touch has no focus.
Devices(w, W) == {d \in bound : Owner[d] = W[w].client /\ Kind[d] # "touch"}

\* send_enter(w): the enter carries no pressed keys, so the client starts from none.
SendEnter(w, W, A, D) ==
    /\ at' = [d \in Device |-> IF d \in Devices(w, W) THEN w ELSE A[d]]
    /\ down' = [d \in Device |-> IF d \in Devices(w, W) THEN {} ELSE D[d]]

\* send_leave(w) on a given state of the devices.
LeftAt(w) == [d \in Device |-> IF d \in Devices(w, windows) THEN 0 ELSE at[d]]
LeftDown(w) == [d \in Device |-> IF d \in Devices(w, windows) THEN {} ELSE down[d]]

\* add_window.
AddWindow(c, role) ==
    [v \in DOMAIN windows \cup {next} |-> IF v = next THEN [client |-> c, role |-> role] ELSE windows[v]]

\* remove_window.
RemoveWindow(w) == [v \in DOMAIN windows \ {w} |-> windows[v]]

\* register_surface: the new window takes the focus.
RegisterSurface(w, W) ==
    /\ byId' = byId \cup {w} /\ focus' = w
    /\ IF focus \in byId THEN SendEnter(w, W, LeftAt(focus), LeftDown(focus))
                         ELSE SendEnter(w, W, at, down)

\* register_surface_no_focus: panels, docks and wallpapers.
RegisterSurfaceNoFocus(w) == byId' = byId \cup {w} /\ UNCHANGED <<focus, at, down>>

\* xdg_surface.get_toplevel.
GetToplevel(c) ==
    /\ NotClosing /\ next <= MaxWindow /\ next' = next + 1
    /\ windows' = AddWindow(c, "toplevel") /\ RegisterSurface(next, windows')
    /\ UNCHANGED <<closing, bound, hostVars, job>>

\* The first commit of a layer surface; keyboard_interactivity 1 is exclusive.
CommitLayer(c, role) ==
    /\ NotClosing /\ next <= MaxWindow /\ next' = next + 1
    /\ windows' = AddWindow(c, role)
    /\ IF role = "exclusive" THEN RegisterSurface(next, windows') ELSE RegisterSurfaceNoFocus(next)
    /\ UNCHANGED <<closing, bound, hostVars, job>>

\* unregister_surface drops the id.  A toplevel's Destroy request runs it, and
\* the destroyed callback after it runs it again; a disconnect, and a layer
\* surface (which takes its id), only once.
Close(w, passes) ==
    /\ NotClosing /\ w \in byId /\ passes \in 1..(IF windows[w].role = "toplevel" THEN 2 ELSE 1)
    /\ byId' = byId \ {w} /\ closing' = [w |-> w, passes |-> passes]
    /\ UNCHANGED <<windows, next, focus, deviceVars, hostVars, job>>

Heir == IF byId = {} THEN 0 ELSE Max(byId)
NewFocus == IF focus = closing.w THEN Heir ELSE focus

\* Mutant: unregister_surface sends no enter to the window that gets the focus.
RefocusSilently ==
    /\ closing.passes > 0 /\ focus' = NewFocus
    /\ windows' = RemoveWindow(closing.w)
    /\ closing' = [closing EXCEPT !.passes = @ - 1]
    /\ UNCHANGED <<next, byId, deviceVars, hostVars, job>>

\* Mutant: the focus stays on the window that was closed.
RefocusKeeps ==
    /\ closing.passes > 0 /\ windows' = RemoveWindow(closing.w)
    /\ closing' = [closing EXCEPT !.passes = @ - 1]
    /\ UNCHANGED <<next, byId, focus, deviceVars, hostVars, job>>

\* The rest of unregister_surface: the highest remaining id gets the focus of a
\* window that had it; whoever has it now is sent an enter.  Then remove_window.
Refocus ==
    /\ closing.passes > 0 /\ focus' = NewFocus
    /\ IF NewFocus \in byId THEN SendEnter(NewFocus, windows, at, down) ELSE UNCHANGED <<at, down>>
    /\ windows' = RemoveWindow(closing.w)
    /\ closing' = [closing EXCEPT !.passes = @ - 1]
    /\ UNCHANGED <<next, byId, bound, hostVars, job>>

\* Mutant: a device bound while its window has the focus gets no enter.
GetDeviceLate(d) ==
    /\ NotClosing /\ d \notin bound /\ bound' = bound \cup {d}
    /\ at' = [at EXCEPT ![d] = 0] /\ down' = [down EXCEPT ![d] = {}]
    /\ UNCHANGED <<windowVars, hostVars, job>>

\* wl_seat.get_keyboard / get_pointer / get_touch: a late binder of the first two
\* is sent the enter it missed.
GetDevice(d) ==
    /\ NotClosing /\ d \notin bound /\ bound' = bound \cup {d}
    /\ at' = [at EXCEPT ![d] = IF /\ Kind[d] # "touch" /\ Live(focus)
                                      /\ ClientOf(focus) = Owner[d] THEN focus ELSE 0]
    /\ down' = [down EXCEPT ![d] = {}]
    /\ UNCHANGED <<windowVars, hostVars, job>>

\* The resource is destroyed: unregister_keyboard / _pointer / _touch.
DropDevice(d) ==
    /\ NotClosing /\ d \in bound /\ bound' = bound \ {d}
    /\ at' = [at EXCEPT ![d] = 0] /\ down' = [down EXCEPT ![d] = {}]
    /\ UNCHANGED <<windowVars, hostVars, job>>

-----------------------------------------------------------------------------
(* The outer-view thread: events of the host compositor, one at a time.      *)

Free(t) == job[t] = Idle
Start(t, events) == job' = [job EXCEPT ![t].todo = events]
Releases(codes) == {Event(c, FALSE) : c \in codes}

Attach ==
    /\ view = "off" /\ view' = "on" /\ inside' = {} /\ held' = {}
    /\ UNCHANGED <<windowVars, deviceVars, phys, lost, job>>

\* on_keyboard_enter takes over the keys that are down.
OnKeyboardEnter ==
    /\ view = "on" /\ Free("outer") /\ "kbd" \notin inside /\ inside' = inside \cup {"kbd"}
    /\ held' = Of("ptr", held) \cup Of("kbd", phys) /\ lost' = lost \ phys
    /\ UNCHANGED <<windowVars, deviceVars, view, phys, job>>

\* wl_pointer.enter only sets the host's cursor image.
OnPointerEnter ==
    /\ view = "on" /\ Free("outer") /\ "ptr" \notin inside /\ inside' = inside \cup {"ptr"}
    /\ UNCHANGED <<windowVars, deviceVars, view, phys, held, lost, job>>

\* Mutant: leaving forgets the held keys instead of releasing them.
OnKeyboardLeaveForgets ==
    /\ view = "on" /\ Free("outer") /\ "kbd" \in inside /\ inside' = inside \ {"kbd"}
    /\ held' = Of("ptr", held)
    /\ UNCHANGED <<windowVars, deviceVars, view, phys, lost, job>>

\* on_keyboard_leave releases every held key.
OnKeyboardLeave ==
    /\ view = "on" /\ Free("outer") /\ "kbd" \in inside /\ inside' = inside \ {"kbd"}
    /\ held' = Of("ptr", held) /\ Start("outer", Releases(Of("kbd", held)))
    /\ UNCHANGED <<windowVars, deviceVars, view, phys, lost>>

\* on_pointer_leave releases every held button.
OnPointerLeave ==
    /\ view = "on" /\ Free("outer") /\ "ptr" \in inside /\ inside' = inside \ {"ptr"}
    /\ held' = Of("kbd", held) /\ Start("outer", Releases(Of("ptr", held)))
    /\ UNCHANGED <<windowVars, deviceVars, view, phys, lost>>

\* The user presses or releases c while the host's focus is on us:
\* on_keyboard_key / on_pointer_button update the held set, then inject.
OnCode(c) ==
    LET on == c \notin phys
    IN  /\ view = "on" /\ CodeKind[c] \in inside /\ Free("outer")
        /\ phys' = IF on THEN phys \cup {c} ELSE phys \ {c}
        /\ held' = IF on THEN held \cup {c} ELSE held \ {c}
        /\ lost' = lost \ {c} /\ Start("outer", {Event(c, on)})
        /\ UNCHANGED <<windowVars, deviceVars, view, inside>>
OnKeyboardKey(c) == CodeKind[c] = "kbd" /\ OnCode(c)
OnPointerButton(c) == CodeKind[c] = "ptr" /\ OnCode(c)

\* The user presses or releases c while another surface of the host has the focus.
Elsewhere(c) ==
    /\ ~(view = "on" /\ CodeKind[c] \in inside)
    /\ phys' = IF c \in phys THEN phys \ {c} ELSE phys \cup {c}
    /\ UNCHANGED <<windowVars, deviceVars, view, inside, held, lost, job>>

\* wl_seat.capabilities: the proxies are rebound and reset_for_seat_change
\* clears keys_held; the host will send its enters again.
SeatChange ==
    /\ view = "on" /\ Free("outer") /\ inside # {} /\ inside' = {}
    /\ held' = Of("ptr", held) /\ lost' = lost \cup Of("kbd", held)
    /\ UNCHANGED <<windowVars, deviceVars, view, phys, job>>

\* The loop ends: both leave handlers run before the surface is destroyed.
Detach ==
    /\ view = "on" /\ Free("outer") /\ view' = "leaving" /\ inside' = {}
    /\ held' = {} /\ Start("outer", Releases(held))
    /\ UNCHANGED <<windowVars, deviceVars, phys, lost>>

Detached ==
    /\ view = "leaving" /\ Free("outer") /\ view' = "off"
    /\ UNCHANGED <<windowVars, deviceVars, inside, phys, held, lost, job>>

-----------------------------------------------------------------------------
(* inject_key, inject_pointer and inject_touch, on either thread.            *)

\* A control request for the focused window, or (pointer and touch) for window w.
InjectFocused(e) ==
    /\ Free("control") /\ Start("control", {e})
    /\ UNCHANGED <<windowVars, deviceVars, hostVars>>
InjectWindow(e, w) ==
    /\ Free("control") /\ CodeKind[e.code] # "kbd" /\ Live(w)
    /\ job' = [job EXCEPT !["control"] = [todo |-> {e}, to |-> {ClientOf(w)}]]
    /\ UNCHANGED <<windowVars, deviceVars, hostVars>>

\* Read focused_window, then the window's client; without one the event is dropped.
PickClient(t) ==
    \E e \in job[t].todo :
        /\ job[t].to = {}
        /\ job' = [job EXCEPT ![t] = IF Live(focus)
                        THEN [todo |-> job[t].todo, to |-> {ClientOf(focus)}]
                        ELSE [todo |-> job[t].todo \ {e}, to |-> {}]]
        /\ UNCHANGED <<windowVars, deviceVars, hostVars>>

\* Send one event to the client's devices of its kind, whoever has the focus now.
Deliver(t, kind) ==
    \E e \in job[t].todo :
        /\ job[t].to # {} /\ CodeKind[e.code] = kind
        /\ LET to == {d \in bound : Owner[d] \in job[t].to /\ Kind[d] = kind}
           IN down' = [d \in Device |-> IF d \notin to THEN down[d]
                         ELSE IF e.on THEN down[d] \cup {e.code} ELSE down[d] \ {e.code}]
        /\ job' = [job EXCEPT ![t] = [todo |-> job[t].todo \ {e}, to |-> {}]]
        /\ UNCHANGED <<windowVars, bound, at, hostVars>>
InjectKey(t) == Deliver(t, "kbd")
InjectPointer(t) == Deliver(t, "ptr")
InjectTouch(t) == Deliver(t, "touch")

CompositorNext ==
    \/ \E c \in Client : GetToplevel(c)
    \/ \E c \in Client, r \in {"panel", "exclusive"} : CommitLayer(c, r)
    \/ \E w \in byId, n \in 1..2 : Close(w, n)
    \/ Refocus
    \/ \E d \in Device : GetDevice(d)
    \/ \E d \in Device : DropDevice(d)
OuterNext ==
    \/ Attach \/ SeatChange \/ Detach \/ Detached
    \/ OnKeyboardEnter \/ OnPointerEnter \/ OnKeyboardLeave \/ OnPointerLeave
    \/ \E c \in HostCode : OnKeyboardKey(c)
    \/ \E c \in HostCode : OnPointerButton(c)
    \/ \E c \in HostCode : Elsewhere(c)
InjectNext ==
    \/ \E e \in SdkEvent : InjectFocused(e)
    \/ \E e \in SdkEvent, w \in byId : InjectWindow(e, w)
    \/ \E t \in Thread : PickClient(t)
    \/ \E t \in Thread : InjectKey(t)
    \/ \E t \in Thread : InjectPointer(t)
    \/ \E t \in Thread : InjectTouch(t)

Next == CompositorNext \/ OuterNext \/ InjectNext

Spec == Init /\ [][Next]_vars

-----------------------------------------------------------------------------
\* Outside unregister_surface the focus is a registered window, and no focus
\* means that only panels (register_surface_no_focus) were ever left: an
\* injected event is never dropped while a window could take it.
FocusIsRegistered ==
    NotClosing => /\ focus # 0 => focus \in byId
                  /\ focus = 0 => \A w \in byId : windows[w].role = "panel"

\* Every device of the focused window's client has been told that this window,
\* and no other, has the focus: register_surface, unregister_surface and the
\* late-binder branch of register_keyboard / register_pointer together miss none.
DevicesFollowFocus ==
    (NotClosing /\ focus # 0) => \A d \in Devices(focus, windows) : at[d] = focus

\* However windows come, close and change, the focus is a window that is there
\* and the devices of its client know it.
FocusIsFollowed == FocusIsRegistered /\ DevicesFollowFocus

\* A host key or button that the focused client believes is pressed is one the
\* bridge will still release: it is held, its release is on its way, or a seat
\* change dropped it.  However focus changes, late binders and the unlocked gap
\* inside inject_key interleave, nothing else strands a key.
PressedIsHeld ==
    (NotClosing /\ focus # 0) => \A d \in Devices(focus, windows) :
        down[d] \cap HostCode \subseteq held \cup lost \cup {e.code : e \in job["outer"].todo}

\* outer_view.rs says that the inner session never has stuck input once the view
\* is gone, whichever way it went.
NoStuckInput ==
    (view = "off" /\ NotClosing /\ focus # 0) => \A d \in Devices(focus, windows) : down[d] \cap HostCode = {}

\* state.rs says that panels never steal the focus from xdg_toplevels.
PanelNeverStealsFocus ==
    (NotClosing /\ focus # 0 /\ windows[focus].role = "panel") =>
        \A w \in byId : windows[w].role # "toplevel"
=============================================================================

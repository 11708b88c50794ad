------------------------------ MODULE InputGrab ------------------------------
(* Pointer locks and shortcut inhibitors.  Inner clients ask the session for  *)
(* them (compositor.rs); the outer-view thread asks the host for one of each  *)
(* on their behalf (input_bridge.rs, driven by the loop of outer_view.rs).    *)
(* The host executes requests in order and drops events for objects that are  *)
(* gone, as the Wayland protocol says.                                        *)
EXTENDS Naturals, Sequences

CONSTANTS
    Client,      \* inner clients; each holds at most one lock and one inhibitor
    MaxCount,    \* bound on pointer_lock_count
    MaxEvents    \* bound on the host's events in flight

VARIABLES
    locks,       \* clients with a live zwp_locked_pointer_v1
    inhibits,    \* clients with a live zwp_keyboard_shortcuts_inhibitor_v1
    lockCount,   \* State.pointer_lock_count
    anyInhibit,  \* State.any_shortcuts_inhibited
    bridge,      \* the InputBridge of the attached view: [has, lockState, holds].  has:
                 \* the view itself, a wl_pointer, the host's globals; holds: which of
                 \* active_lock, active_relative and outer_inhibitor are Some
    grabs,       \* what the host holds for us: [lock, relative, inhibitor], counts
    granted,     \* the host's lock is active
    inbox        \* events of the lock object in flight to the view

clientSide == <<locks, inhibits, lockCount, anyInhibit>>
grabVars == <<clientSide, bridge, grabs, granted, inbox>>

Globals == {"inhibit", "constraints", "relative"}
NoBridge == [has |-> {}, lockState |-> "Unlocked", holds |-> {}]
Up == "view" \in bridge.has
NoGrabs == [lock |-> 0, relative |-> 0, inhibitor |-> 0]

GrabInit ==
    /\ locks = {} /\ inhibits = {} /\ lockCount = 0 /\ anyInhibit = FALSE
    /\ bridge = NoBridge /\ grabs = NoGrabs /\ granted = FALSE /\ inbox = <<>>

-----------------------------------------------------------------------------
(* The compositor thread, for inner clients.                                  *)

LockPointer(c) ==
    /\ c \notin locks /\ lockCount < MaxCount
    /\ locks' = locks \cup {c} /\ lockCount' = lockCount + 1
    /\ UNCHANGED <<inhibits, anyInhibit, bridge, grabs, granted, inbox>>

\* zwp_locked_pointer_v1.destroy.
DestroyLock(c) ==
    /\ c \in locks /\ locks' = locks \ {c}
    /\ lockCount' = lockCount - 1
    /\ UNCHANGED <<inhibits, anyInhibit, bridge, grabs, granted, inbox>>

InhibitShortcuts(c) ==
    /\ c \notin inhibits /\ inhibits' = inhibits \cup {c}
    /\ anyInhibit' = TRUE
    /\ UNCHANGED <<locks, lockCount, bridge, grabs, granted, inbox>>

\* The inhibitor's destroyed() callback clears the one flag of the session.
InhibitorDestroyed(c) ==
    /\ c \in inhibits /\ inhibits' = inhibits \ {c}
    /\ anyInhibit' = FALSE
    /\ UNCHANGED <<locks, lockCount, bridge, grabs, granted, inbox>>

\* The client goes away without destroying its objects.  Only the inhibitor has
\* a destroyed() callback; the lock's count is taken back by a request alone.
Disconnect(c) ==
    /\ c \in locks \cup inhibits
    /\ locks' = locks \ {c} /\ inhibits' = inhibits \ {c}
    /\ anyInhibit' = (anyInhibit /\ c \notin inhibits)
    /\ UNCHANGED <<lockCount, bridge, grabs, granted, inbox>>

-----------------------------------------------------------------------------
(* The outer-view thread.                                                     *)

\* OuterState is built with a fresh InputBridge, over the globals the host has.
BridgeStarts ==
    /\ ~Up
    /\ \E can \in SUBSET (Globals \cup {"pointer"}) : bridge' = [NoBridge EXCEPT !.has = {"view"} \cup can]
    /\ UNCHANGED <<clientSide, grabs, granted, inbox>>

\* update_inhibitor: the new handle and the host's count.
UpdateInhibitor(want) ==
    LET held == "inhibitor" \in bridge.holds
        may == "inhibit" \in bridge.has
    IN  [handle |-> IF want /\ (held \/ may) THEN {"inhibitor"} ELSE {},
         count |-> IF want /\ ~held /\ may THEN grabs.inhibitor + 1
                   ELSE IF ~want /\ held THEN grabs.inhibitor - 1
                   ELSE grabs.inhibitor]

CanLock == {"pointer", "constraints"} \subseteq bridge.has
LockHandle == bridge.holds \cap {"lock"}

\* Mutant: a suspended lock is taken for one that the host already dropped.
UpdateLockOnlyActive(want) ==
    IF bridge.lockState = "Unlocked" /\ want /\ CanLock
    THEN [state |-> "Requesting", handle |-> {"lock"}, count |-> grabs.lock + 1]
    ELSE IF bridge.lockState \in {"Requesting", "Active"} /\ ~want
    THEN [state |-> "Unlocked", handle |-> {}, count |-> grabs.lock - 1]
    ELSE [state |-> bridge.lockState, handle |-> LockHandle, count |-> grabs.lock]

\* update_lock: the new lock_state, active_lock and the host's count.
UpdateLock(want) ==
    IF bridge.lockState = "Unlocked" /\ want /\ CanLock
    THEN [state |-> "Requesting", handle |-> {"lock"}, count |-> grabs.lock + 1]
    ELSE IF bridge.lockState # "Unlocked" /\ ~want
    THEN [state |-> "Unlocked", handle |-> {},
          count |-> IF LockHandle = {} THEN grabs.lock ELSE grabs.lock - 1]
    ELSE [state |-> bridge.lockState, handle |-> LockHandle, count |-> grabs.lock]

\* One iteration of the view's loop; a destroyed lock takes its events with it.
Iterate ==
    /\ Up
    /\ LET lock == UpdateLock(lockCount > 0)
           inhibitor == UpdateInhibitor(anyInhibit \/ lockCount > 0)
       IN  /\ bridge' = [bridge EXCEPT !.lockState = lock.state,
                              !.holds = (@ \cap {"relative"}) \cup lock.handle \cup inhibitor.handle]
           /\ grabs' = [grabs EXCEPT !.lock = lock.count, !.inhibitor = inhibitor.count]
           /\ granted' = (granted /\ lock.handle # {})
           /\ inbox' = IF lock.handle # {} THEN inbox ELSE <<>>
    /\ UNCHANGED clientSide

\* on_niri_locked: the first grant of a request subscribes to relative motion
\* unless an earlier grant did; a suspended lock just resumes.
OnNiriLocked ==
    /\ Up /\ inbox # <<>> /\ Head(inbox) = "locked" /\ inbox' = Tail(inbox)
    /\ LET subscribe == /\ bridge.lockState = "Requesting" /\ "relative" \notin bridge.holds
                        /\ {"pointer", "relative"} \subseteq bridge.has
       IN  /\ bridge' = [bridge EXCEPT !.holds = IF subscribe THEN @ \cup {"relative"} ELSE @,
                             !.lockState = IF @ \in {"Requesting", "Suspended"} THEN "Active" ELSE @]
           /\ grabs' = IF subscribe THEN [grabs EXCEPT !.relative = @ + 1] ELSE grabs
    /\ UNCHANGED <<clientSide, granted>>

OnNiriUnlocked ==
    /\ Up /\ inbox # <<>> /\ Head(inbox) = "unlocked" /\ inbox' = Tail(inbox)
    /\ bridge' = [bridge EXCEPT !.lockState = IF @ = "Active" THEN "Suspended" ELSE @]
    /\ UNCHANGED <<clientSide, grabs, granted>>

\* Mutant: the inhibitor's proxy is dropped, not destroyed.
ResetForSeatChangeDrops(rebound) ==
    /\ bridge' = [rebound EXCEPT !.holds = @ \ {"inhibitor"}]
    /\ UNCHANGED grabs

\* reset_for_seat_change: the inhibitor is destroyed, lock and relative pointer stay.
ResetForSeatChange(rebound) ==
    /\ bridge' = [rebound EXCEPT !.holds = @ \ {"inhibitor"}]
    /\ grabs' = [grabs EXCEPT !.inhibitor = IF "inhibitor" \in bridge.holds THEN @ - 1 ELSE @]

\* wl_seat.capabilities: the input proxies are released and bound again.
Capabilities ==
    /\ Up
    /\ \E pointer \in SUBSET {"pointer"} :
          ResetForSeatChange([bridge EXCEPT !.has = (@ \ {"pointer"}) \cup pointer])
    /\ UNCHANGED <<clientSide, granted, inbox>>

\* The loop ends: cleanup() destroys what is held before the surface goes.
BridgeCleanup ==
    /\ Up /\ bridge' = NoBridge
    /\ grabs' = [g \in DOMAIN grabs |-> IF g \in bridge.holds THEN grabs[g] - 1 ELSE grabs[g]]
    /\ granted' = FALSE /\ inbox' = <<>>
    /\ UNCHANGED clientSide

-----------------------------------------------------------------------------
(* The host compositor.                                                       *)

HostGrants ==
    /\ grabs.lock > 0 /\ ~granted /\ Len(inbox) < MaxEvents
    /\ granted' = TRUE /\ inbox' = Append(inbox, "locked")
    /\ UNCHANGED <<clientSide, bridge, grabs>>

\* The pointer leaves the surface; the constraint is persistent.
HostSuspends ==
    /\ granted /\ Len(inbox) < MaxEvents
    /\ granted' = FALSE /\ inbox' = Append(inbox, "unlocked")
    /\ UNCHANGED <<clientSide, bridge, grabs>>

GrabNext ==
    \/ \E c \in Client : \/ LockPointer(c) \/ DestroyLock(c) \/ Disconnect(c)
                         \/ InhibitShortcuts(c) \/ InhibitorDestroyed(c)
    \/ BridgeStarts \/ Iterate \/ OnNiriLocked \/ OnNiriUnlocked \/ Capabilities \/ BridgeCleanup
    \/ HostGrants \/ HostSuspends

\* The loop's poll has a timeout of one second, and it dispatches what it read.
GrabFairness == WF_grabVars(Iterate) /\ WF_grabVars(OnNiriLocked) /\ WF_grabVars(OnNiriUnlocked)

GrabSpec == GrabInit /\ [][GrabNext]_grabVars /\ GrabFairness

-----------------------------------------------------------------------------
(* Properties.                                                                *)

\* The host holds exactly the objects the bridge still has a handle to, never two
\* of a kind: a second lock is already_constrained and a second inhibitor
\* already_inhibited, which kill the connection, and an object without a handle
\* keeps the host's shortcuts or pointer grabbed with no way to let go.
GrabsAreOwned ==
    /\ \A g \in DOMAIN grabs : grabs[g] = IF g \in bridge.holds THEN 1 ELSE 0
    /\ "lock" \in bridge.holds <=> bridge.lockState # "Unlocked"

\* The host's grabs follow the session's wishes: a lock or an inhibitor nobody wants
\* is given back, from whatever state the lock is in; a wanted lock is asked for; and
\* a lock the host keeps granted ends up Active, suspensions in between included.
GrabsFollow ==
    /\ []<>(lockCount = 0 => grabs.lock = 0 /\ (grabs.inhibitor = 0 \/ anyInhibit))
    /\ []<>(Up /\ lockCount > 0 /\ CanLock => grabs.lock = 1)
    /\ []<>(granted => bridge.lockState = "Active")

\* Refuted.  pointer_lock_count is "Number of active zwp_locked_pointer_v1 objects held
\* by inner clients": a client that dies with a lock leaves its count behind.
CountIsLocks == lockCount = 0 <=> locks = {}

\* Refuted.  any_shortcuts_inhibited is "Set when any inner surface has requested
\* keyboard shortcuts inhibition": the first of two inhibitors to go clears it.
AnyMeansAny == anyInhibit <=> inhibits # {}
=============================================================================

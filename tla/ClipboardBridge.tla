--------------------------- MODULE ClipboardBridge ---------------------------
(* The clipboard of a session created with share_clipboard.  Inner -> outer:  *)
(* set_selection of an inner client is offered to the host by the outer view  *)
(* as a data source of its own.  Outer -> inner: a selection of the host is   *)
(* fetched by a detached thread per event, stored in State and offered to the *)
(* inner clients by the compositor thread.  A selection is the number of its  *)
(* copy: 1..MaxInner inside the session, above that in the host's other       *)
(* applications.  Sources: outer_view.rs, compositor.rs and state.rs.         *)
EXTENDS Naturals, Sequences

CONSTANTS
    MaxInner,    \* bound on the copies made inside the session
    MaxHost      \* bound on the copies made in the host's other applications

VARIABLES
    copies,      \* copies made so far: [inner, host]
    selected,    \* State.inner_selection: the copy, 0 for None
    outer,       \* the view's OuterState: [up, moved, source]; moved: State's
                 \* inner_selection_version differs from inner_sel_version; source: the
                 \* copy _outer_source was made for, 0 for None
    hostSel,     \* the host's selection: [by, copy], by: "none", "us", "app"
    events,      \* the host's events in flight to the view: [kind, copy]
    fetching,    \* the copies that waymux-clipboard-recv threads read
    content,     \* State.outer_clipboard, 0 for None
    storing,     \* threads between the two statements of set_outer_clipboard
    fresh,       \* State.outer_clipboard_version differs from LAST_SENT
    draining,    \* drain_clipboard is past its look at the version
    offered      \* what the inner clients were offered last

hostSide == <<hostSel, events>>
fetchSide == <<fetching, content, storing>>
clipVars == <<copies, selected, outer, hostSide, fetchSide, fresh, draining, offered>>

Copy == 1..(MaxInner + MaxHost)

ClipInit ==
    /\ copies = [inner |-> 0, host |-> 0] /\ selected = 0
    /\ outer = [up |-> FALSE, moved |-> FALSE, source |-> 0]
    /\ hostSel = [by |-> "none", copy |-> 0] /\ events = <<>>
    /\ fetching = {} /\ content = 0 /\ storing = {}
    /\ fresh = FALSE /\ draining = FALSE /\ offered = 0

-----------------------------------------------------------------------------
(* Inner clients, through the compositor thread.                              *)

\* set_inner_selection.
SetSelection ==
    /\ copies.inner < MaxInner
    /\ copies' = [copies EXCEPT !.inner = @ + 1]
    /\ selected' = copies.inner + 1 /\ outer' = [outer EXCEPT !.moved = TRUE]
    /\ UNCHANGED <<hostSide, fetchSide, fresh, draining, offered>>

\* clear_inner_selection, for set_selection without a source.
ClearSelection ==
    /\ selected # 0 /\ selected' = 0 /\ outer' = [outer EXCEPT !.moved = TRUE]
    /\ UNCHANGED <<copies, hostSide, fetchSide, fresh, draining, offered>>

-----------------------------------------------------------------------------
(* The host.                                                                  *)

\* The host's selection becomes sel; the source it replaces is cancelled.
Select(sel) ==
    /\ hostSel' = sel
    /\ events' = IF hostSel.by = "us" THEN Append(events, [kind |-> "cancelled", copy |-> hostSel.copy])
                 ELSE events

\* Another application copies.
HostCopies ==
    /\ copies.host < MaxHost
    /\ copies' = [copies EXCEPT !.host = @ + 1]
    /\ Select([by |-> "app", copy |-> MaxInner + copies.host + 1])
    /\ UNCHANGED <<selected, outer, fetchSide, fresh, draining, offered>>

\* Our surface has the focus: the host announces the selection, our own included.
\* Bound: not a copy that is already on its way.
HostAnnounces ==
    /\ outer.up /\ hostSel.by # "none"
    /\ LET e == [kind |-> "selection", copy |-> hostSel.copy]
       IN  /\ \A i \in DOMAIN events : events[i] # e
           /\ hostSel.copy \notin fetching \cup storing \cup {content}
           /\ events' = Append(events, e)
    /\ UNCHANGED <<copies, selected, outer, hostSel, fetchSide, fresh, draining, offered>>

-----------------------------------------------------------------------------
(* The outer-view thread.                                                     *)

ViewAttaches ==
    /\ ~outer.up /\ outer' = [up |-> TRUE, moved |-> copies.inner > 0, source |-> 0]
    /\ UNCHANGED <<copies, selected, hostSide, fetchSide, fresh, draining, offered>>

\* The connection closes and takes our sources and events with it.
ViewDetaches ==
    /\ outer.up /\ outer' = [outer EXCEPT !.up = FALSE]
    /\ hostSel' = IF hostSel.by = "us" THEN [by |-> "none", copy |-> 0] ELSE hostSel
    /\ events' = <<>>
    /\ UNCHANGED <<copies, selected, fetchSide, fresh, draining, offered>>

\* The loop's bridge from inner to outer: a version it has not seen offers the
\* selection, or withdraws the source it still has.
OfferSelection ==
    /\ outer.up /\ outer.moved
    /\ outer' = [outer EXCEPT !.moved = FALSE, !.source = selected]
    /\ IF selected # 0 THEN Select([by |-> "us", copy |-> selected])
       ELSE IF outer.source # 0 THEN Select([by |-> "none", copy |-> 0])
       ELSE UNCHANGED hostSide
    /\ UNCHANGED <<copies, selected, fetchSide, fresh, draining, offered>>

\* wl_data_source.cancelled, of whichever of our sources.
Cancelled ==
    /\ outer.up /\ events # <<>> /\ Head(events).kind = "cancelled" /\ events' = Tail(events)
    /\ selected' = 0 /\ outer' = [outer EXCEPT !.moved = TRUE, !.source = 0]
    /\ UNCHANGED <<copies, hostSel, fetchSide, fresh, draining, offered>>

\* wl_data_device.selection: a thread of its own reads the pipe.
FetchStarts ==
    /\ outer.up /\ events # <<>> /\ Head(events).kind = "selection" /\ events' = Tail(events)
    /\ fetching' = fetching \cup {Head(events).copy}
    /\ UNCHANGED <<copies, selected, outer, hostSel, content, storing, fresh, draining, offered>>

-----------------------------------------------------------------------------
(* The receiving threads and the compositor thread.                           *)

\* Mutant: the version is bumped before the content is stored.
SetOuterClipboardBumpsFirst(k) ==
    \/ /\ k \in fetching /\ fetching' = fetching \ {k} /\ storing' = storing \cup {k}
       /\ fresh' = TRUE /\ UNCHANGED content
    \/ /\ k \in storing /\ storing' = storing \ {k}
       /\ content' = k /\ UNCHANGED <<fetching, fresh>>

\* set_outer_clipboard, at the end of the pipe: the content, then the version.
SetOuterClipboard(k) ==
    \/ /\ k \in fetching /\ fetching' = fetching \ {k} /\ storing' = storing \cup {k}
       /\ content' = k /\ UNCHANGED fresh
    \/ /\ k \in storing /\ storing' = storing \ {k}
       /\ fresh' = TRUE /\ UNCHANGED <<fetching, content>>

Fetched(k) ==
    /\ SetOuterClipboard(k)
    /\ UNCHANGED <<copies, selected, outer, hostSide, draining, offered>>

\* drain_clipboard sees a version it has not sent and remembers it ...
DrainVersion ==
    /\ ~draining /\ fresh
    /\ draining' = TRUE /\ fresh' = FALSE
    /\ UNCHANGED <<copies, selected, outer, hostSide, fetchSide, offered>>

\* ... then takes the content and offers it to every live data device.
DrainContent ==
    /\ draining /\ draining' = FALSE
    /\ offered' = content
    /\ UNCHANGED <<copies, selected, outer, hostSide, fetchSide, fresh>>

ClipNext ==
    \/ SetSelection \/ ClearSelection \/ HostCopies \/ HostAnnounces
    \/ ViewAttaches \/ ViewDetaches \/ OfferSelection \/ Cancelled \/ FetchStarts
    \/ \E k \in Copy : Fetched(k)
    \/ DrainVersion \/ DrainContent

\* Threads run; the view's loop polls with a timeout; the compositor thread is woken.
\* A pipe's end is up to the host's application, so a fetch need not finish.
ClipFairness ==
    /\ WF_clipVars(OfferSelection) /\ WF_clipVars(Cancelled) /\ WF_clipVars(FetchStarts)
    /\ \A k \in Copy : WF_clipVars(k \in storing /\ Fetched(k))
    /\ WF_clipVars(DrainVersion) /\ WF_clipVars(DrainContent)

ClipSpec == ClipInit /\ [][ClipNext]_clipVars /\ ClipFairness

-----------------------------------------------------------------------------
(* Properties.                                                                *)

\* What State holds travels on, whatever the interleaving.  Outwards: the current
\* inner selection becomes the host's unless it is replaced, cleared or cancelled first.
\* Inwards: set_outer_clipboard stores before it bumps and drain_clipboard reads the
\* version before the content, so several receiving threads and a drain in between never
\* leave the inner clients with anything but the content of State.
ClipboardTravels ==
    /\ []<>(outer.up /\ selected # 0 => hostSel.copy = selected)
    /\ []<>(offered = content)

\* Refuted.  "Outer compositor cancelled our selection (another app took focus)": the
\* source that our own next offer replaces is cancelled too, and the handler then
\* clears the selection that replaced it.
CancelMeansTaken == [][Cancelled => hostSel.by # "us"]_clipVars

\* Refuted.  "Store new outer clipboard data": of two fetches the one that ends last
\* stays, not the one of the newer selection.
NewestIsKept == [][content' # content /\ content > MaxInner /\ content' > MaxInner => content' > content]_clipVars
=============================================================================

--------------------------- MODULE SessionBuffers ---------------------------
(* The life of an inner client's wl_buffer inside waymux-session: it is      *)
(* committed (compositor thread), tapped for an encoder (InnerBufferHold),   *)
(* queued for a deferred release while an outer view is attached, forwarded  *)
(* to the host compositor by the outer-view thread, and released once nobody *)
(* reads it.  Five threads meet here: compositor, outer view, attach server, *)
(* encoder and control.  Sources: state.rs, compositor.rs (wl_surface.commit)*)
(* outer_view.rs, attach_server.rs and recording.rs of waymux-session.       *)
EXTENDS Naturals, Sequences, FiniteSets

CONSTANTS
    Buf,          \* the wl_buffers of the inner client
    Dmabuf,       \* those that are GPU buffers; the others are shm
    MaxFlight,    \* bound on the outer buffers the host holds at once
    MaxTaken,     \* bound on the tasks recording threads hold at once
    None

ASSUME BufAssumption == Dmabuf \subseteq Buf /\ None \notin Buf

VARIABLES
    own,      \* buffer -> who may write it: the client until it commits, then us
    cur,      \* current_buffer of the focused surface
    comp,     \* the commit handler: [pc, buf, direct]; direct: release after the tap
    points,   \* buffer_release_signals: buffer -> number of points still to signal
    queue,    \* pending_dmabuf_releases
    slot,     \* the holds in the recorder's LatestTaskSlot: [buf, safe]; safe: taken by
              \* the tap of a commit that the handler itself will release
    taken,    \* the holds of the tasks that recording threads work on
    wanted,   \* buffers whose BufferHoldState has release_requested
    wake,     \* outer_wake_fd: the view that installed it, 0 for none
    view,     \* the outer-view thread: [pc, id, stop, dma]
    server,   \* the attach server's handler: "idle" or what it does after the join
    damage,   \* last_damage_ns differs from last_damage_checked
    frame,    \* the frame callback: "none", "pending" or "fired"
    flight,   \* outer buffers the host has not released: [buf, then], then: what the
              \* release handler finds, "list" (Direct), "hold" (Refcounted) or "none"
    rec       \* the recording: "off", "cpu" or "gpu" (a codec that imports dmabufs)

clientVars == <<own, cur, comp>>
holdVars == <<slot, taken>>
releaseVars == <<points, queue, wanted>>
viewVars == <<wake, view, server, damage, frame, flight>>
vars == <<clientVars, holdVars, releaseVars, viewVars, rec>>

Task(b, safe) == [buf |-> b, safe |-> safe]
Recording == rec # "off"

\* The buffers with a live InnerBufferHold: some Arc of it is in a slot's task S, in
\* a task T being encoded, or in the outer buffers F that the host has.
Held(S, T, F) == {t.buf : t \in S \cup T} \cup {F[i].buf : i \in {j \in DOMAIN F : F[j].then = "hold"}}
Pinned == Held(slot, taken, flight)

TypeOK ==
    /\ own \in [Buf -> {"client", "server"}] /\ cur \in Buf \cup {None}
    /\ comp.pc \in {"idle", "queue", "tap", "release", "damage"}
    /\ queue \subseteq Dmabuf /\ wanted \subseteq Buf
    /\ slot \cup taken \subseteq [buf : Buf, safe : BOOLEAN] /\ Cardinality(slot) <= 1
    /\ wake \in 0..2 /\ frame \in {"none", "pending", "fired"}

Init ==
    /\ own = [b \in Buf |-> "client"] /\ cur = None
    /\ comp = [pc |-> "idle", buf |-> None, direct |-> FALSE]
    /\ points = [b \in Buf |-> 0] /\ queue = {} /\ wanted = {}
    /\ slot = {} /\ taken = {} /\ wake = 0
    /\ view = [pc |-> "off", id |-> 0, stop |-> FALSE, dma |-> None]
    /\ server = "idle" /\ damage = FALSE /\ frame = "none" /\ flight = <<>>
    /\ rec = "off"

-----------------------------------------------------------------------------
(* Releasing.  All of these fix own, points and wanted.                       *)

\* do_release_inner_buffer for every buffer of B: wl_buffer.release, and the
\* oldest release point queued for the buffer is signalled.
DoRelease(B) ==
    /\ own' = [b \in Buf |-> IF b \in B THEN "client" ELSE own[b]]
    /\ points' = [b \in Buf |-> IF b \in B /\ points[b] > 0 THEN points[b] - 1 ELSE points[b]]

\* Mutant: release_inner_buffer does not look at the holds.
ReleaseInnerNow(B) == DoRelease(B) /\ UNCHANGED wanted

\* release_inner_buffer for every buffer of B: a held buffer only records the request.
ReleaseInner(B) ==
    /\ DoRelease(B \ Pinned)
    /\ wanted' = wanted \cup (B \cap Pinned)

\* Mutant: the last hold forgets the release that was asked for.
SwapHoldsForgets(S, T, F) ==
    /\ slot' = S /\ taken' = T /\ flight' = F
    /\ DoRelease({}) /\ wanted' = wanted \ (Pinned \ Held(S, T, F))

\* Mutant: the last hold releases but leaves the request standing.
SwapHoldsKeepsRequest(S, T, F) ==
    /\ slot' = S /\ taken' = T /\ flight' = F
    /\ DoRelease((Pinned \ Held(S, T, F)) \cap wanted) /\ UNCHANGED wanted

\* The references become S, T and F (InnerBufferHold::new, the moves and the
\* drops).  The buffer of a last hold is released if that was asked for meanwhile.
SwapHolds(S, T, F) ==
    LET freed == Pinned \ Held(S, T, F)
    IN  /\ slot' = S /\ taken' = T /\ flight' = F
        /\ DoRelease(freed \cap wanted)
        /\ wanted' = wanted \ freed

-----------------------------------------------------------------------------
(* The compositor thread: wl_surface.commit with a new buffer.               *)

\* Mutant: a dmabuf that a commit replaces is released as a shm buffer is.
CommitReleasesDmabuf(b) ==
    /\ comp.pc = "idle" /\ own[b] = "client" /\ cur' = b
    /\ own' = [own EXCEPT ![b] = "server"]
    /\ points' = [c \in Buf |-> IF c = b /\ b \in Dmabuf THEN points[c] + 1
                                ELSE IF c = cur /\ points[c] > 0 THEN points[c] - 1 ELSE points[c]]
    /\ LET deferred == b \in Dmabuf /\ wake # 0
       IN comp' = [pc |-> IF deferred THEN "queue" ELSE "tap", buf |-> b, direct |-> ~deferred]
    /\ UNCHANGED <<queue, wanted, holdVars, viewVars, rec>>

\* Promote pending -> current; a replaced shm buffer is released at once; the
\* release point is attached; is_attached() decides who releases the new one.
Commit(b) ==
    /\ comp.pc = "idle" /\ own[b] = "client" /\ cur' = b
    /\ own' = [own EXCEPT ![b] = IF b = cur /\ b \notin Dmabuf THEN "client" ELSE "server"]
    /\ points' = IF b \in Dmabuf THEN [points EXCEPT ![b] = @ + 1] ELSE points
    /\ LET deferred == b \in Dmabuf /\ wake # 0
       IN comp' = [pc |-> IF deferred THEN "queue" ELSE "tap", buf |-> b, direct |-> ~deferred]
    /\ UNCHANGED <<queue, wanted, holdVars, viewVars, rec>>

\* queue_deferred_release: the outer view will release it.
CommitQueue ==
    /\ comp.pc = "queue"
    /\ queue' = queue \cup {comp.buf} /\ comp' = [comp EXCEPT !.pc = "tap"]
    /\ UNCHANGED <<own, cur, points, wanted, holdVars, viewVars, rec>>

\* push_focused_buffer_to_recording: a GPU codec gets a task with the pinned dmabuf.
TapDmabuf(b) == rec = "gpu" /\ b \in Dmabuf /\ SwapHolds({Task(b, comp.direct)}, taken, flight)

\* Any other codec gets pixels, read under a hold that ends with the call.
TapPixels(b) == Recording /\ ~(rec = "gpu" /\ b \in Dmabuf) /\ SwapHolds({}, taken, flight)

\* maybe_tap_for_recording: either replaces the task in the slot; without a
\* recording, or (CPU codec) before the buffer's fences signalled, nothing happens.
Tap(b) ==
    \/ TapDmabuf(b) \/ TapPixels(b)
    \/ rec # "gpu" /\ UNCHANGED <<own, points, wanted, holdVars, flight>>

CommitTap ==
    /\ comp.pc = "tap" /\ Tap(comp.buf)
    /\ comp' = [comp EXCEPT !.pc = IF comp.direct THEN "release" ELSE "damage"]
    /\ UNCHANGED <<cur, queue, wake, view, server, damage, frame, rec>>

\* The handler releases what it did not queue, after the tap.
CommitRelease ==
    /\ comp.pc = "release" /\ ReleaseInner({comp.buf})
    /\ comp' = [comp EXCEPT !.pc = "damage"]
    /\ UNCHANGED <<cur, queue, holdVars, viewVars, rec>>

\* record_damage, the end of the handler.
CommitDamage ==
    /\ comp.pc = "damage"
    /\ damage' = TRUE /\ comp' = [pc |-> "idle", buf |-> None, direct |-> FALSE]
    /\ UNCHANGED <<own, cur, holdVars, releaseVars, wake, view, server, frame, flight, rec>>

\* Any other surface's commit, or one without a buffer, only records damage.
OtherCommit ==
    /\ comp.pc = "idle" /\ damage' = TRUE
    /\ UNCHANGED <<clientVars, holdVars, releaseVars, wake, view, server, frame, flight, rec>>

-----------------------------------------------------------------------------
(* The outer-view thread.                                                    *)

\* set_outer_wake_fd(v): the queue is flushed, but only on a transition to none.
SetWake(v) ==
    /\ wake' = v
    /\ IF wake # 0 /\ v = 0
       THEN queue' = {} /\ ReleaseInner(queue)
       ELSE UNCHANGED <<own, points, queue, wanted>>

ViewStart ==
    /\ view.pc = "spawned" /\ SetWake(view.id)
    /\ view' = [view EXCEPT !.pc = "run"]
    /\ damage' = TRUE
    /\ UNCHANGED <<cur, comp, holdVars, server, frame, flight, rec>>

\* No configure from the host within five seconds: run() returns an error.
ViewFail ==
    /\ view.pc = "spawned" /\ view' = [view EXCEPT !.pc = "off"]
    /\ UNCHANGED <<clientVars, holdVars, releaseVars, wake, server, damage, frame, flight, rec>>

ShouldCommit == view.pc = "run" /\ ~view.stop /\ (frame = "fired" \/ (damage /\ frame = "none"))

\* Callback without damage: give back whatever is queued.
ViewIdle ==
    /\ ShouldCommit /\ ~damage /\ frame' = "none"
    /\ queue' = {} /\ ReleaseInner(queue)
    /\ UNCHANGED <<cur, comp, holdVars, wake, view, server, damage, flight, rec>>

\* clone_focused_dmabuf: the focused surface shows a dmabuf.
ViewPick ==
    /\ ShouldCommit /\ damage /\ cur \in Dmabuf /\ Len(flight) < MaxFlight
    /\ view' = [view EXCEPT !.pc = "forward", !.dma = cur]
    /\ frame' = "none" /\ damage' = FALSE
    /\ UNCHANGED <<own, cur, comp, holdVars, releaseVars, wake, server, flight, rec>>

\* take_pending_releases_split, then the buffer goes to the host: skipped buffers
\* are released, the forwarded one waits for the host.  While a recording runs it
\* is wrapped in a hold that the host and the recorder's slot share.
ViewForward ==
    /\ view.pc = "forward"
    /\ LET kept == queue \cap {view.dma}
           skipped == queue \ {view.dma}
           then == IF kept = {} THEN "none" ELSE IF Recording THEN "hold" ELSE "list"
           to == Append(flight, [buf |-> view.dma, then |-> then])
           put == IF ~Recording THEN slot ELSE {Task(b, FALSE) : b \in kept}
           freed == Pinned \ Held(put, taken, to)
       IN  /\ queue' = {} /\ slot' = put /\ flight' = to
           /\ DoRelease((skipped \ Pinned) \cup (freed \cap (wanted \cup skipped)))
           /\ wanted' = (wanted \cup (skipped \cap Pinned)) \ freed
    /\ frame' = "pending" /\ view' = [view EXCEPT !.pc = "run", !.dma = None]
    /\ UNCHANGED <<cur, comp, taken, wake, server, damage, rec>>

\* Shm fallback: everything queued is released and the pixels are copied; a
\* running recording gets the copy.
ViewCopy ==
    /\ ShouldCommit /\ damage /\ cur \in Buf \ Dmabuf
    /\ queue' = {} /\ ReleaseInner(queue)
    /\ damage' = FALSE /\ frame' = "pending"
    /\ UNCHANGED <<cur, comp, holdVars, wake, view, server, flight, rec>>

\* The host compositor (external): a frame callback, and the release of an
\* outer buffer that a later one replaced.
HostFrame ==
    /\ view.pc = "run" /\ frame = "pending" /\ frame' = "fired"
    /\ UNCHANGED <<clientVars, holdVars, releaseVars, wake, view, server, damage, flight, rec>>

\* The outer buffers without the i-th.
Remaining(i) == SubSeq(flight, 1, i - 1) \o SubSeq(flight, i + 1, Len(flight))

HostRelease(i) ==
    /\ view.pc = "run" /\ i < Len(flight)
    /\ IF flight[i].then = "list"
       THEN ReleaseInner({flight[i].buf}) /\ flight' = Remaining(i) /\ UNCHANGED holdVars
       ELSE SwapHolds(slot, taken, Remaining(i))
    /\ UNCHANGED <<cur, comp, queue, wake, view, server, damage, frame, rec>>

\* The host closes the window, or the connection breaks (no stop flag then).
HostClose(broken) ==
    /\ view.pc = "run" /\ ~view.stop
    /\ view' = IF broken THEN [view EXCEPT !.pc = "leave"] ELSE [view EXCEPT !.stop = TRUE]
    /\ UNCHANGED <<clientVars, holdVars, releaseVars, wake, server, damage, frame, flight, rec>>

\* Mutant: stopping waits for the host's frame callback.
ViewStopAfterFrame ==
    /\ view.pc = "run" /\ view.stop /\ frame # "pending"
    /\ view' = [view EXCEPT !.pc = "leave"]
    /\ UNCHANGED <<clientVars, holdVars, releaseVars, wake, server, damage, frame, flight, rec>>

\* The stop flag is looked at on every turn of the loop, frame or no frame.
ViewStop ==
    /\ view.pc = "run" /\ view.stop
    /\ view' = [view EXCEPT !.pc = "leave"]
    /\ UNCHANGED <<clientVars, holdVars, releaseVars, wake, server, damage, frame, flight, rec>>

\* Teardown: clear_outer_wake_fd_if_mine, then the outer objects are dropped
\* (a shared hold with them; a directly listed buffer is not released).
ViewEnd ==
    /\ view.pc = "leave"
    /\ wake' = IF wake = view.id THEN 0 ELSE wake
    /\ SwapHolds(slot, taken, <<>>)
    /\ view' = [view EXCEPT !.pc = "off"] /\ frame' = "none"
    /\ UNCHANGED <<cur, comp, queue, server, damage, rec>>

-----------------------------------------------------------------------------
(* The attach server: both requests and the cleanup first join the old view. *)

GetSurface ==
    /\ server = "idle"
    /\ server' = "replace" /\ view' = [view EXCEPT !.stop = TRUE]
    /\ UNCHANGED <<clientVars, holdVars, releaseVars, wake, damage, frame, flight, rec>>

Detach ==
    /\ server = "idle" /\ view.id > 0
    /\ server' = "detach" /\ view' = [view EXCEPT !.stop = TRUE]
    /\ UNCHANGED <<clientVars, holdVars, releaseVars, wake, damage, frame, flight, rec>>

\* The loop's view_stopped check: the view stopped by itself.
Cleanup ==
    /\ server = "idle" /\ view.stop /\ view.id > 0
    /\ server' = "detach"
    /\ UNCHANGED <<clientVars, holdVars, releaseVars, wake, view, damage, frame, flight, rec>>

JoinReplace ==
    /\ server = "replace" /\ view.pc = "off"
    /\ view' = [pc |-> "spawned", id |-> CHOOSE i \in 1..2 : i # wake, stop |-> FALSE, dma |-> None]
    /\ server' = "idle"
    /\ UNCHANGED <<clientVars, holdVars, releaseVars, wake, damage, frame, flight, rec>>

JoinDetach ==
    /\ server = "detach" /\ view.pc = "off" /\ SetWake(0)
    /\ view' = [view EXCEPT !.stop = FALSE] /\ server' = "idle"
    /\ UNCHANGED <<cur, comp, holdVars, damage, frame, flight, rec>>

-----------------------------------------------------------------------------
(* The recorder and the control socket.                                      *)

\* RecordStart, then prime_recording_first_frame taps the presented buffer.
RecordStart(kind) ==
    /\ ~Recording /\ slot = {} /\ rec' = kind
    /\ slot' = IF kind = "gpu" THEN {Task(b, FALSE) : b \in {cur} \cap Dmabuf} ELSE {}
    /\ UNCHANGED <<clientVars, taken, releaseVars, viewVars>>

\* The thread drops its slot, and what is in it, when it returns: EncoderTake.
RecordStop ==
    /\ Recording /\ rec' = "off"
    /\ UNCHANGED <<clientVars, holdVars, releaseVars, viewVars>>

\* take_blocking moves the task out of the slot.  At most MaxTaken tasks are held
\* by threads: the recording's own and that of one stopped before it.
EncoderTake ==
    /\ slot # {} /\ Cardinality(taken) < MaxTaken
    /\ slot' = {} /\ taken' = taken \cup slot
    /\ UNCHANGED <<clientVars, releaseVars, viewVars, rec>>

\* The frame is encoded (or skipped) and the task dropped.
EncoderDone ==
    /\ \E t \in taken : SwapHolds(slot, taken \ {t}, flight)
    /\ UNCHANGED <<cur, comp, queue, wake, view, server, damage, frame, rec>>

CompositorNext ==
    \/ \E b \in Buf : Commit(b)
    \/ CommitQueue \/ CommitTap \/ CommitRelease \/ CommitDamage \/ OtherCommit
ViewNext == ViewStart \/ ViewFail \/ ViewIdle \/ ViewPick \/ ViewForward \/ ViewCopy \/ ViewStop \/ ViewEnd
HostNext == HostFrame \/ (\E i \in DOMAIN flight : HostRelease(i)) \/ (\E x \in BOOLEAN : HostClose(x))
ServerNext == GetSurface \/ Detach \/ Cleanup \/ JoinReplace \/ JoinDetach
EncoderNext == (\E k \in {"cpu", "gpu"} : RecordStart(k)) \/ RecordStop \/ EncoderTake \/ EncoderDone

Next == CompositorNext \/ ViewNext \/ HostNext \/ ServerNext \/ EncoderNext

\* The compositor thread finishes its handler, the recording thread takes and
\* finishes tasks, the outer-view thread and the attach server keep running:
\* loops that wait for no client and, in the case of a stop, for no host.
Fairness ==
    /\ WF_vars(ViewNext) /\ WF_vars(JoinReplace \/ JoinDetach)
    /\ WF_vars(CommitQueue) /\ WF_vars(CommitTap) /\ WF_vars(CommitRelease) /\ WF_vars(CommitDamage)
    /\ WF_vars(EncoderTake) /\ WF_vars(EncoderDone)

Spec == Init /\ [][Next]_vars /\ Fairness

-----------------------------------------------------------------------------
\* What an encoder reads after the tap of a headless commit is not in the hands
\* of the client: the handler releases after the tap, and a hold defers that
\* release until the encoder is done (release_inner_buffer, InnerBufferHold).
HeadlessReadIsStable ==
    /\ (comp.pc = "tap" /\ comp.direct /\ comp.buf \in Dmabuf) => own[comp.buf] = "server"
    /\ \A t \in slot \cup taken : t.safe => own[t.buf] = "server"

\* Exactly the point of its latest commit is outstanding for a dmabuf we hold,
\* and none for one the client has back: note_buffer_release_point and
\* do_release_inner_buffer pair up, so the client waits on no forgotten point
\* and sees none early.
PointPerCommit ==
    \A b \in Dmabuf : points[b] = IF own[b] = "server" THEN 1 ELSE 0

\* A release that was put off always has a hold left to perform it
\* (BufferHoldState.release_requested against the live InnerBufferHolds).
DeferredReleaseHasHolder == wanted \subseteq Pinned /\ \A b \in wanted : own[b] = "server"

\* No release is forgotten and none is given twice, by the explicit-sync points
\* and by the deferred releases of held buffers together.
ReleasesAreOwed == PointPerCommit /\ DeferredReleaseHasHolder

\* A buffer committed while nobody is attached comes back to the client, by the
\* handler's release or by the encoder's last hold, unless recordings are started
\* for ever (each start taps the presented buffer again).
HeadlessComesBack ==
    (<>[]Recording \/ <>[]~Recording) =>
        \A b \in Buf : (comp.pc = "release" /\ comp.buf = b) ~> (own[b] = "client")

\* GetSurface, Detach and the cleanup get past their join of the old view.
JoinReturns == []<>(server = "idle")

\* Nobody waits for ever for the view or for the encoder: buffers come back, and
\* the attach server gets past its joins.
BuffersSettle == HeadlessComesBack /\ JoinReturns

\* state.rs says that the transition to "no attach" drains the deferred releases.
DetachDrains == (wake = 0 /\ server = "idle" /\ view.pc = "off" /\ comp.pc = "idle") => queue = {}

\* Outer buffers the host may still be reading are not the client's to write.
HostReadIsStable == \A i \in DOMAIN flight : own[flight[i].buf] = "server"

\* recording.rs says that the buffer is released when the last hold is dropped.
NoStrandedBuffer ==
    \A b \in Dmabuf : own[b] = "server" =>
        \/ b \in queue \cup Pinned \/ comp.buf = b
        \/ \E i \in DOMAIN flight : flight[i] = [buf |-> b, then |-> "list"]
=============================================================================

--------------------------- MODULE RecordSession ---------------------------
(* Recording a session: RecordStart, RecordStop and Shutdown (control.rs), *)
(* the one-frame slots the compositor fills (state.rs), and the five       *)
(* recording threads of recording.rs, from the wait for a first frame to   *)
(* the finished file. A frame is its number and its size; whether a dmabuf  *)
(* can be imported or read back is chosen when the thread tries. *)
(* Nal tasks are left out: nothing produces them any more.                 *)
EXTENDS Naturals, Sequences, FiniteSets, FiniteSetsExt

CONSTANTS RecCodec,    \* codecs a request may name
          SecCodec,    \* codecs it may name as the secondary
          ChanCap,     \* bound of the channel to the ffmpeg writer (2 in the code)
          MaxThread,   \* bound: recording threads over the life of the session
          MaxFrame,    \* bound: frames the desktop shows
          MaxWork      \* bound: threads and frames together

VARIABLES rec,     \* State.recording: the threads of the handle, {} for None
          shown,   \* number of the frame the desktop shows
          prime,   \* prime_recording_first_frame: the frame it has read, if any
          th,      \* the recording threads
          leaving  \* Shutdown has been answered; the process may exit

recVars == <<rec, shown, prime, th, leaving>>

Thread == 1..MaxThread
FrameSize == {"tiny", "a", "b"}     \* below MIN_DIM, and two real sizes
NoFrame == [id |-> 0, size |-> "none"]
Frame == [id : 1..MaxFrame, size : FrameSize]
NoPrime == [pc |-> "none", frame |-> NoFrame]
InProcess == {"vulkan", "ffv1", "lossless", "hevc"}   \* the others feed ffmpeg

Idle == [pc |-> "idle", codec |-> "none", tick |-> FALSE, stop |-> FALSE,
         slot |-> NoFrame, hand |-> NoFrame, size |-> "none",
         cached |-> NoFrame, last |-> NoFrame,
         chan |-> <<>>, feeder |-> "none", file |-> "none"]

RecInit ==
    /\ rec = {} /\ shown = NoFrame /\ prime = NoPrime /\ leaving = FALSE
    /\ th = [t \in Thread |-> Idle]

----------------------------------------------------------------------------
(* The request side *)

\* spawn_recording_thread: a fresh slot, a fresh stop flag
Spawned(c, tick) == [Idle EXCEPT !.pc = "first", !.codec = c, !.tick = tick]

Unused == {t \in Thread : th[t].pc = "idle"}
Work == MaxThread - Cardinality(Unused) + shown.id

\* The body RecordStart runs under the recording lock, one encoder.
RecordStart ==
    /\ rec = {} /\ ~leaving /\ Unused # {} /\ Work < MaxWork
    /\ \E c \in RecCodec, tick \in BOOLEAN :
        LET t == Min(Unused) IN
        /\ th' = [th EXCEPT ![t] = Spawned(c, tick)]
        /\ rec' = {t}
    /\ prime' = [pc |-> "due", frame |-> NoFrame]
    /\ UNCHANGED <<shown, leaving>>

\* The same with a secondary encoder.
RecordStartDual ==
    /\ rec = {} /\ ~leaving /\ Cardinality(Unused) > 1 /\ Work + 1 < MaxWork
    /\ \E c \in RecCodec, d \in SecCodec, tick \in BOOLEAN :
        LET t == Min(Unused)  s == Min(Unused \ {t}) IN
        /\ th' = [th EXCEPT ![t] = Spawned(c, tick), ![s] = Spawned(d, tick)]
        /\ rec' = {t, s}
    /\ prime' = [pc |-> "due", frame |-> NoFrame]
    /\ UNCHANGED <<shown, leaving>>

\* (mistake) The primary is not told to stop when the secondary is refused.
RecordStartKeepsPrimary ==
    /\ rec = {} /\ ~leaving /\ Unused # {} /\ Work < MaxWork
    /\ \E c \in RecCodec, tick \in BOOLEAN :
        th' = [th EXCEPT ![Min(Unused)] = Spawned(c, tick)]
    /\ UNCHANGED <<rec, shown, prime, leaving>>

\* The secondary is refused (no Hi444 device, no thread): the primary is told
\* to stop and the handle is not stored.
RecordStartRollsBack ==
    /\ rec = {} /\ ~leaving /\ Unused # {} /\ Work < MaxWork
    /\ \E c \in RecCodec, tick \in BOOLEAN :
        th' = [th EXCEPT ![Min(Unused)] = [Spawned(c, tick) EXCEPT !.stop = TRUE]]
    /\ UNCHANGED <<rec, shown, prime, leaving>>

\* DualRecordingHandle::stop_both
StopBoth(ts) == [t \in Thread |-> IF t \in ts THEN [th[t] EXCEPT !.stop = TRUE] ELSE th[t]]

RecordStop ==
    /\ rec # {}
    /\ rec' = {} /\ th' = StopBoth(rec)
    /\ UNCHANGED <<shown, prime, leaving>>

Shutdown ==
    /\ ~leaving /\ leaving' = TRUE
    /\ rec' = {} /\ th' = StopBoth(rec)
    /\ UNCHANGED <<shown, prime>>

\* LatestTaskSlot::put on every slot of the handle
Put(f) == [t \in Thread |-> IF t \in rec THEN [th[t] EXCEPT !.slot = f] ELSE th[t]]

\* A commit changes the desktop, and its tap fills the slots.
CommitFrame ==
    /\ shown.id < MaxFrame /\ Work < MaxWork /\ ~leaving
    /\ \E s \in FrameSize :
        LET f == [id |-> shown.id + 1, size |-> s] IN
        /\ shown' = f
        /\ th' = Put(f)
    /\ UNCHANGED <<rec, prime, leaving>>

\* prime_recording_first_frame looks at the desktop after the lock is dropped ...
PrimeRead ==
    /\ prime.pc = "due"
    /\ prime' = IF shown = NoFrame THEN NoPrime ELSE [pc |-> "read", frame |-> shown]
    /\ UNCHANGED <<rec, shown, th, leaving>>

\* ... and runs one tap with what it found.
PrimePut ==
    /\ prime.pc = "read"
    /\ th' = Put(prime.frame) /\ prime' = NoPrime
    /\ UNCHANGED <<rec, shown, leaving>>

----------------------------------------------------------------------------
(* What the five threads do differently *)

\* read_task: a dmabuf whose fence is not signalled is not read
ReadTask == BOOLEAN

\* May the thread start from frame f?
VulkanFirst(f) == {f.size # "tiny"}
Ffv1First(f) == {f.size # "tiny"}
LosslessFirst(f) == {f.size # "tiny"}
HevcFirst(f) == {f.size # "tiny"}
FfmpegFirst(f) == ReadTask
FirstUsable(c, f) ==
    CASE c = "vulkan" -> VulkanFirst(f) [] c = "ffv1" -> Ffv1First(f)
      [] c = "lossless" -> LosslessFirst(f) [] c = "hevc" -> HevcFirst(f)
      [] OTHER -> FfmpegFirst(f)

\* Steps before the first frame is written; a failure at any of them returns.
VulkanOpen == <<"recorder", "file", "muxer">>
Ffv1Open == <<"device", "encoder", "file", "muxer">>
LosslessOpen == <<"recorder", "file", "muxer">>
HevcOpen == <<"device", "hi444", "resources", "pipeline", "encoder", "file", "muxer">>
FfmpegOpen == <<"spawn">>
OpenSteps(c) ==
    CASE c = "vulkan" -> VulkanOpen [] c = "ffv1" -> Ffv1Open
      [] c = "lossless" -> LosslessOpen [] c = "hevc" -> HevcOpen
      [] OTHER -> FfmpegOpen

\* What becomes of the first frame: written, or not. Write errors are ignored.
VulkanWritesFirst == {"written", "skipped"}
Ffv1WritesFirst == {"written", "uncached", "skipped"}   \* as Ffv1Encode below
LosslessWritesFirst == {"written", "skipped"}
HevcWritesFirst == {"written", "failed", "skipped"}
WritesFirst(c) ==
    CASE c = "vulkan" -> VulkanWritesFirst [] c = "ffv1" -> Ffv1WritesFirst
      [] c = "lossless" -> LosslessWritesFirst [] OTHER -> HevcWritesFirst

\* What becomes of a later frame f in a file of size s: written; written but
\* not cached; failed yet cached; skipped; or the loop is left.
VulkanFrame(f, s) == IF f.size # s THEN {"skipped"} ELSE {"written", "skipped", "left"}
\* encode_source: the frame may be written and not read back for the cache
Ffv1Encode == {"written", "uncached", "skipped"}
Ffv1Frame(f, s) == IF f.size # s THEN {"skipped"} ELSE Ffv1Encode
LosslessFrame(f, s) == IF f.size # s THEN {"skipped"} ELSE {"written", "skipped", "left"}
\* (mistake) A frame of another size is cached before it is refused.
HevcFrameCachesEarly(f, s) ==
    IF f.size # s THEN {"failed"} ELSE {"written", "failed", "skipped"}
\* encode_one_bgra: whether it failed or not, the caller caches the frame
HevcEncode == {"written", "failed"}
HevcFrameOf(f, s) == IF f.size # s THEN {"skipped"} ELSE HevcEncode \cup {"skipped"}
FfmpegFrame(f, s) ==
    {IF ~read THEN "skipped" ELSE IF f.size # s THEN "left" ELSE "sent" : read \in ReadTask}
FrameOutcomes(c, f, s) ==
    CASE c = "vulkan" -> VulkanFrame(f, s) [] c = "ffv1" -> Ffv1Frame(f, s)
      [] c = "lossless" -> LosslessFrame(f, s) [] c = "hevc" -> HevcFrameOf(f, s)
      [] OTHER -> FfmpegFrame(f, s)

\* A write error ends the loop of the threads that hold the muxer themselves;
\* the closures of ffv1 and hevc report it and go on.
DuplicateLeaves(c) == c \in {"vulkan", "lossless"}

\* frame f has gone into the file of thread r
Wrote(r, f) == [r EXCEPT !.last = f]
\* (mistake) Only the first frame is cached.
CacheOnce(r, f) == IF r.tick /\ r.cached = NoFrame THEN [r EXCEPT !.cached = f] ELSE r
Cache(r, f) == IF r.tick THEN [r EXCEPT !.cached = f] ELSE r
After(r, f, o) ==
    LET q == [r EXCEPT !.hand = NoFrame] IN
    CASE o = "written" -> Cache(Wrote(q, f), f)
      [] o = "uncached" -> Wrote(q, f)
      [] o = "failed" -> Cache(q, f)
      [] o = "left" -> [q EXCEPT !.pc = "closing"]
      [] OTHER -> q

----------------------------------------------------------------------------
(* The recording threads *)

Ended(r, f) == [Idle EXCEPT !.pc = "ended", !.stop = r.stop, !.file = f]
Become(t, r) == th' = [th EXCEPT ![t] = r] /\ UNCHANGED <<rec, shown, prime, leaving>>

\* first-frame loop: stop, the deadline, or a frame
FirstEnds(t) == th[t].pc = "first" /\ Become(t, Ended(th[t], "none"))

TakeFirst(t) ==
    /\ th[t].pc = "first" /\ ~th[t].stop /\ th[t].slot # NoFrame
    /\ \E u \in FirstUsable(th[t].codec, th[t].slot) :
        Become(t, IF u THEN [th[t] EXCEPT !.pc = "open", !.slot = NoFrame,
                                          !.hand = th[t].slot, !.size = th[t].slot.size]
                       ELSE [th[t] EXCEPT !.slot = NoFrame])

OpenFails(t) ==
    /\ th[t].pc = "open"
    /\ \E i \in DOMAIN OpenSteps(th[t].codec) :
        Become(t, Ended(th[t], IF OpenSteps(th[t].codec)[i] = "muxer" THEN "empty" ELSE "none"))

\* the in-process threads: the muxer is open, the first frame is encoded
OpenFile(t) ==
    /\ th[t].pc = "open" /\ th[t].codec \in InProcess
    /\ \E o \in WritesFirst(th[t].codec) :
        Become(t, After([th[t] EXCEPT !.pc = "loop", !.file = "open"], th[t].hand, o))

\* recording_thread: ffmpeg and the writer thread run, the first frame is sent
OpenFfmpeg(t) ==
    /\ th[t].pc = "open" /\ th[t].codec \notin InProcess
    /\ Become(t, Cache([th[t] EXCEPT !.pc = "loop", !.file = "open", !.feeder = "run",
                           !.chan = <<th[t].hand>>, !.hand = NoFrame], th[t].hand))

LoopStops(t) == th[t].pc = "loop" /\ th[t].stop /\ Become(t, [th[t] EXCEPT !.pc = "closing"])

TakeNext(t) ==
    /\ th[t].pc = "loop" /\ ~th[t].stop /\ th[t].slot # NoFrame
    /\ LET f == th[t].slot  r == [th[t] EXCEPT !.slot = NoFrame] IN
       \E o \in FrameOutcomes(r.codec, f, r.size) :
        Become(t, IF o = "sent" THEN [Cache(r, f) EXCEPT !.pc = "send", !.hand = f]
                                ELSE After(r, f, o))

\* min-fps mode, an empty slot: the cached frame once more
Duplicate(t) ==
    /\ th[t].pc = "loop" /\ ~th[t].stop /\ th[t].tick
    /\ th[t].slot = NoFrame /\ th[t].cached # NoFrame
    /\ \/ /\ th[t].codec \in InProcess
          /\ Become(t, Wrote(th[t], th[t].cached))
       \/ /\ DuplicateLeaves(th[t].codec)
          /\ Become(t, [th[t] EXCEPT !.pc = "closing"])
       \/ /\ th[t].codec \notin InProcess
          /\ Become(t, [th[t] EXCEPT !.pc = "send", !.hand = th[t].cached])

\* sync_channel: send blocks while it is full and fails once the writer left
SendFrame(t) ==
    /\ th[t].pc = "send"
    /\ \/ /\ th[t].feeder = "run" /\ Len(th[t].chan) < ChanCap
          /\ Become(t, [th[t] EXCEPT !.pc = "loop", !.hand = NoFrame, !.chan = Append(@, th[t].hand)])
       \/ /\ th[t].feeder = "ended"
          /\ Become(t, [th[t] EXCEPT !.pc = "closing", !.hand = NoFrame])

\* the writer thread: one frame into ffmpeg's stdin, or ffmpeg is gone
FeederWrites(t) ==
    /\ th[t].feeder = "run" /\ th[t].chan # <<>>
    /\ Become(t, Wrote([th[t] EXCEPT !.chan = Tail(@)], Head(th[t].chan)))

FeederFails(t) ==
    /\ th[t].feeder = "run" /\ th[t].chan # <<>>
    /\ Become(t, [th[t] EXCEPT !.feeder = "ended", !.chan = <<>>, !.file = "broken"])

\* the channel is closed and drained: stdin closes and ffmpeg finalises
FeederEnds(t) ==
    /\ th[t].feeder = "run" /\ th[t].chan = <<>> /\ th[t].pc = "closing"
    /\ Become(t, [th[t] EXCEPT !.feeder = "ended", !.file = "final"])

\* (mistake) The writer is not joined.
CloseFileUnjoined(t) ==
    /\ th[t].pc = "closing"
    /\ \E f \in {"final", "broken"} :
        Become(t, Ended(th[t], IF th[t].codec \in InProcess THEN f ELSE th[t].file))

\* flush, finish(), or join the writer and wait for ffmpeg
CloseFile(t) ==
    /\ th[t].pc = "closing" /\ th[t].feeder # "run"
    /\ \E f \in {"final", "broken"} :
        Become(t, Ended(th[t], IF th[t].codec \in InProcess THEN f ELSE th[t].file))

\* main() returns after Shutdown: threads end where they are; an ffmpeg that
\* was fed sees its stdin close.
ProcessExit ==
    /\ leaving /\ \E t \in Thread : th[t].pc \notin {"idle", "ended"}
    /\ th' = [t \in Thread |->
                IF th[t].pc = "idle" THEN th[t]
                ELSE Ended(th[t], CASE th[t].feeder = "run" -> "final"
                                    [] th[t].file = "open" -> "broken"
                                    [] OTHER -> th[t].file)]
    /\ prime' = NoPrime /\ UNCHANGED <<rec, shown, leaving>>

ThreadStep(t) ==
    \/ FirstEnds(t) \/ TakeFirst(t) \/ OpenFails(t) \/ OpenFile(t) \/ OpenFfmpeg(t)
    \/ LoopStops(t) \/ TakeNext(t) \/ Duplicate(t) \/ SendFrame(t) \/ CloseFile(t)
FeederStep(t) == FeederWrites(t) \/ FeederFails(t) \/ FeederEnds(t)

RecNext ==
    \/ RecordStart \/ RecordStartDual \/ RecordStartRollsBack \/ RecordStop \/ Shutdown
    \/ CommitFrame \/ PrimeRead \/ PrimePut \/ ProcessExit
    \/ \E t \in Thread : ThreadStep(t) \/ FeederStep(t)

\* Threads run, and ffmpeg reads its stdin or dies.
RecFairness == \A t \in Thread : WF_recVars(ThreadStep(t)) /\ WF_recVars(FeederStep(t))
RecSpec == RecInit /\ [][RecNext]_recVars /\ RecFairness

----------------------------------------------------------------------------
(* A recording thread that nobody told to stop can be reached through the   *)
(* handle: however RecordStart, its roll-back, RecordStop and Shutdown      *)
(* follow each other, no thread is left recording with nobody to end it.    *)
NoLeakedThread ==
    \A t \in Thread : th[t].pc \notin {"idle", "ended"} /\ ~th[t].stop => t \in rec

(* The header of the file names one size; whichever way a frame gets in     *)
(* (first frame, commit, duplicate, through ffmpeg), it has that size,      *)
(* although windows change size while the thread runs.                      *)
FileHasOneSize == \A t \in Thread : th[t].last # NoFrame => th[t].last.size = th[t].size

(* In min-fps mode an idle tick repeats the frame that went out last, also  *)
(* while ffmpeg's writer is behind. (hevc keeps a frame whose encode failed, *)
(* and ffv1 may keep an older one when it cannot read a dmabuf back.)       *)
NewestSent(r) == IF r.chan # <<>> THEN r.chan[Len(r.chan)] ELSE r.last
DuplicateIsLast ==
    \A t \in Thread :
        /\ th[t].pc = "loop" /\ th[t].feeder # "ended" /\ th[t].codec \notin {"hevc", "ffv1"}
        /\ th[t].cached # NoFrame
        => th[t].cached = NewestSent(th[t])

(* What a file holds, frame by frame, is what the recording promises: one   *)
(* size, and idle ticks that repeat the newest frame.                       *)
FramesFit == FileHasOneSize /\ DuplicateIsLast

(* A thread told to stop ends, and when it ended its file is finished:      *)
(* never a muxer or an ffmpeg left without its trailer, except when writing *)
(* failed.                                                                  *)
StopFinalises ==
    \A t \in Thread : []<>(th[t].stop => th[t].pc = "ended" /\ th[t].file # "open")

(* Seeding a recording never puts an older frame after a newer one: what    *)
(* "Live commits take over the moment anything animates" promises.          *)
LiveFramesWin ==
    [][\A t \in Thread : th'[t].pc # "ended" => th'[t].last.id >= th[t].last.id]_recVars
=============================================================================

---------------------------- MODULE ViewerStream ----------------------------
(* The remote viewer of a session: ViewerStart, ViewerStop and Shutdown     *)
(* (control.rs), the bridge process, and the encoder threads of             *)
(* viewer/encoder.rs with their control reader. A video frame on the socket *)
(* is "I" (a keyframe), "P", or "C" (a cursor update); pixels are left out. *)
EXTENDS Naturals, Sequences, FiniteSets

CONSTANTS ViewerCodec,     \* codecs select_viewer_codec may answer
          MaxViewer,       \* bound: viewers started over the life of the session
          MaxLive,         \* bound: viewers not yet torn down when another starts
          GOP_LEN,         \* frames between two keyframes (12 in the code)
          MaxFrameNum,     \* frame_num wraps here (16 in the code)
          MAX_CONSEC_FAIL, \* failures in a row that end the encoder (90)
          SockCap          \* bound: frames the socket and ffmpeg each buffer

ASSUME ViewerAssumption ==
    /\ MaxViewer \in Nat /\ GOP_LEN \in Nat /\ MaxFrameNum \in Nat /\ GOP_LEN < MaxFrameNum
    /\ MAX_CONSEC_FAIL \in Nat \ {0}

VARIABLES cur,       \* State.viewer: the viewer of the handle, 0 for None
          starting,  \* the viewer whose ViewerStart holds the lock, 0 for none
          vs         \* the viewers

viewerVars == <<cur, starting, vs>>

Viewers == 1..MaxViewer

\* bridge: the child process; enc: the encoder thread; closer: the call that
\* tears the viewer down; needs: the browser cannot decode until a keyframe.
NoViewer ==
    [bridge |-> "none", closer |-> "none", codec |-> "none", stop |-> FALSE,
     reader |-> "none", force |-> FALSE, asks |-> FALSE, needs |-> FALSE,
     enc |-> "none", idr |-> FALSE, gop |-> 0, fail |-> 0, wedged |-> FALSE,
     num |-> 0, ref |-> 2, setup |-> 2, sentIn |-> 2, sentNum |-> 0, clean |-> TRUE,
     pipe |-> <<>>, parser |-> "none", sock |-> <<>>]

Running == {v \in Viewers : vs[v].enc \notin {"none", "done"}}
Live == {v \in Viewers : \/ vs[v].bridge \in {"starting", "up"} \/ v \in Running
                         \/ vs[v].reader = "reading" \/ vs[v].closer \in {"join", "term"}}

ViewerInit == cur = 0 /\ starting = 0 /\ vs = [v \in Viewers |-> NoViewer]

Is(v, pc) == vs[v].enc = pc
Becomes(v, r) == vs' = [vs EXCEPT ![v] = r]
\* A step of v's own threads.
Own(v, r) == Becomes(v, r) /\ UNCHANGED <<cur, starting>>

\* The fields of a thread that has returned are of no further use.
Done(r) == [r EXCEPT !.enc = "done", !.codec = "none", !.force = FALSE, !.idr = FALSE, !.gop = 0, !.fail = 0, !.num = 0,
                     !.ref = 2, !.setup = 2, !.sentIn = 2, !.sentNum = 0, !.clean = TRUE]

----------------------------------------------------------------------------
(* The control calls *)

\* ViewerStart takes the lock, picks a codec and spawns the bridge.
ViewerStart(v) ==
    /\ cur = 0 /\ starting = 0 /\ vs[v] = NoViewer
    /\ \A u \in Viewers : u < v => vs[u] # NoViewer
    /\ Cardinality(Live) <= MaxLive
    /\ \E c \in ViewerCodec : Becomes(v, [NoViewer EXCEPT !.codec = c, !.bridge = "starting"])
    /\ starting' = v /\ UNCHANGED cur

\* spawn_bridge's accept() returns: the encoder thread starts, the lock is
\* dropped. A bridge that died before it connected keeps the call, and the lock.
ViewerStarted(v) ==
    /\ starting = v /\ vs[v].bridge \in {"up", "gone"}
    /\ Becomes(v, [vs[v] EXCEPT !.enc = "first", !.needs = vs[v].bridge = "up"])
    /\ cur' = v /\ starting' = 0

\* The accepted socket cannot be cloned: the call fails and keeps nothing.
ViewerStartFails(v) ==
    /\ starting = v /\ vs[v].bridge \in {"up", "gone"}
    /\ Becomes(v, [Done(vs[v]) EXCEPT !.closer = "done"])
    /\ starting' = 0 /\ UNCHANGED cur

\* (mistake) The flag is not raised.
ViewerStopKeepsRunning ==
    /\ starting = 0 /\ cur # 0
    /\ Becomes(cur, [vs[cur] EXCEPT !.closer = "join"])
    /\ cur' = 0 /\ UNCHANGED starting

\* ViewerStop takes the handle, raises the flag and joins the encoder first.
ViewerStop ==
    /\ starting = 0 /\ cur # 0
    /\ Becomes(cur, [vs[cur] EXCEPT !.stop = TRUE, !.closer = "join"])
    /\ cur' = 0 /\ UNCHANGED starting

ViewerJoined(v) ==
    /\ vs[v].closer = "join" /\ Is(v, "done")
    /\ Own(v, [vs[v] EXCEPT !.closer = "term"])

\* Shutdown does not wait for the encoder thread.
ShutdownViewer ==
    /\ starting = 0 /\ cur # 0
    /\ Becomes(cur, [vs[cur] EXCEPT !.stop = TRUE, !.closer = "term"])
    /\ cur' = 0 /\ UNCHANGED starting

\* The bridge is gone: its buffered frames are too, and what it asked for
\* may or may not have been read.
Gone(r) == [r EXCEPT !.bridge = "gone", !.sock = <<>>, !.asks = FALSE, !.needs = FALSE]

\* kill_viewer_child: SIGTERM, two seconds, SIGKILL, wait.
KillViewerChild(v) ==
    /\ vs[v].closer = "term"
    /\ Own(v, [Gone(vs[v]) EXCEPT !.closer = "done"])

----------------------------------------------------------------------------
(* The bridge and the browser behind it *)

BridgeConnects(v) ==
    /\ vs[v].bridge = "starting"
    /\ Own(v, [vs[v] EXCEPT !.bridge = "up"])

BridgeDies(v) ==
    /\ vs[v].bridge \in {"starting", "up"}
    /\ Own(v, [Gone(vs[v]) EXCEPT !.bridge = IF vs[v].bridge = "up" THEN "gone" ELSE "failed"])

\* A keyframe repairs the picture.
BridgeReads(v) ==
    /\ vs[v].bridge = "up" /\ vs[v].sock # <<>>
    /\ Own(v, [vs[v] EXCEPT !.sock = Tail(@), !.needs = @ /\ Head(vs[v].sock) # "I"])

\* A browser connects, or loses a packet: one PLI, forwarded as ForceKeyframe.
BrowserAsks(v) ==
    /\ vs[v].bridge = "up" /\ cur = v /\ ~vs[v].asks /\ ~vs[v].needs
    /\ Own(v, [vs[v] EXCEPT !.asks = TRUE, !.needs = TRUE])

----------------------------------------------------------------------------
(* spawn_control_reader *)

ReaderStarts(r) == [r EXCEPT !.reader = "reading", !.force = FALSE]

ForceKeyframe(v) ==
    /\ vs[v].reader = "reading" /\ ~vs[v].stop /\ vs[v].asks
    /\ Own(v, [vs[v] EXCEPT !.force = TRUE, !.asks = FALSE])

\* Shutdown, a malformed frame, end of file.
ReaderEnds(v) ==
    /\ vs[v].reader = "reading"
    /\ vs[v].bridge = "gone" \/ vs[v].stop
    /\ Own(v, [vs[v] EXCEPT !.reader = "done", !.stop = TRUE, !.asks = FALSE])

----------------------------------------------------------------------------
(* From the first frame to the loop *)

\* The wait for a first frame.
FirstFrame(v) ==
    /\ Is(v, "first") /\ ~vs[v].stop
    /\ Own(v, [vs[v] EXCEPT !.enc = "open"])

\* Only the ffmpeg path gives up on it, and starts from a black one.
FirstBlack(v) == vs[v].codec = "nvenc" /\ FirstFrame(v)

FirstStops(v) ==
    /\ Is(v, "first") /\ vs[v].stop
    /\ Own(v, Done(vs[v]))

VulkanOpens(v) == Own(v, [ReaderStarts(vs[v]) EXCEPT !.enc = "encodeFirst"])
CudaOpens(v) == Own(v, [ReaderStarts(vs[v]) EXCEPT !.enc = "encodeFirst"])
VaapiOpens(v) == Own(v, [ReaderStarts(vs[v]) EXCEPT !.enc = "encodeFirst"])

\* ffmpeg gets the first frame at once, and the parser thread is started.
NvencOpens(v) ==
    Own(v, [ReaderStarts(vs[v]) EXCEPT !.enc = "loop", !.pipe = <<"I">>, !.gop = 1,
                                       !.parser = "reading"])

\* try_new, spawn or try_clone fail. An unusable CUDA encoder is replaced if
\* another one is there, VA-API by the subprocess.
OpenFailed(v) ==
    \/ Own(v, Done(vs[v]))
    \/ /\ vs[v].codec = "cuda"
       /\ \E c \in {"nvenc", "vulkan"} : Own(v, [vs[v] EXCEPT !.codec = c, !.enc = "first"])
    \/ /\ vs[v].codec = "vaapi"
       /\ Own(v, [vs[v] EXCEPT !.codec = "nvenc", !.enc = "first"])

OpenEncoder(v) ==
    /\ Is(v, "open")
    /\ \/ OpenFailed(v)
       \/ vs[v].codec = "vulkan" /\ VulkanOpens(v)
       \/ vs[v].codec = "cuda" /\ CudaOpens(v)
       \/ vs[v].codec = "vaapi" /\ VaapiOpens(v)
       \/ vs[v].codec = "nvenc" /\ NvencOpens(v)

----------------------------------------------------------------------------
(* One picture *)

\* (mistake) The reference slot does not advance.
NextPicParamsKeepsSlot(r, idr) ==
    IF idr \/ r.ref = 2
    THEN [r EXCEPT !.idr = TRUE, !.setup = 0, !.num = 1, !.ref = 0]
    ELSE [r EXCEPT !.idr = FALSE, !.setup = 1 - r.ref, !.num = (@ + 1) % MaxFrameNum]

\* next_pic_params: the reference slots alternate; the state advances whether
\* or not the encode then succeeds. ref = 2 stands for -1.
NextPicParams(r, idr) ==
    IF idr \/ r.ref = 2
    THEN [r EXCEPT !.idr = TRUE, !.setup = 0, !.num = 1, !.ref = 0]
    ELSE [r EXCEPT !.idr = FALSE, !.setup = 1 - r.ref, !.ref = 1 - r.ref,
                   !.num = (@ + 1) % MaxFrameNum]

\* The GPU overwrites the slot it reconstructs into.
Overwrites(r) == [r EXCEPT !.sentIn = IF @ = r.setup THEN 2 ELSE @]

\* A picture was made. In "write" it waits for the socket.
Made(r) == [r EXCEPT !.enc = "write", !.fail = 0]

VulkanMakes(r) ==
    [Made(r) EXCEPT !.gop = IF r.idr THEN 1 ELSE @ + 1, !.clean = @ \/ r.idr]

\* (mistake) Failures are not counted.
VulkanFailsForever(r) == [r EXCEPT !.enc = "loop"]

\* No picture this tick; too many in a row end the encoder.
VulkanFails(r) ==
    IF r.fail + 1 >= MAX_CONSEC_FAIL
    THEN [Done(r) EXCEPT !.wedged = TRUE]
    ELSE [r EXCEPT !.enc = "loop", !.fail = @ + 1]

\* The first picture is a keyframe; without it the loop starts all the same.
EncodeFirst(v) ==
    /\ Is(v, "encodeFirst")
    /\ LET r == IF vs[v].codec = "vulkan" THEN NextPicParams(vs[v], TRUE)
                ELSE [vs[v] EXCEPT !.idr = TRUE]
       IN \/ Own(v, [IF r.codec = "vulkan" THEN VulkanMakes(r) ELSE Made(r)
                     EXCEPT !.enc = "writeFirst"])
          \/ Own(v, [r EXCEPT !.enc = "loop", !.force = FALSE, !.clean = FALSE])
          \* its fence was not ready: nothing was tried
          \/ Own(v, [vs[v] EXCEPT !.enc = "loop", !.force = FALSE])

----------------------------------------------------------------------------
(* The loops *)

WantsIdr(r) == r.force \/ r.gop = 0 \/ r.gop >= GOP_LEN

\* run_vulkan_encoder: the request is consumed before the encode. A frame of
\* another size, a stale fence or bad pixels give no picture and touch nothing.
VulkanTick(v) ==
    LET r == NextPicParams([vs[v] EXCEPT !.force = FALSE], WantsIdr(vs[v]))
        bad == Overwrites([r EXCEPT !.clean = FALSE])
    IN \/ Own(v, [r EXCEPT !.enc = "encode"])
       \/ Own(v, VulkanFails([vs[v] EXCEPT !.force = FALSE]))
       \/ Own(v, VulkanFails(bad))

\* The encode of a tried picture comes back.
VulkanEncoded(v) ==
    /\ Is(v, "encode") /\ vs[v].codec = "vulkan"
    /\ Own(v, VulkanMakes(vs[v]))

\* run_cuda_nvenc_encoder: the request is only looked at.
CudaTick(v) == Own(v, [vs[v] EXCEPT !.idr = vs[v].force, !.enc = "encode"])

\* run_vaapi_inprocess_encoder: as CUDA, and a resized frame ends it.
VaapiTick(v) ==
    \/ Own(v, [vs[v] EXCEPT !.idr = vs[v].force, !.enc = "encode"])
    \/ Own(v, Done(vs[v]))

\* Both: a failed encode goes on with the cursor.
InProcessEncoded(v) ==
    /\ Is(v, "encode") /\ vs[v].codec \in {"cuda", "vaapi"}
    /\ \/ Own(v, Made(vs[v]))
       \/ Own(v, [vs[v] EXCEPT !.enc = "cursor"])

\* run_nvenc_encoder: a tick feeds ffmpeg, which counts its own GOP; the
\* request is dropped. A resized frame or a dead ffmpeg ends the loop.
NvencTick(v) ==
    \/ /\ Len(vs[v].pipe) < SockCap
       /\ LET idr == vs[v].gop >= GOP_LEN
          IN Own(v, [vs[v] EXCEPT !.force = FALSE, !.gop = IF idr THEN 1 ELSE @ + 1,
                                  !.pipe = Append(@, IF idr THEN "I" ELSE "P")])
    \/ Own(v, [vs[v] EXCEPT !.enc = "flush"])

\* (mistake) The flag is not read.
LoopIgnoresStop(v) ==
    /\ Is(v, "loop")
    /\ \/ vs[v].codec = "vulkan" /\ VulkanTick(v)
       \/ vs[v].codec = "cuda" /\ CudaTick(v)
       \/ vs[v].codec = "vaapi" /\ VaapiTick(v)
       \/ vs[v].codec = "nvenc" /\ NvencTick(v)

Loop(v) ==
    /\ Is(v, "loop") /\ ~vs[v].stop
    /\ \/ vs[v].codec = "vulkan" /\ VulkanTick(v)
       \/ vs[v].codec = "cuda" /\ CudaTick(v)
       \/ vs[v].codec = "vaapi" /\ VaapiTick(v)
       \/ vs[v].codec = "nvenc" /\ NvencTick(v)

ViewerLoopStops(v) ==
    /\ Is(v, "loop") /\ vs[v].stop
    /\ Own(v, IF vs[v].codec = "nvenc" THEN [vs[v] EXCEPT !.enc = "flush"] ELSE Done(vs[v]))

\* A failed write ends the thread, not the viewer.
WriteFails(v) ==
    /\ vs[v].enc \in {"write", "writeFirst", "cursor"} /\ vs[v].bridge = "gone"
    /\ Own(v, Done(vs[v]))

\* After the write: vulkan goes round, the others settle the request, and the
\* first frame forgets what was asked before it.
AfterWrite(r) ==
    CASE r.enc = "writeFirst" -> [r EXCEPT !.enc = "loop", !.force = FALSE]
      [] r.codec = "vulkan" -> [r EXCEPT !.enc = "loop"]
      [] OTHER -> [r EXCEPT !.enc = "settle"]

Sent(r) == [r EXCEPT !.sock = Append(@, IF r.idr THEN "I" ELSE "P"),
                     !.sentIn = r.setup, !.sentNum = IF r.idr THEN 0 ELSE (r.num + MaxFrameNum - 1) % MaxFrameNum]

Write(v) ==
    /\ vs[v].enc \in {"write", "writeFirst"} /\ vs[v].bridge = "up"
    /\ Len(vs[v].sock) < SockCap
    /\ Own(v, AfterWrite(Sent(vs[v])))

\* The compare-and-swap after a keyframe.
Settle(v) ==
    /\ Is(v, "settle")
    /\ Own(v, [vs[v] EXCEPT !.enc = "cursor", !.force = @ /\ ~vs[v].idr])

\* cursor_channel.drain(): an image, a position, both or neither.
DrainCursor(v) ==
    /\ Is(v, "cursor")
    /\ \/ Own(v, [vs[v] EXCEPT !.enc = "loop"])
       \/ /\ vs[v].bridge = "up" /\ Len(vs[v].sock) < SockCap
          /\ Own(v, [vs[v] EXCEPT !.enc = "loop", !.sock = Append(@, "C")])

----------------------------------------------------------------------------
(* The ffmpeg path: the parser thread and the end *)

ParserWrites(v) ==
    /\ vs[v].parser = "reading" /\ vs[v].pipe # <<>>
    /\ vs[v].bridge = "up" /\ Len(vs[v].sock) < SockCap
    /\ Own(v, [vs[v] EXCEPT !.sock = Append(@, Head(vs[v].pipe)), !.pipe = Tail(@)])

\* The socket fails, the flag is up, or ffmpeg closed its output.
ParserEnds(v) ==
    /\ vs[v].parser = "reading"
    /\ \/ vs[v].bridge = "gone" \/ vs[v].stop
       \/ Is(v, "flush") /\ vs[v].pipe = <<>>
    /\ Own(v, [vs[v] EXCEPT !.parser = "done", !.pipe = <<>>,
                            !.stop = @ \/ vs[v].bridge = "gone"])

\* drop(stdin), parser.join(), child.wait()
NvencDone(v) ==
    /\ Is(v, "flush") /\ vs[v].parser = "done"
    /\ Own(v, Done(vs[v]))

----------------------------------------------------------------------------
EncoderStep(v) ==
    \/ FirstBlack(v) \/ FirstStops(v) \/ OpenEncoder(v) \/ EncodeFirst(v) \/ Loop(v) \/ ViewerLoopStops(v)
    \/ VulkanEncoded(v) \/ InProcessEncoded(v) \/ Write(v) \/ WriteFails(v)
    \/ Settle(v) \/ DrainCursor(v) \/ NvencDone(v)

ViewerNext ==
    \/ ViewerStop \/ ShutdownViewer
    \/ \E v \in Viewers :
        \/ ViewerStart(v) \/ ViewerStarted(v) \/ ViewerStartFails(v)
        \/ ViewerJoined(v) \/ KillViewerChild(v)
        \/ BridgeConnects(v) \/ BridgeDies(v) \/ BridgeReads(v) \/ BrowserAsks(v)
        \/ ForceKeyframe(v) \/ ReaderEnds(v)
        \/ FirstFrame(v) \/ EncoderStep(v) \/ ParserWrites(v) \/ ParserEnds(v)

\* Threads and processes that can run do. Nobody has to start, stop or ask, no
\* process has to die, and a still desktop shows no first frame.
ViewerFairness ==
    \A v \in Viewers :
        /\ WF_viewerVars(EncoderStep(v)) /\ WF_viewerVars(ParserWrites(v))
        /\ WF_viewerVars(ParserEnds(v)) /\ WF_viewerVars(ForceKeyframe(v))
        /\ WF_viewerVars(ReaderEnds(v)) /\ WF_viewerVars(BridgeReads(v))
        /\ WF_viewerVars(ViewerStarted(v) \/ ViewerStartFails(v))
        /\ WF_viewerVars(ViewerJoined(v)) /\ WF_viewerVars(KillViewerChild(v))

ViewerSpec == ViewerInit /\ [][ViewerNext]_viewerVars /\ ViewerFairness

----------------------------------------------------------------------------
(* Properties *)

\* Every encoder thread that still runs belongs to the stored handle or has
\* been told to stop: no call leaves one streaming that nothing can reach.
NoStrayEncoder ==
    \A v \in Running : cur = v \/ vs[v].stop

\* While no encode of the GOP has failed, a P-frame about to be sent refers to
\* the slot that holds the picture sent last, and frame_num follows on from it
\* without wrapping (next_pic_params against what really reached the socket).
GopDecodes ==
    \A v \in Viewers :
        LET r == vs[v] IN
        Is(v, "write") /\ r.codec = "vulkan" /\ ~r.idr /\ r.clean =>
            /\ r.sentIn = 1 - r.setup
            /\ (r.num + MaxFrameNum - 1) % MaxFrameNum = r.sentNum + 1

\* A browser that waits for a keyframe gets one, though its request may be
\* consumed by a failed encode or dropped by ffmpeg: the GOP boundary serves
\* it once there is a first frame, or the encoder or the bridge has ended.
KeyframeComes ==
    \A v \in Viewers :
        []<>(vs[v].codec \in {"vulkan", "nvenc"} /\ vs[v].needs => Is(v, "first") \/ Is(v, "done"))

\* ViewerStop answers: the encoder it joins sees the flag whatever it is doing,
\* and the bridge is gone when it does.
StopReturns == \A v \in Viewers : []<>(vs[v].closer \notin {"join", "term"})

\* Nobody waits for ever for the encoder thread: neither a browser for its
\* keyframe nor ViewerStop for the join.
StreamServes == KeyframeComes /\ StopReturns

\* The comment on MAX_CONSEC_FAIL: after the encoder has given up on the GPU, a
\* viewer reconnect restarts a fresh encoder.
ReconnectIsServed ==
    \A v \in Viewers :
        vs[v].wedged /\ vs[v].needs ~> ~vs[v].needs \/ cur # v
=============================================================================

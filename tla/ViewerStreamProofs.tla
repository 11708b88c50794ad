------------------------- MODULE ViewerStreamProofs -------------------------
(* No encoder thread is left streaming that nothing can reach, for any number *)
(* of viewers and however many of them are torn down while the next starts.   *)
(* The threads' own steps never start an encoder that was not running and     *)
(* never lower a stop flag (Kept); the rest is about the handle: it is empty  *)
(* while a ViewerStart holds the lock, and whoever empties it raises the flag.*)
EXTENDS ViewerStream, TLAPS

Idle(r) == r.enc \in {"none", "done"}

\* A step that turns v's record into r starts no encoder and keeps a raised flag.
Kept(v, r) ==
    /\ DOMAIN r = DOMAIN NoViewer
    /\ Idle(vs[v]) => Idle(r)
    /\ vs[v].stop => r.stop

\* The inductive invariant.
StrayInv ==
    /\ cur \in Viewers \cup {0} /\ starting \in Viewers \cup {0}
    /\ vs = [v \in Viewers |-> vs[v]]
    /\ \A v \in Viewers : DOMAIN vs[v] = DOMAIN NoViewer
    /\ starting # 0 => cur = 0
    /\ \A v \in Viewers : Idle(vs[v]) \/ cur = v \/ vs[v].stop

\* A step of v's own threads that is Kept keeps the invariant.
LEMMA OwnStep ==
    ASSUME StrayInv, NEW v \in Viewers, NEW r, Own(v, r), Kept(v, r)
    PROVE  StrayInv'
<1>1. cur' = cur /\ starting' = starting /\ vs' = [vs EXCEPT ![v] = r]
  BY Zenon DEF Own, Becomes
<1>2. vs' = [u \in Viewers |-> IF u = v THEN r ELSE vs[u]]
  BY <1>1, Zenon DEF StrayInv
<1>3. vs' = [u \in Viewers |-> vs'[u]]
  BY <1>2, Zenon
<1>4. ASSUME NEW u \in Viewers
      PROVE  DOMAIN vs'[u] = DOMAIN NoViewer /\ (Idle(vs'[u]) \/ cur = u \/ vs'[u].stop)
  BY <1>2, Zenon DEF StrayInv, Kept
<1> QED
  BY <1>1, <1>3, <1>4, Zenon DEF StrayInv, Idle

\* What Kept asks of a record made from v's by updates of other fields.
LEMMA Fields == DOMAIN NoViewer =
    {"bridge", "closer", "codec", "stop", "reader", "force", "asks", "needs", "enc", "idr",
     "gop", "fail", "wedged", "num", "ref", "setup", "sentIn", "sentNum", "clean", "pipe",
     "parser", "sock"}
  BY Zenon DEF NoViewer

\* A thread that returns is idle and its flag is as it was.
LEMMA DoneKept ==
    ASSUME NEW r, DOMAIN r = DOMAIN NoViewer
    PROVE  DOMAIN Done(r) = DOMAIN NoViewer /\ Done(r).enc = "done" /\ Done(r).stop = r.stop
  BY Fields, Zenon DEF Done
\* The steps of the bridge, of the control reader and of the parser thread, and
\* the end of the calls that tear a viewer down.
LEMMA OutsideStep ==
    ASSUME StrayInv, NEW v \in Viewers,
           \/ ViewerJoined(v) \/ KillViewerChild(v) \/ BridgeConnects(v) \/ BridgeDies(v)
           \/ BridgeReads(v) \/ BrowserAsks(v) \/ ForceKeyframe(v) \/ ReaderEnds(v)
           \/ ParserWrites(v) \/ ParserEnds(v) \/ FirstFrame(v)
    PROVE  StrayInv'
<1>1. CASE ViewerJoined(v)
  <2> DEFINE r == [vs[v] EXCEPT !.closer = "term"]
  <2>1. Own(v, r)
    BY <1>1, Zenon DEF ViewerJoined
  <2>2. Kept(v, r)
    BY <1>1, Fields, Zenon DEF StrayInv, Kept, Idle, ViewerJoined
  <2> QED
    BY <2>1, <2>2, OwnStep, Zenon
<1>2. CASE KillViewerChild(v)
  <2> DEFINE r == [Gone(vs[v]) EXCEPT !.closer = "done"]
  <2>1. Own(v, r)
    BY <1>2, Zenon DEF KillViewerChild
  <2>2. Kept(v, r)
    BY <1>2, Fields, Zenon DEF StrayInv, Kept, Idle, Gone
  <2> QED
    BY <2>1, <2>2, OwnStep, Zenon
<1>3. CASE BridgeConnects(v)
  <2> DEFINE r == [vs[v] EXCEPT !.bridge = "up"]
  <2>1. Own(v, r)
    BY <1>3, Zenon DEF BridgeConnects
  <2>2. Kept(v, r)
    BY <1>3, Fields, Zenon DEF StrayInv, Kept, Idle, BridgeConnects
  <2> QED
    BY <2>1, <2>2, OwnStep, Zenon
<1>4. CASE BridgeDies(v)
  <2> DEFINE r == [Gone(vs[v]) EXCEPT
                      !.bridge = IF vs[v].bridge = "up" THEN "gone" ELSE "failed"]
  <2>1. Own(v, r)
    BY <1>4, Zenon DEF BridgeDies
  <2>2. Kept(v, r)
    BY <1>4, Fields, Zenon DEF StrayInv, Kept, Idle, Gone
  <2> QED
    BY <2>1, <2>2, OwnStep, Zenon
<1>5. CASE BridgeReads(v)
  <2> DEFINE r == [vs[v] EXCEPT !.sock = Tail(@), !.needs = @ /\ Head(vs[v].sock) # "I"]
  <2>1. Own(v, r)
    BY <1>5, Zenon DEF BridgeReads
  <2>2. Kept(v, r)
    BY <1>5, Fields, Zenon DEF StrayInv, Kept, Idle, BridgeReads
  <2> QED
    BY <2>1, <2>2, OwnStep, Zenon
<1>6. CASE BrowserAsks(v)
  <2> DEFINE r == [vs[v] EXCEPT !.asks = TRUE, !.needs = TRUE]
  <2>1. Own(v, r)
    BY <1>6, Zenon DEF BrowserAsks
  <2>2. Kept(v, r)
    BY <1>6, Fields, Zenon DEF StrayInv, Kept, Idle, BrowserAsks
  <2> QED
    BY <2>1, <2>2, OwnStep, Zenon
<1>7. CASE ForceKeyframe(v)
  <2> DEFINE r == [vs[v] EXCEPT !.force = TRUE, !.asks = FALSE]
  <2>1. Own(v, r)
    BY <1>7, Zenon DEF ForceKeyframe
  <2>2. Kept(v, r)
    BY <1>7, Fields, Zenon DEF StrayInv, Kept, Idle, ForceKeyframe
  <2> QED
    BY <2>1, <2>2, OwnStep, Zenon
<1>8. CASE ReaderEnds(v)
  <2> DEFINE r == [vs[v] EXCEPT !.reader = "done", !.stop = TRUE, !.asks = FALSE]
  <2>1. Own(v, r)
    BY <1>8, Zenon DEF ReaderEnds
  <2>2. Kept(v, r)
    BY <1>8, Fields, Zenon DEF StrayInv, Kept, Idle, ReaderEnds
  <2> QED
    BY <2>1, <2>2, OwnStep, Zenon
<1>9. CASE ParserWrites(v)
  <2> DEFINE r == [vs[v] EXCEPT !.sock = Append(@, Head(vs[v].pipe)), !.pipe = Tail(@)]
  <2>1. Own(v, r)
    BY <1>9, Zenon DEF ParserWrites
  <2>2. Kept(v, r)
    BY <1>9, Fields, Zenon DEF StrayInv, Kept, Idle, ParserWrites
  <2> QED
    BY <2>1, <2>2, OwnStep, Zenon
<1>10. CASE ParserEnds(v)
  <2> DEFINE r == [vs[v] EXCEPT !.parser = "done", !.pipe = <<>>,
                               !.stop = @ \/ vs[v].bridge = "gone"]
  <2>1. Own(v, r)
    BY <1>10, Zenon DEF ParserEnds
  <2>2. Kept(v, r)
    BY <1>10, Fields, Zenon DEF StrayInv, Kept, Idle, ParserEnds
  <2> QED
    BY <2>1, <2>2, OwnStep, Zenon
<1>11. CASE FirstFrame(v)
  <2> DEFINE r == [vs[v] EXCEPT !.enc = "open"]
  <2>1. Own(v, r)
    BY <1>11, Zenon DEF FirstFrame
  <2>2. Kept(v, r)
    BY <1>11, Fields, Zenon DEF StrayInv, Kept, Idle, FirstFrame, Is
  <2> QED
    BY <2>1, <2>2, OwnStep, Zenon
<1> QED
  BY <1>1, <1>2, <1>3, <1>4, <1>5, <1>6, <1>7, <1>8, <1>9, <1>10, <1>11, Zenon

\* A running encoder thread does not touch the flag: whatever else it does to
\* the record keeps the invariant.
LEMMA RunningStep ==
    ASSUME StrayInv, NEW v \in Viewers, ~Idle(vs[v]), NEW r, Own(v, r),
           DOMAIN r = DOMAIN NoViewer, r.stop = vs[v].stop
    PROVE  StrayInv'
<1>1. Kept(v, r)
  BY Zenon DEF Kept
<1> QED
  BY <1>1, OwnStep, Zenon

\* What the functions that update a record leave alone.
LEMMA PictureFields ==
    ASSUME NEW r, DOMAIN r = DOMAIN NoViewer, NEW idr
    PROVE  /\ DOMAIN NextPicParams(r, idr) = DOMAIN NoViewer /\ NextPicParams(r, idr).stop = r.stop
           /\ DOMAIN Overwrites(r) = DOMAIN NoViewer /\ Overwrites(r).stop = r.stop
           /\ DOMAIN VulkanMakes(r) = DOMAIN NoViewer /\ VulkanMakes(r).stop = r.stop
           /\ DOMAIN VulkanFails(r) = DOMAIN NoViewer /\ VulkanFails(r).stop = r.stop
<1>1. DOMAIN NextPicParams(r, idr) = DOMAIN NoViewer /\ NextPicParams(r, idr).stop = r.stop
  BY Fields, Zenon DEF NextPicParams
<1>2. DOMAIN Overwrites(r) = DOMAIN NoViewer /\ Overwrites(r).stop = r.stop
  BY Fields, Zenon DEF Overwrites
<1>3. DOMAIN VulkanMakes(r) = DOMAIN NoViewer /\ VulkanMakes(r).stop = r.stop
  BY Fields, Zenon DEF VulkanMakes, Made
<1>4. DOMAIN VulkanFails(r) = DOMAIN NoViewer /\ VulkanFails(r).stop = r.stop
  <2>1. DOMAIN [Done(r) EXCEPT !.wedged = TRUE] = DOMAIN NoViewer
        /\ [Done(r) EXCEPT !.wedged = TRUE].stop = r.stop
    BY DoneKept, Fields, Zenon
  <2>2. DOMAIN [r EXCEPT !.enc = "loop", !.fail = @ + 1] = DOMAIN NoViewer
        /\ [r EXCEPT !.enc = "loop", !.fail = @ + 1].stop = r.stop
    BY Fields, Zenon
  <2> QED
    BY <2>1, <2>2, Zenon DEF VulkanFails
<1> QED
  BY <1>1, <1>2, <1>3, <1>4, Zenon

\* Every step of an encoder thread, one case per action.
LEMMA EncoderKeeps ==
    ASSUME StrayInv, NEW v \in Viewers, EncoderStep(v)
    PROVE  StrayInv'
<1>1. CASE FirstBlack(v)
  <2>0. ~Idle(vs[v]) /\ DOMAIN vs[v] = DOMAIN NoViewer
    BY <1>1, Zenon DEF FirstBlack, FirstFrame, Is, Idle, StrayInv
  <2>1. ASSUME Own(v, [vs[v] EXCEPT !.enc = "open"]) PROVE StrayInv'
    BY <2>0, <2>1, RunningStep, Fields, Zenon
  <2> QED
    BY <1>1, <2>1, Zenon DEF FirstBlack, FirstFrame
<1>2. CASE FirstStops(v)
  <2>0. ~Idle(vs[v]) /\ DOMAIN vs[v] = DOMAIN NoViewer
    BY <1>2, Zenon DEF FirstStops, Is, Idle, StrayInv
  <2>1. ASSUME Own(v, Done(vs[v])) PROVE StrayInv'
    BY <2>0, <2>1, RunningStep, Fields, DoneKept, Zenon
  <2> QED
    BY <1>2, <2>1, Zenon DEF FirstStops
<1>3. CASE OpenEncoder(v)
  <2>0. ~Idle(vs[v]) /\ DOMAIN vs[v] = DOMAIN NoViewer
    BY <1>3, Zenon DEF OpenEncoder, Is, Idle, StrayInv
  <2>1. ASSUME Own(v, Done(vs[v])) PROVE StrayInv'
    BY <2>0, <2>1, RunningStep, Fields, DoneKept, Zenon
  <2>2. ASSUME Own(v, [vs[v] EXCEPT !.codec = "nvenc", !.enc = "first"]) PROVE StrayInv'
    BY <2>0, <2>2, RunningStep, Fields, Zenon
  <2>3. ASSUME Own(v, [vs[v] EXCEPT !.codec = "vulkan", !.enc = "first"]) PROVE StrayInv'
    BY <2>0, <2>3, RunningStep, Fields, Zenon
  <2>4. ASSUME Own(v, [ReaderStarts(vs[v]) EXCEPT !.enc = "encodeFirst"]) PROVE StrayInv'
    BY <2>0, <2>4, RunningStep, Fields, Zenon DEF ReaderStarts
  <2>5. ASSUME Own(v, [ReaderStarts(vs[v]) EXCEPT !.enc = "loop", !.pipe = <<"I">>, !.gop = 1,
                                                     !.parser = "reading"]) PROVE StrayInv'
    BY <2>0, <2>5, RunningStep, Fields, Zenon DEF ReaderStarts
  <2> QED
    BY <1>3, <2>1, <2>2, <2>3, <2>4, <2>5, Zenon
    DEF OpenEncoder, OpenFailed, VulkanOpens, CudaOpens, VaapiOpens, NvencOpens
<1>4. CASE EncodeFirst(v)
  <2> DEFINE r == IF vs[v].codec = "vulkan" THEN NextPicParams(vs[v], TRUE)
                  ELSE [vs[v] EXCEPT !.idr = TRUE]
             made == IF r.codec = "vulkan" THEN VulkanMakes(r) ELSE Made(r)
  <2>0. ~Idle(vs[v]) /\ DOMAIN vs[v] = DOMAIN NoViewer
    BY <1>4, Zenon DEF EncodeFirst, Is, Idle, StrayInv
  <2>1. DOMAIN r = DOMAIN NoViewer /\ r.stop = vs[v].stop
    BY <2>0, PictureFields, Fields, Zenon
  <2>2. DOMAIN made = DOMAIN NoViewer /\ made.stop = vs[v].stop
    BY <2>1, PictureFields, Fields, Zenon DEF Made
  <2>3. ASSUME Own(v, [made EXCEPT !.enc = "writeFirst"]) PROVE StrayInv'
    <3> HIDE DEF made
    <3> QED
      BY <2>0, <2>2, <2>3, RunningStep, Fields, Zenon
  <2>4. ASSUME Own(v, [r EXCEPT !.enc = "loop", !.force = FALSE, !.clean = FALSE]) PROVE StrayInv'
    <3> HIDE DEF r
    <3> QED
      BY <2>0, <2>1, <2>4, RunningStep, Fields, Zenon
  <2>5. ASSUME Own(v, [vs[v] EXCEPT !.enc = "loop", !.force = FALSE]) PROVE StrayInv'
    BY <2>0, <2>5, RunningStep, Fields, Zenon
  <2> QED
    BY <1>4, <2>3, <2>4, <2>5, Zenon DEF EncodeFirst
<1>5. CASE Loop(v)
  <2> DEFINE asked == [vs[v] EXCEPT !.force = FALSE]
             r == NextPicParams(asked, WantsIdr(vs[v]))
             bad == Overwrites([r EXCEPT !.clean = FALSE])
  <2>0. ~Idle(vs[v]) /\ DOMAIN vs[v] = DOMAIN NoViewer
    BY <1>5, Zenon DEF Loop, Is, Idle, StrayInv
  <2>1. DOMAIN asked = DOMAIN NoViewer /\ asked.stop = vs[v].stop
    BY <2>0, Fields, Zenon
  <2>2. DOMAIN r = DOMAIN NoViewer /\ r.stop = vs[v].stop
    <3> HIDE DEF asked
    <3> QED
      BY <2>1, PictureFields, Zenon
  <2>3. DOMAIN [r EXCEPT !.clean = FALSE] = DOMAIN NoViewer
        /\ [r EXCEPT !.clean = FALSE].stop = vs[v].stop
    <3> HIDE DEF r
    <3> QED
      BY <2>2, Fields, Zenon
  <2>4. DOMAIN bad = DOMAIN NoViewer /\ bad.stop = vs[v].stop
    BY <2>3, PictureFields, Zenon
  <2>5. ASSUME Own(v, [r EXCEPT !.enc = "encode"]) PROVE StrayInv'
    <3> HIDE DEF r
    <3> QED
      BY <2>0, <2>2, <2>5, RunningStep, Fields, Zenon
  <2>6. ASSUME Own(v, VulkanFails(asked)) PROVE StrayInv'
    <3> HIDE DEF asked
    <3> QED
      BY <2>0, <2>1, <2>6, RunningStep, PictureFields, Zenon
  <2>7. ASSUME Own(v, VulkanFails(bad)) PROVE StrayInv'
    <3> HIDE DEF bad
    <3> QED
      BY <2>0, <2>4, <2>7, RunningStep, PictureFields, Zenon
  <2>8. ASSUME Own(v, [vs[v] EXCEPT !.idr = vs[v].force, !.enc = "encode"]) PROVE StrayInv'
    BY <2>0, <2>8, RunningStep, Fields, Zenon
  <2>9. ASSUME Own(v, Done(vs[v])) PROVE StrayInv'
    BY <2>0, <2>9, RunningStep, DoneKept, Zenon
  <2>10. ASSUME NEW pic, NEW gop, Own(v, [vs[v] EXCEPT !.force = FALSE, !.gop = gop, !.pipe = pic])
         PROVE  StrayInv'
    BY <2>0, <2>10, RunningStep, Fields, Zenon
  <2>11. ASSUME Own(v, [vs[v] EXCEPT !.enc = "flush"]) PROVE StrayInv'
    BY <2>0, <2>11, RunningStep, Fields, Zenon
  <2>12. CASE VulkanTick(v)
    BY <2>12, <2>5, <2>6, <2>7, Zenon DEF VulkanTick
  <2>13. CASE CudaTick(v) \/ VaapiTick(v)
    BY <2>13, <2>8, <2>9, Zenon DEF CudaTick, VaapiTick
  <2>14. CASE NvencTick(v)
    BY <2>14, <2>10, <2>11, Zenon DEF NvencTick
  <2> QED
    BY <1>5, <2>12, <2>13, <2>14, Zenon DEF Loop
<1>6. CASE ViewerLoopStops(v)
  <2>0. ~Idle(vs[v]) /\ DOMAIN vs[v] = DOMAIN NoViewer
    BY <1>6, Zenon DEF ViewerLoopStops, Is, Idle, StrayInv
  <2>1. ASSUME Own(v, Done(vs[v])) PROVE StrayInv'
    BY <2>0, <2>1, RunningStep, Fields, DoneKept, Zenon
  <2>2. ASSUME Own(v, [vs[v] EXCEPT !.enc = "flush"]) PROVE StrayInv'
    BY <2>0, <2>2, RunningStep, Fields, Zenon
  <2> QED
    BY <1>6, <2>1, <2>2, Zenon DEF ViewerLoopStops
<1>7. CASE VulkanEncoded(v)
  <2>0. ~Idle(vs[v]) /\ DOMAIN vs[v] = DOMAIN NoViewer
    BY <1>7, Zenon DEF VulkanEncoded, Is, Idle, StrayInv
  <2>1. ASSUME Own(v, VulkanMakes(vs[v])) PROVE StrayInv'
    BY <2>0, <2>1, RunningStep, Fields, PictureFields, Zenon
  <2> QED
    BY <1>7, <2>1, Zenon DEF VulkanEncoded
<1>8. CASE InProcessEncoded(v)
  <2>0. ~Idle(vs[v]) /\ DOMAIN vs[v] = DOMAIN NoViewer
    BY <1>8, Zenon DEF InProcessEncoded, Is, Idle, StrayInv
  <2>1. ASSUME Own(v, Made(vs[v])) PROVE StrayInv'
    BY <2>0, <2>1, RunningStep, Fields, Zenon DEF Made
  <2>2. ASSUME Own(v, [vs[v] EXCEPT !.enc = "cursor"]) PROVE StrayInv'
    BY <2>0, <2>2, RunningStep, Fields, Zenon
  <2> QED
    BY <1>8, <2>1, <2>2, Zenon DEF InProcessEncoded
<1>9. CASE Write(v)
  <2>0. ~Idle(vs[v]) /\ DOMAIN vs[v] = DOMAIN NoViewer
    BY <1>9, Zenon DEF Write, Is, Idle, StrayInv
  <2>1. ASSUME Own(v, AfterWrite(Sent(vs[v]))) PROVE StrayInv'
    BY <2>0, <2>1, RunningStep, Fields, Zenon DEF AfterWrite, Sent
  <2> QED
    BY <1>9, <2>1, Zenon DEF Write
<1>10. CASE WriteFails(v)
  <2>0. ~Idle(vs[v]) /\ DOMAIN vs[v] = DOMAIN NoViewer
    BY <1>10, Zenon DEF WriteFails, Is, Idle, StrayInv
  <2>1. ASSUME Own(v, Done(vs[v])) PROVE StrayInv'
    BY <2>0, <2>1, RunningStep, Fields, DoneKept, Zenon
  <2> QED
    BY <1>10, <2>1, Zenon DEF WriteFails
<1>11. CASE Settle(v)
  <2>0. ~Idle(vs[v]) /\ DOMAIN vs[v] = DOMAIN NoViewer
    BY <1>11, Zenon DEF Settle, Is, Idle, StrayInv
  <2>1. ASSUME Own(v, [vs[v] EXCEPT !.enc = "cursor", !.force = @ /\ ~vs[v].idr]) PROVE StrayInv'
    BY <2>0, <2>1, RunningStep, Fields, Zenon
  <2> QED
    BY <1>11, <2>1, Zenon DEF Settle
<1>12. CASE DrainCursor(v)
  <2>0. ~Idle(vs[v]) /\ DOMAIN vs[v] = DOMAIN NoViewer
    BY <1>12, Zenon DEF DrainCursor, Is, Idle, StrayInv
  <2>1. ASSUME Own(v, [vs[v] EXCEPT !.enc = "loop"]) PROVE StrayInv'
    BY <2>0, <2>1, RunningStep, Fields, Zenon
  <2>2. ASSUME Own(v, [vs[v] EXCEPT !.enc = "loop", !.sock = Append(@, "C")]) PROVE StrayInv'
    BY <2>0, <2>2, RunningStep, Fields, Zenon
  <2> QED
    BY <1>12, <2>1, <2>2, Zenon DEF DrainCursor
<1>13. CASE NvencDone(v)
  <2>0. ~Idle(vs[v]) /\ DOMAIN vs[v] = DOMAIN NoViewer
    BY <1>13, Zenon DEF NvencDone, Is, Idle, StrayInv
  <2>1. ASSUME Own(v, Done(vs[v])) PROVE StrayInv'
    BY <2>0, <2>1, RunningStep, Fields, DoneKept, Zenon
  <2> QED
    BY <1>13, <2>1, Zenon DEF NvencDone
<1> QED
  BY <1>1, <1>2, <1>3, <1>4, <1>5, <1>6, <1>7, <1>8, <1>9, <1>10, <1>11, <1>12, <1>13, Zenon
  DEF EncoderStep

\* The calls: whoever takes the handle raises the flag of its encoder, and a start
\* runs under the lock with the handle empty.
LEMMA StrayStep == StrayInv /\ [ViewerNext]_viewerVars => StrayInv'
<1> SUFFICES ASSUME StrayInv, [ViewerNext]_viewerVars PROVE StrayInv'
  BY Zenon
<1>0. 0 \notin Viewers
  BY ViewerAssumption DEF Viewers
<1>1. ASSUME NEW r, cur \in Viewers, Becomes(cur, r), cur' = 0, starting' = starting,
             DOMAIN r = DOMAIN NoViewer, r.stop
      PROVE  StrayInv'
  <2>1. vs' = [u \in Viewers |-> IF u = cur THEN r ELSE vs[u]]
    BY <1>1, Zenon DEF StrayInv, Becomes
  <2> QED
    BY <1>1, <2>1, Zenon DEF StrayInv, Idle
<1>2. CASE ViewerStop
  <2> DEFINE r == [vs[cur] EXCEPT !.stop = TRUE, !.closer = "join"]
  <2>1. cur \in Viewers /\ DOMAIN r = DOMAIN NoViewer /\ r.stop
    BY <1>2, Fields, Zenon DEF ViewerStop, StrayInv
  <2> QED
    BY <1>1, <1>2, <2>1, Zenon DEF ViewerStop
<1>3. CASE ShutdownViewer
  <2> DEFINE r == [vs[cur] EXCEPT !.stop = TRUE, !.closer = "term"]
  <2>1. cur \in Viewers /\ DOMAIN r = DOMAIN NoViewer /\ r.stop
    BY <1>3, Fields, Zenon DEF ShutdownViewer, StrayInv
  <2> QED
    BY <1>1, <1>3, <2>1, Zenon DEF ShutdownViewer
<1>4. ASSUME NEW v \in Viewers, ViewerStart(v) PROVE StrayInv'
  <2>1. PICK c \in ViewerCodec : Becomes(v, [NoViewer EXCEPT !.codec = c, !.bridge = "starting"])
    BY <1>4, Zenon DEF ViewerStart
  <2> DEFINE r == [NoViewer EXCEPT !.codec = c, !.bridge = "starting"]
  <2>2. DOMAIN r = DOMAIN NoViewer /\ r.enc = "none"
    BY Fields, Zenon DEF NoViewer
  <2>3. vs' = [u \in Viewers |-> IF u = v THEN r ELSE vs[u]]
    BY <2>1, Zenon DEF StrayInv, Becomes
  <2> QED
    BY <1>4, <2>2, <2>3, Zenon DEF ViewerStart, StrayInv, Idle
<1>5. ASSUME NEW v \in Viewers, ViewerStarted(v) PROVE StrayInv'
  <2> DEFINE r == [vs[v] EXCEPT !.enc = "first", !.needs = vs[v].bridge = "up"]
  <2>1. DOMAIN r = DOMAIN NoViewer
    BY Fields, Zenon DEF StrayInv
  <2>2. vs' = [u \in Viewers |-> IF u = v THEN r ELSE vs[u]]
    BY <1>5, Zenon DEF ViewerStarted, StrayInv, Becomes
  <2>3. starting = v /\ cur = 0 /\ cur' = v /\ starting' = 0
    BY <1>0, <1>5, Zenon DEF ViewerStarted, StrayInv
  <2> QED
    BY <1>0, <2>1, <2>2, <2>3, Zenon DEF StrayInv, Idle
<1>6. ASSUME NEW v \in Viewers, ViewerStartFails(v) PROVE StrayInv'
  <2> DEFINE r == [Done(vs[v]) EXCEPT !.closer = "done"]
  <2>1. DOMAIN r = DOMAIN NoViewer /\ r.enc = "done"
    BY DoneKept, Fields, Zenon DEF StrayInv
  <2>2. vs' = [u \in Viewers |-> IF u = v THEN r ELSE vs[u]]
    BY <1>6, Zenon DEF ViewerStartFails, StrayInv, Becomes
  <2>3. cur' = cur /\ starting' = 0
    BY <1>6, Zenon DEF ViewerStartFails
  <2> QED
    BY <2>1, <2>2, <2>3, Zenon DEF StrayInv, Idle
<1>7. CASE UNCHANGED viewerVars
  BY <1>7, Zenon DEF viewerVars, StrayInv, Idle
<1> QED
  BY <1>2, <1>3, <1>4, <1>5, <1>6, <1>7, OutsideStep, EncoderKeeps, Zenon DEF ViewerNext

\* Every encoder thread that runs belongs to the stored handle or was told to
\* stop: for any number of viewers, with any of them still being torn down by a
\* ViewerStop or Shutdown while the next ViewerStart goes on.
THEOREM NoStray == ViewerSpec => []NoStrayEncoder
<1>1. ViewerInit => StrayInv
  BY DEF ViewerInit, StrayInv, NoViewer, Idle
<1>2. StrayInv => NoStrayEncoder
  BY Zenon DEF StrayInv, NoStrayEncoder, Running, Idle
<1> QED
  BY <1>1, <1>2, StrayStep, PTL DEF ViewerSpec

-----------------------------------------------------------------------------
(* The pictures of a GOP refer to one another.  Between two ticks of a GOP in  *)
(* which no encode has failed the picture sent last is in the reference slot,  *)
(* and frame_num counts the pictures since the keyframe; GOP_LEN ends the GOP  *)
(* before it could wrap.                                                       *)

\* The picture being encoded is the (n + 1)-th of its GOP: what next_pic_params
\* chose for it.
Follows(r, n) ==
    /\ r.ref \in {0, 1} /\ r.setup = r.ref /\ r.sentIn = 1 - r.ref
    /\ n \in Nat \ {0} /\ n < GOP_LEN /\ r.num = n + 1 /\ r.sentNum = n - 1

\* A keyframe: what next_pic_params chooses for it.
Begins(r) == r.ref = 0 /\ r.setup = 0 /\ r.num = 1

\* Between two pictures of a GOP.
Between(r) == r.ref \in {0, 1} /\ r.sentIn = r.ref /\ r.num = r.gop /\ r.sentNum = r.gop - 1

\* The state of one encoder thread.
GopOK(r) ==
    /\ r.enc \in {"none", "done", "first", "open", "encodeFirst"} => r.gop = 0
    /\ r.codec = "vulkan" =>
        /\ r.gop \in Nat
        /\ r.enc \notin {"settle", "cursor"}
        /\ r.enc = "loop" /\ r.clean /\ r.gop # 0 => Between(r)
        /\ r.enc = "encode" =>
              IF r.idr THEN Begins(r) ELSE r.clean => Follows(r, r.gop)
        /\ r.enc \in {"write", "writeFirst"} =>
              IF r.idr THEN Begins(r) /\ r.gop = 1 ELSE r.clean => Follows(r, r.gop - 1)

\* The inductive invariant, beside StrayInv.
GopInv ==
    /\ starting # 0 => Idle(vs[starting])
    /\ \A v \in Viewers : GopOK(vs[v])

\* What GopOK looks at, but for where the thread is.
SamePicture(q, r) ==
    /\ q.codec = r.codec /\ q.idr = r.idr /\ q.gop = r.gop /\ q.clean = r.clean /\ q.num = r.num
    /\ q.ref = r.ref /\ q.setup = r.setup /\ q.sentIn = r.sentIn /\ q.sentNum = r.sentNum

LEMMA SameGop ==
    ASSUME NEW r, NEW q, GopOK(r), SamePicture(q, r), q.enc = r.enc
    PROVE  GopOK(q)
  BY Zenon DEF GopOK, SamePicture, Follows, Begins, Between

\* frame_num within a GOP does not wrap.
LEMMA NoWrap ==
    /\ \A n \in Nat : n < GOP_LEN => (n + 1) % MaxFrameNum = n + 1
    /\ \A n \in Nat \ {0} : n <= GOP_LEN => (n + MaxFrameNum - 1) % MaxFrameNum = n - 1
<1>1. GOP_LEN \in Nat /\ MaxFrameNum \in Nat \ {0} /\ GOP_LEN < MaxFrameNum
  BY ViewerAssumption
<1>2. ASSUME NEW n \in Nat, n < GOP_LEN PROVE (n + 1) % MaxFrameNum = n + 1
  <2>1. n + 1 \in 0 .. MaxFrameNum - 1
    BY <1>1, <1>2
  <2> QED
    BY <1>1, <2>1
<1>3. ASSUME NEW n \in Nat \ {0}, n <= GOP_LEN PROVE (n + MaxFrameNum - 1) % MaxFrameNum = n - 1
  <2>1. n \in 1 .. MaxFrameNum
    BY <1>1, <1>3
  <2> QED
    BY <1>1, <2>1
<1> QED
  BY <1>2, <1>3, Zenon

\* A step of v's own threads that leaves its record in order.
LEMMA GopOwn ==
    ASSUME StrayInv, GopInv, NEW v \in Viewers, NEW r, Own(v, r), GopOK(r), Idle(vs[v]) => Idle(r)
    PROVE  GopInv'
<1>1. starting' = starting /\ vs' = [u \in Viewers |-> IF u = v THEN r ELSE vs[u]]
  BY Zenon DEF Own, Becomes, StrayInv
<1>2. starting # 0 => starting \in Viewers
  BY Zenon DEF StrayInv
<1>3. starting' # 0 => Idle(vs'[starting'])
  BY <1>1, <1>2, Zenon DEF GopInv
<1>4. \A u \in Viewers : GopOK(vs'[u])
  BY <1>1, Zenon DEF GopInv
<1>5. (GopInv)' <=> ((starting' # 0 => Idle(vs'[starting'])) /\ \A u \in Viewers : GopOK(vs'[u]))
  BY Zenon DEF GopInv, Idle, GopOK, Follows, Begins, Between
<1> QED
  BY <1>3, <1>4, <1>5, Zenon

LEMMA DoneGop == ASSUME NEW r, DOMAIN r = DOMAIN NoViewer PROVE GopOK(Done(r)) /\ Idle(Done(r))
<1>1. Done(r).enc = "done" /\ Done(r).gop = 0 /\ Done(r).codec = "none"
  BY Fields, Zenon DEF Done
<1> QED
  BY <1>1, Zenon DEF GopOK, Idle

\* The steps beside the encoder thread.
LEMMA OutsideGop ==
    ASSUME StrayInv, GopInv, NEW v \in Viewers,
           \/ ViewerJoined(v) \/ KillViewerChild(v) \/ BridgeConnects(v) \/ BridgeDies(v)
           \/ BridgeReads(v) \/ BrowserAsks(v) \/ ForceKeyframe(v) \/ ReaderEnds(v)
           \/ ParserWrites(v) \/ ParserEnds(v) \/ FirstFrame(v)
    PROVE  GopInv'
<1>0. DOMAIN vs[v] = DOMAIN NoViewer /\ GopOK(vs[v])
  BY Zenon DEF StrayInv, GopInv
<1>a. ASSUME NEW q, Own(v, q), SamePicture(q, vs[v]), q.enc = vs[v].enc PROVE GopInv'
  <2>1. GopOK(q) /\ (Idle(vs[v]) => Idle(q))
    BY <1>0, <1>a, SameGop, Zenon DEF Idle
  <2> QED
    BY <1>a, <2>1, GopOwn, Zenon
<1>1. CASE ViewerJoined(v)
  <2> DEFINE q == [vs[v] EXCEPT !.closer = "term"]
  <2>1. SamePicture(q, vs[v]) /\ q.enc = vs[v].enc
    BY <1>0, Fields, Zenon DEF SamePicture
  <2> QED
    BY <1>1, <1>a, <2>1, Zenon DEF ViewerJoined
<1>2. CASE KillViewerChild(v)
  <2> DEFINE q == [Gone(vs[v]) EXCEPT !.closer = "done"]
  <2>1. SamePicture(q, vs[v]) /\ q.enc = vs[v].enc
    BY <1>0, Fields, Zenon DEF SamePicture, Gone
  <2> QED
    BY <1>2, <1>a, <2>1, Zenon DEF KillViewerChild
<1>3. CASE BridgeConnects(v)
  <2> DEFINE q == [vs[v] EXCEPT !.bridge = "up"]
  <2>1. SamePicture(q, vs[v]) /\ q.enc = vs[v].enc
    BY <1>0, Fields, Zenon DEF SamePicture
  <2> QED
    BY <1>3, <1>a, <2>1, Zenon DEF BridgeConnects
<1>4. CASE BridgeDies(v)
  <2> DEFINE q == [Gone(vs[v]) EXCEPT !.bridge = IF vs[v].bridge = "up" THEN "gone" ELSE "failed"]
  <2>1. SamePicture(q, vs[v]) /\ q.enc = vs[v].enc
    BY <1>0, Fields, Zenon DEF SamePicture, Gone
  <2> QED
    BY <1>4, <1>a, <2>1, Zenon DEF BridgeDies
<1>5. CASE BridgeReads(v)
  <2> DEFINE q == [vs[v] EXCEPT !.sock = Tail(@), !.needs = @ /\ Head(vs[v].sock) # "I"]
  <2>1. SamePicture(q, vs[v]) /\ q.enc = vs[v].enc
    BY <1>0, Fields, Zenon DEF SamePicture
  <2> QED
    BY <1>5, <1>a, <2>1, Zenon DEF BridgeReads
<1>6. CASE BrowserAsks(v)
  <2> DEFINE q == [vs[v] EXCEPT !.asks = TRUE, !.needs = TRUE]
  <2>1. SamePicture(q, vs[v]) /\ q.enc = vs[v].enc
    BY <1>0, Fields, Zenon DEF SamePicture
  <2> QED
    BY <1>6, <1>a, <2>1, Zenon DEF BrowserAsks
<1>7. CASE ForceKeyframe(v)
  <2> DEFINE q == [vs[v] EXCEPT !.force = TRUE, !.asks = FALSE]
  <2>1. SamePicture(q, vs[v]) /\ q.enc = vs[v].enc
    BY <1>0, Fields, Zenon DEF SamePicture
  <2> QED
    BY <1>7, <1>a, <2>1, Zenon DEF ForceKeyframe
<1>8. CASE ReaderEnds(v)
  <2> DEFINE q == [vs[v] EXCEPT !.reader = "done", !.stop = TRUE, !.asks = FALSE]
  <2>1. SamePicture(q, vs[v]) /\ q.enc = vs[v].enc
    BY <1>0, Fields, Zenon DEF SamePicture
  <2> QED
    BY <1>8, <1>a, <2>1, Zenon DEF ReaderEnds
<1>9. CASE ParserWrites(v)
  <2> DEFINE q == [vs[v] EXCEPT !.sock = Append(@, Head(vs[v].pipe)), !.pipe = Tail(@)]
  <2>1. SamePicture(q, vs[v]) /\ q.enc = vs[v].enc
    BY <1>0, Fields, Zenon DEF SamePicture
  <2> QED
    BY <1>9, <1>a, <2>1, Zenon DEF ParserWrites
<1>10. CASE ParserEnds(v)
  <2> DEFINE q == [vs[v] EXCEPT !.parser = "done", !.pipe = <<>>, !.stop = @ \/ vs[v].bridge = "gone"]
  <2>1. SamePicture(q, vs[v]) /\ q.enc = vs[v].enc
    BY <1>0, Fields, Zenon DEF SamePicture
  <2> QED
    BY <1>10, <1>a, <2>1, Zenon DEF ParserEnds
<1>11. CASE FirstFrame(v)
  <2> DEFINE q == [vs[v] EXCEPT !.enc = "open"]
  <2>1. SamePicture(q, vs[v]) /\ q.enc = "open" /\ vs[v].enc = "first"
    BY <1>0, <1>11, Fields, Zenon DEF SamePicture, FirstFrame, Is
  <2>2. GopOK(q) /\ ~Idle(vs[v])
    BY <1>0, <2>1, Zenon DEF GopOK, SamePicture, Idle
  <2> QED
    BY <1>11, <2>2, GopOwn, Zenon DEF FirstFrame
<1> QED
  BY <1>1, <1>2, <1>3, <1>4, <1>5, <1>6, <1>7, <1>8, <1>9, <1>10, <1>11, Zenon

\* What next_pic_params chooses: a keyframe, or the picture after the last one.
KeyPicture(r) == [r EXCEPT !.idr = TRUE, !.setup = 0, !.num = 1, !.ref = 0]
NextPicture(r) == [r EXCEPT !.idr = FALSE, !.setup = 1 - r.ref, !.ref = 1 - r.ref,
                            !.num = (@ + 1) % MaxFrameNum]

\* What it leaves alone.
SameSoFar(p, r) ==
    /\ DOMAIN p = DOMAIN NoViewer /\ p.codec = r.codec /\ p.gop = r.gop
    /\ p.clean = r.clean /\ p.sentIn = r.sentIn /\ p.sentNum = r.sentNum

LEMMA KeyFields ==
    ASSUME NEW r, DOMAIN r = DOMAIN NoViewer
    PROVE  SameSoFar(KeyPicture(r), r) /\ KeyPicture(r).idr = TRUE /\ Begins(KeyPicture(r))
  BY Fields, Zenon DEF KeyPicture, Begins, SameSoFar

LEMMA NextFields ==
    ASSUME NEW r, DOMAIN r = DOMAIN NoViewer
    PROVE  LET p == NextPicture(r)
           IN  /\ SameSoFar(p, r) /\ p.idr = FALSE /\ p.setup = 1 - r.ref /\ p.ref = 1 - r.ref
               /\ p.num = (r.num + 1) % MaxFrameNum
  BY Fields, Zenon DEF NextPicture, SameSoFar

\* A tick without a picture.
LEMMA FailsGop ==
    ASSUME NEW r, DOMAIN r = DOMAIN NoViewer, r.codec = "vulkan", r.gop \in Nat,
           r.clean /\ r.gop # 0 => Between(r)
    PROVE  GopOK(VulkanFails(r))
<1> DEFINE d == [Done(r) EXCEPT !.wedged = TRUE]
           q == [r EXCEPT !.enc = "loop", !.fail = @ + 1]
<1>1. d.enc = "done" /\ d.gop = 0 /\ d.codec = "none"
  BY Fields, Zenon DEF Done
<1>2. q.enc = "loop" /\ SamePicture(q, r)
  BY Fields, Zenon DEF SamePicture
<1>3. VulkanFails(r) \in {d, q}
  BY Zenon DEF VulkanFails
<1> HIDE DEF d, q
<1>4. GopOK(d)
  BY <1>1, Zenon DEF GopOK
<1>5. GopOK(q)
  BY <1>2, Zenon DEF GopOK, SamePicture, Between
<1> QED
  BY <1>3, <1>4, <1>5, Zenon

\* The encode of a picture that next_pic_params chose comes back.
LEMMA MakesGop ==
    ASSUME NEW r, DOMAIN r = DOMAIN NoViewer, r.codec = "vulkan", r.gop \in Nat,
           IF r.idr THEN Begins(r) ELSE r.clean => Follows(r, r.gop),
           NEW q, q \in {VulkanMakes(r), [VulkanMakes(r) EXCEPT !.enc = "writeFirst"]}
    PROVE  GopOK(q)
<1>1. /\ q.enc \in {"write", "writeFirst"} /\ q.codec = r.codec /\ q.idr = r.idr
      /\ q.gop = (IF r.idr THEN 1 ELSE r.gop + 1) /\ q.clean = (r.clean \/ r.idr)
      /\ q.num = r.num /\ q.ref = r.ref /\ q.setup = r.setup /\ q.sentIn = r.sentIn /\ q.sentNum = r.sentNum
  BY Fields, ZenonT(30) DEF VulkanMakes, Made
<1>2. CASE r.idr
  BY <1>1, <1>2 DEF GopOK, Begins
<1>3. CASE ~r.idr
  <2>1. q.gop = r.gop + 1 /\ q.gop - 1 = r.gop
    BY <1>1, <1>3
  <2>2. ~q.idr /\ (q.clean => r.clean)
    BY <1>1, <1>3, Zenon
  <2> QED
    BY <1>1, <1>3, <2>1, <2>2 DEF GopOK, Follows
<1> QED
  BY <1>2, <1>3, Zenon

\* The write, after which the thread goes round.
LEMMA WriteGop ==
    ASSUME NEW r, DOMAIN r = DOMAIN NoViewer, GopOK(r), r.enc \in {"write", "writeFirst"}
    PROVE  GopOK(AfterWrite(Sent(r)))
<1> DEFINE p == Sent(r)
           q == AfterWrite(p)
<1>1. /\ DOMAIN p = DOMAIN NoViewer /\ p.enc = r.enc /\ p.codec = r.codec /\ p.gop = r.gop /\ p.clean = r.clean
      /\ p.num = r.num /\ p.ref = r.ref /\ p.sentIn = r.setup
      /\ p.sentNum = IF r.idr THEN 0 ELSE (r.num + MaxFrameNum - 1) % MaxFrameNum
  BY Fields, Zenon DEF Sent
<1> HIDE DEF p
<1>2. /\ q.enc \in {"loop", "settle"} /\ (r.codec = "vulkan" => q.enc = "loop") /\ q.codec = p.codec
      /\ q.gop = p.gop /\ q.clean = p.clean /\ q.num = p.num /\ q.ref = p.ref
      /\ q.sentIn = p.sentIn /\ q.sentNum = p.sentNum
  BY <1>1, Fields, Zenon DEF AfterWrite
<1>3. AfterWrite(Sent(r)) = q
  BY Zenon DEF p
<1> HIDE DEF q
<1>4. ASSUME r.codec = "vulkan", r.clean, ~r.idr PROVE Between(q)
  <2>1. Follows(r, r.gop - 1) /\ r.gop \in Nat
    BY <1>4, Zenon DEF GopOK
  <2>2. r.num = r.gop /\ r.gop \in Nat \ {0} /\ r.gop <= GOP_LEN
    BY <2>1, ViewerAssumption DEF Follows
  <2>3. (r.num + MaxFrameNum - 1) % MaxFrameNum = r.gop - 1
    BY <2>2, NoWrap, Zenon
  <2> QED
    BY <1>1, <1>2, <1>4, <2>1, <2>2, <2>3 DEF Follows, Between
<1>5. ASSUME r.codec = "vulkan", r.idr PROVE Between(q)
  <2>1. Begins(r) /\ r.gop = 1
    BY <1>5, Zenon DEF GopOK
  <2> QED
    BY <1>1, <1>2, <1>5, <2>1 DEF Begins, Between
<1>6. r.codec = "vulkan" => r.gop \in Nat
  BY Zenon DEF GopOK
<1>7. GopOK(q)
  BY <1>1, <1>2, <1>4, <1>5, <1>6, Zenon DEF GopOK
<1> QED
  BY <1>3, <1>7, Zenon

\* Every step of an encoder thread, one case per action.
LEMMA EncoderGop ==
    ASSUME StrayInv, GopInv, NEW v \in Viewers, EncoderStep(v)
    PROVE  GopInv'
<1> DEFINE r == vs[v]
<1>0. DOMAIN r = DOMAIN NoViewer /\ GopOK(r)
  BY Zenon DEF StrayInv, GopInv
<1>a. ~Idle(r)
  BY Zenon
  DEF EncoderStep, FirstBlack, FirstFrame, FirstStops, OpenEncoder, EncodeFirst, Loop, ViewerLoopStops,
         VulkanEncoded, InProcessEncoded, Write, WriteFails, Settle, DrainCursor, NvencDone, Is, Idle
<1>b. ASSUME NEW q, Own(v, q), GopOK(q) PROVE GopInv'
  BY <1>a, <1>b, GopOwn, Zenon
<1>c. ASSUME Own(v, Done(r)) PROVE GopInv'
  BY <1>0, <1>b, <1>c, DoneGop, Zenon
<1>1. CASE FirstBlack(v)
  BY <1>1, OutsideGop, Zenon DEF FirstBlack
<1>2. CASE FirstStops(v) \/ WriteFails(v) \/ NvencDone(v)
  BY <1>2, <1>c, Zenon DEF FirstStops, WriteFails, NvencDone
<1>3. CASE OpenEncoder(v)
  <2>0. r.enc = "open" /\ r.gop = 0
    BY <1>0, <1>3, Zenon DEF OpenEncoder, Is, GopOK
  <2>1. ASSUME NEW c, Own(v, [r EXCEPT !.codec = c, !.enc = "first"]) PROVE GopInv'
    <3> DEFINE q == [r EXCEPT !.codec = c, !.enc = "first"]
    <3>1. q.enc = "first" /\ q.gop = 0
      BY <1>0, <2>0, Fields, Zenon
    <3>2. Own(v, q)
      BY <2>1, Zenon
    <3> HIDE DEF q
    <3>3. GopOK(q)
      BY <3>1 DEF GopOK
    <3> QED
      BY <1>b, <3>2, <3>3, Zenon
  <2>2. ASSUME Own(v, [ReaderStarts(r) EXCEPT !.enc = "encodeFirst"]) PROVE GopInv'
    <3> DEFINE q == [ReaderStarts(r) EXCEPT !.enc = "encodeFirst"]
    <3>1. q.enc = "encodeFirst" /\ q.gop = 0
      BY <1>0, <2>0, Fields, Zenon DEF ReaderStarts
    <3>2. Own(v, q)
      BY <2>2, Zenon
    <3> HIDE DEF q
    <3>3. GopOK(q)
      BY <3>1 DEF GopOK
    <3> QED
      BY <1>b, <3>2, <3>3, Zenon
  <2>3. ASSUME r.codec = "nvenc",
               Own(v, [ReaderStarts(r) EXCEPT !.enc = "loop", !.pipe = <<"I">>, !.gop = 1,
                                              !.parser = "reading"])
        PROVE  GopInv'
    <3> DEFINE q == [ReaderStarts(r) EXCEPT !.enc = "loop", !.pipe = <<"I">>, !.gop = 1,
                                            !.parser = "reading"]
    <3>1. q.enc = "loop" /\ q.codec = "nvenc"
      BY <1>0, <2>3, Fields, Zenon DEF ReaderStarts
    <3>2. Own(v, q)
      BY <2>3, Zenon
    <3> HIDE DEF q
    <3>3. GopOK(q)
      BY <3>1, Zenon DEF GopOK
    <3> QED
      BY <1>b, <3>2, <3>3, Zenon
  <2> QED
    BY <1>3, <1>c, <2>1, <2>2, <2>3, Zenon
    DEF OpenEncoder, OpenFailed, VulkanOpens, CudaOpens, VaapiOpens, NvencOpens
<1>4. ASSUME NEW q, Own(v, q), q.codec # "vulkan",
             q.enc \notin {"none", "done", "first", "open", "encodeFirst"}
      PROVE  GopInv'
  <2>1. GopOK(q)
    BY <1>4, Zenon DEF GopOK
  <2> QED
    BY <1>4, <1>b, <2>1, Zenon
<1>5. CASE EncodeFirst(v)
  <2>0. r.enc = "encodeFirst" /\ r.gop = 0
    BY <1>0, <1>5, Zenon DEF EncodeFirst, Is, GopOK
  <2>1. ASSUME NEW p, DOMAIN p = DOMAIN NoViewer, p.codec = r.codec, p.gop = 0,
               NEW q, q \in {[p EXCEPT !.enc = "loop", !.force = FALSE, !.clean = FALSE],
                             [p EXCEPT !.enc = "loop", !.force = FALSE]}, Own(v, q)
        PROVE  GopInv'
    <3>1. q.enc = "loop" /\ q.gop = 0
      BY <2>1, Fields, Zenon
    <3>2. GopOK(q)
      BY <3>1 DEF GopOK
    <3> QED
      BY <1>b, <2>1, <3>2, Zenon
  <2>2. CASE r.codec = "vulkan"
    <3> DEFINE p == NextPicParams(r, TRUE)
    <3>1. DOMAIN p = DOMAIN NoViewer /\ p.codec = "vulkan" /\ p.gop = 0 /\ p.idr = TRUE /\ Begins(p)
      <4>1. p = KeyPicture(r)
        BY Zenon DEF NextPicParams, KeyPicture
      <4> HIDE DEF p, r
      <4> QED
        BY <1>0, <2>0, <2>2, <4>1, KeyFields, Zenon DEF SameSoFar
    <3>2. \/ Own(v, [VulkanMakes(p) EXCEPT !.enc = "writeFirst"])
          \/ Own(v, [p EXCEPT !.enc = "loop", !.force = FALSE, !.clean = FALSE])
          \/ Own(v, [r EXCEPT !.enc = "loop", !.force = FALSE])
      BY <1>5, <2>2, <3>1, Zenon DEF EncodeFirst
    <3> HIDE DEF p
    <3>3. CASE Own(v, [VulkanMakes(p) EXCEPT !.enc = "writeFirst"])
      <4> DEFINE q == [VulkanMakes(p) EXCEPT !.enc = "writeFirst"]
      <4>1. GopOK(q)
        BY <3>1, MakesGop
      <4> QED
        BY <1>b, <3>3, <4>1, Zenon
    <3>4. CASE Own(v, [p EXCEPT !.enc = "loop", !.force = FALSE, !.clean = FALSE])
      BY <2>1, <2>2, <3>1, <3>4, Zenon
    <3>5. CASE Own(v, [r EXCEPT !.enc = "loop", !.force = FALSE])
      <4> HIDE DEF r
      <4> QED
        BY <1>0, <2>0, <2>1, <3>5, Zenon
    <3> QED
      BY <3>2, <3>3, <3>4, <3>5, Zenon
  <2>3. CASE r.codec # "vulkan"
    <3> DEFINE p == [r EXCEPT !.idr = TRUE]
    <3>1. DOMAIN p = DOMAIN NoViewer /\ p.codec = r.codec /\ p.gop = 0
      BY <1>0, <2>0, Fields, Zenon
    <3>2. \/ Own(v, [Made(p) EXCEPT !.enc = "writeFirst"])
          \/ Own(v, [p EXCEPT !.enc = "loop", !.force = FALSE, !.clean = FALSE])
          \/ Own(v, [r EXCEPT !.enc = "loop", !.force = FALSE])
      BY <1>5, <2>3, <3>1, Zenon DEF EncodeFirst
    <3> HIDE DEF p
    <3>3. CASE Own(v, [Made(p) EXCEPT !.enc = "writeFirst"])
      <4> DEFINE q == [Made(p) EXCEPT !.enc = "writeFirst"]
      <4>1. q.enc = "writeFirst" /\ q.codec = r.codec
        BY <3>1, Fields, Zenon DEF Made
      <4> HIDE DEF q
      <4>2. Own(v, q)
        BY <3>3, Zenon DEF q
      <4> QED
        BY <1>4, <2>3, <4>1, <4>2, Zenon
    <3>4. CASE Own(v, [p EXCEPT !.enc = "loop", !.force = FALSE, !.clean = FALSE])
      BY <2>1, <3>1, <3>4, Zenon
    <3>5. CASE Own(v, [r EXCEPT !.enc = "loop", !.force = FALSE])
      <4> HIDE DEF r
      <4> QED
        BY <1>0, <2>0, <2>1, <3>5, Zenon
    <3> QED
      BY <3>2, <3>3, <3>4, <3>5, Zenon
  <2> QED
    BY <2>2, <2>3, Zenon
<1>6. CASE Loop(v) /\ VulkanTick(v) /\ r.codec = "vulkan"
  <2> DEFINE asked == [r EXCEPT !.force = FALSE]
             p == NextPicParams(asked, WantsIdr(r))
             bad == Overwrites([p EXCEPT !.clean = FALSE])
             q == [p EXCEPT !.enc = "encode"]
  <2>0. r.enc = "loop" /\ r.gop \in Nat /\ (r.clean /\ r.gop # 0 => Between(r))
    BY <1>0, <1>6, Zenon DEF Loop, Is, GopOK
  <2>1. DOMAIN asked = DOMAIN NoViewer /\ SamePicture(asked, r)
    BY <1>0, Fields, Zenon DEF SamePicture
  <2>2. Own(v, q) \/ Own(v, VulkanFails(asked)) \/ Own(v, VulkanFails(bad))
    BY <1>6, Zenon DEF VulkanTick
  <2> HIDE DEF asked
  <2>3. /\ SameSoFar(p, asked)
        /\ IF WantsIdr(r) \/ asked.ref = 2 THEN p.idr = TRUE /\ Begins(p)
           ELSE /\ p.idr = FALSE /\ p.setup = 1 - asked.ref /\ p.ref = 1 - asked.ref
                /\ p.num = (asked.num + 1) % MaxFrameNum
    <3>1. IF WantsIdr(r) \/ asked.ref = 2 THEN p = KeyPicture(asked) ELSE p = NextPicture(asked)
      BY Zenon DEF NextPicParams, KeyPicture, NextPicture
    <3> HIDE DEF p
    <3>2. CASE WantsIdr(r) \/ asked.ref = 2
      <4>1. p = KeyPicture(asked)
        BY <3>1, <3>2, Zenon
      <4>2. SameSoFar(p, asked) /\ p.idr = TRUE /\ Begins(p)
        BY <2>1, <4>1, KeyFields, Zenon
      <4> QED
        BY <3>2, <4>2, Zenon
    <3>3. CASE ~(WantsIdr(r) \/ asked.ref = 2)
      <4>1. p = NextPicture(asked)
        BY <3>1, <3>3, Zenon
      <4>2. /\ SameSoFar(p, asked) /\ p.idr = FALSE /\ p.setup = 1 - asked.ref /\ p.ref = 1 - asked.ref
            /\ p.num = (asked.num + 1) % MaxFrameNum
        BY <2>1, <4>1, NextFields, Zenon
      <4> QED
        BY <3>3, <4>2, Zenon
    <3> QED
      BY <3>2, <3>3, Zenon
  <2> HIDE DEF p
  <2>4. GopOK(VulkanFails(asked))
    <3>1. asked.codec = "vulkan" /\ asked.gop \in Nat /\ (asked.clean /\ asked.gop # 0 => Between(asked))
      BY <1>6, <2>0, <2>1, Zenon DEF SamePicture, Between
    <3> QED
      BY <2>1, <3>1, FailsGop, Zenon
  <2>5. GopOK(VulkanFails(bad))
    <3> DEFINE b == [p EXCEPT !.clean = FALSE]
    <3>1. DOMAIN b = DOMAIN NoViewer /\ b.codec = p.codec /\ b.gop = p.gop /\ b.clean = FALSE
      BY <2>3, Fields, Zenon DEF SameSoFar
    <3> HIDE DEF b
    <3>2. DOMAIN Overwrites(b) = DOMAIN NoViewer /\ Overwrites(b).codec = b.codec
          /\ Overwrites(b).gop = b.gop /\ Overwrites(b).clean = b.clean
      BY <3>1, Fields, Zenon DEF Overwrites
    <3>3. bad = Overwrites(b)
      BY Zenon DEF b
    <3> HIDE DEF bad
    <3>4. bad.codec = "vulkan" /\ bad.gop \in Nat /\ bad.clean = FALSE /\ DOMAIN bad = DOMAIN NoViewer
      BY <1>6, <2>0, <2>1, <2>3, <3>1, <3>2, <3>3, Zenon DEF SamePicture, SameSoFar
    <3> QED
      BY <3>4, FailsGop, Zenon
  <2>6. GopOK(q)
    <3>1. /\ q.enc = "encode" /\ q.codec = p.codec /\ q.gop = p.gop /\ q.clean = p.clean /\ q.idr = p.idr
          /\ q.sentIn = p.sentIn /\ q.sentNum = p.sentNum /\ q.setup = p.setup /\ q.ref = p.ref /\ q.num = p.num
      BY <2>3, Fields, Zenon DEF SameSoFar
    <3> HIDE DEF q
    <3>2. q.gop \in Nat /\ q.codec = "vulkan" /\ q.gop = r.gop
      BY <1>6, <2>0, <2>1, <2>3, <3>1, Zenon DEF SamePicture, SameSoFar
    <3>3. CASE WantsIdr(r) \/ asked.ref = 2
      <4>1. q.idr = TRUE /\ Begins(q)
        BY <2>3, <3>1, <3>3, Zenon DEF Begins
      <4> QED
        BY <3>1, <3>2, <4>1, Zenon DEF GopOK
    <3>4. CASE ~(WantsIdr(r) \/ asked.ref = 2)
      <4>1. r.gop # 0 /\ r.gop < GOP_LEN
        BY <2>0, <3>4, ViewerAssumption DEF WantsIdr
      <4>2. q.idr = FALSE
        BY <2>3, <3>1, <3>4, Zenon
      <4>3. ASSUME q.clean PROVE Follows(q, q.gop)
        <5>1. Between(r)
          BY <2>0, <2>1, <2>3, <3>1, <4>1, <4>3, Zenon DEF SamePicture, SameSoFar
        <5>2. q.num = r.gop + 1
          BY <2>0, <2>1, <2>3, <3>1, <3>4, <4>1, <5>1, NoWrap DEF SamePicture, Between, SameSoFar
        <5>3. q.ref = 1 - r.ref /\ q.setup = 1 - r.ref /\ q.sentIn = r.ref /\ q.sentNum = r.gop - 1
          BY <2>1, <2>3, <3>1, <3>4, <5>1, Zenon DEF SamePicture, Between, SameSoFar
        <5> QED
          BY <2>0, <3>2, <4>1, <5>1, <5>2, <5>3 DEF Follows, Between
      <4> QED
        BY <3>1, <3>2, <4>2, <4>3, Zenon DEF GopOK
    <3> QED
      BY <3>3, <3>4, Zenon
  <2> QED
    BY <1>b, <2>2, <2>4, <2>5, <2>6, Zenon
<1>7. CASE Loop(v) /\ (CudaTick(v) \/ VaapiTick(v)) /\ r.codec \in {"cuda", "vaapi"}
  <2> DEFINE q == [r EXCEPT !.idr = r.force, !.enc = "encode"]
  <2>1. q.enc = "encode" /\ q.codec = r.codec
    BY <1>0, Fields, Zenon
  <2>2. Own(v, q) \/ Own(v, Done(r))
    BY <1>7, Zenon DEF CudaTick, VaapiTick
  <2> HIDE DEF q
  <2> QED
    BY <1>4, <1>7, <1>c, <2>1, <2>2, Zenon
<1>8. CASE Loop(v) /\ NvencTick(v) /\ r.codec = "nvenc"
  <2>0. r.enc = "loop"
    BY <1>8, Zenon DEF Loop, Is
  <2>1. ASSUME NEW gop, NEW pipe, Own(v, [r EXCEPT !.force = FALSE, !.gop = gop, !.pipe = pipe])
        PROVE  GopInv'
    <3> DEFINE q == [r EXCEPT !.force = FALSE, !.gop = gop, !.pipe = pipe]
    <3>1. q.enc = "loop" /\ q.codec = "nvenc"
      BY <1>0, <1>8, <2>0, Fields, Zenon
    <3>2. Own(v, q)
      BY <2>1, Zenon
    <3> HIDE DEF q
    <3> QED
      BY <1>4, <3>1, <3>2, Zenon
  <2>2. ASSUME Own(v, [r EXCEPT !.enc = "flush"]) PROVE GopInv'
    <3> DEFINE q == [r EXCEPT !.enc = "flush"]
    <3>1. q.enc = "flush" /\ q.codec = "nvenc"
      BY <1>0, <1>8, Fields, Zenon
    <3>2. Own(v, q)
      BY <2>2, Zenon
    <3> HIDE DEF q
    <3> QED
      BY <1>4, <3>1, <3>2, Zenon
  <2> QED
    BY <1>8, <2>1, <2>2, Zenon DEF NvencTick
<1>9. CASE Loop(v)
  BY <1>6, <1>7, <1>8, <1>9, Zenon DEF Loop
<1>10. CASE ViewerLoopStops(v)
  <2> DEFINE q == [r EXCEPT !.enc = "flush"]
  <2>1. q.enc = "flush" /\ q.codec = r.codec
    BY <1>0, Fields, Zenon
  <2>2. (r.codec = "nvenc" /\ Own(v, q)) \/ Own(v, Done(r))
    BY <1>10, Zenon DEF ViewerLoopStops
  <2> HIDE DEF q
  <2> QED
    BY <1>4, <1>c, <2>1, <2>2, Zenon
<1>11. CASE VulkanEncoded(v)
  <2>1. r.codec = "vulkan" /\ r.gop \in Nat /\ IF r.idr THEN Begins(r) ELSE r.clean => Follows(r, r.gop)
    BY <1>0, <1>11, Zenon DEF VulkanEncoded, Is, GopOK
  <2>2. GopOK(VulkanMakes(r))
    <3> HIDE DEF r
    <3> QED
      BY <1>0, <2>1, MakesGop, Zenon
  <2> QED
    BY <1>11, <1>b, <2>2, Zenon DEF VulkanEncoded
<1>12. CASE InProcessEncoded(v)
  <2>1. ASSUME NEW q, q \in {Made(r), [r EXCEPT !.enc = "cursor"]}, Own(v, q) PROVE GopInv'
    <3>1. q.enc \in {"write", "cursor"} /\ q.codec = r.codec
      BY <1>0, <2>1, Fields, Zenon DEF Made
    <3> QED
      BY <1>12, <1>4, <2>1, <3>1, Zenon DEF InProcessEncoded
  <2> QED
    BY <1>12, <2>1, Zenon DEF InProcessEncoded
<1>13. CASE Write(v)
  BY <1>0, <1>13, <1>b, WriteGop, Zenon DEF Write
<1>14. CASE Settle(v) \/ DrainCursor(v)
  <2>0. r.enc \in {"settle", "cursor"} /\ r.codec # "vulkan"
    BY <1>0, <1>14, Zenon DEF Settle, DrainCursor, Is, GopOK
  <2>1. ASSUME NEW q, Own(v, q),
               q \in {[r EXCEPT !.enc = "cursor", !.force = @ /\ ~r.idr],
                      [r EXCEPT !.enc = "loop"], [r EXCEPT !.enc = "loop", !.sock = Append(@, "C")]}
        PROVE  GopInv'
    <3>1. q.enc \in {"cursor", "loop"} /\ q.codec = r.codec
      BY <1>0, <2>1, Fields, Zenon
    <3> QED
      BY <1>4, <2>0, <2>1, <3>1, Zenon
  <2> QED
    BY <1>14, <2>1, Zenon DEF Settle, DrainCursor
<1> QED
  BY <1>1, <1>2, <1>3, <1>5, <1>9, <1>10, <1>11, <1>12, <1>13, <1>14, Zenon DEF EncoderStep

\* The calls.
LEMMA GopStep == StrayInv /\ GopInv /\ [ViewerNext]_viewerVars => GopInv'
<1> SUFFICES ASSUME StrayInv, GopInv, [ViewerNext]_viewerVars PROVE GopInv'
  BY Zenon
<1>0. 0 \notin Viewers
  BY ViewerAssumption DEF Viewers
<1>1. ASSUME NEW v \in Viewers, NEW r, Becomes(v, r), GopOK(r),
             starting' # 0 => Idle(IF starting' = v THEN r ELSE vs[starting']) /\ starting' \in Viewers
      PROVE  GopInv'
  <2>1. vs' = [u \in Viewers |-> IF u = v THEN r ELSE vs[u]]
    BY <1>1, Zenon DEF Becomes, StrayInv
  <2>2. starting' # 0 => Idle(vs'[starting'])
    BY <1>1, <2>1, Zenon
  <2>3. \A u \in Viewers : GopOK(vs'[u])
    BY <1>1, <2>1, Zenon DEF GopInv
  <2>4. (GopInv)' <=> ((starting' # 0 => Idle(vs'[starting'])) /\ \A u \in Viewers : GopOK(vs'[u]))
    BY Zenon DEF GopInv, Idle, GopOK, Follows, Begins, Between
  <2> QED
    BY <2>2, <2>3, <2>4, Zenon
<1>2. ASSUME ViewerStop \/ ShutdownViewer PROVE GopInv'
  <2> DEFINE r(c) == [vs[cur] EXCEPT !.stop = TRUE, !.closer = c]
  <2>1. cur \in Viewers /\ starting' = 0 /\ \E c : Becomes(cur, r(c))
    BY <1>2, Zenon DEF ViewerStop, ShutdownViewer, StrayInv
  <2>2. PICK c : Becomes(cur, r(c))
    BY <2>1, Zenon
  <2>3. DOMAIN vs[cur] = DOMAIN NoViewer /\ GopOK(vs[cur])
    BY <2>1, Zenon DEF StrayInv, GopInv
  <2>4. SamePicture(r(c), vs[cur]) /\ r(c).enc = vs[cur].enc
    BY <2>3, Fields, Zenon DEF SamePicture
  <2> HIDE DEF r
  <2>5. GopOK(r(c))
    BY <2>3, <2>4, SameGop, Zenon
  <2> QED
    BY <1>1, <2>1, <2>2, <2>5, Zenon
<1>3. ASSUME NEW v \in Viewers, ViewerStart(v) PROVE GopInv'
  <2>1. PICK c \in ViewerCodec : Becomes(v, [NoViewer EXCEPT !.codec = c, !.bridge = "starting"])
    BY <1>3, Zenon DEF ViewerStart
  <2> DEFINE r == [NoViewer EXCEPT !.codec = c, !.bridge = "starting"]
  <2>2. r.enc = "none" /\ r.gop = 0
    BY Fields, Zenon DEF NoViewer
  <2>3. Becomes(v, r) /\ starting' = v
    BY <1>3, <2>1, Zenon DEF ViewerStart
  <2> HIDE DEF r
  <2>4. GopOK(r) /\ Idle(r)
    BY <2>2 DEF GopOK, Idle
  <2> QED
    BY <1>1, <2>3, <2>4, Zenon
<1>4. ASSUME NEW v \in Viewers, ViewerStarted(v) PROVE GopInv'
  <2> DEFINE r == [vs[v] EXCEPT !.enc = "first", !.needs = vs[v].bridge = "up"]
  <2>1. Idle(vs[v]) /\ GopOK(vs[v]) /\ DOMAIN vs[v] = DOMAIN NoViewer
    BY <1>0, <1>4, Zenon DEF ViewerStarted, GopInv, StrayInv
  <2>2. r.enc = "first" /\ r.gop = 0
    BY <2>1, Fields, Zenon DEF GopOK, Idle
  <2>3. Becomes(v, r) /\ starting' = 0
    BY <1>4, Zenon DEF ViewerStarted
  <2> HIDE DEF r
  <2>4. GopOK(r)
    BY <2>2 DEF GopOK
  <2> QED
    BY <1>1, <2>3, <2>4, Zenon
<1>5. ASSUME NEW v \in Viewers, ViewerStartFails(v) PROVE GopInv'
  <2> DEFINE r == [Done(vs[v]) EXCEPT !.closer = "done"]
  <2>1. DOMAIN vs[v] = DOMAIN NoViewer
    BY Zenon DEF StrayInv
  <2>2. r.enc = "done" /\ r.gop = 0 /\ r.codec = "none"
    BY <2>1, Fields, Zenon DEF Done
  <2>3. Becomes(v, r) /\ starting' = 0
    BY <1>5, Zenon DEF ViewerStartFails
  <2> HIDE DEF r
  <2>4. GopOK(r)
    BY <2>2, Zenon DEF GopOK
  <2> QED
    BY <1>1, <2>3, <2>4, Zenon
<1>6. CASE UNCHANGED viewerVars
  BY <1>6 DEF viewerVars, GopInv, Idle, GopOK, Follows, Begins, Between
<1> QED
  BY <1>2, <1>3, <1>4, <1>5, <1>6, OutsideGop, EncoderGop, Zenon DEF ViewerNext

\* While no encode of the GOP has failed, the P-frame about to be sent refers to
\* the slot with the picture sent last and its frame_num follows on without
\* wrapping: for any GOP_LEN below MaxFrameNum, any number of failures tolerated
\* and whatever is forced, dropped or torn down meanwhile (next_pic_params).
THEOREM GopsDecode == ViewerSpec => []GopDecodes
<1>1. ViewerInit => StrayInv /\ GopInv
  BY DEF ViewerInit, StrayInv, GopInv, NoViewer, Idle, GopOK
<1>2. GopInv => GopDecodes
  <2> SUFFICES ASSUME GopInv, NEW v \in Viewers, Is(v, "write"), vs[v].codec = "vulkan", ~vs[v].idr, vs[v].clean
               PROVE  /\ vs[v].sentIn = 1 - vs[v].setup
                      /\ (vs[v].num + MaxFrameNum - 1) % MaxFrameNum = vs[v].sentNum + 1
    BY Zenon DEF GopDecodes
  <2>1. vs[v].gop \in Nat /\ Follows(vs[v], vs[v].gop - 1)
    BY Zenon DEF GopInv, GopOK, Is
  <2>2. vs[v].num = vs[v].gop /\ vs[v].gop \in Nat \ {0} /\ vs[v].gop <= GOP_LEN /\ vs[v].sentNum = vs[v].gop - 2
    BY <2>1, ViewerAssumption DEF Follows
  <2>3. (vs[v].num + MaxFrameNum - 1) % MaxFrameNum = vs[v].gop - 1
    BY <2>2, NoWrap, Zenon
  <2> QED
    BY <2>1, <2>2, <2>3 DEF Follows
<1> QED
  BY <1>1, <1>2, StrayStep, GopStep, PTL DEF ViewerSpec
=============================================================================

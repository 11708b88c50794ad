------------------------- MODULE RecordSessionProofs -------------------------
(* No recording thread is left without anybody to stop it, for any number of  *)
(* threads, frames and codecs.  The threads' own steps start nothing and      *)
(* leave their flag alone; the rest is about the handle: it is empty when a   *)
(* recording starts, and whoever empties it raises the flags of all it held.  *)
EXTENDS RecordSession, TLAPS

Over(r) == r.pc \in {"idle", "ended"}

\* The inductive invariant: the shape of the records, and the property itself.
LeakInv ==
    /\ th = [t \in Thread |-> th[t]]
    /\ \A t \in Thread : DOMAIN th[t] = DOMAIN Idle
    /\ \A t \in Thread : Over(th[t]) \/ th[t].stop \/ t \in rec

LEMMA RecFields == DOMAIN Idle =
    {"pc", "codec", "tick", "stop", "slot", "hand", "size", "cached", "last", "chan", "feeder", "file"}
  BY Zenon DEF Idle

\* A step of a thread's own that starts nothing and leaves the flag alone.
LEMMA BecomeStep ==
    ASSUME LeakInv, NEW t \in Thread, NEW r, Become(t, r),
           DOMAIN r = DOMAIN Idle, r.stop = th[t].stop, Over(th[t]) => Over(r)
    PROVE  LeakInv'
<1>1. rec' = rec /\ th' = [u \in Thread |-> IF u = t THEN r ELSE th[u]]
  BY Zenon DEF Become, LeakInv
<1>2. th' = [u \in Thread |-> th'[u]]
  BY <1>1, Zenon
<1>3. ASSUME NEW u \in Thread
      PROVE  DOMAIN th'[u] = DOMAIN Idle /\ (Over(th'[u]) \/ th'[u].stop \/ u \in rec)
  BY <1>1, Zenon DEF LeakInv
<1> QED
  BY <1>1, <1>2, <1>3, Zenon DEF LeakInv, Over

\* What the functions that update a thread's record do to its flag and its end.
LEMMA UpdateFields ==
    ASSUME NEW r, DOMAIN r = DOMAIN Idle, NEW f, NEW o
    PROVE  /\ DOMAIN Wrote(r, f) = DOMAIN Idle /\ Wrote(r, f).stop = r.stop /\ Wrote(r, f).pc = r.pc
           /\ DOMAIN Cache(r, f) = DOMAIN Idle /\ Cache(r, f).stop = r.stop /\ Cache(r, f).pc = r.pc
           /\ DOMAIN After(r, f, o) = DOMAIN Idle /\ After(r, f, o).stop = r.stop
           /\ DOMAIN Ended(r, f) = DOMAIN Idle /\ Ended(r, f).stop = r.stop /\ Over(Ended(r, f))
<1> DEFINE Same(q, p) == DOMAIN q = DOMAIN Idle /\ q.stop = p.stop /\ q.pc = p.pc
<1>1. ASSUME NEW p, DOMAIN p = DOMAIN Idle PROVE Same(Wrote(p, f), p)
  BY <1>1, RecFields, Zenon DEF Wrote
<1>2. ASSUME NEW p, DOMAIN p = DOMAIN Idle PROVE Same(Cache(p, f), p)
  BY <1>2, RecFields, Zenon DEF Cache
<1>3. DOMAIN After(r, f, o) = DOMAIN Idle /\ After(r, f, o).stop = r.stop
  <2> DEFINE q == [r EXCEPT !.hand = NoFrame]
  <2>1. DOMAIN q = DOMAIN Idle /\ q.stop = r.stop
    BY RecFields, Zenon
  <2> HIDE DEF q
  <2>2. Same(Wrote(q, f), q)
    BY <1>1, <2>1, Zenon
  <2>3. Same(Cache(Wrote(q, f), f), Wrote(q, f))
    BY <1>2, <2>2, Zenon
  <2>4. Same(Cache(q, f), q)
    BY <1>2, <2>1, Zenon
  <2>5. DOMAIN [q EXCEPT !.pc = "closing"] = DOMAIN Idle /\ [q EXCEPT !.pc = "closing"].stop = q.stop
    BY <2>1, RecFields, Zenon
  <2>6. After(r, f, o) \in {Cache(Wrote(q, f), f), Wrote(q, f), Cache(q, f), [q EXCEPT !.pc = "closing"], q}
    BY Zenon DEF After, q
  <2> QED
    BY <2>1, <2>2, <2>3, <2>4, <2>5, <2>6, Zenon
<1>4. DOMAIN Ended(r, f) = DOMAIN Idle /\ Ended(r, f).stop = r.stop /\ Over(Ended(r, f))
  BY RecFields, Zenon DEF Ended, Over, Idle
<1> QED
  BY <1>1, <1>2, <1>3, <1>4, Zenon

\* Every step of a recording thread and of its writer thread, one case per action.
LEMMA ThreadKeeps ==
    ASSUME LeakInv, NEW t \in Thread, ThreadStep(t) \/ FeederStep(t)
    PROVE  LeakInv'
<1>0. DOMAIN th[t] = DOMAIN Idle
  BY Zenon DEF LeakInv
<1>1. ASSUME NEW f, Become(t, Ended(th[t], f)) PROVE LeakInv'
  BY <1>0, <1>1, BecomeStep, UpdateFields, Zenon
<1>2. CASE FirstEnds(t) \/ OpenFails(t) \/ CloseFile(t)
  BY <1>1, <1>2, Zenon DEF FirstEnds, OpenFails, CloseFile
<1>3. CASE TakeFirst(t)
  <2>1. ASSUME Become(t, [th[t] EXCEPT !.pc = "open", !.slot = NoFrame,
                                       !.hand = th[t].slot, !.size = th[t].slot.size])
        PROVE  LeakInv'
    BY <1>0, <1>3, <2>1, BecomeStep, RecFields, Zenon DEF TakeFirst, Over
  <2>2. ASSUME Become(t, [th[t] EXCEPT !.slot = NoFrame]) PROVE LeakInv'
    BY <1>0, <2>2, BecomeStep, RecFields, Zenon DEF Over
  <2> QED
    BY <1>3, <2>1, <2>2, Zenon DEF TakeFirst
<1>4. CASE OpenFile(t)
  <2> DEFINE r == [th[t] EXCEPT !.pc = "loop", !.file = "open"]
  <2>1. ~Over(th[t]) /\ DOMAIN r = DOMAIN Idle /\ r.stop = th[t].stop
    BY <1>0, <1>4, RecFields, Zenon DEF OpenFile, Over
  <2>2. PICK o \in WritesFirst(th[t].codec) : Become(t, After(r, th[t].hand, o))
    BY <1>4, Zenon DEF OpenFile
  <2> HIDE DEF r
  <2> QED
    BY <2>1, <2>2, BecomeStep, UpdateFields
<1>5. CASE OpenFfmpeg(t)
  <2> DEFINE r == [th[t] EXCEPT !.pc = "loop", !.file = "open", !.feeder = "run",
                                !.chan = <<th[t].hand>>, !.hand = NoFrame]
  <2>1. ~Over(th[t]) /\ DOMAIN r = DOMAIN Idle /\ r.stop = th[t].stop
    BY <1>0, <1>5, RecFields, Zenon DEF OpenFfmpeg, Over
  <2>2. Become(t, Cache(r, th[t].hand))
    BY <1>5, Zenon DEF OpenFfmpeg
  <2> HIDE DEF r
  <2> QED
    BY <2>1, <2>2, BecomeStep, UpdateFields
<1>6. CASE LoopStops(t)
  BY <1>0, <1>6, BecomeStep, RecFields, Zenon DEF LoopStops, Over
<1>7. CASE TakeNext(t)
  <2> DEFINE f == th[t].slot
             r == [th[t] EXCEPT !.slot = NoFrame]
             sent == [Cache(r, f) EXCEPT !.pc = "send", !.hand = f]
  <2>1. ~Over(th[t]) /\ DOMAIN r = DOMAIN Idle /\ r.stop = th[t].stop
    BY <1>0, <1>7, RecFields, Zenon DEF TakeNext, Over
  <2>2. PICK o : Become(t, IF o = "sent" THEN sent ELSE After(r, f, o))
    BY <1>7, Zenon DEF TakeNext
  <2> HIDE DEF r
  <2>3. DOMAIN Cache(r, f) = DOMAIN Idle /\ Cache(r, f).stop = th[t].stop
    BY <2>1, UpdateFields
  <2>4. DOMAIN sent = DOMAIN Idle /\ sent.stop = th[t].stop
    BY <2>3, RecFields, Zenon
  <2>5. DOMAIN After(r, f, o) = DOMAIN Idle /\ After(r, f, o).stop = th[t].stop
    BY <2>1, UpdateFields
  <2> HIDE DEF sent
  <2> QED
    BY <2>1, <2>2, <2>4, <2>5, BecomeStep, Zenon
<1>8. CASE Duplicate(t)
  <2>1. ~Over(th[t])
    BY <1>8, Zenon DEF Duplicate, Over
  <2>2. ASSUME Become(t, Wrote(th[t], th[t].cached)) PROVE LeakInv'
    BY <1>0, <2>1, <2>2, BecomeStep, UpdateFields, Zenon
  <2>3. ASSUME Become(t, [th[t] EXCEPT !.pc = "closing"]) PROVE LeakInv'
    BY <1>0, <2>1, <2>3, BecomeStep, RecFields, Zenon
  <2>4. ASSUME Become(t, [th[t] EXCEPT !.pc = "send", !.hand = th[t].cached]) PROVE LeakInv'
    BY <1>0, <2>1, <2>4, BecomeStep, RecFields, Zenon
  <2> QED
    BY <1>8, <2>2, <2>3, <2>4, Zenon DEF Duplicate
<1>9. CASE SendFrame(t)
  <2>1. ~Over(th[t])
    BY <1>9, Zenon DEF SendFrame, Over
  <2>2. ASSUME Become(t, [th[t] EXCEPT !.pc = "loop", !.hand = NoFrame,
                                       !.chan = Append(@, th[t].hand)])
        PROVE  LeakInv'
    BY <1>0, <2>1, <2>2, BecomeStep, RecFields, Zenon
  <2>3. ASSUME Become(t, [th[t] EXCEPT !.pc = "closing", !.hand = NoFrame]) PROVE LeakInv'
    BY <1>0, <2>1, <2>3, BecomeStep, RecFields, Zenon
  <2> QED
    BY <1>9, <2>2, <2>3, Zenon DEF SendFrame
<1>10. CASE FeederWrites(t)
  <2> DEFINE r == [th[t] EXCEPT !.chan = Tail(@)]
  <2>1. DOMAIN r = DOMAIN Idle /\ r.stop = th[t].stop /\ r.pc = th[t].pc
    BY <1>0, RecFields, Zenon
  <2>2. Become(t, Wrote(r, Head(th[t].chan)))
    BY <1>10, Zenon DEF FeederWrites
  <2> HIDE DEF r
  <2> QED
    BY <2>1, <2>2, BecomeStep, UpdateFields DEF Over
<1>11. CASE FeederFails(t)
  BY <1>0, <1>11, BecomeStep, RecFields, Zenon DEF FeederFails, Over
<1>12. CASE FeederEnds(t)
  BY <1>0, <1>12, BecomeStep, RecFields, Zenon DEF FeederEnds, Over
<1> QED
  BY <1>2, <1>3, <1>4, <1>5, <1>6, <1>7, <1>8, <1>9, <1>10, <1>11, <1>12, Zenon
  DEF ThreadStep, FeederStep

\* A new thread is entered in the handle, or has been told to stop.  The handle
\* was empty before, so the threads that still run have been told to stop.
LEMMA StartStep ==
    ASSUME LeakInv, NEW t, NEW r, DOMAIN r = DOMAIN Idle, r.stop \/ t \in rec',
           rec = {}, th' = [th EXCEPT ![t] = r]
    PROVE  LeakInv'
<1>1. th' = [u \in Thread |-> IF u = t THEN r ELSE th[u]]
  BY Zenon DEF LeakInv
<1>2. th' = [u \in Thread |-> th'[u]]
  BY <1>1, Zenon
<1>3. ASSUME NEW u \in Thread
      PROVE  DOMAIN th'[u] = DOMAIN Idle /\ (Over(th'[u]) \/ th'[u].stop \/ u \in rec')
  BY <1>1, Zenon DEF LeakInv
<1> QED
  BY <1>2, <1>3, Zenon DEF LeakInv, Over

LEMMA SpawnedFields ==
    ASSUME NEW c, NEW k
    PROVE  DOMAIN Spawned(c, k) = DOMAIN Idle
           /\ DOMAIN [Spawned(c, k) EXCEPT !.stop = TRUE] = DOMAIN Idle
           /\ [Spawned(c, k) EXCEPT !.stop = TRUE].stop
  BY Zenon DEF Spawned, Idle

\* Filling the slots of the handle changes nothing else.
LEMMA PutStep ==
    ASSUME LeakInv, NEW f, th' = Put(f), rec' = rec
    PROVE  LeakInv'
<1>1. th' = [u \in Thread |-> th'[u]]
  BY Zenon DEF Put
<1>2. ASSUME NEW u \in Thread
      PROVE  DOMAIN th'[u] = DOMAIN Idle /\ (Over(th'[u]) \/ th'[u].stop \/ u \in rec')
  <2>1. th'[u] = IF u \in rec THEN [th[u] EXCEPT !.slot = f] ELSE th[u]
    BY Zenon DEF Put
  <2> QED
    BY <2>1, Zenon DEF LeakInv
<1> QED
  BY <1>1, <1>2, Zenon DEF LeakInv, Over

\* Whoever empties the handle stops what it held.
LEMMA StopStep ==
    ASSUME LeakInv, th' = StopBoth(rec)
    PROVE  LeakInv'
<1>1. th' = [u \in Thread |-> th'[u]]
  BY Zenon DEF StopBoth
<1>2. ASSUME NEW u \in Thread
      PROVE  DOMAIN th'[u] = DOMAIN Idle /\ (Over(th'[u]) \/ th'[u].stop \/ u \in rec')
  <2>1. th'[u] = IF u \in rec THEN [th[u] EXCEPT !.stop = TRUE] ELSE th[u]
    BY Zenon DEF StopBoth
  <2>2. CASE u \in rec
    BY <2>1, <2>2, RecFields, Zenon DEF LeakInv
  <2>3. CASE u \notin rec
    BY <2>1, <2>3, Zenon DEF LeakInv
  <2> QED
    BY <2>2, <2>3, Zenon
<1> QED
  BY <1>1, <1>2, Zenon DEF LeakInv, Over

\* Every step of the system keeps the invariant.
LEMMA LeakStep == ASSUME LeakInv, [RecNext]_recVars PROVE LeakInv'
<1>1. CASE UNCHANGED recVars
  BY <1>1, Zenon DEF LeakInv, recVars, Over
<1>2. CASE RecordStart
  <2> DEFINE t == Min(Unused)
  <2>1. PICK c \in RecCodec, k \in BOOLEAN : th' = [th EXCEPT ![t] = Spawned(c, k)]
    BY <1>2, Zenon DEF RecordStart
  <2>2. rec = {} /\ t \in rec'
    BY <1>2, Zenon DEF RecordStart
  <2> HIDE DEF t
  <2> QED
    BY <2>1, <2>2, StartStep, SpawnedFields, Zenon
<1>3. CASE RecordStartDual
  <2> DEFINE t == Min(Unused)
             s == Min(Unused \ {t})
  <2>1. PICK c \in RecCodec, d \in SecCodec, k \in BOOLEAN :
           /\ th' = [th EXCEPT ![t] = Spawned(c, k), ![s] = Spawned(d, k)]
           /\ rec' = {t, s}
    BY <1>3, Zenon DEF RecordStartDual
  <2> HIDE DEF t, s
  <2>2. th' = [u \in Thread |-> IF u = s THEN Spawned(d, k)
                                ELSE IF u = t THEN Spawned(c, k) ELSE th[u]]
    BY <2>1, Zenon DEF LeakInv
  <2>3. th' = [u \in Thread |-> th'[u]]
    BY <2>2, Zenon
  <2>4. ASSUME NEW u \in Thread
        PROVE  DOMAIN th'[u] = DOMAIN Idle /\ (Over(th'[u]) \/ th'[u].stop \/ u \in rec')
    BY <1>3, <2>1, <2>2, SpawnedFields DEF LeakInv, RecordStartDual
  <2> QED
    BY <2>3, <2>4, Zenon DEF LeakInv, Over
<1>4. CASE RecordStartRollsBack
  <2> DEFINE t == Min(Unused)
  <2>1. PICK c \in RecCodec, k \in BOOLEAN :
           th' = [th EXCEPT ![t] = [Spawned(c, k) EXCEPT !.stop = TRUE]]
    BY <1>4, Zenon DEF RecordStartRollsBack
  <2>2. rec = {}
    BY <1>4, Zenon DEF RecordStartRollsBack
  <2> DEFINE r == [Spawned(c, k) EXCEPT !.stop = TRUE]
  <2>3. DOMAIN r = DOMAIN Idle /\ r.stop
    BY SpawnedFields, Zenon
  <2> HIDE DEF t, r
  <2>4. th' = [th EXCEPT ![t] = r]
    BY <2>1, Zenon DEF r
  <2> QED
    BY <2>2, <2>3, <2>4, StartStep, Zenon
<1>5. CASE RecordStop \/ Shutdown
  BY <1>5, StopStep, Zenon DEF RecordStop, Shutdown
<1>6. CASE CommitFrame \/ PrimePut
  BY <1>6, PutStep, Zenon DEF CommitFrame, PrimePut
<1>7. CASE PrimeRead
  BY <1>7, Zenon DEF PrimeRead, LeakInv, Over
<1>8. CASE ProcessExit
  <2>1. \A u \in Thread : th[u].pc = "idle" \/ \E f : th'[u] = Ended(th[u], f)
    BY <1>8, Zenon DEF ProcessExit
  <2>2. \A u \in Thread : th[u].pc = "idle" => th'[u] = th[u]
    BY <1>8, Zenon DEF ProcessExit
  <2>3. th' = [u \in Thread |-> th'[u]]
    BY <1>8 DEF ProcessExit
  <2>4. ASSUME NEW u \in Thread PROVE DOMAIN th'[u] = DOMAIN Idle /\ Over(th'[u])
    <3>1. CASE th[u].pc = "idle"
      BY <2>2, <3>1, Zenon DEF LeakInv, Over
    <3>2. CASE \E f : th'[u] = Ended(th[u], f)
      BY <3>2, UpdateFields DEF LeakInv
    <3> QED
      BY <2>1, <3>1, <3>2, Zenon
  <2> QED
    BY <2>3, <2>4, Zenon DEF LeakInv, Over
<1>9. CASE \E t \in Thread : ThreadStep(t) \/ FeederStep(t)
  BY <1>9, ThreadKeeps, Zenon
<1> QED
  BY <1>1, <1>2, <1>3, <1>4, <1>5, <1>6, <1>7, <1>8, <1>9, Zenon DEF RecNext

\* However many recordings are started, rolled back and stopped, whatever their
\* codecs and however their threads fail, a thread that runs and has not been
\* told to stop is one of the stored handle's (DualRecordingHandle).
THEOREM NoLeak == RecSpec => []NoLeakedThread
<1>1. RecInit => LeakInv
  BY DEF RecInit, LeakInv, Over, Idle
<1>2. LeakInv /\ [RecNext]_recVars => LeakInv'
  BY LeakStep, Zenon
<1>3. LeakInv => NoLeakedThread
  BY Zenon DEF LeakInv, NoLeakedThread, Over
<1> QED
  BY <1>1, <1>2, <1>3, PTL DEF RecSpec
-----------------------------------------------------------------------------
(* What is in the file.  Each thread's record is considered alone: whatever  *)
(* frames commits and the prime put in its slot, what it has in hand, in the *)
(* cache, in the channel and in the file has the size the file began with.   *)

AnyFrame == [id : Nat, size : FrameSize \cup {"none"}]

\* The newest frame sent is the cached one, except where the code does not
\* cache what it wrote (hevc, ffv1) or ffmpeg's writer has gone.
CachesNewest(r) ==
    r.pc = "loop" /\ r.feeder # "ended" /\ r.codec \notin {"hevc", "ffv1"} /\ r.cached # NoFrame
        => r.cached = NewestSent(r)

\* The inductive invariant of one thread: nothing is there before the file has a
\* size; then everything has that size, only min-fps mode caches, only the ffmpeg
\* thread has a channel, and a frame on its way into it is the cached one.
FitOK(r) ==
    /\ DOMAIN r = DOMAIN Idle
    /\ {r.slot, r.hand, r.cached, r.last} \subseteq AnyFrame /\ r.chan \in Seq(AnyFrame)
    /\ r.pc \in {"idle", "first", "ended", "open"} =>
           r.last = NoFrame /\ r.cached = NoFrame /\ r.chan = <<>> /\ r.feeder = "none"
    /\ r.pc \in {"open", "send"} => r.hand.size = r.size
    /\ \A f \in {r.cached, r.last} : f # NoFrame => f.size = r.size
    /\ \A j \in 1 .. Len(r.chan) : r.chan[j].size = r.size
    /\ r.tick \/ r.cached = NoFrame
    /\ r.codec \in InProcess => r.chan = <<>> /\ r.feeder = "none" /\ r.pc # "send"
    /\ r.pc = "send" => r.cached \in {NoFrame, r.hand}
    /\ CachesNewest(r)

FitInv ==
    /\ shown \in AnyFrame /\ prime.frame \in AnyFrame
    /\ th = [t \in Thread |-> th[t]]
    /\ \A t \in Thread : FitOK(th[t])

LEMMA NoFrameIsFrame == NoFrame \in AnyFrame
  BY Zenon DEF NoFrame, AnyFrame

LEMMA IdleFits ==
    ASSUME NEW c, NEW k, NEW r, NEW f
    PROVE  FitOK(Idle) /\ FitOK(Spawned(c, k)) /\ FitOK([Spawned(c, k) EXCEPT !.stop = TRUE])
           /\ FitOK(Ended(r, f))
<1>1. ASSUME NEW q, DOMAIN q = DOMAIN Idle, q.pc \in {"idle", "first", "ended"},
             q.slot = NoFrame, q.hand = NoFrame, q.cached = NoFrame, q.last = NoFrame,
             q.chan = <<>>, q.feeder = "none"
      PROVE  FitOK(q)
  BY <1>1, NoFrameIsFrame DEF FitOK, CachesNewest
<1>2. FitOK(Idle)
  BY <1>1, Zenon DEF Idle
<1>3. FitOK(Spawned(c, k))
  BY <1>1, Zenon DEF Idle, Spawned
<1>4. FitOK([Spawned(c, k) EXCEPT !.stop = TRUE])
  BY <1>1, Zenon DEF Idle, Spawned
<1>5. FitOK(Ended(r, f))
  BY <1>1, Zenon DEF Idle, Ended
<1> QED
  BY <1>2, <1>3, <1>4, <1>5, Zenon

\* The tail of a queue: the elements after the first, at indices one lower.
LEMMA TailAt ==
    ASSUME NEW S, NEW s \in Seq(S), s # <<>>
    PROVE  /\ Len(Tail(s)) = Len(s) - 1 /\ Len(s) \in Nat \ {0}
           /\ \A j \in 1 .. Len(Tail(s)) : j + 1 \in 1 .. Len(s) /\ Tail(s)[j] = s[j + 1]
<1>1. Len(Tail(s)) = Len(s) - 1 /\ Len(s) \in Nat \ {0}
  OBVIOUS
<1>2. ASSUME NEW j \in 1 .. Len(Tail(s)) PROVE j + 1 \in 1 .. Len(s) /\ Tail(s)[j] = s[j + 1]
  BY <1>1
<1> QED
  BY <1>1, <1>2, Zenon

\* Taking the first of several frames leaves the newest one newest.
LEMMA TailLast ==
    ASSUME NEW S, NEW s \in Seq(S), s # <<>>, Len(s) # 1
    PROVE  Tail(s) # <<>> /\ Tail(s)[Len(Tail(s))] = s[Len(s)]
<1>1. Len(Tail(s)) = Len(s) - 1 /\ Len(s) \in Nat \ {0}
  BY TailAt, Zenon
<1>2. Len(Tail(s)) \in 1 .. Len(Tail(s)) /\ Len(Tail(s)) + 1 = Len(s)
  BY <1>1
<1>3. Tail(s)[Len(Tail(s))] = s[Len(Tail(s)) + 1]
  BY <1>2, TailAt, Zenon
<1>4. Tail(s) # <<>>
  <2>1. Len(Tail(s)) # 0
    BY <1>2
  <2>2. Len(<<>>) = 0
    BY Zenon
  <2> QED
    BY <2>1, <2>2, Zenon
<1> QED
  BY <1>2, <1>3, <1>4, Zenon

\* The slot and the stop flag are free.
LEMMA OthersFit ==
    ASSUME NEW r, FitOK(r), NEW f \in AnyFrame
    PROVE  FitOK([r EXCEPT !.slot = f]) /\ FitOK([r EXCEPT !.stop = TRUE])
<1>1. ASSUME NEW q, DOMAIN q = DOMAIN Idle, q.pc = r.pc, q.slot \in AnyFrame, q.hand = r.hand,
             q.cached = r.cached, q.last = r.last, q.chan = r.chan, q.feeder = r.feeder,
             q.size = r.size, q.codec = r.codec, q.tick = r.tick
      PROVE  FitOK(q)
  BY <1>1, ZenonT(30) DEF FitOK, CachesNewest, NewestSent
<1>2. FitOK([r EXCEPT !.slot = f])
  BY <1>1, RecFields DEF FitOK
<1>3. FitOK([r EXCEPT !.stop = TRUE])
  BY <1>1, RecFields DEF FitOK
<1> QED
  BY <1>2, <1>3, Zenon


LEMMA AfterFields ==
    ASSUME NEW r, DOMAIN r = DOMAIN Idle, NEW f, NEW o
    PROVE  LET q == After(r, f, o) IN
           /\ DOMAIN q = DOMAIN Idle /\ q.hand = NoFrame
           /\ q.pc = IF o = "left" THEN "closing" ELSE r.pc
           /\ q.slot = r.slot /\ q.size = r.size /\ q.codec = r.codec /\ q.tick = r.tick
           /\ q.chan = r.chan /\ q.feeder = r.feeder
           /\ q.last = IF o \in {"written", "uncached"} THEN f ELSE r.last
           /\ q.cached = IF o \in {"written", "failed"} /\ r.tick THEN f ELSE r.cached
<1> DEFINE h == [r EXCEPT !.hand = NoFrame]
           Like(q, l, c) == /\ DOMAIN q = DOMAIN Idle /\ q.hand = NoFrame /\ q.pc = r.pc
                            /\ q.slot = r.slot /\ q.size = r.size /\ q.codec = r.codec
                            /\ q.tick = r.tick /\ q.chan = r.chan /\ q.feeder = r.feeder
                            /\ q.last = l /\ q.cached = c
<1>1. Like(h, r.last, r.cached)
  BY RecFields, Zenon
<1> HIDE DEF h
<1>2. ASSUME NEW q, NEW l, NEW c, Like(q, l, c) PROVE Like(Wrote(q, f), f, c)
  BY <1>2, RecFields, Zenon DEF Wrote
<1>3. ASSUME NEW q, NEW l, NEW c, Like(q, l, c)
      PROVE  Like(Cache(q, f), l, IF r.tick THEN f ELSE c)
  <2>1. CASE r.tick
    BY <1>3, <2>1, RecFields, Zenon DEF Cache
  <2>2. CASE ~r.tick
    BY <1>3, <2>2, Zenon DEF Cache
  <2> QED
    BY <2>1, <2>2, Zenon
<1>4. CASE o = "written"
  <2>1. After(r, f, o) = Cache(Wrote(h, f), f)
    BY <1>4, Zenon DEF After, h
  <2> QED
    BY <1>1, <1>2, <1>3, <1>4, <2>1
<1>5. CASE o = "uncached"
  <2>1. After(r, f, o) = Wrote(h, f)
    BY <1>5, Zenon DEF After, h
  <2> QED
    BY <1>1, <1>2, <1>5, <2>1
<1>6. CASE o = "failed"
  <2>1. After(r, f, o) = Cache(h, f)
    BY <1>6, Zenon DEF After, h
  <2> QED
    BY <1>1, <1>3, <1>6, <2>1
<1>7. CASE o = "left"
  <2>1. After(r, f, o) = [h EXCEPT !.pc = "closing"]
    BY <1>7, Zenon DEF After, h
  <2> QED
    BY <1>1, <1>7, <2>1, RecFields, ZenonT(30)
<1>8. CASE o \notin {"written", "uncached", "failed", "left"}
  <2>1. After(r, f, o) = h
    BY <1>8, Zenon DEF After, h
  <2> QED
    BY <1>1, <1>8, <2>1, Zenon
<1> QED
  BY <1>4, <1>5, <1>6, <1>7, <1>8, Zenon

\* What may become of a frame: only one of the file's size is written or cached,
\* and only hevc and ffv1 may do one without the other.
LEMMA OutcomesFit ==
    ASSUME NEW c, NEW f, NEW z, NEW o \in FrameOutcomes(c, f, z)
    PROVE  /\ o \in {"written", "uncached", "failed"} => f.size = z /\ c \in InProcess
           /\ o \in {"uncached", "failed"} => c \in {"ffv1", "hevc"}
           /\ o = "sent" => f.size = z /\ c \notin InProcess
<1>1. CASE c = "vulkan"
  BY <1>1, Zenon DEF FrameOutcomes, VulkanFrame, InProcess
<1>2. CASE c = "ffv1"
  BY <1>2, Zenon DEF FrameOutcomes, Ffv1Frame, Ffv1Encode, InProcess
<1>3. CASE c = "lossless"
  BY <1>3, Zenon DEF FrameOutcomes, LosslessFrame, InProcess
<1>4. CASE c = "hevc"
  BY <1>4, Zenon DEF FrameOutcomes, HevcFrameOf, HevcEncode, InProcess
<1>5. CASE c \notin InProcess
  <2>1. o \in FfmpegFrame(f, z)
    BY <1>5, Zenon DEF FrameOutcomes, InProcess
  <2>2. PICK read \in ReadTask : o = IF ~read THEN "skipped" ELSE IF f.size # z THEN "left" ELSE "sent"
    BY <2>1, Zenon DEF FfmpegFrame
  <2> QED
    BY <1>5, <2>2, Zenon
<1> QED
  BY <1>1, <1>2, <1>3, <1>4, <1>5, Zenon DEF InProcess

\* A frame in the loop, whatever becomes of it.
LEMMA AfterFits ==
    ASSUME NEW r, FitOK(r), r.pc = "loop", NEW f \in AnyFrame, NEW o,
           o \in {"written", "uncached", "failed"} => f.size = r.size /\ r.codec \in InProcess,
           o \in {"uncached", "failed"} => r.codec \in {"ffv1", "hevc"}
    PROVE  FitOK(After(r, f, o))
<1> DEFINE q == After(r, f, o)
<1>1. /\ DOMAIN q = DOMAIN Idle /\ q.hand = NoFrame
      /\ q.pc = IF o = "left" THEN "closing" ELSE "loop"
      /\ q.slot = r.slot /\ q.size = r.size /\ q.codec = r.codec /\ q.tick = r.tick
      /\ q.chan = r.chan /\ q.feeder = r.feeder
      /\ q.last = IF o \in {"written", "uncached"} THEN f ELSE r.last
      /\ q.cached = IF o \in {"written", "failed"} /\ r.tick THEN f ELSE r.cached
  BY AfterFields DEF FitOK
<1> HIDE DEF q
<1>2. CASE o \in {"written", "uncached", "failed"}
  <2>1. q.chan = <<>> /\ q.feeder = "none" /\ q.pc = "loop"
    BY <1>1, <1>2, Zenon DEF FitOK
  <2>2. CachesNewest(q)
    BY <1>1, <1>2, <2>1, Zenon DEF FitOK, CachesNewest, NewestSent
  <2> QED
    BY <1>1, <1>2, <2>1, <2>2, NoFrameIsFrame DEF FitOK, q
<1>3. CASE o \notin {"written", "uncached", "failed"}
  BY <1>1, <1>3, NoFrameIsFrame DEF FitOK, CachesNewest, NewestSent, q
<1> QED
  BY <1>2, <1>3, Zenon

\* The steps of a recording thread, one case per action.
LEMMA ThreadFits ==
    ASSUME NEW t \in Thread, FitOK(th[t]), NEW q, Become(t, q), th = [u \in Thread |-> th[u]],
           ThreadStep(t) \/ FeederStep(t)
    PROVE  FitOK(q)
<1> DEFINE r == th[t]
<1>0. th'[t] = q /\ FitOK(r) /\ DOMAIN r = DOMAIN Idle
  BY Zenon DEF Become, FitOK
<1>a. ASSUME NEW p, Become(t, p) PROVE p = q
  BY <1>a, <1>0, Zenon DEF Become
<1>1. CASE FirstEnds(t) \/ OpenFails(t) \/ CloseFile(t)
  <2>1. \E f : Become(t, Ended(r, f))
    BY <1>1, Zenon DEF FirstEnds, OpenFails, CloseFile
  <2> QED
    BY <1>a, <2>1, IdleFits, Zenon
<1>2. CASE TakeFirst(t)
  <2>1. ASSUME Become(t, [r EXCEPT !.slot = NoFrame]) PROVE FitOK(q)
    <3>1. q = [r EXCEPT !.slot = NoFrame]
      BY <1>a, <2>1, Zenon
    <3>2. FitOK([r EXCEPT !.slot = NoFrame])
      <4> HIDE DEF r
      <4> QED
        BY <1>0, OthersFit, NoFrameIsFrame, Zenon
    <3> QED
      BY <3>1, <3>2, Zenon
  <2>2. ASSUME Become(t, [r EXCEPT !.pc = "open", !.slot = NoFrame, !.hand = r.slot, !.size = r.slot.size])
        PROVE  FitOK(q)
    <3>1. /\ DOMAIN q = DOMAIN Idle /\ q.pc = "open" /\ q.slot = NoFrame /\ q.hand = r.slot
          /\ q.size = r.slot.size /\ q.cached = r.cached /\ q.last = r.last /\ q.chan = r.chan
          /\ q.feeder = r.feeder /\ q.codec = r.codec /\ q.tick = r.tick
      BY <1>0, <1>a, <2>2, RecFields, Zenon
    <3>2. r.pc = "first"
      BY <1>2, Zenon DEF TakeFirst
    <3> QED
      BY <1>0, <3>1, <3>2, NoFrameIsFrame DEF FitOK, CachesNewest
  <2>3. PICK u \in FirstUsable(r.codec, r.slot) :
           Become(t, IF u THEN [r EXCEPT !.pc = "open", !.slot = NoFrame, !.hand = r.slot,
                                         !.size = r.slot.size]
                          ELSE [r EXCEPT !.slot = NoFrame])
    BY <1>2, Zenon DEF TakeFirst
  <2>4. CASE u
    BY <2>2, <2>3, <2>4, Zenon
  <2>5. CASE ~u
    BY <2>1, <2>3, <2>5, Zenon
  <2> QED
    BY <2>4, <2>5, Zenon
<1>3. CASE OpenFile(t)
  <2> DEFINE p == [r EXCEPT !.pc = "loop", !.file = "open"]
  <2>1. r.pc = "open" /\ r.codec \in InProcess
    BY <1>3, Zenon DEF OpenFile
  <2>2. /\ DOMAIN p = DOMAIN Idle /\ p.pc = "loop" /\ p.slot = r.slot /\ p.hand = r.hand
        /\ p.size = r.size /\ p.cached = r.cached /\ p.last = r.last /\ p.chan = r.chan
        /\ p.feeder = r.feeder /\ p.codec = r.codec /\ p.tick = r.tick
    BY <1>0, RecFields, Zenon
  <2>3. PICK o \in WritesFirst(r.codec) : q = After(p, r.hand, o)
    BY <1>3, <1>a, Zenon DEF OpenFile
  <2> HIDE DEF p
  <2>4. FitOK(p)
    BY <1>0, <2>1, <2>2, Zenon DEF FitOK, CachesNewest
  <2>5. o \in {"uncached", "failed"} => r.codec \in {"ffv1", "hevc"}
    BY <2>1, <2>3, Zenon DEF WritesFirst, VulkanWritesFirst, Ffv1WritesFirst, LosslessWritesFirst,
       HevcWritesFirst, InProcess
  <2>6. r.hand \in AnyFrame /\ r.hand.size = r.size
    BY <1>0, <2>1, Zenon DEF FitOK
  <2> QED
    BY <2>1, <2>2, <2>3, <2>4, <2>5, <2>6, AfterFits, Zenon
<1>4. CASE OpenFfmpeg(t)
  <2> DEFINE p == [r EXCEPT !.pc = "loop", !.file = "open", !.feeder = "run",
                            !.chan = <<r.hand>>, !.hand = NoFrame]
  <2>1. r.pc = "open" /\ r.codec \notin InProcess /\ q = Cache(p, r.hand)
    BY <1>4, <1>a, Zenon DEF OpenFfmpeg
  <2>2. /\ DOMAIN p = DOMAIN Idle /\ p.pc = "loop" /\ p.slot = r.slot /\ p.hand = NoFrame
        /\ p.size = r.size /\ p.cached = r.cached /\ p.last = r.last /\ p.chan = <<r.hand>>
        /\ p.feeder = "run" /\ p.codec = r.codec /\ p.tick = r.tick
    BY <1>0, RecFields, Zenon
  <2> HIDE DEF p
  <2>3. /\ DOMAIN q = DOMAIN Idle /\ q.pc = "loop" /\ q.slot = r.slot /\ q.hand = NoFrame
        /\ q.size = r.size /\ q.last = r.last /\ q.chan = <<r.hand>>
        /\ q.feeder = "run" /\ q.codec = r.codec /\ q.tick = r.tick
        /\ q.cached = IF r.tick THEN r.hand ELSE r.cached
    <3>1. CASE r.tick
      BY <2>1, <2>2, <3>1, RecFields, Zenon DEF Cache
    <3>2. CASE ~r.tick
      BY <2>1, <2>2, <3>2, Zenon DEF Cache
    <3> QED
      BY <3>1, <3>2, Zenon
  <2>4. r.hand \in AnyFrame /\ r.hand.size = r.size /\ r.last = NoFrame /\ r.cached = NoFrame
    BY <1>0, <2>1, Zenon DEF FitOK
  <2>5. q.chan \in Seq(AnyFrame) /\ Len(q.chan) = 1 /\ q.chan[1] = r.hand
    BY <2>3, <2>4
  <2> QED
    <3>1. q.cached = NoFrame \/ q.cached = r.hand
      BY <2>3, <2>4, Zenon
    <3>2. {q.slot, q.hand, q.cached, q.last} \subseteq AnyFrame
      <4>1. r.slot \in AnyFrame
        BY <1>0, Zenon DEF FitOK
      <4>2. q.slot \in AnyFrame /\ q.hand \in AnyFrame /\ q.cached \in AnyFrame /\ q.last \in AnyFrame
        BY <2>3, <2>4, <3>1, <4>1, NoFrameIsFrame, Zenon
      <4> QED
        BY <4>2, Zenon
    <3>3. \A f \in {q.cached, q.last} : f # NoFrame => f.size = q.size
      BY <2>3, <2>4, <3>1, Zenon
    <3>4. \A j \in 1 .. Len(q.chan) : q.chan[j].size = q.size
      BY <2>3, <2>4, <2>5
    <3>5. q.chan # <<>> /\ NewestSent(q) = r.hand
      BY <2>5 DEF NewestSent
    <3>6. (q.tick \/ q.cached = NoFrame) /\ q.codec \notin InProcess
      BY <2>1, <2>3, <2>4, Zenon
    <3> QED
      BY <2>3, <2>5, <3>1, <3>2, <3>3, <3>4, <3>5, <3>6, Zenon DEF FitOK, CachesNewest
<1>5. ASSUME Become(t, [r EXCEPT !.pc = "closing"]), r.pc = "loop" PROVE FitOK(q)
  <2>1. /\ DOMAIN q = DOMAIN Idle /\ q.pc = "closing" /\ q.slot = r.slot /\ q.hand = r.hand
        /\ q.size = r.size /\ q.cached = r.cached /\ q.last = r.last /\ q.chan = r.chan
        /\ q.feeder = r.feeder /\ q.codec = r.codec /\ q.tick = r.tick
    BY <1>0, <1>5, <1>a, RecFields, Zenon
  <2> QED
    BY <1>0, <1>5, <2>1 DEF FitOK, CachesNewest
<1>6. CASE LoopStops(t)
  BY <1>5, <1>6, Zenon DEF LoopStops
<1>7. CASE TakeNext(t)
  <2> DEFINE f == r.slot
             p == [r EXCEPT !.slot = NoFrame]
  <2>1. r.pc = "loop" /\ f \in AnyFrame
    BY <1>0, <1>7, Zenon DEF TakeNext, FitOK
  <2>2. FitOK(p) /\ DOMAIN p = DOMAIN Idle /\ p.pc = "loop"
    <3>1. DOMAIN p = DOMAIN Idle /\ p.pc = r.pc
      BY <1>0, RecFields, Zenon DEF FitOK
    <3>2. FitOK(p)
      BY <1>0, OthersFit, NoFrameIsFrame, Zenon
    <3> QED
      BY <2>1, <3>1, <3>2, Zenon
  <2>3. PICK o \in FrameOutcomes(p.codec, f, p.size) :
           q = IF o = "sent" THEN [Cache(p, f) EXCEPT !.pc = "send", !.hand = f] ELSE After(p, f, o)
    BY <1>7, <1>a, Zenon DEF TakeNext
  <2> HIDE DEF p, f
  <2>4. CASE o # "sent"
    BY <2>1, <2>2, <2>3, <2>4, OutcomesFit, AfterFits, SMTT(30)
  <2>5. CASE o = "sent"
    <3>1. f.size = p.size /\ p.codec \notin InProcess
      BY <2>3, <2>5, OutcomesFit, Zenon
    <3>2. /\ DOMAIN q = DOMAIN Idle /\ q.pc = "send" /\ q.slot = p.slot /\ q.hand = f
          /\ q.size = p.size /\ q.last = p.last /\ q.chan = p.chan
          /\ q.feeder = p.feeder /\ q.codec = p.codec /\ q.tick = p.tick
          /\ q.cached = IF p.tick THEN f ELSE p.cached
      <4>1. CASE p.tick
        BY <2>2, <2>3, <2>5, <4>1, RecFields, Zenon DEF Cache
      <4>2. CASE ~p.tick
        BY <2>2, <2>3, <2>5, <4>2, RecFields, Zenon DEF Cache
      <4> QED
        BY <4>1, <4>2, Zenon
    <3> QED
      BY <2>1, <2>2, <3>1, <3>2 DEF FitOK, CachesNewest
  <2> QED
    BY <2>4, <2>5, Zenon
<1>8. CASE Duplicate(t)
  <2>1. r.pc = "loop" /\ r.cached # NoFrame
    BY <1>8, Zenon DEF Duplicate
  <2>2. ASSUME r.codec \in InProcess, Become(t, Wrote(r, r.cached)) PROVE FitOK(q)
    <3>1. /\ DOMAIN q = DOMAIN Idle /\ q.pc = "loop" /\ q.slot = r.slot /\ q.hand = r.hand
          /\ q.size = r.size /\ q.cached = r.cached /\ q.last = r.cached /\ q.chan = r.chan
          /\ q.feeder = r.feeder /\ q.codec = r.codec /\ q.tick = r.tick
      BY <1>0, <1>a, <2>1, <2>2, RecFields, Zenon DEF Wrote
    <3> QED
      BY <1>0, <2>1, <2>2, <3>1 DEF FitOK, CachesNewest, NewestSent
  <2>3. ASSUME r.codec \notin InProcess, Become(t, [r EXCEPT !.pc = "send", !.hand = r.cached])
        PROVE  FitOK(q)
    <3>1. /\ DOMAIN q = DOMAIN Idle /\ q.pc = "send" /\ q.slot = r.slot /\ q.hand = r.cached
          /\ q.size = r.size /\ q.cached = r.cached /\ q.last = r.last /\ q.chan = r.chan
          /\ q.feeder = r.feeder /\ q.codec = r.codec /\ q.tick = r.tick
      BY <1>0, <1>a, <2>3, RecFields, Zenon
    <3> QED
      BY <1>0, <2>1, <2>3, <3>1 DEF FitOK, CachesNewest
  <2> QED
    BY <1>5, <1>8, <2>1, <2>2, <2>3, Zenon DEF Duplicate
<1>9. CASE SendFrame(t)
  <2>1. r.pc = "send"
    BY <1>9, Zenon DEF SendFrame
  <2>2. ASSUME r.feeder = "run",
               Become(t, [r EXCEPT !.pc = "loop", !.hand = NoFrame, !.chan = Append(@, r.hand)])
        PROVE  FitOK(q)
    <3>1. /\ DOMAIN q = DOMAIN Idle /\ q.pc = "loop" /\ q.slot = r.slot /\ q.hand = NoFrame
          /\ q.size = r.size /\ q.cached = r.cached /\ q.last = r.last
          /\ q.chan = Append(r.chan, r.hand)
          /\ q.feeder = r.feeder /\ q.codec = r.codec /\ q.tick = r.tick
      BY <1>0, <1>a, <2>2, RecFields, Zenon
    <3>2. /\ q.chan \in Seq(AnyFrame) /\ q.chan # <<>> /\ q.chan[Len(q.chan)] = r.hand
          /\ \A j \in 1 .. Len(q.chan) : q.chan[j].size = r.size
      BY <1>0, <2>1, <3>1 DEF FitOK
    <3>3. CachesNewest(q)
      BY <1>0, <2>1, <3>1, <3>2, Zenon DEF FitOK, CachesNewest, NewestSent
    <3> QED
      BY <1>0, <2>1, <2>2, <3>1, <3>2, <3>3, NoFrameIsFrame DEF FitOK
  <2>3. ASSUME Become(t, [r EXCEPT !.pc = "closing", !.hand = NoFrame]) PROVE FitOK(q)
    <3>1. /\ DOMAIN q = DOMAIN Idle /\ q.pc = "closing" /\ q.slot = r.slot /\ q.hand = NoFrame
          /\ q.size = r.size /\ q.cached = r.cached /\ q.last = r.last /\ q.chan = r.chan
          /\ q.feeder = r.feeder /\ q.codec = r.codec /\ q.tick = r.tick
      BY <1>0, <1>a, <2>3, RecFields, Zenon
    <3> QED
      BY <1>0, <2>1, <3>1, NoFrameIsFrame DEF FitOK, CachesNewest
  <2> QED
    BY <1>9, <2>2, <2>3, Zenon DEF SendFrame
<1>10. CASE FeederWrites(t)
  <2>1. r.feeder = "run" /\ r.chan # <<>> /\ r.chan \in Seq(AnyFrame)
        /\ q = Wrote([r EXCEPT !.chan = Tail(@)], Head(r.chan))
    BY <1>0, <1>10, <1>a, Zenon DEF FeederWrites, FitOK
  <2>2. /\ DOMAIN q = DOMAIN Idle /\ q.pc = r.pc /\ q.slot = r.slot /\ q.hand = r.hand
        /\ q.size = r.size /\ q.cached = r.cached /\ q.last = Head(r.chan)
        /\ q.chan = Tail(r.chan)
        /\ q.feeder = "run" /\ q.codec = r.codec /\ q.tick = r.tick
    BY <1>0, <2>1, RecFields, Zenon DEF Wrote
  <2>3. Head(r.chan) \in AnyFrame /\ Head(r.chan) = r.chan[1] /\ Len(r.chan) \in Nat \ {0}
    BY <2>1
  <2>4. /\ Tail(r.chan) \in Seq(AnyFrame) /\ Len(Tail(r.chan)) = Len(r.chan) - 1
        /\ \A j \in 1 .. Len(Tail(r.chan)) : Tail(r.chan)[j] = r.chan[j + 1]
    BY <2>1
  <2>5. NewestSent(q) = NewestSent(r)
    <3>1. NewestSent(r) = r.chan[Len(r.chan)]
      BY <2>1, Zenon DEF NewestSent
    <3>2. CASE Len(r.chan) = 1
      <4>1. Tail(r.chan) = <<>>
        BY <2>4, <3>2
      <4> QED
        BY <2>2, <2>3, <3>1, <3>2, <4>1, Zenon DEF NewestSent
    <3>3. CASE Len(r.chan) # 1
      <4>1. Tail(r.chan) # <<>> /\ Tail(r.chan)[Len(Tail(r.chan))] = r.chan[Len(r.chan)]
        BY <2>1, <3>3, TailLast, Zenon
      <4> QED
        BY <2>2, <3>1, <4>1, Zenon DEF NewestSent
    <3> QED
      BY <3>2, <3>3, Zenon
  <2>6. CachesNewest(q)
    BY <1>0, <2>1, <2>2, <2>5, Zenon DEF FitOK, CachesNewest
  <2>7. /\ q.last \in AnyFrame /\ q.last.size = q.size /\ q.chan \in Seq(AnyFrame)
        /\ \A j \in 1 .. Len(q.chan) : q.chan[j].size = q.size
    <3>1. \A j \in 1 .. Len(r.chan) : r.chan[j].size = r.size
      BY <1>0, Zenon DEF FitOK
    <3>2. q.last.size = q.size
      <4>1. 1 \in 1 .. Len(r.chan)
        BY <2>3
      <4> QED
        BY <2>2, <2>3, <3>1, <4>1, Zenon
    <3>3. ASSUME NEW j \in 1 .. Len(q.chan) PROVE q.chan[j].size = q.size
      <4>1. j + 1 \in 1 .. Len(r.chan) /\ q.chan[j] = r.chan[j + 1]
        <5>1. \A k \in 1 .. Len(Tail(r.chan)) : k + 1 \in 1 .. Len(r.chan) /\ Tail(r.chan)[k] = r.chan[k + 1]
          BY <2>1, TailAt, Zenon
        <5> QED
          BY <2>2, <5>1, Zenon
      <4> QED
        BY <2>2, <3>1, <4>1, Zenon
    <3> QED
      BY <2>2, <2>3, <2>4, <3>2, <3>3, Zenon
  <2> QED
    <3>1. r.pc \notin {"idle", "first", "ended", "open"} /\ r.codec \notin InProcess
      BY <1>0, <2>1, Zenon DEF FitOK
    <3>2. {q.slot, q.hand, q.cached, q.last} \subseteq AnyFrame
      BY <1>0, <2>2, <2>7 DEF FitOK
    <3>3. /\ q.pc = "send" => q.hand.size = q.size /\ q.cached \in {NoFrame, q.hand}
          /\ \A f \in {q.cached, q.last} : f # NoFrame => f.size = q.size
          /\ q.tick \/ q.cached = NoFrame
      BY <1>0, <2>2, <2>7 DEF FitOK
    <3> QED
      BY <2>2, <2>6, <2>7, <3>1, <3>2, <3>3, Zenon DEF FitOK
<1>11. CASE FeederFails(t) \/ FeederEnds(t)
  <2>1. r.feeder = "run"
    BY <1>11, Zenon DEF FeederFails, FeederEnds
  <2>2. /\ DOMAIN q = DOMAIN Idle /\ q.pc = r.pc /\ q.slot = r.slot /\ q.hand = r.hand
        /\ q.size = r.size /\ q.cached = r.cached /\ q.last = r.last /\ q.chan = <<>>
        /\ q.feeder = "ended" /\ q.codec = r.codec /\ q.tick = r.tick
    <3>1. CASE FeederFails(t)
      <4>1. q = [r EXCEPT !.feeder = "ended", !.chan = <<>>, !.file = "broken"]
        BY <1>a, <3>1, Zenon DEF FeederFails
      <4> QED
        BY <1>0, <4>1, RecFields, Zenon
    <3>2. CASE FeederEnds(t)
      <4>1. q = [r EXCEPT !.feeder = "ended", !.file = "final"] /\ r.chan = <<>>
        BY <1>a, <3>2, Zenon DEF FeederEnds
      <4> QED
        BY <1>0, <4>1, RecFields, Zenon
    <3> QED
      BY <1>11, <3>1, <3>2, Zenon
  <2> QED
    BY <1>0, <2>1, <2>2 DEF FitOK, CachesNewest
<1> QED
  BY <1>1, <1>2, <1>3, <1>4, <1>6, <1>7, <1>8, <1>9, <1>10, <1>11, Zenon
  DEF ThreadStep, FeederStep

\* A step that makes every thread's record fit, one way or the other.
LEMMA RecordsFit ==
    ASSUME FitInv, shown' \in AnyFrame, prime'.frame \in AnyFrame,
           th' = [t \in Thread |-> th'[t]], \A t \in Thread : FitOK(th'[t])
    PROVE  FitInv'
<1>1. \A t \in Thread : FitOK(th[t])' <=> FitOK(th'[t])
  BY Zenon DEF FitOK, CachesNewest, NewestSent
<1> QED
  BY <1>1, Zenon DEF FitInv

\* Every step of the system keeps the invariant.
LEMMA FitStep == ASSUME FitInv, [RecNext]_recVars PROVE FitInv'
<1> USE DEF FitInv
<1>1. CASE UNCHANGED recVars
  BY <1>1, RecordsFit, Zenon DEF recVars
<1>2. CASE RecordStart \/ RecordStartRollsBack \/ RecordStartDual
  <2>1. shown' \in AnyFrame /\ prime'.frame \in AnyFrame
    BY <1>2, NoFrameIsFrame DEF RecordStart, RecordStartRollsBack, RecordStartDual
  <2>2. ASSUME NEW t, NEW r, FitOK(r), th' = [th EXCEPT ![t] = r] PROVE FitInv'
    BY <2>1, <2>2, RecordsFit, Zenon
  <2>3. ASSUME NEW t, NEW r, FitOK(r), NEW u, NEW p, FitOK(p), th' = [th EXCEPT ![t] = r, ![u] = p]
        PROVE  FitInv'
    BY <2>1, <2>3, RecordsFit, Zenon
  <2>4. CASE RecordStart
    <3> DEFINE t == Min(Unused)
    <3>1. \E c, k : th' = [th EXCEPT ![t] = Spawned(c, k)]
      BY <2>4, Zenon DEF RecordStart
    <3> QED
      BY <2>2, <3>1, IdleFits, Zenon
  <2>5. CASE RecordStartRollsBack
    <3> DEFINE t == Min(Unused)
    <3>1. \E c, k : th' = [th EXCEPT ![t] = [Spawned(c, k) EXCEPT !.stop = TRUE]]
      BY <2>5, Zenon DEF RecordStartRollsBack
    <3> QED
      BY <2>2, <3>1, IdleFits, Zenon
  <2>6. CASE RecordStartDual
    <3> DEFINE t == Min(Unused)
               u == Min(Unused \ {t})
    <3>1. \E c, d, k : th' = [th EXCEPT ![t] = Spawned(c, k), ![u] = Spawned(d, k)]
      BY <2>6, Zenon DEF RecordStartDual
    <3> HIDE DEF t, u
    <3> QED
      BY <2>3, <3>1, IdleFits, Zenon
  <2> QED
    BY <1>2, <2>4, <2>5, <2>6, Zenon
<1>3. CASE RecordStop \/ Shutdown
  <2>1. th' = StopBoth(rec) /\ UNCHANGED <<shown, prime>>
    BY <1>3, Zenon DEF RecordStop, Shutdown
  <2>2. ASSUME NEW t \in Thread PROVE FitOK(th'[t])
    <3>1. th'[t] = IF t \in rec THEN [th[t] EXCEPT !.stop = TRUE] ELSE th[t]
      BY <2>1, Zenon DEF StopBoth
    <3> QED
      BY <3>1, OthersFit, NoFrameIsFrame, Zenon
  <2>3. th' = [t \in Thread |-> th'[t]]
    BY <2>1, Zenon DEF StopBoth
  <2> QED
    BY <2>1, <2>2, <2>3, RecordsFit, Zenon
<1>4. ASSUME NEW f \in AnyFrame, th' = Put(f), shown' \in AnyFrame, prime'.frame \in AnyFrame
      PROVE  FitInv'
  <2>1. ASSUME NEW t \in Thread PROVE FitOK(th'[t])
    <3>1. th'[t] = IF t \in rec THEN [th[t] EXCEPT !.slot = f] ELSE th[t]
      BY <1>4, Zenon DEF Put
    <3>2. FitOK([th[t] EXCEPT !.slot = f])
      BY <1>4, OthersFit, Zenon
    <3> QED
      BY <3>1, <3>2, Zenon
  <2>2. th' = [t \in Thread |-> th'[t]]
    BY <1>4, Zenon DEF Put
  <2> QED
    BY <1>4, <2>1, <2>2, RecordsFit, Zenon
<1>5. CASE CommitFrame
  <2>1. PICK z \in FrameSize : shown' = [id |-> shown.id + 1, size |-> z] /\ th' = Put(shown')
    BY <1>5, Zenon DEF CommitFrame
  <2>2. shown' \in AnyFrame
    BY <2>1 DEF AnyFrame
  <2> QED
    BY <1>4, <1>5, <2>1, <2>2, Zenon DEF CommitFrame
<1>6. CASE PrimePut
  BY <1>4, <1>6, NoFrameIsFrame, Zenon DEF PrimePut, NoPrime
<1>7. CASE PrimeRead
  BY <1>7, RecordsFit, NoFrameIsFrame, Zenon DEF PrimeRead, NoPrime
<1>8. CASE ProcessExit
  <2>1. \A t \in Thread : th'[t] = th[t] \/ \E f : th'[t] = Ended(th[t], f)
    BY <1>8, Zenon DEF ProcessExit
  <2>2. th' = [t \in Thread |-> th'[t]]
    BY <1>8 DEF ProcessExit
  <2>3. shown' \in AnyFrame /\ prime'.frame \in AnyFrame
    BY <1>8, NoFrameIsFrame, Zenon DEF ProcessExit, NoPrime
  <2>4. ASSUME NEW t \in Thread PROVE FitOK(th'[t])
    BY <2>1, IdleFits, Zenon
  <2> QED
    BY <2>2, <2>3, <2>4, RecordsFit, Zenon
<1>9. ASSUME NEW t \in Thread, ThreadStep(t) \/ FeederStep(t) PROVE FitInv'
  <2>1. PICK q : Become(t, q)
    BY <1>9, Zenon
    DEF ThreadStep, FeederStep, FirstEnds, TakeFirst, OpenFails, OpenFile, OpenFfmpeg,
       LoopStops, TakeNext, Duplicate, SendFrame, CloseFile, FeederWrites, FeederFails, FeederEnds
  <2>2. FitOK(q)
    BY <1>9, <2>1, ThreadFits, Zenon
  <2>3. th' = [u \in Thread |-> IF u = t THEN q ELSE th[u]] /\ UNCHANGED <<shown, prime>>
    BY <2>1, Zenon DEF Become
  <2>4. th' = [u \in Thread |-> th'[u]]
    BY <2>3, Zenon
  <2> QED
    BY <2>2, <2>3, <2>4, RecordsFit, Zenon
<1> QED
  BY <1>1, <1>2, <1>3, <1>5, <1>6, <1>7, <1>8, <1>9, Zenon DEF RecNext

\* Whatever the desktop shows and however windows change size, a recording holds
\* frames of the size its header names, and an idle tick of the min-fps mode
\* repeats the frame that went out last, for any channel bound and any codecs.
THEOREM FilesFit == RecSpec => []FramesFit
<1>1. RecInit => FitInv
  <2> SUFFICES ASSUME RecInit PROVE FitInv
    BY Zenon
  <2>1. \A t \in Thread : th[t] = Idle /\ FitOK(Idle)
    BY IdleFits, Zenon DEF RecInit
  <2> QED
    BY <2>1, NoFrameIsFrame, Zenon DEF RecInit, FitInv, NoPrime
<1>2. FitInv /\ [RecNext]_recVars => FitInv'
  BY FitStep, Zenon
<1>3. FitInv => FramesFit
  BY Zenon DEF FitInv, FitOK, CachesNewest, FramesFit, FileHasOneSize, DuplicateIsLast
<1> QED
  BY <1>1, <1>2, <1>3, PTL DEF RecSpec

=============================================================================

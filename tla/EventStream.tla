----------------------------- MODULE EventStream -----------------------------
(***************************************************************************)
(* How log lines reach a subscriber (registry.rs: spawn_log_drainer,       *)
(* replay_logs; server.rs: one connection's reader, writer and forwarder   *)
(* tasks).  A drainer appends a line to the session's history and then     *)
(* broadcasts it.  Subscribe replaces the connection's forwarder: it       *)
(* takes a receiver of the broadcast ring, replays the history onto the    *)
(* outgoing queue and only then starts the forwarder.                      *)
(***************************************************************************)
EXTENDS Naturals, Sequences, FiniteSets

CONSTANTS
    Stream,       \* the drainers of the session's output
    MaxLines,     \* bound: lines read per stream
    MaxOther,     \* bound: broadcasts that no topic of the subscriber matches
    MaxSubs,      \* bound: Subscribe requests on the connection
    MaxWork,      \* bound: lines, broadcasts and Subscribe requests together
    HistoryCap,   \* LOG_HISTORY_CAPACITY
    RingCap,      \* EVENT_CHANNEL_CAPACITY
    OutCap,       \* OUT_QUEUE_CAPACITY
    Other,        \* an event that no topic of the subscriber matches
    Response,     \* the answer to a request
    None

ASSUME ConstantsAssumption ==
    /\ {MaxLines, MaxOther, MaxSubs, MaxWork} \subseteq Nat
    /\ {HistoryCap, RingCap, OutCap} \subseteq Nat \ {0}

VARIABLES
    registered,  \* the session is in the map
    read,        \* lines each drainer has read
    held,        \* the line a drainer has put in the history, not yet broadcast
    log,         \* every line put in the history, in order
    sent,        \* every event broadcast, in order
    readerPc,    \* the connection's reader task
    subs,        \* Subscribe requests so far
    pending,     \* the replay still to be queued
    from,        \* where in log the latest replay began
    fwdPc,       \* the forwarder of each Subscribe
    rx,          \* its position in the broadcast channel
    got,         \* the event it has received and is queueing
    out,         \* the outgoing queue
    writerPc,    \* the writer task
    delivered,   \* the events the client has read
    clientUp     \* the client has not closed its end

vars == <<registered, read, held, log, sent, readerPc, subs, pending, from,
          fwdPc, rx, got, out, writerPc, delivered, clientUp>>

drainVars == <<registered, read, held, log>>
readerVars == <<readerPc, subs, pending, from>>
fwdVars == <<fwdPc, rx, got>>
wireVars == <<out, writerPc, delivered, clientUp>>

Sub == 1 .. MaxSubs
Others == Cardinality({i \in 1 .. Len(sent) : sent[i] = Other})
Work == Len(log) + Others + subs
Line == Stream \X (1 .. MaxLines)

ASSUME EventsAssumption ==
    Other \notin Line /\ None \notin Line /\ Response \notin Sub \X Line

\* Every variable has its type and the outgoing queue keeps to its capacity.
TypeOK ==
    /\ registered \in BOOLEAN
    /\ read \in [Stream -> 0 .. MaxLines]
    /\ held \in [Stream -> Line \cup {None}]
    /\ log \in Seq(Line)
    /\ sent \in Seq(Line \cup {Other})
    /\ readerPc \in {"reading", "subscribed", "replaying", "respond", "ended", "failed"}
    /\ subs \in 0 .. MaxSubs
    /\ pending \in Seq(Line)
    /\ from \in Nat
    /\ fwdPc \in [Sub -> {"none", "running", "aborting", "lagged", "ended"}]
    /\ rx \in [Sub -> Nat]
    /\ got \in [Sub -> Line \cup {None}]
    /\ out \in Seq((Sub \X Line) \cup {Response})
    /\ Len(out) <= OutCap
    /\ writerPc \in {"up", "ended"}
    /\ delivered \in Seq(Sub \X Line)
    /\ clientUp \in BOOLEAN

Init ==
    /\ registered = TRUE
    /\ read = [d \in Stream |-> 0]
    /\ held = [d \in Stream |-> None]
    /\ log = <<>> /\ sent = <<>>
    /\ readerPc = "reading" /\ subs = 0 /\ pending = <<>> /\ from = 1
    /\ fwdPc = [i \in Sub |-> "none"]
    /\ rx = [i \in Sub |-> 1]
    /\ got = [i \in Sub |-> None]
    /\ out = <<>> /\ writerPc = "up" /\ delivered = <<>> /\ clientUp = TRUE

Elements(s) == {s[i] : i \in 1 .. Len(s)}

\* The index in log of the oldest retained line, and the retained lines.
HistoryStart == IF Len(log) > HistoryCap THEN Len(log) - HistoryCap + 1 ELSE 1
History == SubSeq(log, HistoryStart, Len(log))

\* The broadcast ring has overwritten the next event of receiver i.
Lapped(i) == Len(sent) - rx[i] + 1 > RingCap

TopicMatches(e) == e # Other

\* out_tx.send(): waits for room, or fails once the writer is gone.
CanSend == writerPc = "up" /\ Len(out) < OutCap

-----------------------------------------------------------------------------
(* The session's output.                                                    *)

\* spawn_log_drainer's loop: a line goes to the history under its lock, and
\* after that to the broadcast channel.
Drain(d) ==
    \/ /\ held[d] = None /\ read[d] < MaxLines /\ Work < MaxWork
       /\ read' = [read EXCEPT ![d] = @ + 1]
       /\ held' = [held EXCEPT ![d] = <<d, read[d] + 1>>]
       /\ log' = Append(log, <<d, read[d] + 1>>)
       /\ UNCHANGED <<registered, sent, readerVars, fwdVars, wireVars>>
    \/ /\ held[d] # None
       /\ held' = [held EXCEPT ![d] = None]
       /\ sent' = Append(sent, held[d])
       /\ UNCHANGED <<registered, read, log, readerVars, fwdVars, wireVars>>

\* An event of another topic or session.
Broadcast ==
    /\ Others < MaxOther /\ Work < MaxWork
    /\ sent' = Append(sent, Other)
    /\ UNCHANGED <<drainVars, readerVars, fwdVars, wireVars>>

\* The entry leaves the map; the drainers keep their handle on the history.
SessionEnds ==
    /\ registered
    /\ registered' = FALSE
    /\ UNCHANGED <<read, held, log, sent, readerVars, fwdVars, wireVars>>

-----------------------------------------------------------------------------
(* The reader task and Subscribe.                                           *)

AbortForwarders ==
    fwdPc' = [i \in Sub |-> IF fwdPc[i] = "running" THEN "aborting" ELSE fwdPc[i]]

\* Any request but Subscribe, the hello included.
ReadRequest ==
    /\ readerPc = "reading" /\ clientUp
    /\ readerPc' = "respond"
    /\ UNCHANGED <<drainVars, sent, subs, pending, from, fwdVars, wireVars>>

\* The old forwarder is aborted; the new receiver sees what is sent from now on.
Subscribe ==
    /\ readerPc = "reading" /\ clientUp /\ subs < MaxSubs /\ Work < MaxWork
    /\ readerPc' = "subscribed"
    /\ subs' = subs + 1
    /\ AbortForwarders
    /\ rx' = [rx EXCEPT ![subs + 1] = Len(sent) + 1]
    /\ UNCHANGED <<drainVars, sent, pending, from, got, wireVars>>

\* (mistake) The forwarder is started before the replay has been queued.
ReplayLogsSpawnsEarly ==
    /\ readerPc = "subscribed"
    /\ readerPc' = "replaying"
    /\ pending' = IF registered THEN History ELSE <<>>
    /\ from' = IF registered THEN HistoryStart ELSE Len(log) + 1
    /\ fwdPc' = [fwdPc EXCEPT ![subs] = "running"]
    /\ UNCHANGED <<drainVars, sent, subs, rx, got, wireVars>>

\* replay_logs: a copy of the history, nothing if the session is gone.
ReplayLogs ==
    /\ readerPc = "subscribed"
    /\ readerPc' = "replaying"
    /\ pending' = IF registered THEN History ELSE <<>>
    /\ from' = IF registered THEN HistoryStart ELSE Len(log) + 1
    /\ UNCHANGED <<drainVars, sent, subs, fwdVars, wireVars>>

ReplaySend ==
    /\ readerPc = "replaying" /\ pending # <<>>
    /\ CanSend
    /\ out' = Append(out, <<subs, Head(pending)>>)
    /\ pending' = Tail(pending)
    /\ UNCHANGED <<drainVars, sent, readerPc, subs, from, fwdVars, writerPc,
                   delivered, clientUp>>

ReplayBreaks ==
    /\ readerPc = "replaying" /\ pending # <<>>
    /\ writerPc = "ended"
    /\ pending' = <<>>
    /\ UNCHANGED <<drainVars, sent, readerPc, subs, from, fwdVars, wireVars>>

\* (mistake) The receiver is taken after the replay.
SpawnForwarderLateRx ==
    /\ readerPc = "replaying" /\ pending = <<>>
    /\ readerPc' = "respond"
    /\ fwdPc' = [fwdPc EXCEPT ![subs] = "running"]
    /\ rx' = [rx EXCEPT ![subs] = Len(sent) + 1]
    /\ UNCHANGED <<drainVars, sent, subs, pending, from, got, wireVars>>

SpawnForwarder ==
    /\ readerPc = "replaying" /\ pending = <<>>
    /\ readerPc' = "respond"
    /\ fwdPc' = [fwdPc EXCEPT ![subs] = "running"]
    /\ UNCHANGED <<drainVars, sent, subs, pending, from, rx, got, wireVars>>

Respond ==
    /\ readerPc = "respond"
    /\ CanSend
    /\ out' = Append(out, Response)
    /\ readerPc' = "reading"
    /\ UNCHANGED <<drainVars, sent, subs, pending, from, fwdVars, writerPc,
                   delivered, clientUp>>

\* (mistake) The loop ends without aborting the forwarder.
ReaderEndsNoAbort ==
    /\ \/ readerPc = "respond" /\ writerPc = "ended"
       \/ readerPc = "reading"
    /\ readerPc' = "ended"
    /\ UNCHANGED <<drainVars, sent, subs, pending, from, fwdVars, wireVars>>

\* The loop breaks: the writer is gone, the client closed between two frames,
\* or a frame is not a request.  The forwarder is aborted.
ReaderEnds ==
    /\ \/ readerPc = "respond" /\ writerPc = "ended"
       \/ readerPc = "reading"
    /\ readerPc' = "ended"
    /\ AbortForwarders
    /\ UNCHANGED <<drainVars, sent, subs, pending, from, rx, got, wireVars>>

\* read_frame fails (a length above MAX_FRAME_SIZE, an end of file inside a
\* frame): the ? returns past the abort.
ReaderFails ==
    /\ readerPc = "reading"
    /\ readerPc' = "failed"
    /\ UNCHANGED <<drainVars, sent, subs, pending, from, fwdVars, wireVars>>

-----------------------------------------------------------------------------
(* event_forwarder                                                          *)

\* abort() takes effect when the task next yields: until then it goes on.
Active(i) == fwdPc[i] \in {"running", "aborting"}

ForwarderRecv(i) ==
    /\ Active(i) /\ got[i] = None /\ rx[i] <= Len(sent)
    /\ IF Lapped(i)
       THEN /\ fwdPc' = [fwdPc EXCEPT ![i] = "lagged"]
            /\ UNCHANGED <<rx, got>>
       ELSE /\ rx' = [rx EXCEPT ![i] = @ + 1]
            /\ got' = [got EXCEPT ![i] = IF TopicMatches(sent[rx[i]]) THEN sent[rx[i]]
                                         ELSE None]
            /\ UNCHANGED fwdPc
    /\ UNCHANGED <<drainVars, sent, readerVars, wireVars>>

\* (mistake) An event that finds the queue full is dropped (try_send).
ForwarderSendDrops(i) ==
    /\ Active(i) /\ got[i] # None
    /\ got' = [got EXCEPT ![i] = None]
    /\ out' = IF CanSend THEN Append(out, <<i, got[i]>>) ELSE out
    /\ UNCHANGED <<drainVars, sent, readerVars, fwdPc, rx, writerPc, delivered, clientUp>>

ForwarderSend(i) ==
    /\ Active(i) /\ got[i] # None
    /\ CanSend
    /\ got' = [got EXCEPT ![i] = None]
    /\ out' = Append(out, <<i, got[i]>>)
    /\ UNCHANGED <<drainVars, sent, readerVars, fwdPc, rx, writerPc, delivered, clientUp>>

\* The writer is gone, or the abort takes effect.
ForwarderEnds(i) ==
    /\ \/ Active(i) /\ got[i] # None /\ writerPc = "ended"
       \/ fwdPc[i] = "aborting"
    /\ fwdPc' = [fwdPc EXCEPT ![i] = "ended"]
    /\ UNCHANGED <<drainVars, sent, readerVars, rx, got, wireVars>>

-----------------------------------------------------------------------------
(* writer_task and the client.                                              *)

\* write_all of the next message, which returns once the client has room for it.
WriterSend ==
    /\ writerPc = "up" /\ out # <<>> /\ clientUp
    /\ out' = Tail(out)
    /\ delivered' = IF Head(out) = Response THEN delivered ELSE Append(delivered, Head(out))
    /\ UNCHANGED <<drainVars, sent, readerVars, fwdVars, writerPc, clientUp>>

\* write_all fails, or every sender is gone and the queue is drained.
WriterEnds ==
    /\ writerPc = "up"
    /\ \/ out # <<>> /\ ~clientUp
       \/ /\ out = <<>>
          /\ readerPc \in {"ended", "failed"}
          /\ \A i \in Sub : ~Active(i)
    /\ writerPc' = "ended"
    /\ UNCHANGED <<drainVars, sent, readerVars, fwdVars, out, delivered, clientUp>>

ClientCloses ==
    /\ clientUp
    /\ clientUp' = FALSE
    /\ UNCHANGED <<drainVars, sent, readerVars, fwdVars, out, writerPc, delivered>>

-----------------------------------------------------------------------------
ReaderStep == \/ ReplayLogs \/ ReplaySend \/ ReplayBreaks \/ SpawnForwarder \/ Respond
ForwarderStep(i) == ForwarderRecv(i) \/ ForwarderSend(i) \/ ForwarderEnds(i)

Next ==
    \/ \E d \in Stream : Drain(d)
    \/ Broadcast \/ SessionEnds
    \/ ReadRequest \/ Subscribe \/ ReaderStep \/ ReaderEnds \/ ReaderFails
    \/ \E i \in Sub : ForwarderStep(i)
    \/ WriterSend \/ WriterEnds \/ ClientCloses

\* Tasks that can run do run, a drainer that has a line broadcasts it, and the
\* client, while it is there, keeps reading.  The end of file of a closed client
\* is seen.  The outgoing channel grants room in the order it was asked for, so
\* no sender waits for ever while others pass it (strong fairness).  No request,
\* line or close is obliged to happen.
Fairness ==
    /\ WF_vars(ReaderStep) /\ SF_vars(ReplaySend) /\ SF_vars(Respond)
    /\ WF_vars(~clientUp /\ ReaderEnds)
    /\ WF_vars(writerPc = "ended" /\ ReaderEnds)
    /\ \A i \in Sub : WF_vars(ForwarderStep(i)) /\ SF_vars(ForwarderSend(i))
    /\ \A d \in Stream : WF_vars(held[d] # None /\ Drain(d))
    /\ WF_vars(WriterSend) /\ WF_vars(WriterEnds)

Spec == Init /\ [][Next]_vars /\ Fairness

-----------------------------------------------------------------------------
(* Properties                                                               *)

\* An event of Subscribe i, and the lines of such events among the first n of s.
Of(e, i) == e # Response /\ e[1] = i
Lines(s, n, i) == {s[q][2] : q \in {r \in 1 .. n : Of(s[r], i)}}

\* The lines of Subscribe i on their way to the client or already there.
Queued(i) == Lines(delivered, Len(delivered), i) \cup Lines(out, Len(out), i)

\* The lines the latest Subscribe owes the client: the history it replays, and
\* whatever is put in the history afterwards.
Due == {log[j] : j \in from .. Len(log)}

\* A line is never lost between replay and live events: while its forwarder has
\* not been lapped by the ring, each line due is delivered, queued, or on its way
\* through the replay, the ring, the forwarder or a drainer ("Subscribe BEFORE
\* replay so live events after replay don't slip through the gap").
NoLineIsLost ==
    (/\ readerPc \in {"replaying", "respond", "reading"}
     /\ subs > 0 /\ writerPc = "up" /\ fwdPc[subs] \in {"none", "running"}
     /\ ~Lapped(subs)) =>
        Due \subseteq Queued(subs) \cup Elements(pending)
                 \cup {sent[j] : j \in rx[subs] .. Len(sent)}
                 \cup {got[subs]} \cup {held[d] : d \in Stream}

\* The lines of S that come before line l in its stream.
Earlier(l, S) == {m \in S : m[1] = l[1] /\ m[2] < l[2]}

\* After the lines of prior, s brings each line of S for Subscribe i, the first
\* time, only when it has brought the earlier ones.
InOrder(s, i, S, prior) ==
    \A q \in 1 .. Len(s) :
        LET before == prior \cup Lines(s, q - 1, i)
        IN  Of(s[q], i) /\ s[q][2] \in S \ before => Earlier(s[q][2], S) \subseteq before

\* When the client first reads a line that is due it has read every earlier due
\* line of that stream: wherever the replay stops and the live events take over,
\* a client that skips repeated lines reads each stream in order, without holes.
StreamsStayInOrder == InOrder(delivered, subs, Due, {})

\* A connection whose reader left its loop ends: forwarders stop, the queue is
\* drained and the writer shuts the socket down.
ConnectionEnds == (readerPc = "ended") ~> (writerPc = "ended" /\ \A i \in Sub : ~Active(i))

\* Under a client that keeps reading, a line that is due is delivered unless the
\* subscription ends first: replaced, lagged, or its connection over.
DueIsDelivered ==
    \A l \in Line, i \in Sub :
        (subs = i /\ readerPc = "replaying" /\ l \in Due) ~>
            (<<i, l>> \in Elements(delivered) \/ subs # i \/ ~clientUp
               \/ readerPc \in {"ended", "failed"} \/ fwdPc[i] = "lagged")

\* The three tasks of a connection never wait for each other for ever: a line
\* due to a reading subscriber is written, and a connection whose reader left
\* its loop ends.
StreamSettles == ConnectionEnds /\ DueIsDelivered

\* "A connection terminates when the reader returns EOF/error or the writer fails
\* to flush. All child tasks are then aborted or drained."
ReaderErrorEndsConnection ==
    (readerPc = "failed") ~> (writerPc = "ended" /\ \A i \in Sub : ~Active(i))

\* "subscriber lagged; dropping connection": the writer drains and exits and the
\* reader exits too.
LaggedIsDropped ==
    \A i \in Sub : (fwdPc[i] = "lagged") ~> (writerPc = "ended")

=============================================================================

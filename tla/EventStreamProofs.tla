-------------------------- MODULE EventStreamProofs --------------------------
(* Every subscriber sees every line of a session's output once it is due, and  *)
(* the lines of one stream in order, for any number of streams, lines and      *)
(* Subscribes and any size of the history, the ring and the client's queue.    *)
(*                                                                             *)
(* A line due to the latest Subscribe is always somewhere on its way: queued   *)
(* or read, in the replay, in the broadcast ring, or in the hands of the       *)
(* forwarder or of the drainer that read it.  StreamInv says so, and that the  *)
(* history, the ring and the replay each hold the lines of a stream in order,  *)
(* so that whatever is queued next comes after the earlier lines.              *)
EXTENDS EventStream, TLAPS

\* A line some drainer has read, r being how many each has read.
Known(l, r) == l \in Line /\ l[2] <= r[l[1]]

\* Lines are numbered as the drainers read them; a drainer holds the last it read;
\* log and sent keep the lines of a stream in order.
Numbered ==
    /\ \A d \in Stream : held[d] # None => held[d] = <<d, read[d]>>
    /\ \A j \in 1 .. Len(log) : Known(log[j], read)
    /\ \A j \in 1 .. Len(sent) : sent[j] # Other => Known(sent[j], read)
    /\ \A j, k \in 1 .. Len(log) :
          log[j][1] = log[k][1] /\ log[j][2] < log[k][2] => j < k
    /\ \A j, k \in 1 .. Len(sent) :
          (sent[j] # Other /\ sent[k] # Other /\ sent[j][1] = sent[k][1]
             /\ sent[j][2] < sent[k][2]) => j < k

\* A forwarder holds the event before its position in the ring.
Positions ==
    \A i \in Sub : /\ rx[i] \in 1 .. Len(sent) + 1
                   /\ got[i] # None => rx[i] > 1 /\ got[i] = sent[rx[i] - 1]
                   /\ i > subs => fwdPc[i] = "none" /\ got[i] = None

\* A forwarder of the latest Subscribe starts once the replay is over.
Handover ==
    /\ readerPc \in {"subscribed", "replaying"} =>
          subs > 0 /\ fwdPc[subs] = "none" /\ got[subs] = None
    /\ pending # <<>> => readerPc = "replaying"

\* Nobody sends for a Subscribe that has not been made, or not been replayed: the
\* events of s are of the Subscribes up to m, and carry lines that have been read.
Top == IF readerPc = "subscribed" THEN subs - 1 ELSE subs
Tagged(s, m, r) ==
    \A q \in 1 .. Len(s) : s[q] # Response => s[q][1] <= m /\ Known(s[q][2], r)

\* Where a line due to the latest Subscribe can be: queued or read by the client, in
\* the replay, in the ring, in the forwarder's hands or in a drainer's.
Ring == {sent[j] : j \in rx[subs] .. Len(sent)}
Held == {held[d] : d \in Stream}
Covered == Queued(subs) \cup Elements(pending) \cup Ring \cup {got[subs]} \cup Held

\* NoLineIsLost whatever has become of the reader and the forwarder.
NothingLost == (readerPc # "subscribed" /\ subs > 0 /\ writerPc = "up") => Due \subseteq Covered

\* The replay is the retained log: a line of it comes after the earlier ones.
ReplayOrdered ==
    \A i \in 1 .. Len(pending) :
        /\ Known(pending[i], read)
        /\ writerPc = "up" =>
             Earlier(pending[i], Due) \subseteq Queued(subs) \cup {pending[h] : h \in 1 .. i - 1}

QueueOrdered == InOrder(out, subs, Due, Lines(delivered, Len(delivered), subs))

StreamInv ==
    /\ TypeOK /\ Numbered /\ Positions /\ Handover
    /\ Tagged(delivered, Top, read) /\ Tagged(out, Top, read)
    /\ from \in 1 .. Len(log) + 1
    /\ NothingLost /\ ReplayOrdered /\ QueueOrdered /\ StreamsStayInOrder

-----------------------------------------------------------------------------
(* Queues: what a sent and a written event do to the lines and their order.   *)

Event == (Sub \X Line) \cup {Response}

\* The line of e, if e is an event of Subscribe i.
LineOf(e, i) == IF Of(e, i) THEN {e[2]} ELSE {}

\* A queued event adds its line behind the others.
LEMMA LinesAppend ==
    ASSUME NEW s \in Seq(Event), NEW e \in Event, NEW i
    PROVE  /\ \A n \in 0 .. Len(s) : Lines(Append(s, e), n, i) = Lines(s, n, i)
           /\ Lines(Append(s, e), Len(s) + 1, i) = Lines(s, Len(s), i) \cup LineOf(e, i)
<1> DEFINE t == Append(s, e)
<1>1. Len(t) = Len(s) + 1 /\ t[Len(s) + 1] = e /\ \A q \in 1 .. Len(s) : t[q] = s[q]
  OBVIOUS
<1>2. Len(s) \in Nat
  OBVIOUS
<1> HIDE DEF t
<1>3. ASSUME NEW n \in 0 .. Len(s) PROVE Lines(t, n, i) = Lines(s, n, i)
  BY <1>1, <1>2 DEF Lines, Of
<1>4. ASSUME NEW l PROVE l \in Lines(t, Len(s) + 1, i) <=> l \in Lines(s, Len(s), i) \cup LineOf(e, i)
  BY <1>1, <1>2 DEF Lines, Of, LineOf
<1>5. Lines(t, Len(s) + 1, i) = Lines(s, Len(s), i) \cup LineOf(e, i)
  BY <1>4, Zenon
<1> QED BY <1>3, <1>5, Zenon DEF t

\* The lines of a queue are those of its head and of the rest.
LEMMA LinesTail ==
    ASSUME NEW s \in Seq(Event), s # <<>>, NEW i, NEW n \in 0 .. Len(s) - 1
    PROVE  Lines(s, n + 1, i) = LineOf(Head(s), i) \cup Lines(Tail(s), n, i)
<1> DEFINE t == Tail(s)
<1>1. Len(s) \in Nat /\ Head(s) = s[1] /\ \A q \in 1 .. Len(s) - 1 : t[q] = s[q + 1]
  OBVIOUS
<1> HIDE DEF t
<1>2. ASSUME NEW l, l \in Lines(s, n + 1, i) PROVE l \in LineOf(Head(s), i) \cup Lines(t, n, i)
  <2>1. PICK q \in 1 .. n + 1 : Of(s[q], i) /\ l = s[q][2]
    BY <1>2, Zenon DEF Lines
  <2>2. CASE q = 1
    BY <2>1, <2>2, <1>1, Zenon DEF LineOf
  <2>3. CASE q # 1
    <3>1. q - 1 \in 1 .. n /\ t[q - 1] = s[q]
      BY <1>1, <2>3
    <3> QED BY <2>1, <3>1, Zenon DEF Lines
  <2> QED BY <2>2, <2>3, Zenon
<1>3. ASSUME NEW l, l \in LineOf(Head(s), i) PROVE l \in Lines(s, n + 1, i)
  <2>1. 1 \in 1 .. n + 1 /\ Of(s[1], i) /\ l = s[1][2]
    BY <1>1, <1>3 DEF LineOf
  <2> QED BY <2>1, Zenon DEF Lines
<1>4. ASSUME NEW l, l \in Lines(t, n, i) PROVE l \in Lines(s, n + 1, i)
  <2>1. PICK q \in 1 .. n : Of(t[q], i) /\ l = t[q][2]
    BY <1>4, Zenon DEF Lines
  <2>2. q + 1 \in 1 .. n + 1 /\ t[q] = s[q + 1]
    BY <1>1
  <2> QED BY <2>1, <2>2, Zenon DEF Lines
<1>5. Lines(s, n + 1, i) = LineOf(Head(s), i) \cup Lines(t, n, i)
  BY <1>2, <1>3, <1>4, Zenon
<1> QED BY <1>5, Zenon DEF t

\* A queue stays in order when what is appended comes after the earlier lines.
LEMMA OrderAppend ==
    ASSUME NEW s \in Seq(Event), NEW e \in Event, NEW i, NEW S, NEW P,
           InOrder(s, i, S, P),
           (Of(e, i) /\ e[2] \in S \ (P \cup Lines(s, Len(s), i)))
               => Earlier(e[2], S) \subseteq P \cup Lines(s, Len(s), i)
    PROVE  InOrder(Append(s, e), i, S, P)
<1> DEFINE t == Append(s, e)
<1>1. Len(t) = Len(s) + 1 /\ t[Len(s) + 1] = e /\ Len(s) \in Nat
      /\ \A q \in 1 .. Len(s) : t[q] = s[q]
  OBVIOUS
<1>2. \A n \in 0 .. Len(s) : Lines(t, n, i) = Lines(s, n, i)
  BY LinesAppend, Zenon
<1> HIDE DEF t
<1>3. ASSUME NEW q \in 1 .. Len(t), Of(t[q], i), t[q][2] \in S \ (P \cup Lines(t, q - 1, i))
      PROVE  Earlier(t[q][2], S) \subseteq P \cup Lines(t, q - 1, i)
  <2>1. q - 1 \in 0 .. Len(s)
    BY <1>1
  <2>2. Lines(t, q - 1, i) = Lines(s, q - 1, i)
    BY <1>2, <2>1, Zenon
  <2>3. CASE q = Len(s) + 1
    <3>1. q - 1 = Len(s)
      BY <2>3, <1>1
    <3> QED BY <1>1, <1>3, <2>2, <2>3, <3>1, Zenon
  <2>4. CASE q # Len(s) + 1
    <3>1. q \in 1 .. Len(s) /\ t[q] = s[q]
      BY <1>1, <2>4
    <3> QED BY <1>3, <2>2, <3>1, Zenon DEF InOrder
  <2> QED BY <2>3, <2>4, Zenon
<1>4. InOrder(t, i, S, P)
  BY <1>3, Zenon DEF InOrder
<1> QED BY <1>4, Zenon DEF t

\* The head of a queue in order may be taken; the rest is in order behind it.
LEMMA OrderTail ==
    ASSUME NEW s \in Seq(Event), s # <<>>, NEW i, NEW S, NEW P, InOrder(s, i, S, P)
    PROVE  /\ InOrder(Tail(s), i, S, P \cup LineOf(Head(s), i))
           /\ (Of(Head(s), i) /\ Head(s)[2] \in S \ P) => Earlier(Head(s)[2], S) \subseteq P
<1> DEFINE t == Tail(s)
<1>1. Len(s) \in Nat \ {0} /\ Head(s) = s[1] /\ Len(t) = Len(s) - 1
      /\ \A q \in 1 .. Len(s) - 1 : t[q] = s[q + 1]
  OBVIOUS
<1>2. \A n \in 0 .. Len(s) - 1 : Lines(s, n + 1, i) = LineOf(Head(s), i) \cup Lines(t, n, i)
  BY LinesTail, Zenon
<1> HIDE DEF t
<1>3. ASSUME NEW q \in 1 .. Len(t),
             Of(t[q], i), t[q][2] \in S \ (P \cup LineOf(Head(s), i) \cup Lines(t, q - 1, i))
      PROVE  Earlier(t[q][2], S) \subseteq P \cup LineOf(Head(s), i) \cup Lines(t, q - 1, i)
  <2>1. q - 1 \in 0 .. Len(s) - 1 /\ q + 1 \in 1 .. Len(s) /\ t[q] = s[q + 1] /\ (q - 1) + 1 = q
        /\ (q + 1) - 1 = q
    BY <1>1
  <2>2. Lines(s, q, i) = LineOf(Head(s), i) \cup Lines(t, q - 1, i)
    BY <1>2, <2>1, Zenon
  <2>3. s[q + 1][2] \in S \ (P \cup Lines(s, (q + 1) - 1, i))
    BY <1>3, <2>1, <2>2, Zenon
  <2>4. Earlier(s[q + 1][2], S) \subseteq P \cup Lines(s, (q + 1) - 1, i)
    BY <1>3, <2>1, <2>3, Zenon DEF InOrder
  <2> QED BY <2>1, <2>2, <2>4, Zenon
<1>4. InOrder(t, i, S, P \cup LineOf(Head(s), i))
  BY <1>3, Zenon DEF InOrder
<1>5. ASSUME Of(Head(s), i), Head(s)[2] \in S \ P PROVE Earlier(Head(s)[2], S) \subseteq P
  <2>1. 1 \in 1 .. Len(s) /\ 1 - 1 = 0
    BY <1>1
  <2>2. Lines(s, 0, i) = {}
    BY DEF Lines
  <2> QED BY <1>1, <1>5, <2>1, <2>2, Zenon DEF InOrder
<1> QED BY <1>4, <1>5, Zenon DEF t

\* A new line that is none of the queue's, nor before one of them, changes nothing.
LEMMA OrderGrows ==
    ASSUME NEW s \in Seq(Event), NEW i, NEW S, NEW P, InOrder(s, i, S, P), NEW n,
           \A q \in 1 .. Len(s) : Of(s[q], i) => s[q][2] # n /\ ~(n[1] = s[q][2][1] /\ n[2] < s[q][2][2])
    PROVE  InOrder(s, i, S \cup {n}, P)
<1>1. ASSUME NEW q \in 1 .. Len(s), Of(s[q], i),
             s[q][2] \in (S \cup {n}) \ (P \cup Lines(s, q - 1, i))
      PROVE  Earlier(s[q][2], S \cup {n}) \subseteq P \cup Lines(s, q - 1, i)
  <2>1. s[q][2] \in S \ (P \cup Lines(s, q - 1, i))
    BY <1>1, Zenon
  <2>2. Earlier(s[q][2], S) \subseteq P \cup Lines(s, q - 1, i)
    BY <1>1, <2>1, Zenon DEF InOrder
  <2>3. Earlier(s[q][2], S \cup {n}) = Earlier(s[q][2], S)
    BY <1>1, Zenon DEF Earlier
  <2> QED BY <2>2, <2>3, Zenon
<1> QED BY <1>1, Zenon DEF InOrder

\* A queue with nothing of Subscribe i is in order.
LEMMA OrderNone ==
    ASSUME NEW s, NEW i, NEW S, NEW P, \A q \in 1 .. Len(s) : ~Of(s[q], i)
    PROVE  InOrder(s, i, S, P) /\ \A n \in 0 .. Len(s) : Lines(s, n, i) = {}
<1>1. ASSUME NEW n \in 0 .. Len(s), NEW l, l \in Lines(s, n, i) PROVE FALSE
  BY <1>1 DEF Lines
<1> QED BY <1>1, Zenon DEF InOrder
-----------------------------------------------------------------------------
(* Types.                                                                     *)

LEMMA Constants ==
    /\ MaxLines \in Nat /\ MaxSubs \in Nat /\ HistoryCap \in Nat \ {0} /\ OutCap \in Nat \ {0}
    /\ Other \notin Line /\ None \notin Line /\ Response \notin Sub \X Line
  BY ConstantsAssumption, EventsAssumption, Zenon

\* TypeOK by task.
DrainTypes ==
    /\ registered \in BOOLEAN
    /\ read \in [Stream -> 0 .. MaxLines]
    /\ held \in [Stream -> Line \cup {None}]
    /\ log \in Seq(Line)
SentTypes == sent \in Seq(Line \cup {Other})
ReaderTypes ==
    /\ readerPc \in {"reading", "subscribed", "replaying", "respond", "ended", "failed"}
    /\ subs \in 0 .. MaxSubs
    /\ pending \in Seq(Line)
    /\ from \in Nat
ForwarderTypes ==
    /\ fwdPc \in [Sub -> {"none", "running", "aborting", "lagged", "ended"}]
    /\ rx \in [Sub -> Nat]
    /\ got \in [Sub -> Line \cup {None}]
WireTypes ==
    /\ out \in Seq(Event) /\ Len(out) <= OutCap
    /\ writerPc \in {"up", "ended"}
    /\ delivered \in Seq(Sub \X Line)
    /\ clientUp \in BOOLEAN
Types == DrainTypes /\ SentTypes /\ ReaderTypes /\ ForwarderTypes /\ WireTypes

LEMMA TypesByTask == TypeOK <=> Types
  BY Zenon DEF TypeOK, Types, DrainTypes, SentTypes, ReaderTypes, ForwarderTypes, WireTypes, Event

LEMMA TypeStep == Types /\ Positions /\ Handover /\ [Next]_vars => Types'
<1> SUFFICES ASSUME Types, Positions, Handover, [Next]_vars PROVE Types'
  BY Zenon
<1>d. UNCHANGED drainVars => DrainTypes'
  BY Zenon DEF Types, DrainTypes, drainVars
<1>s. UNCHANGED sent => SentTypes'
  BY Zenon DEF Types, SentTypes
<1>r. UNCHANGED readerVars => ReaderTypes'
  BY Zenon DEF Types, ReaderTypes, readerVars
<1>f. UNCHANGED fwdVars => ForwarderTypes'
  BY Zenon DEF Types, ForwarderTypes, fwdVars
<1>w. UNCHANGED wireVars => WireTypes'
  BY Zenon DEF Types, WireTypes, wireVars
<1>1. ASSUME NEW d \in Stream, Drain(d) PROVE Types'
  <2>1. CASE held[d] = None
    <3>1. <<d, read[d] + 1>> \in Line /\ read[d] + 1 \in 0 .. MaxLines
      <4>1. read[d] \in 0 .. MaxLines /\ read[d] < MaxLines
        BY <1>1, <2>1, Zenon DEF Drain, Types, DrainTypes
      <4> QED BY <4>1, Constants DEF Line
    <3>2. DrainTypes'
      <4>1. /\ registered' = registered /\ read' = [read EXCEPT ![d] = read[d] + 1]
            /\ held' = [held EXCEPT ![d] = <<d, read[d] + 1>>]
            /\ log' = Append(log, <<d, read[d] + 1>>)
        BY <1>1, <2>1, Zenon DEF Drain
      <4> QED BY <3>1, <4>1 DEF Types, DrainTypes
    <3> QED BY <1>1, <2>1, <3>2, <1>s, <1>r, <1>f, <1>w, Zenon DEF Drain, Types
  <2>2. CASE held[d] # None
    <3>1. DrainTypes' /\ SentTypes'
      <4>1. /\ UNCHANGED <<registered, read, log>> /\ held' = [held EXCEPT ![d] = None]
            /\ sent' = Append(sent, held[d])
        BY <1>1, <2>2, Zenon DEF Drain
      <4>2. held[d] \in Line
        BY <2>2, Zenon DEF Types, DrainTypes
      <4> QED BY <4>1, <4>2 DEF Types, DrainTypes, SentTypes
    <3> QED BY <1>1, <2>2, <3>1, <1>r, <1>f, <1>w, Zenon DEF Drain, Types
  <2> QED BY <2>1, <2>2, Zenon
<1>2. CASE Broadcast
  <2>1. SentTypes'
    BY <1>2 DEF Broadcast, Types, SentTypes
  <2> QED BY <1>2, <2>1, <1>d, <1>r, <1>f, <1>w, Zenon DEF Broadcast, Types
<1>3. CASE SessionEnds
  <2>1. DrainTypes'
    BY <1>3, Zenon DEF SessionEnds, Types, DrainTypes
  <2> QED BY <1>3, <2>1, <1>s, <1>r, <1>f, <1>w, Zenon DEF SessionEnds, Types
<1>4. CASE ReadRequest \/ ReaderFails \/ ReplayBreaks
  <2>1. ReaderTypes'
    <3>1. CASE ReplayBreaks
      BY <3>1 DEF ReplayBreaks, Types, ReaderTypes
    <3>2. CASE ReadRequest \/ ReaderFails
      BY <3>2, Zenon DEF ReadRequest, ReaderFails, Types, ReaderTypes
    <3> QED BY <1>4, <3>1, <3>2, Zenon
  <2> QED BY <1>4, <2>1, <1>d, <1>s, <1>f, <1>w, Zenon
      DEF ReadRequest, ReaderFails, ReplayBreaks, Types
<1>5. CASE Subscribe
  <2>1. Len(sent) + 1 \in Nat
    BY DEF Types, SentTypes
  <2>2. ForwarderTypes'
    BY <1>5, <2>1, Zenon DEF Subscribe, AbortForwarders, Types, ForwarderTypes
  <2>3. ReaderTypes'
    BY <1>5, Constants DEF Subscribe, Types, ReaderTypes
  <2> QED BY <1>5, <2>2, <2>3, <1>d, <1>s, <1>w, Zenon DEF Subscribe, Types
<1>6. CASE ReplayLogs
  <2>1. log \in Seq(Line)
    BY Zenon DEF Types, DrainTypes
  <2>2. HistoryStart \in 1 .. Len(log) + 1
    BY <2>1, Constants DEF HistoryStart
  <2>3. History \in Seq(Line) /\ Len(log) + 1 \in Nat
    BY <2>1, <2>2 DEF History
  <2>4. ReaderTypes'
    BY <1>6, <2>2, <2>3 DEF ReplayLogs, Types, ReaderTypes
  <2> QED BY <1>6, <2>4, <1>d, <1>s, <1>f, <1>w, Zenon DEF ReplayLogs, Types
<1>7. CASE ReplaySend
  <2>1. pending \in Seq(Line) /\ pending # <<>>
    BY <1>7, Zenon DEF ReplaySend, Types, ReaderTypes
  <2>2. Head(pending) \in Line /\ Tail(pending) \in Seq(Line)
    BY <2>1
  <2>3. ReaderTypes'
    BY <1>7, <2>2, Zenon DEF ReplaySend, Types, ReaderTypes
  <2>4. <<subs, Head(pending)>> \in Event
    <3>1. subs \in Sub
      BY <1>7 DEF ReplaySend, Handover, Types, ReaderTypes, Sub
    <3> QED BY <2>2, <3>1, Zenon DEF Event
  <2>5. WireTypes'
    BY <1>7, <2>4, Constants DEF ReplaySend, CanSend, Types, WireTypes
  <2> QED BY <1>7, <2>3, <2>5, <1>d, <1>s, <1>f, Zenon DEF ReplaySend, Types
<1>8. CASE SpawnForwarder
  <2>1. ReaderTypes' /\ ForwarderTypes'
    BY <1>8, Zenon DEF SpawnForwarder, Types, ReaderTypes, ForwarderTypes
  <2> QED BY <1>8, <2>1, <1>d, <1>s, <1>w, Zenon DEF SpawnForwarder, Types
<1>9. CASE Respond
  <2>1. Response \in Event
    BY Zenon DEF Event
  <2>2. WireTypes'
    BY <1>9, <2>1, Constants DEF Respond, CanSend, Types, WireTypes
  <2>3. ReaderTypes'
    BY <1>9, Zenon DEF Respond, Types, ReaderTypes
  <2> QED BY <1>9, <2>2, <2>3, <1>d, <1>s, <1>f, Zenon DEF Respond, Types
<1>10. CASE ReaderEnds
  <2>1. ReaderTypes' /\ ForwarderTypes'
    BY <1>10, Zenon DEF ReaderEnds, AbortForwarders, Types, ReaderTypes, ForwarderTypes
  <2> QED BY <1>10, <2>1, <1>d, <1>s, <1>w, Zenon DEF ReaderEnds, Types
<1>11. ASSUME NEW i \in Sub, ForwarderRecv(i) PROVE Types'
  <2>1. rx[i] \in Nat /\ sent \in Seq(Line \cup {Other})
    BY Zenon DEF Types, ForwarderTypes, SentTypes
  <2>2. ForwarderTypes'
    <3>1. CASE Lapped(i)
      BY <1>11, <3>1, Zenon DEF ForwarderRecv, Types, ForwarderTypes
    <3>2. CASE ~Lapped(i)
      <4>1. \A g : g \in Line \cup {Other} => (IF TopicMatches(g) THEN g ELSE None) \in Line \cup {None}
        BY Zenon DEF TopicMatches
      <4>2. sent[rx[i]] \in Line \cup {Other}
        BY <1>11, <2>1 DEF ForwarderRecv, Positions
      <4> QED BY <1>11, <2>1, <3>2, <4>1, <4>2 DEF ForwarderRecv, Types, ForwarderTypes
    <3> QED BY <3>1, <3>2, Zenon
  <2> QED BY <1>11, <2>2, <1>d, <1>s, <1>r, <1>w, Zenon DEF ForwarderRecv, Types
<1>12. ASSUME NEW i \in Sub, ForwarderSend(i) PROVE Types'
  <2>1. got[i] \in Line
    BY <1>12, Zenon DEF ForwarderSend, Types, ForwarderTypes
  <2>2. <<i, got[i]>> \in Event
    BY <2>1, Zenon DEF Event
  <2>3. ForwarderTypes'
    BY <1>12, Zenon DEF ForwarderSend, Types, ForwarderTypes
  <2>4. WireTypes'
    BY <1>12, <2>2, Constants DEF ForwarderSend, CanSend, Types, WireTypes
  <2> QED BY <1>12, <2>3, <2>4, <1>d, <1>s, <1>r, Zenon DEF ForwarderSend, Types
<1>13. ASSUME NEW i \in Sub, ForwarderEnds(i) PROVE Types'
  <2>1. ForwarderTypes'
    BY <1>13, Zenon DEF ForwarderEnds, Types, ForwarderTypes
  <2> QED BY <1>13, <2>1, <1>d, <1>s, <1>r, <1>w, Zenon DEF ForwarderEnds, Types
<1>14. CASE WriterSend
  <2>1. out \in Seq(Event) /\ out # <<>> /\ Len(out) <= OutCap
    BY <1>14, Zenon DEF WriterSend, Types, WireTypes
  <2>2. Head(out) \in Event /\ Tail(out) \in Seq(Event) /\ Len(Tail(out)) <= OutCap
    BY <2>1, Constants
  <2>3. Head(out) # Response => Head(out) \in Sub \X Line
    BY <2>2, Zenon DEF Event
  <2>4. delivered' \in Seq(Sub \X Line)
    <3>1. delivered \in Seq(Sub \X Line)
      BY Zenon DEF Types, WireTypes
    <3>2. CASE Head(out) = Response
      BY <1>14, <3>1, <3>2, Zenon DEF WriterSend
    <3>3. CASE Head(out) # Response
      <4>1. delivered' = Append(delivered, Head(out))
        BY <1>14, <3>3, Zenon DEF WriterSend
      <4>2. ASSUME NEW T, NEW h \in T, delivered \in Seq(T), delivered' = Append(delivered, h)
            PROVE  delivered' \in Seq(T)
        BY <4>2
      <4> QED BY <2>3, <3>1, <3>3, <4>1, <4>2, Zenon
    <3> QED BY <3>2, <3>3, Zenon
  <2>5. WireTypes'
    BY <1>14, <2>2, <2>4, Zenon DEF WriterSend, Types, WireTypes
  <2> QED BY <1>14, <2>5, <1>d, <1>s, <1>r, <1>f, Zenon DEF WriterSend, Types
<1>15. CASE WriterEnds \/ ClientCloses
  <2>1. WireTypes'
    BY <1>15, Zenon DEF WriterEnds, ClientCloses, Types, WireTypes
  <2> QED BY <1>15, <2>1, <1>d, <1>s, <1>r, <1>f, Zenon DEF WriterEnds, ClientCloses, Types
<1>16. CASE UNCHANGED vars
  BY <1>16, <1>d, <1>s, <1>r, <1>f, <1>w, Zenon
  DEF vars, Types, drainVars, readerVars, fwdVars, wireVars
<1> QED
  BY <1>1, <1>2, <1>3, <1>4, <1>5, <1>6, <1>7, <1>8, <1>9, <1>10, <1>11, <1>12, <1>13, <1>14,
     <1>15, <1>16, Zenon DEF Next, ReaderStep, ForwarderStep
-----------------------------------------------------------------------------
(* The lines of a stream are numbered in the order of log and of sent.        *)

\* The two steps of Drain.
Reads(d) ==
    /\ held[d] = None
    /\ read' = [read EXCEPT ![d] = read[d] + 1]
    /\ held' = [held EXCEPT ![d] = <<d, read[d] + 1>>]
    /\ log' = Append(log, <<d, read[d] + 1>>)
    /\ UNCHANGED <<sent, readerVars, fwdVars, wireVars>>
Sends(d) ==
    /\ held[d] # None
    /\ held' = [held EXCEPT ![d] = None]
    /\ sent' = Append(sent, held[d])
    /\ UNCHANGED <<read, log, readerVars, fwdVars, wireVars>>

LEMMA DrainCases == \A d \in Stream : Drain(d) => Reads(d) \/ Sends(d)
  BY Zenon DEF Drain, Reads, Sends

\* Every other step but Broadcast leaves the lines alone.
LEMMA LinesKept ==
    [Next]_vars => \/ \E d \in Stream : Reads(d) \/ Sends(d)
                   \/ Broadcast
                   \/ UNCHANGED <<read, held, log, sent>>
<1> SUFFICES ASSUME [Next]_vars, ~(\E d \in Stream : Reads(d) \/ Sends(d)), ~Broadcast
             PROVE  UNCHANGED <<read, held, log, sent>>
  BY Zenon
<1> USE DEF drainVars
<1>1. ~(\E d \in Stream : Drain(d))
  BY DrainCases, Zenon
<1>2. CASE SessionEnds \/ ReadRequest \/ Subscribe \/ ReaderEnds \/ ReaderFails
  BY <1>2, Zenon DEF SessionEnds, ReadRequest, Subscribe, ReaderEnds, ReaderFails
<1>3. CASE ReaderStep
  BY <1>3, Zenon DEF ReaderStep, ReplayLogs, ReplaySend, ReplayBreaks, SpawnForwarder, Respond
<1>4. ASSUME NEW i \in Sub, ForwarderStep(i) PROVE UNCHANGED <<read, held, log, sent>>
  BY <1>4, Zenon DEF ForwarderStep, ForwarderRecv, ForwarderSend, ForwarderEnds
<1>5. CASE WriterSend \/ WriterEnds \/ ClientCloses
  BY <1>5, Zenon DEF WriterSend, WriterEnds, ClientCloses
<1>6. CASE UNCHANGED vars
  BY <1>6, Zenon DEF vars
<1> QED BY <1>1, <1>2, <1>3, <1>4, <1>5, <1>6, Zenon DEF Next

\* A line once read stays read, and the line a drainer reads is new and last.
LEMMA KnownStays ==
    ASSUME Types, [Next]_vars
    PROVE  \A l \in Line : Known(l, read) => Known(l, read')
<1>1. ASSUME NEW d \in Stream, Reads(d) PROVE \A l \in Line : l[2] <= read[l[1]] => l[2] <= read'[l[1]]
  <2> SUFFICES ASSUME NEW l \in Line, l[2] <= read[l[1]] PROVE l[2] <= read'[l[1]]
    BY Zenon
  <2>1. l[1] \in Stream /\ l[2] \in Nat
    BY Constants DEF Line
  <2>2. read \in [Stream -> Nat]
    BY Constants DEF Types, DrainTypes
  <2> QED BY <1>1, <2>1, <2>2 DEF Reads
<1>2. CASE \E d \in Stream : Reads(d)
  BY <1>1, <1>2, Zenon DEF Known
<1>3. CASE read' = read
  BY <1>3, Zenon DEF Known
<1> QED BY <1>2, <1>3, LinesKept, Zenon DEF Sends, Broadcast, drainVars

LEMMA NewLine ==
    ASSUME Types, NEW d \in Stream, Reads(d), NEW l, Known(l, read)
    PROVE  /\ l # <<d, read[d] + 1>>
           /\ l[1] = d => l[2] < read[d] + 1
<1>1. read[d] \in Nat /\ l \in Line
  BY Constants DEF Types, DrainTypes, Known
<1>2. l[1] \in Stream /\ l[2] \in Nat /\ l[2] <= read[l[1]]
  BY Constants DEF Line, Known
<1> QED BY <1>1, <1>2

LEMMA NumberedStep == Types /\ Types' /\ Numbered /\ [Next]_vars => Numbered'
<1> SUFFICES ASSUME Types, Types', Numbered, [Next]_vars PROVE Numbered'
  BY Zenon
<1>t. /\ log \in Seq(Line) /\ log' \in Seq(Line)
      /\ sent \in Seq(Line \cup {Other}) /\ sent' \in Seq(Line \cup {Other})
      /\ read \in [Stream -> Nat] /\ held \in [Stream -> Line \cup {None}]
  BY Constants DEF Types, DrainTypes, SentTypes
<1>u. \A l : Known(l, read) => l \in Line
  BY Zenon DEF Known
<1>k. \A l \in Line : Known(l, read) => Known(l, read')
  BY KnownStays, Zenon
<1>1. ASSUME NEW d \in Stream, Reads(d) PROVE Numbered'
  <2> DEFINE n == <<d, read[d] + 1>>
  <2>1. /\ log' = Append(log, n) /\ sent' = sent /\ held' = [held EXCEPT ![d] = n]
        /\ read' = [read EXCEPT ![d] = read[d] + 1]
    BY <1>1, Zenon DEF Reads
  <2>2. n \in Line /\ n[1] = d /\ n[2] = read[d] + 1
    <3>1. Len(log') = Len(log) + 1 /\ log'[Len(log) + 1] = n /\ Len(log) + 1 \in 1 .. Len(log')
      BY <2>1, <1>t
    <3>2. \A j \in 1 .. Len(log') : log'[j] \in Line
      BY <1>t
    <3>3. log'[Len(log) + 1] \in Line
      BY <3>1, <3>2, Zenon
    <3> QED BY <3>1, <3>3, Zenon
  <2>3. Known(n, read')
    BY <2>1, <2>2, <1>t DEF Known
  <2>4. \A l : Known(l, read) => l # n /\ (l[1] = d => l[2] < n[2])
    BY <1>1, NewLine, Zenon
  <2>5. read'[d] = n[2] /\ \A c \in Stream : c # d => read'[c] = read[c]
    BY <2>1, <2>2, <1>t, Zenon
  <2>6. Len(log') = Len(log) + 1 /\ log'[Len(log) + 1] = n /\ Len(log) \in Nat
        /\ \A j \in 1 .. Len(log) : log'[j] = log[j]
    BY <2>1, <1>t
  <2>7. \A c \in Stream : held'[c] # None => held'[c] = <<c, read'[c]>>
    BY <2>1, <2>5, <1>t, Zenon DEF Numbered
  <2>8. n[2] \in Nat /\ \A j \in 1 .. Len(log) : log[j] \in Line /\ log[j][2] \in Nat
    BY <1>t, <2>2, Constants, SMTT(30) DEF Line
  <2> HIDE DEF n
  <2>9. \A j \in 1 .. Len(log') : Known(log'[j], read')
    BY <2>3, <2>6, <2>8, <1>k DEF Numbered
  <2>10. \A j \in 1 .. Len(sent') : sent'[j] # Other => Known(sent'[j], read')
    BY <2>1, <1>k, <1>u, Zenon DEF Numbered
  <2>11. ASSUME NEW j \in 1 .. Len(log'), NEW k \in 1 .. Len(log'),
                log'[j][1] = log'[k][1], log'[j][2] < log'[k][2]
         PROVE  j < k
    <3>1. CASE j = Len(log) + 1
      <4>1. (k \in 1 .. Len(log) /\ log'[k] = log[k]) \/ k = j
        BY <2>6, <3>1
      <4>2. k # j
        BY <2>6, <2>8, <2>11, <3>1
      <4>3. Known(log[k], read) /\ log[k][1] = d
        BY <2>6, <2>11, <3>1, <4>1, <4>2, <2>2, Zenon DEF Numbered
      <4> QED BY <2>4, <2>6, <2>8, <2>11, <3>1, <4>1, <4>2, <4>3
    <3>2. CASE j # Len(log) + 1 /\ k = Len(log) + 1
      BY <2>6, <3>2
    <3>3. CASE j # Len(log) + 1 /\ k # Len(log) + 1
      <4>1. j \in 1 .. Len(log) /\ k \in 1 .. Len(log)
        BY <2>6, <3>3
      <4> QED BY <2>6, <2>11, <4>1, Zenon DEF Numbered
    <3> QED BY <3>1, <3>2, <3>3, Zenon
  <2> QED BY <2>1, <2>7, <2>9, <2>10, <2>11, Zenon DEF Numbered
<1>2. ASSUME NEW e \in Line \cup {Other}, sent' = Append(sent, e), read' = read, log' = log,
             \A c \in Stream : held'[c] # None => held'[c] = held[c],
             e # Other => e[2] = read[e[1]]
      PROVE  Numbered'
  <2>1. Len(sent') = Len(sent) + 1 /\ sent'[Len(sent) + 1] = e /\ Len(sent) \in Nat
        /\ \A j \in 1 .. Len(sent) : sent'[j] = sent[j] /\ sent[j] \in Line \cup {Other}
    BY <1>2, <1>t
  <2>2. ASSUME NEW l PROVE Known(l, read) <=> Known(l, read')
    BY <1>2, Zenon DEF Known
  <2>3. e # Other => Known(e, read)
    BY <1>2, <1>t, Constants DEF Known, Line
  <2>4. \A j \in 1 .. Len(sent') : sent'[j] # Other => Known(sent'[j], read)
    BY <2>1, <2>3 DEF Numbered
  <2>5. ASSUME NEW j \in 1 .. Len(sent'), NEW k \in 1 .. Len(sent'), sent'[j] # Other,
               sent'[k] # Other, sent'[j][1] = sent'[k][1], sent'[j][2] < sent'[k][2]
        PROVE  j < k
    <3>1. CASE j = Len(sent) + 1
      <4>1. sent'[j][2] = read[sent'[k][1]] /\ Known(sent'[k], read)
        BY <1>2, <2>1, <2>4, <2>5, <3>1, Zenon
      <4>2. sent'[k][2] <= sent'[j][2] /\ sent'[k][2] \in Nat /\ sent'[j][2] \in Nat
        BY <4>1, <1>t, Constants DEF Known, Line
      <4> QED BY <2>5, <4>2
    <3>2. CASE j # Len(sent) + 1 /\ k = Len(sent) + 1
      BY <2>1, <3>2
    <3>3. CASE j # Len(sent) + 1 /\ k # Len(sent) + 1
      <4>1. j \in 1 .. Len(sent) /\ k \in 1 .. Len(sent)
        BY <2>1, <3>3
      <4> QED BY <2>1, <2>5, <4>1, Zenon DEF Numbered
    <3> QED BY <3>1, <3>2, <3>3, Zenon
  <2>6. \A c \in Stream : held'[c] # None => held'[c] = <<c, read'[c]>>
    BY <1>2, Zenon DEF Numbered
  <2>7. \A j \in 1 .. Len(log') : Known(log'[j], read')
    BY <1>2, <2>2, Zenon DEF Numbered
  <2> QED BY <1>2, <2>2, <2>4, <2>5, <2>6, <2>7, Zenon DEF Numbered
<1>3. ASSUME NEW d \in Stream, Sends(d) PROVE Numbered'
  <2>1. held[d] \in Line /\ held[d] = <<d, read[d]>> /\ Other \notin Line
    BY <1>3, <1>t, Constants, Zenon DEF Sends, Numbered
  <2>2. sent' = Append(sent, held[d]) /\ read' = read /\ log' = log
        /\ \A c \in Stream : held'[c] # None => held'[c] = held[c]
    BY <1>3, <1>t, Zenon DEF Sends
  <2> QED BY <1>2, <2>1, <2>2, Zenon
<1>4. CASE Broadcast
  BY <1>2, <1>4, Zenon DEF Broadcast, drainVars
<1>5. CASE UNCHANGED <<read, held, log, sent>>
  BY <1>5, Zenon DEF Numbered, Known
<1> QED BY <1>1, <1>3, <1>4, <1>5, LinesKept, Zenon
-----------------------------------------------------------------------------
(* Forwarders and the reader.                                                 *)

LEMMA PositionsStep == Types /\ Positions /\ Handover /\ [Next]_vars => Positions'
<1> SUFFICES ASSUME Types, Positions, Handover, [Next]_vars, NEW j \in Sub
             PROVE  (/\ rx[j] \in 1 .. Len(sent) + 1
                     /\ got[j] # None => rx[j] > 1 /\ got[j] = sent[rx[j] - 1]
                     /\ j > subs => fwdPc[j] = "none" /\ got[j] = None)'
  BY Zenon DEF Positions
<1> DEFINE At == /\ rx[j] \in 1 .. Len(sent) + 1
                 /\ got[j] # None => rx[j] > 1 /\ got[j] = sent[rx[j] - 1]
                 /\ j > subs => fwdPc[j] = "none" /\ got[j] = None
<1>t. /\ sent \in Seq(Line \cup {Other}) /\ Len(sent) \in Nat /\ subs \in Nat /\ j \in Nat
      /\ fwdPc \in [Sub -> {"none", "running", "aborting", "lagged", "ended"}]
      /\ rx \in [Sub -> Nat] /\ got \in [Sub -> Line \cup {None}]
  BY Constants DEF Types, SentTypes, ReaderTypes, ForwarderTypes, Sub
<1>a. At
  BY Zenon DEF Positions
<1>1. ASSUME NEW e, sent' = Append(sent, e), UNCHANGED <<rx, got, fwdPc, subs>> PROVE At'
  <2>1. Len(sent') = Len(sent) + 1 /\ \A q \in 1 .. Len(sent) : sent'[q] = sent[q]
    BY <1>1, <1>t
  <2>2. got[j] # None => rx[j] - 1 \in 1 .. Len(sent)
    BY <1>a, <1>t
  <2> QED BY <1>1, <1>a, <1>t, <2>1, <2>2
<1>2. ASSUME NEW d \in Stream, Drain(d) PROVE At'
  <2>1. CASE Reads(d)
    BY <2>1, <1>a, Zenon DEF Reads, readerVars, fwdVars
  <2>2. CASE Sends(d)
    BY <2>2, <1>1, Zenon DEF Sends, readerVars, fwdVars
  <2> QED BY <1>2, <2>1, <2>2, DrainCases, Zenon
<1>3. CASE Broadcast
  BY <1>1, <1>3, Zenon DEF Broadcast, readerVars, fwdVars
<1>4. CASE UNCHANGED <<sent, rx, got, fwdPc, subs>>
  BY <1>4, <1>a, Zenon
<1>5. CASE SessionEnds \/ ReadRequest \/ ReaderFails \/ ReplayLogs \/ ReplaySend \/ ReplayBreaks
            \/ Respond \/ WriterSend \/ WriterEnds \/ ClientCloses \/ UNCHANGED vars
  BY <1>4, <1>5, Zenon
  DEF SessionEnds, ReadRequest, ReaderFails, ReplayLogs, ReplaySend, ReplayBreaks,
     Respond, WriterSend, WriterEnds, ClientCloses, vars, readerVars, fwdVars
<1>6. CASE Subscribe
  <2>1. /\ sent' = sent /\ subs' = subs + 1 /\ got' = got
        /\ rx' = [rx EXCEPT ![subs + 1] = Len(sent) + 1]
        /\ fwdPc' = [i \in Sub |-> IF fwdPc[i] = "running" THEN "aborting" ELSE fwdPc[i]]
    BY <1>6, Zenon DEF Subscribe, AbortForwarders
  <2>2. fwdPc'[j] = IF fwdPc[j] = "running" THEN "aborting" ELSE fwdPc[j]
    BY <2>1, Zenon
  <2>3. rx'[j] = IF j = subs + 1 THEN Len(sent) + 1 ELSE rx[j]
    BY <2>1, <1>t, Zenon
  <2>4. j = subs + 1 => got[j] = None
    BY <1>a, <1>t
  <2> QED BY <1>a, <1>t, <2>1, <2>2, <2>3, <2>4
<1>7. CASE SpawnForwarder
  <2>1. /\ UNCHANGED <<sent, subs, rx, got>> /\ fwdPc' = [fwdPc EXCEPT ![subs] = "running"]
    BY <1>7, Zenon DEF SpawnForwarder
  <2>2. j > subs => fwdPc'[j] = fwdPc[j]
    BY <2>1, <1>t
  <2> QED BY <1>a, <2>1, <2>2, Zenon
<1>8. CASE ReaderEnds
  <2>1. /\ UNCHANGED <<sent, subs, rx, got>>
        /\ fwdPc' = [i \in Sub |-> IF fwdPc[i] = "running" THEN "aborting" ELSE fwdPc[i]]
    BY <1>8, Zenon DEF ReaderEnds, AbortForwarders
  <2> QED BY <1>a, <2>1, Zenon
<1>9. ASSUME NEW i \in Sub, ForwarderRecv(i) PROVE At'
  <2>1. sent' = sent /\ subs' = subs /\ fwdPc[i] # "none"
    BY <1>9, Zenon DEF ForwarderRecv, Active, readerVars
  <2>2. CASE Lapped(i)
    <3>1. rx' = rx /\ got' = got /\ fwdPc' = [fwdPc EXCEPT ![i] = "lagged"]
      BY <1>9, <2>2, Zenon DEF ForwarderRecv
    <3> QED BY <1>a, <1>t, <2>1, <3>1, Zenon
  <2>3. CASE ~Lapped(i)
    <3>1. /\ rx' = [rx EXCEPT ![i] = rx[i] + 1] /\ fwdPc' = fwdPc /\ rx[i] <= Len(sent)
          /\ got' = [got EXCEPT ![i] = IF TopicMatches(sent[rx[i]]) THEN sent[rx[i]] ELSE None]
      BY <1>9, <2>3, Zenon DEF ForwarderRecv
    <3>2. CASE i = j
      <4>1. rx'[j] = rx[j] + 1 /\ (got'[j] # None => got'[j] = sent[rx[j]])
        BY <3>1, <3>2, <1>t, Zenon
      <4>2. rx[j] \in 1 .. Len(sent) /\ ~(j > subs) /\ (rx[j] + 1) - 1 = rx[j]
        BY <1>a, <1>t, <2>1, <3>1, <3>2
      <4> QED BY <2>1, <4>1, <4>2, <1>t
    <3>3. CASE i # j
      BY <1>a, <1>t, <2>1, <3>1, <3>3, Zenon
    <3> QED BY <3>2, <3>3, Zenon
  <2> QED BY <2>2, <2>3, Zenon
<1>10. ASSUME NEW i \in Sub, ForwarderSend(i) PROVE At'
  <2>1. UNCHANGED <<sent, subs, rx, fwdPc>> /\ got' = [got EXCEPT ![i] = None]
    BY <1>10, Zenon DEF ForwarderSend, readerVars
  <2>2. got'[j] = None \/ got'[j] = got[j]
    BY <2>1, <1>t, Zenon
  <2> QED BY <1>a, <2>1, <2>2, Zenon
<1>11. ASSUME NEW i \in Sub, ForwarderEnds(i) PROVE At'
  <2>1. UNCHANGED <<sent, subs, rx, got>> /\ fwdPc' = [fwdPc EXCEPT ![i] = "ended"] /\ fwdPc[i] # "none"
    BY <1>11, Zenon DEF ForwarderEnds, Active, readerVars
  <2> QED BY <1>a, <1>t, <2>1, Zenon
<1>12. At'
  BY <1>2, <1>3, <1>5, <1>6, <1>7, <1>8, <1>9, <1>10, <1>11, Zenon
  DEF Next, ReaderStep, ForwarderStep
<1> QED BY <1>12, Zenon

LEMMA HandoverStep == Types /\ Positions /\ Handover /\ [Next]_vars => Handover'
<1> SUFFICES ASSUME Types, Positions, Handover, [Next]_vars PROVE Handover'
  BY Zenon
<1>t. /\ subs \in Nat /\ pending \in Seq(Line)
      /\ fwdPc \in [Sub -> {"none", "running", "aborting", "lagged", "ended"}]
      /\ got \in [Sub -> Line \cup {None}]
      /\ (subs > 0 => subs \in Sub)
  BY Constants DEF Types, ReaderTypes, ForwarderTypes, Sub
<1>1. CASE UNCHANGED <<readerPc, subs, pending, fwdPc, got>>
  BY <1>1, Zenon DEF Handover
<1>2. ASSUME NEW d \in Stream, Drain(d) PROVE Handover'
  BY <1>1, <1>2, DrainCases, Zenon DEF Reads, Sends, readerVars, fwdVars
<1>3. CASE Broadcast \/ SessionEnds \/ WriterSend \/ WriterEnds \/ ClientCloses \/ UNCHANGED vars
  BY <1>1, <1>3, Zenon
  DEF Broadcast, SessionEnds, WriterSend, WriterEnds, ClientCloses, vars, readerVars, fwdVars
<1>4. CASE ReadRequest \/ ReaderFails \/ Respond \/ ReaderEnds
  BY <1>4, Zenon DEF ReadRequest, ReaderFails, Respond, ReaderEnds, Handover
<1>5. CASE Subscribe
  <2>1. /\ readerPc = "reading" /\ readerPc' = "subscribed" /\ subs' = subs + 1 /\ got' = got
        /\ fwdPc' = [i \in Sub |-> IF fwdPc[i] = "running" THEN "aborting" ELSE fwdPc[i]]
        /\ pending' = pending /\ subs < MaxSubs
    BY <1>5, Zenon DEF Subscribe, AbortForwarders
  <2>2. subs + 1 \in Sub /\ subs + 1 > subs /\ subs + 1 > 0
    BY <2>1, <1>t, Constants DEF Sub
  <2>3. fwdPc[subs + 1] = "none" /\ got[subs + 1] = None
    BY <2>2, Zenon DEF Positions
  <2> QED BY <2>1, <2>2, <2>3, Zenon DEF Handover
<1>6. CASE ReplayLogs \/ ReplaySend \/ ReplayBreaks
  BY <1>6, Zenon DEF ReplayLogs, ReplaySend, ReplayBreaks, fwdVars, Handover
<1>7. CASE SpawnForwarder
  BY <1>7, Zenon DEF SpawnForwarder, Handover
<1>8. ASSUME NEW i \in Sub, ForwarderStep(i) PROVE Handover'
  <2>1. UNCHANGED <<readerPc, subs, pending>> /\ fwdPc[i] # "none"
    BY <1>8, Zenon
    DEF ForwarderStep, ForwarderRecv, ForwarderSend, ForwarderEnds, Active, readerVars
  <2>2. /\ fwdPc' = fwdPc \/ \E x : fwdPc' = [fwdPc EXCEPT ![i] = x]
        /\ got' = got \/ \E x : got' = [got EXCEPT ![i] = x]
    BY <1>8, Zenon DEF ForwarderStep, ForwarderRecv, ForwarderSend, ForwarderEnds
  <2>3. CASE readerPc \in {"subscribed", "replaying"}
    <3>1. subs \in Sub /\ i # subs
      BY <1>t, <2>1, <2>3, Zenon DEF Handover
    <3>2. fwdPc'[subs] = fwdPc[subs] /\ got'[subs] = got[subs]
      BY <1>t, <2>2, <3>1, Zenon
    <3> QED BY <2>1, <2>3, <3>2, Zenon DEF Handover
  <2>4. CASE readerPc \notin {"subscribed", "replaying"}
    BY <2>1, <2>4, Zenon DEF Handover
  <2> QED BY <2>3, <2>4, Zenon
<1> QED
  BY <1>2, <1>3, <1>4, <1>5, <1>6, <1>7, <1>8, Zenon DEF Next, ReaderStep
-----------------------------------------------------------------------------
(* The outgoing queue.                                                        *)

\* What is sent, and by whom.
Sender(e) ==
    \/ e = Response
    \/ ReplaySend /\ e = <<subs, Head(pending)>>
    \/ \E i \in Sub : ForwarderSend(i) /\ e = <<i, got[i]>>

LEMMA WireCases ==
    ASSUME Types, Handover, [Next]_vars
    PROVE  \/ UNCHANGED <<out, delivered>>
           \/ /\ \E e \in Event : out' = Append(out, e) /\ Sender(e)
              /\ UNCHANGED delivered /\ writerPc = "up" /\ writerPc' = "up"
              /\ UNCHANGED <<log, from, subs, read>>
           \/ WriterSend
<1> DEFINE Goal == \/ UNCHANGED <<out, delivered>>
                   \/ /\ \E e \in Event : out' = Append(out, e) /\ Sender(e)
                      /\ UNCHANGED delivered /\ writerPc = "up" /\ writerPc' = "up"
                      /\ UNCHANGED <<log, from, subs, read>>
                   \/ WriterSend
<1>1. ASSUME NEW d \in Stream, Drain(d) PROVE Goal
  BY <1>1, Zenon DEF Drain, wireVars
<1>2. CASE Broadcast \/ SessionEnds \/ ReadRequest \/ Subscribe \/ ReaderEnds \/ ReaderFails
  BY <1>2, Zenon
  DEF Broadcast, SessionEnds, ReadRequest, Subscribe, ReaderEnds, ReaderFails, wireVars
<1>3. CASE ReplayLogs \/ ReplayBreaks \/ SpawnForwarder \/ WriterEnds \/ ClientCloses \/ UNCHANGED vars
  BY <1>3, Zenon
  DEF ReplayLogs, ReplayBreaks, SpawnForwarder, WriterEnds, ClientCloses, vars, wireVars
<1>4. CASE ReplaySend
  <2>1. subs \in Sub /\ Head(pending) \in Line
    BY <1>4, Constants DEF ReplaySend, Handover, Types, ReaderTypes, Sub
  <2>2. <<subs, Head(pending)>> \in Event
    BY <2>1, Zenon DEF Event
  <2> QED BY <1>4, <2>2, Zenon DEF ReplaySend, CanSend, drainVars, Sender
<1>5. CASE Respond
  <2>1. Response \in Event
    BY Zenon DEF Event
  <2> QED BY <1>5, <2>1, Zenon DEF Respond, CanSend, drainVars, Sender
<1>6. ASSUME NEW i \in Sub, ForwarderStep(i) PROVE Goal
  <2>1. CASE ForwarderRecv(i) \/ ForwarderEnds(i)
    BY <2>1, Zenon DEF ForwarderRecv, ForwarderEnds, wireVars
  <2>2. CASE ForwarderSend(i)
    <3>1. got[i] \in Line
      BY <2>2, Zenon DEF ForwarderSend, Types, ForwarderTypes
    <3>2. <<i, got[i]>> \in Event
      BY <3>1, Zenon DEF Event
    <3> QED BY <2>2, <3>2, Zenon DEF ForwarderSend, CanSend, drainVars, readerVars, Sender
  <2> QED BY <1>6, <2>1, <2>2, Zenon DEF ForwarderStep
<1> QED BY <1>1, <1>2, <1>3, <1>4, <1>5, <1>6, Zenon DEF Next, ReaderStep

\* A step either reads a line, or begins a Subscribe or its replay, or leaves what
\* is due alone.
LEMMA DueCases ==
    [Next]_vars => \/ \E d \in Stream : Reads(d)
                   \/ Subscribe \/ ReplayLogs
                   \/ UNCHANGED <<log, from, subs>>
<1> SUFFICES ASSUME [Next]_vars, ~Subscribe, ~ReplayLogs, ~(\E d \in Stream : Reads(d))
             PROVE  UNCHANGED <<log, from, subs>>
  BY Zenon
<1> USE DEF drainVars, readerVars
<1>1. ASSUME NEW d \in Stream, Drain(d) PROVE UNCHANGED <<log, from, subs>>
  BY <1>1, DrainCases, Zenon DEF Sends
<1>2. CASE Broadcast \/ SessionEnds \/ ReadRequest \/ ReaderEnds \/ ReaderFails
  BY <1>2, Zenon DEF Broadcast, SessionEnds, ReadRequest, ReaderEnds, ReaderFails
<1>3. CASE ReaderStep
  BY <1>3, Zenon DEF ReaderStep, ReplaySend, ReplayBreaks, SpawnForwarder, Respond
<1>4. ASSUME NEW i \in Sub, ForwarderStep(i) PROVE UNCHANGED <<log, from, subs>>
  BY <1>4, Zenon DEF ForwarderStep, ForwarderRecv, ForwarderSend, ForwarderEnds
<1>5. CASE WriterSend \/ WriterEnds \/ ClientCloses \/ UNCHANGED vars
  BY <1>5, Zenon DEF WriterSend, WriterEnds, ClientCloses, vars
<1> QED BY <1>1, <1>2, <1>3, <1>4, <1>5, Zenon DEF Next

\* The latest Subscribe that may have sent never becomes an earlier one.
LEMMA TopGrows == Types /\ Handover /\ [Next]_vars => Top \in Nat /\ Top' \in Nat /\ Top <= Top'
<1> SUFFICES ASSUME Types, Handover, [Next]_vars PROVE Top \in Nat /\ Top' \in Nat /\ Top <= Top'
  BY Zenon
<1>t. subs \in Nat /\ (readerPc = "subscribed" => subs > 0)
  BY DEF Types, ReaderTypes, Handover
<1> USE DEF Top
<1>1. ASSUME NEW d \in Stream, Drain(d) PROVE UNCHANGED <<readerPc, subs>>
  BY <1>1, Zenon DEF Drain, readerVars
<1>2. CASE Subscribe
  BY <1>2, <1>t DEF Subscribe
<1>3. CASE ReadRequest \/ ReaderEnds \/ ReaderFails
  BY <1>3, <1>t DEF ReadRequest, ReaderEnds, ReaderFails
<1>4. CASE ReaderStep
  BY <1>4, <1>t DEF ReaderStep, ReplayLogs, ReplaySend, ReplayBreaks, SpawnForwarder, Respond
<1>5. ASSUME NEW i \in Sub, ForwarderStep(i) PROVE UNCHANGED <<readerPc, subs>>
  BY <1>5, Zenon DEF ForwarderStep, ForwarderRecv, ForwarderSend, ForwarderEnds, readerVars
<1>6. CASE Broadcast \/ SessionEnds \/ WriterSend \/ WriterEnds \/ ClientCloses \/ UNCHANGED vars
  BY <1>6, <1>t DEF Broadcast, SessionEnds, WriterSend, WriterEnds, ClientCloses, vars, readerVars
<1> QED BY <1>1, <1>2, <1>3, <1>4, <1>5, <1>6, <1>t DEF Next

LEMMA TaggedStep ==
    ASSUME Types, Positions, Handover, ReplayOrdered, Numbered,
           Tagged(delivered, Top, read), Tagged(out, Top, read), [Next]_vars
    PROVE  Tagged(delivered', Top', read') /\ Tagged(out', Top', read')
<1>t. out \in Seq(Event) /\ delivered \in Seq(Sub \X Line) /\ subs \in Nat
  BY DEF Types, WireTypes, ReaderTypes
<1>n. Top \in Nat /\ Top' \in Nat /\ Top <= Top'
  BY TopGrows, Zenon
<1>k. \A l : Known(l, read) => Known(l, read')
  <2>1. \A l : Known(l, read) => l \in Line
    BY Zenon DEF Known
  <2> QED BY KnownStays, <2>1, Zenon
<1>1. ASSUME NEW s \in Seq(Event), Tagged(s, Top, read) PROVE Tagged(s, Top', read')
  <2> SUFFICES ASSUME NEW q \in 1 .. Len(s), s[q] # Response PROVE s[q][1] <= Top' /\ Known(s[q][2], read')
    BY Zenon DEF Tagged
  <2>1. s[q] \in Sub \X Line
    BY DEF Event
  <2>2. s[q][1] \in Nat
    BY <2>1, Constants DEF Sub
  <2>3. s[q][1] <= Top /\ Known(s[q][2], read)
    BY <1>1, Zenon DEF Tagged
  <2> QED BY <2>2, <2>3, <1>k, <1>n
<1>2. delivered \in Seq(Event)
  BY <1>t DEF Event
<1>3. Tagged(delivered, Top', read') /\ Tagged(out, Top', read')
  BY <1>1, <1>2, <1>t, Zenon
<1>4. ASSUME NEW s \in Seq(Event), NEW e \in Event, Tagged(s, Top', read'),
             e # Response => e[1] <= Top' /\ Known(e[2], read')
      PROVE  Tagged(Append(s, e), Top', read')
  BY <1>4 DEF Tagged
<1>5. ASSUME NEW e \in Event, out' = Append(out, e), Sender(e) PROVE Tagged(out', Top', read')
  <2>1. e # Response => e[1] <= Top /\ Known(e[2], read)
    <3>1. CASE ReplaySend /\ e = <<subs, Head(pending)>>
      <4>1. Top = subs /\ pending # <<>>
        BY <3>1, Zenon DEF ReplaySend, Top
      <4>2. 1 \in 1 .. Len(pending) /\ Head(pending) = pending[1]
        BY <4>1 DEF Types, ReaderTypes
      <4> QED BY <3>1, <4>1, <4>2, <1>t DEF ReplayOrdered
    <3>2. ASSUME NEW i \in Sub, ForwarderSend(i), e = <<i, got[i]>> PROVE e[1] <= Top /\ Known(e[2], read)
      <4>1. got[i] \in Line /\ got[i] # None /\ fwdPc[i] # "none"
        BY <3>2, Zenon DEF ForwarderSend, Active, Types, ForwarderTypes
      <4>2. i \in Nat /\ ~(i > subs)
        BY <4>1 DEF Positions, Sub
      <4>3. readerPc = "subscribed" => i # subs
        BY <4>1, Zenon DEF Handover
      <4>4. got[i] = sent[rx[i] - 1] /\ rx[i] - 1 \in 1 .. Len(sent)
        BY <4>1 DEF Positions, Types, SentTypes
      <4>5. Known(got[i], read)
        BY <4>1, <4>4, Constants, Zenon DEF Numbered
      <4> QED BY <3>2, <4>2, <4>3, <4>5, <1>t DEF Top
    <3> QED BY <1>5, <3>1, <3>2, Zenon DEF Sender
  <2>2. e # Response => e[1] \in Nat
    BY Constants DEF Event, Sub
  <2>3. e # Response => e[1] <= Top' /\ Known(e[2], read')
    BY <2>1, <2>2, <1>k, <1>n
  <2> QED BY <1>3, <1>4, <1>5, <2>3, <1>t, Zenon
<1>6. CASE WriterSend
  <2>1. out # <<>> /\ out' = Tail(out)
        /\ delivered' = IF Head(out) = Response THEN delivered ELSE Append(delivered, Head(out))
    BY <1>6, Zenon DEF WriterSend
  <2>2. Head(out) \in Event /\ Head(out) = out[1] /\ Len(out) \in Nat \ {0} /\ Len(out') = Len(out) - 1
        /\ \A q \in 1 .. Len(out) - 1 : out'[q] = out[q + 1]
    BY <2>1, <1>t
  <2>3. Tagged(out', Top', read')
    BY <1>3, <2>2 DEF Tagged
  <2>4. Head(out) # Response => Head(out)[1] <= Top' /\ Known(Head(out)[2], read')
    BY <1>3, <2>2 DEF Tagged
  <2>5. Tagged(delivered', Top', read')
    BY <1>2, <1>3, <1>4, <2>1, <2>2, <2>4, Zenon
  <2> QED BY <2>3, <2>5, Zenon
<1>7. CASE UNCHANGED <<out, delivered>>
  BY <1>3, <1>7, Zenon
<1> QED BY <1>3, <1>5, <1>6, <1>7, WireCases, Zenon
-----------------------------------------------------------------------------
(* What is due, what is queued and what is still to come.                     *)

\* Reading a line makes it due; no other step of the lines does.
LEMMA DueGrows ==
    ASSUME Types, from \in 1 .. Len(log) + 1, NEW d \in Stream, Reads(d)
    PROVE  /\ Due' = Due \cup {<<d, read[d] + 1>>}
           /\ from' \in 1 .. Len(log') + 1
<1>1. log \in Seq(Line) /\ from' = from /\ log' = Append(log, <<d, read[d] + 1>>)
  BY Zenon DEF Types, DrainTypes, Reads, readerVars
<1>2. PICK n : n = <<d, read[d] + 1>>
  BY Zenon
<1>3. Len(log) \in Nat /\ Len(log') = Len(log) + 1 /\ log'[Len(log) + 1] = n
      /\ \A j \in 1 .. Len(log) : log'[j] = log[j]
  BY <1>1, <1>2
<1>4. ASSUME NEW l, l \in Due' PROVE l \in Due \cup {n}
  <2>1. PICK j \in from .. Len(log) + 1 : l = log'[j]
    BY <1>1, <1>3, <1>4, Zenon DEF Due
  <2>2. CASE j = Len(log) + 1
    BY <1>3, <2>1, <2>2, Zenon
  <2>3. CASE j # Len(log) + 1
    BY <1>3, <2>1, <2>3 DEF Due
  <2> QED BY <2>2, <2>3, Zenon
<1>5. ASSUME NEW l, l \in Due PROVE l \in Due'
  <2>1. PICK j \in from .. Len(log) : l = log[j]
    BY <1>5, Zenon DEF Due
  <2>2. j \in from .. Len(log) + 1 /\ log'[j] = log[j]
    BY <1>3, <2>1
  <2> QED BY <1>1, <1>3, <2>1, <2>2, Zenon DEF Due
<1>6. n \in Due'
  <2>1. Len(log) + 1 \in from .. Len(log) + 1
    BY <1>3
  <2> QED BY <1>1, <1>3, <2>1, Zenon DEF Due
<1>7. Due' = Due \cup {n}
  BY <1>4, <1>5, <1>6, Zenon
<1> QED BY <1>1, <1>2, <1>3, <1>7

LEMMA DueKnown ==
    ASSUME Types, Numbered, from \in 1 .. Len(log) + 1
    PROVE  \A l \in Due : Known(l, read) /\ l \in Line
<1>1. ASSUME NEW l \in Due PROVE Known(l, read)
  <2>1. PICK j \in from .. Len(log) : l = log[j]
    BY Zenon DEF Due
  <2>2. j \in 1 .. Len(log)
    BY <2>1 DEF Types, DrainTypes
  <2> QED BY <2>1, <2>2, Zenon DEF Numbered
<1> QED BY <1>1, Zenon DEF Known

\* A sent event joins the queued lines; the writer only moves them.
LEMMA QueuedStep ==
    ASSUME Types, Handover, [Next]_vars, subs' = subs
    PROVE  /\ Queued(subs) \subseteq Queued(subs)'
           /\ \A e \in Event : out' = Append(out, e) /\ delivered' = delivered =>
                 Queued(subs)' = Queued(subs) \cup LineOf(e, subs)
<1>t. out \in Seq(Event) /\ delivered \in Seq(Event) /\ Len(out) \in Nat /\ Len(delivered) \in Nat
  BY DEF Types, WireTypes, Event
<1>0. /\ Queued(subs) = Lines(delivered, Len(delivered), subs) \cup Lines(out, Len(out), subs)
      /\ Queued(subs)' = Lines(delivered', Len(delivered'), subs) \cup Lines(out', Len(out'), subs)
  BY Zenon DEF Queued, Lines, Of
<1>1. ASSUME NEW e \in Event, out' = Append(out, e), delivered' = delivered
      PROVE  Queued(subs)' = Queued(subs) \cup LineOf(e, subs)
  <2>1. Len(out') = Len(out) + 1
    BY <1>1, <1>t
  <2>2. Lines(out', Len(out'), subs) = Lines(out, Len(out), subs) \cup LineOf(e, subs)
    BY <1>1, <1>t, <2>1, LinesAppend
  <2> QED BY <1>0, <1>1, <2>2, Zenon
<1>2. CASE UNCHANGED <<out, delivered>>
  BY <1>0, <1>2
<1>3. ASSUME WriterSend PROVE Queued(subs) \subseteq Queued(subs)'
  <2>1. out # <<>> /\ out' = Tail(out)
        /\ delivered' = IF Head(out) = Response THEN delivered ELSE Append(delivered, Head(out))
    BY <1>3, Zenon DEF WriterSend
  <2>2. Head(out) \in Event /\ Len(out') = Len(out) - 1 /\ Len(out) - 1 \in 0 .. Len(out) - 1
        /\ (Len(out) - 1) + 1 = Len(out)
    BY <2>1, <1>t
  <2>3. Lines(out, Len(out), subs) = LineOf(Head(out), subs) \cup Lines(out', Len(out'), subs)
    BY <2>1, <2>2, <1>t, LinesTail, ZenonT(30)
  <2>4. CASE Head(out) = Response
    <3>1. LineOf(Head(out), subs) = {}
      BY <2>4, Zenon DEF LineOf, Of
    <3> QED BY <1>0, <2>1, <2>3, <2>4, <3>1, Zenon
  <2>5. CASE Head(out) # Response
    <3>1. delivered' = Append(delivered, Head(out))
      BY <2>1, <2>5, Zenon
    <3>2. Len(delivered') = Len(delivered) + 1
      BY <3>1, <1>t
    <3>3. Lines(delivered', Len(delivered'), subs)
             = Lines(delivered, Len(delivered), subs) \cup LineOf(Head(out), subs)
      BY <3>1, <3>2, <2>2, <1>t, LinesAppend
    <3>4. ASSUME NEW l \in Queued(subs) PROVE l \in Queued(subs)'
      BY <1>0, <2>3, <3>3, Zenon
    <3> QED BY <3>4, Zenon
  <2> QED BY <2>4, <2>5, Zenon
<1>4. Queued(subs) \subseteq Queued(subs)'
  BY <1>1, <1>2, <1>3, WireCases, Zenon
<1> QED BY <1>1, <1>4, Zenon
\* Replay, ring, forwarder and drainers hand a due line on to the next.
LEMMA NothingLostStep ==
    ASSUME Types, Types', Numbered, Positions, Positions', Handover, from \in 1 .. Len(log) + 1,
           NothingLost, [Next]_vars
    PROVE  NothingLost'
<1> SUFFICES ASSUME readerPc' # "subscribed", subs' > 0, writerPc' = "up", NEW l \in Due'
             PROVE  l \in Covered'
  BY Zenon DEF NothingLost
<1>c. Covered = Queued(subs) \cup Elements(pending) \cup Ring \cup {got[subs]} \cup Held
  BY Zenon DEF Covered
<1>c2. Covered' = Queued(subs)' \cup Elements(pending)' \cup Ring' \cup {got'[subs']} \cup Held'
  BY Zenon DEF Covered
<1>t. /\ sent \in Seq(Line \cup {Other}) /\ Len(sent) \in Nat /\ pending \in Seq(Line)
      /\ got \in [Sub -> Line \cup {None}] /\ held \in [Stream -> Line \cup {None}]
      /\ rx \in [Sub -> Nat] /\ subs \in Nat
  BY SMTT(30) DEF Types, SentTypes, ReaderTypes, ForwarderTypes, DrainTypes
<1>s. subs > 0 => subs \in Sub /\ rx[subs] \in 1 .. Len(sent) + 1
  <2>1. subs > 0 => subs \in Sub
    BY <1>t, Constants DEF Sub, Types, ReaderTypes
  <2> QED BY <2>1, Zenon DEF Positions
<1>n. None \notin Line /\ Other \notin Line
  BY Constants, Zenon
<1>1. ASSUME NEW d \in Stream, Reads(d) PROVE l \in Covered'
  <2>1. /\ UNCHANGED <<sent, readerPc, subs, pending, rx, got, out, delivered, writerPc>>
        /\ held[d] = None /\ held' = [held EXCEPT ![d] = <<d, read[d] + 1>>]
    BY <1>1, Zenon DEF Reads, readerVars, fwdVars, wireVars
  <2>2. CASE l = <<d, read[d] + 1>>
    <3>1. held'[d] = l
      BY <1>t, <2>1, <2>2, Zenon
    <3>2. l \in Held'
      BY <3>1, Zenon DEF Held
    <3> QED BY <1>c2, <3>2, Zenon
  <2>3. CASE l \in Due
    <3>1. l \in Covered /\ l # None
      BY <2>1, <2>3, <1>n, DueKnown, Zenon DEF NothingLost
    <3>2. Queued(subs)' = Queued(subs) /\ Elements(pending)' = Elements(pending) /\ Ring' = Ring
          /\ got'[subs'] = got[subs]
      BY <2>1, Zenon DEF Queued, Lines, Of, Elements, Ring
    <3>3. ASSUME NEW c \in Stream, l = held[c] PROVE l = held'[c]
      BY <1>t, <2>1, <3>1, <3>3, Zenon
    <3>4. l \in Held => l \in Held'
      BY <3>3, Zenon DEF Held
    <3> QED BY <1>c, <1>c2, <3>1, <3>2, <3>4, Zenon
  <2> QED BY <1>1, <2>2, <2>3, DueGrows, Zenon
<1>2. CASE ReplayLogs
  <2>1. /\ pending' = IF registered THEN History ELSE <<>>
        /\ from' = IF registered THEN HistoryStart ELSE Len(log) + 1
        /\ log' = log
    BY <1>2, Zenon DEF ReplayLogs, drainVars
  <2>2. log \in Seq(Line) /\ Len(log) \in Nat /\ HistoryStart \in 1 .. Len(log) + 1
    BY Constants DEF Types, DrainTypes, HistoryStart
  <2>3. PICK j \in from' .. Len(log) : l = log[j]
    BY <2>1, Zenon DEF Due
  <2>4. registered /\ from' = HistoryStart
    BY <2>1, <2>2, <2>3
  <2>5. /\ Len(pending') = Len(log) - HistoryStart + 1
        /\ \A k \in 1 .. Len(log) - HistoryStart + 1 : pending'[k] = log[HistoryStart + k - 1]
    BY <2>1, <2>2, <2>4 DEF History
  <2>6. j - HistoryStart + 1 \in 1 .. Len(pending') /\ HistoryStart + (j - HistoryStart + 1) - 1 = j
    BY <2>2, <2>3, <2>4, <2>5
  <2>7. pending'[j - HistoryStart + 1] = l
    BY <2>3, <2>5, <2>6, Zenon
  <2>8. l \in Elements(pending')
    BY <2>6, <2>7, Zenon DEF Elements
  <2>9. l \in Elements(pending)'
    BY <2>8, Zenon DEF Elements
  <2> QED BY <1>c2, <2>9, Zenon
<1>3. ASSUME UNCHANGED <<log, from, subs>>, ~ReplayLogs PROVE l \in Covered'
  <2>1. readerPc # "subscribed" /\ writerPc = "up"
    <3>1. ASSUME NEW d \in Stream, Drain(d) PROVE UNCHANGED <<readerPc, writerPc>>
      BY <3>1, Zenon DEF Drain, readerVars, wireVars
    <3>2. CASE ReadRequest \/ Subscribe \/ ReaderEnds \/ ReaderFails
      BY <1>3, <1>t, <3>2, Zenon DEF ReadRequest, Subscribe, ReaderEnds, ReaderFails, wireVars
    <3>3. CASE ReaderStep
      BY <1>3, <3>3, Zenon
      DEF ReaderStep, ReplaySend, ReplayBreaks, SpawnForwarder, Respond, wireVars
    <3>4. ASSUME NEW i \in Sub, ForwarderStep(i) PROVE UNCHANGED <<readerPc, writerPc>>
      BY <3>4, Zenon
      DEF ForwarderStep, ForwarderRecv, ForwarderSend, ForwarderEnds, readerVars, wireVars
    <3>5. CASE Broadcast \/ SessionEnds \/ WriterSend \/ WriterEnds \/ ClientCloses \/ UNCHANGED vars
      BY <3>5, Zenon
      DEF Broadcast, SessionEnds, WriterSend, WriterEnds, ClientCloses, vars, readerVars, wireVars
    <3> QED BY <3>1, <3>2, <3>3, <3>4, <3>5, Zenon DEF Next
  <2>2. l \in Due /\ subs > 0
    BY <1>3, Zenon DEF Due
  <2>3. l \in Covered /\ l \in Line
    BY <2>1, <2>2, DueKnown, Zenon DEF NothingLost
  <2>4. subs \in Sub /\ rx[subs] \in 1 .. Len(sent) + 1
    BY <1>s, <2>2, Zenon
  <2>5. Queued(subs) \subseteq Queued(subs)'
    BY <1>3, QueuedStep, Zenon
  <2>6. l \in Elements(pending) => l \in Covered'
    <3>1. CASE pending' = pending
      <4>1. Elements(pending)' = Elements(pending)
        BY <3>1, Zenon DEF Elements
      <4> QED BY <1>c2, <4>1, Zenon
    <3>2. CASE ReplaySend
      <4> SUFFICES ASSUME l \in Elements(pending) PROVE l \in Covered'
        BY Zenon
      <4>1. pending # <<>> /\ pending' = Tail(pending) /\ out' = Append(out, <<subs, Head(pending)>>)
            /\ delivered' = delivered
        BY <3>2, Zenon DEF ReplaySend
      <4>2. PICK j \in 1 .. Len(pending) : l = pending[j]
        BY Zenon DEF Elements
      <4>3. CASE j = 1
        <5>1. Head(pending) = l
          BY <1>t, <4>1, <4>2, <4>3
        <5>2. <<subs, l>> \in Event /\ LineOf(<<subs, l>>, subs) = {l}
          BY <2>3, <2>4, Constants DEF Event, LineOf, Of
        <5>3. l \in Queued(subs)'
          BY <1>3, <4>1, <5>1, <5>2, QueuedStep, Zenon
        <5> QED BY <1>c2, <5>3, Zenon
      <4>4. CASE j # 1
        <5>1. j - 1 \in 1 .. Len(pending') /\ pending'[j - 1] = l
          BY <1>t, <4>1, <4>2, <4>4
        <5>2. l \in Elements(pending)'
          BY <5>1, Zenon DEF Elements
        <5> QED BY <1>c2, <5>2, Zenon
      <4> QED BY <4>3, <4>4, Zenon
    <3>3. pending' = pending \/ ReplaySend
      <4>1. ASSUME NEW d \in Stream, Drain(d) PROVE pending' = pending
        BY <4>1, Zenon DEF Drain, readerVars
      <4>2. CASE ReadRequest \/ Subscribe \/ ReaderEnds \/ ReaderFails
        BY <4>2, Zenon DEF ReadRequest, Subscribe, ReaderEnds, ReaderFails
      <4>3. CASE ReaderStep
        BY <1>3, <2>1, <4>3, Zenon DEF ReaderStep, ReplayBreaks, SpawnForwarder, Respond
      <4>4. ASSUME NEW i \in Sub, ForwarderStep(i) PROVE pending' = pending
        BY <4>4, Zenon DEF ForwarderStep, ForwarderRecv, ForwarderSend, ForwarderEnds, readerVars
      <4>5. CASE Broadcast \/ SessionEnds \/ WriterSend \/ WriterEnds \/ ClientCloses \/ UNCHANGED vars
        BY <4>5, Zenon
        DEF Broadcast, SessionEnds, WriterSend, WriterEnds, ClientCloses, vars, readerVars
      <4> QED BY <4>1, <4>2, <4>3, <4>4, <4>5, Zenon DEF Next
    <3> QED BY <3>1, <3>2, <3>3, Zenon
  <2>7. l \in Ring \/ l = got[subs] \/ l \in Held => l \in Covered'
    <3> SUFFICES ASSUME l \in Ring \/ l = got[subs] \/ l \in Held PROVE l \in Covered'
      BY Zenon
    <3>1. ASSUME UNCHANGED <<sent, rx, got, held>> PROVE l \in Covered'
      <4>1. Ring' = Ring /\ got'[subs'] = got[subs] /\ Held' = Held
        BY <1>3, <3>1, Zenon DEF Ring, Held
      <4> QED BY <1>c2, <4>1, Zenon
    <3>2. ASSUME NEW e, sent' = Append(sent, e), UNCHANGED <<rx, got>>, \A c \in Stream : held'[c] = held[c] \/ held[c] = e
          PROVE  l \in Covered'
      <4>1. Len(sent') = Len(sent) + 1 /\ sent'[Len(sent) + 1] = e
            /\ \A j \in 1 .. Len(sent) : sent'[j] = sent[j]
        BY <3>2, <1>t
      <4>2. ASSUME NEW j \in rx[subs] .. Len(sent), l = sent[j] PROVE l \in Ring'
        <5>1. j \in rx'[subs'] .. Len(sent') /\ l = sent'[j]
          BY <1>3, <1>t, <2>4, <3>2, <4>1, <4>2
        <5> QED BY <5>1, Zenon DEF Ring
      <4>3. l = e => l \in Ring'
        <5>1. Len(sent) + 1 \in rx'[subs'] .. Len(sent')
          BY <1>3, <1>t, <2>4, <3>2, <4>1
        <5> QED BY <4>1, <5>1, Zenon DEF Ring
      <4>4. ASSUME NEW c \in Stream, l = held[c], l # e PROVE l \in Held'
        BY <3>2, <4>4, Zenon DEF Held
      <4>5. got'[subs'] = got[subs]
        BY <1>3, <3>2, Zenon
      <4>6. l \in Ring => l \in Ring'
        BY <4>2, Zenon DEF Ring
      <4>7. l \in Held => l \in Ring' \/ l \in Held'
        BY <4>3, <4>4, Zenon DEF Held
      <4> QED BY <1>c2, <4>5, <4>6, <4>7, Zenon
    <3>3. ASSUME NEW d \in Stream, Drain(d) PROVE l \in Covered'
      <4>1. CASE Reads(d)
        <5>1. log' # log
          BY <4>1 DEF Reads, Types, DrainTypes
        <5> QED BY <1>3, <5>1, Zenon
      <4>2. CASE Sends(d)
        <5>1. sent' = Append(sent, held[d]) /\ UNCHANGED <<rx, got>>
          BY <4>2, Zenon DEF Sends, fwdVars
        <5>2. \A c \in Stream : held'[c] = held[c] \/ held[c] = held[d]
          BY <4>2, <1>t, Zenon DEF Sends
        <5> QED BY <3>2, <5>1, <5>2, Zenon
      <4> QED BY <3>3, <4>1, <4>2, DrainCases, Zenon
    <3>4. CASE Broadcast
      BY <3>2, <3>4, Zenon DEF Broadcast, fwdVars, drainVars
    <3>5. CASE ReadRequest \/ Subscribe \/ ReaderEnds \/ ReaderFails \/ SessionEnds
      BY <1>3, <1>t, <3>1, <3>5, Zenon
         DEF ReadRequest, Subscribe, ReaderEnds, ReaderFails, SessionEnds, fwdVars, drainVars
    <3>6. CASE ReaderStep
      <4>1. UNCHANGED <<sent, rx, got, held>>
        BY <1>3, <3>6, Zenon
           DEF ReaderStep, ReplaySend, ReplayBreaks, SpawnForwarder, Respond, fwdVars, drainVars
      <4> QED BY <3>1, <4>1, Zenon
    <3>7. CASE WriterSend \/ WriterEnds \/ ClientCloses \/ UNCHANGED vars
      <4>1. UNCHANGED <<sent, rx, got, held>>
        BY <3>7, Zenon DEF WriterSend, WriterEnds, ClientCloses, vars, fwdVars, drainVars
      <4> QED BY <3>1, <4>1, Zenon
    <3>8. ASSUME NEW i \in Sub, ForwarderRecv(i) PROVE l \in Covered'
      <4>1. sent' = sent /\ held' = held /\ got[i] = None
        BY <3>8, Zenon DEF ForwarderRecv, drainVars
      <4>2. CASE Lapped(i)
        BY <3>1, <3>8, <4>1, <4>2, Zenon DEF ForwarderRecv
      <4>3. CASE ~Lapped(i)
        <5>1. /\ rx' = [rx EXCEPT ![i] = rx[i] + 1]
              /\ got' = [got EXCEPT ![i] = IF TopicMatches(sent[rx[i]]) THEN sent[rx[i]] ELSE None]
          BY <3>8, <4>3, Zenon DEF ForwarderRecv
        <5>2. CASE i # subs
          <6>1. rx'[subs'] = rx[subs] /\ got'[subs'] = got[subs]
            BY <1>3, <1>t, <2>4, <5>1, <5>2, Zenon
          <6>2. Ring' = Ring /\ Held' = Held
            BY <1>3, <4>1, <6>1, Zenon DEF Ring, Held
          <6> QED BY <1>c2, <6>1, <6>2, Zenon
        <5>3. CASE i = subs
          <6>1. rx'[subs'] = rx[subs] + 1 /\ l # got[subs] /\ Held' = Held
            BY <1>3, <1>t, <1>n, <2>3, <4>1, <5>1, <5>3, Zenon DEF Held
          <6>2. CASE l = sent[rx[subs]]
            <7>1. got'[subs'] = l
              BY <1>3, <1>t, <1>n, <2>3, <2>4, <5>1, <5>3, <6>2, Zenon DEF TopicMatches
            <7> QED BY <1>c2, <7>1, Zenon
          <6>3. ASSUME NEW j \in rx[subs] .. Len(sent), l = sent[j], j # rx[subs] PROVE l \in Ring'
            <7>1. j \in rx'[subs'] .. Len(sent') /\ l = sent'[j]
              BY <1>t, <2>4, <4>1, <6>1, <6>3
            <7> QED BY <7>1, Zenon DEF Ring
          <6>4. l \in Ring => l = sent[rx[subs]] \/ l \in Ring'
            BY <6>3, Zenon DEF Ring
          <6> QED BY <1>c2, <6>1, <6>2, <6>4, Zenon
        <5> QED BY <5>2, <5>3, Zenon
      <4> QED BY <4>2, <4>3, Zenon
    <3>9. ASSUME NEW i \in Sub, ForwarderSend(i) PROVE l \in Covered'
      <4>1. sent' = sent /\ held' = held /\ rx' = rx /\ got' = [got EXCEPT ![i] = None]
            /\ out' = Append(out, <<i, got[i]>>) /\ delivered' = delivered
        BY <3>9, Zenon DEF ForwarderSend, drainVars
      <4>2. Ring' = Ring /\ Held' = Held
        BY <1>3, <4>1, Zenon DEF Ring, Held
      <4>3. CASE l = got[subs] /\ i = subs
        <5>1. <<subs, l>> \in Event /\ LineOf(<<subs, l>>, subs) = {l}
          BY <2>3, <2>4, Constants DEF Event, LineOf, Of
        <5>2. l \in Queued(subs)'
          BY <1>3, <4>1, <4>3, <5>1, QueuedStep, Zenon
        <5> QED BY <1>c2, <5>2, Zenon
      <4>4. CASE l = got[subs] /\ i # subs
        <5>1. got'[subs'] = l
          BY <1>3, <1>t, <2>4, <4>1, <4>4, Zenon
        <5> QED BY <1>c2, <5>1, Zenon
      <4> QED BY <1>c2, <4>2, <4>3, <4>4, Zenon
    <3>10. ASSUME NEW i \in Sub, ForwarderEnds(i) PROVE l \in Covered'
      BY <3>1, <3>10, Zenon DEF ForwarderEnds, drainVars
    <3> QED
      BY <3>3, <3>4, <3>5, <3>6, <3>7, <3>8, <3>9, <3>10, Zenon DEF Next, ForwarderStep
  <2> QED BY <1>c, <1>c2, <2>3, <2>5, <2>6, <2>7, Zenon
<1>4. CASE Subscribe
  BY <1>4, Zenon DEF Subscribe
<1>5. CASE \E d \in Stream : Reads(d)
  BY <1>1, <1>5, Zenon
<1> QED BY <1>2, <1>3, <1>4, <1>5, DueCases, Zenon
\* The next line of a replay has all the earlier ones before it.
LEMMA ReplayOrderedStep ==
    ASSUME Types, Types', Numbered, Handover, from \in 1 .. Len(log) + 1,
           ReplayOrdered, [Next]_vars
    PROVE  ReplayOrdered'
<1>t. pending \in Seq(Line) /\ Len(pending) \in Nat /\ log \in Seq(Line) /\ Len(log) \in Nat
  BY DEF Types, ReaderTypes, DrainTypes
<1> SUFFICES ASSUME NEW i \in 1 .. Len(pending')
             PROVE  /\ Known(pending'[i], read')
                    /\ writerPc' = "up" => Earlier(pending'[i], Due')
                          \subseteq Queued(subs)' \cup {pending'[h] : h \in 1 .. i - 1}
  BY Zenon DEF ReplayOrdered, Earlier
<1>k. \A l : Known(l, read) => Known(l, read')
  <2>1. \A l : Known(l, read) => l \in Line
    BY Zenon DEF Known
  <2> QED BY KnownStays, <2>1, Zenon
<1>1. CASE ReplayLogs
  <2>1. /\ pending' = IF registered THEN History ELSE <<>>
        /\ from' = IF registered THEN HistoryStart ELSE Len(log) + 1
        /\ log' = log /\ read' = read
    BY <1>1, Zenon DEF ReplayLogs, drainVars
  <2>2. HistoryStart \in 1 .. Len(log) + 1
    BY <1>t, Constants DEF HistoryStart
  <2>3. registered /\ from' = HistoryStart
    BY <2>1
  <2>4. /\ Len(pending') = Len(log) - HistoryStart + 1
        /\ \A k \in 1 .. Len(log) - HistoryStart + 1 : pending'[k] = log[HistoryStart + k - 1]
    BY <1>t, <2>1, <2>2, <2>3 DEF History
  <2>5. HistoryStart + i - 1 \in 1 .. Len(log) /\ pending'[i] = log[HistoryStart + i - 1]
    BY <1>t, <2>2, <2>4
  <2>6. Known(pending'[i], read)
    BY <2>5, Zenon DEF Numbered
  <2>7. ASSUME NEW m \in Earlier(pending'[i], Due') PROVE m \in {pending'[h] : h \in 1 .. i - 1}
    <3>1. m \in Due' /\ m[1] = pending'[i][1] /\ m[2] < pending'[i][2]
      BY Zenon DEF Earlier
    <3>2. PICK j \in HistoryStart .. Len(log) : m = log[j]
      BY <2>1, <2>3, <3>1, Zenon DEF Due
    <3>3. j \in 1 .. Len(log)
      BY <2>2, <3>2
    <3>4. j < HistoryStart + i - 1
      BY <2>5, <3>1, <3>2, <3>3, Zenon DEF Numbered
    <3>5. j - HistoryStart + 1 \in 1 .. i - 1 /\ HistoryStart + (j - HistoryStart + 1) - 1 = j
          /\ j - HistoryStart + 1 \in 1 .. Len(log) - HistoryStart + 1
      BY <1>t, <2>2, <3>2, <3>4
    <3>6. pending'[j - HistoryStart + 1] = m
      BY <2>4, <3>2, <3>5, Zenon
    <3> QED BY <3>5, <3>6, Zenon
  <2> QED BY <2>1, <2>6, <2>7, Zenon
<1>2. CASE ReplaySend
  <2>1. /\ pending # <<>> /\ pending' = Tail(pending) /\ out' = Append(out, <<subs, Head(pending)>>)
        /\ delivered' = delivered /\ writerPc = "up"
        /\ UNCHANGED <<log, from, subs, read>>
    BY <1>2, Zenon DEF ReplaySend, CanSend, drainVars
  <2>2. /\ Head(pending) = pending[1] /\ Len(pending') = Len(pending) - 1 /\ i + 1 \in 1 .. Len(pending)
        /\ \A h \in 1 .. Len(pending) - 1 : pending'[h] = pending[h + 1]
        /\ pending[1] \in Line /\ (i + 1) - 1 = i
    BY <1>t, <2>1
  <2>3. Known(pending'[i], read') /\ pending'[i] = pending[i + 1]
    BY <1>t, <2>1, <2>2, Zenon DEF ReplayOrdered
  <2>4. pending[1] \in Queued(subs)' /\ Queued(subs) \subseteq Queued(subs)'
    <3>1. subs \in Sub
      BY <1>2, Constants DEF ReplaySend, Handover, Types, ReaderTypes, Sub
    <3>2. <<subs, pending[1]>> \in Event /\ LineOf(<<subs, pending[1]>>, subs) = {pending[1]}
      BY <2>2, <3>1, Constants DEF Event, LineOf, Of
    <3> QED BY <2>1, <2>2, <3>2, QueuedStep, Zenon
  <2>5. Due' = Due
    BY <2>1, Zenon DEF Due
  <2>6. Earlier(pending[i + 1], Due) \subseteq Queued(subs) \cup {pending[h] : h \in 1 .. i}
    BY <2>1, <2>2, Zenon DEF ReplayOrdered
  <2>7. ASSUME NEW h \in 1 .. i
        PROVE  pending[h] \in Queued(subs)' \cup {pending'[g] : g \in 1 .. i - 1}
    <3>1. CASE h = 1
      BY <2>4, <3>1, Zenon
    <3>2. CASE h # 1
      <4>1. h - 1 \in 1 .. i - 1 /\ h - 1 \in 1 .. Len(pending) - 1 /\ (h - 1) + 1 = h
        BY <1>t, <2>2, <3>2, SMTT(30)
      <4>2. pending'[h - 1] = pending[h]
        BY <2>2, <4>1, Zenon
      <4> QED BY <4>1, <4>2, Zenon
    <3> QED BY <3>1, <3>2, Zenon
  <2> QED BY <2>3, <2>4, <2>5, <2>6, <2>7
<1>3. ASSUME ~ReplayLogs, ~ReplaySend PROVE pending' = pending /\ (writerPc' = "up" => writerPc = "up")
  <2>1. ASSUME NEW d \in Stream, Drain(d) PROVE UNCHANGED <<pending, writerPc>>
    BY <2>1, Zenon DEF Drain, readerVars, wireVars
  <2>2. CASE ReadRequest \/ Subscribe \/ ReaderEnds \/ ReaderFails
    BY <2>2, Zenon DEF ReadRequest, Subscribe, ReaderEnds, ReaderFails, wireVars
  <2>3. CASE ReaderStep
    BY <1>3, <2>3 DEF ReaderStep, ReplayBreaks, SpawnForwarder, Respond, wireVars
  <2>4. ASSUME NEW j \in Sub, ForwarderStep(j) PROVE UNCHANGED <<pending, writerPc>>
    BY <2>4, Zenon
    DEF ForwarderStep, ForwarderRecv, ForwarderSend, ForwarderEnds, readerVars, wireVars
  <2>5. CASE Broadcast \/ SessionEnds \/ WriterSend \/ WriterEnds \/ ClientCloses \/ UNCHANGED vars
    BY <2>5, Zenon
    DEF Broadcast, SessionEnds, WriterSend, WriterEnds, ClientCloses, vars, readerVars, wireVars
  <2> QED BY <2>1, <2>2, <2>3, <2>4, <2>5, Zenon DEF Next
<1>4. ASSUME ~ReplayLogs, ~ReplaySend
      PROVE  /\ Known(pending'[i], read')
             /\ writerPc' = "up" => Earlier(pending'[i], Due')
                   \subseteq Queued(subs)' \cup {pending'[h] : h \in 1 .. i - 1}
  <2>1. pending' = pending /\ i \in 1 .. Len(pending) /\ pending # <<>>
    BY <1>3, <1>4, <1>t
  <2>2. Known(pending[i], read)
    BY <2>1, Zenon DEF ReplayOrdered
  <2>3. ~Subscribe
    BY <2>1, Zenon DEF Subscribe, Handover
  <2>4. Earlier(pending[i], Due') = Earlier(pending[i], Due) /\ subs' = subs
    <3>1. ASSUME NEW d \in Stream, Reads(d) PROVE Earlier(pending[i], Due') = Earlier(pending[i], Due)
      <4>1. Due' = Due \cup {<<d, read[d] + 1>>}
        BY <3>1, DueGrows, Zenon
      <4>2. ~(pending[i][1] = d /\ read[d] + 1 < pending[i][2])
        <5>1. pending[i][1] = d => pending[i][2] < read[d] + 1
          BY <2>2, <3>1, NewLine, Zenon
        <5>2. pending[i] \in Line /\ read[d] \in Nat
          BY <2>2, Constants DEF Known, Types, DrainTypes
        <5>3. pending[i][2] \in Nat
          BY <5>2, Constants DEF Line
        <5> QED BY <5>1, <5>2, <5>3
      <4> QED BY <4>1, <4>2 DEF Earlier
    <3>2. ASSUME UNCHANGED <<log, from>> PROVE Due' = Due
      BY <3>2, Zenon DEF Due
    <3>3. ASSUME NEW d \in Stream, Reads(d) PROVE subs' = subs
      BY <3>3, Zenon DEF Reads, readerVars
    <3> QED BY <1>4, <2>3, <3>1, <3>2, <3>3, DueCases, Zenon
  <2>5. Queued(subs) \subseteq Queued(subs)'
    BY <2>4, QueuedStep, Zenon
  <2>6. writerPc' = "up" => Earlier(pending[i], Due) \subseteq Queued(subs) \cup {pending[h] : h \in 1 .. i - 1}
    BY <1>3, <1>4, <2>1, Zenon DEF ReplayOrdered
  <2> QED BY <2>1, <2>2, <2>4, <2>5, <2>6, <1>k, Zenon
<1> QED BY <1>1, <1>2, <1>4, Zenon
\* The event a forwarder has in hand comes after the earlier due lines: they are
\* neither in the ring behind it nor in the hands of a drainer.
LEMMA GotOrdered ==
    ASSUME Types, Numbered, Positions, Handover, NothingLost, from \in 1 .. Len(log) + 1,
           subs \in Sub, Active(subs), got[subs] # None, writerPc = "up"
    PROVE  Earlier(got[subs], Due) \subseteq Queued(subs)
<1>t. /\ sent \in Seq(Line \cup {Other}) /\ Len(sent) \in Nat /\ rx[subs] \in Nat /\ subs \in Nat \ {0}
      /\ got[subs] \in Line /\ read \in [Stream -> Nat]
  BY Constants DEF Types, SentTypes, ForwarderTypes, DrainTypes, Sub
<1>1. pending = <<>> /\ readerPc # "subscribed"
  BY Zenon DEF Handover, Active
<1>2. got[subs] = sent[rx[subs] - 1] /\ rx[subs] - 1 \in 1 .. Len(sent)
  BY <1>t DEF Positions
<1>3. Known(got[subs], read)
  BY <1>2, <1>t, Constants, Zenon DEF Numbered
<1>4. ASSUME NEW m \in Earlier(got[subs], Due) PROVE m \in Queued(subs)
  <2>1. m \in Due /\ m[1] = got[subs][1] /\ m[2] < got[subs][2]
    BY Zenon DEF Earlier
  <2>2. m \in Line /\ m[2] \in Nat /\ got[subs][2] \in Nat /\ got[subs][1] \in Stream
    BY <2>1, <1>t, DueKnown, Constants, SMTT(30) DEF Line
  <2>3. m \in Covered
    BY <1>1, <1>t, <2>1 DEF NothingLost
  <2>4. m \notin Elements(pending)
    BY <1>1 DEF Elements
  <2>5. ASSUME NEW j \in rx[subs] .. Len(sent), m = sent[j] PROVE FALSE
    <3>1. j \in 1 .. Len(sent)
      BY <1>t, <1>2
    <3>2. j < rx[subs] - 1
      BY <1>2, <1>t, <2>1, <2>2, <2>5, <3>1, Constants, ZenonT(30) DEF Numbered
    <3> QED BY <1>t, <3>2
  <2>6. ASSUME NEW c \in Stream, m = held[c] PROVE FALSE
    <3>1. m = <<c, read[c]>>
      BY <2>2, <2>6, Constants, Zenon DEF Numbered
    <3> QED BY <1>3, <1>t, <2>1, <2>2, <3>1 DEF Known
  <2>7. m # got[subs]
    BY <2>1, <2>2
  <2> QED BY <2>3, <2>4, <2>5, <2>6, <2>7, Zenon DEF Covered, Ring, Held
<1> QED BY <1>4, Zenon

\* Sending, writing and reading keep what the client reads in order.
LEMMA OrderStep ==
    ASSUME StreamInv, [Next]_vars
    PROVE  StreamsStayInOrder' /\ QueueOrdered'
<1>i. /\ Types /\ Numbered /\ Positions /\ Handover /\ from \in 1 .. Len(log) + 1 /\ NothingLost
      /\ ReplayOrdered /\ Tagged(delivered, Top, read) /\ Tagged(out, Top, read)
  BY TypesByTask, Zenon DEF StreamInv
<1>t. out \in Seq(Event) /\ delivered \in Seq(Event) /\ subs \in Nat
  BY <1>i DEF Types, WireTypes, ReaderTypes, Event
<1>o. /\ InOrder(delivered, subs, Due, {})
      /\ InOrder(out, subs, Due, Lines(delivered, Len(delivered), subs))
  BY Zenon DEF StreamInv, StreamsStayInOrder, QueueOrdered
<1>g. SUFFICES /\ InOrder(delivered', subs', Due', {})
               /\ InOrder(out', subs', Due', Lines(delivered', Len(delivered'), subs'))
  BY Zenon DEF StreamsStayInOrder, QueueOrdered, InOrder, Lines, Of, Earlier
<1>1. ASSUME NEW d \in Stream, Reads(d)
      PROVE  /\ InOrder(delivered', subs', Due', {})
             /\ InOrder(out', subs', Due', Lines(delivered', Len(delivered'), subs'))
  <2>1. UNCHANGED <<subs, out, delivered>>
    BY <1>1, Zenon DEF Reads, readerVars, wireVars
  <2>2. PICK n : n = <<d, read[d] + 1>>
    BY Zenon
  <2>3. Due' = Due \cup {n}
    BY <1>1, <1>i, <2>2, DueGrows, Zenon
  <2>4. ASSUME NEW s \in Seq(Event), Tagged(s, Top, read), NEW q \in 1 .. Len(s), Of(s[q], subs)
        PROVE  s[q][2] # n /\ ~(n[1] = s[q][2][1] /\ n[2] < s[q][2][2])
    <3>1. Known(s[q][2], read)
      BY <2>4, Zenon DEF Tagged, Of
    <3>2. s[q][2] # n /\ (s[q][2][1] = d => s[q][2][2] < read[d] + 1)
      BY <1>1, <1>i, <2>2, <3>1, NewLine, Zenon
    <3>3. s[q][2][2] \in Nat /\ read[d] \in Nat
      BY <1>i, <3>1, Constants DEF Known, Line, Types, DrainTypes
    <3> QED BY <2>2, <3>2, <3>3, SMTT(30)
  <2>5. InOrder(delivered, subs, Due \cup {n}, {})
    BY <1>i, <1>o, <1>t, <2>4, OrderGrows, Zenon
  <2>6. InOrder(out, subs, Due \cup {n}, Lines(delivered, Len(delivered), subs))
    BY <1>i, <1>o, <1>t, <2>4, OrderGrows, Zenon
  <2> QED BY <2>1, <2>3, <2>5, <2>6, Zenon
<1>2. CASE Subscribe \/ ReplayLogs
  <2>1. UNCHANGED <<out, delivered>> /\ subs' \in Nat /\ subs' > Top /\ Top \in Nat
    <3>1. CASE Subscribe
      BY <1>t, <3>1 DEF Subscribe, wireVars, Top
    <3>2. CASE ReplayLogs
      <4>1. UNCHANGED <<out, delivered>> /\ subs' = subs /\ readerPc = "subscribed"
        BY <3>2, Zenon DEF ReplayLogs, wireVars
      <4> QED BY <1>i, <1>t, <4>1 DEF Top, Handover
    <3> QED BY <1>2, <3>1, <3>2, Zenon
  <2>2. ASSUME NEW s \in Seq(Event), Tagged(s, Top, read), NEW q \in 1 .. Len(s) PROVE ~Of(s[q], subs')
    <3>1. s[q] # Response => s[q][1] <= Top /\ s[q] \in Sub \X Line
      BY <2>2 DEF Tagged, Event
    <3>2. s[q] # Response => s[q][1] \in Nat
      BY <3>1, Constants DEF Sub
    <3> QED BY <2>1, <3>1, <3>2 DEF Of
  <2>3. (\A q \in 1 .. Len(delivered) : ~Of(delivered[q], subs')) /\ (\A q \in 1 .. Len(out) : ~Of(out[q], subs'))
    BY <1>i, <1>t, <2>2, Zenon
  <2> QED BY <2>1, <2>3, OrderNone, Zenon
<1>3. ASSUME UNCHANGED <<log, from, subs>>
      PROVE  /\ InOrder(delivered', subs', Due', {})
             /\ InOrder(out', subs', Due', Lines(delivered', Len(delivered'), subs'))
  <2>1. Due' = Due /\ subs' = subs
    BY <1>3, Zenon DEF Due
  <2>2. PICK P : P = Lines(delivered, Len(delivered), subs)
    BY Zenon
  <2>q. Queued(subs) = P \cup Lines(out, Len(out), subs)
    BY <2>2, Zenon DEF Queued
  <2>3. CASE UNCHANGED <<out, delivered>>
    BY <1>o, <2>1, <2>3, Zenon
  <2>4. ASSUME NEW e \in Event, out' = Append(out, e), Sender(e), delivered' = delivered, writerPc = "up"
        PROVE  /\ InOrder(delivered', subs', Due', {})
               /\ InOrder(out', subs', Due', Lines(delivered', Len(delivered'), subs'))
    <3>1. Of(e, subs) => Earlier(e[2], Due) \subseteq Queued(subs)
      <4>1. CASE e = Response
        BY <4>1, Zenon DEF Of
      <4>2. CASE ReplaySend /\ e = <<subs, Head(pending)>>
        <5>1. pending # <<>> /\ pending \in Seq(Line)
          BY <1>i, <4>2, Zenon DEF ReplaySend, Types, ReaderTypes
        <5>2. 1 \in 1 .. Len(pending) /\ Head(pending) = pending[1] /\ {pending[h] : h \in 1 .. 1 - 1} = {}
          BY <5>1
        <5>3. Earlier(pending[1], Due) \subseteq Queued(subs) \cup {pending[h] : h \in 1 .. 1 - 1}
          BY <1>i, <2>4, <5>2, Zenon DEF ReplayOrdered
        <5> QED BY <4>2, <5>2, <5>3, Zenon
      <4>3. ASSUME NEW i \in Sub, ForwarderSend(i), e = <<i, got[i]>>, Of(e, subs)
            PROVE  Earlier(e[2], Due) \subseteq Queued(subs)
        <5>1. i = subs
          BY <4>3, Zenon DEF Of
        <5>2. Active(subs) /\ got[subs] # None /\ subs \in Sub
          BY <4>3, <5>1, Zenon DEF ForwarderSend
        <5>3. Earlier(got[subs], Due) \subseteq Queued(subs)
          BY <1>i, <2>4, <5>2, GotOrdered, Zenon
        <5> QED BY <4>3, <5>1, <5>3, Zenon
      <4> QED BY <2>4, <4>1, <4>2, <4>3, Zenon DEF Sender
    <3>2. InOrder(out, subs, Due, P)
      BY <1>o, <2>2, Zenon
    <3>3. InOrder(Append(out, e), subs, Due, P)
      BY <1>t, <2>q, <3>1, <3>2, OrderAppend, Zenon
    <3> QED BY <1>o, <2>1, <2>2, <2>4, <3>3, Zenon
  <2>5. CASE WriterSend
    <3>1. out # <<>> /\ out' = Tail(out)
          /\ delivered' = IF Head(out) = Response THEN delivered ELSE Append(delivered, Head(out))
      BY <2>5, Zenon DEF WriterSend
    <3>2. Head(out) \in Event
      BY <1>t, <3>1
    <3>3. /\ InOrder(Tail(out), subs, Due, P \cup LineOf(Head(out), subs))
          /\ (Of(Head(out), subs) /\ Head(out)[2] \in Due \ P) => Earlier(Head(out)[2], Due) \subseteq P
      BY <1>o, <1>t, <2>2, <3>1, OrderTail, Zenon
    <3>4. CASE Head(out) = Response
      <4>1. P \cup LineOf(Head(out), subs) = P
        BY <3>4, Zenon DEF LineOf, Of
      <4> QED BY <1>o, <2>1, <2>2, <3>1, <3>3, <3>4, <4>1, Zenon
    <3>5. CASE Head(out) # Response
      <4>1. delivered' = Append(delivered, Head(out))
        BY <3>1, <3>5, Zenon
      <4>2. Len(delivered') = Len(delivered) + 1 /\ Len(delivered) \in Nat
        BY <1>t, <4>1
      <4>3. Lines(delivered', Len(delivered'), subs) = P \cup LineOf(Head(out), subs)
        BY <1>t, <2>2, <3>2, <4>1, <4>2, LinesAppend
      <4>4. {} \cup Lines(delivered, Len(delivered), subs) = P
        BY <2>2, Zenon
      <4>5. InOrder(Append(delivered, Head(out)), subs, Due, {})
        BY <1>o, <1>t, <3>2, <3>3, <4>4, OrderAppend, Zenon
      <4> QED BY <2>1, <3>1, <3>3, <4>1, <4>3, <4>5, Zenon
    <3> QED BY <3>4, <3>5, Zenon
  <2> QED BY <1>i, <2>3, <2>4, <2>5, WireCases, Zenon
<1>4. (\E d \in Stream : Reads(d)) \/ Subscribe \/ ReplayLogs \/ UNCHANGED <<log, from, subs>>
  BY DueCases, Zenon
<1> QED BY <1>1, <1>2, <1>3, <1>4, Zenon

-----------------------------------------------------------------------------
LEMMA StreamStep == StreamInv /\ [Next]_vars => StreamInv'
<1> SUFFICES ASSUME StreamInv, [Next]_vars PROVE StreamInv'
  BY Zenon
<1>1. /\ Types /\ Numbered /\ Positions /\ Handover /\ from \in 1 .. Len(log) + 1 /\ NothingLost
      /\ ReplayOrdered /\ Tagged(delivered, Top, read) /\ Tagged(out, Top, read)
  BY TypesByTask, Zenon DEF StreamInv
<1>2. Types' /\ TypeOK'
  <2>1. Types'
    BY <1>1, TypeStep, Zenon
  <2>2. TypeOK'
    BY <2>1, Zenon
    DEF TypeOK, Types, DrainTypes, SentTypes, ReaderTypes, ForwarderTypes, WireTypes, Event
  <2> QED BY <2>1, <2>2, Zenon
<1>3. Numbered' /\ Positions' /\ Handover'
  BY <1>1, <1>2, NumberedStep, PositionsStep, HandoverStep, Zenon
<1>4. Tagged(delivered, Top, read)' /\ Tagged(out, Top, read)'
  <2>1. Tagged(delivered', Top', read') /\ Tagged(out', Top', read')
    BY <1>1, TaggedStep, Zenon
  <2> QED BY <2>1, Zenon DEF Tagged, Known, Top
<1>5. NothingLost' /\ ReplayOrdered'
  BY <1>1, <1>2, <1>3, NothingLostStep, ReplayOrderedStep, Zenon
<1>6. StreamsStayInOrder' /\ QueueOrdered'
  BY OrderStep, Zenon
<1>7. (from \in 1 .. Len(log) + 1)'
  <2>1. CASE \E d \in Stream : Reads(d)
    BY <1>1, <2>1, DueGrows, Zenon
  <2>2. CASE ReplayLogs
    <3>1. log \in Seq(Line) /\ log' = log /\ from' = IF registered THEN HistoryStart ELSE Len(log) + 1
      BY <1>1, <2>2, Zenon DEF ReplayLogs, drainVars, Types, DrainTypes
    <3> QED BY <3>1, Constants DEF HistoryStart
  <2>3. CASE Subscribe
    BY <1>1, <2>3, Zenon DEF Subscribe, drainVars
  <2>4. CASE UNCHANGED <<log, from, subs>>
    BY <1>1, <2>4, Zenon
  <2> QED BY <2>1, <2>2, <2>3, <2>4, DueCases, Zenon
<1> QED BY <1>2, <1>3, <1>4, <1>5, <1>6, <1>7, Zenon DEF StreamInv

LEMMA StreamInitially == Init => StreamInv
<1> SUFFICES ASSUME Init PROVE StreamInv
  BY Zenon
<1>1. TypeOK
  BY Constants DEF Init, TypeOK
<1>2. log = <<>> /\ sent = <<>> /\ pending = <<>> /\ out = <<>> /\ delivered = <<>> /\ subs = 0
      /\ from = 1 /\ readerPc = "reading" /\ Len(<<>>) = 0
  BY Zenon DEF Init
<1>3. Numbered
  BY <1>2 DEF Init, Numbered
<1>4. Positions /\ Handover
  <2>1. Handover
    BY <1>2, Zenon DEF Handover
  <2>2. \A i \in Sub : rx[i] = 1 /\ got[i] = None /\ fwdPc[i] = "none"
    BY Zenon DEF Init
  <2> QED BY <1>2, <2>1, <2>2 DEF Positions
<1>5. Tagged(delivered, Top, read) /\ Tagged(out, Top, read) /\ NothingLost /\ ReplayOrdered
  <2>1. Len(delivered) = 0 /\ Len(out) = 0 /\ Len(pending) = 0 /\ ~(subs > 0) /\ 1 .. 0 = {}
    BY <1>2
  <2>2. Tagged(delivered, Top, read) /\ Tagged(out, Top, read)
    BY <2>1, Zenon DEF Tagged
  <2>3. NothingLost
    BY <2>1, Zenon DEF NothingLost
  <2>4. ReplayOrdered
    BY <2>1, Zenon DEF ReplayOrdered
  <2> QED BY <2>2, <2>3, <2>4, Zenon
<1>6. QueueOrdered /\ StreamsStayInOrder
  BY <1>2 DEF QueueOrdered, StreamsStayInOrder, InOrder
<1>7. from \in 1 .. Len(log) + 1
  BY <1>2
<1> QED BY <1>1, <1>3, <1>4, <1>5, <1>6, <1>7, Zenon DEF StreamInv

\* The receiver is taken before the history is copied, and the history gets a line
\* before the ring: a line due to the latest Subscribe is always somewhere between
\* its drainer and the client.
THEOREM NoneLost == Spec => []NoLineIsLost
<1>1. StreamInv => NoLineIsLost
  BY Zenon DEF StreamInv, NothingLost, NoLineIsLost, Covered, Ring, Held
<1> QED BY <1>1, StreamInitially, StreamStep, PTL DEF Spec

\* Replay first, forwarder after it, both through one queue: what the client reads
\* of a stream for the first time comes in order and without holes.
THEOREM InOrderAlways == Spec => []StreamsStayInOrder
<1>1. StreamInv => StreamsStayInOrder
  BY Zenon DEF StreamInv
<1> QED BY <1>1, StreamInitially, StreamStep, PTL DEF Spec
=============================================================================

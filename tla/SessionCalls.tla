----------------------------- MODULE SessionCalls -----------------------------
(***************************************************************************)
(* The daemon's calls into a session process: Registry::session_control()  *)
(* with its one cached connection per map entry, the methods built on it   *)
(* (list_windows, resize, wait_for_idle, screenshot, inject_*, tag_window) *)
(* and the session's control server.  One session NAME is used again and   *)
(* again; its instances are the numbers 1, 2, ...  The map, the control    *)
(* socket and the tags are addressed by name, the cached connection        *)
(* belongs to the entry.                                                   *)
(*                                                                         *)
(* The registry's own steps are the ones SessionRegistry has in detail,    *)
(* here only as far as a call can see them.                                *)
(***************************************************************************)
EXTENDS Naturals, Sequences

CONSTANTS
    Call,        \* the calls made, numbered
    MaxInstance, \* bound: how often the name is created
    MaxPolls     \* bound: the polls of wait_for_idle before its deadline

ASSUME CallsAssumption == Call \subseteq Nat \ {0} /\ MaxInstance \in Nat \ {0} /\ MaxPolls \in Nat

Instance == 1 .. MaxInstance

VARIABLES
    call,        \* each call: what it is and where it is
    conn,        \* SessionEntry.control_conn of each instance, with its lock
    instance,    \* the instance registered under the name, or 0
    life,        \* each instance's process and supervisor
    bound,       \* the instance whose process bound control.sock, or 0
    size,        \* the output size each process has, as the call that set it
    meta,        \* the size in the registered entry
    tagged,      \* the instance whose window was tagged, or 0
    applied      \* (history) how often each process executed each call

rpcVars == <<call, conn, applied, size>>
nameVars == <<instance, life, bound, meta, tagged>>

Kind == {"inject", "screenshot", "resize", "idle", "tag"}

NoCall == [kind |-> "inject", pc |-> "idle", of |-> 0, polls |-> 0, reply |-> 0, from |-> 0]

\* No stream, nobody holds the lock.
NoConn == [to |-> 0, open |-> FALSE, requests |-> <<>>, serving |-> 0, replies |-> <<>>, holder |-> 0]

CallsInit ==
    /\ call = [c \in Call |-> NoCall]
    /\ conn = [i \in Instance |-> NoConn]
    /\ instance = 0
    /\ life = [i \in Instance |-> "none"]
    /\ bound = 0
    /\ size = [i \in Instance |-> 0]
    /\ meta = 0
    /\ tagged = 0
    /\ applied = [c \in Call |-> [i \in Instance |-> 0]]

-----------------------------------------------------------------------------
(* session_control()                                                        *)

At(c, pc) == call[c].pc = pc
GoesTo(c, pc) == call' = [call EXCEPT ![c].pc = pc]

\* The call has returned: what it was is forgotten.
Returns(c, pc) ==
    /\ call' = [call EXCEPT ![c] = [NoCall EXCEPT !.pc = pc]]
    /\ applied' = [applied EXCEPT ![c] = [i \in Instance |-> 0]]

Slot(c) == conn[call[c].of]
SlotBecomes(c, slot) == conn' = [conn EXCEPT ![call[c].of] = slot]

\* The guard goes out of scope with the call.
Unlocked(slot) == [slot EXCEPT !.holder = 0]

\* `*guard = None`.
Cleared(slot) == [NoConn EXCEPT !.holder = slot.holder]

\* A request arrives.  Its path and its connection come from one look at the map.
Lookup(c) ==
    /\ At(c, "idle") /\ \A d \in Call : d < c => ~At(d, "idle")
    /\ \E k \in Kind :
          IF instance = 0 THEN Returns(c, "failed")
          ELSE /\ call' = [call EXCEPT ![c] = [NoCall EXCEPT !.kind = k, !.of = instance, !.pc = "lock"]]
               /\ UNCHANGED applied
    /\ UNCHANGED <<conn, size, nameVars>>

\* (mistake) The calls to one session are not serialised.
LockNothing(c) == TRUE

\* All RPCs to a session are serialised on the connection's mutex.
LockFree(c) == Slot(c).holder = 0

\* rpc(): write_all.  On a stream the peer has closed nothing is sent.
Written(slot, c) == IF slot.open THEN [slot EXCEPT !.requests = Append(@, c)] ELSE slot

\* The lock is taken; the cached stream, if there is one, is tried first.
Lock(c) ==
    /\ At(c, "lock") /\ LockFree(c)
    /\ LET slot == [Slot(c) EXCEPT !.holder = c]
       IN  IF slot.to # 0
           THEN SlotBecomes(c, Written(slot, c)) /\ GoesTo(c, "reuse")
           ELSE SlotBecomes(c, slot) /\ GoesTo(c, "connect")
    /\ UNCHANGED <<applied, size, nameVars>>

\* rpc(): read_exact of the next response.  Nothing compares its id.
Read(c) ==
    /\ call[c].pc \in {"reuse", "fresh"} /\ Slot(c).replies # <<>>
    /\ SlotBecomes(c, Unlocked([Slot(c) EXCEPT !.replies = Tail(@)]))
    /\ call' = [call EXCEPT ![c].pc = "replied", ![c].reply = Head(Slot(c).replies),
                            ![c].from = IF call[c].kind = "tag" THEN Slot(c).to ELSE 0]
    /\ UNCHANGED <<applied, size, nameVars>>

\* The write or the read fails: the peer has closed the stream.
Broken(c) == ~Slot(c).open /\ Slot(c).replies = <<>>

\* On the cached stream the slot is cleared and the call goes on to connect.
ReuseFails(c) ==
    /\ At(c, "reuse") /\ Broken(c)
    /\ SlotBecomes(c, Cleared(Slot(c)))
    /\ GoesTo(c, "connect")
    /\ UNCHANGED <<applied, size, nameVars>>

\* UnixStream::connect by PATH reaches the process that bound it last; the
\* request is written again.
Connect(c) ==
    /\ At(c, "connect") /\ bound # 0 /\ life[bound] = "up"
    /\ SlotBecomes(c, Written([Cleared(Slot(c)) EXCEPT !.to = bound, !.open = TRUE], c))
    /\ GoesTo(c, "fresh")
    /\ UNCHANGED <<applied, size, nameVars>>

\* (mistake) A connection that cannot be made is waited for.
ConnectWaits(c) == FALSE /\ At(c, "connect") /\ UNCHANGED <<rpcVars, nameVars>>

\* Refused, no such file, or 2 s passed.
ConnectFails(c) ==
    /\ At(c, "connect")
    /\ SlotBecomes(c, Unlocked(Slot(c)))
    /\ Returns(c, "failed")
    /\ UNCHANGED <<size, nameVars>>

\* On the fresh stream the slot is cleared and the error returned.
FreshFails(c) ==
    /\ At(c, "fresh") /\ Broken(c)
    /\ SlotBecomes(c, Unlocked(Cleared(Slot(c))))
    /\ Returns(c, "failed")
    /\ UNCHANGED <<size, nameVars>>

-----------------------------------------------------------------------------
(* What the methods do with the response                                    *)

Replied(c, kind) == At(c, "replied") /\ call[c].kind = kind

\* inject_*, record_*, viewer_*: the response is the result.
InjectReturns(c) ==
    /\ Replied(c, "inject") /\ Returns(c, "done")
    /\ UNCHANGED <<conn, size, nameVars>>

ScreenshotReturns(c) ==
    /\ Replied(c, "screenshot") /\ Returns(c, "done")
    /\ UNCHANGED <<conn, size, nameVars>>

\* resize: the entry now registered under the name takes the size.
ResizeReturns(c) ==
    /\ Replied(c, "resize") /\ Returns(c, "done")
    /\ meta' = IF instance = 0 THEN meta ELSE c
    /\ UNCHANGED <<conn, size, instance, life, bound, tagged>>

\* wait_for_idle: quiet or out of time, or another Info after 10 ms.
IdleReturns(c) ==
    /\ Replied(c, "idle")
    /\ \/ Returns(c, "done")
       \/ instance = 0 /\ Returns(c, "failed")
       \/ /\ instance # 0 /\ call[c].polls < MaxPolls
          /\ call' = [call EXCEPT ![c] = [NoCall EXCEPT !.kind = "idle", !.of = instance, !.pc = "lock",
                                                        !.polls = call[c].polls + 1]]
          /\ applied' = [applied EXCEPT ![c] = [i \in Instance |-> 0]]
    /\ UNCHANGED <<conn, size, nameVars>>

\* tag_window: list_windows says whether the window exists; then the tags are
\* stored under the name.
TagReturns(c) ==
    /\ Replied(c, "tag") /\ Returns(c, "done")
    /\ tagged' \in {tagged, call[c].from}
    /\ UNCHANGED <<conn, size, instance, life, bound, meta>>

CallStep(c) ==
    \/ Lock(c) \/ Read(c) \/ ReuseFails(c) \/ Connect(c) \/ ConnectFails(c) \/ FreshFails(c)
    \/ InjectReturns(c) \/ ScreenshotReturns(c) \/ ResizeReturns(c) \/ IdleReturns(c) \/ TagReturns(c)

-----------------------------------------------------------------------------
(* The session's control server                                             *)

\* handle(): one frame is read and dispatched.
Dispatch(i) ==
    LET slot == conn[i]
        c == Head(slot.requests)
    IN  /\ slot.open /\ slot.requests # <<>> /\ slot.serving = 0
        /\ conn' = [conn EXCEPT ![i].requests = Tail(@), ![i].serving = c]
        /\ applied' = [applied EXCEPT ![c][slot.to] = @ + 1]
        /\ size' = IF call[c].kind = "resize" THEN [size EXCEPT ![slot.to] = c] ELSE size
        /\ UNCHANGED <<call, nameVars>>

\* (mistake) A method that has no result is not answered: the handler returns.
RespondOnlyResults(i) ==
    /\ conn[i].open /\ conn[i].serving # 0
    /\ conn' = [conn EXCEPT ![i].serving = 0,
                            ![i].open = call[conn[i].serving].kind # "inject",
                            ![i].replies = IF call[conn[i].serving].kind = "inject"
                                           THEN @ ELSE Append(@, conn[i].serving)]
    /\ UNCHANGED <<call, applied, size, nameVars>>

\* handle(): the response is encoded and written.  A screenshot that does not
\* fit a frame fails to encode, and the handler closes the stream.
Respond(i) ==
    LET c == conn[i].serving
    IN  /\ conn[i].open /\ c # 0
        /\ \/ conn' = [conn EXCEPT ![i].serving = 0, ![i].replies = Append(@, c)]
           \/ /\ call[c].kind = "screenshot"
              /\ conn' = [conn EXCEPT ![i].serving = 0, ![i].open = FALSE]
        /\ UNCHANGED <<call, applied, size, nameVars>>

-----------------------------------------------------------------------------
(* The registry                                                             *)

\* create(): a process under the name, its sockets bound, the entry inserted.
Create(i) ==
    /\ instance = 0 /\ life[i] = "none" /\ \A j \in 1 .. i - 1 : life[j] # "none"
    /\ instance' = i /\ bound' = i /\ meta' = 0
    /\ life' = [life EXCEPT ![i] = "up"]
    /\ UNCHANGED <<rpcVars, tagged>>

\* destroy(): the entry, then its tags; the supervisor is told to kill.
Destroy(i) ==
    /\ instance = i
    /\ instance' = 0 /\ tagged' = 0
    /\ UNCHANGED <<rpcVars, life, bound, meta>>

\* The process ends, by itself or killed: its streams break.
InstanceDies(i) ==
    /\ life[i] = "up"
    /\ life' = [life EXCEPT ![i] = "dead"]
    /\ conn' = [j \in Instance |-> IF conn[j].to = i
                                   THEN [conn[j] EXCEPT !.open = FALSE, !.requests = <<>>, !.serving = 0]
                                   ELSE conn[j]]
    /\ size' = [size EXCEPT ![i] = 0]
    /\ UNCHANGED <<call, applied, instance, bound, meta, tagged>>

\* The supervisor removes whatever the name has.
SupervisorRemoves(i) ==
    /\ life[i] = "dead"
    /\ life' = [life EXCEPT ![i] = "removed"]
    /\ instance' = 0
    /\ UNCHANGED <<rpcVars, bound, meta, tagged>>

\* ... then the tags and the socket files, again by name.
SupervisorCleans(i) ==
    /\ life[i] = "removed"
    /\ life' = [life EXCEPT ![i] = "gone"]
    /\ tagged' = 0 /\ bound' = 0
    /\ UNCHANGED <<rpcVars, instance, meta>>

InstanceStep(i) ==
    \/ Dispatch(i) \/ Respond(i)
    \/ SupervisorRemoves(i) \/ SupervisorCleans(i)

CallsNext ==
    \/ \E c \in Call : Lookup(c) \/ CallStep(c)
    \/ \E i \in Instance : InstanceStep(i) \/ Create(i) \/ Destroy(i) \/ InstanceDies(i)

\* The runtimes of both processes poll what can proceed; nobody has to make a
\* call, to create or destroy a session, and no process has to die.
CallsFairness ==
    /\ \A c \in Call : WF_<<rpcVars, nameVars>>(CallStep(c))
    /\ \A i \in Instance : WF_<<rpcVars, nameVars>>(InstanceStep(i))

CallsSpec == CallsInit /\ [][CallsNext]_<<rpcVars, nameVars>> /\ CallsFairness

-----------------------------------------------------------------------------
(* Properties                                                               *)

\* session_control() sends a request again after an error on the cached
\* connection.  No process executes an injected input, or any other call whose
\* response fits a frame, twice: within one process the connection is only lost
\* before the request was read.
ExecutedOnce ==
    \A c \in Call : call[c].kind \in {"inject", "resize", "tag"} =>
        \A i \in Instance : applied[c][i] <= 1

\* Every response is taken for the answer to the request just written, since
\* all requests have id 1 and nobody compares it: what a caller gets is the
\* response to its own request.
ReplyIsOwn == \A c \in Call : At(c, "replied") => call[c].reply = c

\* "a transient blip must not wedge the session forever": every call returns,
\* whether the process answers, dies in the middle or is replaced by another.
CallReturns == \A c \in Call : []<>(call[c].pc \in {"idle", "done", "failed"})

\* What is not true: that the entry's copy of the size is the size of the
\* process once no resize is under way.
MetaIsSize ==
    instance # 0 /\ life[instance] = "up" /\ (\A c \in Call : call[c].pc \in {"idle", "done", "failed"})
        => meta = size[instance]

\* What is not true: that no tags are left of a session that is gone.
TagsAreForgotten == tagged # 0 => life[tagged] # "gone"
=============================================================================

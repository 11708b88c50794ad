---------------------------- MODULE DaemonShutdown ----------------------------
(***************************************************************************)
(* The daemon's end: main() leaves its accept loop on SIGTERM or SIGINT,   *)
(* Registry::shutdown_all() destroys the sessions it finds in the map and  *)
(* waits for their supervisors, and the runtime is dropped with whatever   *)
(* tasks are left.  The connection tasks keep running meanwhile, so the    *)
(* create() and destroy() calls of SessionRegistry go on underneath, and   *)
(* with them the task per session that forwards its events.                *)
(***************************************************************************)
EXTENDS SessionRegistry

VARIABLES
    downPc,      \* where main() is
    names,       \* the names shutdown_all() still has to destroy
    destroying,  \* the instance its current destroy() removed
    handles,     \* the supervisor handles it took, as their instances
    known,       \* (history) the instances inserted before the signal
    forward      \* accept_and_forward_events of each instance

shutVars == <<downPc, names, destroying, handles, known>>
allVars == <<vars, shutVars, forward>>

ShutInit ==
    /\ Init
    /\ downPc = "serving"
    /\ names = {}
    /\ destroying = None
    /\ handles = {}
    /\ known = {}
    /\ forward = [s \in Sid |-> "none"]

\* select!: a signal arrives.  shutdown_all() lists the registered names
\* under the lock and releases it.
Signal ==
    /\ downPc = "serving"
    /\ downPc' = "destroying"
    /\ names' = {n \in Name : sessions[n] # None}
    /\ known' = {s \in Sid : Inserted(s)}
    /\ UNCHANGED <<vars, destroying, handles, forward>>

\* The previous destroy(&name).await has returned.
DestroyReturned == destroying # None => destroyPc[destroying] = "done"

\* destroy(&name).await for the next name; NotFound is ignored.
ShutdownDestroy(n) ==
    /\ downPc = "destroying" /\ n \in names /\ DestroyReturned
    /\ names' = names \ {n}
    /\ destroying' = sessions[n]
    /\ IF sessions[n] = None THEN UNCHANGED vars ELSE DestroyRemove(n)
    /\ UNCHANGED <<downPc, handles, known, forward>>

\* mem::take of the handles; create() pushes a supervisor's handle before it
\* releases the map lock of the insertion.
TakeHandles ==
    /\ downPc = "destroying" /\ names = {} /\ DestroyReturned
    /\ downPc' = "waiting"
    /\ handles' = {s \in Sid : Inserted(s)}
    /\ UNCHANGED <<vars, names, destroying, known, forward>>

\* (mistake) The supervisors are not waited for.
AwaitedNobody == downPc = "waiting"

\* (mistake) The handles are awaited without a deadline.
AwaitedForEver == downPc = "waiting" /\ \A s \in handles : supPc[s] = "done"

\* The instance lives on and nobody is going to kill it.
LeftAlone(s) == supPc[s] = "watch" /\ Registered(s) /\ proc[s] # "dead"

\* The handles are awaited up to a common deadline of 8 s.  A supervisor whose
\* session is being destroyed, or whose process is dead, ends within it (5 s
\* for SIGTERM, 2 s for SIGKILL); any other is what the deadline is for.
Awaited ==
    /\ downPc = "waiting"
    /\ \A s \in handles : supPc[s] = "done" \/ LeftAlone(s)

\* (mistake) Only the supervisors' children are killed with their tasks.
DroppedWithSupervisor(s) == supPc[s] \in {"watch", "term"}

\* kill_on_drop(true): the Child is owned by create() and then by the
\* supervisor.
DroppedWithTask(s) == createPc[s] \in {"waiting", "ready"} \/ supPc[s] \in {"watch", "term"}

\* main() returns: the runtime drops every task and with them their children.
Exit ==
    /\ Awaited
    /\ downPc' = "exited"
    /\ proc' = [s \in Sid |-> IF proc[s] \in {"starting", "running"} /\ DroppedWithTask(s)
                              THEN "dead" ELSE proc[s]]
    /\ forward' = [s \in Sid |-> IF forward[s] = "none" THEN "none" ELSE "ended"]
    /\ UNCHANGED <<sessions, killTx, tmpfs, createPc, signalled, destroyPc, supPc,
                   taken, stops, dir, names, destroying, handles, known>>

\* create() hands the events listener to a task just before its second look at
\* the map.
Forwarded ==
    forward' = [s \in Sid |-> IF createPc[s] = "ready" /\ createPc'[s] \in {"inserted", "failed"}
                              THEN "reading" ELSE forward[s]]

\* accept_and_forward_events: the connection ends with the process.  The task
\* returns if the NAME is no longer registered; otherwise it accepts again, and
\* nobody is left to connect.
ForwarderEof(s) ==
    /\ downPc # "exited"
    /\ forward[s] = "reading" /\ proc[s] = "dead"
    /\ forward' = [forward EXCEPT ![s] = IF sessions[NameOf[s]] = None THEN "ended" ELSE "accepting"]
    /\ UNCHANGED <<vars, shutVars>>

\* Nothing of the daemon runs after main().
Serving(Step) == downPc # "exited" /\ Step /\ Forwarded /\ UNCHANGED shutVars

ShutNext ==
    \/ Serving(Next)
    \/ \E s \in Sid : ForwarderEof(s)
    \/ Signal
    \/ \E n \in Name : ShutdownDestroy(n)
    \/ TakeHandles
    \/ Exit

ShutFairness ==
    /\ \A s \in Sid : /\ WF_allVars(Serving(CreateStep(s)))
                       /\ WF_allVars(Serving(DestroyStep(s)))
                       /\ WF_allVars(Serving(SupStep(s)))
                       /\ WF_allVars(ForwarderEof(s))
    /\ WF_allVars((\E n \in Name : ShutdownDestroy(n)) \/ TakeHandles \/ Exit)

ShutSpec == ShutInit /\ [][ShutNext]_allVars /\ ShutFairness

\* The daemon, serving a client that waits for the end of one session before it
\* asks for the next of that name.
PatientNext == ShutNext /\ Patiently

PatientSpec == ShutInit /\ [][PatientNext]_allVars /\ ShutFairness

-----------------------------------------------------------------------------
(* Properties                                                               *)

\* registry.rs:667: shutdown_all() waits "for supervisors to finish their
\* teardown (SIGTERM grace, child cleanup, JSONL session_stop emit) before
\* returning": when the daemon has exited, every session that was inserted
\* before the signal has its session_stop, also the one whose process died by
\* itself a moment earlier and whose supervisor had already removed the entry.
\* (A client's destroy() caught between the removal and its session_stop is the
\* one exception: nothing waits for it.)
KnownAreStopped ==
    downPc = "exited" => \A s \in known : stops[s] = 1 \/ OwedByDestroy(s)

\* kill_on_drop on the session process: no waymux-session outlives the daemon,
\* not even that of a create() that was in flight when the runtime was dropped.
NoneOutlivesDaemon == downPc = "exited" => \A s \in Sid : proc[s] \in {"none", "dead"}

\* A signal ends the daemon, whatever the sessions do, and also when a create()
\* in flight inserts a session behind shutdown_all()'s back.
ShutdownEnds == downPc = "destroying" ~> downPc = "exited"

\* The inductive strengthening: what shutdown_all() found in the map stays on
\* its list until it is destroyed, nothing known is registered again, and a
\* supervisor that owes a known instance its session_stop is one of the handles.
ShutInv ==
    /\ IInv
    /\ downPc \in {"serving", "destroying", "waiting", "exited"}
    /\ known \subseteq Sid
    /\ \A s \in known : Inserted(s)
    /\ downPc = "serving" => known = {}
    /\ downPc = "destroying" => \A s \in known : Registered(s) => NameOf[s] \in names
    /\ downPc = "waiting" => \A s \in known :
            ~Registered(s) /\ \A r \in Sid : OwedBy(r, s) => r \in handles
    /\ KnownAreStopped
    /\ NoneOutlivesDaemon

\* What is not true: a session inserted behind shutdown_all()'s back gets its
\* session_start and never a session_stop.
AllAreStopped == downPc = "exited" => \A s \in Sid : Inserted(s) => stops[s] = 1

\* registry.rs:468: "If the session never connects or connects then dies, the
\* task naturally exits".
ForwarderEnds == \A s \in Sid : forward[s] = "reading" /\ proc[s] = "dead" ~> forward[s] = "ended"
=============================================================================

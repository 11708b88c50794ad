------------------------------ MODULE SpawnChild ------------------------------
(***************************************************************************)
(* Processes spawned into a session (registry.rs: spawn_child, its wait    *)
(* task, the child half of destroy()) and the session's cgroup leaf        *)
(* (cgroup.rs).  One session name is modelled with successive instances    *)
(* (Gen) of the entry under it: spawn_child looks the name up, spawns      *)
(* without the lock and looks the name up again to record the pid, and     *)
(* the leaf is a directory addressed by name.                              *)
(***************************************************************************)
EXTENDS Naturals, FiniteSets

CONSTANTS
    Gen,          \* successive sessions of the name
    Kid,          \* spawn_child calls, and the processes they spawn
    Compositor,   \* the calls with compositor = true
    MaxTries,     \* rmdir attempts of destroy()'s cleanup task (10)
    None

ASSUME ConstantsAssumption ==
    /\ Compositor \subseteq Kid
    /\ MaxTries \in Nat \ {0}
    /\ None \notin Gen \cup Kid
    /\ \A S \in SUBSET (Gen \cup Kid) : None # S
    /\ Gen \cap Kid = {}

VARIABLES
    entry,          \* the session registered under the name
    genPc,          \* how far each session has come
    childPids,      \* SessionEntry.child_pids
    compositorPid,  \* SessionEntry.compositor_pid
    spawnPc,        \* where each spawn_child call is
    foundIn,        \* the session spawn_child found at its first look
    waitPc,         \* the call's wait task
    wasCompositor,  \* what the wait task learnt when it pruned the pid
    alive,          \* live processes: sessions and children
    doomed,         \* processes sent SIGKILL that have not died yet
    signalled,      \* children sent SIGTERM by destroy()
    leaf,           \* the cgroup's pids, or None when there is no directory
    reapPc,         \* the destroy() call and its cleanup task
    tries,          \* its rmdir attempts
    reported        \* the ChildExited and SessionCrashed events sent

vars == <<entry, genPc, childPids, compositorPid, spawnPc, foundIn, waitPc,
          wasCompositor, alive, doomed, signalled, leaf, reapPc, tries, reported>>

entryVars == <<entry, genPc, childPids, compositorPid>>
callVars == <<spawnPc, foundIn, waitPc, wasCompositor, reported>>
procVars == <<alive, doomed, signalled>>
reapVars == <<reapPc, tries>>

Proc == Gen \cup Kid

\* Every variable has its type; a process sent SIGKILL by cgroup.kill or by a
\* lost create() is still alive until it dies.
TypeOK ==
    /\ entry \in Gen \cup {None}
    /\ genPc \in [Gen -> {"new", "leaf", "joined", "live", "destroyed", "gone"}]
    /\ childPids \in [Gen -> SUBSET Kid]
    /\ compositorPid \in [Gen -> Kid \cup {None}]
    /\ spawnPc \in [Kid -> {"idle", "looked", "spawned", "recorded", "lost", "failed"}]
    /\ foundIn \in [Kid -> Gen \cup {None}]
    /\ waitPc \in [Kid -> {"none", "waiting", "pruned", "done"}]
    /\ wasCompositor \in [Kid -> BOOLEAN]
    /\ alive \subseteq Proc
    /\ doomed \subseteq alive
    /\ signalled \subseteq Kid
    /\ leaf = None \/ leaf \subseteq Proc
    /\ reapPc \in [Gen -> {"none", "removed", "kill", "retry", "done", "left"}]
    /\ tries \in [Gen -> 0 .. MaxTries]
    /\ reported \subseteq (Kid \X {"exited", "crashed"})

Init ==
    /\ entry = None
    /\ genPc = [g \in Gen |-> "new"]
    /\ childPids = [g \in Gen |-> {}]
    /\ compositorPid = [g \in Gen |-> None]
    /\ spawnPc = [k \in Kid |-> "idle"]
    /\ foundIn = [k \in Kid |-> None]
    /\ waitPc = [k \in Kid |-> "none"]
    /\ wasCompositor = [k \in Kid |-> FALSE]
    /\ alive = {} /\ doomed = {} /\ signalled = {}
    /\ leaf = None
    /\ reapPc = [g \in Gen |-> "none"]
    /\ tries = [g \in Gen |-> 0]
    /\ reported = {}

-----------------------------------------------------------------------------
(* SessionCgroup: every operation goes by the path of the leaf.             *)

TryCreateEmpty(l) == IF l = None THEN {} ELSE l

\* Writing to cgroup.procs of a missing leaf fails and is only logged.
AddPid(l, p) == IF l = None THEN None ELSE l \cup {p}

\* rmdir: TRUE when the leaf is gone, FALSE (EBUSY) while it has processes.
TryRemove(l) == l = None \/ l = {}

-----------------------------------------------------------------------------
(* create(), from the ready handshake on, for a session with a cap.         *)

LeafMkdir(g) ==
    /\ genPc[g] = "new"
    /\ genPc' = [genPc EXCEPT ![g] = "leaf"]
    /\ alive' = alive \cup {g}
    /\ leaf' = TryCreateEmpty(leaf)
    /\ UNCHANGED <<entry, childPids, compositorPid, callVars, doomed, signalled, reapVars>>

LeafJoin(g) ==
    /\ genPc[g] = "leaf"
    /\ genPc' = [genPc EXCEPT ![g] = "joined"]
    /\ leaf' = IF g \in alive THEN AddPid(leaf, g) ELSE leaf
    /\ UNCHANGED <<entry, childPids, compositorPid, callVars, procVars, reapVars>>

\* Insertion under the map lock; the call that finds an entry kills its process.
Register(g) ==
    /\ genPc[g] = "joined"
    /\ IF entry = None
       THEN /\ entry' = g
            /\ genPc' = [genPc EXCEPT ![g] = "live"]
            /\ UNCHANGED doomed
       ELSE /\ genPc' = [genPc EXCEPT ![g] = "gone"]
            /\ doomed' = doomed \cup ({g} \cap alive)
            /\ UNCHANGED entry
    /\ UNCHANGED <<childPids, compositorPid, callVars, alive, signalled, leaf, reapVars>>

-----------------------------------------------------------------------------
(* spawn_child()                                                            *)

\* The first look at the map: SessionNotFound, or the runtime directory to use.
SpawnLookup(k) ==
    /\ spawnPc[k] = "idle"
    /\ spawnPc' = [spawnPc EXCEPT ![k] = IF entry = None THEN "failed" ELSE "looked"]
    /\ foundIn' = [foundIn EXCEPT ![k] = entry]
    /\ UNCHANGED <<entryVars, waitPc, wasCompositor, reported, procVars, leaf, reapVars>>

\* cmd.spawn(), without the map lock.
SpawnExec(k) ==
    /\ spawnPc[k] = "looked"
    /\ \/ /\ spawnPc' = [spawnPc EXCEPT ![k] = "spawned"]
          /\ alive' = alive \cup {k}
       \/ /\ spawnPc' = [spawnPc EXCEPT ![k] = "failed"]
          /\ UNCHANGED alive
    /\ UNCHANGED <<entryVars, foundIn, waitPc, wasCompositor, reported, doomed,
                   signalled, leaf, reapVars>>

\* (mistake) The wait task is started before the pid is recorded.
SpawnRecordLate(k) ==
    /\ spawnPc[k] = "spawned"
    /\ IF waitPc[k] = "none"
       THEN /\ waitPc' = [waitPc EXCEPT ![k] = "waiting"]
            /\ UNCHANGED <<spawnPc, childPids>>
       ELSE /\ spawnPc' = [spawnPc EXCEPT ![k] = "recorded"]
            /\ childPids' = [g \in Gen |-> childPids[g] \cup {x \in {k} : g = entry}]
            /\ UNCHANGED waitPc
    /\ UNCHANGED <<entry, genPc, compositorPid, foundIn, wasCompositor, reported,
                   procVars, leaf, reapVars>>

\* (mistake) The recorded child does not join the leaf.
SpawnRecordOutside(k) ==
    /\ spawnPc[k] = "spawned"
    /\ waitPc' = [waitPc EXCEPT ![k] = "waiting"]
    /\ spawnPc' = [spawnPc EXCEPT ![k] = IF entry = None THEN "lost" ELSE "recorded"]
    /\ childPids' = [g \in Gen |-> childPids[g] \cup {x \in {k} : g = entry}]
    /\ UNCHANGED <<entry, genPc, compositorPid, foundIn, wasCompositor, reported,
                   procVars, leaf, reapVars>>

\* The second look: the pid is recorded in whatever session has the name now,
\* and joins its leaf; without a session it is recorded nowhere and nobody
\* reads its output.  Either way a task waits for it and the call returns Ok.
SpawnRecord(k) ==
    /\ spawnPc[k] = "spawned"
    /\ waitPc' = [waitPc EXCEPT ![k] = "waiting"]
    /\ IF entry # None
       THEN /\ spawnPc' = [spawnPc EXCEPT ![k] = "recorded"]
            /\ childPids' = [childPids EXCEPT ![entry] = @ \cup {k}]
            /\ compositorPid' = [compositorPid EXCEPT ![entry] =
                                    IF k \in Compositor THEN k ELSE @]
            /\ leaf' = IF k \in alive THEN AddPid(leaf, k) ELSE leaf
       ELSE /\ spawnPc' = [spawnPc EXCEPT ![k] = "lost"]
            /\ UNCHANGED <<childPids, compositorPid, leaf>>
    /\ UNCHANGED <<entry, genPc, foundIn, wasCompositor, reported, procVars, reapVars>>

\* (mistake) The pruned pid stays in compositor_pid.
WaitPruneKeepsCompositor(k) ==
    /\ waitPc[k] = "waiting" /\ k \notin alive
    /\ waitPc' = [waitPc EXCEPT ![k] = "pruned"]
    /\ childPids' = [g \in Gen |-> IF g = entry THEN childPids[g] \ {k} ELSE childPids[g]]
    /\ UNCHANGED <<entry, genPc, compositorPid, spawnPc, foundIn, wasCompositor,
                   reported, procVars, leaf, reapVars>>

\* child.wait() returned; the pid is pruned from whatever session has the name.
WaitPrune(k) ==
    LET was == entry # None /\ compositorPid[entry] = k
    IN  /\ waitPc[k] = "waiting"
        /\ k \notin alive
        /\ waitPc' = [waitPc EXCEPT ![k] = "pruned"]
        /\ wasCompositor' = [wasCompositor EXCEPT ![k] = was]
        /\ childPids' = [g \in Gen |-> IF g = entry THEN childPids[g] \ {k}
                                       ELSE childPids[g]]
        /\ compositorPid' = [g \in Gen |-> IF g = entry /\ was THEN None
                                           ELSE compositorPid[g]]
        /\ UNCHANGED <<entry, genPc, spawnPc, foundIn, reported, procVars, leaf, reapVars>>

\* (mistake) Only the exit of the compositor is reported.
WaitReportCrashOnly(k) ==
    /\ waitPc[k] = "pruned"
    /\ waitPc' = [waitPc EXCEPT ![k] = "done"]
    /\ reported' = reported \cup {<<k, "crashed">> : x \in {y \in {k} : wasCompositor[y]}}
    /\ UNCHANGED <<entryVars, spawnPc, foundIn, wasCompositor, procVars, leaf, reapVars>>

WaitReport(k) ==
    /\ waitPc[k] = "pruned"
    /\ waitPc' = [waitPc EXCEPT ![k] = "done"]
    /\ reported' = reported \cup {<<k, "exited">>}
                            \cup (IF wasCompositor[k] THEN {<<k, "crashed">>} ELSE {})
    /\ UNCHANGED <<entryVars, spawnPc, foundIn, wasCompositor, procVars, leaf, reapVars>>

-----------------------------------------------------------------------------
(* destroy(): the entry leaves the map, its children get SIGTERM and a task *)
(* kills and removes the leaf.                                              *)

DestroyRemove(g) ==
    /\ entry = g
    /\ entry' = None
    /\ genPc' = [genPc EXCEPT ![g] = "destroyed"]
    /\ reapPc' = [reapPc EXCEPT ![g] = "removed"]
    /\ UNCHANGED <<childPids, compositorPid, callVars, procVars, leaf, tries>>

DestroySignal(g) ==
    /\ reapPc[g] = "removed"
    /\ signalled' = signalled \cup childPids[g]
    /\ reapPc' = [reapPc EXCEPT ![g] = "kill"]
    /\ UNCHANGED <<entryVars, callVars, alive, doomed, leaf, tries>>

\* (mistake) Only the session process is killed, not its leaf.
KillAllSessionOnly(g) ==
    /\ reapPc[g] = "kill"
    /\ reapPc' = [reapPc EXCEPT ![g] = "retry"]
    /\ doomed' = doomed \cup ({g} \cap alive)
    /\ UNCHANGED <<entryVars, callVars, alive, signalled, leaf, tries>>

\* cg.kill_all(): whoever is in the leaf of that name now.
KillAll(g) ==
    /\ reapPc[g] = "kill"
    /\ reapPc' = [reapPc EXCEPT ![g] = "retry"]
    /\ doomed' = doomed \cup (IF leaf = None THEN {} ELSE leaf)
    /\ UNCHANGED <<entryVars, callVars, alive, signalled, leaf, tries>>

\* One turn of the retry loop, every 200 ms; after MaxTries the leaf stays.
ReapTry(g) ==
    /\ reapPc[g] = "retry"
    /\ tries' = [tries EXCEPT ![g] = @ + 1]
    /\ leaf' = IF TryRemove(leaf) THEN None ELSE leaf
    /\ reapPc' = [reapPc EXCEPT ![g] = IF TryRemove(leaf) THEN "done"
                                       ELSE IF tries[g] + 1 = MaxTries THEN "left"
                                       ELSE "retry"]
    /\ UNCHANGED <<entryVars, callVars, procVars>>

-----------------------------------------------------------------------------
(* Processes, and the session's supervisor.                                 *)

\* A process may exit at any time, on its own, from SIGTERM or from SIGKILL.
Die(p) ==
    /\ p \in alive
    /\ alive' = alive \ {p}
    /\ doomed' = doomed \ {p}
    /\ leaf' = IF leaf = None THEN None ELSE leaf \ {p}
    /\ UNCHANGED <<entryVars, callVars, signalled, reapVars>>

\* session_supervisor removes whatever is registered under the name; the
\* children of a session that ended by itself are neither signalled nor killed.
SupervisorEnd(g) ==
    /\ genPc[g] \in {"live", "destroyed"}
    /\ g \notin alive
    /\ entry' = None
    /\ genPc' = [genPc EXCEPT ![g] = "gone"]
    /\ UNCHANGED <<childPids, compositorPid, callVars, procVars, leaf, reapVars>>

-----------------------------------------------------------------------------
SessionStep(g) == LeafMkdir(g) \/ LeafJoin(g) \/ Register(g) \/ SupervisorEnd(g)
DestroyStep(g) == DestroyRemove(g) \/ DestroySignal(g) \/ KillAll(g) \/ ReapTry(g)
SpawnStep(k) == SpawnLookup(k) \/ SpawnExec(k) \/ SpawnRecord(k)
WaitStep(k) == WaitPrune(k) \/ WaitReport(k)

Next ==
    \/ \E g \in Gen : SessionStep(g) \/ DestroyStep(g)
    \/ \E k \in Kid : SpawnStep(k) \/ WaitStep(k)
    \/ \E p \in Proc : Die(p)

\* The runtime runs every task that is ready; the kernel ends a process that
\* was sent SIGKILL.  No one is obliged to call, and no process to exit.
Fairness ==
    /\ \A g \in Gen : /\ WF_vars(DestroySignal(g))
                      /\ WF_vars(KillAll(g))
                      /\ WF_vars(ReapTry(g))
    /\ \A k \in Kid : WF_vars(SpawnRecord(k)) /\ WF_vars(WaitStep(k))
    /\ \A p \in Proc : WF_vars(p \in doomed /\ Die(p))

Spec == Init /\ [][Next]_vars /\ Fairness

-----------------------------------------------------------------------------
(* Properties                                                               *)

\* A pid in the registered session's child_pids is one whose wait task has not
\* pruned it yet: spawn_child records the pid before it starts the task, so a
\* child that exits at once leaves no stale pid for destroy() to signal.
TrackedIsAwaited ==
    entry # None => \A k \in childPids[entry] : waitPc[k] = "waiting"

\* compositor_pid of the registered session is one of its tracked children,
\* however exits, spawns, destroys and re-creations of the name interleave.
CompositorIsTracked ==
    entry # None => compositorPid[entry] \in childPids[entry] \cup {None}

\* The inductive strengthening: a registered session is a live one, a session
\* that was never registered tracks nobody, a call whose wait task exists has
\* made its second look, only live processes are in the leaf, and the cleanup
\* loop stops at its last attempt.
IInv ==
    /\ TypeOK
    /\ entry # None => genPc[entry] = "live"
    /\ \A g \in Gen : genPc[g] \in {"new", "leaf", "joined"} =>
            childPids[g] = {} /\ compositorPid[g] = None
    /\ \A k \in Kid : waitPc[k] # "none" => spawnPc[k] \in {"recorded", "lost"}
    /\ leaf # None => leaf \subseteq alive
    /\ \A g \in Gen : /\ reapPc[g] \in {"none", "removed", "kill"} => tries[g] = 0
                      /\ reapPc[g] = "retry" => tries[g] < MaxTries
                      /\ genPc[g] \notin {"destroyed", "gone"} => reapPc[g] = "none"
    /\ TrackedIsAwaited
    /\ CompositorIsTracked

\* The exit of every process spawn_child started is reported by a ChildExited
\* event, also when its session was destroyed or re-created in between.
ExitIsReported ==
    \A k \in Kid : []<>(spawnPc[k] \in {"spawned", "recorded", "lost"} /\ k \notin alive
                            => <<k, "exited">> \in reported)

\* No other session of the name has begun: none of their tasks touch the leaf.
Alone(g) == \A h \in Gen \ {g} : genPc[h] = "new"

\* Until the name is used again, every live process recorded in the registered
\* session, and the session itself, is in its cgroup leaf: the cap aggregates over
\* the subtree (create() and spawn_child()).
CapAggregates ==
    (entry # None /\ Alone(entry)) => ({entry} \cup childPids[entry]) \cap alive
                                        \subseteq (IF leaf = None THEN {} ELSE leaf)

\* A session's books agree with its processes: the compositor it names is one
\* of its children, and its children share its cgroup.
SpawnedIsAccounted == CompositorIsTracked /\ CapAggregates

\* A child recorded in a session with a leaf does not outlive destroy(), even
\* if it ignores SIGTERM: cgroup.kill reaches it, unless the name is used again first.
DestroyKillsTracked ==
    \A g \in Gen, k \in Kid :
        []<>(k \in childPids[g] /\ reapPc[g] # "none" /\ Alone(g) => k \notin alive)

\* Every child that spawn_child let go comes to its end for the daemon: its
\* exit is broadcast, and destroy() ends the ones it knows of.
ChildrenSettle == ExitIsReported /\ DestroyKillsTracked

\* spawn_child: "Record this child so destroy() can SIGTERM it": a child spawned
\* into a session is signalled when that session is destroyed.
DestroySignalsSpawned ==
    \A k \in Kid, g \in Gen :
        (k \in alive /\ waitPc[k] = "waiting" /\ foundIn[k] = g
           /\ reapPc[g] \in {"kill", "retry", "done", "left"}) => k \in signalled

\* compositor_pid: its exit "emits `SessionCrashed` instead of `ChildExited`".
CrashInsteadOfExit ==
    \A k \in Kid : ~(<<k, "crashed">> \in reported /\ <<k, "exited">> \in reported)

\* session_supervisor, before it removes the session's directory: "cgroup.kill
\* above has already terminated every PID rooted in the session".
SubtreeIsDead ==
    \A g \in Gen : genPc[g] = "gone" => childPids[g] \cap alive = {}

=============================================================================

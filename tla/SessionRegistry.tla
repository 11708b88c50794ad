--------------------------- MODULE SessionRegistry ---------------------------
(***************************************************************************)
(* The daemon's session registry (crates/waymux-daemon/src/registry.rs):   *)
(* create(), destroy() and session_supervisor() running as concurrent      *)
(* tasks of a multi-threaded runtime over one map keyed by session NAME.   *)
(*                                                                         *)
(* A session INSTANCE (Sid) is one create() call together with the process *)
(* and the supervisor it may spawn.  The code has no such identity: the    *)
(* map, the session directory and the tmpfs mount are all addressed by     *)
(* name, and two instances of one name can overlap.  Every action is the   *)
(* code between two points at which the task can be suspended.             *)
(***************************************************************************)
EXTENDS Naturals, Sequences

CONSTANTS
    Sid,      \* session instances, one per create() call
    Name,     \* session names that pass validate_session_name
    NameOf,   \* the name each create() call asks for
    Quota,    \* the calls that pass disk_quota_mb > 0
    None      \* an absent instance

ASSUME ConstantsAssumption ==
    /\ NameOf \in [Sid -> Name]
    /\ Quota \subseteq Sid
    /\ None \notin Sid

VARIABLES
    sessions,    \* Inner.sessions: the instance registered under each name
    killTx,      \* SessionEntry.kill: the sending half of the kill channel
    tmpfs,       \* does the instance's create()/entry hold a SessionTmpfs
    createPc,    \* where each create() call is
    signalled,   \* has somebody connected to the call's ready listener
    destroyPc,   \* where the destroy() call that removed the instance is
    supPc,       \* where the instance's supervisor task is
    taken,       \* the entry the supervisor found under its name, if any
    proc,        \* the instance's waymux-session process
    stops,       \* session_stop usage events written for the instance
    dir          \* state_dir/<name>: the stack of file systems mounted there

vars == <<sessions, killTx, tmpfs, createPc, signalled, destroyPc, supPc,
          taken, proc, stops, dir>>

registryVars == <<sessions, killTx, stops>>
destroyVars == <<destroyPc>>
supVars == <<supPc, taken>>

-----------------------------------------------------------------------------
(* The session directory.  A directory is the sequence of file systems      *)
(* stacked on the path, the one visible last; it is empty when the path     *)
(* does not exist.  Of the files only the sockets are kept, each with the   *)
(* instance that bound it: ready.sock, bound by create(), and the sockets   *)
(* the session process binds (wayland.sock, control.sock, attach.sock).     *)

NoSockets == [ready |-> None, inner |-> None]

Socket == [ready : Sid \cup {None}, inner : Sid \cup {None}]

Exists(d) == d # <<>>

Top(d) == d[Len(d)]

WithTop(d, socks) == IF Exists(d) THEN [d EXCEPT ![Len(d)] = socks] ELSE d

\* A socket file is bound by, or (None) removed from, what is visible.
BindReady(d, s) == WithTop(d, [Top(d) EXCEPT !.ready = s])
BindInner(d, s) == WithTop(d, [Top(d) EXCEPT !.inner = s])

\* tokio::fs::create_dir_all
Mkdir(d) == IF Exists(d) THEN d ELSE <<NoSockets>>

\* SessionTmpfs::try_mount: an empty file system now hides what was there.
Mount(d) == Append(d, NoSockets)

\* SessionTmpfs::unmount: umount2 by PATH detaches whatever is on top.
Unmount(d) == IF Len(d) > 1 THEN SubSeq(d, 1, Len(d) - 1) ELSE d

\* remove_dir_all empties the directory; the last rmdir fails on a mount point.
RemoveDirAll(d) == IF Len(d) > 1 THEN WithTop(d, NoSockets) ELSE <<>>

-----------------------------------------------------------------------------
\* Every variable has its type; in particular an entry of the map is an
\* instance and a kill channel is in one of its four states.
TypeOK ==
    /\ sessions \in [Name -> Sid \cup {None}]
    /\ killTx \in [Sid -> {"none", "held", "sent", "dropped"}]
    /\ tmpfs \in [Sid -> BOOLEAN]
    /\ createPc \in [Sid -> {"idle", "checked", "made", "prepared", "waiting",
                             "ready", "inserted", "done", "failed"}]
    /\ signalled \in [Sid -> BOOLEAN]
    /\ destroyPc \in [Sid -> {"none", "removed", "stopped", "killed", "done"}]
    /\ supPc \in [Sid -> {"none", "watch", "term", "exited", "removed",
                          "stopped", "done"}]
    /\ taken \in [Sid -> Sid \cup {None}]
    /\ proc \in [Sid -> {"none", "starting", "running", "dead"}]
    /\ stops \in [Sid -> Nat]
    /\ dir \in [Name -> Seq(Socket)]

Init ==
    /\ sessions = [n \in Name |-> None]
    /\ killTx = [s \in Sid |-> "none"]
    /\ tmpfs = [s \in Sid |-> FALSE]
    /\ createPc = [s \in Sid |-> "idle"]
    /\ signalled = [s \in Sid |-> FALSE]
    /\ destroyPc = [s \in Sid |-> "none"]
    /\ supPc = [s \in Sid |-> "none"]
    /\ taken = [s \in Sid |-> None]
    /\ proc = [s \in Sid |-> "none"]
    /\ stops = [s \in Sid |-> 0]
    /\ dir = [n \in Name |-> <<>>]

Goto(pc, s, label) == [pc EXCEPT ![s] = label]

-----------------------------------------------------------------------------
(* create()                                                                 *)

\* The first look at the map; the lock is released before anything is done.
CreateCheck(s) ==
    /\ createPc[s] = "idle"
    /\ createPc' = Goto(createPc, s, IF sessions[NameOf[s]] = None
                                     THEN "checked" ELSE "failed")
    /\ UNCHANGED <<registryVars, tmpfs, signalled, destroyVars, supVars, proc, dir>>

CreateMkdir(s) ==
    /\ createPc[s] = "checked"
    /\ createPc' = Goto(createPc, s, "made")
    /\ dir' = [dir EXCEPT ![NameOf[s]] = Mkdir(@)]
    /\ UNCHANGED <<registryVars, tmpfs, signalled, destroyVars, supVars, proc>>

\* The tmpfs mount (it may fail: EPERM, or the directory is gone again) and
\* the removal of stale sockets from what is now visible.
CreatePrepare(s) ==
    /\ createPc[s] = "made"
    /\ createPc' = Goto(createPc, s, "prepared")
    /\ \E mounted \in {m \in BOOLEAN : m => s \in Quota /\ Exists(dir[NameOf[s]])} :
          /\ tmpfs' = [tmpfs EXCEPT ![s] = mounted]
          /\ dir' = [dir EXCEPT ![NameOf[s]] =
                        WithTop(IF mounted THEN Mount(@) ELSE @, NoSockets)]
    /\ UNCHANGED <<registryVars, signalled, destroyVars, supVars, proc>>

\* bind fails when the directory is gone or another call has bound the file.
CanBindReady(s) == Exists(dir[NameOf[s]]) /\ Top(dir[NameOf[s]]).ready = None

\* UnixListener::bind(ready.sock) and the spawn of the session process: both
\* synchronous.
CreateSpawn(s) ==
    /\ createPc[s] = "prepared"
    /\ CanBindReady(s)
    /\ createPc' = Goto(createPc, s, "waiting")
    /\ proc' = [proc EXCEPT ![s] = "starting"]
    /\ dir' = [dir EXCEPT ![NameOf[s]] = BindReady(@, s)]
    /\ UNCHANGED <<registryVars, tmpfs, signalled, destroyVars, supVars>>

\* One of the two binds or the spawn fails: ready.sock may stay behind, and
\* the tmpfs stays mounted (no failing path of create() unmounts it).
CreateSpawnFails(s) ==
    /\ createPc[s] = "prepared"
    /\ createPc' = Goto(createPc, s, "failed")
    /\ \/ UNCHANGED dir
       \/ CanBindReady(s) /\ dir' = [dir EXCEPT ![NameOf[s]] = BindReady(@, s)]
    /\ UNCHANGED <<registryVars, tmpfs, signalled, destroyVars, supVars, proc>>

\* (mistake) Readiness clears every socket of the directory.
CreateReadyClearsAll(s) ==
    /\ createPc[s] = "waiting" /\ signalled[s]
    /\ createPc' = Goto(createPc, s, "ready")
    /\ dir' = [dir EXCEPT ![NameOf[s]] = WithTop(@, NoSockets)]
    /\ UNCHANGED <<registryVars, tmpfs, signalled, destroyVars, supVars, proc>>

\* select!: the ready listener accepted.  ready.sock is then removed by path.
CreateReady(s) ==
    /\ createPc[s] = "waiting"
    /\ signalled[s]
    /\ createPc' = Goto(createPc, s, "ready")
    /\ dir' = [dir EXCEPT ![NameOf[s]] = BindReady(@, None)]
    /\ UNCHANGED <<registryVars, tmpfs, signalled, destroyVars, supVars, proc>>

\* (mistake) create() waits for its process without a timeout.
CreateAbandonNoTimeout(s) ==
    /\ createPc[s] = "waiting" /\ proc[s] = "dead"
    /\ createPc' = Goto(createPc, s, "failed")
    /\ UNCHANGED <<registryVars, tmpfs, signalled, destroyVars, supVars, proc, dir>>

\* select!: the process exited, or 5 s passed and create() kills it.
CreateAbandon(s) ==
    /\ createPc[s] = "waiting"
    /\ createPc' = Goto(createPc, s, "failed")
    /\ proc' = [proc EXCEPT ![s] = "dead"]
    /\ UNCHANGED <<registryVars, tmpfs, signalled, destroyVars, supVars, dir>>

\* (mistake) The insertion does not look at the map again.
CreateInsertUnchecked(s) ==
    /\ createPc[s] = "ready"
    /\ sessions' = [sessions EXCEPT ![NameOf[s]] = s]
    /\ killTx' = [killTx EXCEPT ![s] = "held"]
    /\ supPc' = Goto(supPc, s, "watch")
    /\ createPc' = Goto(createPc, s, "inserted")
    /\ UNCHANGED <<tmpfs, signalled, destroyVars, taken, proc, stops, dir>>

\* The second look at the map, the insertion and the supervisor's spawn, all
\* under the map lock.
CreateInsert(s) ==
    /\ createPc[s] = "ready"
    /\ sessions[NameOf[s]] = None
    /\ sessions' = [sessions EXCEPT ![NameOf[s]] = s]
    /\ killTx' = [killTx EXCEPT ![s] = "held"]
    /\ supPc' = Goto(supPc, s, "watch")
    /\ createPc' = Goto(createPc, s, "inserted")
    /\ UNCHANGED <<tmpfs, signalled, destroyVars, taken, proc, stops, dir>>

\* (mistake) The losing call returns without killing its process.
CreateLoseNoKill(s) ==
    /\ createPc[s] = "ready" /\ sessions[NameOf[s]] # None
    /\ createPc' = Goto(createPc, s, "failed")
    /\ UNCHANGED <<registryVars, tmpfs, signalled, destroyVars, supVars, proc, dir>>

\* The loser of two racing calls kills its process.
CreateLose(s) ==
    /\ createPc[s] = "ready"
    /\ sessions[NameOf[s]] # None
    /\ createPc' = Goto(createPc, s, "failed")
    /\ proc' = [proc EXCEPT ![s] = "dead"]
    /\ UNCHANGED <<registryVars, tmpfs, signalled, destroyVars, supVars, dir>>

\* SessionCreated is broadcast after the lock is released.
CreateAnnounce(s) ==
    /\ createPc[s] = "inserted"
    /\ createPc' = Goto(createPc, s, "done")
    /\ UNCHANGED <<registryVars, tmpfs, signalled, destroyVars, supVars, proc, dir>>

CreateStep(s) ==
    \/ CreateMkdir(s) \/ CreatePrepare(s) \/ CreateSpawn(s) \/ CreateSpawnFails(s)
    \/ CreateReady(s) \/ CreateAbandon(s)
    \/ CreateInsert(s) \/ CreateLose(s) \/ CreateAnnounce(s)

-----------------------------------------------------------------------------
(* The session process, as far as the registry sees it                      *)

\* create() holds its ready listener until it returns.
Listening(s) == createPc[s] \in {"waiting", "ready", "inserted"}

\* waymux-session binds its own sockets and then connects to ready.sock BY
\* PATH: the connection reaches whichever call bound the file there last.
\* When nobody listens, main() returns an error and the process exits.
ProcReady(s) ==
    LET n == NameOf[s]
        owner == IF Exists(dir[n]) THEN Top(dir[n]).ready ELSE None
    IN  /\ proc[s] = "starting"
        /\ dir' = [dir EXCEPT ![n] = BindInner(@, s)]
        /\ IF owner # None /\ Listening(owner)
           THEN /\ proc' = [proc EXCEPT ![s] = "running"]
                /\ signalled' = [signalled EXCEPT ![owner] = TRUE]
           ELSE /\ proc' = [proc EXCEPT ![s] = "dead"]
                /\ UNCHANGED signalled
        /\ UNCHANGED <<registryVars, tmpfs, createPc, destroyVars, supVars>>

\* A crash, a control-socket shutdown, or obedience to a SIGTERM.
ProcExit(s) ==
    /\ proc[s] \in {"starting", "running"}
    /\ proc' = [proc EXCEPT ![s] = "dead"]
    /\ UNCHANGED <<registryVars, tmpfs, createPc, signalled, destroyVars, supVars, dir>>

-----------------------------------------------------------------------------
(* destroy()                                                                *)

\* (mistake) destroy() uses the entry but leaves it in the map.
DestroyRemoveKeeps(n) ==
    /\ sessions[n] # None /\ destroyPc[sessions[n]] = "none"
    /\ destroyPc' = Goto(destroyPc, sessions[n], "removed")
    /\ UNCHANGED <<sessions, killTx, tmpfs, createPc, signalled, supVars, proc, stops, dir>>

\* Removes the entry and takes its kill sender, child pids and tmpfs.  When
\* no entry has the name the call fails with NotFound and changes nothing.
DestroyRemove(n) ==
    /\ sessions[n] # None
    /\ destroyPc' = Goto(destroyPc, sessions[n], "removed")
    /\ sessions' = [sessions EXCEPT ![n] = None]
    /\ UNCHANGED <<killTx, tmpfs, createPc, signalled, supVars, proc, stops, dir>>

\* The session_stop usage event, written after the lock is released.
DestroyStop(s) ==
    /\ destroyPc[s] = "removed"
    /\ destroyPc' = Goto(destroyPc, s, "stopped")
    /\ stops' = [stops EXCEPT ![s] = @ + 1]
    /\ UNCHANGED <<sessions, killTx, tmpfs, createPc, signalled, supVars, proc, dir>>

\* (mistake) The kill sender is dropped instead of used.
DestroyKillDrops(s) ==
    /\ destroyPc[s] = "stopped"
    /\ destroyPc' = Goto(destroyPc, s, "killed")
    /\ killTx' = [killTx EXCEPT ![s] = "dropped"]
    /\ UNCHANGED <<sessions, tmpfs, createPc, signalled, supVars, proc, stops, dir>>

DestroyKill(s) ==
    /\ destroyPc[s] = "stopped"
    /\ destroyPc' = Goto(destroyPc, s, "killed")
    /\ killTx' = [killTx EXCEPT ![s] = "sent"]
    /\ UNCHANGED <<sessions, tmpfs, createPc, signalled, supVars, proc, stops, dir>>

DestroyUnmount(s) ==
    /\ destroyPc[s] = "killed"
    /\ destroyPc' = Goto(destroyPc, s, "done")
    /\ tmpfs' = [tmpfs EXCEPT ![s] = FALSE]
    /\ dir' = [dir EXCEPT ![NameOf[s]] = IF tmpfs[s] THEN Unmount(@) ELSE @]
    /\ UNCHANGED <<registryVars, createPc, signalled, supVars, proc>>

DestroyStep(s) == DestroyStop(s) \/ DestroyKill(s) \/ DestroyUnmount(s)

-----------------------------------------------------------------------------
(* session_supervisor()                                                     *)

\* child.wait() returned, in the first select! or after the SIGTERM.
SupExited(s) ==
    /\ supPc[s] \in {"watch", "term"}
    /\ proc[s] = "dead"
    /\ supPc' = Goto(supPc, s, "exited")
    /\ UNCHANGED <<registryVars, tmpfs, createPc, signalled, destroyVars, taken, proc, dir>>

\* kill_rx resolved: with a value, or because the sender was dropped (the
\* select! arm matches both).  shutdown_child sends SIGTERM.
SupKill(s) ==
    /\ supPc[s] = "watch"
    /\ killTx[s] \in {"sent", "dropped"}
    /\ supPc' = Goto(supPc, s, "term")
    /\ UNCHANGED <<registryVars, tmpfs, createPc, signalled, destroyVars, taken, proc, dir>>

\* (mistake) A process that ignores SIGTERM is waited for.
SupEscalateWaits(s) ==
    /\ supPc[s] = "term" /\ proc[s] = "dead"
    /\ supPc' = Goto(supPc, s, "exited")
    /\ UNCHANGED <<registryVars, tmpfs, createPc, signalled, destroyVars, taken, proc, dir>>

\* 5 s passed: SIGKILL, and the process is reaped.
SupEscalate(s) ==
    /\ supPc[s] = "term"
    /\ supPc' = Goto(supPc, s, "exited")
    /\ proc' = [proc EXCEPT ![s] = "dead"]
    /\ UNCHANGED <<registryVars, tmpfs, createPc, signalled, destroyVars, taken, dir>>

\* (mistake) The supervisor looks the entry up but does not remove it.
SupRemoveKeeps(s) ==
    /\ supPc[s] = "exited"
    /\ supPc' = Goto(supPc, s, "removed")
    /\ taken' = [taken EXCEPT ![s] = sessions[NameOf[s]]]
    /\ UNCHANGED <<registryVars, tmpfs, createPc, signalled, destroyVars, proc, dir>>

\* sessions.remove(&name): whatever is registered under the name goes, and
\* dropping the entry drops its kill sender.
SupRemove(s) ==
    LET found == sessions[NameOf[s]]
    IN  /\ supPc[s] = "exited"
        /\ supPc' = Goto(supPc, s, "removed")
        /\ taken' = [taken EXCEPT ![s] = found]
        /\ sessions' = [sessions EXCEPT ![NameOf[s]] = None]
        /\ killTx' = [r \in Sid |-> IF r = found THEN "dropped" ELSE killTx[r]]
        /\ UNCHANGED <<tmpfs, createPc, signalled, destroyVars, proc, stops, dir>>

\* (mistake) The supervisor always writes a session_stop for its session.
SupStopAlways(s) ==
    /\ supPc[s] = "removed"
    /\ supPc' = Goto(supPc, s, "stopped")
    /\ stops' = [stops EXCEPT ![s] = @ + 1]
    /\ UNCHANGED <<sessions, killTx, tmpfs, createPc, signalled, destroyVars, taken, proc, dir>>

\* The usage event and the unmount, both only if an entry was found.
SupStop(s) ==
    LET found == taken[s]
    IN  /\ supPc[s] = "removed"
        /\ supPc' = Goto(supPc, s, "stopped")
        /\ stops' = [r \in Sid |-> IF r = found THEN stops[r] + 1 ELSE stops[r]]
        /\ tmpfs' = [r \in Sid |-> tmpfs[r] /\ r # found]
        /\ dir' = [dir EXCEPT ![NameOf[s]] =
                      IF found # None /\ tmpfs[found] THEN Unmount(@) ELSE @]
        /\ UNCHANGED <<sessions, killTx, createPc, signalled, destroyVars, taken, proc>>

\* The socket files, the directory (by path) and SessionDestroyed.
SupCleanup(s) ==
    /\ supPc[s] = "stopped"
    /\ supPc' = Goto(supPc, s, "done")
    /\ dir' = [dir EXCEPT ![NameOf[s]] = RemoveDirAll(@)]
    /\ UNCHANGED <<registryVars, tmpfs, createPc, signalled, destroyVars, taken, proc>>

SupStep(s) ==
    \/ SupExited(s) \/ SupKill(s) \/ SupEscalate(s)
    \/ SupRemove(s) \/ SupStop(s) \/ SupCleanup(s)

-----------------------------------------------------------------------------
Running(s) == CreateStep(s) \/ ProcReady(s) \/ ProcExit(s) \/ DestroyStep(s) \/ SupStep(s)

Next ==
    \/ \E s \in Sid : CreateCheck(s) \/ Running(s)
    \/ \E n \in Name : DestroyRemove(n)

\* The runtime polls every task that can proceed, the two select! timeouts
\* expire, and SIGKILL ends a process.  No process has to exit by itself.
Fairness ==
    \A s \in Sid : WF_vars(CreateStep(s)) /\ WF_vars(DestroyStep(s)) /\ WF_vars(SupStep(s))

Spec == Init /\ [][Next]_vars /\ Fairness

\* Nothing of an earlier instance of the name is still under way.
Settled(s) ==
    /\ createPc[s] \in {"idle", "done", "failed"}
    /\ destroyPc[s] \in {"none", "done"}
    /\ supPc[s] \in {"none", "done"}

\* A client that reuses a name only when the destroy() call has answered and
\* the SessionDestroyed event has arrived: what its steps satisfy.
Patiently ==
    \A s \in Sid : createPc[s] = "idle" /\ createPc'[s] # "idle" =>
        \A r \in Sid : NameOf[r] = NameOf[s] => Settled(r)

-----------------------------------------------------------------------------
(* Properties                                                               *)

\* create() got as far as the insertion into the map.
Inserted(s) == createPc[s] \in {"inserted", "done"}

Registered(s) == sessions[NameOf[s]] = s

\* Who still owes the usage stream the session_stop of instance s.
OwedByDestroy(s) == destroyPc[s] = "removed"
OwedBy(r, s) == supPc[r] = "removed" /\ taken[r] = s

\* The map lock is held "across the insert + supervisor spawn": every
\* registered instance has a supervisor that has not yet removed an entry
\* and that nobody has told to kill, so the entry cannot outlive the process
\* unnoticed, and no destroy() has taken it.
RegisteredIsSupervised ==
    \A n \in Name : LET s == sessions[n] IN
        s # None => /\ NameOf[s] = n
                    /\ Inserted(s)
                    /\ supPc[s] \in {"watch", "exited"}
                    /\ killTx[s] = "held"
                    /\ destroyPc[s] = "none"

\* Once an instance has left the map, by whichever of destroy() and the two
\* supervisors that can reach it, its process is on the way out: a kill is
\* pending or sent, or its supervisor has seen it exit.
UnregisteredIsKilled ==
    \A s \in Sid : Inserted(s) /\ ~Registered(s) =>
        \/ destroyPc[s] \in {"removed", "stopped"}
        \/ killTx[s] \in {"sent", "dropped"}
        \/ supPc[s] \in {"removed", "stopped", "done"}

\* No session process is left without a task that waits for it: the create()
\* call until it fails or inserts, the supervisor afterwards.
NoOrphanProcess ==
    \A s \in Sid : proc[s] \in {"starting", "running"} =>
        createPc[s] \in {"waiting", "ready"} \/ supPc[s] \in {"watch", "term"}

\* The usage ledger: an inserted instance is in exactly one of the states
\* registered, stop owed by destroy(), stop owed by one supervisor, stopped
\* once.  So each session_start gets exactly one session_stop.
StopLedger ==
    \A s \in Sid :
        /\ stops[s] = IF \/ ~Inserted(s) \/ Registered(s) \/ OwedByDestroy(s)
                         \/ \E r \in Sid : OwedBy(r, s)
                      THEN 0 ELSE 1
        /\ ~(Registered(s) /\ OwedByDestroy(s))
        /\ \A r \in Sid : OwedBy(r, s) =>
              /\ ~Registered(s) /\ ~OwedByDestroy(s)
              /\ \A q \in Sid : OwedBy(q, s) => q = r

\* A destroyed session is torn down: its process is dead, its entry gone and
\* SessionDestroyed broadcast, even if the process ignores SIGTERM.
DestroyCompletes ==
    \A s \in Sid : destroyPc[s] # "none" ~>
        supPc[s] = "done" /\ destroyPc[s] = "done" /\ proc[s] = "dead" /\ ~Registered(s)

\* Every create() call answers, whether the session process reports ready, exits
\* or hangs until the handshake times out.
CreateAnswers ==
    \A s \in Sid : createPc[s] = "checked" ~> createPc[s] \in {"done", "failed"}

\* An instance whose process died by itself does not stay in the map.
DeadIsForgotten ==
    \A s \in Sid : proc[s] = "dead" /\ Registered(s) ~> ~Registered(s)

\* What the registry owes its callers in the end, whatever the other tasks of
\* the name do: create() answers, destroy() is carried through, and a session
\* that died by itself is forgotten.
RegistrySettles == CreateAnswers /\ DestroyCompletes /\ DeadIsForgotten

\* For a patient client: while the instance is registered and its process
\* runs, the sockets under the session directory are its own.
OwnSockets ==
    \A s \in Sid : Registered(s) /\ proc[s] = "running" =>
        Exists(dir[NameOf[s]]) /\ Top(dir[NameOf[s]]).inner = s

\* registry.rs:1404: "The presence of the entry tells us destroy() didn't
\* run": a supervisor that finds an entry was not itself destroyed.
PresenceMeansNotDestroyed ==
    \A s \in Sid : taken[s] # None => destroyPc[s] = "none"

\* registry.rs:52: "Dropping without sending is harmless (supervisor keeps
\* waiting on child)".
DroppedKillIsHarmless ==
    \A s \in Sid : killTx[s] = "dropped" => supPc[s] # "term"

\* What the comments on destroy() and the supervisor promise to a client that
\* waits for SessionDestroyed before it uses a name again: its sockets are its
\* own, a supervisor that finds an entry was not destroyed, and a dropped kill
\* channel kills nobody.
PatientClientIsServed == OwnSockets /\ PresenceMeansNotDestroyed /\ DroppedKillIsHarmless

\* registry.rs:1448: "The dir itself is `state_dir/<name>` which we own - no
\* risk of touching unrelated state": when a supervisor removes the directory of
\* its name, no other instance of the name is registered or running in it.
CleanupTouchesOwnDirOnly ==
    [][\A s, r \in Sid : SupCleanup(s) /\ r # s /\ NameOf[r] = NameOf[s] =>
          ~Registered(r) /\ proc[r] # "running"]_vars

-----------------------------------------------------------------------------
\* How the tasks of one instance move together: create(), destroy() and the
\* supervisor never get ahead of the insertion, of the entry's removal and of
\* the kill channel that connects them.
TasksAgree ==
    \A s \in Sid :
        /\ supPc[s] = "none" <=> ~Inserted(s)
        /\ killTx[s] = "none" <=> ~Inserted(s)
        /\ destroyPc[s] # "none" => Inserted(s)
        /\ destroyPc[s] \in {"removed", "stopped"} => killTx[s] = "held"
        /\ destroyPc[s] \in {"killed", "done"} <=> killTx[s] = "sent"
        /\ supPc[s] \in {"none", "watch", "term", "exited"} => taken[s] = None
        /\ supPc[s] = "term" => killTx[s] \in {"sent", "dropped"}
        /\ taken[s] # None => Inserted(taken[s]) /\ NameOf[taken[s]] = NameOf[s]

\* The inductive invariant.
IInv ==
    /\ TypeOK
    /\ TasksAgree
    /\ RegisteredIsSupervised
    /\ UnregisteredIsKilled
    /\ NoOrphanProcess
    /\ StopLedger

\* The inductive invariant of a patient client: two instances of a name are
\* never under way together.  So a supervisor finds its own entry or none, a
\* kill channel is dropped only by the supervisor that would have listened to
\* it, and what a running process bound stays visible until its tmpfs goes.
PatientInv ==
    /\ IInv
    /\ \A r, s \in Sid : NameOf[r] = NameOf[s] /\ ~Settled(r) /\ ~Settled(s) => r = s
    /\ \A s \in Sid : taken[s] # None => taken[s] = s /\ destroyPc[s] = "none"
    /\ \A s \in Sid : killTx[s] = "dropped" => supPc[s] \in {"removed", "stopped", "done"}
    /\ \A s \in Sid : proc[s] = "running" /\ destroyPc[s] # "done" =>
          Exists(dir[NameOf[s]]) /\ Top(dir[NameOf[s]]).inner = s

-----------------------------------------------------------------------------
(* The registry implements SessionLifecycle: an instance is live while the  *)
(* map holds it and stopped once its session_stop is written.               *)
lifeOf ==
    [s \in Sid |-> IF ~Inserted(s) THEN "absent"
                   ELSE IF Registered(s) THEN "live"
                   ELSE IF stops[s] = 0 THEN "leaving" ELSE "stopped"]

Lifecycle == INSTANCE SessionLifecycle WITH life <- lifeOf

\* Every behaviour of the registry is a behaviour of SessionLifecycle: the
\* insertion starts an instance, any of the removals makes it leave, and the
\* one session_stop that follows ends it.
ImplementsLifecycle == Lifecycle!Spec
=============================================================================

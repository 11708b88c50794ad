------------------------ MODULE SessionRegistryProofs ------------------------
(***************************************************************************)
(* Proofs about SessionRegistry for any set of instances and names.  The   *)
(* invariants of the registry are not inductive one by one: that a         *)
(* supervisor finds at most one entry, owes at most one session_stop and   *)
(* is told to kill only after the entry has gone all depend on how the     *)
(* program counters of one instance move together, which IInv records.     *)
(*                                                                         *)
(* The daemon's end leaves no session process behind and no session_stop   *)
(* of a known session unwritten.  The registry keeps IInv underneath; what *)
(* the shutdown adds is that an instance once inserted is never registered *)
(* again, so destroying the names of the first list is enough, and that    *)
(* the supervisor that owes a session_stop was inserted before the handles *)
(* were taken.                                                             *)
(*                                                                         *)
(* A patient client reuses a name only when the instance before has ended; *)
(* PatientInv says what follows: one instance of a name under way at most, *)
(* from which the promises of the code's comments are short steps.         *)
(***************************************************************************)
EXTENDS DaemonShutdown, TLAPS

\* What create(), destroy() and the supervisor do to the session directory
\* leaves a stack of socket tables.
LEMMA DirTypes ==
    ASSUME NEW d \in Seq(Socket)
    PROVE  /\ Exists(d) => Top(d) \in Socket
           /\ \A x \in Socket : WithTop(d, x) \in Seq(Socket)
           /\ \A s \in Sid \cup {None} :
                 BindReady(d, s) \in Seq(Socket) /\ BindInner(d, s) \in Seq(Socket)
           /\ Mkdir(d) \in Seq(Socket)
           /\ Mount(d) \in Seq(Socket)
           /\ Unmount(d) \in Seq(Socket)
           /\ RemoveDirAll(d) \in Seq(Socket)
<1>0. NoSockets \in Socket
  BY Zenon DEF NoSockets, Socket
<1>1. Exists(d) => Top(d) \in Socket
  BY DEF Exists, Top
<1>2. \A x \in Socket : WithTop(d, x) \in Seq(Socket)
  BY DEF Exists, WithTop
<1>7. ASSUME NEW s \in Sid \cup {None}
      PROVE  BindReady(d, s) \in Seq(Socket) /\ BindInner(d, s) \in Seq(Socket)
  <2>1. CASE Exists(d)
    BY <1>1, <1>2, <2>1, Zenon DEF BindReady, BindInner, Socket
  <2>2. CASE ~Exists(d)
    BY <2>2, Zenon DEF BindReady, BindInner, WithTop
  <2> QED BY <2>1, <2>2, Zenon
<1>3. Mkdir(d) \in Seq(Socket)
  BY <1>0 DEF Mkdir
<1>4. Mount(d) \in Seq(Socket)
  BY <1>0 DEF Mount
<1>5. Unmount(d) \in Seq(Socket)
  BY DEF Unmount
<1>6. RemoveDirAll(d) \in Seq(Socket)
  BY <1>0, <1>2 DEF RemoveDirAll
<1> QED BY <1>1, <1>2, <1>3, <1>4, <1>5, <1>6, <1>7, Zenon

\* Every step of every task keeps the variables in their types.
LEMMA TypeStep == TypeOK /\ [Next]_vars => TypeOK'
<1> SUFFICES ASSUME TypeOK, [Next]_vars PROVE TypeOK'
  BY Zenon
<1> USE ConstantsAssumption DEF TypeOK, Goto, registryVars, destroyVars, supVars
<1>1. ASSUME NEW s \in Sid, CreateCheck(s) PROVE TypeOK'
  BY <1>1, Zenon DEF CreateCheck
<1>2. ASSUME NEW s \in Sid, CreateMkdir(s) PROVE TypeOK'
  BY <1>2, DirTypes, Zenon DEF CreateMkdir
<1>3. ASSUME NEW s \in Sid, CreatePrepare(s) PROVE TypeOK'
  <2>1. PICK mounted \in {m \in BOOLEAN : m => s \in Quota /\ Exists(dir[NameOf[s]])} :
              /\ tmpfs' = [tmpfs EXCEPT ![s] = mounted]
              /\ dir' = [dir EXCEPT ![NameOf[s]] =
                            WithTop(IF mounted THEN Mount(@) ELSE @, NoSockets)]
    BY <1>3, Zenon DEF CreatePrepare
  <2>2. WithTop(IF mounted THEN Mount(dir[NameOf[s]]) ELSE dir[NameOf[s]], NoSockets)
           \in Seq(Socket)
    BY DirTypes, Zenon DEF NoSockets, Socket
  <2> QED BY <1>3, <2>1, <2>2, Zenon DEF CreatePrepare
<1>4. ASSUME NEW s \in Sid, CreateSpawn(s) PROVE TypeOK'
  BY <1>4, DirTypes, Zenon DEF CreateSpawn
<1>5. ASSUME NEW s \in Sid, CreateSpawnFails(s) PROVE TypeOK'
  <2>1. dir' \in [Name -> Seq(Socket)]
    <3>1. CASE UNCHANGED dir
      BY <3>1, Zenon
    <3>2. CASE dir' = [dir EXCEPT ![NameOf[s]] = BindReady(@, s)]
      BY <3>2, DirTypes, Zenon
    <3> QED BY <1>5, <3>1, <3>2, Zenon DEF CreateSpawnFails
  <2> QED BY <1>5, <2>1, Zenon DEF CreateSpawnFails
<1>6. ASSUME NEW s \in Sid, CreateReady(s) PROVE TypeOK'
  BY <1>6, DirTypes, Zenon DEF CreateReady
<1>7. ASSUME NEW s \in Sid, CreateAbandon(s) PROVE TypeOK'
  BY <1>7, Zenon DEF CreateAbandon
<1>8. ASSUME NEW s \in Sid, CreateInsert(s) PROVE TypeOK'
  BY <1>8, Zenon DEF CreateInsert
<1>9. ASSUME NEW s \in Sid, CreateLose(s) PROVE TypeOK'
  BY <1>9, Zenon DEF CreateLose
<1>10. ASSUME NEW s \in Sid, CreateAnnounce(s) PROVE TypeOK'
  BY <1>10, Zenon DEF CreateAnnounce
<1>11. ASSUME NEW s \in Sid, ProcReady(s) PROVE TypeOK'
  BY <1>11, DirTypes, ZenonT(30) DEF ProcReady
<1>12. ASSUME NEW s \in Sid, ProcExit(s) PROVE TypeOK'
  BY <1>12, Zenon DEF ProcExit
<1>13. ASSUME NEW n \in Name, DestroyRemove(n) PROVE TypeOK'
  BY <1>13, Zenon DEF DestroyRemove
<1>14. ASSUME NEW s \in Sid, DestroyStop(s) PROVE TypeOK'
  BY <1>14 DEF DestroyStop
<1>15. ASSUME NEW s \in Sid, DestroyKill(s) PROVE TypeOK'
  BY <1>15, Zenon DEF DestroyKill
<1>16. ASSUME NEW s \in Sid, DestroyUnmount(s) PROVE TypeOK'
  BY <1>16, DirTypes, Zenon DEF DestroyUnmount
<1>17. ASSUME NEW s \in Sid, SupExited(s) PROVE TypeOK'
  BY <1>17, Zenon DEF SupExited
<1>18. ASSUME NEW s \in Sid, SupKill(s) PROVE TypeOK'
  BY <1>18, Zenon DEF SupKill
<1>19. ASSUME NEW s \in Sid, SupEscalate(s) PROVE TypeOK'
  BY <1>19, Zenon DEF SupEscalate
<1>20. ASSUME NEW s \in Sid, SupRemove(s) PROVE TypeOK'
  BY <1>20, Zenon DEF SupRemove
<1>21. ASSUME NEW s \in Sid, SupStop(s) PROVE TypeOK'
  <2>1. dir' \in [Name -> Seq(Socket)]
    BY <1>21, DirTypes, Zenon DEF SupStop
  <2>2. stops' \in [Sid -> Nat] /\ tmpfs' \in [Sid -> BOOLEAN]
    BY <1>21 DEF SupStop
  <2> QED BY <1>21, <2>1, <2>2, Zenon DEF SupStop
<1>22. ASSUME NEW s \in Sid, SupCleanup(s) PROVE TypeOK'
  BY <1>22, DirTypes, Zenon DEF SupCleanup
<1>23. CASE UNCHANGED vars
  BY <1>23, Zenon DEF vars
<1> HIDE DEF TypeOK, Goto, registryVars, destroyVars, supVars
<1> QED
  BY <1>1, <1>2, <1>3, <1>4, <1>5, <1>6, <1>7, <1>8, <1>9, <1>10,
     <1>11, <1>12, <1>13, <1>14, <1>15, <1>16, <1>17, <1>18, <1>19,
     <1>20, <1>21, <1>22, <1>23, Zenon
  DEF Next, Running, CreateStep, DestroyStep, SupStep

\* The invariant without its types and its ledger.
Together == TasksAgree /\ RegisteredIsSupervised /\ UnregisteredIsKilled /\ NoOrphanProcess

\* Every step of every task keeps the tasks of an instance, the map and the
\* process together.
LEMMA TasksStep == IInv /\ TypeOK' /\ [Next]_vars => Together'
<1> SUFFICES ASSUME IInv, TypeOK', [Next]_vars PROVE Together'
  BY Zenon
<1> USE ConstantsAssumption DEF IInv, TypeOK, Goto, registryVars, destroyVars, supVars,
        Inserted, Registered, TasksAgree, RegisteredIsSupervised, UnregisteredIsKilled,
        NoOrphanProcess, Together
<1>1. ASSUME NEW s \in Sid, CreateCheck(s) PROVE Together'
  BY <1>1, SMTT(30) DEF CreateCheck
<1>2. ASSUME NEW s \in Sid, CreateMkdir(s) PROVE Together'
  BY <1>2, SMTT(30) DEF CreateMkdir
<1>3. ASSUME NEW s \in Sid, CreatePrepare(s) PROVE Together'
  BY <1>3, SMTT(30) DEF CreatePrepare
<1>4. ASSUME NEW s \in Sid, CreateSpawn(s) PROVE Together'
  BY <1>4, SMTT(30) DEF CreateSpawn
<1>5. ASSUME NEW s \in Sid, CreateSpawnFails(s) PROVE Together'
  BY <1>5, SMTT(30) DEF CreateSpawnFails
<1>6. ASSUME NEW s \in Sid, CreateReady(s) PROVE Together'
  BY <1>6, SMTT(30) DEF CreateReady
<1>7. ASSUME NEW s \in Sid, CreateAbandon(s) PROVE Together'
  BY <1>7, SMTT(30) DEF CreateAbandon
<1>8. ASSUME NEW s \in Sid, CreateInsert(s) PROVE Together'
  BY <1>8, SMTT(30) DEF CreateInsert
<1>9. ASSUME NEW s \in Sid, CreateLose(s) PROVE Together'
  BY <1>9, SMTT(30) DEF CreateLose
<1>10. ASSUME NEW s \in Sid, CreateAnnounce(s) PROVE Together'
  BY <1>10, SMTT(30) DEF CreateAnnounce
<1>11. ASSUME NEW s \in Sid, ProcReady(s) PROVE Together'
  BY <1>11, SMTT(30) DEF ProcReady
<1>12. ASSUME NEW s \in Sid, ProcExit(s) PROVE Together'
  BY <1>12, SMTT(30) DEF ProcExit
<1>13. ASSUME NEW n \in Name, DestroyRemove(n) PROVE Together'
  BY <1>13, SMTT(30) DEF DestroyRemove
<1>14. ASSUME NEW s \in Sid, DestroyStop(s) PROVE Together'
  BY <1>14, SMTT(30) DEF DestroyStop
<1>15. ASSUME NEW s \in Sid, DestroyKill(s) PROVE Together'
  BY <1>15, SMTT(30) DEF DestroyKill
<1>16. ASSUME NEW s \in Sid, DestroyUnmount(s) PROVE Together'
  BY <1>16, SMTT(30) DEF DestroyUnmount
<1>17. ASSUME NEW s \in Sid, SupExited(s) PROVE Together'
  BY <1>17, SMTT(30) DEF SupExited
<1>18. ASSUME NEW s \in Sid, SupKill(s) PROVE Together'
  BY <1>18, SMTT(30) DEF SupKill
<1>19. ASSUME NEW s \in Sid, SupEscalate(s) PROVE Together'
  BY <1>19, SMTT(30) DEF SupEscalate
<1>20. ASSUME NEW s \in Sid, SupRemove(s) PROVE Together'
  BY <1>20, SMTT(30) DEF SupRemove
<1>21. ASSUME NEW s \in Sid, SupStop(s) PROVE Together'
  BY <1>21, SMTT(30) DEF SupStop
<1>22. ASSUME NEW s \in Sid, SupCleanup(s) PROVE Together'
  BY <1>22, SMTT(30) DEF SupCleanup
<1>23. CASE UNCHANGED vars
  BY <1>23, SMTT(30) DEF vars
<1> HIDE DEF IInv, TypeOK, Goto, registryVars, destroyVars, supVars,
        Inserted, Registered, TasksAgree, RegisteredIsSupervised, UnregisteredIsKilled,
        NoOrphanProcess, Together
<1> QED
  BY <1>1, <1>2, <1>3, <1>4, <1>5, <1>6, <1>7, <1>8, <1>9, <1>10,
     <1>11, <1>12, <1>13, <1>14, <1>15, <1>16, <1>17, <1>18, <1>19,
     <1>20, <1>21, <1>22, <1>23, Zenon
  DEF Next, Running, CreateStep, DestroyStep, SupStep

\* Every step keeps the usage ledger; the agreement of the tasks tells who owes.
LEMMA LedgerStep == IInv /\ TypeOK' /\ [Next]_vars => StopLedger'
<1> SUFFICES ASSUME IInv, TypeOK', [Next]_vars PROVE StopLedger'
  BY Zenon
<1> USE ConstantsAssumption DEF IInv, TypeOK, Goto, registryVars, destroyVars, supVars,
        Inserted, Registered, OwedByDestroy, OwedBy, TasksAgree, RegisteredIsSupervised,
        StopLedger
<1>1. ASSUME NEW s \in Sid, CreateCheck(s) PROVE StopLedger'
  BY <1>1, SMTT(30) DEF CreateCheck
<1>2. ASSUME NEW s \in Sid, CreateMkdir(s) PROVE StopLedger'
  BY <1>2, SMTT(30) DEF CreateMkdir
<1>3. ASSUME NEW s \in Sid, CreatePrepare(s) PROVE StopLedger'
  BY <1>3, SMTT(30) DEF CreatePrepare
<1>4. ASSUME NEW s \in Sid, CreateSpawn(s) PROVE StopLedger'
  BY <1>4, SMTT(30) DEF CreateSpawn
<1>5. ASSUME NEW s \in Sid, CreateSpawnFails(s) PROVE StopLedger'
  BY <1>5, SMTT(30) DEF CreateSpawnFails
<1>6. ASSUME NEW s \in Sid, CreateReady(s) PROVE StopLedger'
  BY <1>6, SMTT(30) DEF CreateReady
<1>7. ASSUME NEW s \in Sid, CreateAbandon(s) PROVE StopLedger'
  BY <1>7, SMTT(30) DEF CreateAbandon
<1>8. ASSUME NEW s \in Sid, CreateInsert(s) PROVE StopLedger'
  BY <1>8, SMTT(30) DEF CreateInsert
<1>9. ASSUME NEW s \in Sid, CreateLose(s) PROVE StopLedger'
  BY <1>9, SMTT(30) DEF CreateLose
<1>10. ASSUME NEW s \in Sid, CreateAnnounce(s) PROVE StopLedger'
  BY <1>10, SMTT(30) DEF CreateAnnounce
<1>11. ASSUME NEW s \in Sid, ProcReady(s) PROVE StopLedger'
  BY <1>11, SMTT(30) DEF ProcReady
<1>12. ASSUME NEW s \in Sid, ProcExit(s) PROVE StopLedger'
  BY <1>12, SMTT(30) DEF ProcExit
<1>13. ASSUME NEW n \in Name, DestroyRemove(n) PROVE StopLedger'
  BY <1>13, SMTT(30) DEF DestroyRemove
<1>14. ASSUME NEW s \in Sid, DestroyStop(s) PROVE StopLedger'
  BY <1>14, SMTT(30) DEF DestroyStop
<1>15. ASSUME NEW s \in Sid, DestroyKill(s) PROVE StopLedger'
  BY <1>15, SMTT(30) DEF DestroyKill
<1>16. ASSUME NEW s \in Sid, DestroyUnmount(s) PROVE StopLedger'
  BY <1>16, SMTT(30) DEF DestroyUnmount
<1>17. ASSUME NEW s \in Sid, SupExited(s) PROVE StopLedger'
  BY <1>17, SMTT(30) DEF SupExited
<1>18. ASSUME NEW s \in Sid, SupKill(s) PROVE StopLedger'
  BY <1>18, SMTT(30) DEF SupKill
<1>19. ASSUME NEW s \in Sid, SupEscalate(s) PROVE StopLedger'
  BY <1>19, SMTT(30) DEF SupEscalate
<1>20. ASSUME NEW s \in Sid, SupRemove(s) PROVE StopLedger'
  BY <1>20, SMTT(30) DEF SupRemove
<1>21. ASSUME NEW s \in Sid, SupStop(s) PROVE StopLedger'
  BY <1>21, SMTT(30) DEF SupStop
<1>22. ASSUME NEW s \in Sid, SupCleanup(s) PROVE StopLedger'
  BY <1>22, SMTT(30) DEF SupCleanup
<1>23. CASE UNCHANGED vars
  BY <1>23, SMTT(30) DEF vars
<1> HIDE DEF IInv, TypeOK, Goto, registryVars, destroyVars, supVars,
        Inserted, Registered, OwedByDestroy, OwedBy, TasksAgree, RegisteredIsSupervised,
        StopLedger
<1> QED
  BY <1>1, <1>2, <1>3, <1>4, <1>5, <1>6, <1>7, <1>8, <1>9, <1>10,
     <1>11, <1>12, <1>13, <1>14, <1>15, <1>16, <1>17, <1>18, <1>19,
     <1>20, <1>21, <1>22, <1>23, Zenon
  DEF Next, Running, CreateStep, DestroyStep, SupStep

\* Every step of every task keeps the inductive invariant.
LEMMA InvStep == IInv /\ TypeOK' /\ [Next]_vars => IInv'
BY TasksStep, LedgerStep, Zenon DEF IInv, Together

\* The inductive invariant holds in every reachable state of the registry.
THEOREM Invariance == Spec => []IInv
<1>1. Init => IInv
  BY ConstantsAssumption DEF Init, IInv, TypeOK, Inserted, Registered,
     OwedByDestroy, OwedBy, TasksAgree, RegisteredIsSupervised,
     UnregisteredIsKilled, NoOrphanProcess, StopLedger
<1>2. IInv /\ [Next]_vars => IInv'
  BY TypeStep, InvStep, Zenon DEF IInv
<1> QED BY <1>1, <1>2, PTL DEF Spec

\* The variables of the registry keep their types.
THEOREM TypeCorrect == Spec => []TypeOK
BY Invariance, PTL DEF IInv

\* Every registered session has a supervisor that still watches its process
\* and that nobody has told to kill it (create() and the map lock).
THEOREM RegisteredSupervised == Spec => []RegisteredIsSupervised
BY Invariance, PTL DEF IInv

\* A session that left the map is on its way out, whoever removed it.
THEOREM UnregisteredKilled == Spec => []UnregisteredIsKilled
BY Invariance, PTL DEF IInv

\* Every live session process has a task waiting for it.
THEOREM NoOrphan == Spec => []NoOrphanProcess
BY Invariance, PTL DEF IInv

\* Every session_start is matched by exactly one session_stop, owed by
\* exactly one task from the removal of the entry until it is written.
THEOREM ExactlyOneStop == Spec => []StopLedger
BY Invariance, PTL DEF IInv

-----------------------------------------------------------------------------
\* How one instance's stage changes in SessionLifecycle.
LEMMA BecomesByPoints ==
    ASSUME NEW s \in Sid, NEW stage,
           \A r \in Sid : (lifeOf[r])' = IF r = s THEN stage ELSE lifeOf[r]
    PROVE  Lifecycle!Become(s, stage)
<1>1. lifeOf = [r \in Sid |-> lifeOf[r]] /\ lifeOf' = [r \in Sid |-> (lifeOf[r])']
  BY Zenon DEF lifeOf
<1> QED BY <1>1, Zenon DEF Lifecycle!Become

\* Each step of the registry is a step of SessionLifecycle or changes
\* nothing in it.
LEMMA LifecycleStep == IInv /\ IInv' /\ [Next]_vars => [Lifecycle!Next]_lifeOf
<1> SUFFICES ASSUME IInv, IInv', [Next]_vars PROVE [Lifecycle!Next]_lifeOf
  BY Zenon
<1> USE ConstantsAssumption DEF IInv, TypeOK, Goto, registryVars, destroyVars, supVars,
        Inserted, Registered, lifeOf
<1>1. ASSUME NEW s \in Sid, CreateCheck(s) PROVE UNCHANGED lifeOf
  BY <1>1, Zenon DEF CreateCheck
<1>2. ASSUME NEW s \in Sid, CreateMkdir(s) PROVE UNCHANGED lifeOf
  BY <1>2, Zenon DEF CreateMkdir
<1>3. ASSUME NEW s \in Sid, CreatePrepare(s) PROVE UNCHANGED lifeOf
  BY <1>3, Zenon DEF CreatePrepare
<1>4. ASSUME NEW s \in Sid, CreateSpawn(s) PROVE UNCHANGED lifeOf
  BY <1>4, Zenon DEF CreateSpawn
<1>5. ASSUME NEW s \in Sid, CreateSpawnFails(s) PROVE UNCHANGED lifeOf
  BY <1>5, Zenon DEF CreateSpawnFails
<1>6. ASSUME NEW s \in Sid, CreateReady(s) PROVE UNCHANGED lifeOf
  BY <1>6, Zenon DEF CreateReady
<1>7. ASSUME NEW s \in Sid, CreateAbandon(s) PROVE UNCHANGED lifeOf
  BY <1>7, Zenon DEF CreateAbandon
<1>8. ASSUME NEW s \in Sid, CreateInsert(s) PROVE Lifecycle!Next
  <2>1. \A r \in Sid : (lifeOf[r])' = IF r = s THEN "live" ELSE lifeOf[r]
    BY <1>8 DEF CreateInsert, RegisteredIsSupervised
  <2>2. lifeOf[s] = "absent" /\ \A r \in Sid : NameOf[r] = NameOf[s] => lifeOf[r] # "live"
    BY <1>8 DEF CreateInsert
  <2>3. Lifecycle!Start(s)
    BY <2>1, <2>2, BecomesByPoints DEF Lifecycle!Start
  <2> QED BY <2>3, Zenon DEF Lifecycle!Next
<1>9. ASSUME NEW s \in Sid, CreateLose(s) PROVE UNCHANGED lifeOf
  BY <1>9, Zenon DEF CreateLose
<1>10. ASSUME NEW s \in Sid, CreateAnnounce(s) PROVE UNCHANGED lifeOf
  BY <1>10, Zenon DEF CreateAnnounce
<1>11. ASSUME NEW s \in Sid, ProcReady(s) PROVE UNCHANGED lifeOf
  BY <1>11, Zenon DEF ProcReady
<1>12. ASSUME NEW s \in Sid, ProcExit(s) PROVE UNCHANGED lifeOf
  BY <1>12, Zenon DEF ProcExit
<1>13. ASSUME NEW n \in Name, DestroyRemove(n) PROVE Lifecycle!Next
  <2>1. PICK s \in Sid : /\ sessions[n] = s /\ NameOf[s] = n
                        /\ Inserted(s) /\ stops[s] = 0
    BY <1>13 DEF DestroyRemove, RegisteredIsSupervised, StopLedger
  <2>2. \A r \in Sid : (lifeOf[r])' = IF r = s THEN "leaving" ELSE lifeOf[r]
    BY <1>13, <2>1 DEF DestroyRemove
  <2>3. Lifecycle!Leave(s)
    BY <2>1, <2>2, BecomesByPoints DEF Lifecycle!Leave
  <2> QED BY <2>3, Zenon DEF Lifecycle!Next
<1>14. ASSUME NEW s \in Sid, DestroyStop(s) PROVE Lifecycle!Next
  <2>1. ~Registered(s) /\ Inserted(s) /\ stops[s] = 0
    BY <1>14, Zenon DEF DestroyStop, StopLedger, OwedByDestroy, TasksAgree
  <2>2. \A r \in Sid : (lifeOf[r])' = IF r = s THEN "stopped" ELSE lifeOf[r]
    BY <1>14, <2>1 DEF DestroyStop
  <2>3. Lifecycle!Stop(s)
    BY <2>1, <2>2, BecomesByPoints DEF Lifecycle!Stop
  <2> QED BY <2>3, Zenon DEF Lifecycle!Next
<1>15. ASSUME NEW s \in Sid, DestroyKill(s) PROVE UNCHANGED lifeOf
  BY <1>15, Zenon DEF DestroyKill
<1>16. ASSUME NEW s \in Sid, DestroyUnmount(s) PROVE UNCHANGED lifeOf
  BY <1>16, Zenon DEF DestroyUnmount
<1>17. ASSUME NEW s \in Sid, SupExited(s) PROVE UNCHANGED lifeOf
  BY <1>17, Zenon DEF SupExited
<1>18. ASSUME NEW s \in Sid, SupKill(s) PROVE UNCHANGED lifeOf
  BY <1>18, Zenon DEF SupKill
<1>19. ASSUME NEW s \in Sid, SupEscalate(s) PROVE UNCHANGED lifeOf
  BY <1>19, Zenon DEF SupEscalate
<1>20. ASSUME NEW s \in Sid, SupRemove(s) PROVE Lifecycle!Next \/ UNCHANGED lifeOf
  <2>1. CASE sessions[NameOf[s]] = None
    BY <1>20, <2>1 DEF SupRemove
  <2>2. CASE sessions[NameOf[s]] # None
    <3>1. PICK e \in Sid : /\ sessions[NameOf[s]] = e /\ NameOf[e] = NameOf[s]
                          /\ Inserted(e) /\ stops[e] = 0
      BY <2>2 DEF RegisteredIsSupervised, StopLedger
    <3>2. \A r \in Sid : (lifeOf[r])' = IF r = e THEN "leaving" ELSE lifeOf[r]
      BY <1>20, <3>1 DEF SupRemove
    <3>3. Lifecycle!Leave(e)
      BY <3>1, <3>2, BecomesByPoints DEF Lifecycle!Leave
    <3> QED BY <3>3, Zenon DEF Lifecycle!Next
  <2> QED BY <2>1, <2>2, Zenon
<1>21. ASSUME NEW s \in Sid, SupStop(s) PROVE Lifecycle!Next \/ UNCHANGED lifeOf
  <2>1. CASE taken[s] = None
    BY <1>21, <2>1 DEF SupStop
  <2>2. CASE taken[s] # None
    <3>1. PICK e \in Sid : /\ taken[s] = e /\ ~Registered(e)
                          /\ Inserted(e) /\ stops[e] = 0
      BY <1>21, <2>2, SMTT(30) DEF SupStop, StopLedger, OwedBy, TasksAgree
    <3>2. \A r \in Sid : (lifeOf[r])' = IF r = e THEN "stopped" ELSE lifeOf[r]
      BY <1>21, <3>1, SMTT(30) DEF SupStop
    <3>3. Lifecycle!Stop(e)
      BY <3>1, <3>2, BecomesByPoints DEF Lifecycle!Stop
    <3> QED BY <3>3, Zenon DEF Lifecycle!Next
  <2> QED BY <2>1, <2>2, Zenon
<1>22. ASSUME NEW s \in Sid, SupCleanup(s) PROVE UNCHANGED lifeOf
  BY <1>22, Zenon DEF SupCleanup
<1>23. CASE UNCHANGED vars
  BY <1>23 DEF vars
<1> HIDE DEF IInv, TypeOK, Goto, registryVars, destroyVars, supVars, Inserted,
         Registered, lifeOf
<1> QED
  BY <1>1, <1>2, <1>3, <1>4, <1>5, <1>6, <1>7, <1>8, <1>9, <1>10,
     <1>11, <1>12, <1>13, <1>14, <1>15, <1>16, <1>17, <1>18, <1>19,
     <1>20, <1>21, <1>22, <1>23, Zenon
  DEF Next, Running, CreateStep, DestroyStep, SupStep

\* The registry implements the safety part of SessionLifecycle: an instance
\* lives once, alone under its name, and is stopped once.
THEOREM Refinement == Spec => Lifecycle!Safety
<1>1. Init => Lifecycle!Init
  BY Zenon DEF Init, Lifecycle!Init, lifeOf, Inserted
<1>2. IInv /\ IInv' /\ [Next]_vars => [Lifecycle!Next]_lifeOf
  BY LifecycleStep, Zenon
<1> QED BY <1>1, <1>2, Invariance, PTL DEF Spec, Lifecycle!Safety

-----------------------------------------------------------------------------

\* What one step of create(), destroy() or a supervisor can do to an inserted
\* instance: it stays inserted, is never registered again, and its session_stop
\* is owed by a supervisor only if it was registered or owed by it before.
LEMMA InsertedStep ==
    ASSUME IInv, Next, NEW s \in Sid, Inserted(s)
    PROVE  /\ Inserted(s)'
           /\ Registered(s)' => Registered(s)
           /\ \A r \in Sid : OwedBy(r, s)' => OwedBy(r, s) \/ Registered(s)
<1> DEFINE Goal == /\ Inserted(s)'
                   /\ Registered(s)' => Registered(s)
                   /\ \A r \in Sid : OwedBy(r, s)' => OwedBy(r, s) \/ Registered(s)
<1> USE ConstantsAssumption DEF IInv, TypeOK, Goto, registryVars, destroyVars, supVars,
        Inserted, Registered, OwedBy, TasksAgree
<1>1. ASSUME NEW q \in Sid, CreateCheck(q) \/ CreateMkdir(q) PROVE Goal
  BY <1>1 DEF CreateCheck, CreateMkdir
<1>2. ASSUME NEW q \in Sid, CreatePrepare(q) PROVE Goal
  BY <1>2 DEF CreatePrepare
<1>3. ASSUME NEW q \in Sid, CreateSpawn(q) \/ CreateSpawnFails(q) PROVE Goal
  BY <1>3 DEF CreateSpawn, CreateSpawnFails
<1>4. ASSUME NEW q \in Sid, CreateReady(q) \/ CreateAbandon(q) PROVE Goal
  BY <1>4 DEF CreateReady, CreateAbandon
<1>5. ASSUME NEW q \in Sid, CreateInsert(q) PROVE Goal
  BY <1>5 DEF CreateInsert
<1>6. ASSUME NEW q \in Sid, CreateLose(q) \/ CreateAnnounce(q) PROVE Goal
  BY <1>6 DEF CreateLose, CreateAnnounce
<1>7. ASSUME NEW q \in Sid, ProcReady(q) \/ ProcExit(q) PROVE Goal
  BY <1>7, Zenon DEF ProcReady, ProcExit
<1>8. ASSUME NEW n \in Name, DestroyRemove(n) PROVE Goal
  BY <1>8 DEF DestroyRemove
<1>9. ASSUME NEW q \in Sid, DestroyStep(q) PROVE Goal
  BY <1>9, Zenon DEF DestroyStep, DestroyStop, DestroyKill, DestroyUnmount
<1>10. ASSUME NEW q \in Sid, SupExited(q) \/ SupKill(q) \/ SupEscalate(q) PROVE Goal
  BY <1>10 DEF SupExited, SupKill, SupEscalate
<1>11. ASSUME NEW q \in Sid, SupRemove(q) PROVE Goal
  BY <1>11, SMTT(30) DEF SupRemove, RegisteredIsSupervised
<1>12. ASSUME NEW q \in Sid, SupStop(q) \/ SupCleanup(q) PROVE Goal
  BY <1>12 DEF SupStop, SupCleanup
<1> HIDE DEF IInv, TypeOK, Goto, registryVars, destroyVars, supVars, Inserted,
         Registered, OwedBy, TasksAgree
<1> QED
  BY <1>1, <1>2, <1>3, <1>4, <1>5, <1>6, <1>7, <1>8, <1>9, <1>10, <1>11, <1>12, Zenon
  DEF Next, Running, CreateStep, SupStep

\* Every step of the daemon, its tasks and its shutdown keeps the invariant.
LEMMA ShutStep == ShutInv /\ [ShutNext]_allVars => ShutInv'
<1> SUFFICES ASSUME ShutInv, [ShutNext]_allVars PROVE ShutInv'
  BY Zenon
<1> USE DEF ShutInv, KnownAreStopped, NoneOutlivesDaemon
<1>0. [Next]_vars => IInv'
  BY TypeStep, InvStep, Zenon DEF IInv
<1>1. CASE Serving(Next)
  <2>1. Next
    BY <1>1, Zenon DEF Serving
  <2>2. UNCHANGED shutVars /\ downPc # "exited"
    BY <1>1, Zenon DEF Serving
  <2>3. \A s \in known : /\ Inserted(s)'
                         /\ Registered(s)' => Registered(s)
                         /\ \A r \in Sid : OwedBy(r, s)' => OwedBy(r, s) \/ Registered(s)
    BY <2>1, InsertedStep, Zenon
  <2> QED BY <1>0, <2>1, <2>2, <2>3, Zenon DEF shutVars
<1>2. ASSUME NEW s \in Sid, ForwarderEof(s) PROVE ShutInv'
  <2>1. UNCHANGED vars /\ UNCHANGED shutVars
    BY <1>2, Zenon DEF ForwarderEof
  <2>2. IInv'
    BY <1>0, <2>1, Zenon
  <2> QED BY <2>1, <2>2, Zenon DEF vars, shutVars, Inserted, Registered, OwedBy, OwedByDestroy
<1>3. CASE Signal
  <2>1. UNCHANGED vars
    BY <1>3, Zenon DEF Signal
  <2>2. IInv'
    BY <1>0, <2>1, Zenon
  <2> QED BY <1>3, <2>1, <2>2, ConstantsAssumption
      DEF Signal, vars, Inserted, Registered, IInv, RegisteredIsSupervised, TypeOK
<1>4. ASSUME NEW n \in Name, ShutdownDestroy(n) PROVE ShutInv'
  <2>1. CASE sessions[n] = None
    <3>1. UNCHANGED vars
      BY <1>4, <2>1, Zenon DEF ShutdownDestroy
    <3>2. IInv'
      BY <1>0, <3>1, Zenon
    <3> QED BY <1>4, <2>1, <3>1, <3>2, ConstantsAssumption, Zenon
        DEF ShutdownDestroy, vars, Inserted, Registered
  <2>2. CASE sessions[n] # None
    <3>1. DestroyRemove(n)
      BY <1>4, <2>2, Zenon DEF ShutdownDestroy
    <3>2. IInv' /\ \A s \in known : Inserted(s)' /\ (Registered(s)' => Registered(s))
      BY <1>0, <3>1, InsertedStep, Zenon DEF Next
    <3>3. \A s \in known : Registered(s)' => NameOf[s] # n
      BY <3>1, ConstantsAssumption, ZenonT(30) DEF DestroyRemove, Registered, IInv, TypeOK
    <3> QED BY <1>4, <3>2, <3>3, Zenon DEF ShutdownDestroy
  <2> QED BY <2>1, <2>2, Zenon
<1>5. CASE TakeHandles
  <2>1. UNCHANGED vars
    BY <1>5, Zenon DEF TakeHandles
  <2>2. IInv'
    BY <1>0, <2>1, Zenon
  <2> QED BY <1>5, <2>1, <2>2
      DEF TakeHandles, vars, Inserted, Registered, OwedBy, IInv, TasksAgree
<1>6. CASE Exit
  <2>1. IInv'
    BY <1>6 DEF Exit, IInv, TypeOK, TasksAgree, RegisteredIsSupervised, UnregisteredIsKilled,
       NoOrphanProcess, StopLedger, Inserted, Registered, OwedBy, OwedByDestroy
  <2>2. \A s \in Sid : proc'[s] \in {"none", "dead"}
    BY <1>6, Zenon DEF Exit, DroppedWithTask, IInv, TypeOK, NoOrphanProcess
  <2>3. ASSUME NEW s \in known PROVE stops[s] = 1 \/ OwedByDestroy(s)
    <3>1. ~Registered(s) /\ Inserted(s)
      BY <1>6, Zenon DEF Exit, Awaited
    <3>2. ASSUME NEW r \in Sid PROVE ~OwedBy(r, s)
      BY <1>6, Zenon DEF Exit, Awaited, LeftAlone, OwedBy
    <3> QED BY <3>1, <3>2, Zenon DEF IInv, StopLedger
  <2> QED BY <1>6, <2>1, <2>2, <2>3, Zenon DEF Exit, Inserted, OwedByDestroy
<1>7. CASE UNCHANGED allVars
  <2>1. UNCHANGED vars /\ UNCHANGED shutVars
    BY <1>7, Zenon DEF allVars
  <2>2. IInv'
    BY <1>0, <2>1, Zenon
  <2> QED BY <2>1, <2>2, Zenon DEF vars, shutVars, Inserted, Registered, OwedBy, OwedByDestroy
<1> HIDE DEF ShutInv, KnownAreStopped, NoneOutlivesDaemon
<1> QED BY <1>1, <1>2, <1>3, <1>4, <1>5, <1>6, <1>7, Zenon DEF ShutNext

\* The shutdown's invariant holds when the daemon starts.
LEMMA ShutInitially == ShutInit => ShutInv
<1>1. Init => IInv
  BY ConstantsAssumption DEF Init, IInv, TypeOK, Inserted, Registered,
     OwedByDestroy, OwedBy, TasksAgree, RegisteredIsSupervised,
     UnregisteredIsKilled, NoOrphanProcess, StopLedger
<1> QED BY <1>1, Zenon DEF ShutInit, ShutInv, KnownAreStopped, NoneOutlivesDaemon

\* The shutdown's invariant holds in every reachable state of the daemon.
THEOREM ShutInvariance == ShutSpec => []ShutInv
BY ShutInitially, ShutStep, PTL DEF ShutSpec

\* When the daemon has exited every session inserted before the signal has its
\* session_stop, unless a client's destroy() was about to write it: awaiting the
\* supervisors up to the deadline is enough, whoever removed the entries.
THEOREM KnownStopped == ShutSpec => []KnownAreStopped
BY ShutInvariance, PTL DEF ShutInv

\* kill_on_drop reaches every session process: the task that owns the Child is
\* always there to be dropped.
THEOREM NoneOutlives == ShutSpec => []NoneOutlivesDaemon
BY ShutInvariance, PTL DEF ShutInv

-----------------------------------------------------------------------------
\* A socket that is bound or removed leaves the other one alone.
LEMMA Bound ==
    ASSUME NEW d \in Seq(Socket), Exists(d), NEW s \in Sid \cup {None}
    PROVE  /\ Exists(BindReady(d, s)) /\ Top(BindReady(d, s)).inner = Top(d).inner
           /\ Exists(BindInner(d, s)) /\ Top(BindInner(d, s)).inner = s
<1>1. Top(d) \in Socket
  BY DirTypes, Zenon
<1>2. \A x \in Socket : Exists(WithTop(d, x)) /\ Top(WithTop(d, x)) = x
  BY DEF WithTop, Exists, Top
<1>3. /\ [Top(d) EXCEPT !.ready = s] \in Socket /\ [Top(d) EXCEPT !.inner = s] \in Socket
      /\ [Top(d) EXCEPT !.ready = s].inner = Top(d).inner
      /\ [Top(d) EXCEPT !.inner = s].inner = s
  BY <1>1, Zenon DEF Socket
<1> QED BY <1>2, <1>3, Zenon DEF BindReady, BindInner

\* Only the first look at the map unsettles an instance, one at a time.
LEMMA UnsettledByCheck ==
    ASSUME IInv, Next
    PROVE  \E q \in Sid : \A s \in Sid : Settled(s) /\ ~Settled(s)' =>
              s = q /\ createPc[s] = "idle" /\ createPc'[s] # "idle"
<1> DEFINE Only(q) == \A s \in Sid : Settled(s) /\ ~Settled(s)' =>
                         s = q /\ createPc[s] = "idle" /\ createPc'[s] # "idle"
<1> USE ConstantsAssumption DEF IInv, TypeOK, Goto, registryVars, destroyVars, supVars, Settled
<1>1. ASSUME NEW q \in Sid, CreateCheck(q) PROVE Only(q)
  BY <1>1, Zenon DEF CreateCheck
<1>2. ASSUME NEW q \in Sid, CreateMkdir(q) \/ CreateSpawn(q) \/ CreateSpawnFails(q) PROVE Only(q)
  BY <1>2 DEF CreateMkdir, CreateSpawn, CreateSpawnFails
<1>3. ASSUME NEW q \in Sid, CreatePrepare(q) PROVE Only(q)
  BY <1>3, Zenon DEF CreatePrepare
<1>4. ASSUME NEW q \in Sid, CreateReady(q) \/ CreateAbandon(q) \/ CreateInsert(q) PROVE Only(q)
  BY <1>4 DEF CreateReady, CreateAbandon, CreateInsert
<1>5. ASSUME NEW q \in Sid, CreateLose(q) \/ CreateAnnounce(q) PROVE Only(q)
  BY <1>5, ZenonT(30) DEF CreateLose, CreateAnnounce
<1>6. ASSUME NEW q \in Sid, ProcReady(q) \/ ProcExit(q) PROVE Only(q)
  BY <1>6, Zenon DEF ProcReady, ProcExit
<1>7. ASSUME NEW n \in Name, DestroyRemove(n) PROVE \E q \in Sid : Only(q)
  <2>1. sessions[n] \in Sid /\ supPc[sessions[n]] \in {"watch", "exited"}
    BY <1>7 DEF DestroyRemove, RegisteredIsSupervised
  <2>2. Only(sessions[n])
    BY <1>7, <2>1, Zenon DEF DestroyRemove
  <2> QED BY <2>1, <2>2, Zenon
<1>8. ASSUME NEW q \in Sid, DestroyStep(q) PROVE Only(q)
  BY <1>8 DEF DestroyStep, DestroyStop, DestroyKill, DestroyUnmount
<1>9. ASSUME NEW q \in Sid, SupExited(q) \/ SupKill(q) \/ SupEscalate(q) PROVE Only(q)
  BY <1>9, SMTT(30) DEF SupExited, SupKill, SupEscalate
<1>10. ASSUME NEW q \in Sid, SupRemove(q) \/ SupStop(q) \/ SupCleanup(q) PROVE Only(q)
  BY <1>10 DEF SupRemove, SupStop, SupCleanup
<1> HIDE DEF IInv, TypeOK, Goto, registryVars, destroyVars, supVars, Settled
<1> QED
  BY <1>1, <1>2, <1>3, <1>4, <1>5, <1>6, <1>7, <1>8, <1>9, <1>10, Zenon
  DEF Next, Running, CreateStep, SupStep

\* Every step of the registry that a patient client lets happen keeps its
\* invariant.
LEMMA PatientStep == PatientInv /\ IInv' /\ [Next]_vars /\ Patiently => PatientInv'
<1> DEFINE Alone   == \A r, s \in Sid : NameOf[r] = NameOf[s] /\ ~Settled(r) /\ ~Settled(s) => r = s
           Own     == \A s \in Sid : taken[s] # None => taken[s] = s /\ destroyPc[s] = "none"
           Dropped == \A s \in Sid : killTx[s] = "dropped" =>
                         supPc[s] \in {"removed", "stopped", "done"}
           Visible == \A s \in Sid : proc[s] = "running" /\ destroyPc[s] # "done" =>
                         Exists(dir[NameOf[s]]) /\ Top(dir[NameOf[s]]).inner = s
<1> SUFFICES ASSUME PatientInv, IInv', [Next]_vars, Patiently
             PROVE  Alone' /\ Own' /\ Dropped' /\ Visible'
  BY Zenon DEF PatientInv
<1>0. IInv /\ Alone /\ Own /\ Dropped /\ Visible
  BY ZenonT(30) DEF PatientInv
<1>u. CASE UNCHANGED vars
  BY <1>0, <1>u DEF vars, Settled
<1> SUFFICES ASSUME Next
             PROVE  Alone' /\ Own' /\ Dropped' /\ Visible'
  BY <1>u, ZenonT(30)
<1>1. Alone'
  <2>1. PICK q \in Sid : \A s \in Sid : Settled(s) /\ ~Settled(s)' =>
           s = q /\ createPc[s] = "idle" /\ createPc'[s] # "idle"
    BY <1>0, UnsettledByCheck, Zenon
  <2> QED BY <1>0, <2>1 DEF Patiently
<1>2. \A s \in Sid : proc[s] \in {"starting", "running"} => ~Settled(s)
  BY <1>0, Zenon DEF IInv, NoOrphanProcess, Settled
<1>3. ASSUME NEW s \in Sid, supPc[s] = "exited", sessions[NameOf[s]] # None
      PROVE  sessions[NameOf[s]] = s
  <2>1. /\ sessions[NameOf[s]] \in Sid /\ NameOf[sessions[NameOf[s]]] = NameOf[s]
        /\ supPc[sessions[NameOf[s]]] \in {"watch", "exited"}
    BY <1>0, <1>3, ConstantsAssumption DEF IInv, TypeOK, RegisteredIsSupervised
  <2>2. ~Settled(s) /\ ~Settled(sessions[NameOf[s]])
    BY <1>3, <2>1, Zenon DEF Settled
  <2> QED BY <1>0, <2>1, <2>2, ZenonT(30)
<1>4. Own' /\ Dropped'
  <2>0. TypeOK /\ TasksAgree /\ RegisteredIsSupervised /\ Own /\ Dropped
    BY <1>0, Zenon DEF IInv
  <2>q. ASSUME UNCHANGED <<taken, killTx, destroyPc, supPc>> PROVE Own' /\ Dropped'
    BY <2>0, <2>q, Zenon
  <2>1. ASSUME NEW q \in Sid, CreateStep(q) \/ CreateCheck(q), ~CreateInsert(q) PROVE Own' /\ Dropped'
    BY <2>1, <2>q, Zenon DEF CreateStep, CreateCheck, CreateMkdir, CreatePrepare, CreateSpawn,
       CreateSpawnFails, CreateReady, CreateAbandon, CreateLose, CreateAnnounce,
       registryVars, destroyVars, supVars
  <2>2. ASSUME NEW q \in Sid, ProcReady(q) \/ ProcExit(q) PROVE Own' /\ Dropped'
    BY <2>2, <2>q, Zenon DEF ProcReady, ProcExit, registryVars, destroyVars, supVars
  <2> USE DEF TypeOK, TasksAgree, Goto, registryVars, destroyVars, supVars
  <2>3. ASSUME NEW q \in Sid, CreateInsert(q) PROVE Own' /\ Dropped'
    BY <2>0, <2>3, SMTT(30) DEF CreateInsert, Inserted
  <2>4. ASSUME NEW n \in Name, DestroyRemove(n) PROVE Own' /\ Dropped'
    BY <2>0, <2>4, SMTT(30) DEF DestroyRemove, RegisteredIsSupervised
  <2>5. ASSUME NEW q \in Sid, DestroyStep(q) PROVE Own' /\ Dropped'
    BY <2>0, <2>5 DEF DestroyStep, DestroyStop, DestroyKill, DestroyUnmount
  <2>6. ASSUME NEW q \in Sid, SupExited(q) \/ SupKill(q) \/ SupEscalate(q) PROVE Own' /\ Dropped'
    <3>1. supPc[q] \in {"watch", "term"} /\ UNCHANGED <<taken, killTx, destroyPc>>
      BY <2>6, Zenon DEF SupExited, SupKill, SupEscalate
    <3>2. killTx[q] # "dropped"
      BY <2>0, <3>1, Zenon
    <3>3. \A r \in Sid : r # q => supPc'[r] = supPc[r]
      BY <2>0, <2>6, SMTT(30) DEF SupExited, SupKill, SupEscalate
    <3> QED BY <2>0, <3>1, <3>2, <3>3, Zenon
  <2>7. ASSUME NEW q \in Sid, SupRemove(q) PROVE Own' /\ Dropped'
    <3>1. /\ \A r \in Sid : r # q => supPc'[r] = supPc[r] /\ taken'[r] = taken[r]
          /\ supPc'[q] = "removed" /\ taken'[q] = sessions[NameOf[q]] /\ destroyPc' = destroyPc
          /\ \A r \in Sid : r # sessions[NameOf[q]] => killTx'[r] = killTx[r]
      BY <2>0, <2>7, SMTT(30) DEF SupRemove
    <3>2. sessions[NameOf[q]] # None => sessions[NameOf[q]] = q /\ destroyPc[q] = "none"
      <4>1. NameOf[q] \in Name /\ supPc[q] = "exited"
        BY <2>7, ConstantsAssumption, Zenon DEF SupRemove
      <4> HIDE DEF TypeOK, TasksAgree
      <4> QED BY <1>3, <2>0, <4>1 DEF RegisteredIsSupervised
    <3>3. sessions[NameOf[q]] \in Sid \cup {None} /\ q # None
      BY <2>0, ConstantsAssumption
    <3> HIDE DEF TypeOK, TasksAgree
    <3> QED BY <2>0, <3>1, <3>2, <3>3, ConstantsAssumption, SMTT(30)
  <2>8. ASSUME NEW q \in Sid, SupStop(q) \/ SupCleanup(q) PROVE Own' /\ Dropped'
    <3>1. supPc'[q] \in {"stopped", "done"} /\ UNCHANGED <<taken, killTx, destroyPc>>
          /\ supPc' = [supPc EXCEPT ![q] = supPc'[q]]
      BY <2>0, <2>8 DEF SupStop, SupCleanup
    <3> QED BY <2>0, <3>1, SMTT(30)
  <2> HIDE DEF TypeOK, TasksAgree, Goto, registryVars, destroyVars, supVars, Own, Dropped
  <2> QED BY <2>1, <2>2, <2>3, <2>4, <2>5, <2>6, <2>7, <2>8, Zenon DEF Next, Running, SupStep
<1>5. Visible'
  <2> DEFINE Seen(s) == Exists(dir[NameOf[s]]) /\ Top(dir[NameOf[s]]).inner = s
             Needs(s) == proc[s] = "running" /\ destroyPc[s] # "done"
  <2>0. TypeOK /\ TasksAgree /\ NoOrphanProcess
    BY <1>0, Zenon DEF IInv
  <2>1. ASSUME UNCHANGED dir, \A s \in Sid : Needs(s)' => Needs(s) PROVE Visible'
    BY <1>0, <2>1, Zenon
  <2>2. ASSUME NEW q \in Sid, ~Settled(q), Needs(q)' => Seen(q)',
               \A m \in Name : m # NameOf[q] => dir'[m] = dir[m],
               \A s \in Sid : s # q => (Needs(s)' => Needs(s))
        PROVE  Visible'
    <3> SUFFICES ASSUME NEW s \in Sid, s # q, Needs(s)' PROVE Seen(s)'
      BY <2>2, Zenon
    <3>1. Needs(s) /\ Seen(s)
      BY <1>0, <2>2, Zenon
    <3>2. NameOf[s] # NameOf[q] /\ NameOf[s] \in Name
      BY <1>0, <1>2, <2>2, <3>1, ConstantsAssumption, Zenon
    <3>3. dir'[NameOf[s]] = dir[NameOf[s]]
      BY <2>2, <3>2, Zenon
    <3> QED BY <3>1, <3>3, Zenon
  <2> USE ConstantsAssumption
          DEF TypeOK, TasksAgree, Goto, registryVars, destroyVars, supVars, Settled
  <2>3. ASSUME NEW q \in Sid, CreateMkdir(q) \/ CreateSpawn(q) \/ CreateSpawnFails(q) PROVE Visible'
    <3>1. createPc[q] \in {"checked", "prepared"} /\ proc'[q] \in {proc[q], "starting"}
      BY <2>0, <2>3 DEF CreateMkdir, CreateSpawn, CreateSpawnFails
    <3>2. ~Settled(q) /\ proc'[q] # "running"
      <4>1. supPc[q] = "none" /\ ~Settled(q)
        BY <2>0, <3>1, Zenon DEF Inserted
      <4> HIDE DEF TypeOK, TasksAgree, Settled
      <4> QED BY <2>0, <3>1, <4>1, Zenon DEF NoOrphanProcess
    <3>3. /\ \A m \in Name : m # NameOf[q] => dir'[m] = dir[m]
          /\ \A s \in Sid : s # q => (Needs(s)' => Needs(s))
      BY <2>0, <2>3 DEF CreateMkdir, CreateSpawn, CreateSpawnFails
    <3> QED BY <2>2, <3>2, <3>3, Zenon
  <2>4. ASSUME NEW q \in Sid, CreatePrepare(q) PROVE Visible'
    <3>1. ~Settled(q) /\ proc'[q] # "running"
      BY <2>0, <2>4, Zenon DEF CreatePrepare, NoOrphanProcess, Inserted
    <3>2. /\ \A m \in Name : m # NameOf[q] => dir'[m] = dir[m]
          /\ \A s \in Sid : s # q => (Needs(s)' => Needs(s))
      BY <2>0, <2>4 DEF CreatePrepare
    <3> QED BY <2>2, <3>1, <3>2, Zenon
  <2>5. ASSUME NEW q \in Sid, CreateReady(q) PROVE Visible'
    <3>1. ~Settled(q) /\ UNCHANGED <<proc, destroyPc>>
      BY <2>5, Zenon DEF CreateReady
    <3>2. /\ \A m \in Name : m # NameOf[q] => dir'[m] = dir[m]
          /\ dir'[NameOf[q]] = BindReady(dir[NameOf[q]], None)
      BY <2>0, <2>5, SMTT(30) DEF CreateReady
    <3>3. Seen(q) => Seen(q)'
      BY <2>0, <3>2, Bound
    <3> QED BY <1>0, <2>2, <3>1, <3>2, <3>3, Zenon
  <2>6. ASSUME NEW q \in Sid, ProcReady(q) PROVE Visible'
    <3>1. ~Settled(q) /\ \A s \in Sid : s # q => (Needs(s)' => Needs(s))
      BY <1>2, <2>0, <2>6, SMTT(30) DEF ProcReady
    <3>2. /\ \A m \in Name : m # NameOf[q] => dir'[m] = dir[m]
          /\ dir'[NameOf[q]] = BindInner(dir[NameOf[q]], q)
          /\ proc'[q] = "running" => Exists(dir[NameOf[q]])
      BY <2>0, <2>6, SMTT(30) DEF ProcReady
    <3>3. Exists(dir[NameOf[q]]) => Seen(q)'
      BY <2>0, <3>2, Bound
    <3> QED BY <2>2, <3>1, <3>2, <3>3, ZenonT(30)
  <2>7. ASSUME NEW q \in Sid, DestroyUnmount(q) PROVE Visible'
    <3>1. ~Settled(q) /\ destroyPc'[q] = "done"
      BY <2>0, <2>7, SMTT(30) DEF DestroyUnmount
    <3>2. /\ \A m \in Name : m # NameOf[q] => dir'[m] = dir[m]
          /\ \A s \in Sid : s # q => (Needs(s)' => Needs(s))
      BY <2>0, <2>7 DEF DestroyUnmount
    <3> QED BY <2>2, <3>1, <3>2, Zenon
  <2>8. ASSUME NEW q \in Sid, SupStop(q) \/ SupCleanup(q) PROVE Visible'
    <3>1. supPc[q] \in {"removed", "stopped"} /\ proc' = proc
      BY <2>8, Zenon DEF SupStop, SupCleanup
    <3>2. ~Settled(q) /\ proc'[q] # "running"
      BY <2>0, <3>1, Zenon DEF NoOrphanProcess, Inserted
    <3>3. /\ \A m \in Name : m # NameOf[q] => dir'[m] = dir[m]
          /\ \A s \in Sid : s # q => (Needs(s)' => Needs(s))
      BY <2>0, <2>8 DEF SupStop, SupCleanup
    <3> QED BY <2>2, <3>2, <3>3, Zenon
  <2>9. ASSUME NEW q \in Sid, CreateCheck(q) \/ CreateInsert(q) \/ CreateAnnounce(q)
                              \/ SupExited(q) \/ SupKill(q) \/ SupRemove(q)
        PROVE Visible'
    BY <2>1, <2>9, Zenon
    DEF CreateCheck, CreateInsert, CreateAnnounce, SupExited, SupKill, SupRemove
  <2>10. ASSUME NEW q \in Sid, CreateAbandon(q) \/ CreateLose(q) \/ ProcExit(q) \/ SupEscalate(q)
         PROVE Visible'
    <3>1. UNCHANGED <<dir, destroyPc>> /\ proc' = [proc EXCEPT ![q] = "dead"]
      BY <2>10, Zenon DEF CreateAbandon, CreateLose, ProcExit, SupEscalate
    <3>2. \A s \in Sid : Needs(s)' => Needs(s)
      BY <2>0, <3>1
    <3> QED BY <2>1, <3>1, <3>2, Zenon
  <2>11. ASSUME NEW q \in Sid, DestroyStop(q) \/ DestroyKill(q) PROVE Visible'
    <3>1. UNCHANGED dir /\ \A s \in Sid : Needs(s)' => Needs(s)
      BY <2>0, <2>11 DEF DestroyStop, DestroyKill
    <3> QED BY <2>1, <3>1, Zenon
  <2>12. ASSUME NEW n \in Name, DestroyRemove(n) PROVE Visible'
    <3>1. UNCHANGED dir /\ \A s \in Sid : Needs(s)' => Needs(s)
      <4>1. /\ UNCHANGED <<dir, proc>> /\ sessions[n] # None
            /\ destroyPc' = [destroyPc EXCEPT ![sessions[n]] = "removed"]
        BY <2>12, Zenon DEF DestroyRemove
      <4>2. destroyPc = [s \in Sid |-> destroyPc[s]]
        BY <2>0
      <4> HIDE DEF TypeOK, TasksAgree, Settled
      <4>3. \A s \in Sid : s # sessions[n] => destroyPc'[s] = destroyPc[s]
        BY <4>1, <4>2, Zenon
      <4>4. destroyPc[sessions[n]] = "none"
        BY <1>0, <4>1, SMTT(30) DEF IInv, RegisteredIsSupervised
      <4> QED BY <4>1, <4>3, <4>4, Zenon
    <3> QED BY <2>1, <3>1, Zenon
  <2> HIDE DEF TypeOK, TasksAgree, Goto, registryVars, destroyVars, supVars, Settled, Visible
  <2> QED
    BY <2>3, <2>4, <2>5, <2>6, <2>7, <2>8, <2>9, <2>10, <2>11, <2>12, Zenon
    DEF Next, Running, CreateStep, DestroyStep, SupStep
<1> QED BY <1>1, <1>4, <1>5, Zenon

\* The registry of a patient client, and the daemon's shutdown beside it, never
\* leave the invariant: the exit only ends processes.
LEMMA PatientShutStep == ShutInv /\ PatientInv /\ [PatientNext]_allVars => PatientInv'
<1> SUFFICES ASSUME ShutInv, PatientInv, [PatientNext]_allVars PROVE PatientInv'
  BY Zenon
<1>0. IInv'
  BY ShutStep, Zenon DEF PatientNext, ShutInv
<1>1. CASE [Next]_vars /\ Patiently
  BY <1>0, <1>1, PatientStep, Zenon
<1>2. CASE Exit
  <2>1. /\ UNCHANGED <<sessions, killTx, createPc, destroyPc, supPc, taken, dir>>
        /\ \A s \in Sid : proc'[s] = "running" => proc[s] = "running"
    BY <1>2, Zenon DEF Exit
  <2>2. \A s \in Sid : Settled(s)' <=> Settled(s)
    BY <2>1, Zenon DEF Settled
  <2> QED BY <1>0, <2>1, <2>2, Zenon DEF PatientInv
<1>3. ASSUME UNCHANGED vars PROVE Patiently
  BY <1>3, Zenon DEF Patiently, vars
<1>4. ShutNext \/ UNCHANGED allVars => [Next]_vars \/ Exit
  BY Zenon
  DEF ShutNext, Serving, ForwarderEof, Signal, ShutdownDestroy, TakeHandles, allVars, Next
<1> QED BY <1>1, <1>2, <1>3, <1>4, Zenon DEF PatientNext, allVars

\* The patient client's invariant holds in every reachable state.
THEOREM PatientInvariance == PatientSpec => []PatientInv
<1>1. ShutInit => ShutInv /\ PatientInv
  <2>1. ShutInit => ShutInv
    BY ShutInitially, Zenon
  <2> QED BY <2>1 DEF ShutInit, Init, ShutInv, PatientInv, Settled
<1>2. ShutInv /\ PatientInv /\ [PatientNext]_allVars => (ShutInv /\ PatientInv)'
  BY ShutStep, PatientShutStep, Zenon DEF PatientNext
<1> QED BY <1>1, <1>2, PTL DEF PatientSpec

\* A client that waits for SessionDestroyed before it uses a name again is
\* served as the comments on destroy() and the supervisor say: the sockets of a
\* registered session whose process runs are its own, a supervisor that finds an
\* entry was not destroyed, and a dropped kill channel kills nobody.
THEOREM PatientServed == PatientSpec => []PatientClientIsServed
<1>1. RegisteredIsSupervised => \A s \in Sid : Registered(s) => destroyPc[s] = "none"
  BY ConstantsAssumption DEF RegisteredIsSupervised, Registered
<1>2. PatientInv => OwnSockets
  BY <1>1 DEF PatientInv, IInv, OwnSockets
<1>3. PatientInv => PresenceMeansNotDestroyed /\ DroppedKillIsHarmless
  BY Zenon DEF PatientInv, PresenceMeansNotDestroyed, DroppedKillIsHarmless
<1>4. PatientInv => PatientClientIsServed
  BY <1>2, <1>3, Zenon DEF PatientClientIsServed
<1> QED BY <1>4, PatientInvariance, PTL

\* "The dir itself is `state_dir/<name>` which we own": for a patient client the
\* supervisor's remove_dir_all never takes the directory from under another
\* instance of the name.
THEOREM CleanupIsOwn == PatientSpec => CleanupTouchesOwnDirOnly
<1>1. ASSUME PatientInv, NEW s \in Sid, NEW r \in Sid, SupCleanup(s), r # s, NameOf[r] = NameOf[s]
      PROVE  ~Registered(r) /\ proc[r] # "running"
  <2>1. ~Settled(s)
    BY <1>1, Zenon DEF SupCleanup, Settled
  <2>2. Settled(r)
    BY <1>1, <2>1, Zenon DEF PatientInv
  <2>3. proc[r] # "running"
    BY <1>1, <2>2, Zenon DEF PatientInv, IInv, NoOrphanProcess, Settled
  <2>4. Registered(r) => supPc[r] \in {"watch", "exited"}
    BY <1>1, ConstantsAssumption DEF PatientInv, IInv, RegisteredIsSupervised, Registered
  <2> QED BY <2>2, <2>3, <2>4 DEF Settled
<1>2. PatientInv => [\A s, r \in Sid : SupCleanup(s) /\ r # s /\ NameOf[r] = NameOf[s] =>
                        ~Registered(r) /\ proc[r] # "running"]_vars
  BY <1>1, Zenon
<1> QED BY <1>2, PatientInvariance, PTL DEF CleanupTouchesOwnDirOnly
=============================================================================

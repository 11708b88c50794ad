---------------------------- MODULE RequestsProofs ----------------------------
(* What a request to the daemon does beside the registry: spawn and session     *)
(* control, for every number of sessions, children, calls and polls.            *)
(*                                                                              *)
(* Spawn.  child_pids and compositor_pid of the registered session only name    *)
(* children whose wait task is still waiting, and a spawned child is counted    *)
(* against the caps of its session.                                             *)
(*                                                                              *)
(* Session control.  Every caller of session_control() gets the response to its *)
(* own request, and a request is executed once.  Responses carry no usable id;  *)
(* what keeps them apart is that the connection's mutex is held from the write  *)
(* to the read, and that a stream on which anything went wrong is dropped       *)
(* before the mutex is: whoever takes it finds an empty stream.                 *)
EXTENDS SpawnChild, SessionCalls, TLAPS

\* Every step of the daemon, of a process or of the kernel preserves the
\* inductive invariant.
LEMMA InvStep == IInv /\ [Next]_vars => IInv'
<1> SUFFICES ASSUME IInv, [Next]_vars PROVE IInv'
  BY Zenon
<1> USE ConstantsAssumption
        DEF IInv, TypeOK, TrackedIsAwaited, CompositorIsTracked, Proc,
            entryVars, callVars, procVars, reapVars
<1>1. ASSUME NEW g \in Gen, LeafMkdir(g) PROVE IInv'
  BY <1>1 DEF LeafMkdir, TryCreateEmpty
<1>2. ASSUME NEW g \in Gen, LeafJoin(g) PROVE IInv'
  BY <1>2 DEF LeafJoin, AddPid
<1>3. ASSUME NEW g \in Gen, Register(g) PROVE IInv'
  <2>1. CASE entry = None
    BY <1>3, <2>1 DEF Register
  <2>2. CASE entry # None
    BY <1>3, <2>2 DEF Register
  <2> QED BY <2>1, <2>2, Zenon
<1>4. ASSUME NEW g \in Gen, SupervisorEnd(g) PROVE IInv'
  BY <1>4 DEF SupervisorEnd
<1>5. ASSUME NEW g \in Gen, DestroyRemove(g) PROVE IInv'
  BY <1>5 DEF DestroyRemove
<1>6. ASSUME NEW g \in Gen, DestroySignal(g) PROVE IInv'
  BY <1>6 DEF DestroySignal
<1>7. ASSUME NEW g \in Gen, KillAll(g) PROVE IInv'
  BY <1>7 DEF KillAll
<1>8. ASSUME NEW g \in Gen, ReapTry(g) PROVE IInv'
  BY <1>8 DEF ReapTry, TryRemove
<1>9. ASSUME NEW k \in Kid, SpawnLookup(k) PROVE IInv'
  BY <1>9 DEF SpawnLookup
<1>10. ASSUME NEW k \in Kid, SpawnExec(k) PROVE IInv'
  BY <1>10 DEF SpawnExec
<1>11. ASSUME NEW k \in Kid, SpawnRecord(k) PROVE IInv'
  <2>1. CASE entry # None
    BY <1>11, <2>1, SMTT(30) DEF SpawnRecord, AddPid
  <2>2. CASE entry = None
    BY <1>11, <2>2 DEF SpawnRecord
  <2> QED BY <2>1, <2>2, Zenon
<1>12. ASSUME NEW k \in Kid, WaitPrune(k) PROVE IInv'
  BY <1>12 DEF WaitPrune
<1>13. ASSUME NEW k \in Kid, WaitReport(k) PROVE IInv'
  BY <1>13 DEF WaitReport
<1>14. ASSUME NEW p \in Proc, Die(p) PROVE IInv'
  BY <1>14, Zenon DEF Die
<1>15. CASE UNCHANGED vars
  BY <1>15, Zenon DEF vars
<1> HIDE DEF IInv, TypeOK, TrackedIsAwaited, CompositorIsTracked, Proc, entryVars,
         callVars, procVars, reapVars
<1> QED
  BY <1>1, <1>2, <1>3, <1>4, <1>5, <1>6, <1>7, <1>8, <1>9, <1>10, <1>11, <1>12,
     <1>13, <1>14, <1>15, Zenon
     DEF Next, SessionStep, DestroyStep, SpawnStep, WaitStep

\* The inductive invariant holds of every behaviour.
THEOREM Invariance == Spec => []IInv
<1>1. Init => IInv
  BY ConstantsAssumption DEF Init, IInv, TypeOK, TrackedIsAwaited,
     CompositorIsTracked, Proc
<1> QED
  BY <1>1, InvStep, PTL DEF Spec

\* No spawn, exit, destroy or re-creation leaves a pid in the registered
\* session's child_pids that its wait task has already pruned.
THEOREM Tracked == Spec => []TrackedIsAwaited
<1>1. IInv => TrackedIsAwaited
  BY Zenon DEF IInv
<1> QED
  BY <1>1, Invariance, PTL

\* The registered session's compositor_pid is always one of its child_pids.
THEOREM CompositorTracked == Spec => []CompositorIsTracked
<1>1. IInv => CompositorIsTracked
  BY Zenon DEF IInv
<1> QED
  BY <1>1, Invariance, PTL

-----------------------------------------------------------------------------
(* The cap.  Until the name is used again only the session's own tasks touch *)
(* the leaf: from the mkdir on it exists, and what is recorded is put in.    *)

\* Only calls past their second look are in anybody's child_pids, so a recorded
\* child does not start to run later; and while no other session of the name has
\* begun, the leaf is there and has the session and its recorded children.
CapInv ==
    /\ \A g \in Gen : \A k \in childPids[g] : waitPc[k] # "none"
    /\ \A g \in Gen : Alone(g) /\ genPc[g] \in {"leaf", "joined", "live"} =>
            /\ leaf # None
            /\ childPids[g] \cap alive \subseteq leaf
            /\ genPc[g] # "leaf" => {g} \cap alive \subseteq leaf

\* A name that was used again stays used again.
LEMMA AloneBefore == ASSUME IInv, [Next]_vars, NEW g \in Gen, Alone(g)' PROVE Alone(g)
<1>1. ASSUME NEW h \in Gen, NEW l \in {"leaf", "joined", "live", "gone", "destroyed"},
             genPc' = [genPc EXCEPT ![h] = l]
      PROVE  Alone(g)
  <2>1. genPc = [k \in Gen |-> genPc[k]]
    BY Zenon DEF IInv, TypeOK
  <2>2. \A k \in Gen : genPc'[k] = "new" => genPc'[k] = genPc[k]
    BY <1>1, <2>1, Zenon
  <2> QED
    BY <2>2, Zenon DEF Alone
<1>2. ASSUME UNCHANGED genPc PROVE Alone(g)
  BY <1>2, Zenon DEF Alone
<1>3. ASSUME NEW h \in Gen, SessionStep(h) PROVE Alone(g)
  BY <1>1, <1>3, Zenon DEF SessionStep, LeafMkdir, LeafJoin, Register, SupervisorEnd
<1>4. ASSUME NEW h \in Gen, DestroyStep(h) PROVE Alone(g)
  BY <1>1, <1>2, <1>4, Zenon
  DEF DestroyStep, DestroyRemove, DestroySignal, KillAll, ReapTry, entryVars
<1>5. ASSUME NEW k \in Kid, SpawnStep(k) \/ WaitStep(k) PROVE Alone(g)
  BY <1>2, <1>5, Zenon
  DEF SpawnStep, WaitStep, SpawnLookup, SpawnExec, SpawnRecord, WaitPrune, WaitReport, entryVars
<1>6. ASSUME NEW p \in Proc, Die(p) PROVE Alone(g)
  BY <1>2, <1>6, Zenon DEF Die, entryVars
<1> QED
  BY <1>2, <1>3, <1>4, <1>5, <1>6, Zenon DEF Next, vars, entryVars

\* What the operations on the leaf do to one that is there.
LEMMA LeafFacts ==
    ASSUME leaf = None \/ leaf \subseteq Proc
    PROVE  /\ TryCreateEmpty(leaf) # None
           /\ leaf # None => TryCreateEmpty(leaf) = leaf
           /\ \A p \in Proc : leaf # None => AddPid(leaf, p) # None /\ AddPid(leaf, p) = leaf \cup {p}
           /\ \A p \in Proc : leaf # None => leaf \ {p} # None
<1>1. \A S : S \subseteq Proc => S # None
  BY ConstantsAssumption, Zenon DEF Proc
<1> QED
  BY <1>1, Zenon DEF TryCreateEmpty, AddPid

\* Every step preserves it, one case per action.
LEMMA CapStep == IInv /\ CapInv /\ [Next]_vars => CapInv'
<1> SUFFICES ASSUME IInv, CapInv, [Next]_vars PROVE CapInv'
  BY Zenon
<1>0. \A g \in Gen : Alone(g)' => Alone(g)
  BY AloneBefore, Zenon
<1> USE ConstantsAssumption, <1>0
        DEF IInv, TypeOK, Proc, entryVars, callVars, procVars, reapVars, CapInv
<1>1. ASSUME NEW g \in Gen, LeafMkdir(g) PROVE CapInv'
  <2>1. leaf' # None /\ (leaf # None => leaf' = leaf)
    BY <1>1, LeafFacts, Zenon DEF LeafMkdir
  <2>2. \A h \in Gen : Alone(h) /\ genPc[h] # "new" => h # g /\ ~Alone(h)'
    BY <1>1 DEF LeafMkdir, Alone
  <2>3. g \notin Kid
    BY Zenon
  <2> QED
    BY <1>1, <2>1, <2>2, <2>3 DEF LeafMkdir
<1>2. ASSUME NEW g \in Gen, LeafJoin(g) PROVE CapInv'
  <2>1. leaf # None => leaf' # None /\ leaf \subseteq leaf' /\ {g} \cap alive \subseteq leaf'
    BY <1>2, LeafFacts DEF LeafJoin
  <2> QED
    BY <1>2, <2>1 DEF LeafJoin
<1>3. ASSUME NEW g \in Gen, Register(g) PROVE CapInv'
  BY <1>3 DEF Register
<1>4. ASSUME NEW g \in Gen, SupervisorEnd(g) PROVE CapInv'
  BY <1>4 DEF SupervisorEnd
<1>5. ASSUME NEW g \in Gen, DestroyRemove(g) PROVE CapInv'
  BY <1>5 DEF DestroyRemove
<1>6. ASSUME NEW g \in Gen, DestroySignal(g) \/ KillAll(g) PROVE CapInv'
  BY <1>6, Zenon DEF DestroySignal, KillAll
<1>7. ASSUME NEW g \in Gen, ReapTry(g) PROVE CapInv'
  <2>1. genPc[g] \in {"destroyed", "gone"}
    BY <1>7, Zenon DEF ReapTry
  <2>2. \A h \in Gen : Alone(h) => h = g
    BY <2>1, Zenon DEF Alone
  <2> QED
    BY <1>7, <2>1, <2>2, Zenon DEF ReapTry
<1>8. ASSUME NEW k \in Kid, SpawnLookup(k) PROVE CapInv'
  BY <1>8, Zenon DEF SpawnLookup
<1>9. ASSUME NEW k \in Kid, SpawnExec(k) PROVE CapInv'
  BY <1>9 DEF SpawnExec
<1>10. ASSUME NEW k \in Kid, SpawnRecord(k) PROVE CapInv'
  <2>1. CASE entry # None
    <3>1. leaf # None => leaf' # None /\ leaf \subseteq leaf' /\ {k} \cap alive \subseteq leaf'
      BY <1>10, <2>1, LeafFacts DEF SpawnRecord
    <3>2. \A g \in Gen : childPids'[g] \subseteq childPids[g] \cup {k}
      BY <1>10, <2>1 DEF SpawnRecord
    <3>3. waitPc' = [waitPc EXCEPT ![k] = "waiting"] /\ UNCHANGED <<genPc, alive>>
      BY <1>10, Zenon DEF SpawnRecord
    <3>4. \A g \in Gen : \A j \in childPids'[g] : waitPc'[j] # "none"
      BY <3>2, <3>3
    <3> QED
      BY <3>1, <3>2, <3>3, <3>4, Zenon
  <2>2. CASE entry = None
    BY <1>10, <2>2, SMTT(30) DEF SpawnRecord
  <2> QED
    BY <2>1, <2>2, Zenon
<1>11. ASSUME NEW k \in Kid, WaitPrune(k) PROVE CapInv'
  BY <1>11 DEF WaitPrune
<1>12. ASSUME NEW k \in Kid, WaitReport(k) PROVE CapInv'
  BY <1>12 DEF WaitReport
<1>13. ASSUME NEW p \in Proc, Die(p) PROVE CapInv'
  <2>1. leaf # None => leaf' # None /\ leaf' = leaf \ {p}
    BY <1>13, LeafFacts, Zenon DEF Die
  <2> QED
    BY <1>13, <2>1, Zenon DEF Die
<1>14. CASE UNCHANGED vars
  BY <1>14, Zenon DEF vars
<1> HIDE DEF IInv, TypeOK, Proc, entryVars, callVars, procVars, reapVars, CapInv
<1> QED
  BY <1>1, <1>2, <1>3, <1>4, <1>5, <1>6, <1>7, <1>8, <1>9, <1>10, <1>11, <1>12, <1>13, <1>14, Zenon
     DEF Next, SessionStep, DestroyStep, SpawnStep, WaitStep

\* A session's books agree with its processes for any number of calls: the
\* compositor it names is one of its children, and until the name is used again
\* the session and all its live recorded children are in its cgroup leaf.
THEOREM Accounted == Spec => []SpawnedIsAccounted
<1>1. Init => CapInv
  BY Zenon DEF Init, CapInv
<1>2. IInv /\ CapInv => SpawnedIsAccounted
  BY Zenon DEF IInv, TypeOK, CapInv, SpawnedIsAccounted, CapAggregates
<1> QED
  BY <1>1, <1>2, CapStep, Invariance, PTL DEF Spec

-------------------------------------------------------------------------------

callsVars == <<rpcVars, nameVars>>
Holding == {"reuse", "connect", "fresh"}

\* Nothing is under way on the stream ...
Quiet(s) == s.requests = <<>> /\ s.serving = 0 /\ s.replies = <<>>

\* ... or only the request of h, or only its response.
Carries(s, h) ==
    \/ Quiet(s)
    \/ s.requests = <<h>> /\ s.serving = 0 /\ s.replies = <<>>
    \/ s.requests = <<>> /\ s.serving = h /\ s.replies = <<>>
    \/ s.requests = <<>> /\ s.serving = 0 /\ s.replies = <<h>>

\* A connection that nobody has locked is quiet; one that is locked carries
\* what its holder sent.
SlotOK(s) == DOMAIN s = DOMAIN NoConn /\ Carries(s, s.holder) /\ (s.holder = 0 => Quiet(s))

\* What call c, in state q, knows: r is the connection of instance q.of.
CallOK(c, q, r) ==
    /\ q.pc \in Holding => q.of \in Instance /\ r.holder = c
    /\ q.pc = "lock" => q.of \in Instance
    /\ q.pc = "connect" => Quiet(r)
    /\ q.pc = "replied" => q.reply = c

\* The inductive invariant.
CallsInv ==
    /\ instance = 0 \/ instance \in Instance
    /\ conn = [i \in Instance |-> conn[i]]
    /\ call = [c \in Call |-> call[c]]
    /\ \A i \in Instance : SlotOK(conn[i])
    /\ \A c \in Call : DOMAIN call[c] = DOMAIN NoCall /\ CallOK(c, call[c], conn[call[c].of])

LEMMA ConnFields == DOMAIN NoConn = {"to", "open", "requests", "serving", "replies", "holder"}
  BY Zenon DEF NoConn

LEMMA CallFields == DOMAIN NoCall = {"kind", "pc", "of", "polls", "reply", "from"}
  BY Zenon DEF NoCall

LEMMA NotZero == 0 \notin Call
  BY CallsAssumption, Zenon

\* A step of call c that touches no connection.
LEMMA CallAlone ==
    ASSUME CallsInv, NEW c \in Call, NEW q, call' = [call EXCEPT ![c] = q],
           UNCHANGED <<conn, instance>>, DOMAIN q = DOMAIN NoCall,
           q.pc \notin Holding \cup {"replied"}, q.pc = "lock" => q.of \in Instance
    PROVE  CallsInv'
<1>1. call' = [d \in Call |-> IF d = c THEN q ELSE call[d]]
  BY Zenon DEF CallsInv
<1>2. call' = [d \in Call |-> call'[d]]
  BY <1>1, Zenon
<1>3. ASSUME NEW d \in Call
      PROVE  DOMAIN call'[d] = DOMAIN NoCall /\ CallOK(d, call'[d], conn[call'[d].of])
  <2>1. CASE d = c
    BY <1>1, <2>1, Zenon DEF CallOK, Holding
  <2>2. CASE d # c
    BY <1>1, <2>2, Zenon DEF CallsInv
  <2> QED
    BY <2>1, <2>2, Zenon
<1>4. \A d \in Call : CallOK(d, call[d], conn[call[d].of])' <=> CallOK(d, call'[d], conn'[call'[d].of])
  BY Zenon DEF CallOK, Quiet
<1> QED
  BY <1>2, <1>3, <1>4, Zenon DEF CallsInv, SlotOK, Carries, Quiet

\* A step of call c on the connection of its instance, of which nobody else
\* holds the lock.
LEMMA CallOnSlot ==
    ASSUME CallsInv, NEW c \in Call, NEW q, NEW r, NEW i \in Instance, i = call[c].of,
           conn[i].holder \in {0, c}, call' = [call EXCEPT ![c] = q],
           conn' = [conn EXCEPT ![i] = r], instance' = instance,
           DOMAIN q = DOMAIN NoCall, SlotOK(r), q.pc \in Holding => q.of = i,
           CallOK(c, q, r)
    PROVE  CallsInv'
<1>1. call' = [d \in Call |-> IF d = c THEN q ELSE call[d]]
  BY Zenon DEF CallsInv
<1>2. conn' = [j \in Instance |-> IF j = i THEN r ELSE conn[j]]
  BY Zenon DEF CallsInv
<1>3. call' = [d \in Call |-> call'[d]] /\ conn' = [j \in Instance |-> conn'[j]]
  BY <1>1, <1>2, Zenon
<1>4. ASSUME NEW j \in Instance PROVE SlotOK(conn'[j])
  BY <1>2, Zenon DEF CallsInv
<1>5. ASSUME NEW d \in Call
      PROVE  DOMAIN call'[d] = DOMAIN NoCall /\ CallOK(d, call'[d], conn'[call'[d].of])
  <2>1. CASE d = c
    <3>1. call'[d] = q
      BY <1>1, <2>1, Zenon
    <3>2. q.pc \in Holding => conn'[q.of] = r
      BY <1>2, Zenon
    <3> QED
      BY <2>1, <3>1, <3>2, Zenon DEF CallOK, Holding
  <2>2. CASE d # c
    <3>1. call'[d] = call[d] /\ DOMAIN call[d] = DOMAIN NoCall /\ CallOK(d, call[d], conn[call[d].of])
      BY <1>1, <2>2, Zenon DEF CallsInv
    <3>2. call[d].pc \in Holding => call[d].of \in Instance /\ call[d].of # i
      BY <2>2, <3>1, NotZero, Zenon DEF CallOK
    <3>3. call[d].pc \in Holding => conn'[call[d].of] = conn[call[d].of]
      BY <1>2, <3>2, Zenon
    <3> QED
      BY <3>1, <3>3, Zenon DEF CallOK, Holding
  <2> QED
    BY <2>1, <2>2, Zenon
<1>6. \A d \in Call : CallOK(d, call[d], conn[call[d].of])' <=> CallOK(d, call'[d], conn'[call'[d].of])
  BY Zenon DEF CallOK, Quiet
<1>7. \A j \in Instance : SlotOK(conn[j])' <=> SlotOK(conn'[j])
  BY Zenon DEF SlotOK, Carries, Quiet
<1> QED
  BY <1>3, <1>4, <1>5, <1>6, <1>7, Zenon DEF CallsInv

\* A step of the processes: no lock changes hands and nothing appears on a
\* quiet connection.
LEMMA SlotsAlone ==
    ASSUME CallsInv, call' = call, instance' = 0 \/ instance' \in Instance,
           conn' = [i \in Instance |-> conn'[i]],
           \A i \in Instance : /\ SlotOK(conn'[i]) /\ conn'[i].holder = conn[i].holder
                               /\ Quiet(conn[i]) => Quiet(conn'[i])
    PROVE  CallsInv'
<1>1. ASSUME NEW d \in Call PROVE CallOK(d, call'[d], conn'[call'[d].of])
  BY Zenon DEF CallsInv, CallOK, Holding
<1>2. \A d \in Call : CallOK(d, call[d], conn[call[d].of])' <=> CallOK(d, call'[d], conn'[call'[d].of])
  BY Zenon DEF CallOK, Quiet
<1>3. \A j \in Instance : SlotOK(conn[j])' <=> SlotOK(conn'[j])
  BY Zenon DEF SlotOK, Carries, Quiet
<1> QED
  BY <1>1, <1>2, <1>3, Zenon DEF CallsInv

\* A call that returns without touching its connection.
LEMMA ReturnKeeps ==
    ASSUME CallsInv, NEW c \in Call, NEW pc \in {"done", "failed"}, Returns(c, pc),
           UNCHANGED <<conn, instance>>
    PROVE  CallsInv'
<1> DEFINE q == [NoCall EXCEPT !.pc = pc]
<1>1. call' = [call EXCEPT ![c] = q]
  BY Zenon DEF Returns
<1>2. DOMAIN q = DOMAIN NoCall /\ q.pc = pc
  BY CallFields, Zenon
<1> HIDE DEF q
<1> QED
  BY <1>1, <1>2, CallAlone, Zenon DEF Holding

\* A call that returns and leaves its connection quiet and unlocked.
LEMMA ReturnUnlocks ==
    ASSUME CallsInv, NEW c \in Call, Returns(c, "failed"), instance' = instance,
           call[c].pc \in Holding, NEW r, SlotBecomes(c, r), SlotOK(r)
    PROVE  CallsInv'
<1> DEFINE q == [NoCall EXCEPT !.pc = "failed"]
<1>1. call' = [call EXCEPT ![c] = q]
  BY Zenon DEF Returns
<1>2. DOMAIN q = DOMAIN NoCall /\ q.pc = "failed"
  BY CallFields, Zenon
<1> HIDE DEF q
<1>3. call[c].of \in Instance /\ conn[call[c].of].holder = c
  BY Zenon DEF CallsInv, CallOK
<1>4. CallOK(c, q, r)
  BY <1>2, Zenon DEF CallOK, Holding
<1> QED
  BY <1>1, <1>2, <1>3, <1>4, CallOnSlot, Zenon DEF SlotBecomes, Holding

\* `*guard = None`, with and without the lock that is still held.
LEMMA ClearedFields ==
    ASSUME NEW s
    PROVE  /\ DOMAIN Cleared(s) = DOMAIN NoConn /\ Quiet(Cleared(s)) /\ Cleared(s).holder = s.holder
           /\ DOMAIN Unlocked(Cleared(s)) = DOMAIN NoConn /\ Quiet(Unlocked(Cleared(s)))
           /\ Unlocked(Cleared(s)).holder = 0
  BY Zenon DEF Cleared, Unlocked, Quiet, NoConn

LEMMA QuietIsOK == ASSUME NEW s, DOMAIN s = DOMAIN NoConn, Quiet(s) PROVE SlotOK(s)
  BY Zenon DEF SlotOK, Carries

\* write_all on a quiet connection that c has locked.
LEMMA WrittenFields ==
    ASSUME NEW s, NEW c \in Call, DOMAIN s = DOMAIN NoConn, Quiet(s), s.holder = c
    PROVE  SlotOK(Written(s, c)) /\ Written(s, c).holder = c
<1>1. CASE s.open
  <2> DEFINE w == [s EXCEPT !.requests = Append(@, c)]
  <2>1. Written(s, c) = w
    BY <1>1, Zenon DEF Written
  <2>2. DOMAIN w = DOMAIN NoConn /\ w.holder = c /\ w.serving = 0 /\ w.replies = <<>>
    BY ConnFields, Zenon DEF Quiet
  <2>3. w.requests = <<c>>
    BY ConnFields DEF Quiet
  <2> HIDE DEF w
  <2> QED
    BY <2>1, <2>2, <2>3, NotZero, Zenon DEF SlotOK, Carries
<1>2. CASE ~s.open
  BY <1>2, QuietIsOK, Zenon DEF Written
<1> QED
  BY <1>1, <1>2, Zenon

\* The steps of a call, one case per action.
LEMMA CallKeeps == ASSUME CallsInv, NEW c \in Call, Lookup(c) \/ CallStep(c) PROVE CallsInv'
<1> DEFINE i == call[c].of
           s == conn[i]
<1>0. DOMAIN call[c] = DOMAIN NoCall /\ CallOK(c, call[c], s) /\ (i \in Instance => SlotOK(s))
  BY Zenon DEF CallsInv
<1>a. call[c].pc \in Holding => i \in Instance /\ s.holder = c /\ SlotOK(s)
  BY <1>0, Zenon DEF CallOK
<1>1. CASE Lookup(c)
  <2>1. ASSUME NEW k \in Kind, instance # 0,
               call' = [call EXCEPT ![c] = [NoCall EXCEPT !.kind = k, !.of = instance, !.pc = "lock"]]
        PROVE  CallsInv'
    <3> DEFINE q == [NoCall EXCEPT !.kind = k, !.of = instance, !.pc = "lock"]
    <3>1. DOMAIN q = DOMAIN NoCall /\ q.pc = "lock" /\ q.of = instance
      BY CallFields, Zenon
    <3>2. call' = [call EXCEPT ![c] = q]
      BY <2>1, Zenon
    <3>3. UNCHANGED <<conn, instance>> /\ instance \in Instance
      BY <1>1, <2>1, Zenon DEF Lookup, nameVars, CallsInv
    <3> HIDE DEF q
    <3> QED
      BY <3>1, <3>2, <3>3, CallAlone, Zenon DEF Holding
  <2>2. ASSUME Returns(c, "failed") PROVE CallsInv'
    BY <1>1, <2>2, ReturnKeeps, Zenon DEF Lookup, nameVars
  <2> QED
    BY <1>1, <2>1, <2>2, Zenon DEF Lookup
<1>2. CASE Lock(c)
  <2> DEFINE l == [s EXCEPT !.holder = c]
  <2>1. i \in Instance /\ s.holder = 0
    BY <1>0, <1>2, Zenon DEF Lock, At, LockFree, Slot, CallOK
  <2>2. DOMAIN l = DOMAIN NoConn /\ Quiet(l) /\ l.holder = c
    BY <1>0, <2>1, ConnFields, Zenon DEF SlotOK, Quiet
  <2>3. ASSUME NEW pc \in {"reuse", "connect"}, NEW r, GoesTo(c, pc), SlotBecomes(c, r),
               SlotOK(r), r.holder = c, pc = "connect" => Quiet(r)
        PROVE  CallsInv'
    <3> DEFINE q == [call[c] EXCEPT !.pc = pc]
    <3>1. DOMAIN q = DOMAIN NoCall /\ q.pc = pc /\ q.of = i
      BY <1>0, CallFields, Zenon
    <3>2. call' = [call EXCEPT ![c] = q]
      BY <2>3, Zenon DEF GoesTo, CallsInv
    <3> HIDE DEF q
    <3>3. CallOK(c, q, r)
      BY <2>1, <2>3, <3>1, Zenon DEF CallOK
    <3> QED
      BY <1>2, <2>1, <2>3, <3>1, <3>2, <3>3, CallOnSlot, Zenon DEF SlotBecomes, Lock, nameVars
  <2>4. \/ SlotBecomes(c, Written(l, c)) /\ GoesTo(c, "reuse")
        \/ SlotBecomes(c, l) /\ GoesTo(c, "connect")
    BY <1>2, Zenon DEF Lock, Slot
  <2> HIDE DEF l
  <2> QED
    BY <2>2, <2>3, <2>4, WrittenFields, QuietIsOK, Zenon
<1>3. CASE Read(c)
  <2> DEFINE r == Unlocked([s EXCEPT !.replies = Tail(@)])
             q == [call[c] EXCEPT !.pc = "replied", !.reply = Head(s.replies),
                                  !.from = IF call[c].kind = "tag" THEN s.to ELSE 0]
  <2>1. i \in Instance /\ s.holder = c /\ SlotOK(s)
    BY <1>3, <1>a, Zenon DEF Read, Holding
  <2>2. s.requests = <<>> /\ s.serving = 0 /\ s.replies = <<c>>
    BY <1>3, <2>1, Zenon DEF Read, SlotOK, Carries, Quiet, Slot
  <2>3. DOMAIN q = DOMAIN NoCall /\ q.pc = "replied" /\ q.reply = c
    BY <1>0, <2>2, CallFields
  <2>4. DOMAIN r = DOMAIN NoConn /\ Quiet(r)
    BY <2>1, <2>2, ConnFields DEF Unlocked, SlotOK, Quiet
  <2>5. call' = [call EXCEPT ![c] = q]
    BY <1>3, <1>0, CallFields, Zenon DEF Read, CallsInv, Slot
  <2>6. conn' = [conn EXCEPT ![i] = r] /\ instance' = instance
    BY <1>3, Zenon DEF Read, SlotBecomes, Slot, nameVars
  <2> HIDE DEF q, r
  <2>7. CallOK(c, q, r)
    BY <2>3, Zenon DEF CallOK, Holding
  <2> QED
    BY <2>1, <2>3, <2>4, <2>5, <2>6, <2>7, CallOnSlot, QuietIsOK, Zenon DEF Holding
<1>4. ASSUME NEW pc \in {"connect", "fresh"}, NEW r, GoesTo(c, pc), SlotBecomes(c, r),
             call[c].pc \in Holding, instance' = instance,
             SlotOK(r), r.holder = c, pc = "connect" => Quiet(r)
      PROVE  CallsInv'
  <2> DEFINE q == [call[c] EXCEPT !.pc = pc]
  <2>1. DOMAIN q = DOMAIN NoCall /\ q.pc = pc /\ q.of = i
    BY <1>0, CallFields, Zenon
  <2>2. call' = [call EXCEPT ![c] = q]
    BY <1>4, Zenon DEF GoesTo, CallsInv
  <2> HIDE DEF q
  <2>3. CallOK(c, q, r)
    BY <1>4, <1>a, <2>1, Zenon DEF CallOK
  <2> QED
    BY <1>4, <1>a, <2>1, <2>2, <2>3, CallOnSlot, Zenon DEF SlotBecomes
<1>5. CASE ReuseFails(c)
  <2>1. call[c].pc \in Holding
    BY <1>5, Zenon DEF ReuseFails, At, Holding
  <2>2. SlotBecomes(c, Cleared(s)) /\ GoesTo(c, "connect") /\ instance' = instance
    BY <1>5, Zenon DEF ReuseFails, Slot, nameVars
  <2>3. SlotOK(Cleared(s)) /\ Cleared(s).holder = c /\ Quiet(Cleared(s))
    BY <1>a, <2>1, ClearedFields, QuietIsOK, Zenon
  <2> QED
    BY <1>4, <2>1, <2>2, <2>3, Zenon
<1>6. CASE Connect(c)
  <2> DEFINE r == [Cleared(s) EXCEPT !.to = bound, !.open = TRUE]
  <2>1. call[c].pc \in Holding
    BY <1>6, Zenon DEF Connect, At, Holding
  <2>2. DOMAIN Cleared(s) = DOMAIN NoConn /\ Quiet(Cleared(s)) /\ Cleared(s).holder = c
    BY <1>a, <2>1, ClearedFields, Zenon
  <2>3. DOMAIN r = DOMAIN NoConn /\ Quiet(r) /\ r.holder = c
    BY <2>2, ConnFields, Zenon DEF Quiet
  <2>4. SlotBecomes(c, Written(r, c)) /\ GoesTo(c, "fresh") /\ instance' = instance
    BY <1>6, Zenon DEF Connect, Slot, nameVars
  <2> HIDE DEF r
  <2> QED
    BY <1>4, <2>1, <2>3, <2>4, WrittenFields, Zenon
<1>7. CASE ConnectFails(c)
  <2>1. call[c].pc \in Holding /\ Quiet(s)
    BY <1>0, <1>7, Zenon DEF ConnectFails, At, Holding, CallOK
  <2>2. DOMAIN Unlocked(s) = DOMAIN NoConn /\ Quiet(Unlocked(s))
    BY <1>a, <2>1, ConnFields, Zenon DEF Unlocked, Quiet, SlotOK
  <2> QED
    BY <1>7, <2>1, <2>2, QuietIsOK, ReturnUnlocks, Zenon DEF ConnectFails, Slot, nameVars
<1>8. CASE FreshFails(c)
  <2>1. call[c].pc \in Holding
    BY <1>8, Zenon DEF FreshFails, At, Holding
  <2> QED
    BY <1>8, <2>1, ClearedFields, QuietIsOK, ReturnUnlocks, Zenon DEF FreshFails, Slot, nameVars
<1>9. CASE InjectReturns(c) \/ ScreenshotReturns(c) \/ ResizeReturns(c) \/ TagReturns(c)
  BY <1>9, ReturnKeeps, Zenon
  DEF InjectReturns, ScreenshotReturns, ResizeReturns, TagReturns, nameVars
<1>10. CASE IdleReturns(c)
  <2>1. UNCHANGED <<conn, instance>>
    BY <1>10, Zenon DEF IdleReturns, nameVars
  <2>2. ASSUME instance # 0,
               call' = [call EXCEPT ![c] = [NoCall EXCEPT !.kind = "idle", !.of = instance, !.pc = "lock",
                                                          !.polls = call[c].polls + 1]]
        PROVE  CallsInv'
    <3> DEFINE q == [NoCall EXCEPT !.kind = "idle", !.of = instance, !.pc = "lock",
                                   !.polls = call[c].polls + 1]
    <3>1. DOMAIN q = DOMAIN NoCall /\ q.pc = "lock" /\ q.of = instance
      BY CallFields, Zenon
    <3>2. call' = [call EXCEPT ![c] = q] /\ instance \in Instance
      BY <2>2, Zenon DEF CallsInv
    <3> HIDE DEF q
    <3> QED
      BY <2>1, <3>1, <3>2, CallAlone, Zenon DEF Holding
  <2> QED
    BY <1>10, <2>1, <2>2, ReturnKeeps, Zenon DEF IdleReturns
<1> QED
  BY <1>1, <1>2, <1>3, <1>5, <1>6, <1>7, <1>8, <1>9, <1>10, Zenon DEF CallStep

\* The steps of the processes and of the registry, one case per action.
LEMMA InstanceKeeps ==
    ASSUME CallsInv, NEW i \in Instance, InstanceStep(i) \/ Create(i) \/ Destroy(i) \/ InstanceDies(i)
    PROVE  CallsInv'
<1>0. SlotOK(conn[i])
  BY Zenon DEF CallsInv
<1>1. ASSUME NEW r, conn' = [conn EXCEPT ![i] = r], UNCHANGED <<call, instance>>,
             SlotOK(r), r.holder = conn[i].holder, ~Quiet(conn[i])
      PROVE  CallsInv'
  <2>1. conn' = [j \in Instance |-> IF j = i THEN r ELSE conn[j]]
    BY <1>1, Zenon DEF CallsInv
  <2>2. conn' = [j \in Instance |-> conn'[j]]
    BY <2>1, Zenon
  <2>3. ASSUME NEW j \in Instance
        PROVE  /\ SlotOK(conn'[j]) /\ conn'[j].holder = conn[j].holder
               /\ Quiet(conn[j]) => Quiet(conn'[j])
    BY <1>1, <2>1, Zenon DEF CallsInv
  <2>4. instance' = 0 \/ instance' \in Instance
    BY <1>1, Zenon DEF CallsInv
  <2> QED
    BY <1>1, <2>2, <2>3, <2>4, SlotsAlone, Zenon
<1>2. CASE Dispatch(i)
  <2> DEFINE s == conn[i]
             r == [s EXCEPT !.requests = Tail(@), !.serving = Head(s.requests)]
  <2>1. s.requests = <<s.holder>> /\ s.serving = 0 /\ s.replies = <<>> /\ s.holder # 0
    BY <1>0, <1>2, Zenon DEF Dispatch, SlotOK, Carries, Quiet
  <2>2. /\ DOMAIN r = DOMAIN NoConn /\ r.holder = s.holder
        /\ r.requests = <<>> /\ r.serving = s.holder /\ r.replies = <<>>
    BY <1>0, <2>1, ConnFields DEF SlotOK
  <2>3. conn' = [conn EXCEPT ![i] = r] /\ UNCHANGED <<call, instance>>
    BY <1>0, <1>2, ConnFields, Zenon DEF Dispatch, CallsInv, SlotOK, nameVars
  <2> HIDE DEF r
  <2>4. SlotOK(r) /\ ~Quiet(s)
    BY <2>1, <2>2 DEF SlotOK, Carries, Quiet
  <2> QED
    BY <1>1, <2>2, <2>3, <2>4, Zenon
<1>3. CASE Respond(i)
  <2> DEFINE s == conn[i]
  <2>1. s.requests = <<>> /\ s.serving = s.holder /\ s.replies = <<>> /\ s.holder # 0
    BY <1>0, <1>3, Zenon DEF Respond, SlotOK, Carries, Quiet
  <2>2. ~Quiet(s)
    BY <2>1, Zenon DEF Quiet
  <2>3. UNCHANGED <<call, instance>>
    BY <1>3, Zenon DEF Respond, nameVars
  <2>4. ASSUME conn' = [conn EXCEPT ![i].serving = 0, ![i].replies = Append(@, s.serving)]
        PROVE  CallsInv'
    <3> DEFINE r == [s EXCEPT !.serving = 0, !.replies = Append(@, s.serving)]
    <3>1. /\ DOMAIN r = DOMAIN NoConn /\ r.holder = s.holder
          /\ r.requests = <<>> /\ r.serving = 0 /\ r.replies = <<s.holder>>
      BY <1>0, <2>1, ConnFields DEF SlotOK
    <3>2. conn' = [conn EXCEPT ![i] = r]
      BY <1>0, <2>4, ConnFields, Zenon DEF CallsInv, SlotOK
    <3> HIDE DEF r
    <3>3. SlotOK(r)
      BY <2>1, <3>1, Zenon DEF SlotOK, Carries, Quiet
    <3> QED
      BY <1>1, <2>2, <2>3, <3>1, <3>2, <3>3, Zenon
  <2>5. ASSUME conn' = [conn EXCEPT ![i].serving = 0, ![i].open = FALSE]
        PROVE  CallsInv'
    <3> DEFINE r == [s EXCEPT !.serving = 0, !.open = FALSE]
    <3>1. DOMAIN r = DOMAIN NoConn /\ r.holder = s.holder /\ Quiet(r)
      BY <1>0, <2>1, ConnFields, Zenon DEF SlotOK, Quiet
    <3>2. conn' = [conn EXCEPT ![i] = r]
      BY <1>0, <2>5, ConnFields, Zenon DEF CallsInv, SlotOK
    <3> HIDE DEF r
    <3> QED
      BY <1>1, <2>2, <2>3, <3>1, <3>2, QuietIsOK, Zenon
  <2> QED
    BY <1>3, <2>4, <2>5, Zenon DEF Respond
<1>4. CASE Create(i) \/ Destroy(i) \/ SupervisorRemoves(i) \/ SupervisorCleans(i)
  <2>1. UNCHANGED <<call, conn>> /\ (instance' = 0 \/ instance' \in Instance)
    BY <1>4, Zenon DEF Create, Destroy, SupervisorRemoves, SupervisorCleans, rpcVars, CallsInv
  <2>2. conn' = [j \in Instance |-> conn'[j]]
    BY <2>1, Zenon DEF CallsInv
  <2>3. ASSUME NEW j \in Instance
        PROVE  /\ SlotOK(conn'[j]) /\ conn'[j].holder = conn[j].holder
               /\ Quiet(conn[j]) => Quiet(conn'[j])
    BY <2>1, Zenon DEF CallsInv
  <2> QED
    BY <2>1, <2>2, <2>3, SlotsAlone, Zenon
<1>5. CASE InstanceDies(i)
  <2>1. conn' = [j \in Instance |-> conn'[j]] /\ call' = call /\ instance' = instance
    BY <1>5, Zenon DEF InstanceDies
  <2>2. ASSUME NEW j \in Instance
        PROVE  /\ SlotOK(conn'[j]) /\ conn'[j].holder = conn[j].holder
               /\ Quiet(conn[j]) => Quiet(conn'[j])
    <3> DEFINE r == [conn[j] EXCEPT !.open = FALSE, !.requests = <<>>, !.serving = 0]
    <3>1. conn'[j] \in {conn[j], r} /\ SlotOK(conn[j])
      BY <1>5, Zenon DEF InstanceDies, CallsInv
    <3>2. /\ DOMAIN r = DOMAIN NoConn /\ r.holder = conn[j].holder
          /\ r.requests = <<>> /\ r.serving = 0 /\ r.replies = conn[j].replies
      BY <3>1, ConnFields, Zenon DEF SlotOK
    <3> HIDE DEF r
    <3>3. SlotOK(r) /\ (Quiet(conn[j]) => Quiet(r))
      BY <3>1, <3>2, Zenon DEF SlotOK, Carries, Quiet
    <3> QED
      BY <3>1, <3>2, <3>3, Zenon
  <2>3. instance' = 0 \/ instance' \in Instance
    BY <2>1, Zenon DEF CallsInv
  <2> QED
    BY <2>1, <2>2, <2>3, SlotsAlone, Zenon
<1> QED
  BY <1>2, <1>3, <1>4, <1>5, Zenon DEF InstanceStep

\* The initial states.
LEMMA CallsInitially == CallsInit => CallsInv
<1> SUFFICES ASSUME CallsInit PROVE CallsInv
  BY Zenon
<1>1. \A i \in Instance : conn[i] = NoConn /\ SlotOK(NoConn)
  BY Zenon DEF CallsInit, SlotOK, Carries, Quiet, NoConn
<1>2. \A c \in Call : call[c] = NoCall /\ \A r : CallOK(c, NoCall, r)
  BY Zenon DEF CallsInit, CallOK, NoCall, Holding
<1> QED
  BY <1>1, <1>2, Zenon DEF CallsInit, CallsInv

\* session_control() sends every request with id 1 and compares no id, and
\* still, however calls, retries, deaths and new instances of the name
\* interleave, the response a caller reads is the answer to its own request.
THEOREM OwnReply == CallsSpec => []ReplyIsOwn
<1>1. CallsInit => CallsInv
  BY CallsInitially, Zenon
<1>2. CallsInv /\ [CallsNext]_callsVars => CallsInv'
  <2>1. ASSUME CallsInv, UNCHANGED callsVars PROVE CallsInv'
    BY <2>1, Zenon DEF callsVars, rpcVars, nameVars, CallsInv, CallOK, SlotOK, Carries, Quiet
  <2> QED
    BY <2>1, CallKeeps, InstanceKeeps, Zenon DEF CallsNext
<1>3. CallsInv => ReplyIsOwn
  BY Zenon DEF CallsInv, CallOK, ReplyIsOwn, At
<1>4. CallsSpec => CallsInit /\ [][CallsNext]_callsVars
  BY Zenon DEF CallsSpec, callsVars
<1> QED
  BY <1>1, <1>2, <1>3, <1>4, PTL

-----------------------------------------------------------------------------
(* No process executes a call twice whose response fits a frame.  A request is *)
(* sent again only on another connection; the process at the end of the first  *)
(* one has then either not read the request or is dead, and the dead do not    *)
(* come back under the same number.                                            *)

Over == {"dead", "removed", "gone"}
Resting == {"idle", "lock", "done", "failed"}

\* What process i, in state l, has executed of a call q whose connection is r:
\* n times, and if that leaves the process alive its answer is under way.
ExecutedOK(q, r, i, n, l) ==
    /\ q.pc \in Resting => n = 0
    /\ q.kind \in {"inject", "resize", "tag"} =>
          /\ n \in {0, 1}
          /\ q.pc \in Holding /\ n = 1 => l \in Over \/ (r.to = i /\ r.requests = <<>> /\ ~Quiet(r))

\* An open stream leads to a living process, a closed one carries no request,
\* and the holder of the lock is a call at work on it.
StreamOK(i, r) ==
    /\ r.open => r.to \in Instance /\ life[r.to] = "up"
    /\ ~r.open => r.requests = <<>> /\ r.serving = 0
    /\ r.holder # 0 => r.holder \in Call /\ call[r.holder].pc \in Holding /\ call[r.holder].of = i

\* The inductive invariant, beside CallsInv.
OnceInv ==
    /\ bound \in Instance \cup {0}
    /\ life = [i \in Instance |-> life[i]]
    /\ applied = [c \in Call |-> [i \in Instance |-> applied[c][i]]]
    /\ \A i \in Instance : StreamOK(i, conn[i])
    /\ \A c \in Call, i \in Instance : ExecutedOK(call[c], conn[call[c].of], i, applied[c][i], life[i])

\* The parts of OnceInv for the next state, written out.
LEMMA OncePrimed ==
    ASSUME bound' \in Instance \cup {0}, life' = [i \in Instance |-> life'[i]],
           applied' = [c \in Call |-> [i \in Instance |-> applied'[c][i]]],
           \A i \in Instance :
              /\ conn'[i].open => conn'[i].to \in Instance /\ life'[conn'[i].to] = "up"
              /\ ~conn'[i].open => conn'[i].requests = <<>> /\ conn'[i].serving = 0
              /\ conn'[i].holder # 0 => /\ conn'[i].holder \in Call
                                        /\ call'[conn'[i].holder].pc \in Holding
                                        /\ call'[conn'[i].holder].of = i,
           \A c \in Call, i \in Instance :
              ExecutedOK(call'[c], conn'[call'[c].of], i, applied'[c][i], life'[i])
    PROVE  OnceInv'
<1>1. \A i \in Instance : StreamOK(i, conn[i])'
  BY Zenon DEF StreamOK
<1>2. \A c \in Call, i \in Instance :
          ExecutedOK(call[c], conn[call[c].of], i, applied[c][i], life[i])'
            <=> ExecutedOK(call'[c], conn'[call'[c].of], i, applied'[c][i], life'[i])
  BY Zenon DEF ExecutedOK, Quiet
<1> QED
  BY <1>1, <1>2, Zenon DEF OnceInv

\* A step of call c between two rests.
LEMMA OnceAlone ==
    ASSUME CallsInv, OnceInv, NEW c \in Call, NEW q, NEW a, call' = [call EXCEPT ![c] = q],
           applied' = [applied EXCEPT ![c] = a], UNCHANGED <<conn, life, bound>>,
           a = [i \in Instance |-> a[i]], \A i \in Instance : a[i] = 0,
           call[c].pc \notin Holding, q.pc \notin Holding
    PROVE  OnceInv'
<1>1. call' = [d \in Call |-> IF d = c THEN q ELSE call[d]]
  BY Zenon DEF CallsInv
<1>2. applied' = [d \in Call |-> IF d = c THEN a ELSE applied[d]]
  BY Zenon DEF OnceInv
<1>3. applied' = [d \in Call |-> [i \in Instance |-> applied'[d][i]]]
  BY <1>2, ZenonT(30) DEF OnceInv
<1>4. ASSUME NEW i \in Instance
      PROVE  /\ conn'[i].open => conn'[i].to \in Instance /\ life'[conn'[i].to] = "up"
             /\ ~conn'[i].open => conn'[i].requests = <<>> /\ conn'[i].serving = 0
             /\ conn'[i].holder # 0 => /\ conn'[i].holder \in Call
                                       /\ call'[conn'[i].holder].pc \in Holding
                                       /\ call'[conn'[i].holder].of = i
  BY <1>1 DEF OnceInv, StreamOK
<1>5. ASSUME NEW d \in Call, NEW i \in Instance
      PROVE  ExecutedOK(call'[d], conn'[call'[d].of], i, applied'[d][i], life'[i])
  <2>1. CASE d = c
    <3>1. call'[d] = q /\ applied'[d][i] = 0
      BY <1>1, <1>2, <2>1, Zenon
    <3> QED
      BY <3>1, Zenon DEF ExecutedOK
  <2>2. CASE d # c
    BY <1>1, <1>2, <2>2, Zenon DEF OnceInv
  <2> QED
    BY <2>1, <2>2, Zenon
<1>6. bound' \in Instance \cup {0} /\ life' = [i \in Instance |-> life'[i]]
  BY Zenon DEF OnceInv
<1> QED
  BY <1>3, <1>4, <1>5, <1>6, OncePrimed, Zenon

\* A step of call c on the connection of its instance.
LEMMA OnceOnSlot ==
    ASSUME CallsInv, OnceInv, NEW c \in Call, NEW q, NEW r, NEW a, NEW i \in Instance, i = call[c].of,
           conn[i].holder \in {0, c}, call' = [call EXCEPT ![c] = q],
           conn' = [conn EXCEPT ![i] = r], applied' = [applied EXCEPT ![c] = a],
           UNCHANGED <<life, bound>>, a = [j \in Instance |-> a[j]],
           q.pc \in Holding => q.of = i,
           r.open => r.to \in Instance /\ life[r.to] = "up",
           ~r.open => r.requests = <<>> /\ r.serving = 0,
           IF q.pc \in Holding THEN r.holder = c ELSE r.holder = 0,
           \A j \in Instance : ExecutedOK(q, r, j, a[j], life[j])
    PROVE  OnceInv'
<1>1. call' = [d \in Call |-> IF d = c THEN q ELSE call[d]]
  BY Zenon DEF CallsInv
<1>2. conn' = [j \in Instance |-> IF j = i THEN r ELSE conn[j]]
  BY Zenon DEF CallsInv
<1>3. applied' = [d \in Call |-> IF d = c THEN a ELSE applied[d]]
  BY Zenon DEF OnceInv
<1>4. applied' = [d \in Call |-> [j \in Instance |-> applied'[d][j]]]
  BY <1>3 DEF OnceInv
<1>5. ASSUME NEW j \in Instance
      PROVE  /\ conn'[j].open => conn'[j].to \in Instance /\ life'[conn'[j].to] = "up"
             /\ ~conn'[j].open => conn'[j].requests = <<>> /\ conn'[j].serving = 0
             /\ conn'[j].holder # 0 => /\ conn'[j].holder \in Call
                                       /\ call'[conn'[j].holder].pc \in Holding
                                       /\ call'[conn'[j].holder].of = j
  <2>1. CASE j = i
    BY <1>1, <1>2, <2>1, SMTT(30)
  <2>2. CASE j # i
    <3>1. conn'[j] = conn[j] /\ StreamOK(j, conn[j])
      BY <1>2, <2>2, Zenon DEF OnceInv
    <3>2. conn[j].holder # c
      BY <2>2, <3>1, NotZero, Zenon DEF StreamOK
    <3> QED
      BY <1>1, <3>1, <3>2 DEF StreamOK
  <2> QED
    BY <2>1, <2>2, Zenon
<1>6. ASSUME NEW d \in Call, NEW j \in Instance
      PROVE  ExecutedOK(call'[d], conn'[call'[d].of], j, applied'[d][j], life'[j])
  <2>1. CASE d = c
    <3>1. call'[d] = q /\ applied'[d][j] = a[j] /\ ExecutedOK(q, r, j, a[j], life[j])
      BY <1>1, <1>3, <2>1, Zenon
    <3>2. q.pc \in Holding => conn'[q.of] = r
      BY <1>2, Zenon
    <3> QED
      BY <3>1, <3>2, Zenon DEF ExecutedOK
  <2>2. CASE d # c
    <3>1. /\ call'[d] = call[d] /\ applied'[d] = applied[d] /\ CallOK(d, call[d], conn[call[d].of])
          /\ ExecutedOK(call[d], conn[call[d].of], j, applied[d][j], life[j])
      BY <1>1, <1>3, <2>2, Zenon DEF CallsInv, OnceInv
    <3>2. call[d].pc \in Holding => conn'[call[d].of] = conn[call[d].of]
      BY <1>2, <2>2, <3>1, NotZero DEF CallOK
    <3> QED
      BY <3>1, <3>2, Zenon DEF ExecutedOK
  <2> QED
    BY <2>1, <2>2, Zenon
<1>7. bound' \in Instance \cup {0} /\ life' = [j \in Instance |-> life'[j]]
  BY Zenon DEF OnceInv
<1> QED
  BY <1>4, <1>5, <1>6, <1>7, OncePrimed, Zenon

\* The steps of a call, one case per action.
LEMMA CallOnce ==
    ASSUME CallsInv, OnceInv, NEW c \in Call, Lookup(c) \/ CallStep(c)
    PROVE  OnceInv'
<1> DEFINE i == call[c].of
           s == conn[i]
           zero == [j \in Instance |-> 0]
<1>0. DOMAIN call[c] = DOMAIN NoCall /\ CallOK(c, call[c], s) /\ (i \in Instance => SlotOK(s) /\ StreamOK(i, s))
  BY Zenon DEF CallsInv, OnceInv
<1>a. call[c].pc \in Holding => i \in Instance /\ s.holder = c /\ SlotOK(s) /\ StreamOK(i, s)
  BY <1>0, Zenon DEF CallOK
<1>b. \A j \in Instance : ExecutedOK(call[c], s, j, applied[c][j], life[j])
  BY Zenon DEF OnceInv
<1>c. /\ applied' = applied => applied' = [applied EXCEPT ![c] = applied[c]]
      /\ applied[c] = [j \in Instance |-> applied[c][j]]
  BY Zenon DEF OnceInv
<1>d. ASSUME NEW pc \in {"done", "failed"}, Returns(c, pc), call[c].pc \notin Holding,
             UNCHANGED <<conn, life, bound>>
      PROVE  OnceInv'
  <2> DEFINE q == [NoCall EXCEPT !.pc = pc]
  <2>1. call' = [call EXCEPT ![c] = q] /\ applied' = [applied EXCEPT ![c] = zero]
    BY <1>d, Zenon DEF Returns
  <2>2. q.pc \notin Holding
    BY CallFields, Zenon DEF Holding
  <2>3. zero = [j \in Instance |-> zero[j]] /\ \A j \in Instance : zero[j] = 0
    BY Zenon
  <2> HIDE DEF q, zero
  <2> QED
    BY <1>d, <2>1, <2>2, <2>3, OnceAlone, Zenon
<1>e. ASSUME Returns(c, "failed"), call[c].pc \in Holding, NEW r, SlotBecomes(c, r),
             r.holder = 0, UNCHANGED <<life, bound>>,
             r.open => r.to \in Instance /\ life[r.to] = "up",
             ~r.open => r.requests = <<>> /\ r.serving = 0
      PROVE  OnceInv'
  <2> DEFINE q == [NoCall EXCEPT !.pc = "failed"]
  <2>1. call' = [call EXCEPT ![c] = q] /\ applied' = [applied EXCEPT ![c] = zero]
    BY <1>e, Zenon DEF Returns
  <2>2. q.pc = "failed" /\ q.pc \notin Holding
    BY CallFields, Zenon DEF Holding
  <2>3. zero = [j \in Instance |-> zero[j]] /\ \A j \in Instance : zero[j] = 0
    BY Zenon
  <2>4. conn' = [conn EXCEPT ![i] = r]
    BY <1>e, Zenon DEF SlotBecomes
  <2> HIDE DEF q, zero, s
  <2>5. \A j \in Instance : ExecutedOK(q, r, j, zero[j], life[j])
    BY <2>2, <2>3, Zenon DEF ExecutedOK
  <2>6. i \in Instance /\ conn[i].holder = c
    BY <1>a, <1>e, Zenon DEF s
  <2> HIDE DEF i
  <2>7. i = call[c].of
    BY Zenon DEF i
  <2> QED
    BY <1>e, <2>1, <2>2, <2>3, <2>4, <2>5, <2>6, <2>7, OnceOnSlot, Zenon
<1>f. ASSUME NEW pc \in Holding, NEW r, GoesTo(c, pc), SlotBecomes(c, r),
             i \in Instance, s.holder \in {0, c}, r.holder = c, UNCHANGED <<applied, life, bound>>,
             r.open => r.to \in Instance /\ life[r.to] = "up",
             ~r.open => r.requests = <<>> /\ r.serving = 0,
             \A j \in Instance : applied[c][j] = 1 /\ call[c].kind \in {"inject", "resize", "tag"}
                                     => life[j] \in Over
      PROVE  OnceInv'
  <2> DEFINE q == [call[c] EXCEPT !.pc = pc]
  <2>1. q.pc = pc /\ q.of = i /\ q.kind = call[c].kind
    BY <1>0, CallFields, Zenon
  <2>2. call' = [call EXCEPT ![c] = q]
    BY <1>f, Zenon DEF GoesTo, CallsInv
  <2>3. conn' = [conn EXCEPT ![i] = r]
    BY <1>f, Zenon DEF SlotBecomes
  <2> HIDE DEF q
  <2>4. \A j \in Instance : ExecutedOK(q, r, j, applied[c][j], life[j])
    BY <1>b, <1>f, <2>1, Zenon DEF ExecutedOK, Holding, Resting
  <2> HIDE DEF i
  <2>5. i = call[c].of
    BY Zenon DEF i
  <2> QED
    BY <1>c, <1>f, <2>1, <2>2, <2>3, <2>4, <2>5, OnceOnSlot, Zenon
<1>1. CASE Lookup(c)
  <2>1. call[c].pc = "idle" /\ UNCHANGED <<conn, life, bound>>
    BY <1>1, Zenon DEF Lookup, At, nameVars
  <2>2. ASSUME NEW k \in Kind, UNCHANGED applied,
               call' = [call EXCEPT ![c] = [NoCall EXCEPT !.kind = k, !.of = instance, !.pc = "lock"]]
        PROVE  OnceInv'
    <3> DEFINE q == [NoCall EXCEPT !.kind = k, !.of = instance, !.pc = "lock"]
    <3>1. q.pc = "lock"
      BY CallFields, Zenon
    <3>2. call' = [call EXCEPT ![c] = q]
      BY <2>2, Zenon
    <3>3. \A j \in Instance : applied[c][j] = 0
      BY <1>b, <2>1, Zenon DEF ExecutedOK, Resting
    <3> HIDE DEF q
    <3>4. call[c].pc \notin Holding /\ q.pc \notin Holding
      BY <2>1, <3>1, Zenon DEF Holding
    <3>5. applied' = [applied EXCEPT ![c] = applied[c]] /\ applied[c] = [j \in Instance |-> applied[c][j]]
      BY <1>c, <2>2, Zenon
    <3>6. UNCHANGED <<conn, life, bound>>
      BY <2>1, Zenon
    <3> QED
      BY <3>2, <3>3, <3>4, <3>5, <3>6, OnceAlone, Zenon
  <2>3. ASSUME Returns(c, "failed") PROVE OnceInv'
    BY <1>d, <2>1, <2>3, Zenon DEF Holding
  <2> QED
    BY <1>1, <2>2, <2>3, Zenon DEF Lookup
<1>2. CASE Lock(c)
  <2> DEFINE l == [s EXCEPT !.holder = c]
  <2>1. call[c].pc = "lock" /\ i \in Instance /\ s.holder = 0 /\ UNCHANGED <<applied, life, bound>>
    BY <1>0, <1>2, Zenon DEF Lock, At, LockFree, Slot, CallOK, nameVars
  <2>2. /\ DOMAIN l = DOMAIN NoConn /\ l.holder = c /\ l.to = s.to /\ l.open = s.open
        /\ l.requests = s.requests /\ l.serving = s.serving
    BY <1>0, <2>1, ConnFields, Zenon DEF SlotOK
  <2>3. \A j \in Instance : applied[c][j] = 0
    BY <1>b, <2>1, Zenon DEF ExecutedOK, Resting
  <2>4. \/ SlotBecomes(c, Written(l, c)) /\ GoesTo(c, "reuse")
        \/ SlotBecomes(c, l) /\ GoesTo(c, "connect")
    BY <1>2, Zenon DEF Lock, Slot
  <2>5. /\ l.open => l.to \in Instance /\ life[l.to] = "up"
        /\ ~l.open => l.requests = <<>> /\ l.serving = 0
    BY <1>0, <2>1, <2>2, Zenon DEF StreamOK
  <2> HIDE DEF l
  <2>6. LET w == Written(l, c)
        IN  /\ w.holder = c /\ w.open = l.open /\ w.to = l.to
            /\ ~w.open => w.requests = <<>> /\ w.serving = 0
    BY <2>2, <2>5, ConnFields, Zenon DEF Written
  <2>7. CASE SlotBecomes(c, l) /\ GoesTo(c, "connect")
    BY <1>f, <2>1, <2>2, <2>3, <2>5, <2>7, SMTT(30) DEF Holding
  <2>8. CASE SlotBecomes(c, Written(l, c)) /\ GoesTo(c, "reuse")
    BY <1>f, <2>1, <2>3, <2>5, <2>6, <2>8 DEF Holding
  <2> QED
    BY <2>4, <2>7, <2>8, Zenon
<1>3. CASE Read(c)
  <2> DEFINE r == Unlocked([s EXCEPT !.replies = Tail(@)])
             q == [call[c] EXCEPT !.pc = "replied", !.reply = Head(s.replies),
                                  !.from = IF call[c].kind = "tag" THEN s.to ELSE 0]
  <2>1. i \in Instance /\ s.holder = c /\ SlotOK(s) /\ StreamOK(i, s)
    BY <1>3, <1>a, Zenon DEF Read, Holding
  <2>2. q.pc = "replied" /\ q.kind = call[c].kind
    BY <1>0, CallFields, Zenon
  <2>3. /\ r.holder = 0 /\ r.open = s.open /\ r.to = s.to
        /\ r.requests = s.requests /\ r.serving = s.serving
    BY <2>1, ConnFields, Zenon DEF Unlocked, SlotOK
  <2>4. call' = [call EXCEPT ![c] = q]
    BY <1>3, <1>0, CallFields, Zenon DEF Read, CallsInv, Slot
  <2>5. conn' = [conn EXCEPT ![i] = r] /\ UNCHANGED <<applied, life, bound>>
    BY <1>3, Zenon DEF Read, SlotBecomes, Slot, nameVars
  <2> HIDE DEF q, r
  <2>6. \A j \in Instance : ExecutedOK(q, r, j, applied[c][j], life[j])
    BY <1>b, <2>2, Zenon DEF ExecutedOK, Holding, Resting
  <2>7. q.pc \notin Holding
    BY <2>2, Zenon DEF Holding
  <2>8. /\ r.open => r.to \in Instance /\ life[r.to] = "up"
        /\ ~r.open => r.requests = <<>> /\ r.serving = 0
    BY <2>1, <2>3, Zenon DEF StreamOK
  <2> QED
    BY <1>c, <2>1, <2>3, <2>4, <2>5, <2>6, <2>7, <2>8, OnceOnSlot, Zenon
<1>4. CASE ReuseFails(c)
  <2>1. call[c].pc \in Holding /\ UNCHANGED <<applied, life, bound>>
    BY <1>4, Zenon DEF ReuseFails, At, Holding, nameVars
  <2>2. SlotBecomes(c, Cleared(s)) /\ GoesTo(c, "connect")
    BY <1>4, Zenon DEF ReuseFails, Slot
  <2>3. Cleared(s).holder = c /\ ~Cleared(s).open /\ Cleared(s).requests = <<>> /\ Cleared(s).serving = 0
    BY <1>a, <2>1, Zenon DEF Cleared, NoConn
  <2>4. Quiet(s)
    BY <1>4, <1>a, <2>1, Zenon DEF ReuseFails, Broken, Slot, StreamOK, Quiet
  <2>5. \A j \in Instance : applied[c][j] = 1 /\ call[c].kind \in {"inject", "resize", "tag"}
            => life[j] \in Over
    BY <1>b, <2>1, <2>4, Zenon DEF ExecutedOK
  <2> QED
    BY <1>a, <1>f, <2>1, <2>2, <2>3, <2>5, Zenon DEF Holding
<1>5. CASE Connect(c)
  <2> DEFINE r == [Cleared(s) EXCEPT !.to = bound, !.open = TRUE]
  <2>1. call[c].pc \in Holding /\ Quiet(s) /\ bound \in Instance /\ life[bound] = "up"
        /\ UNCHANGED <<applied, life, bound>>
    BY <1>0, <1>5, Zenon DEF Connect, At, Holding, CallOK, nameVars, OnceInv
  <2>2. r.holder = c /\ r.open = TRUE /\ r.to = bound /\ DOMAIN r = DOMAIN NoConn
    BY <1>a, <2>1, Zenon DEF Cleared, NoConn
  <2>3. SlotBecomes(c, Written(r, c)) /\ GoesTo(c, "fresh")
    BY <1>5, Zenon DEF Connect, Slot
  <2> HIDE DEF r
  <2>4. Written(r, c).holder = c /\ Written(r, c).open = TRUE /\ Written(r, c).to = bound
    BY <2>2, ConnFields, Zenon DEF Written
  <2>5. \A j \in Instance : applied[c][j] = 1 /\ call[c].kind \in {"inject", "resize", "tag"}
            => life[j] \in Over
    BY <1>b, <2>1, Zenon DEF ExecutedOK
  <2> QED
    BY <1>a, <1>f, <2>1, <2>3, <2>4, <2>5, Zenon DEF Holding
<1>6. CASE ConnectFails(c)
  <2>1. call[c].pc \in Holding /\ UNCHANGED <<life, bound>>
    BY <1>6, Zenon DEF ConnectFails, At, Holding, nameVars
  <2>2. LET u == Unlocked(s)
        IN  u.holder = 0 /\ u.open = s.open /\ u.to = s.to /\ u.requests = s.requests /\ u.serving = s.serving
    BY <1>a, <2>1, ConnFields, Zenon DEF Unlocked, SlotOK
  <2>3. Returns(c, "failed") /\ SlotBecomes(c, Unlocked(s))
    BY <1>6, Zenon DEF ConnectFails, Slot
  <2> QED
    BY <1>a, <1>e, <2>1, <2>2, <2>3, Zenon DEF StreamOK
<1>7. CASE FreshFails(c)
  <2>1. call[c].pc \in Holding /\ UNCHANGED <<life, bound>>
    BY <1>7, Zenon DEF FreshFails, At, Holding, nameVars
  <2>2. LET u == Unlocked(Cleared(s))
        IN  u.holder = 0 /\ u.open = FALSE /\ u.requests = <<>> /\ u.serving = 0
    BY Zenon DEF Unlocked, Cleared, NoConn
  <2>3. Returns(c, "failed") /\ SlotBecomes(c, Unlocked(Cleared(s)))
    BY <1>7, Zenon DEF FreshFails, Slot
  <2> QED
    BY <1>e, <2>1, <2>2, <2>3, Zenon
<1>8. CASE InjectReturns(c) \/ ScreenshotReturns(c) \/ ResizeReturns(c) \/ TagReturns(c)
  BY <1>8, <1>d, Zenon
  DEF InjectReturns, ScreenshotReturns, ResizeReturns, TagReturns, nameVars, Replied, At, Holding
<1>9. CASE IdleReturns(c)
  <2>1. UNCHANGED <<conn, life, bound>> /\ call[c].pc \notin Holding
    BY <1>9, Zenon DEF IdleReturns, nameVars, Replied, At, Holding
  <2>2. ASSUME call' = [call EXCEPT ![c] = [NoCall EXCEPT !.kind = "idle", !.of = instance, !.pc = "lock",
                                                          !.polls = call[c].polls + 1]],
               applied' = [applied EXCEPT ![c] = zero]
        PROVE  OnceInv'
    <3> DEFINE q == [NoCall EXCEPT !.kind = "idle", !.of = instance, !.pc = "lock",
                                   !.polls = call[c].polls + 1]
    <3>1. q.pc \notin Holding
      BY CallFields, Zenon DEF Holding
    <3>2. call' = [call EXCEPT ![c] = q]
      BY <2>2, Zenon
    <3>3. zero = [j \in Instance |-> zero[j]] /\ \A j \in Instance : zero[j] = 0
      BY Zenon
    <3> HIDE DEF q, zero
    <3> QED
      BY <2>1, <2>2, <3>1, <3>2, <3>3, OnceAlone, Zenon
  <2>3. ASSUME NEW pc \in {"done", "failed"}, Returns(c, pc) PROVE OnceInv'
    BY <1>d, <2>1, <2>3, Zenon
  <2> QED
    BY <1>9, <2>2, <2>3, Zenon DEF IdleReturns
<1> QED
  BY <1>1, <1>2, <1>3, <1>4, <1>5, <1>6, <1>7, <1>8, <1>9, Zenon DEF CallStep

\* A step of the process behind connection i, on behalf of the call that holds it.
LEMMA OnceServes ==
    ASSUME CallsInv, OnceInv, NEW i \in Instance, NEW r, NEW c \in Call, NEW a,
           c = conn[i].holder, conn' = [conn EXCEPT ![i] = r], UNCHANGED <<call, life, bound>>,
           applied' = [applied EXCEPT ![c] = a], a = [j \in Instance |-> a[j]],
           r.open => r.to \in Instance /\ life[r.to] = "up",
           ~r.open => r.requests = <<>> /\ r.serving = 0, r.holder = c,
           \A j \in Instance : ExecutedOK(call[c], r, j, a[j], life[j])
    PROVE  OnceInv'
<1>0. StreamOK(i, conn[i]) /\ c # 0
  BY NotZero, Zenon DEF OnceInv
<1>1. call[c].of = i /\ call[c].pc \in Holding
  BY <1>0, Zenon DEF StreamOK
<1>2. call' = [call EXCEPT ![c] = call[c]]
  BY Zenon DEF CallsInv
<1> QED
  BY <1>1, <1>2, OnceOnSlot, ZenonT(30)

\* The steps of the processes and of the registry, one case per action.
LEMMA InstanceOnce ==
    ASSUME CallsInv, OnceInv, NEW i \in Instance,
           InstanceStep(i) \/ Create(i) \/ Destroy(i) \/ InstanceDies(i)
    PROVE  OnceInv'
<1> DEFINE s == conn[i]
           c == s.holder
<1>0. SlotOK(s) /\ StreamOK(i, s)
  BY Zenon DEF CallsInv, OnceInv
<1>a. c # 0 => /\ c \in Call /\ call[c].of = i /\ call[c].pc \in Holding
               /\ \A j \in Instance : ExecutedOK(call[c], s, j, applied[c][j], life[j])
               /\ applied[c] = [j \in Instance |-> applied[c][j]]
               /\ applied = [applied EXCEPT ![c] = applied[c]]
  BY <1>0, Zenon DEF StreamOK, OnceInv
<1>1. CASE Dispatch(i)
  <2> DEFINE r == [s EXCEPT !.requests = Tail(@), !.serving = Head(s.requests)]
             a == [applied[c] EXCEPT ![s.to] = @ + 1]
  <2>1. s.open /\ s.requests = <<c>> /\ s.serving = 0 /\ s.replies = <<>> /\ c # 0
    BY <1>0, <1>1, Zenon DEF Dispatch, SlotOK, Carries, Quiet
  <2>2. s.to \in Instance /\ life[s.to] = "up"
    BY <1>0, <2>1, Zenon DEF StreamOK
  <2>3. /\ DOMAIN r = DOMAIN NoConn /\ r.holder = c /\ r.open = s.open /\ r.to = s.to
        /\ r.requests = <<>> /\ r.serving = c /\ r.replies = <<>>
    <3>1. /\ DOMAIN r = DOMAIN NoConn /\ r.holder = c /\ r.open = s.open /\ r.to = s.to
          /\ r.requests = Tail(s.requests) /\ r.serving = Head(s.requests) /\ r.replies = s.replies
      BY <1>0, ConnFields, Zenon DEF SlotOK
    <3>2. Tail(s.requests) = <<>> /\ Head(s.requests) = c /\ s.replies = <<>>
      BY <2>1
    <3> QED
      BY <3>1, <3>2, Zenon
  <2>4. conn' = [conn EXCEPT ![i] = r] /\ UNCHANGED <<call, life, bound>>
    BY <1>0, <1>1, ConnFields, Zenon DEF Dispatch, CallsInv, SlotOK, nameVars
  <2>5. Head(s.requests) = c
    BY <2>1
  <2>6. applied' = [applied EXCEPT ![c] = a]
    BY <1>1, <1>a, <2>1, <2>5, Zenon DEF Dispatch, OnceInv
  <2>7. a = [j \in Instance |-> IF j = s.to THEN applied[c][j] + 1 ELSE applied[c][j]]
    BY <1>a, <2>1, <2>2, Zenon
  <2> HIDE DEF r, a
  <2>8. a = [j \in Instance |-> a[j]]
    BY <2>7, Zenon
  <2>9. ASSUME NEW j \in Instance PROVE ExecutedOK(call[c], r, j, a[j], life[j])
    <3>1. ExecutedOK(call[c], s, j, applied[c][j], life[j]) /\ call[c].pc \in Holding
      BY <1>a, <2>1, Zenon
    <3>2. CASE j = s.to
      <4>1. call[c].kind \in {"inject", "resize", "tag"} => applied[c][j] = 0
        BY <2>1, <2>2, <3>1, <3>2 DEF ExecutedOK, Over
      <4>2. a[j] = applied[c][j] + 1
        BY <2>7, <3>2, Zenon
      <4>3. ~Quiet(r)
        BY <2>1, <2>3, Zenon DEF Quiet
      <4>4. call[c].pc \notin Resting
        BY <3>1, Zenon DEF Holding, Resting
      <4>5. call[c].kind \in {"inject", "resize", "tag"} => a[j] \in {0, 1}
        BY <4>1, <4>2
      <4> QED
        BY <2>3, <3>2, <4>3, <4>4, <4>5, ZenonT(30) DEF ExecutedOK
    <3>3. CASE j # s.to
      <4>1. a[j] = applied[c][j]
        BY <2>7, <3>3, Zenon
      <4> QED
        BY <2>1, <3>1, <3>3, <4>1, Zenon DEF ExecutedOK
    <3> QED
      BY <3>2, <3>3, Zenon
  <2> QED
    BY <1>a, <2>1, <2>2, <2>3, <2>4, <2>6, <2>8, <2>9, OnceServes, ZenonT(30)
<1>2. CASE Respond(i)
  <2>1. s.open /\ s.requests = <<>> /\ s.serving = c /\ s.replies = <<>> /\ c # 0
    BY <1>0, <1>2, Zenon DEF Respond, SlotOK, Carries, Quiet
  <2>2. s.to \in Instance /\ life[s.to] = "up"
    BY <1>0, <2>1, Zenon DEF StreamOK
  <2>3. UNCHANGED <<call, applied, life, bound>>
    BY <1>2, Zenon DEF Respond, nameVars
  <2>4. ASSUME conn' = [conn EXCEPT ![i].serving = 0, ![i].replies = Append(@, s.serving)]
        PROVE  OnceInv'
    <3> DEFINE r == [s EXCEPT !.serving = 0, !.replies = Append(@, s.serving)]
    <3>1. /\ r.holder = c /\ r.open = s.open /\ r.to = s.to
          /\ r.requests = <<>> /\ r.replies = <<c>>
      <4>1. /\ r.holder = c /\ r.open = s.open /\ r.to = s.to
            /\ r.requests = s.requests /\ r.replies = Append(s.replies, s.serving)
        BY <1>0, ConnFields, Zenon DEF SlotOK
      <4>2. s.requests = <<>> /\ Append(s.replies, s.serving) = <<c>>
        BY <2>1
      <4> QED
        BY <4>1, <4>2, Zenon
    <3>2. conn' = [conn EXCEPT ![i] = r]
      BY <1>0, <2>4, ConnFields, Zenon DEF CallsInv, SlotOK
    <3> HIDE DEF r
    <3>3. ~Quiet(r)
      BY <3>1 DEF Quiet
    <3>4. \A j \in Instance : ExecutedOK(call[c], r, j, applied[c][j], life[j])
      BY <1>a, <2>1, <3>1, <3>3, Zenon DEF ExecutedOK
    <3>5. applied' = [applied EXCEPT ![c] = applied[c]] /\ applied[c] = [j \in Instance |-> applied[c][j]]
      BY <1>a, <2>1, <2>3, Zenon
    <3>6. /\ r.open => r.to \in Instance /\ life[r.to] = "up"
          /\ ~r.open => r.requests = <<>> /\ r.serving = 0
      BY <2>1, <2>2, <3>1, Zenon
    <3>7. c \in Call /\ c = conn[i].holder /\ r.holder = c
      BY <1>a, <2>1, <3>1, Zenon
    <3> HIDE DEF c, s
    <3> QED
      BY <2>3, <3>2, <3>4, <3>5, <3>6, <3>7, OnceServes, Zenon
  <2>5. ASSUME conn' = [conn EXCEPT ![i].serving = 0, ![i].open = FALSE], call[c].kind = "screenshot"
        PROVE  OnceInv'
    <3> DEFINE r == [s EXCEPT !.serving = 0, !.open = FALSE]
    <3>1. r.holder = c /\ r.open = FALSE /\ r.requests = <<>> /\ r.serving = 0
      BY <1>0, <2>1, ConnFields, Zenon DEF SlotOK
    <3>2. conn' = [conn EXCEPT ![i] = r]
      BY <1>0, <2>5, ConnFields, Zenon DEF CallsInv, SlotOK
    <3> HIDE DEF r
    <3>3. \A j \in Instance : ExecutedOK(call[c], r, j, applied[c][j], life[j])
      BY <1>a, <2>1, <2>5, Zenon DEF ExecutedOK
    <3> QED
      BY <1>a, <2>1, <2>3, <3>1, <3>2, <3>3, OnceServes, Zenon
  <2> QED
    BY <1>2, <2>1, <2>4, <2>5, Zenon DEF Respond
<1>3. ASSUME UNCHANGED <<call, conn, applied>>, bound' \in Instance \cup {0}, NEW l,
             life' = [life EXCEPT ![i] = l], life[i] # "up", life[i] \in Over => l \in Over
      PROVE  OnceInv'
  <2>1. life' = [j \in Instance |-> IF j = i THEN l ELSE life[j]]
    BY <1>3, Zenon DEF OnceInv
  <2>2. life' = [j \in Instance |-> life'[j]]
    BY <2>1, Zenon
  <2>3. \A j \in Instance : (life[j] = "up" => life'[j] = "up") /\ (life[j] \in Over => life'[j] \in Over)
    BY <1>3, <2>1, Zenon
  <2>4. ASSUME NEW j \in Instance
        PROVE  /\ conn'[j].open => conn'[j].to \in Instance /\ life'[conn'[j].to] = "up"
               /\ ~conn'[j].open => conn'[j].requests = <<>> /\ conn'[j].serving = 0
               /\ conn'[j].holder # 0 => /\ conn'[j].holder \in Call
                                         /\ call'[conn'[j].holder].pc \in Holding
                                         /\ call'[conn'[j].holder].of = j
    BY <1>3, <2>3, Zenon DEF OnceInv, StreamOK
  <2>5. ASSUME NEW d \in Call, NEW j \in Instance
        PROVE  ExecutedOK(call'[d], conn'[call'[d].of], j, applied'[d][j], life'[j])
    <3>1. ExecutedOK(call[d], conn[call[d].of], j, applied[d][j], life[j])
      BY Zenon DEF OnceInv
    <3> QED
      BY <1>3, <2>3, <3>1, Zenon DEF ExecutedOK
  <2>6. applied' = [d \in Call |-> [j \in Instance |-> applied'[d][j]]]
    BY <1>3, Zenon DEF OnceInv
  <2> QED
    BY <1>3, <2>2, <2>4, <2>5, <2>6, OncePrimed, Zenon
<1>4. CASE Create(i)
  BY <1>3, <1>4, Zenon DEF Create, rpcVars, Over
<1>5. CASE SupervisorRemoves(i)
  BY <1>3, <1>5, Zenon DEF SupervisorRemoves, rpcVars, Over, OnceInv
<1>6. CASE SupervisorCleans(i)
  BY <1>3, <1>6, ZenonT(30) DEF SupervisorCleans, rpcVars, Over
<1>7. CASE Destroy(i)
  BY <1>7 DEF Destroy, rpcVars, OnceInv, StreamOK, ExecutedOK, Quiet
<1>8. CASE InstanceDies(i)
  <2>1. /\ UNCHANGED <<call, applied, bound>> /\ life[i] = "up"
        /\ life' = [j \in Instance |-> IF j = i THEN "dead" ELSE life[j]]
    BY <1>8, Zenon DEF InstanceDies, OnceInv
  <2>2. life' = [j \in Instance |-> life'[j]]
    BY <2>1, Zenon
  <2>3. ASSUME NEW j \in Instance
        PROVE  IF conn[j].to = i
               THEN /\ conn'[j].open = FALSE /\ conn'[j].requests = <<>> /\ conn'[j].serving = 0
                    /\ conn'[j].holder = conn[j].holder /\ conn'[j].to = conn[j].to
               ELSE conn'[j] = conn[j]
    <3>1. DOMAIN conn[j] = DOMAIN NoConn
      BY Zenon DEF CallsInv, SlotOK
    <3>2. conn'[j] = IF conn[j].to = i
                     THEN [conn[j] EXCEPT !.open = FALSE, !.requests = <<>>, !.serving = 0] ELSE conn[j]
      BY <1>8, Zenon DEF InstanceDies
    <3> QED
      BY <3>1, <3>2, ConnFields, Zenon
  <2>4. ASSUME NEW j \in Instance
        PROVE  /\ conn'[j].open => conn'[j].to \in Instance /\ life'[conn'[j].to] = "up"
               /\ ~conn'[j].open => conn'[j].requests = <<>> /\ conn'[j].serving = 0
               /\ conn'[j].holder # 0 => /\ conn'[j].holder \in Call
                                         /\ call'[conn'[j].holder].pc \in Holding
                                         /\ call'[conn'[j].holder].of = j
    <3>1. StreamOK(j, conn[j])
      BY Zenon DEF OnceInv
    <3>2. CASE conn[j].to = i
      BY <2>1, <2>3, <3>1, <3>2, Zenon DEF StreamOK
    <3>3. CASE conn[j].to # i
      BY <2>1, <2>3, <3>1, <3>3, Zenon DEF StreamOK
    <3> QED
      BY <3>2, <3>3, Zenon
  <2>5. ASSUME NEW d \in Call, NEW j \in Instance
        PROVE  ExecutedOK(call'[d], conn'[call'[d].of], j, applied'[d][j], life'[j])
    <3>1. ExecutedOK(call[d], conn[call[d].of], j, applied[d][j], life[j])
          /\ CallOK(d, call[d], conn[call[d].of])
      BY Zenon DEF OnceInv, CallsInv
    <3>2. CASE j = i
      BY <2>1, <3>1, <3>2, Zenon DEF ExecutedOK, Over
    <3>3. CASE j # i
      <4>1. call[d].pc \in Holding /\ conn[call[d].of].to = j => conn'[call[d].of] = conn[call[d].of]
        BY <2>3, <3>1, <3>3, Zenon DEF CallOK
      <4> QED
        BY <2>1, <3>1, <3>3, <4>1, Zenon DEF ExecutedOK
    <3> QED
      BY <3>2, <3>3, Zenon
  <2>6. applied' = [d \in Call |-> [j \in Instance |-> applied'[d][j]]] /\ bound' \in Instance \cup {0}
    BY <2>1, Zenon DEF OnceInv
  <2> QED
    BY <2>2, <2>4, <2>5, <2>6, OncePrimed, Zenon
<1> QED
  BY <1>1, <1>2, <1>4, <1>5, <1>6, <1>7, <1>8, Zenon DEF InstanceStep

\* session_control() retries on a fresh connection whenever the cached one fails,
\* and still no process executes an injected input, a resize or a tagging twice:
\* for any number of calls and instances, whoever dies or is replaced meanwhile.
THEOREM Once == CallsSpec => []ExecutedOnce
<1>1. CallsInit => OnceInv
  <2> SUFFICES ASSUME CallsInit PROVE OnceInv
    BY Zenon
  <2>1. \A i \in Instance : StreamOK(i, conn[i])
    BY Zenon DEF CallsInit, NoConn, StreamOK
  <2>2. \A c \in Call, i \in Instance : ExecutedOK(call[c], conn[call[c].of], i, applied[c][i], life[i])
    BY Zenon DEF CallsInit, NoCall, ExecutedOK, Holding
  <2> QED
    BY <2>1, <2>2, Zenon DEF CallsInit, OnceInv
<1>2. CallsInv /\ OnceInv /\ [CallsNext]_callsVars => CallsInv' /\ OnceInv'
  <2>1. ASSUME CallsInv, OnceInv, UNCHANGED callsVars PROVE CallsInv' /\ OnceInv'
    <3>1. CallsInv'
      BY <2>1, Zenon DEF callsVars, rpcVars, nameVars, CallsInv, CallOK, SlotOK, Carries, Quiet
    <3>2. OnceInv'
      <4>1. UNCHANGED <<call, conn, applied, life, bound>>
        BY <2>1, Zenon DEF callsVars, rpcVars, nameVars
      <4> QED
        BY <2>1, <4>1, SMTT(30) DEF OnceInv, StreamOK, ExecutedOK, Quiet
    <3> QED
      BY <3>1, <3>2, Zenon
  <2> QED
    BY <2>1, CallKeeps, InstanceKeeps, CallOnce, InstanceOnce, Zenon DEF CallsNext
<1>3. OnceInv => ExecutedOnce
  BY DEF OnceInv, ExecutedOK, ExecutedOnce
<1>4. CallsSpec => CallsInit /\ [][CallsNext]_callsVars
  BY Zenon DEF CallsSpec, callsVars
<1> QED
  BY <1>1, <1>2, <1>3, <1>4, CallsInitially, PTL
===============================================================================

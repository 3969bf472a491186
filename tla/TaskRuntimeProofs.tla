------------------------- MODULE TaskRuntimeProofs -------------------------
(* Type correctness of TaskRuntime, exactness of its slot counter and the    *)
(* ownership of results, for any finite set of tasks, any pool size and any  *)
(* number of slots.                                                        *)
EXTENDS TaskRuntime, FiniteSetTheorems, TLAPS

\* What the counter rests on: a caller that is about to compare-exchange is
\* spawning a detached task and has seen a free slot; tasks in a scope, the
\* only ones that are aborted in bulk, are not detached.
SlotInv ==
    /\ \A a \in Actors : pc[a] \in {"acquire", "cas"} => call[a] = "detached"
    /\ \A a \in Actors : pc[a] = "cas" => loaded[a] < MaxDetached
    /\ \A t \in Tasks : st[t] = "new" => kind[t] = "none"
    /\ \A a \in Actors : \A t \in joinSet[a] : kind[t] = "scope"

IInv == TypeOK /\ SlotInv /\ DetachedAccounting

-----------------------------------------------------------------------------

\* The sets that the counter counts are finite.
LEMMA FiniteSlots ==
    /\ IsFiniteSet(Slots) /\ Cardinality(Slots) \in Nat
    /\ IsFiniteSet(LiveDetached) /\ Cardinality(LiveDetached) \in Nat
<1>1. IsFiniteSet(Actors)
  BY TasksFinite, FS_AddElement DEF Actors
<1>2. Slots \in SUBSET Actors /\ LiveDetached \in SUBSET Tasks
  BY DEF Slots, LiveDetached
<1> QED
  BY <1>1, <1>2, TasksFinite, FS_Subset, FS_CardinalityType

\* A task body that is detached and running holds a slot.
LEMMA RunningHoldsSlot ==
    ASSUME IInv, NEW t \in Tasks, kind[t] = "detached", st[t] = "running"
    PROVE  count > 0
<1>1. t \in LiveDetached
  BY DEF LiveDetached
<1>2. Cardinality(LiveDetached) # 0
  BY <1>1, FiniteSlots, FS_EmptySet
<1> QED
  BY <1>2, FiniteSlots DEF IInv, DetachedAccounting

-----------------------------------------------------------------------------
\* Every step keeps the types: TypeOK' holds after any action.
LEMMA TypeStep == IInv /\ [Next]_vars => TypeOK'
<1> SUFFICES ASSUME IInv, [Next]_vars PROVE TypeOK'
  OBVIOUS
<1> USE DEF taskVars, actorVars, scopeVars, Return, Status, Finished, Kinds,
            Owners, Places, Scopes
<1>t. TypeOK
  BY DEF IInv
<1>1. ASSUME NEW a \in Actors, NEW k \in Calls, BeginSpawn(a, k) PROVE TypeOK'
  BY <1>1, <1>t, CallsAreKinds DEF BeginSpawn, TypeOK
<1>2. ASSUME NEW a \in Actors, AcquireLoad(a) PROVE TypeOK'
  BY <1>2, <1>t DEF AcquireLoad, TypeOK
<1>3. ASSUME NEW a \in Actors, AcquireCas(a) PROVE TypeOK'
  BY <1>3, <1>t DEF AcquireCas, TypeOK
<1>4. ASSUME NEW a \in Actors, AcquireRetry(a) PROVE TypeOK'
  BY <1>4, <1>t DEF AcquireRetry, TypeOK
<1>5. ASSUME NEW a \in Actors, NEW t \in Tasks, Enqueue(a, t) PROVE TypeOK'
  BY <1>5, <1>t DEF Enqueue, TypeOK
<1>6. ASSUME NEW a \in Actors, NEW t \in Tasks, AwaitBegin(a, t) PROVE TypeOK'
  BY <1>6, <1>t DEF AwaitBegin, TypeOK
<1>7. ASSUME NEW a \in Actors, NEW t \in Tasks, Cancel(a, t) PROVE TypeOK'
  BY <1>7, <1>t DEF Cancel, Aborted, Dropped, TypeOK
<1>8. ASSUME NEW a \in Actors, NEW t \in Tasks, Free(a, t) PROVE TypeOK'
  BY <1>8, <1>t DEF Free, Dropped, TypeOK
<1>9. ASSUME NEW a \in Actors, AwaitReturn(a) PROVE TypeOK'
  BY <1>9, <1>t DEF AwaitReturn, TypeOK
<1>10. ASSUME NEW a \in Actors, TimeoutFires(a) PROVE TypeOK'
  BY <1>10, <1>t DEF TimeoutFires, Dropped, TypeOK
<1>11. ASSUME NEW a \in Actors, ScopeCreate(a) PROVE TypeOK'
  BY <1>11, <1>t DEF ScopeCreate, TypeOK
<1>12. ASSUME NEW a \in Actors, ScopeWaitBegin(a) PROVE TypeOK'
  BY <1>12, <1>t DEF ScopeWaitBegin, TypeOK
<1>13. ASSUME NEW a \in Actors, NEW t \in Tasks, JoinOk(a, t) PROVE TypeOK'
  BY <1>13, <1>t DEF JoinOk, TypeOK
<1>14. ASSUME NEW a \in Actors, NEW t \in Tasks, JoinErr(a, t) PROVE TypeOK'
  BY <1>14, <1>t DEF JoinErr, Aborted, Dropped, TypeOK
<1>15. ASSUME NEW a \in Actors, ScopeWaitOk(a) PROVE TypeOK'
  BY <1>15, <1>t DEF ScopeWaitOk, TypeOK
<1>16. ASSUME NEW a \in Actors, ScopeFree(a) PROVE TypeOK'
  BY <1>16, <1>t DEF ScopeFree, Aborted, Dropped, TypeOK
<1>17. ASSUME NEW t \in Tasks, StartTask(t) PROVE TypeOK'
  BY <1>17, <1>t DEF StartTask, TypeOK
<1>18. ASSUME NEW t \in Tasks, NEW r \in Finished, FinishTask(t, r) PROVE TypeOK'
  <2>1. st[t] = "running"
    BY <1>18, MainIsNotATask DEF FinishTask, AtWork
  <2>2. count' \in Nat
    BY <2>1, <1>18, <1>t, RunningHoldsSlot DEF FinishTask, TypeOK
  <2> QED
    BY <2>2, <1>18, <1>t DEF FinishTask, TypeOK
<1>19. CASE Shutdown
  BY <1>19, <1>t DEF Shutdown, TypeOK
<1>20. CASE UNCHANGED vars
  BY <1>20, <1>t DEF vars, TypeOK
<1> QED
  BY <1>1, <1>2, <1>3, <1>4, <1>5, <1>6, <1>7, <1>8, <1>9, <1>10, <1>11,
     <1>12, <1>13, <1>14, <1>15, <1>16, <1>17, <1>18, <1>19, <1>20
     DEF Next, ActorStep, PoolStep

-----------------------------------------------------------------------------
\* Every step keeps SlotInv.
LEMMA SlotStep == IInv /\ [Next]_vars => SlotInv'
<1> SUFFICES ASSUME IInv, [Next]_vars PROVE SlotInv'
  OBVIOUS
<1> USE DEF taskVars, actorVars, scopeVars, Return
<1>t. TypeOK /\ SlotInv
  BY DEF IInv
<1>0. \A u \in Tasks : u \in Actors
  BY DEF Actors
<1>1. ASSUME NEW a \in Actors, NEW k \in Calls, BeginSpawn(a, k) PROVE SlotInv'
  BY <1>1, <1>t DEF BeginSpawn, TypeOK, SlotInv
<1>2. ASSUME NEW a \in Actors, AcquireLoad(a) PROVE SlotInv'
  <2>1. CASE count >= MaxDetached
    BY <1>2, <2>1, <1>t DEF AcquireLoad, TypeOK, SlotInv
  <2>2. CASE ~(count >= MaxDetached)
    <3>1. /\ pc[a] = "acquire" /\ pc' = [pc EXCEPT ![a] = "cas"] /\ loaded' = [loaded EXCEPT ![a] = count]
          /\ UNCHANGED <<call, shutdown, count, taskVars, target, scopeVars>>
      BY <1>2, <2>2 DEF AcquireLoad
    <3>2. count < MaxDetached
      BY <2>2, <1>t, SlotsAreNat DEF TypeOK
    <3> QED
      BY <3>1, <3>2, <1>t DEF TypeOK, SlotInv
  <2> QED
    BY <2>1, <2>2
<1>3. ASSUME NEW a \in Actors, AcquireCas(a) PROVE SlotInv'
  BY <1>3, <1>t DEF AcquireCas, TypeOK, SlotInv
<1>4. ASSUME NEW a \in Actors, AcquireRetry(a) PROVE SlotInv'
  BY <1>4, <1>t DEF AcquireRetry, TypeOK, SlotInv
<1>5. ASSUME NEW a \in Actors, NEW t \in Tasks, Enqueue(a, t) PROVE SlotInv'
  BY <1>5, <1>t DEF Enqueue, TypeOK, SlotInv
<1>6. ASSUME NEW a \in Actors, NEW t \in Tasks, AwaitBegin(a, t) PROVE SlotInv'
  BY <1>6, <1>t DEF AwaitBegin, TypeOK, SlotInv
<1>7. ASSUME NEW a \in Actors, NEW t \in Tasks, Cancel(a, t) PROVE SlotInv'
  BY <1>7, <1>t DEF Cancel, Aborted, TypeOK, SlotInv
<1>8. ASSUME NEW a \in Actors, NEW t \in Tasks, Free(a, t) PROVE SlotInv'
  BY <1>8, <1>t DEF Free, TypeOK, SlotInv
<1>9. ASSUME NEW a \in Actors, AwaitReturn(a) PROVE SlotInv'
  BY <1>9, <1>t DEF AwaitReturn, TypeOK, SlotInv
<1>10. ASSUME NEW a \in Actors, TimeoutFires(a) PROVE SlotInv'
  BY <1>10, <1>t DEF TimeoutFires, TypeOK, SlotInv
<1>11. ASSUME NEW a \in Actors, ScopeCreate(a) PROVE SlotInv'
  BY <1>11, <1>t DEF ScopeCreate, TypeOK, SlotInv
<1>12. ASSUME NEW a \in Actors, ScopeWaitBegin(a) PROVE SlotInv'
  BY <1>12, <1>t DEF ScopeWaitBegin, TypeOK, SlotInv
<1>13. ASSUME NEW a \in Actors, NEW t \in Tasks, JoinOk(a, t) PROVE SlotInv'
  BY <1>13, <1>t DEF JoinOk, TypeOK, SlotInv
<1>14. ASSUME NEW a \in Actors, NEW t \in Tasks, JoinErr(a, t) PROVE SlotInv'
  BY <1>14, <1>t DEF JoinErr, Aborted, TypeOK, SlotInv
<1>15. ASSUME NEW a \in Actors, ScopeWaitOk(a) PROVE SlotInv'
  BY <1>15, <1>t DEF ScopeWaitOk, TypeOK, SlotInv
<1>16. ASSUME NEW a \in Actors, ScopeFree(a) PROVE SlotInv'
  BY <1>16, <1>t DEF ScopeFree, Aborted, TypeOK, SlotInv
<1>17. ASSUME NEW t \in Tasks, StartTask(t) PROVE SlotInv'
  BY <1>17, <1>t DEF StartTask, TypeOK, SlotInv
<1>18. ASSUME NEW t \in Tasks, NEW r \in Finished, FinishTask(t, r) PROVE SlotInv'
  BY <1>18, <1>t DEF FinishTask, TypeOK, SlotInv, Finished
<1>19. CASE Shutdown
  BY <1>19, <1>t DEF Shutdown, SlotInv
<1>20. CASE UNCHANGED vars
  BY <1>20, <1>t DEF vars, SlotInv
<1> QED
  BY <1>1, <1>2, <1>3, <1>4, <1>5, <1>6, <1>7, <1>8, <1>9, <1>10, <1>11,
     <1>12, <1>13, <1>14, <1>15, <1>16, <1>17, <1>18, <1>19, <1>20
     DEF Next, ActorStep, PoolStep

-----------------------------------------------------------------------------
\* Every step keeps the counter exact.  Only four actions move it or the sets
\* it counts: the compare-exchange, the queueing of a detached task, the start
\* of a task (which stays live) and the end of a detached task.
LEMMA AccountingStep == IInv /\ [Next]_vars => DetachedAccounting'
<1> SUFFICES ASSUME IInv, [Next]_vars PROVE DetachedAccounting'
  OBVIOUS
<1> USE DEF taskVars, actorVars, scopeVars, Return
<1>t. TypeOK /\ SlotInv /\ DetachedAccounting
  BY DEF IInv
<1>0. ASSUME count' = count, Slots' = Slots, LiveDetached' = LiveDetached
      PROVE  DetachedAccounting'
  BY <1>0, <1>t DEF DetachedAccounting
<1>1. ASSUME NEW a \in Actors, NEW k \in Calls, BeginSpawn(a, k)
      PROVE DetachedAccounting'
  <2>1. Slots' = Slots
    BY <1>1, <1>t DEF BeginSpawn, AtWork, TypeOK, Slots
  <2> QED
    BY <2>1, <1>0, <1>1 DEF BeginSpawn, LiveDetached
<1>2. ASSUME NEW a \in Actors, AcquireLoad(a) PROVE DetachedAccounting'
  <2>1. Slots' = Slots
    BY <1>2, <1>t DEF AcquireLoad, TypeOK, Slots
  <2> QED
    BY <2>1, <1>0, <1>2 DEF AcquireLoad, LiveDetached
<1>3. ASSUME NEW a \in Actors, AcquireCas(a) PROVE DetachedAccounting'
  <2>1. Slots' = Slots \cup {a} /\ a \notin Slots
    BY <1>3, <1>t DEF AcquireCas, TypeOK, SlotInv, Slots
  <2>2. Cardinality(Slots') = Cardinality(Slots) + 1
    BY <2>1, FiniteSlots, FS_AddElement
  <2>3. LiveDetached' = LiveDetached
    BY <1>3 DEF AcquireCas, LiveDetached
  <2>4. count' = count + 1 /\ count < MaxDetached
    BY <1>3, <1>t DEF AcquireCas, SlotInv
  <2> QED
    BY <2>2, <2>3, <2>4, <1>t, FiniteSlots, SlotsAreNat DEF DetachedAccounting, TypeOK
<1>4. ASSUME NEW a \in Actors, AcquireRetry(a) PROVE DetachedAccounting'
  <2>1. Slots' = Slots
    BY <1>4, <1>t DEF AcquireRetry, TypeOK, Slots
  <2> QED
    BY <2>1, <1>0, <1>4 DEF AcquireRetry, LiveDetached
<1>5. ASSUME NEW a \in Actors, NEW t \in Tasks, Enqueue(a, t)
      PROVE DetachedAccounting'
  <2>1. CASE call[a] = "detached"
    <3>1. Slots' = Slots \ {a} /\ a \in Slots
      BY <2>1, <1>5, <1>t DEF Enqueue, TypeOK, Slots
    <3>2. LiveDetached' = LiveDetached \cup {t} /\ t \notin LiveDetached
      BY <2>1, <1>5, <1>t DEF Enqueue, TypeOK, LiveDetached
    <3>3. Cardinality(Slots') = Cardinality(Slots) - 1
      BY <3>1, FiniteSlots, FS_RemoveElement
    <3>4. Cardinality(LiveDetached') = Cardinality(LiveDetached) + 1
      BY <3>2, FiniteSlots, FS_AddElement
    <3> QED
      BY <3>3, <3>4, <1>5, <1>t, FiniteSlots DEF Enqueue, DetachedAccounting
  <2>2. CASE call[a] # "detached"
    <3>1. Slots' = Slots
      BY <2>2, <1>5, <1>t DEF Enqueue, TypeOK, Slots
    <3>2. LiveDetached' = LiveDetached
      BY <2>2, <1>5, <1>t DEF Enqueue, TypeOK, LiveDetached
    <3> QED
      BY <3>1, <3>2, <1>0, <1>5 DEF Enqueue
  <2> QED
    BY <2>1, <2>2
<1>6. ASSUME NEW a \in Actors, NEW t \in Tasks, AwaitBegin(a, t)
      PROVE DetachedAccounting'
  <2>1. Slots' = Slots
    BY <1>6, <1>t DEF AwaitBegin, Holds, AtWork, TypeOK, Slots
  <2> QED
    BY <2>1, <1>0, <1>6 DEF AwaitBegin, LiveDetached
<1>7. ASSUME NEW a \in Actors, NEW t \in Tasks, Cancel(a, t)
      PROVE DetachedAccounting'
  <2>1. LiveDetached' = LiveDetached
    BY <1>7, <1>t DEF Cancel, Holds, Aborted, TypeOK, LiveDetached
  <2> QED
    BY <2>1, <1>0, <1>7 DEF Cancel, Slots
<1>8. ASSUME NEW a \in Actors, NEW t \in Tasks, Free(a, t)
      PROVE DetachedAccounting'
  BY <1>0, <1>8 DEF Free, Slots, LiveDetached
<1>9. ASSUME NEW a \in Actors, AwaitReturn(a) PROVE DetachedAccounting'
  <2>1. Slots' = Slots
    BY <1>9, <1>t DEF AwaitReturn, TypeOK, Slots
  <2> QED
    BY <2>1, <1>0, <1>9 DEF AwaitReturn, LiveDetached
<1>10. ASSUME NEW a \in Actors, TimeoutFires(a) PROVE DetachedAccounting'
  <2>1. Slots' = Slots
    BY <1>10, <1>t DEF TimeoutFires, TypeOK, Slots
  <2> QED
    BY <2>1, <1>0, <1>10 DEF TimeoutFires, LiveDetached
<1>11. ASSUME NEW a \in Actors, ScopeCreate(a) PROVE DetachedAccounting'
  BY <1>0, <1>11 DEF ScopeCreate, Slots, LiveDetached
<1>12. ASSUME NEW a \in Actors, ScopeWaitBegin(a) PROVE DetachedAccounting'
  <2>1. Slots' = Slots
    BY <1>12, <1>t DEF ScopeWaitBegin, AtWork, TypeOK, Slots
  <2> QED
    BY <2>1, <1>0, <1>12 DEF ScopeWaitBegin, LiveDetached
<1>13. ASSUME NEW a \in Actors, NEW t \in Tasks, JoinOk(a, t)
       PROVE DetachedAccounting'
  BY <1>0, <1>13 DEF JoinOk, Slots, LiveDetached
<1>14. ASSUME NEW a \in Actors, NEW t \in Tasks, JoinErr(a, t)
       PROVE DetachedAccounting'
  <2>1. Slots' = Slots
    BY <1>14, <1>t DEF JoinErr, TypeOK, Slots
  <2>2. LiveDetached' = LiveDetached
    BY <1>14, <1>t DEF JoinErr, Aborted, TypeOK, SlotInv, LiveDetached
  <2> QED
    BY <2>1, <2>2, <1>0, <1>14 DEF JoinErr
<1>15. ASSUME NEW a \in Actors, ScopeWaitOk(a) PROVE DetachedAccounting'
  <2>1. Slots' = Slots
    BY <1>15, <1>t DEF ScopeWaitOk, TypeOK, Slots
  <2> QED
    BY <2>1, <1>0, <1>15 DEF ScopeWaitOk, LiveDetached
<1>16. ASSUME NEW a \in Actors, ScopeFree(a) PROVE DetachedAccounting'
  <2>1. LiveDetached' = LiveDetached
    BY <1>16, <1>t DEF ScopeFree, Aborted, TypeOK, SlotInv, LiveDetached
  <2> QED
    BY <2>1, <1>0, <1>16 DEF ScopeFree, Slots
<1>17. ASSUME NEW t \in Tasks, StartTask(t) PROVE DetachedAccounting'
  <2>1. LiveDetached' = LiveDetached
    BY <1>17, <1>t DEF StartTask, TypeOK, LiveDetached
  <2> QED
    BY <2>1, <1>0, <1>17 DEF StartTask, Slots
<1>18. ASSUME NEW t \in Tasks, NEW r \in Finished, FinishTask(t, r)
       PROVE DetachedAccounting'
  <2>0. st[t] = "running"
    BY <1>18, MainIsNotATask DEF FinishTask, AtWork
  <2>s. Slots' = Slots
    BY <1>18 DEF FinishTask, Slots
  <2>1. CASE kind[t] = "detached"
    <3>1. LiveDetached' = LiveDetached \ {t} /\ t \in LiveDetached
      BY <2>0, <2>1, <1>18, <1>t DEF FinishTask, TypeOK, LiveDetached, Finished
    <3>2. Cardinality(LiveDetached') = Cardinality(LiveDetached) - 1
      BY <3>1, FiniteSlots, FS_RemoveElement
    <3>3. count' = count - 1
      BY <2>1, <1>18 DEF FinishTask
    <3> QED
      BY <2>s, <3>2, <3>3, <1>t, FiniteSlots, SlotsAreNat
         DEF DetachedAccounting, TypeOK
  <2>2. CASE kind[t] # "detached"
    <3>1. LiveDetached' = LiveDetached
      BY <2>2, <1>18, <1>t DEF FinishTask, TypeOK, LiveDetached
    <3> QED
      BY <3>1, <2>s, <2>2, <1>0, <1>18 DEF FinishTask
  <2> QED
    BY <2>1, <2>2
<1>19. CASE Shutdown
  BY <1>0, <1>19 DEF Shutdown, Slots, LiveDetached
<1>20. CASE UNCHANGED vars
  BY <1>0, <1>20 DEF vars, Slots, LiveDetached
<1> QED
  BY <1>1, <1>2, <1>3, <1>4, <1>5, <1>6, <1>7, <1>8, <1>9, <1>10, <1>11,
     <1>12, <1>13, <1>14, <1>15, <1>16, <1>17, <1>18, <1>19, <1>20
     DEF Next, ActorStep, PoolStep

-----------------------------------------------------------------------------
\* The runtime starts with its invariant.
LEMMA InitIInv == Init => IInv
<1> SUFFICES ASSUME Init PROVE IInv
  OBVIOUS
<1>1. TypeOK
  BY DEF Init, TypeOK, Status, Kinds, Owners, Places, Scopes, Actors
<1>2. SlotInv
  BY DEF Init, SlotInv
<1>3. Slots = {} /\ LiveDetached = {}
  BY DEF Init, Slots, LiveDetached
<1>4. DetachedAccounting
  BY <1>3, FS_EmptySet, SlotsAreNat DEF Init, DetachedAccounting
<1> QED
  BY <1>1, <1>2, <1>4 DEF IInv

\* The invariant is inductive.
LEMMA IInvariant == Spec => []IInv
<1>1. IInv /\ [Next]_vars => IInv'
  BY TypeStep, SlotStep, AccountingStep DEF IInv
<1> QED
  BY InitIInv, <1>1, PTL DEF Spec

\* Every reachable state of the runtime is well typed; in particular the slot
\* counter (an AtomicUsize in the code) never goes below zero.
THEOREM TypeCorrect == Spec => []TypeOK
<1>1. IInv => TypeOK
  BY DEF IInv
<1> QED
  BY IInvariant, <1>1, PTL

\* The slot counter is exact and bounded for every number of tasks, threads
\* and slots.
THEOREM SlotsExact == Spec => []DetachedAccounting
<1>1. IInv => DetachedAccounting
  BY DEF IInv
<1> QED
  BY IInvariant, <1>1, PTL

-----------------------------------------------------------------------------
\* What the ownership of results rests on: a task that has not ended has no
\* result; a task under await or doo_timeout was spawned for it; the members of a
\* scope belong to its creator alone, and while the scope is open each of them is
\* still in the JoinSet or has been collected, the latter only inside the wait.
OwnInv ==
    /\ \A t \in Tasks : st[t] \notin Finished => res[t] = "none"
    /\ \A t \in handle : st[t] # "new"
    /\ \A a \in Actors : pc[a] \in {"await", "timed"} =>
          target[a] \in Tasks /\ kind[target[a]] \in {"handle", "timeout"}
    /\ \A a \in Actors : pc[a] = "enqueue" /\ call[a] = "scope" => scope[a] = "open"
    /\ \A a \in Actors : pc[a] = "wait" => scope[a] = "open"
    /\ \A a \in Actors : scope[a] # "open" => joinSet[a] = {} /\ okResults[a] = {}
    /\ \A a \in Actors : \A t \in member[a] : kind[t] = "scope" /\ parent[t] = a
    /\ \A a \in Actors : joinSet[a] \cup okResults[a] \subseteq member[a]
    /\ \A a \in Actors : scope[a] = "open" => member[a] \subseteq joinSet[a] \cup okResults[a]
    /\ \A a \in Actors : \A t \in okResults[a] : st[t] = "ok"
    /\ \A a \in Actors : okResults[a] # {} => pc[a] = "wait"

RInv == OwnInv /\ ResultsSafe

\* Every step keeps OwnInv.
LEMMA OwnStep == IInv /\ RInv /\ [Next]_vars => OwnInv'
<1> SUFFICES ASSUME IInv, RInv, [Next]_vars PROVE OwnInv'
  OBVIOUS
<1> USE DEF taskVars, actorVars, scopeVars, Return, Finished
<1>t. TypeOK /\ SlotInv /\ OwnInv /\ ResultsSafe
  BY DEF IInv, RInv
<1>0. \A u \in Tasks : u \in Actors
  BY DEF Actors
<1>1. ASSUME NEW a \in Actors, NEW k \in Calls, BeginSpawn(a, k) PROVE OwnInv'
  BY <1>1, <1>t DEF BeginSpawn, AtWork, TypeOK, SlotInv, OwnInv, ResultsSafe, ResultsOwned
<1>2. ASSUME NEW a \in Actors, AcquireLoad(a) PROVE OwnInv'
  <2>1. /\ pc[a] = "acquire" /\ \E x \in {"idle", "cas"} : pc' = [pc EXCEPT ![a] = x]
        /\ call' = call \/ call' = [call EXCEPT ![a] = "none"]
        /\ UNCHANGED <<shutdown, count, taskVars, target, scopeVars>>
    BY <1>2 DEF AcquireLoad
  <2> QED
    BY <2>1, <1>t DEF TypeOK, OwnInv
<1>3. ASSUME NEW a \in Actors, AcquireCas(a) PROVE OwnInv'
  BY <1>3, <1>t DEF AcquireCas, TypeOK, SlotInv, OwnInv, ResultsSafe, ResultsOwned
<1>4. ASSUME NEW a \in Actors, AcquireRetry(a) PROVE OwnInv'
  BY <1>4, <1>t DEF AcquireRetry, TypeOK, SlotInv, OwnInv, ResultsSafe, ResultsOwned
<1>5. ASSUME NEW a \in Actors, NEW t \in Tasks, Enqueue(a, t) PROVE OwnInv'
  BY <1>5, <1>t DEF Enqueue, TypeOK, SlotInv, OwnInv, ResultsSafe, ResultsOwned
<1>6. ASSUME NEW a \in Actors, NEW t \in Tasks, AwaitBegin(a, t) PROVE OwnInv'
  BY <1>6, <1>t DEF AwaitBegin, Holds, AtWork, TypeOK, SlotInv, OwnInv, ResultsSafe, ResultsOwned
<1>7. ASSUME NEW a \in Actors, NEW t \in Tasks, Cancel(a, t) PROVE OwnInv'
  BY <1>7, <1>t DEF Cancel, Holds, Aborted, Dropped, TypeOK, SlotInv, OwnInv, ResultsSafe, ResultsOwned
<1>8. ASSUME NEW a \in Actors, NEW t \in Tasks, Free(a, t) PROVE OwnInv'
  BY <1>8, <1>t DEF Free, Holds, Dropped, TypeOK, SlotInv, OwnInv, ResultsSafe, ResultsOwned
<1>9. ASSUME NEW a \in Actors, AwaitReturn(a) PROVE OwnInv'
  BY <1>9, <1>t DEF AwaitReturn, TypeOK, SlotInv, OwnInv, ResultsSafe, ResultsOwned
<1>10. ASSUME NEW a \in Actors, TimeoutFires(a) PROVE OwnInv'
  BY <1>10, <1>t DEF TimeoutFires, Dropped, TypeOK, SlotInv, OwnInv, ResultsSafe, ResultsOwned
<1>11. ASSUME NEW a \in Actors, ScopeCreate(a) PROVE OwnInv'
  BY <1>11, <1>t DEF ScopeCreate, AtWork, TypeOK, SlotInv, OwnInv, ResultsSafe, ResultsOwned
<1>12. ASSUME NEW a \in Actors, ScopeWaitBegin(a) PROVE OwnInv'
  BY <1>12, <1>t DEF ScopeWaitBegin, AtWork, TypeOK, SlotInv, OwnInv, ResultsSafe, ResultsOwned
<1>13. ASSUME NEW a \in Actors, NEW t \in Tasks, JoinOk(a, t) PROVE OwnInv'
  BY <1>13, <1>t DEF JoinOk, TypeOK, SlotInv, OwnInv, ResultsSafe, ResultsOwned
<1>14. ASSUME NEW a \in Actors, NEW t \in Tasks, JoinErr(a, t) PROVE OwnInv'
  BY <1>14, <1>t DEF JoinErr, Aborted, Dropped, TypeOK, SlotInv, OwnInv, ResultsSafe, ResultsOwned
<1>15. ASSUME NEW a \in Actors, ScopeWaitOk(a) PROVE OwnInv'
  BY <1>15, <1>t DEF ScopeWaitOk, TypeOK, SlotInv, OwnInv, ResultsSafe, ResultsOwned
<1>16. ASSUME NEW a \in Actors, ScopeFree(a) PROVE OwnInv'
  BY <1>16, <1>t DEF ScopeFree, AtWork, Aborted, Dropped, TypeOK, SlotInv, OwnInv, ResultsSafe, ResultsOwned
<1>17. ASSUME NEW t \in Tasks, StartTask(t) PROVE OwnInv'
  BY <1>17, <1>t DEF StartTask, TypeOK, SlotInv, OwnInv, ResultsSafe, ResultsOwned
<1>18. ASSUME NEW t \in Tasks, NEW r \in Finished, FinishTask(t, r) PROVE OwnInv'
  BY <1>18, <1>t, <1>0, MainIsNotATask DEF FinishTask, AtWork, TypeOK, SlotInv, OwnInv, ResultsSafe, ResultsOwned
<1>19. CASE Shutdown
  BY <1>19, <1>t DEF Shutdown, SlotInv, OwnInv, ResultsSafe, ResultsOwned
<1>20. CASE UNCHANGED vars
  BY <1>20, <1>t DEF vars, SlotInv, OwnInv, ResultsSafe, ResultsOwned
<1> QED
  BY <1>1, <1>2, <1>3, <1>4, <1>5, <1>6, <1>7, <1>8, <1>9, <1>10, <1>11,
     <1>12, <1>13, <1>14, <1>15, <1>16, <1>17, <1>18, <1>19, <1>20
     DEF Next, ActorStep, PoolStep

-----------------------------------------------------------------------------
\* Every step keeps the owners of results and the meaning of a scope's Ok.
LEMMA ResultsStep == IInv /\ RInv /\ [Next]_vars => ResultsSafe'
<1> SUFFICES ASSUME IInv, RInv, [Next]_vars PROVE ResultsSafe'
  OBVIOUS
<1> USE DEF taskVars, actorVars, scopeVars, Return, Finished
<1>t. TypeOK /\ SlotInv /\ OwnInv /\ ResultsSafe
  BY DEF IInv, RInv
<1>0. \A u \in Tasks : u \in Actors
  BY DEF Actors
<1>1. ASSUME NEW a \in Actors, NEW k \in Calls, BeginSpawn(a, k) PROVE ResultsSafe'
  BY <1>1, <1>t DEF BeginSpawn, AtWork, TypeOK, SlotInv, OwnInv, ResultsSafe, ResultsOwned, ScopeOkComplete
<1>2. ASSUME NEW a \in Actors, AcquireLoad(a) PROVE ResultsSafe'
  BY <1>2, <1>t DEF AcquireLoad, TypeOK, SlotInv, OwnInv, ResultsSafe, ResultsOwned, ScopeOkComplete
<1>3. ASSUME NEW a \in Actors, AcquireCas(a) PROVE ResultsSafe'
  BY <1>3, <1>t DEF AcquireCas, TypeOK, SlotInv, OwnInv, ResultsSafe, ResultsOwned, ScopeOkComplete
<1>4. ASSUME NEW a \in Actors, AcquireRetry(a) PROVE ResultsSafe'
  BY <1>4, <1>t DEF AcquireRetry, TypeOK, SlotInv, OwnInv, ResultsSafe, ResultsOwned, ScopeOkComplete
<1>5. ASSUME NEW a \in Actors, NEW t \in Tasks, Enqueue(a, t) PROVE ResultsSafe'
  BY <1>5, <1>t DEF Enqueue, TypeOK, SlotInv, OwnInv, ResultsSafe, ResultsOwned, ScopeOkComplete
<1>6. ASSUME NEW a \in Actors, NEW t \in Tasks, AwaitBegin(a, t) PROVE ResultsSafe'
  BY <1>6, <1>t DEF AwaitBegin, Holds, AtWork, TypeOK, SlotInv, OwnInv, ResultsSafe, ResultsOwned, ScopeOkComplete
<1>7. ASSUME NEW a \in Actors, NEW t \in Tasks, Cancel(a, t) PROVE ResultsSafe'
  BY <1>7, <1>t DEF Cancel, Holds, Aborted, Dropped, TypeOK, SlotInv, OwnInv, ResultsSafe, ResultsOwned, ScopeOkComplete
<1>8. ASSUME NEW a \in Actors, NEW t \in Tasks, Free(a, t) PROVE ResultsSafe'
  BY <1>8, <1>t DEF Free, Holds, Dropped, TypeOK, SlotInv, OwnInv, ResultsSafe, ResultsOwned, ScopeOkComplete
<1>9. ASSUME NEW a \in Actors, AwaitReturn(a) PROVE ResultsSafe'
  <2>1. PICK x \in Tasks : x = target[a] /\ kind[x] \in {"handle", "timeout"}
    BY <1>9, <1>t DEF AwaitReturn, OwnInv
  <2>2. \A b \in Actors : x \notin member[b] /\ x \notin joinSet[b] /\ x \notin okResults[b]
    BY <2>1, <1>t DEF OwnInv
  <2>3. /\ handle' = handle \ {x} /\ \A u \in Tasks : u # x => res'[u] = res[u]
        /\ UNCHANGED <<st, kind, scope, member, joinSet, okResults>>
    BY <1>9, <2>1, <1>t DEF AwaitReturn, TypeOK
  <2>4. ScopeOkComplete'
    BY <2>2, <2>3, <1>t DEF TypeOK, ResultsSafe, ScopeOkComplete
  <2>5. ResultsOwned'
    BY <2>2, <2>3, <1>t DEF TypeOK, ResultsSafe, ResultsOwned
  <2> QED
    BY <2>4, <2>5 DEF ResultsSafe
<1>10. ASSUME NEW a \in Actors, TimeoutFires(a) PROVE ResultsSafe'
  <2>1. PICK x \in Tasks : x = target[a] /\ kind[x] \in {"handle", "timeout"}
    BY <1>10, <1>t DEF TimeoutFires, OwnInv
  <2>2. \A b \in Actors : x \notin member[b] /\ x \notin joinSet[b] /\ x \notin okResults[b]
    BY <2>1, <1>t DEF OwnInv
  <2>3. /\ handle' = handle \ {x} /\ \A u \in Tasks : u # x => res'[u] = res[u]
        /\ UNCHANGED <<st, kind, scope, member, joinSet, okResults>>
    BY <1>10, <2>1, <1>t DEF TimeoutFires, Dropped, TypeOK
  <2>4. ScopeOkComplete'
    BY <2>2, <2>3, <1>t DEF TypeOK, ResultsSafe, ScopeOkComplete
  <2>5. ResultsOwned'
    BY <2>2, <2>3, <1>t DEF TypeOK, ResultsSafe, ResultsOwned
  <2> QED
    BY <2>4, <2>5 DEF ResultsSafe
<1>11. ASSUME NEW a \in Actors, ScopeCreate(a) PROVE ResultsSafe'
  BY <1>11, <1>t DEF ScopeCreate, AtWork, TypeOK, SlotInv, OwnInv, ResultsSafe, ResultsOwned, ScopeOkComplete
<1>12. ASSUME NEW a \in Actors, ScopeWaitBegin(a) PROVE ResultsSafe'
  BY <1>12, <1>t DEF ScopeWaitBegin, AtWork, TypeOK, SlotInv, OwnInv, ResultsSafe, ResultsOwned, ScopeOkComplete
<1>13. ASSUME NEW a \in Actors, NEW t \in Tasks, JoinOk(a, t) PROVE ResultsSafe'
  BY <1>13, <1>t DEF JoinOk, TypeOK, SlotInv, OwnInv, ResultsSafe, ResultsOwned, ScopeOkComplete
<1>14. ASSUME NEW a \in Actors, NEW t \in Tasks, JoinErr(a, t) PROVE ResultsSafe'
  BY <1>14, <1>t DEF JoinErr, Aborted, Dropped, TypeOK, SlotInv, OwnInv, ResultsSafe, ResultsOwned, ScopeOkComplete
<1>15. ASSUME NEW a \in Actors, ScopeWaitOk(a) PROVE ResultsSafe'
  BY <1>15, <1>t DEF ScopeWaitOk, TypeOK, SlotInv, OwnInv, ResultsSafe, ResultsOwned, ScopeOkComplete
<1>16. ASSUME NEW a \in Actors, ScopeFree(a) PROVE ResultsSafe'
  BY <1>16, <1>t DEF ScopeFree, AtWork, Aborted, Dropped, TypeOK, SlotInv, OwnInv, ResultsSafe, ResultsOwned, ScopeOkComplete
<1>17. ASSUME NEW t \in Tasks, StartTask(t) PROVE ResultsSafe'
  BY <1>17, <1>t DEF StartTask, TypeOK, SlotInv, OwnInv, ResultsSafe, ResultsOwned, ScopeOkComplete
<1>18. ASSUME NEW t \in Tasks, NEW r \in Finished, FinishTask(t, r) PROVE ResultsSafe'
  BY <1>18, <1>t, <1>0, MainIsNotATask DEF FinishTask, AtWork, TypeOK, SlotInv, OwnInv, ResultsSafe, ResultsOwned, ScopeOkComplete
<1>19. CASE Shutdown
  BY <1>19, <1>t DEF Shutdown, SlotInv, OwnInv, ResultsSafe, ResultsOwned, ScopeOkComplete
<1>20. CASE UNCHANGED vars
  BY <1>20, <1>t DEF vars, SlotInv, OwnInv, ResultsSafe, ResultsOwned, ScopeOkComplete
<1> QED
  BY <1>1, <1>2, <1>3, <1>4, <1>5, <1>6, <1>7, <1>8, <1>9, <1>10, <1>11,
     <1>12, <1>13, <1>14, <1>15, <1>16, <1>17, <1>18, <1>19, <1>20
     DEF Next, ActorStep, PoolStep

-----------------------------------------------------------------------------
\* A scope that answers Ok answers for complete success, and a result has one
\* owner, for any number of tasks, threads and slots.
THEOREM ResultsHaveOneOwner == Spec => []ResultsSafe
<1>1. Init => RInv
  BY DEF Init, RInv, OwnInv, ResultsSafe, ScopeOkComplete, ResultsOwned
<1>2. IInv /\ RInv /\ [Next]_vars => RInv'
  BY OwnStep, ResultsStep DEF RInv
<1>3. RInv => ResultsSafe
  BY DEF RInv
<1> QED
  BY IInvariant, <1>1, <1>2, <1>3, PTL DEF Spec
=============================================================================

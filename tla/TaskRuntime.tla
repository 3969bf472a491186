---------------------------- MODULE TaskRuntime ----------------------------
(***************************************************************************)
(* The asynchronous runtime behind `go`, `await` and `scope`               *)
(* (ffi/doo_ffi_runtime): tasks queued on Tokio's bounded blocking pool,   *)
(* task handles, detached tasks with their slot counter, structured scopes *)
(* and the global shutdown flag.                                           *)
(*                                                                         *)
(* An actor is the main thread or a running task body; every actor may     *)
(* call the FFI functions.  Each call is split where another thread can    *)
(* act: after the is_shutdown() check, between the load and the            *)
(* compare-exchange of the slot counter, and while a call blocks.          *)
(***************************************************************************)
EXTENDS Naturals, FiniteSets

CONSTANTS
    Tasks,        \* tasks the program can spawn, a bound on the model
    Main,         \* the main thread
    NoTask,       \* "not blocked on any task"
    Calls,        \* the spawning functions the program uses, among Kinds
    Waiters,      \* the actors whose code awaits tasks or waits for scopes
    MaxBlocking,  \* DOO_MAX_BLOCKING: threads of the blocking pool
    MaxDetached   \* DOO_MAX_DETACHED: slots for detached tasks

ASSUME TasksFinite == IsFiniteSet(Tasks)
ASSUME MainIsNotATask == Main \notin Tasks
ASSUME NoTaskIsNotATask == NoTask \notin Tasks
ASSUME PoolNotEmpty == MaxBlocking \in Nat \ {0}
ASSUME SlotsAreNat == MaxDetached \in Nat

Actors == Tasks \cup {Main}
Kinds  == {"handle", "detached", "timeout", "scope"}
ASSUME CallsAreKinds == Calls \subseteq Kinds
ASSUME WaitersAreActors == Waiters \subseteq Actors

VARIABLES
    shutdown,   \* the flag SHUTDOWN
    count,      \* DETACHED_TASK_COUNT
    st,         \* where each task is: see Status
    kind,       \* which call spawned the task
    parent,     \* the actor that spawned it
    handle,     \* the tasks whose JoinHandle someone still owns
    res,        \* who owns the DooResult the task's body returned
    pc,         \* where each actor is inside an FFI call
    call,       \* the kind of spawn an actor is performing
    loaded,     \* the counter value an actor read in try_acquire_detached_slot
    target,     \* the task an actor is blocked on
    scope,      \* the state of the scope an actor has created
    member,     \* every task spawned into that scope
    joinSet,    \* the tasks still in the scope's JoinSet
    okResults   \* the Ok results doo_scope_wait has collected

vars == <<shutdown, count, st, kind, parent, handle, res, pc, call, loaded,
          target, scope, member, joinSet, okResults>>
taskVars  == <<st, kind, parent, handle, res>>
actorVars == <<pc, call, loaded, target>>
scopeVars == <<scope, member, joinSet, okResults>>

Status   == {"new", "queued", "running", "ok", "err", "aborted"}
Finished == {"ok", "err"}
Owners   == {"none", "held", "taken", "collected", "freed", "leaked"}
Places   == {"idle", "acquire", "cas", "enqueue", "await", "timed", "wait"}
Scopes   == {"none", "open", "ok", "err", "freed"}

TypeOK ==
    /\ shutdown \in BOOLEAN
    /\ count \in Nat
    /\ st \in [Tasks -> Status]
    /\ kind \in [Tasks -> Kinds \cup {"none"}]
    /\ parent \in [Tasks -> Actors]
    /\ handle \subseteq Tasks
    /\ res \in [Tasks -> Owners]
    /\ pc \in [Actors -> Places]
    /\ call \in [Actors -> Kinds \cup {"none"}]
    /\ loaded \in [Actors -> Nat]
    /\ target \in [Actors -> Tasks \cup {NoTask}]
    /\ scope \in [Actors -> Scopes]
    /\ member \in [Actors -> SUBSET Tasks]
    /\ joinSet \in [Actors -> SUBSET Tasks]
    /\ okResults \in [Actors -> SUBSET Tasks]

\* The state after doo_runtime_init, the first FFI call of main.
Init ==
    /\ shutdown = FALSE
    /\ count = 0
    /\ st = [t \in Tasks |-> "new"]
    /\ kind = [t \in Tasks |-> "none"]
    /\ parent = [t \in Tasks |-> Main]
    /\ handle = {}
    /\ res = [t \in Tasks |-> "none"]
    /\ pc = [a \in Actors |-> "idle"]
    /\ call = [a \in Actors |-> "none"]
    /\ loaded = [a \in Actors |-> 0]
    /\ target = [a \in Actors |-> NoTask]
    /\ scope = [a \in Actors |-> "none"]
    /\ member = [a \in Actors |-> {}]
    /\ joinSet = [a \in Actors |-> {}]
    /\ okResults = [a \in Actors |-> {}]

-----------------------------------------------------------------------------
Running == {t \in Tasks : st[t] = "running"}

\* An actor executes its own code between two FFI calls.
AtWork(a) == pc[a] = "idle" /\ (a = Main \/ (a \in Tasks /\ st[a] = "running"))

Return(a) == pc' = [pc EXCEPT ![a] = "idle"]

\* A bound on the model: a spawn begins only while a task is left for it.
TaskLeft ==
    Cardinality({a \in Actors : pc[a] \in {"acquire", "cas", "enqueue"}})
        < Cardinality({t \in Tasks : st[t] = "new"})

\* The result of a task whose JoinHandle goes away: SendResult holds a raw
\* pointer and has no Drop, so a result that is already there is lost.
Dropped(S) ==
    [t \in Tasks |-> IF t \in S /\ res[t] = "held" THEN "leaked" ELSE res[t]]

\* Tokio's abort: a blocking task that has not started is cancelled; one that
\* is running is not affected.
Aborted(S) ==
    [t \in Tasks |-> IF t \in S /\ st[t] = "queued" THEN "aborted" ELSE st[t]]

-----------------------------------------------------------------------------
(* Spawning.  The is_shutdown() check comes first; a call that finds the   *)
(* flag set returns null and changes nothing.                              *)

BeginSpawn(a, k) ==
    /\ AtWork(a)
    /\ TaskLeft
    /\ ~shutdown
    /\ k = "scope" => scope[a] = "open"
    /\ k = "timeout" => a \in Waiters
    /\ call' = [call EXCEPT ![a] = k]
    /\ pc' = [pc EXCEPT ![a] = IF k = "detached" THEN "acquire" ELSE "enqueue"]
    /\ UNCHANGED <<shutdown, count, taskVars, loaded, target, scopeVars>>

\* try_acquire_detached_slot: load the counter; at the maximum the spawn is
\* dropped without a word to the caller.
AcquireLoad(a) ==
    /\ pc[a] = "acquire"
    /\ IF count >= MaxDetached
         THEN Return(a) /\ call' = [call EXCEPT ![a] = "none"] /\ UNCHANGED loaded
         ELSE /\ pc' = [pc EXCEPT ![a] = "cas"]
              /\ loaded' = [loaded EXCEPT ![a] = count]
              /\ UNCHANGED call
    /\ UNCHANGED <<shutdown, count, taskVars, target, scopeVars>>

\* Mutated: an increment that does not compare.
AcquireBlind(a) ==
    /\ pc[a] = "cas"
    /\ count' = count + 1
    /\ loaded' = [loaded EXCEPT ![a] = 0]
    /\ pc' = [pc EXCEPT ![a] = "enqueue"]
    /\ UNCHANGED <<shutdown, taskVars, call, target, scopeVars>>

\* compare_exchange_weak succeeds only on the value loaded.
AcquireCas(a) ==
    /\ pc[a] = "cas"
    /\ count = loaded[a]
    /\ count' = loaded[a] + 1
    /\ loaded' = [loaded EXCEPT ![a] = 0]
    /\ pc' = [pc EXCEPT ![a] = "enqueue"]
    /\ UNCHANGED <<shutdown, taskVars, call, target, scopeVars>>

\* It fails when the counter has moved, and may fail spuriously.
AcquireRetry(a) ==
    /\ pc[a] = "cas"
    /\ pc' = [pc EXCEPT ![a] = "acquire"]
    /\ loaded' = [loaded EXCEPT ![a] = 0]
    /\ UNCHANGED <<shutdown, count, taskVars, call, target, scopeVars>>

\* spawn_blocking queues the closure; what the caller holds afterwards depends
\* on the call: a TaskHandle, nothing, a JoinHandle it waits on, or a JoinSet.
Enqueue(a, t) ==
    /\ pc[a] = "enqueue"
    /\ st[t] = "new"
    /\ st' = [st EXCEPT ![t] = "queued"]
    /\ kind' = [kind EXCEPT ![t] = call[a]]
    /\ parent' = [parent EXCEPT ![t] = a]
    /\ handle' = IF call[a] = "detached" THEN handle ELSE handle \cup {t}
    /\ pc' = [pc EXCEPT ![a] = IF call[a] = "timeout" THEN "timed" ELSE "idle"]
    /\ target' = [target EXCEPT ![a] = IF call[a] = "timeout" THEN t ELSE @]
    /\ member' = [member EXCEPT ![a] = IF call[a] = "scope" THEN @ \cup {t} ELSE @]
    /\ joinSet' = [joinSet EXCEPT ![a] = IF call[a] = "scope" THEN @ \cup {t} ELSE @]
    /\ call' = [call EXCEPT ![a] = "none"]
    /\ UNCHANGED <<shutdown, count, res, loaded, scope, okResults>>

-----------------------------------------------------------------------------
(* The blocking pool.                                                      *)

\* Mutated: shutdown drops what is queued.
StartUnlessShutdown(t) ==
    /\ st[t] = "queued"
    /\ ~shutdown
    /\ Cardinality(Running) < MaxBlocking
    /\ st' = [st EXCEPT ![t] = "running"]
    /\ UNCHANGED <<shutdown, count, kind, parent, handle, res, actorVars, scopeVars>>

StartTask(t) ==
    /\ st[t] = "queued"
    /\ Cardinality(Running) < MaxBlocking
    /\ st' = [st EXCEPT ![t] = "running"]
    /\ UNCHANGED <<shutdown, count, kind, parent, handle, res, actorVars, scopeVars>>

\* Mutated: every body gives a slot back.
FinishAndRelease(t, r) ==
    /\ AtWork(t)
    /\ scope[t] # "open"
    /\ st' = [st EXCEPT ![t] = r]
    /\ res' = [res EXCEPT ![t] = IF t \in handle THEN "held" ELSE "leaked"]
    /\ count' = count - 1
    /\ UNCHANGED <<shutdown, kind, parent, handle, actorVars, scopeVars>>

\* The body returns Ok or Err; a panic is caught and becomes an Err.  A
\* detached task drops DetachedSlotGuard, and nobody keeps its result.
FinishTask(t, r) ==
    /\ AtWork(t)
    /\ scope[t] # "open"
    /\ st' = [st EXCEPT ![t] = r]
    /\ res' = [res EXCEPT ![t] = IF t \in handle THEN "held" ELSE "leaked"]
    /\ count' = IF kind[t] = "detached" THEN count - 1 ELSE count
    /\ UNCHANGED <<shutdown, kind, parent, handle, actorVars, scopeVars>>

-----------------------------------------------------------------------------
(* Task handles.  Await, cancel and free consume the TaskHandle.           *)

Holds(a, t) == AtWork(a) /\ t \in handle /\ kind[t] = "handle" /\ parent[t] = a
               /\ \A b \in Actors : target[b] # t

AwaitBegin(a, t) ==
    /\ Holds(a, t)
    /\ a \in Waiters
    /\ pc' = [pc EXCEPT ![a] = "await"]
    /\ target' = [target EXCEPT ![a] = t]
    /\ UNCHANGED <<shutdown, count, taskVars, call, loaded, scopeVars>>

\* Mutated: only an Ok result wakes the caller.
AwaitOkOnly(a) ==
    /\ pc[a] \in {"await", "timed"}
    /\ st[target[a]] = "ok"
    /\ res' = [res EXCEPT ![target[a]] = "taken"]
    /\ handle' = handle \ {target[a]}
    /\ target' = [target EXCEPT ![a] = NoTask]
    /\ Return(a)
    /\ UNCHANGED <<shutdown, count, st, kind, parent, call, loaded, scopeVars>>

\* The awaited task, or the function run under doo_timeout, has finished in
\* time: its result goes to the caller.
AwaitReturn(a) ==
    /\ pc[a] \in {"await", "timed"}
    /\ st[target[a]] \in Finished
    /\ res' = [res EXCEPT ![target[a]] = "taken"]
    /\ handle' = handle \ {target[a]}
    /\ target' = [target EXCEPT ![a] = NoTask]
    /\ Return(a)
    /\ UNCHANGED <<shutdown, count, st, kind, parent, call, loaded, scopeVars>>

\* doo_timeout: the timer fires first.  The JoinHandle is dropped, the
\* function goes on running.
TimeoutFires(a) ==
    /\ pc[a] = "timed"
    /\ res' = Dropped({target[a]})
    /\ handle' = handle \ {target[a]}
    /\ target' = [target EXCEPT ![a] = NoTask]
    /\ Return(a)
    /\ UNCHANGED <<shutdown, count, st, kind, parent, call, loaded, scopeVars>>

\* Mutated: the handle survives the abort.
CancelKeepsHandle(a, t) ==
    /\ Holds(a, t)
    /\ st' = Aborted({t})
    /\ UNCHANGED <<shutdown, count, kind, parent, handle, res, actorVars, scopeVars>>

Cancel(a, t) ==
    /\ Holds(a, t)
    /\ st' = Aborted({t})
    /\ res' = Dropped({t})
    /\ handle' = handle \ {t}
    /\ UNCHANGED <<shutdown, count, kind, parent, actorVars, scopeVars>>

Free(a, t) ==
    /\ Holds(a, t)
    /\ res' = Dropped({t})
    /\ handle' = handle \ {t}
    /\ UNCHANGED <<shutdown, count, st, kind, parent, actorVars, scopeVars>>

-----------------------------------------------------------------------------
(* Scopes.                                                                 *)

ScopeCreate(a) ==
    /\ AtWork(a)
    /\ a \in Waiters
    /\ "scope" \in Calls
    /\ scope[a] # "open"
    /\ scope' = [scope EXCEPT ![a] = "open"]
    /\ member' = [member EXCEPT ![a] = {}]
    /\ UNCHANGED <<shutdown, count, taskVars, actorVars, joinSet, okResults>>

ScopeWaitBegin(a) ==
    /\ AtWork(a)
    /\ scope[a] = "open"
    /\ pc' = [pc EXCEPT ![a] = "wait"]
    /\ UNCHANGED <<shutdown, count, taskVars, call, loaded, target, scopeVars>>

\* join_next yields a task that returned Ok: its result is collected.
JoinOk(a, t) ==
    /\ pc[a] = "wait"
    /\ t \in joinSet[a]
    /\ st[t] = "ok"
    /\ joinSet' = [joinSet EXCEPT ![a] = @ \ {t}]
    /\ okResults' = [okResults EXCEPT ![a] = @ \cup {t}]
    /\ res' = [res EXCEPT ![t] = "collected"]
    /\ handle' = handle \ {t}
    /\ UNCHANGED <<shutdown, count, st, kind, parent, actorVars, scope, member>>

\* Mutated: the tag of the result is not looked at.
JoinErrAsOk(a, t) ==
    /\ pc[a] = "wait"
    /\ t \in joinSet[a]
    /\ st[t] = "err"
    /\ joinSet' = [joinSet EXCEPT ![a] = @ \ {t}]
    /\ okResults' = [okResults EXCEPT ![a] = @ \cup {t}]
    /\ res' = [res EXCEPT ![t] = "collected"]
    /\ handle' = handle \ {t}
    /\ UNCHANGED <<shutdown, count, st, kind, parent, actorVars, scope, member>>

\* join_next yields an Err: abort the rest, free what was collected, return
\* the error.  The JoinSet is dropped on return.
JoinErr(a, t) ==
    /\ pc[a] = "wait"
    /\ t \in joinSet[a]
    /\ st[t] = "err"
    /\ st' = Aborted(joinSet[a])
    /\ res' = [u \in Tasks |-> IF u = t THEN "taken"
                               ELSE IF u \in okResults[a] THEN "freed"
                               ELSE Dropped(joinSet[a])[u]]
    /\ handle' = handle \ joinSet[a]
    /\ joinSet' = [joinSet EXCEPT ![a] = {}]
    /\ okResults' = [okResults EXCEPT ![a] = {}]
    /\ scope' = [scope EXCEPT ![a] = "err"]
    /\ Return(a)
    /\ UNCHANGED <<shutdown, count, kind, parent, call, loaded, target, member>>

\* Every task has been joined: free the collected results, return Ok.
ScopeWaitOk(a) ==
    /\ pc[a] = "wait"
    /\ joinSet[a] = {}
    /\ res' = [u \in Tasks |-> IF u \in okResults[a] THEN "freed" ELSE res[u]]
    /\ okResults' = [okResults EXCEPT ![a] = {}]
    /\ scope' = [scope EXCEPT ![a] = "ok"]
    /\ Return(a)
    /\ UNCHANGED <<shutdown, count, st, kind, parent, handle, call, loaded,
                   target, member, joinSet>>

\* doo_scope_free: abort everything and drop the scope without waiting.
ScopeFree(a) ==
    /\ AtWork(a)
    /\ scope[a] = "open"
    /\ st' = Aborted(joinSet[a])
    /\ res' = Dropped(joinSet[a])
    /\ handle' = handle \ joinSet[a]
    /\ joinSet' = [joinSet EXCEPT ![a] = {}]
    /\ scope' = [scope EXCEPT ![a] = "freed"]
    /\ UNCHANGED <<shutdown, count, kind, parent, actorVars, member, okResults>>

-----------------------------------------------------------------------------
\* doo_runtime_shutdown only raises the flag (and cancels the global token);
\* tasks that exist run on.
Shutdown ==
    /\ ~shutdown
    /\ shutdown' = TRUE
    /\ UNCHANGED <<count, taskVars, actorVars, scopeVars>>

ActorStep(a) ==
    \/ \E k \in Calls : BeginSpawn(a, k)
    \/ AcquireLoad(a) \/ AcquireCas(a) \/ AcquireRetry(a)
    \/ \E t \in Tasks : Enqueue(a, t)
    \/ \E t \in Tasks : AwaitBegin(a, t) \/ Cancel(a, t) \/ Free(a, t)
    \/ AwaitReturn(a) \/ TimeoutFires(a)
    \/ ScopeCreate(a) \/ ScopeWaitBegin(a)
    \/ \E t \in Tasks : JoinOk(a, t) \/ JoinErr(a, t)
    \/ ScopeWaitOk(a) \/ ScopeFree(a)

PoolStep(t) == StartTask(t) \/ \E r \in Finished : FinishTask(t, r)

Next == (\E a \in Actors : ActorStep(a)) \/ (\E t \in Tasks : PoolStep(t)) \/ Shutdown

Spec == Init /\ [][Next]_vars

-----------------------------------------------------------------------------
(* Fairness.  The thread inside an FFI call keeps running, the pool starts *)
(* a queued task while it has a free thread, and the operating system and  *)
(* the code of the task bodies let every body reach its end: a body may    *)
(* make calls of its own first, hence the strong fairness.  The weak       *)
(* compare-exchange does not fail for ever.  Nothing is assumed of Main,   *)
(* of timers or of shutdown.                                               *)

CallStep(a) ==
    \/ AcquireLoad(a)
    \/ \E t \in Tasks : Enqueue(a, t)
    \/ AwaitReturn(a)
    \/ \E t \in Tasks : JoinOk(a, t) \/ JoinErr(a, t)
    \/ ScopeWaitOk(a)

Fairness ==
    /\ \A a \in Actors : WF_vars(CallStep(a)) /\ SF_vars(AcquireCas(a))
    /\ \A t \in Tasks : WF_vars(StartTask(t))
    /\ \A t \in Tasks : SF_vars(\E r \in Finished : FinishTask(t, r))

FairSpec == Spec /\ Fairness

-----------------------------------------------------------------------------
(* Safety.                                                                 *)

Slots == {a \in Actors : pc[a] = "enqueue" /\ call[a] = "detached"}
LiveDetached == {t \in Tasks : kind[t] = "detached" /\ st[t] \in {"queued", "running"}}

\* The slot counter is exact: every slot belongs to a detached task that has
\* not ended, or to a caller about to queue one; and the maximum is never
\* exceeded, whatever the interleaving of the loads and compare-exchanges in
\* try_acquire_detached_slot with release_detached_slot.
DetachedAccounting ==
    /\ count = Cardinality(Slots) + Cardinality(LiveDetached)
    /\ count <= MaxDetached

\* doo_scope_wait answers Ok only when every task of the scope ran to an Ok
\* result and each of those results has been freed.
ScopeOkComplete ==
    \A a \in Actors : scope[a] = "ok" =>
        \A t \in member[a] : st[t] = "ok" /\ res[t] = "freed"

\* A result is reached through exactly one owner.  A task whose JoinHandle is
\* alive was never aborted, and its result is there, untouched, if it has
\* finished; what doo_scope_wait holds was neither freed nor handed out.
ResultsOwned ==
    /\ \A t \in handle : st[t] # "aborted" /\ (res[t] = "held" <=> st[t] \in Finished)
    /\ \A t \in handle : kind[t] # "detached"
    /\ \A a \in Actors : joinSet[a] \subseteq handle
    /\ \A a \in Actors : \A t \in okResults[a] : res[t] = "collected"

-----------------------------------------------------------------------------
(* Liveness, under FairSpec.                                               *)

\* Every blocking call returns (await, scope wait, timeout).
WaitsReturn ==
    \A a \in Actors : (pc[a] \in {"await", "wait", "timed"}) ~> (pc[a] = "idle")

\* A queued task ends, also after shutdown: doo_runtime_shutdown lets tasks
\* that are in flight complete.
TasksEnd ==
    \A t \in Tasks : (st[t] = "queued") ~> (st[t] \in Finished \cup {"aborted"})

\* Whatever the order in which tasks end and are joined, awaited, cancelled or
\* freed, a scope answers Ok for complete success alone and a result has one owner.
ResultsSafe == ScopeOkComplete /\ ResultsOwned

\* Every blocking call returns and every queued task ends.
EverythingReturns == WaitsReturn /\ TasksEnd
=============================================================================

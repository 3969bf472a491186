-------------------------- MODULE ProcessRegistry --------------------------
(***************************************************************************)
(* Spawned processes (ffi/doo_ffi_process): the global registry of         *)
(* ProcessHandles and the calls spawn, kill, status, isRunning,            *)
(* waitForOutput and shutdown, made by several threads.  A call clones the *)
(* handle out of the map, works on it under the mutex of its child, and    *)
(* then takes the entry out of the map: between these steps other calls    *)
(* act.  The mutex `killed`, which only kill takes and always before the   *)
(* child's, adds nothing to the child's mutex and is left out.             *)
(***************************************************************************)
EXTENDS Naturals, FiniteSets

CONSTANTS
    Procs,       \* handle ids, a bound on the model: each is used once
    Callers,     \* threads that use the library
    MaxSpawned,  \* MAX_SPAWNED_PROCESSES
    Chatty,      \* processes that write more than a pipe or the limit holds
    Daemons,     \* processes that do not exit by themselves
    Shutters,    \* callers that call doo_process_shutdown
    NoProc, Nobody

ASSUME CallersFinite == IsFiniteSet(Callers) /\ Callers # {}
ASSUME ProcsFinite == IsFiniteSet(Procs)
ASSUME LimitIsPositive == MaxSpawned \in Nat \ {0}
ASSUME NamesDistinct == NoProc \notin Procs /\ Nobody \notin Callers
ASSUME SubsetsOK == Chatty \subseteq Procs /\ Daemons \subseteq Procs /\ Shutters \subseteq Callers

VARIABLES
    handles,  \* the keys of the registry
    os,       \* the operating system's view of the process
    blocked,  \* the pipe the process is blocked on, if any
    child,    \* ProcessHandle.child: Some, or None once taken
    exit,     \* ProcessHandle.exit_status is Some
    lock,     \* who holds the mutex of child
    pc,       \* where a caller is
    arg,      \* the process it works on
    todo,     \* the handles a shutdown has still to kill
    answer    \* what a call that is about to remove the handle will return

vars == <<handles, os, blocked, child, exit, lock, pc, arg, todo, answer>>
osVars == <<os, blocked>>

Places == {"idle", "spawn", "kill", "status", "poll", "wait", "stdout",
           "stderr", "reap", "remove", "shutdown"}
Answers == {"none", "killed", "exited", "unknown", "output"}

TypeOK ==
    /\ handles \subseteq Procs
    /\ os \in [Procs -> {"none", "running", "exited", "reaped"}]
    /\ blocked \in [Procs -> {"no", "stdout", "stderr"}]
    /\ child \in [Procs -> {"none", "some", "taken"}]
    /\ exit \in [Procs -> BOOLEAN]
    /\ lock \in [Procs -> Callers \cup {Nobody}]
    /\ pc \in [Callers -> Places]
    /\ arg \in [Callers -> Procs \cup {NoProc}]
    /\ todo \in [Callers -> SUBSET Procs]
    /\ answer \in [Callers -> Answers]

Init ==
    /\ handles = {}
    /\ os = [p \in Procs |-> "none"]
    /\ blocked = [p \in Procs |-> "no"]
    /\ child = [p \in Procs |-> "none"]
    /\ exit = [p \in Procs |-> FALSE]
    /\ lock = [p \in Procs |-> Nobody]
    /\ pc = [c \in Callers |-> "idle"]
    /\ arg = [c \in Callers |-> NoProc]
    /\ todo = [c \in Callers |-> {}]
    /\ answer = [c \in Callers |-> "none"]

-----------------------------------------------------------------------------
Go(c, place) == pc' = [pc EXCEPT ![c] = place]
Answer(c, a) == answer' = [answer EXCEPT ![c] = a]
Return(c, place) == Go(c, place) /\ arg' = [arg EXCEPT ![c] = NoProc] /\ Answer(c, "none")

\* A call found the handle in the map and keeps a clone of it.
Lookup(c, p, place) ==
    /\ pc[c] = "idle"
    /\ p \in handles
    /\ Go(c, place)
    /\ arg' = [arg EXCEPT ![c] = p]
    /\ UNCHANGED <<handles, osVars, child, exit, lock, todo, answer>>

-----------------------------------------------------------------------------
(* spawn_process                                                           *)

\* A bound on the model: some process id is left for every spawn in flight.
ProcLeft == Cardinality({c \in Callers : pc[c] = "spawn"})
               < Cardinality({p \in Procs : os[p] = "none"})

\* The number of handles is read (at the limit the call is refused) ...
CheckLimit(c) ==
    /\ pc[c] = "idle"
    /\ ProcLeft
    /\ Cardinality(handles) < MaxSpawned
    /\ Go(c, "spawn")
    /\ UNCHANGED <<handles, osVars, child, exit, lock, arg, todo, answer>>

\* ... and the process started and registered some time later.
Insert(c, p) ==
    /\ pc[c] = "spawn"
    /\ os[p] = "none"
    /\ os' = [os EXCEPT ![p] = "running"]
    /\ child' = [child EXCEPT ![p] = "some"]
    /\ handles' = handles \cup {p}
    /\ Go(c, "idle")
    /\ UNCHANGED <<blocked, exit, lock, arg, todo, answer>>

-----------------------------------------------------------------------------
(* kill_process                                                            *)

BeginKill(c, p) == Lookup(c, p, "kill")

\* A shutdown goes on with the next handle, any other caller returns.
After(c) == IF c \in Shutters /\ arg[c] \in todo[c] THEN "shutdown" ELSE "idle"
Done(c)  == todo' = [todo EXCEPT ![c] = @ \ {arg[c]}]

\* Mutated: kill does not wait for the mutex, and a child that is taken is
\* none of its business.
KillUnlocked(c) ==
    /\ pc[c] = "kill"
    /\ IF child[arg[c]] = "some" /\ os[arg[c]] = "reaped"
         THEN Return(c, After(c)) /\ Done(c) /\ UNCHANGED osVars
         ELSE /\ os' = [os EXCEPT ![arg[c]] = IF child[arg[c]] = "some" THEN "reaped" ELSE @]
              /\ blocked' = [blocked EXCEPT ![arg[c]] = IF child[arg[c]] = "some" THEN "no" ELSE @]
              /\ Answer(c, "killed")
              /\ Go(c, "remove")
              /\ UNCHANGED <<arg, todo>>
    /\ UNCHANGED <<handles, child, exit, lock>>

\* Under the mutex: kill and reap a child that is there; one whose exit was
\* already polled cannot be killed any more and the call fails; one that was
\* taken is gone, and the call succeeds.
Kill(c) ==
    /\ pc[c] = "kill"
    /\ lock[arg[c]] = Nobody
    /\ IF child[arg[c]] = "some" /\ os[arg[c]] = "reaped"
         THEN Return(c, After(c)) /\ Done(c) /\ UNCHANGED osVars
         ELSE /\ os' = [os EXCEPT ![arg[c]] = IF child[arg[c]] = "some" THEN "reaped" ELSE @]
              /\ blocked' = [blocked EXCEPT ![arg[c]] = IF child[arg[c]] = "some" THEN "no" ELSE @]
              /\ Answer(c, "killed")
              /\ Go(c, "remove")
              /\ UNCHANGED <<arg, todo>>
    /\ UNCHANGED <<handles, child, exit, lock>>

\* The last step of kill, status, isRunning and waitForOutput.
Remove(c) ==
    /\ pc[c] = "remove"
    /\ handles' = handles \ {arg[c]}
    /\ Return(c, After(c))
    /\ Done(c)
    /\ UNCHANGED <<osVars, child, exit, lock>>

-----------------------------------------------------------------------------
(* get_status and is_running                                               *)

BeginStatus(c, p) == Lookup(c, p, "status")

\* The cached exit status first, its mutex released before the child is polled.
CachedStatus(c) ==
    /\ pc[c] = "status"
    /\ IF exit[arg[c]]
         THEN Answer(c, "exited") /\ Go(c, "remove")
         ELSE Go(c, "poll") /\ UNCHANGED answer
    /\ UNCHANGED <<handles, osVars, child, exit, lock, arg, todo>>

\* Mutated: a child whose mutex is held counts as consumed.
PollUnlocked(c) ==
    /\ pc[c] = "poll"
    /\ child[arg[c]] = "taken"
    /\ Answer(c, "unknown")
    /\ Go(c, "remove")
    /\ UNCHANGED <<handles, osVars, child, exit, lock, arg, todo>>

\* try_wait under the mutex.
PollChild(c) ==
    /\ pc[c] = "poll"
    /\ lock[arg[c]] = Nobody
    /\ LET p == arg[c] IN
         CASE child[p] = "taken" ->
                Answer(c, "unknown") /\ Go(c, "remove") /\ UNCHANGED <<os, exit, arg>>
           [] child[p] = "some" /\ os[p] = "running" ->
                Return(c, "idle") /\ UNCHANGED <<os, exit>>
           [] OTHER ->
                /\ Answer(c, "exited") /\ Go(c, "remove")
                /\ os' = [os EXCEPT ![p] = "reaped"]
                /\ exit' = [exit EXCEPT ![p] = TRUE]
                /\ UNCHANGED arg
    /\ UNCHANGED <<handles, blocked, child, lock, todo>>

-----------------------------------------------------------------------------
(* wait_for_output                                                         *)

BeginWait(c, p) == Lookup(c, p, "wait")

\* Take the child out of the handle; the mutex is held until the end.
TakeChild(c) ==
    /\ pc[c] = "wait"
    /\ lock[arg[c]] = Nobody
    /\ IF child[arg[c]] = "some"
         THEN /\ child' = [child EXCEPT ![arg[c]] = "taken"]
              /\ lock' = [lock EXCEPT ![arg[c]] = c]
              /\ Go(c, "stdout")
              /\ UNCHANGED answer
         ELSE /\ Answer(c, "output")   \* what an earlier wait has buffered
              /\ Go(c, "remove")
              /\ UNCHANGED <<child, lock>>
    /\ UNCHANGED <<handles, osVars, exit, arg, todo>>

\* A pipe is drained while it is being read.
Drain(c) ==
    /\ pc[c] \in {"stdout", "stderr"}
    /\ blocked[arg[c]] = pc[c]
    /\ blocked' = [blocked EXCEPT ![arg[c]] = "no"]
    /\ UNCHANGED <<handles, os, child, exit, lock, pc, arg, todo, answer>>

\* Reading stops at the end of the stream or at MAX_OUTPUT_SIZE: stdout first,
\* then stderr.
StopReading(c) ==
    /\ pc[c] \in {"stdout", "stderr"}
    /\ os[arg[c]] # "running" \/ blocked[arg[c]] = pc[c]
    /\ Go(c, IF pc[c] = "stdout" THEN "stderr" ELSE "reap")
    /\ UNCHANGED <<handles, osVars, child, exit, lock, arg, todo, answer>>

\* The exit status is stored and the mutex released.
Reap(c) ==
    /\ pc[c] = "reap"
    /\ os[arg[c]] # "running"
    /\ os' = [os EXCEPT ![arg[c]] = "reaped"]
    /\ exit' = [exit EXCEPT ![arg[c]] = TRUE]
    /\ lock' = [lock EXCEPT ![arg[c]] = Nobody]
    /\ Answer(c, "output")
    /\ Go(c, "remove")
    /\ UNCHANGED <<handles, blocked, child, arg, todo>>

\* Mutated: the error path keeps the mutex.
ReapFailsLocked(c) ==
    /\ pc[c] = "reap"
    /\ os[arg[c]] = "exited"
    /\ os' = [os EXCEPT ![arg[c]] = "reaped"]
    /\ Return(c, "idle")
    /\ UNCHANGED <<handles, blocked, child, exit, lock, todo>>

\* wait() fails: the child is dropped, the handle stays in the registry.
ReapFails(c) ==
    /\ pc[c] = "reap"
    /\ os[arg[c]] = "exited"
    /\ os' = [os EXCEPT ![arg[c]] = "reaped"]
    /\ lock' = [lock EXCEPT ![arg[c]] = Nobody]
    /\ Return(c, "idle")
    /\ UNCHANGED <<handles, blocked, child, exit, todo>>

-----------------------------------------------------------------------------
(* shutdown_all                                                            *)

BeginShutdown(c) ==
    /\ pc[c] = "idle"
    /\ c \in Shutters
    /\ todo' = [todo EXCEPT ![c] = handles]
    /\ Go(c, "shutdown")
    /\ UNCHANGED <<handles, osVars, child, exit, lock, arg, answer>>

\* kill_process on the next handle of the list, if it is still registered.
ShutdownNext(c, p) ==
    /\ pc[c] = "shutdown"
    /\ p \in todo[c]
    /\ IF p \in handles
         THEN Go(c, "kill") /\ arg' = [arg EXCEPT ![c] = p] /\ UNCHANGED todo
         ELSE todo' = [todo EXCEPT ![c] = @ \ {p}] /\ UNCHANGED <<pc, arg>>
    /\ UNCHANGED <<handles, osVars, child, exit, lock, answer>>

ShutdownClear(c) ==
    /\ pc[c] = "shutdown"
    /\ todo[c] = {}
    /\ handles' = {}
    /\ Go(c, "idle")
    /\ UNCHANGED <<osVars, child, exit, lock, arg, todo, answer>>

-----------------------------------------------------------------------------
(* The processes.                                                          *)

ProcExits(p) ==
    /\ os[p] = "running"
    /\ blocked[p] = "no"
    /\ p \notin Daemons
    /\ os' = [os EXCEPT ![p] = "exited"]
    /\ UNCHANGED <<handles, blocked, child, exit, lock, pc, arg, todo, answer>>

\* It fills a pipe that nobody reads.
ProcBlocks(p, pipe) ==
    /\ os[p] = "running"
    /\ blocked[p] = "no"
    /\ p \in Chatty
    /\ blocked' = [blocked EXCEPT ![p] = pipe]
    /\ UNCHANGED <<handles, os, child, exit, lock, pc, arg, todo, answer>>

-----------------------------------------------------------------------------
CallerStep(c) ==
    \/ \E p \in Procs : Insert(c, p)
    \/ Kill(c) \/ Remove(c) \/ CachedStatus(c) \/ PollChild(c) \/ TakeChild(c)
    \/ Drain(c) \/ StopReading(c) \/ Reap(c) \/ ReapFails(c)
    \/ (\E p \in Procs : ShutdownNext(c, p)) \/ ShutdownClear(c)

BeginCall(c) ==
    \/ CheckLimit(c)
    \/ \E p \in Procs : BeginKill(c, p) \/ BeginStatus(c, p) \/ BeginWait(c, p)
    \/ BeginShutdown(c)

Next == \/ \E c \in Callers : CallerStep(c) \/ BeginCall(c)
        \/ \E p \in Procs : ProcExits(p) \/ \E pipe \in {"stdout", "stderr"} : ProcBlocks(p, pipe)

Spec == Init /\ [][Next]_vars

\* A call that can go on does (the mutex is fair, hence strong fairness where
\* a call waits for it); a process that is neither a daemon nor blocked ends.
Fairness ==
    /\ \A c \in Callers : WF_vars(CallerStep(c))
    /\ \A c \in Callers : SF_vars(Kill(c)) /\ SF_vars(PollChild(c)) /\ SF_vars(TakeChild(c))
    /\ \A p \in Procs : SF_vars(ProcExits(p))

FairSpec == Spec /\ Fairness

-----------------------------------------------------------------------------
(* Safety.                                                                 *)

\* A handle leaves the registry only when its process is over, however kill,
\* status and wait overlap on it, a wait that fails included: nobody loses hold
\* of a running process.  The clear() at the end of shutdown_all is excepted: it
\* also drops what was spawned since its snapshot and what it failed to kill.
LiveStayRegistered ==
    \A p \in handles \ handles' :
        \/ os[p] # "running"
        \/ \E c \in Callers : pc[c] = "shutdown" /\ pc'[c] = "idle"

\* A call reports an end only of a process that has ended, and a cached exit
\* status is never there before the process is reaped.
EndsAreReal ==
    /\ \A c \in Callers : answer[c] # "none" => os[arg[c]] \in {"exited", "reaped"}
    /\ \A p \in Procs : exit[p] => os[p] = "reaped"

-----------------------------------------------------------------------------
(* Liveness, under FairSpec.                                               *)

\* Every call returns, unless the process it is about is stuck on a pipe that
\* is not being read: a call never waits for ever on a mutex, and a process
\* that is stuck does no harm to the calls on the others.
CallsReturn ==
    \A c \in Callers : (pc[c] # "idle") ~>
        (pc[c] = "idle" \/ (arg[c] \in Procs /\ blocked[arg[c]] # "no"))

\* An end reported to a caller has happened, and no call loses hold of a process
\* that is running.
RegistrySound == [][EndsAreReal' /\ LiveStayRegistered]_vars
=============================================================================

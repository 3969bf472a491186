----------------------------- MODULE Migration -----------------------------
(***************************************************************************)
(* `doo migrate` and `doo migrate --rollback` (crates/doo_migrate):        *)
(* processes that share one PostgreSQL database, each with one session.    *)
(* A schema is the set of objects that exist (tables, columns, enum        *)
(* values); every process wants all of Objects, and its plan adds the ones *)
(* it has not seen, in increasing (dependency) order.  The database is     *)
(* modelled as the code uses it: every statement is atomic, the advisory   *)
(* lock belongs to a session, and a session in a failed transaction        *)
(* refuses every command.                                                  *)
(***************************************************************************)
EXTENDS Naturals, FiniteSets, FiniteSetsExt

CONSTANTS
    Objects,       \* what the .doo sources declare: numbers, in plan order
    Strict,        \* added by a statement without IF NOT EXISTS
    Irreversible,  \* changes without down SQL
    Fallible,      \* statements that the data in the tables may make fail
    Migrators,     \* processes that run `doo migrate`
    Rollers,       \* processes that run `doo migrate --rollback RollCount`
    RollCount,
    Nobody         \* no session

ASSUME ObjectsAreNumbers == Objects \subseteq Nat /\ IsFiniteSet(Objects)
ASSUME ObjectKinds == Strict \cup Irreversible \cup Fallible \subseteq Objects
ASSUME Processes == /\ IsFiniteSet(Migrators) /\ IsFiniteSet(Rollers)
                    /\ Migrators \cap Rollers = {} /\ Nobody \notin Migrators \cup Rollers
ASSUME RollCountPositive == RollCount \in Nat \ {0}

Procs == Migrators \cup Rollers
Ids   == 1 .. Cardinality(Migrators)

VARIABLES
    schema,  \* the objects in the database
    row,     \* the table doo_migrations, by id
    clock,   \* the time of the latest plan, in milliseconds
    lock,    \* the session that holds the advisory lock
    pc,      \* where each process is
    id,      \* the migration it applies or rolls back
    plan,    \* the objects its plan adds
    todo,    \* the objects its statements have still to add or drop
    batch,   \* the migrations it has still to roll back
    broken,  \* its session is in a failed transaction
    result   \* what it reports

vars == <<schema, row, clock, lock, pc, id, plan, todo, batch, broken, result>>

\* at: history, when the row was recorded as applied.
Rows == [status : {"none", "applied", "failed", "rolled_back"},
         changes : SUBSET Objects, at : Nat]

Places == {"start", "planned", "check", "apply", "failed", "down",
           "mark", "release", "finished", "ended"}

TypeOK ==
    /\ schema \subseteq Objects
    /\ row \in [Ids -> Rows]
    /\ clock \in 0 .. Cardinality(Migrators)
    /\ lock \in Procs \cup {Nobody}
    /\ pc \in [Procs -> Places]
    /\ id \in [Procs -> Ids \cup {0}]
    /\ plan \in [Procs -> SUBSET Objects]
    /\ todo \in [Procs -> SUBSET Objects]
    /\ batch \in [Procs -> SUBSET Ids]
    /\ broken \in [Procs -> BOOLEAN]
    /\ result \in [Procs -> {"none", "ok", "error", "cancelled"}]

\* Any database that ensure_history_table has just prepared.
Init ==
    /\ schema \in SUBSET Objects
    /\ row = [i \in Ids |-> [status |-> "none", changes |-> {}, at |-> 0]]
    /\ clock = 0
    /\ lock = Nobody
    /\ pc = [p \in Procs |-> "start"]
    /\ id = [p \in Procs |-> 0]
    /\ plan = [p \in Procs |-> {}]
    /\ todo = [p \in Procs |-> {}]
    /\ batch = [p \in Procs |-> {}]
    /\ broken = [p \in Procs |-> FALSE]
    /\ result = [p \in Procs |-> "none"]

-----------------------------------------------------------------------------
At(p, place) == pc[p] = place
Go(p, place) == pc' = [pc EXCEPT ![p] = place]
Finish(p, r) == Go(p, "finished") /\ result' = [result EXCEPT ![p] = r]
Applied      == {i \in Ids : row[i].status = "applied"}

-----------------------------------------------------------------------------
(* run_migrate: introspect, diff, plan.  No lock is held.                  *)

UpToDate(m) ==
    /\ At(m, "start")
    /\ Objects \subseteq schema
    /\ Finish(m, "ok")
    /\ UNCHANGED <<schema, row, clock, lock, id, plan, todo, batch, broken>>

\* The id is the time in milliseconds: two plans may get the same one.  (The
\* model assumes that they then saw the same schema: no statement takes less
\* than a millisecond.)
MakePlan(m) ==
    /\ At(m, "start")
    /\ ~(Objects \subseteq schema)
    /\ \E now \in ({clock, clock + 1} \cap Ids) :
         /\ \A q \in Migrators : id[q] = now => plan[q] = Objects \ schema
         /\ clock' = now
         /\ id' = [id EXCEPT ![m] = now]
    /\ plan' = [plan EXCEPT ![m] = Objects \ schema]
    /\ Go(m, "planned")
    /\ UNCHANGED <<schema, row, lock, todo, batch, broken, result>>

\* A dry run, or a destructive change that is not confirmed.
Cancel(m) ==
    /\ At(m, "planned")
    /\ Finish(m, "cancelled")
    /\ UNCHANGED <<schema, row, clock, lock, id, plan, todo, batch, broken>>

-----------------------------------------------------------------------------
(* execute_migration                                                       *)

\* Mutated: pg_try_advisory_lock, with nobody reading its answer.
AcquireTry(p) ==
    /\ At(p, IF p \in Migrators THEN "planned" ELSE "start")
    /\ lock' = IF lock = Nobody THEN p ELSE lock
    /\ Go(p, "check")
    /\ UNCHANGED <<schema, row, clock, id, plan, todo, batch, broken, result>>

\* acquire_lock: pg_advisory_lock waits.
AcquireLock(p) ==
    /\ At(p, IF p \in Migrators THEN "planned" ELSE "start")
    /\ lock = Nobody
    /\ lock' = p
    /\ Go(p, "check")
    /\ UNCHANGED <<schema, row, clock, id, plan, todo, batch, broken, result>>

\* A migration recorded as applied is not applied again.
CheckHistory(m) ==
    /\ At(m, "check")
    /\ m \in Migrators
    /\ IF row[id[m]].status = "applied"
         THEN /\ Go(m, "release")
              /\ result' = [result EXCEPT ![m] = "ok"]
              /\ UNCHANGED todo
         ELSE /\ Go(m, "apply")
              /\ todo' = [todo EXCEPT ![m] = plan[m]]
              /\ UNCHANGED result
    /\ UNCHANGED <<schema, row, clock, lock, id, plan, batch, broken>>

\* The next statement, BEGIN and COMMIT around it, succeeds.
ApplyNext(m) ==
    /\ At(m, "apply")
    /\ todo[m] # {}
    /\ LET o == Min(todo[m]) IN
         /\ ~(o \in Strict \cap schema)
         /\ schema' = schema \cup {o}
         /\ todo' = [todo EXCEPT ![m] = @ \ {o}]
    /\ UNCHANGED <<row, clock, lock, pc, id, plan, batch, broken, result>>

\* Mutated: a statement that fails is tried again.
ApplyRetries(m) ==
    /\ At(m, "apply")
    /\ todo[m] # {}
    /\ Min(todo[m]) \in Fallible \cup (Strict \cap schema)
    /\ UNCHANGED vars

\* It fails: BEGIN has been executed and COMMIT has not, so the session is left
\* in a failed transaction.  The statements before it stay committed.
ApplyFails(m) ==
    /\ At(m, "apply")
    /\ todo[m] # {}
    /\ Min(todo[m]) \in Fallible \cup (Strict \cap schema)
    /\ broken' = [broken EXCEPT ![m] = TRUE]
    /\ result' = [result EXCEPT ![m] = "error"]
    /\ Go(m, "failed")
    /\ UNCHANGED <<schema, row, clock, lock, id, plan, todo, batch>>

\* record_failure, its own error ignored.
RecordFailure(m) ==
    /\ At(m, "failed")
    /\ row' = IF broken[m] THEN row ELSE [row EXCEPT ![id[m]].status = "failed"]
    /\ Go(m, "release")
    /\ UNCHANGED <<schema, clock, lock, id, plan, todo, batch, broken, result>>

\* Mutated: the row is written while statements are left.
RecordEarly(m) ==
    /\ At(m, "apply")
    /\ row' = [row EXCEPT ![id[m]] =
                 [status |-> "applied", changes |-> plan[m], at |-> Cardinality(Applied) + 1]]
    /\ result' = [result EXCEPT ![m] = "ok"]
    /\ Go(m, "release")
    /\ UNCHANGED <<schema, clock, lock, id, plan, todo, batch, broken>>

\* record_success: on a conflict only the status is updated.
RecordSuccess(m) ==
    /\ At(m, "apply")
    /\ todo[m] = {}
    /\ row' = [row EXCEPT ![id[m]] =
                 [status  |-> "applied",
                  changes |-> IF @.status = "none" THEN plan[m] ELSE @.changes,
                  at      |-> Max({row[i].at : i \in Ids}) + 1]]
    /\ result' = [result EXCEPT ![m] = "ok"]
    /\ Go(m, "release")
    /\ UNCHANGED <<schema, clock, lock, id, plan, todo, batch, broken>>

\* release_lock, its own error ignored.
ReleaseLock(p) ==
    /\ At(p, "release")
    /\ lock' = IF broken[p] THEN lock ELSE Nobody
    /\ Go(p, "finished")
    /\ UNCHANGED <<schema, row, clock, id, plan, todo, batch, broken, result>>

-----------------------------------------------------------------------------
(* rollback_migrations                                                     *)

\* The RollCount applied rows with the highest ids.
LastApplied ==
    {i \in Applied : Cardinality({j \in Applied : j > i}) < RollCount}

FetchBatch(r) ==
    /\ At(r, "check")
    /\ r \in Rollers
    /\ batch' = [batch EXCEPT ![r] = LastApplied]
    /\ Go(r, "down")
    /\ UNCHANGED <<schema, row, clock, lock, id, plan, todo, broken, result>>

\* The next row.  record_success always stores a text for down_sql, empty when
\* no change of the plan can be undone; the row is then only marked.
BeginRow(r) ==
    /\ At(r, "down")
    /\ batch[r] # {}
    /\ LET i == Max(batch[r]) IN
         /\ id' = [id EXCEPT ![r] = i]
         /\ todo' = [todo EXCEPT ![r] = row[i].changes \ Irreversible]
         /\ batch' = [batch EXCEPT ![r] = @ \ {i}]
    /\ Go(r, "mark")
    /\ UNCHANGED <<schema, row, clock, lock, plan, broken, result>>

\* DROP ... IF EXISTS, in the reverse order of the plan.
DropNext(r) ==
    /\ At(r, "mark")
    /\ todo[r] # {}
    /\ schema' = schema \ {Max(todo[r])}
    /\ todo' = [todo EXCEPT ![r] = @ \ {Max(todo[r])}]
    /\ UNCHANGED <<row, clock, lock, pc, id, plan, batch, broken, result>>

DropFails(r) ==
    /\ At(r, "mark")
    /\ todo[r] # {}
    /\ Max(todo[r]) \in Fallible
    /\ broken' = [broken EXCEPT ![r] = TRUE]
    /\ result' = [result EXCEPT ![r] = "error"]
    /\ Go(r, "release")
    /\ UNCHANGED <<schema, row, clock, lock, id, plan, todo, batch>>

\* Mutated: the row is marked before its statements ran.
MarkEarly(r) ==
    /\ At(r, "mark")
    /\ row' = [row EXCEPT ![id[r]].status = "rolled_back"]
    /\ Go(r, "down")
    /\ UNCHANGED <<schema, clock, lock, id, plan, todo, batch, broken, result>>

MarkRow(r) ==
    /\ At(r, "mark")
    /\ todo[r] = {}
    /\ row' = [row EXCEPT ![id[r]].status = "rolled_back"]
    /\ Go(r, "down")
    /\ UNCHANGED <<schema, clock, lock, id, plan, todo, batch, broken, result>>

BatchDone(r) ==
    /\ At(r, "down")
    /\ batch[r] = {}
    /\ result' = [result EXCEPT ![r] = "ok"]
    /\ Go(r, "release")
    /\ UNCHANGED <<schema, row, clock, lock, id, plan, todo, batch, broken>>

-----------------------------------------------------------------------------
\* The process ends and PostgreSQL closes its session: the lock is free.
CloseSession(p) ==
    /\ lock' = IF lock = p THEN Nobody ELSE lock
    /\ Go(p, "ended")
    /\ UNCHANGED <<schema, row, clock, id, plan, todo, batch, broken, result>>

Exit(p)  == At(p, "finished") /\ CloseSession(p)

\* The process is killed, or loses its connection, between two statements.
Crash(p) == pc[p] \notin {"start", "finished", "ended"} /\ CloseSession(p)

MigrateStep(m) ==
    \/ UpToDate(m) \/ MakePlan(m) \/ CheckHistory(m) \/ ApplyNext(m)
    \/ ApplyFails(m) \/ RecordFailure(m) \/ RecordSuccess(m)
RollStep(r) ==
    \/ FetchBatch(r) \/ BeginRow(r) \/ DropNext(r) \/ DropFails(r)
    \/ MarkRow(r) \/ BatchDone(r)

Next ==
    \/ \E m \in Migrators : MigrateStep(m) \/ Cancel(m)
    \/ \E r \in Rollers : RollStep(r)
    \/ \E p \in Procs : AcquireLock(p) \/ ReleaseLock(p) \/ Exit(p) \/ Crash(p)

Spec == Init /\ [][Next]_vars

\* A process goes on while the database answers; PostgreSQL grants a lock that
\* keeps being freed.
Fairness ==
    /\ \A m \in Migrators : WF_vars(MigrateStep(m))
    /\ \A r \in Rollers : WF_vars(RollStep(r))
    /\ \A p \in Procs : SF_vars(AcquireLock(p)) /\ WF_vars(ReleaseLock(p)) /\ WF_vars(Exit(p))

FairSpec == Spec /\ Fairness

-----------------------------------------------------------------------------
(* Safety.                                                                 *)

\* `doo migrate` reports success only when the database has everything the
\* sources declare: with plans made before the lock, crashes after any
\* statement, runs that resume a half-applied one, and equal ids.  It holds
\* until the first rollback fetches its rows; after that a plan may be stale.
SuccessMeansSchema ==
    (\A r \in Rollers : pc[r] \in {"start", "check"}) =>
        \A m \in Migrators : result[m] # "ok" /\ result'[m] = "ok" => Objects \subseteq schema

\* Between acquire_lock and release_lock a process is alone: the statements of
\* two runs never mix, whatever crashes in between.
Inside == {"check", "apply", "failed", "down", "mark", "release"}
AloneInside == \A p, q \in Procs : pc[p] \in Inside /\ pc[q] \in Inside => p = q

\* The history tells the truth when it is written: a row becomes "applied" when
\* every change of it is in the database, and "rolled_back" when every change
\* that has down SQL is out of it.
HistoryTrue ==
    \A i \in Ids : row[i].status # row'[i].status =>
         CASE row'[i].status = "applied" -> row'[i].changes \subseteq schema
           [] row'[i].status = "rolled_back" ->
                row[i].changes \cap schema \subseteq Irreversible
           [] OTHER -> TRUE

-----------------------------------------------------------------------------
(* Liveness, under FairSpec.                                               *)

\* A process that waits for the lock ends: neither a crash nor a failed
\* statement of another one keeps the lock for ever.
RunsEnd == \A p \in Procs : (pc[p] \in {"planned", "check"}) ~> (pc[p] = "ended")

-----------------------------------------------------------------------------
(* What the documentation says, and the code does not do.                  *)

\* history.rs: record_failure will "Mark a migration as failed".
FailureRecorded ==
    \A m \in Migrators : pc[m] = "finished" /\ broken[m] => row[id[m]].status = "failed"

\* What a run answers and what it writes to the history is so.
RecordsTrue == [][SuccessMeansSchema /\ HistoryTrue]_vars
=============================================================================

-------------------------- MODULE MigrationProofs --------------------------
(***************************************************************************)
(* The advisory lock keeps the runs of any number of processes apart, with *)
(* crashes and with sessions that fail to release it.  AloneInside is not  *)
(* inductive: that two processes are never inside together follows from    *)
(* each of them being the owner of the lock while it is inside.  From that *)
(* follows that what a run answers, and what it writes to the history, is  *)
(* true: no other run touches the schema between its statements.           *)
(***************************************************************************)
EXTENDS Migration, FunctionTheorems, FiniteSetTheorems, Inductions

PlacesOK == pc \in [Procs -> Places]
OwnerInside == \A p \in Procs : pc[p] \in Inside => lock = p
IInv == PlacesOK /\ OwnerInside

\* No session is called Nobody, so a free lock has no owner.
LEMMA NobodyIsNoProc == \A p \in Procs : p # Nobody
  BY Processes DEF Procs

\* A process that is inside before the step and stays inside or leaves it,
\* while the lock stays where it is.
LEMMA StepInside ==
    ASSUME IInv, NEW p \in Procs, NEW place \in Places,
           pc[p] \in Inside, Go(p, place), lock' = lock
    PROVE  IInv'
  BY DEF IInv, PlacesOK, OwnerInside, Go

\* A process that stays outside: before the lock, or after its release.
LEMMA StepOutside ==
    ASSUME IInv, NEW p \in Procs, NEW place \in Places \ Inside,
           Go(p, place), lock' = lock
    PROVE  IInv'
  BY DEF IInv, PlacesOK, OwnerInside, Go

\* A process leaves and frees a lock that is its own or nobody's.
LEMMA StepFree ==
    ASSUME IInv, NEW p \in Procs, NEW place \in Places \ Inside, Go(p, place),
           lock' = Nobody, lock = p \/ pc[p] \in Inside
    PROVE  IInv'
<1>1. lock = p
  BY DEF IInv, OwnerInside
<1>2. PlacesOK'
  BY DEF IInv, PlacesOK, Go
<1>3. ASSUME NEW q \in Procs, pc'[q] \in Inside PROVE FALSE
  <2>1. q # p BY <1>3 DEF IInv, PlacesOK, Go
  <2>2. pc[q] \in Inside BY <1>3, <2>1 DEF IInv, PlacesOK, Go
  <2> QED BY <1>1, <2>1, <2>2 DEF IInv, OwnerInside
<1> QED BY <1>2, <1>3 DEF IInv, OwnerInside

\* Closing a session frees its lock.
LEMMA StepClose ==
    ASSUME IInv, NEW p \in Procs, CloseSession(p)
    PROVE  IInv'
<1>0. "ended" \in Places \ Inside
  BY DEF Places, Inside
<1>1. CASE lock = p
  BY <1>0, <1>1, StepFree DEF CloseSession
<1>2. CASE lock # p
  BY <1>0, <1>2, StepOutside DEF CloseSession
<1> QED BY <1>1, <1>2

\* At the start everybody is outside.
LEMMA InitIInv == Init => IInv
  BY DEF Init, IInv, PlacesOK, OwnerInside, Places, Inside

\* Every action preserves the invariant.
LEMMA NextIInv == IInv /\ [Next]_vars => IInv'
<1> SUFFICES ASSUME IInv, [Next]_vars PROVE IInv'
  OBVIOUS
<1> USE DEF At, Places, Inside
<1>1. ASSUME NEW m \in Migrators, MigrateStep(m) \/ Cancel(m) PROVE IInv'
  <2>0. m \in Procs BY DEF Procs
  <2>1. CASE UpToDate(m) BY <2>0, <2>1, StepOutside DEF UpToDate, Finish
  <2>2. CASE MakePlan(m) BY <2>0, <2>2, StepOutside DEF MakePlan
  <2>3. CASE Cancel(m) BY <2>0, <2>3, StepOutside DEF Cancel, Finish
  <2>4. CASE CheckHistory(m)
    <3>1. Go(m, "release") \/ Go(m, "apply") BY <2>4 DEF CheckHistory
    <3> QED BY <2>0, <2>4, <3>1, StepInside DEF CheckHistory
  <2>5. CASE ApplyNext(m) BY <2>5 DEF ApplyNext, IInv, PlacesOK, OwnerInside
  <2>6. CASE ApplyFails(m) BY <2>0, <2>6, StepInside DEF ApplyFails
  <2>7. CASE RecordFailure(m) BY <2>0, <2>7, StepInside DEF RecordFailure
  <2>8. CASE RecordSuccess(m) BY <2>0, <2>8, StepInside DEF RecordSuccess
  <2> QED BY <1>1, <2>1, <2>2, <2>3, <2>4, <2>5, <2>6, <2>7, <2>8 DEF MigrateStep
<1>2. ASSUME NEW r \in Rollers, RollStep(r) PROVE IInv'
  <2>0. r \in Procs BY DEF Procs
  <2>1. CASE FetchBatch(r) BY <2>0, <2>1, StepInside DEF FetchBatch
  <2>2. CASE BeginRow(r) BY <2>0, <2>2, StepInside DEF BeginRow
  <2>3. CASE DropNext(r) BY <2>3 DEF DropNext, IInv, PlacesOK, OwnerInside
  <2>4. CASE DropFails(r) BY <2>0, <2>4, StepInside DEF DropFails
  <2>5. CASE MarkRow(r) BY <2>0, <2>5, StepInside DEF MarkRow
  <2>6. CASE BatchDone(r) BY <2>0, <2>6, StepInside DEF BatchDone
  <2> QED BY <1>2, <2>1, <2>2, <2>3, <2>4, <2>5, <2>6 DEF RollStep
<1>3. ASSUME NEW p \in Procs, AcquireLock(p) PROVE IInv'
  <2>1. PlacesOK' BY <1>3 DEF AcquireLock, Go, IInv, PlacesOK
  <2>2. ASSUME NEW q \in Procs, q # p PROVE pc'[q] \notin Inside
    BY <1>3, <2>2, NobodyIsNoProc DEF AcquireLock, Go, IInv, PlacesOK, OwnerInside
  <2> QED BY <1>3, <2>1, <2>2 DEF AcquireLock, IInv, OwnerInside
<1>4. ASSUME NEW p \in Procs, ReleaseLock(p) PROVE IInv'
  <2>1. CASE broken[p] BY <1>4, <2>1, StepOutside DEF ReleaseLock
  <2>2. CASE ~broken[p] BY <1>4, <2>2, StepFree DEF ReleaseLock
  <2> QED BY <2>1, <2>2
<1>5. ASSUME NEW p \in Procs, Exit(p) \/ Crash(p) PROVE IInv'
  BY <1>5, StepClose DEF Exit, Crash
<1>6. CASE UNCHANGED vars
  BY <1>6 DEF vars, IInv, PlacesOK, OwnerInside
<1> QED BY <1>1, <1>2, <1>3, <1>4, <1>5, <1>6 DEF Next

\* Between acquire_lock and release_lock a process is alone, for any number of
\* migrating and rolling-back processes, any schema and any crash.
THEOREM RunsKeptApart == Spec => []AloneInside
<1>1. Init => IInv BY InitIInv
<1>2. IInv /\ [Next]_vars => IInv' BY NextIInv
<1>3. IInv => AloneInside
  BY DEF IInv, OwnerInside, AloneInside
<1> QED BY <1>1, <1>2, <1>3, PTL DEF Spec

-----------------------------------------------------------------------------
(* Least and greatest elements.                                            *)

\* The next statement of a plan is one of its statements.
LEMMA MinInSet ==
    ASSUME NEW S \in SUBSET Nat, S # {}
    PROVE  Min(S) \in S
  BY Least DEF Min

\* The greatest number of a finite set is in it.
LEMMA MaxInSet ==
    ASSUME NEW S \in SUBSET Nat, S # {}, IsFiniteSet(S)
    PROVE  Max(S) \in S
<1> DEFINE HasMax(T) == \E x \in T : \A y \in T : x >= y
           P == {n \in Nat : \A T \in SUBSET Nat :
                    IsFiniteSet(T) /\ Cardinality(T) = n /\ T # {} => HasMax(T)}
<1>1. 0 \in P
  BY FS_EmptySet
<1>2. ASSUME NEW n \in Nat, n \in P PROVE n + 1 \in P
  <2> SUFFICES ASSUME NEW T \in SUBSET Nat, IsFiniteSet(T), Cardinality(T) = n + 1, T # {}
               PROVE  HasMax(T)
    OBVIOUS
  <2>1. PICK z \in T : TRUE
    OBVIOUS
  <2> DEFINE U == T \ {z}
  <2>2. U \in SUBSET Nat /\ IsFiniteSet(U) /\ Cardinality(U) = n
    <3>1. IsFiniteSet(U) /\ Cardinality(U) = Cardinality(T) - 1
      BY <2>1, FS_RemoveElement
    <3> QED
      BY <3>1
  <2>3. CASE U = {}
    BY <2>1, <2>3
  <2>4. CASE U # {}
    <3>1. PICK x \in U : \A y \in U : x >= y
      BY <1>2, <2>2, <2>4
    <3>2. CASE x >= z
      BY <3>1, <3>2
    <3>3. CASE ~(x >= z)
      <4>1. z \in Nat /\ x \in Nat /\ z >= x
        BY <2>1, <3>1, <3>3
      <4>2. ASSUME NEW y \in T PROVE z >= y
        BY <2>1, <3>1, <4>1
      <4> QED
        BY <2>1, <4>2
    <3> QED
      BY <3>2, <3>3
  <2> QED
    BY <2>3, <2>4
<1>3. \A n \in Nat : n \in P
  <2> HIDE DEF P
  <2> QED
    BY <1>1, <1>2, Induct
<1>4. HasMax(S)
  BY <1>3, FS_CardinalityType
<1> QED
  BY <1>4 DEF Max

\* The times of the rows have a greatest one.
LEMMA LatestTime ==
    ASSUME TypeOK, Ids # {}
    PROVE  Max({row[i].at : i \in Ids}) \in Nat
<1> DEFINE S == {row[i].at : i \in Ids}
<1>1. S \in SUBSET Nat /\ S # {}
  BY DEF TypeOK, Rows
<1>2. IsFiniteSet(Ids)
  BY Processes, FS_Interval, FS_CardinalityType DEF Ids
<1>3. IsFiniteSet(S)
  <2> DEFINE f == [i \in Ids |-> row[i].at]
  <2>1. f \in Surjection(Ids, S)
    BY DEF Surjection
  <2> QED
    BY <1>2, <2>1, FS_Surjection
<1> HIDE DEF S
<1>4. Max(S) \in S
  BY <1>1, <1>3, MaxInSet
<1> QED
  BY <1>1, <1>4 DEF S

-----------------------------------------------------------------------------
(* What is recorded is true.                                               *)

\* The ids are an interval, and a process is of one kind only.
LEMMA IdFacts ==
    /\ Cardinality(Migrators) \in Nat
    /\ Ids \subseteq Nat /\ 0 \notin Ids
    /\ \A S \in SUBSET Ids : S # {} => Max(S) \in S
<1>1. Cardinality(Migrators) \in Nat
  BY Processes, FS_CardinalityType
<1>2. IsFiniteSet(Ids) /\ Ids \subseteq Nat /\ 0 \notin Ids
  BY <1>1, FS_Interval DEF Ids
<1> QED
  BY <1>1, <1>2, MaxInSet, FS_Subset

\* A row whose status is overwritten.
LEMMA RowUpdate ==
    ASSUME row \in [Ids -> Rows], NEW i, NEW s \in {"none", "applied", "failed", "rolled_back"},
           row' = [row EXCEPT ![i].status = s]
    PROVE  row' \in [Ids -> Rows]
<1>1. ASSUME NEW j \in Ids PROVE [row[j] EXCEPT !.status = s] \in Rows
  <2>1. row[j] \in Rows
    OBVIOUS
  <2> QED
    BY <2>1 DEF Rows
<1> DEFINE g == [j \in Ids |-> IF j = i THEN [row[j] EXCEPT !.status = s] ELSE row[j]]
<1>2. [row EXCEPT ![i].status = s] = g
  OBVIOUS
<1>3. g \in [Ids -> Rows]
  BY <1>1
<1> QED
  BY <1>2, <1>3

\* Every step keeps the types.
LEMMA TypeStep == TypeOK /\ [Next]_vars => TypeOK'
<1> SUFFICES ASSUME TypeOK, [Next]_vars PROVE TypeOK'
  OBVIOUS
<1> USE Processes DEF Procs, Go, At
<1>1. ASSUME NEW m \in Migrators, UpToDate(m) PROVE TypeOK'
  BY <1>1 DEF UpToDate, Finish, TypeOK, Rows, Places
<1>2. ASSUME NEW m \in Migrators, MakePlan(m) PROVE TypeOK'
  <2>1. PICK now \in Ids : clock' = now /\ id' = [id EXCEPT ![m] = now]
    BY <1>2 DEF MakePlan
  <2>2. clock' \in 0 .. Cardinality(Migrators)
    BY <2>1, IdFacts DEF Ids
  <2>3. id' \in [Procs -> Ids \cup {0}]
    BY <2>1 DEF TypeOK
  <2> QED
    BY <1>2, <2>2, <2>3 DEF MakePlan, TypeOK, Places
<1>3. ASSUME NEW m \in Migrators, CheckHistory(m) PROVE TypeOK'
  BY <1>3 DEF CheckHistory, TypeOK, Rows, Places
<1>4. ASSUME NEW m \in Migrators, ApplyNext(m) PROVE TypeOK'
  <2>1. Min(todo[m]) \in todo[m]
    BY <1>4, ObjectsAreNumbers, MinInSet DEF ApplyNext, TypeOK
  <2> QED
    BY <1>4, <2>1 DEF ApplyNext, TypeOK, Rows, Places
<1>5. ASSUME NEW m \in Migrators, ApplyFails(m) PROVE TypeOK'
  BY <1>5 DEF ApplyFails, TypeOK, Rows, Places
<1>6. ASSUME NEW m \in Migrators, RecordFailure(m) PROVE TypeOK'
  <2>1. row' = row \/ row' = [row EXCEPT ![id[m]].status = "failed"]
    BY <1>6 DEF RecordFailure
  <2>2. row \in [Ids -> Rows]
    BY DEF TypeOK
  <2>3. row' \in [Ids -> Rows]
    <3>1. CASE row' = row
      BY <2>2, <3>1
    <3>2. CASE row' = [row EXCEPT ![id[m]].status = "failed"]
      BY <2>2, <3>2, RowUpdate
    <3> QED
      BY <2>1, <3>1, <3>2
  <2> QED
    BY <1>6, <2>3 DEF RecordFailure, TypeOK, Places
<1>7. ASSUME NEW m \in Migrators, RecordSuccess(m) PROVE TypeOK'
  <2> DEFINE t == Max({row[i].at : i \in Ids})
             x == [status |-> "applied",
                   changes |-> IF row[id[m]].status = "none" THEN plan[m] ELSE row[id[m]].changes,
                   at |-> t + 1]
  <2>1. row \in [Ids -> Rows] /\ plan[m] \in SUBSET Objects
    BY DEF TypeOK
  <2>2. row' = IF id[m] \in Ids THEN [row EXCEPT ![id[m]] = x] ELSE row
    <3>1. row' = [row EXCEPT ![id[m]] = [status |-> "applied",
                    changes |-> IF @.status = "none" THEN plan[m] ELSE @.changes, at |-> t + 1]]
      BY <1>7 DEF RecordSuccess
    <3> QED
      BY <2>1, <3>1
  <2>3. ASSUME id[m] \in Ids PROVE x \in Rows
    <3>1. t \in Nat
      BY <2>3, LatestTime
    <3> HIDE DEF t
    <3>2. t + 1 \in Nat
      BY <3>1
    <3>3. row[id[m]].changes \in SUBSET Objects
      BY <2>1, <2>3 DEF Rows
    <3> QED
      BY <2>1, <3>2, <3>3 DEF Rows
  <2> HIDE DEF x
  <2>4. row' \in [Ids -> Rows]
    <3>1. CASE id[m] \in Ids
      <4> DEFINE f == row
                 k == id[m]
      <4>1. x \in Rows /\ row' = [f EXCEPT ![k] = x] /\ f \in [Ids -> Rows]
        BY <2>1, <2>2, <2>3, <3>1
      <4> HIDE DEF f, k
      <4>2. [f EXCEPT ![k] = x] \in [Ids -> Rows]
        BY <4>1
      <4> QED
        BY <4>1, <4>2
    <3>2. CASE id[m] \notin Ids
      BY <2>1, <2>2, <3>2
    <3> QED
      BY <3>1, <3>2
  <2> QED
    BY <1>7, <2>4 DEF RecordSuccess, TypeOK, Places
<1>8. ASSUME NEW m \in Migrators, Cancel(m) PROVE TypeOK'
  BY <1>8 DEF Cancel, Finish, TypeOK, Rows, Places
<1>9. ASSUME NEW r \in Rollers, FetchBatch(r) PROVE TypeOK'
  BY <1>9 DEF FetchBatch, LastApplied, Applied, TypeOK, Rows, Places
<1>10. ASSUME NEW r \in Rollers, BeginRow(r) PROVE TypeOK'
  <2>1. CASE batch[r] # {}
    <3>1. batch[r] \subseteq Ids
      BY DEF TypeOK
    <3>2. Max(batch[r]) \in batch[r]
      BY <2>1, <3>1, IdFacts
    <3>3. PICK i \in batch[r] : /\ id' = [id EXCEPT ![r] = i]
                                /\ todo' = [todo EXCEPT ![r] = row[i].changes \ Irreversible]
                                /\ batch' = [batch EXCEPT ![r] = @ \ {i}]
      BY <1>10, <3>2 DEF BeginRow
    <3>4. row[i].changes \in SUBSET Objects
      BY <3>1, <3>3 DEF TypeOK, Rows
    <3>5. id' \in [Procs -> Ids \cup {0}] /\ batch' \in [Procs -> SUBSET Ids]
      BY <3>1, <3>3 DEF TypeOK
    <3>6. todo' \in [Procs -> SUBSET Objects]
      BY <3>3, <3>4 DEF TypeOK
    <3> QED
      BY <1>10, <3>5, <3>6 DEF BeginRow, TypeOK, Places
  <2> QED
    BY <1>10, <2>1 DEF BeginRow
<1>11. ASSUME NEW r \in Rollers, DropNext(r) PROVE TypeOK'
  BY <1>11 DEF DropNext, TypeOK, Rows, Places
<1>12. ASSUME NEW r \in Rollers, DropFails(r) PROVE TypeOK'
  BY <1>12 DEF DropFails, TypeOK, Rows, Places
<1>13. ASSUME NEW r \in Rollers, MarkRow(r) PROVE TypeOK'
  <2>1. row' = [row EXCEPT ![id[r]].status = "rolled_back"]
    BY <1>13 DEF MarkRow
  <2>2. row \in [Ids -> Rows]
    BY DEF TypeOK
  <2>3. row' \in [Ids -> Rows]
    BY <2>1, <2>2, RowUpdate
  <2> QED
    BY <1>13, <2>3 DEF MarkRow, TypeOK, Places
<1>14. ASSUME NEW r \in Rollers, BatchDone(r) PROVE TypeOK'
  BY <1>14 DEF BatchDone, TypeOK, Rows, Places
<1>15. ASSUME NEW p \in Procs, AcquireLock(p) PROVE TypeOK'
  BY <1>15 DEF AcquireLock, TypeOK, Rows, Places
<1>16. ASSUME NEW p \in Procs, ReleaseLock(p) PROVE TypeOK'
  BY <1>16 DEF ReleaseLock, TypeOK, Rows, Places
<1>17. ASSUME NEW p \in Procs, Exit(p) PROVE TypeOK'
  BY <1>17 DEF Exit, CloseSession, TypeOK, Rows, Places
<1>18. ASSUME NEW p \in Procs, Crash(p) PROVE TypeOK'
  BY <1>18 DEF Crash, CloseSession, TypeOK, Rows, Places
<1>19. CASE UNCHANGED vars
  BY <1>19 DEF vars, TypeOK, Rows, Places
<1> QED
  BY <1>1, <1>2, <1>3, <1>4, <1>5, <1>6, <1>7, <1>8, <1>9, <1>10, <1>11, <1>12, <1>13, <1>14, <1>15, <1>16, <1>17, <1>18, <1>19
  DEF Next, MigrateStep, RollStep

\* What makes the records true.  A plan is in the schema up to the statements
\* left, a row that is being rolled back is out of it up to the statements left
\* and the changes without down SQL; every row has the changes of the plans with
\* its id, and as long as no rollback has fetched its rows the schema has what a
\* plan left out and everything once a row is recorded as applied.
NoRollYet == \A r \in Rollers : pc[r] \in {"start", "check"}
Planned(m) == pc[m] \in {"planned", "check", "apply", "failed"}
HistInv ==
    /\ \A m \in Migrators : pc[m] \notin {"down", "mark"}
    /\ \A r \in Rollers : pc[r] \notin {"planned", "apply", "failed"}
    /\ \A m \in Migrators : IF pc[m] = "start" THEN id[m] = 0 ELSE Planned(m) => id[m] \in Ids
    /\ \A m \in Migrators : pc[m] = "failed" => broken[m]
    /\ \A m \in Migrators : pc[m] = "apply" => plan[m] \ todo[m] \subseteq schema
    /\ \A r \in Rollers : \A i \in batch[r] : row[i].status # "none"
    /\ \A r \in Rollers : pc[r] = "mark" =>
          /\ id[r] \in Ids /\ row[id[r]].status # "none"
          /\ row[id[r]].changes \cap schema \subseteq Irreversible \cup todo[r]
    /\ \A i \in Ids : row[i].status # "failed"
    /\ \A i \in Ids : row[i].status # "none" =>
          /\ \E q \in Migrators : id[q] = i
          /\ \A q \in Migrators : id[q] = i => plan[q] = row[i].changes
    /\ \A p, q \in Migrators : id[p] \in Ids /\ id[p] = id[q] => plan[p] = plan[q]
    /\ NoRollYet =>
          /\ \A m \in Migrators : id[m] \in Ids => Objects \ plan[m] \subseteq schema
          /\ \A i \in Ids : row[i].status = "applied" => Objects \subseteq schema

\* Every step keeps HistInv.
LEMMA HistStep == TypeOK /\ IInv /\ HistInv /\ [Next]_vars => HistInv'
<1>0. SUFFICES ASSUME TypeOK, IInv, HistInv, [Next]_vars PROVE HistInv'
  OBVIOUS
<1> USE Processes, IdFacts DEF Procs, Go, At
<1>1. ASSUME NEW m \in Migrators, UpToDate(m) PROVE HistInv'
  BY <1>0, <1>1 DEF UpToDate, Finish, TypeOK, Rows, Places, IInv, OwnerInside, Inside, HistInv, Planned, NoRollYet
<1>2. ASSUME NEW m \in Migrators, MakePlan(m) PROVE HistInv'
  <2>1. PICK now \in Ids : /\ id' = [id EXCEPT ![m] = now]
                           /\ \A q \in Migrators : id[q] = now => plan[q] = Objects \ schema
    BY <1>0, <1>2 DEF MakePlan
  <2>2. /\ pc' = [pc EXCEPT ![m] = "planned"] /\ plan' = [plan EXCEPT ![m] = Objects \ schema]
        /\ UNCHANGED <<schema, row, lock, todo, batch, broken, result>>
    BY <1>0, <1>2 DEF MakePlan
  <2>3. id'[m] = now /\ plan'[m] = Objects \ schema
        /\ \A q \in Procs : q # m => id'[q] = id[q] /\ plan'[q] = plan[q]
    BY <1>0, <2>1, <2>2 DEF TypeOK
  <2>4. \A i \in Ids : row[i].status # "none" =>
          /\ \E q \in Migrators : id'[q] = i
          /\ \A q \in Migrators : id'[q] = i => plan'[q] = row[i].changes
    <3> SUFFICES ASSUME NEW i \in Ids, row[i].status # "none"
                 PROVE  /\ \E q \in Migrators : id'[q] = i
                        /\ \A q \in Migrators : id'[q] = i => plan'[q] = row[i].changes
      OBVIOUS
    <3>1. PICK q \in Migrators : id[q] = i /\ plan[q] = row[i].changes
      BY <1>0 DEF HistInv
    <3>2. q # m
      BY <1>0, <3>1, <1>2 DEF MakePlan, HistInv, TypeOK
    <3>3. id'[q] = i
      BY <2>3, <3>1, <3>2 DEF Procs
    <3>4. ASSUME NEW u \in Migrators, id'[u] = i PROVE plan'[u] = row[i].changes
      <4>1. CASE u = m
        <5>1. now = i
          BY <2>3, <3>4, <4>1
        <5>2. plan[q] = Objects \ schema
          BY <2>1, <3>1, <5>1
        <5> QED
          BY <2>3, <3>1, <4>1, <5>2
      <4>2. CASE u # m
        BY <1>0, <2>3, <3>4, <4>2 DEF HistInv, Procs
      <4> QED
        BY <4>1, <4>2
    <3> QED
      BY <3>3, <3>4
  <2>5. \A p, q \in Migrators : id'[p] \in Ids /\ id'[p] = id'[q] => plan'[p] = plan'[q]
    <3> SUFFICES ASSUME NEW p \in Migrators, NEW q \in Migrators, id'[p] \in Ids, id'[p] = id'[q]
                 PROVE  plan'[p] = plan'[q]
      OBVIOUS
    <3>1. CASE p = m
      BY <2>1, <2>3, <3>1
    <3>2. CASE q = m
      BY <2>1, <2>3, <3>2
    <3>3. CASE p # m /\ q # m
      BY <1>0, <2>3, <3>3 DEF HistInv
    <3> QED
      BY <3>1, <3>2, <3>3
  <2>6. NoRollYet' =>
          /\ \A q \in Migrators : id'[q] \in Ids => Objects \ plan'[q] \subseteq schema
          /\ \A i \in Ids : row[i].status = "applied" => Objects \subseteq schema
    BY <1>0, <2>2, <2>3 DEF HistInv, NoRollYet, TypeOK
  <2>7. /\ \A q \in Migrators : pc'[q] \notin {"down", "mark"}
        /\ \A q \in Migrators : IF pc'[q] = "start" THEN id'[q] = 0 ELSE Planned(q)' => id'[q] \in Ids
        /\ \A q \in Migrators : pc'[q] = "failed" => broken[q]
        /\ \A q \in Migrators : pc'[q] = "apply" => plan'[q] \ todo[q] \subseteq schema
    BY <1>0, <2>1, <2>2, <2>3 DEF HistInv, Planned, TypeOK
  <2>8. /\ \A r \in Rollers : pc'[r] \notin {"planned", "apply", "failed"}
        /\ \A r \in Rollers : pc'[r] = "mark" =>
             /\ id'[r] \in Ids /\ row[id'[r]].status # "none"
             /\ row[id'[r]].changes \cap schema \subseteq Irreversible \cup todo[r]
    BY <1>0, <2>1, <2>2, <2>3 DEF HistInv, TypeOK
  <2>9. /\ \A r \in Rollers : \A i \in batch[r] : row[i].status # "none"
        /\ \A i \in Ids : row[i].status # "failed"
    BY <1>0 DEF HistInv
  <2>10. schema' = schema /\ row' = row /\ todo' = todo /\ batch' = batch /\ broken' = broken
    BY <2>2
  <2> QED
    BY <2>4, <2>5, <2>6, <2>7, <2>8, <2>9, <2>10 DEF HistInv
<1>3. ASSUME NEW m \in Migrators, CheckHistory(m) PROVE HistInv'
  BY <1>0, <1>3 DEF CheckHistory, TypeOK, Rows, Places, IInv, OwnerInside, Inside, HistInv, Planned, NoRollYet
<1>4. ASSUME NEW m \in Migrators, ApplyNext(m) PROVE HistInv'
  BY <1>0, <1>4 DEF ApplyNext, TypeOK, Rows, Places, IInv, OwnerInside, Inside, HistInv, Planned, NoRollYet
<1>5. ASSUME NEW m \in Migrators, ApplyFails(m) PROVE HistInv'
  BY <1>0, <1>5 DEF ApplyFails, TypeOK, Rows, Places, IInv, OwnerInside, Inside, HistInv, Planned, NoRollYet
<1>6. ASSUME NEW m \in Migrators, RecordFailure(m) PROVE HistInv'
  BY <1>0, <1>6 DEF RecordFailure, TypeOK, Rows, Places, IInv, OwnerInside, Inside, HistInv, Planned, NoRollYet
<1>7. ASSUME NEW m \in Migrators, RecordSuccess(m) PROVE HistInv'
  BY <1>0, <1>7 DEF RecordSuccess, Applied, TypeOK, Rows, Places, IInv, OwnerInside, Inside, HistInv, Planned, NoRollYet
<1>8. ASSUME NEW m \in Migrators, Cancel(m) PROVE HistInv'
  BY <1>0, <1>8 DEF Cancel, Finish, TypeOK, Rows, Places, IInv, OwnerInside, Inside, HistInv, Planned, NoRollYet
<1>9. ASSUME NEW r \in Rollers, FetchBatch(r) PROVE HistInv'
  BY <1>0, <1>9 DEF FetchBatch, LastApplied, Applied, TypeOK, Rows, Places, IInv, OwnerInside, Inside, HistInv, Planned, NoRollYet
<1>10. ASSUME NEW r \in Rollers, BeginRow(r) PROVE HistInv'
  <2>1. PICK i \in batch[r] : /\ id' = [id EXCEPT ![r] = i]
                              /\ todo' = [todo EXCEPT ![r] = row[i].changes \ Irreversible]
                              /\ batch' = [batch EXCEPT ![r] = @ \ {i}]
    BY <1>0, <1>10 DEF BeginRow, TypeOK
  <2>2. /\ pc' = [pc EXCEPT ![r] = "mark"] /\ UNCHANGED <<schema, row, clock, lock, plan, broken, result>>
    BY <1>0, <1>10 DEF BeginRow
  <2> QED
    BY <1>0, <1>10, <2>1, <2>2 DEF TypeOK, HistInv, Planned, NoRollYet
<1>11. ASSUME NEW r \in Rollers, DropNext(r) PROVE HistInv'
  BY <1>0, <1>11 DEF DropNext, TypeOK, Rows, Places, IInv, OwnerInside, Inside, HistInv, Planned, NoRollYet
<1>12. ASSUME NEW r \in Rollers, DropFails(r) PROVE HistInv'
  BY <1>0, <1>12 DEF DropFails, TypeOK, Rows, Places, IInv, OwnerInside, Inside, HistInv, Planned, NoRollYet
<1>13. ASSUME NEW r \in Rollers, MarkRow(r) PROVE HistInv'
  <2>1. /\ \A i \in Ids : row'[i].changes = row[i].changes
        /\ \A i \in Ids : i # id[r] => row'[i].status = row[i].status
        /\ id[r] \in Ids /\ row'[id[r]].status = "rolled_back"
    BY <1>0, <1>13 DEF MarkRow, TypeOK, Rows, HistInv
  <2>2. /\ pc' = [pc EXCEPT ![r] = "down"] /\ pc[r] = "mark"
        /\ UNCHANGED <<schema, clock, lock, id, plan, todo, batch, broken, result>>
    BY <1>0, <1>13 DEF MarkRow
  <2>3. row[id[r]].status # "none"
    BY <1>0, <2>2 DEF HistInv
  <2> QED
    BY <1>0, <2>1, <2>2, <2>3 DEF TypeOK, Places, IInv, OwnerInside, Inside, HistInv, Planned, NoRollYet
<1>14. ASSUME NEW r \in Rollers, BatchDone(r) PROVE HistInv'
  BY <1>0, <1>14 DEF BatchDone, TypeOK, Rows, Places, IInv, OwnerInside, Inside, HistInv, Planned, NoRollYet
<1>15. ASSUME NEW p \in Procs, AcquireLock(p) PROVE HistInv'
  BY <1>0, <1>15 DEF AcquireLock, TypeOK, Rows, Places, IInv, OwnerInside, Inside, HistInv, Planned, NoRollYet
<1>16. ASSUME NEW p \in Procs, ReleaseLock(p) PROVE HistInv'
  BY <1>0, <1>16 DEF ReleaseLock, TypeOK, Rows, Places, IInv, OwnerInside, Inside, HistInv, Planned, NoRollYet
<1>17. ASSUME NEW p \in Procs, Exit(p) PROVE HistInv'
  BY <1>0, <1>17 DEF Exit, CloseSession, TypeOK, Rows, Places, IInv, OwnerInside, Inside, HistInv, Planned, NoRollYet
<1>18. ASSUME NEW p \in Procs, Crash(p) PROVE HistInv'
  BY <1>0, <1>18 DEF Crash, CloseSession, TypeOK, Rows, Places, IInv, OwnerInside, Inside, HistInv, Planned, NoRollYet
<1>19. CASE UNCHANGED vars
  BY <1>0, <1>19 DEF vars, TypeOK, Rows, Places, IInv, OwnerInside, Inside, HistInv, Planned, NoRollYet
<1> QED
  BY <1>0, <1>1, <1>2, <1>3, <1>4, <1>5, <1>6, <1>7, <1>8, <1>9, <1>10, <1>11, <1>12, <1>13, <1>14, <1>15, <1>16, <1>17, <1>18, <1>19
  DEF Next, MigrateStep, RollStep

\* What a step answers and writes to the history is so.
LEMMA RecordsStep == TypeOK /\ IInv /\ HistInv /\ [Next]_vars => (SuccessMeansSchema /\ HistoryTrue)
<1> SUFFICES ASSUME TypeOK, IInv, HistInv, [Next]_vars PROVE (SuccessMeansSchema /\ HistoryTrue)
  OBVIOUS
<1> USE Processes DEF Procs, Go, At
<1>1. ASSUME NEW m \in Migrators, UpToDate(m) PROVE (SuccessMeansSchema /\ HistoryTrue)
  BY <1>1 DEF UpToDate, Finish, TypeOK, Rows, Places, IInv, OwnerInside, Inside, HistInv, Planned, NoRollYet, SuccessMeansSchema, HistoryTrue
<1>2. ASSUME NEW m \in Migrators, MakePlan(m) PROVE (SuccessMeansSchema /\ HistoryTrue)
  BY <1>2 DEF MakePlan, TypeOK, Rows, Places, IInv, OwnerInside, Inside, HistInv, Planned, NoRollYet, SuccessMeansSchema, HistoryTrue
<1>3. ASSUME NEW m \in Migrators, CheckHistory(m) PROVE (SuccessMeansSchema /\ HistoryTrue)
  BY <1>3 DEF CheckHistory, TypeOK, Rows, Places, IInv, OwnerInside, Inside, HistInv, Planned, NoRollYet, SuccessMeansSchema, HistoryTrue
<1>4. ASSUME NEW m \in Migrators, ApplyNext(m) PROVE (SuccessMeansSchema /\ HistoryTrue)
  BY <1>4 DEF ApplyNext, TypeOK, Rows, Places, IInv, OwnerInside, Inside, HistInv, Planned, NoRollYet, SuccessMeansSchema, HistoryTrue
<1>5. ASSUME NEW m \in Migrators, ApplyFails(m) PROVE (SuccessMeansSchema /\ HistoryTrue)
  BY <1>5 DEF ApplyFails, TypeOK, Rows, Places, IInv, OwnerInside, Inside, HistInv, Planned, NoRollYet, SuccessMeansSchema, HistoryTrue
<1>6. ASSUME NEW m \in Migrators, RecordFailure(m) PROVE (SuccessMeansSchema /\ HistoryTrue)
  BY <1>6 DEF RecordFailure, TypeOK, Rows, Places, IInv, OwnerInside, Inside, HistInv, Planned, NoRollYet, SuccessMeansSchema, HistoryTrue
<1>7. ASSUME NEW m \in Migrators, RecordSuccess(m) PROVE (SuccessMeansSchema /\ HistoryTrue)
  BY <1>7 DEF RecordSuccess, Applied, TypeOK, Rows, Places, IInv, OwnerInside, Inside, HistInv, Planned, NoRollYet, SuccessMeansSchema, HistoryTrue
<1>8. ASSUME NEW m \in Migrators, Cancel(m) PROVE (SuccessMeansSchema /\ HistoryTrue)
  BY <1>8 DEF Cancel, Finish, TypeOK, Rows, Places, IInv, OwnerInside, Inside, HistInv, Planned, NoRollYet, SuccessMeansSchema, HistoryTrue
<1>9. ASSUME NEW r \in Rollers, FetchBatch(r) PROVE (SuccessMeansSchema /\ HistoryTrue)
  BY <1>9 DEF FetchBatch, LastApplied, Applied, TypeOK, Rows, Places, IInv, OwnerInside, Inside, HistInv, Planned, NoRollYet, SuccessMeansSchema, HistoryTrue
<1>10. ASSUME NEW r \in Rollers, BeginRow(r) PROVE (SuccessMeansSchema /\ HistoryTrue)
  BY <1>10 DEF BeginRow, TypeOK, Rows, Places, IInv, OwnerInside, Inside, HistInv, Planned, NoRollYet, SuccessMeansSchema, HistoryTrue
<1>11. ASSUME NEW r \in Rollers, DropNext(r) PROVE (SuccessMeansSchema /\ HistoryTrue)
  BY <1>11 DEF DropNext, TypeOK, Rows, Places, IInv, OwnerInside, Inside, HistInv, Planned, NoRollYet, SuccessMeansSchema, HistoryTrue
<1>12. ASSUME NEW r \in Rollers, DropFails(r) PROVE (SuccessMeansSchema /\ HistoryTrue)
  BY <1>12 DEF DropFails, TypeOK, Rows, Places, IInv, OwnerInside, Inside, HistInv, Planned, NoRollYet, SuccessMeansSchema, HistoryTrue
<1>13. ASSUME NEW r \in Rollers, MarkRow(r) PROVE (SuccessMeansSchema /\ HistoryTrue)
  BY <1>13 DEF MarkRow, TypeOK, Rows, Places, IInv, OwnerInside, Inside, HistInv, Planned, NoRollYet, SuccessMeansSchema, HistoryTrue
<1>14. ASSUME NEW r \in Rollers, BatchDone(r) PROVE (SuccessMeansSchema /\ HistoryTrue)
  BY <1>14 DEF BatchDone, TypeOK, Rows, Places, IInv, OwnerInside, Inside, HistInv, Planned, NoRollYet, SuccessMeansSchema, HistoryTrue
<1>15. ASSUME NEW p \in Procs, AcquireLock(p) PROVE (SuccessMeansSchema /\ HistoryTrue)
  BY <1>15 DEF AcquireLock, TypeOK, Rows, Places, IInv, OwnerInside, Inside, HistInv, Planned, NoRollYet, SuccessMeansSchema, HistoryTrue
<1>16. ASSUME NEW p \in Procs, ReleaseLock(p) PROVE (SuccessMeansSchema /\ HistoryTrue)
  BY <1>16 DEF ReleaseLock, TypeOK, Rows, Places, IInv, OwnerInside, Inside, HistInv, Planned, NoRollYet, SuccessMeansSchema, HistoryTrue
<1>17. ASSUME NEW p \in Procs, Exit(p) PROVE (SuccessMeansSchema /\ HistoryTrue)
  BY <1>17 DEF Exit, CloseSession, TypeOK, Rows, Places, IInv, OwnerInside, Inside, HistInv, Planned, NoRollYet, SuccessMeansSchema, HistoryTrue
<1>18. ASSUME NEW p \in Procs, Crash(p) PROVE (SuccessMeansSchema /\ HistoryTrue)
  BY <1>18 DEF Crash, CloseSession, TypeOK, Rows, Places, IInv, OwnerInside, Inside, HistInv, Planned, NoRollYet, SuccessMeansSchema, HistoryTrue
<1>19. CASE UNCHANGED vars
  BY <1>19 DEF vars, TypeOK, Rows, Places, IInv, OwnerInside, Inside, HistInv, Planned, NoRollYet, SuccessMeansSchema, HistoryTrue
<1> QED
  BY <1>1, <1>2, <1>3, <1>4, <1>5, <1>6, <1>7, <1>8, <1>9, <1>10, <1>11, <1>12, <1>13, <1>14, <1>15, <1>16, <1>17, <1>18, <1>19
  DEF Next, MigrateStep, RollStep

\* For any number of migrating and rolling-back processes, any plan and any crash:
\* success is reported only with the whole schema there, and a row is recorded as
\* applied or rolled back only when its changes are in the database or out of it.
THEOREM RecordsAreTrue == Spec => RecordsTrue
<1> DEFINE Inv == TypeOK /\ IInv /\ HistInv
<1>1. Init => Inv
  <2>1. Init => TypeOK
    BY IdFacts DEF Init, TypeOK, Rows, Places
  <2>2. Init => HistInv
    BY IdFacts DEF Init, HistInv, Planned, NoRollYet, Procs, Ids
  <2> QED
    BY <2>1, <2>2, InitIInv
<1>2. Inv /\ [Next]_vars => Inv'
  BY TypeStep, NextIInv, HistStep
<1>3. Inv /\ [Next]_vars => [SuccessMeansSchema /\ HistoryTrue]_vars
  BY RecordsStep
<1> QED
  BY <1>1, <1>2, <1>3, PTL DEF Spec, RecordsTrue
=============================================================================

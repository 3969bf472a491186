------------------------ MODULE ProcessRegistryProofs -----------------------
(* The registry of spawned processes, for any number of processes, callers   *)
(* and any limit: reported ends have happened, and no call loses hold of a   *)
(* running process.                                                          *)
EXTENDS ProcessRegistry, TLAPS

\* What the answers rest on: a call that has looked a handle up works on a
\* process that was started; the mutex of a child is held exactly by the call
\* that reads its pipes or reaps it; and a child that was taken is reaped unless
\* that call is still at it.
CallInv ==
    /\ \A c \in Callers : pc[c] = "remove" <=> answer[c] # "none"
    /\ \A c \in Callers : pc[c] \in {"kill", "status", "poll", "wait", "stdout", "stderr", "reap", "remove"} =>
          arg[c] \in Procs /\ os[arg[c]] # "none"
    /\ \A p \in Procs : os[p] = "none" <=> child[p] = "none"
    /\ \A p \in handles : os[p] # "none"
    /\ \A p \in Procs : child[p] = "taken" /\ os[p] # "reaped" => lock[p] # Nobody
    /\ \A p \in Procs : lock[p] # Nobody =>
          pc[lock[p]] \in {"stdout", "stderr", "reap"} /\ arg[lock[p]] = p
    /\ \A c \in Callers : pc[c] \in {"stdout", "stderr", "reap"} => lock[arg[c]] = c

-----------------------------------------------------------------------------
\* Every step keeps the types.
LEMMA TypeStep == TypeOK /\ CallInv /\ [Next]_vars => TypeOK'
<1> SUFFICES ASSUME TypeOK, CallInv, [Next]_vars PROVE TypeOK'
  OBVIOUS
<1> USE DEF osVars, Go, Answer, Return
<1>1. ASSUME NEW c \in Callers, NEW p \in Procs, Insert(c, p)
      PROVE  TypeOK'
  BY <1>1 DEF Insert, TypeOK, CallInv, Places, Answers
<1>2. ASSUME NEW c \in Callers, Kill(c)
      PROVE  TypeOK'
  BY <1>2 DEF Kill, After, Done, TypeOK, CallInv, Places, Answers
<1>3. ASSUME NEW c \in Callers, Remove(c)
      PROVE  TypeOK'
  BY <1>3 DEF Remove, After, Done, TypeOK, CallInv, Places, Answers
<1>4. ASSUME NEW c \in Callers, CachedStatus(c)
      PROVE  TypeOK'
  BY <1>4 DEF CachedStatus, TypeOK, CallInv, Places, Answers
<1>5. ASSUME NEW c \in Callers, PollChild(c)
      PROVE  TypeOK'
  <2>1. CASE child[arg[c]] = "taken"
    BY <1>5, <2>1 DEF PollChild, TypeOK, CallInv, Places, Answers
  <2>2. CASE child[arg[c]] = "some" /\ os[arg[c]] = "running"
    BY <1>5, <2>2 DEF PollChild, TypeOK, CallInv, Places, Answers
  <2>3. CASE child[arg[c]] # "taken" /\ ~(child[arg[c]] = "some" /\ os[arg[c]] = "running")
    <3>1. /\ Answer(c, "exited") /\ Go(c, "remove")
          /\ os' = [os EXCEPT ![arg[c]] = "reaped"]
          /\ exit' = [exit EXCEPT ![arg[c]] = TRUE]
          /\ UNCHANGED <<handles, blocked, child, lock, todo, arg>>
      BY <1>5, <2>3 DEF PollChild
    <3> QED
      BY <3>1 DEF TypeOK, CallInv, Places, Answers
  <2> QED
    BY <2>1, <2>2, <2>3
<1>6. ASSUME NEW c \in Callers, TakeChild(c)
      PROVE  TypeOK'
  BY <1>6 DEF TakeChild, TypeOK, CallInv, Places, Answers
<1>7. ASSUME NEW c \in Callers, Drain(c)
      PROVE  TypeOK'
  BY <1>7 DEF Drain, TypeOK, CallInv, Places, Answers
<1>8. ASSUME NEW c \in Callers, StopReading(c)
      PROVE  TypeOK'
  BY <1>8 DEF StopReading, TypeOK, CallInv, Places, Answers
<1>9. ASSUME NEW c \in Callers, Reap(c)
      PROVE  TypeOK'
  BY <1>9 DEF Reap, TypeOK, CallInv, Places, Answers
<1>10. ASSUME NEW c \in Callers, ReapFails(c)
      PROVE  TypeOK'
  BY <1>10 DEF ReapFails, TypeOK, CallInv, Places, Answers
<1>11. ASSUME NEW c \in Callers, NEW p \in Procs, ShutdownNext(c, p)
      PROVE  TypeOK'
  BY <1>11 DEF ShutdownNext, TypeOK, CallInv, Places, Answers
<1>12. ASSUME NEW c \in Callers, ShutdownClear(c)
      PROVE  TypeOK'
  BY <1>12 DEF ShutdownClear, TypeOK, CallInv, Places, Answers
<1>13. ASSUME NEW c \in Callers, CheckLimit(c)
      PROVE  TypeOK'
  BY <1>13 DEF CheckLimit, TypeOK, CallInv, Places, Answers
<1>14. ASSUME NEW c \in Callers, NEW p \in Procs, NEW place \in {"kill", "status", "wait"}, Lookup(c, p, place)
      PROVE  TypeOK'
  BY <1>14 DEF Lookup, TypeOK, CallInv, Places, Answers
<1>15. ASSUME NEW c \in Callers, BeginShutdown(c)
      PROVE  TypeOK'
  BY <1>15 DEF BeginShutdown, TypeOK, CallInv, Places, Answers
<1>16. ASSUME NEW p \in Procs, ProcExits(p)
      PROVE  TypeOK'
  BY <1>16 DEF ProcExits, TypeOK, CallInv, Places, Answers
<1>17. ASSUME NEW p \in Procs, NEW pipe \in {"stdout", "stderr"}, ProcBlocks(p, pipe)
      PROVE  TypeOK'
  BY <1>17 DEF ProcBlocks, TypeOK, CallInv, Places, Answers
<1>18. CASE UNCHANGED vars
  BY <1>18 DEF vars, TypeOK, CallInv, Places, Answers
<1> QED
  BY <1>1, <1>2, <1>3, <1>4, <1>5, <1>6, <1>7, <1>8, <1>9, <1>10, <1>11, <1>12, <1>13, <1>14, <1>15, <1>16, <1>17, <1>18
     DEF Next, CallerStep, BeginCall, BeginKill, BeginStatus, BeginWait

-----------------------------------------------------------------------------
\* Every step keeps CallInv.
LEMMA CallStep == TypeOK /\ CallInv /\ EndsAreReal /\ [Next]_vars => CallInv'
<1> SUFFICES ASSUME TypeOK, CallInv, EndsAreReal, [Next]_vars PROVE CallInv'
  OBVIOUS
<1> USE DEF osVars, Go, Answer, Return
<1>1. ASSUME NEW c \in Callers, NEW p \in Procs, Insert(c, p)
      PROVE  CallInv'
  BY <1>1, NamesDistinct DEF Insert, TypeOK, CallInv, EndsAreReal, Places, Answers
<1>2. ASSUME NEW c \in Callers, Kill(c)
      PROVE  CallInv'
  BY <1>2, NamesDistinct DEF Kill, After, Done, TypeOK, CallInv, EndsAreReal, Places, Answers
<1>3. ASSUME NEW c \in Callers, Remove(c)
      PROVE  CallInv'
  BY <1>3, NamesDistinct DEF Remove, After, Done, TypeOK, CallInv, EndsAreReal, Places, Answers
<1>4. ASSUME NEW c \in Callers, CachedStatus(c)
      PROVE  CallInv'
  BY <1>4, NamesDistinct DEF CachedStatus, TypeOK, CallInv, EndsAreReal, Places, Answers
<1>5. ASSUME NEW c \in Callers, PollChild(c)
      PROVE  CallInv'
  BY <1>5, NamesDistinct DEF PollChild, TypeOK, CallInv, EndsAreReal, Places, Answers
<1>6. ASSUME NEW c \in Callers, TakeChild(c)
      PROVE  CallInv'
  BY <1>6, NamesDistinct DEF TakeChild, TypeOK, CallInv, EndsAreReal, Places, Answers
<1>7. ASSUME NEW c \in Callers, Drain(c)
      PROVE  CallInv'
  BY <1>7, NamesDistinct DEF Drain, TypeOK, CallInv, EndsAreReal, Places, Answers
<1>8. ASSUME NEW c \in Callers, StopReading(c)
      PROVE  CallInv'
  BY <1>8, NamesDistinct DEF StopReading, TypeOK, CallInv, EndsAreReal, Places, Answers
<1>9. ASSUME NEW c \in Callers, Reap(c)
      PROVE  CallInv'
  BY <1>9, NamesDistinct DEF Reap, TypeOK, CallInv, EndsAreReal, Places, Answers
<1>10. ASSUME NEW c \in Callers, ReapFails(c)
      PROVE  CallInv'
  BY <1>10, NamesDistinct DEF ReapFails, TypeOK, CallInv, EndsAreReal, Places, Answers
<1>11. ASSUME NEW c \in Callers, NEW p \in Procs, ShutdownNext(c, p)
      PROVE  CallInv'
  BY <1>11, NamesDistinct DEF ShutdownNext, TypeOK, CallInv, EndsAreReal, Places, Answers
<1>12. ASSUME NEW c \in Callers, ShutdownClear(c)
      PROVE  CallInv'
  BY <1>12, NamesDistinct DEF ShutdownClear, TypeOK, CallInv, EndsAreReal, Places, Answers
<1>13. ASSUME NEW c \in Callers, CheckLimit(c)
      PROVE  CallInv'
  BY <1>13, NamesDistinct DEF CheckLimit, TypeOK, CallInv, EndsAreReal, Places, Answers
<1>14. ASSUME NEW c \in Callers, NEW p \in Procs, NEW place \in {"kill", "status", "wait"}, Lookup(c, p, place)
      PROVE  CallInv'
  BY <1>14, NamesDistinct DEF Lookup, TypeOK, CallInv, EndsAreReal, Places, Answers
<1>15. ASSUME NEW c \in Callers, BeginShutdown(c)
      PROVE  CallInv'
  BY <1>15, NamesDistinct DEF BeginShutdown, TypeOK, CallInv, EndsAreReal, Places, Answers
<1>16. ASSUME NEW p \in Procs, ProcExits(p)
      PROVE  CallInv'
  BY <1>16, NamesDistinct DEF ProcExits, TypeOK, CallInv, EndsAreReal, Places, Answers
<1>17. ASSUME NEW p \in Procs, NEW pipe \in {"stdout", "stderr"}, ProcBlocks(p, pipe)
      PROVE  CallInv'
  BY <1>17, NamesDistinct DEF ProcBlocks, TypeOK, CallInv, EndsAreReal, Places, Answers
<1>18. CASE UNCHANGED vars
  BY <1>18 DEF vars, TypeOK, CallInv, EndsAreReal, Places, Answers
<1> QED
  BY <1>1, <1>2, <1>3, <1>4, <1>5, <1>6, <1>7, <1>8, <1>9, <1>10, <1>11, <1>12, <1>13, <1>14, <1>15, <1>16, <1>17, <1>18
     DEF Next, CallerStep, BeginCall, BeginKill, BeginStatus, BeginWait

-----------------------------------------------------------------------------
\* Every step keeps reported ends real.
LEMMA EndsStep == TypeOK /\ CallInv /\ EndsAreReal /\ [Next]_vars => EndsAreReal'
<1> SUFFICES ASSUME TypeOK, CallInv, EndsAreReal, [Next]_vars PROVE EndsAreReal'
  OBVIOUS
<1> USE DEF osVars, Go, Answer, Return
<1>1. ASSUME NEW c \in Callers, NEW p \in Procs, Insert(c, p)
      PROVE  EndsAreReal'
  BY <1>1, NamesDistinct DEF Insert, TypeOK, CallInv, EndsAreReal
<1>2. ASSUME NEW c \in Callers, Kill(c)
      PROVE  EndsAreReal'
  BY <1>2, NamesDistinct DEF Kill, After, Done, TypeOK, CallInv, EndsAreReal
<1>3. ASSUME NEW c \in Callers, Remove(c)
      PROVE  EndsAreReal'
  BY <1>3, NamesDistinct DEF Remove, After, Done, TypeOK, CallInv, EndsAreReal
<1>4. ASSUME NEW c \in Callers, CachedStatus(c)
      PROVE  EndsAreReal'
  BY <1>4, NamesDistinct DEF CachedStatus, TypeOK, CallInv, EndsAreReal
<1>5. ASSUME NEW c \in Callers, PollChild(c)
      PROVE  EndsAreReal'
  BY <1>5, NamesDistinct DEF PollChild, TypeOK, CallInv, EndsAreReal
<1>6. ASSUME NEW c \in Callers, TakeChild(c)
      PROVE  EndsAreReal'
  BY <1>6, NamesDistinct DEF TakeChild, TypeOK, CallInv, EndsAreReal
<1>7. ASSUME NEW c \in Callers, Drain(c)
      PROVE  EndsAreReal'
  BY <1>7, NamesDistinct DEF Drain, TypeOK, CallInv, EndsAreReal
<1>8. ASSUME NEW c \in Callers, StopReading(c)
      PROVE  EndsAreReal'
  BY <1>8, NamesDistinct DEF StopReading, TypeOK, CallInv, EndsAreReal
<1>9. ASSUME NEW c \in Callers, Reap(c)
      PROVE  EndsAreReal'
  BY <1>9, NamesDistinct DEF Reap, TypeOK, CallInv, EndsAreReal
<1>10. ASSUME NEW c \in Callers, ReapFails(c)
      PROVE  EndsAreReal'
  BY <1>10, NamesDistinct DEF ReapFails, TypeOK, CallInv, EndsAreReal
<1>11. ASSUME NEW c \in Callers, NEW p \in Procs, ShutdownNext(c, p)
      PROVE  EndsAreReal'
  BY <1>11, NamesDistinct DEF ShutdownNext, TypeOK, CallInv, EndsAreReal
<1>12. ASSUME NEW c \in Callers, ShutdownClear(c)
      PROVE  EndsAreReal'
  BY <1>12, NamesDistinct DEF ShutdownClear, TypeOK, CallInv, EndsAreReal
<1>13. ASSUME NEW c \in Callers, CheckLimit(c)
      PROVE  EndsAreReal'
  BY <1>13, NamesDistinct DEF CheckLimit, TypeOK, CallInv, EndsAreReal
<1>14. ASSUME NEW c \in Callers, NEW p \in Procs, NEW place \in {"kill", "status", "wait"}, Lookup(c, p, place)
      PROVE  EndsAreReal'
  BY <1>14, NamesDistinct DEF Lookup, TypeOK, CallInv, EndsAreReal
<1>15. ASSUME NEW c \in Callers, BeginShutdown(c)
      PROVE  EndsAreReal'
  BY <1>15, NamesDistinct DEF BeginShutdown, TypeOK, CallInv, EndsAreReal
<1>16. ASSUME NEW p \in Procs, ProcExits(p)
      PROVE  EndsAreReal'
  BY <1>16, NamesDistinct DEF ProcExits, TypeOK, CallInv, EndsAreReal
<1>17. ASSUME NEW p \in Procs, NEW pipe \in {"stdout", "stderr"}, ProcBlocks(p, pipe)
      PROVE  EndsAreReal'
  BY <1>17, NamesDistinct DEF ProcBlocks, TypeOK, CallInv, EndsAreReal
<1>18. CASE UNCHANGED vars
  BY <1>18 DEF vars, TypeOK, CallInv, EndsAreReal
<1> QED
  BY <1>1, <1>2, <1>3, <1>4, <1>5, <1>6, <1>7, <1>8, <1>9, <1>10, <1>11, <1>12, <1>13, <1>14, <1>15, <1>16, <1>17, <1>18
     DEF Next, CallerStep, BeginCall, BeginKill, BeginStatus, BeginWait

-----------------------------------------------------------------------------
\* No step takes a running process out of the registry, the clear() of
\* shutdown_all excepted.
LEMMA LiveStep == TypeOK /\ CallInv /\ EndsAreReal /\ [Next]_vars => LiveStayRegistered
<1> SUFFICES ASSUME TypeOK, CallInv, EndsAreReal, [Next]_vars PROVE LiveStayRegistered
  OBVIOUS
<1> USE DEF osVars, Go, Answer, Return
<1>1. ASSUME NEW c \in Callers, NEW p \in Procs, Insert(c, p)
      PROVE  LiveStayRegistered
  BY <1>1 DEF Insert, TypeOK, CallInv, EndsAreReal, LiveStayRegistered
<1>2. ASSUME NEW c \in Callers, Kill(c)
      PROVE  LiveStayRegistered
  BY <1>2 DEF Kill, After, Done, TypeOK, CallInv, EndsAreReal, LiveStayRegistered
<1>3. ASSUME NEW c \in Callers, Remove(c)
      PROVE  LiveStayRegistered
  BY <1>3 DEF Remove, After, Done, TypeOK, CallInv, EndsAreReal, LiveStayRegistered
<1>4. ASSUME NEW c \in Callers, CachedStatus(c)
      PROVE  LiveStayRegistered
  BY <1>4 DEF CachedStatus, TypeOK, CallInv, EndsAreReal, LiveStayRegistered
<1>5. ASSUME NEW c \in Callers, PollChild(c)
      PROVE  LiveStayRegistered
  BY <1>5 DEF PollChild, TypeOK, CallInv, EndsAreReal, LiveStayRegistered
<1>6. ASSUME NEW c \in Callers, TakeChild(c)
      PROVE  LiveStayRegistered
  BY <1>6 DEF TakeChild, TypeOK, CallInv, EndsAreReal, LiveStayRegistered
<1>7. ASSUME NEW c \in Callers, Drain(c)
      PROVE  LiveStayRegistered
  BY <1>7 DEF Drain, TypeOK, CallInv, EndsAreReal, LiveStayRegistered
<1>8. ASSUME NEW c \in Callers, StopReading(c)
      PROVE  LiveStayRegistered
  BY <1>8 DEF StopReading, TypeOK, CallInv, EndsAreReal, LiveStayRegistered
<1>9. ASSUME NEW c \in Callers, Reap(c)
      PROVE  LiveStayRegistered
  BY <1>9 DEF Reap, TypeOK, CallInv, EndsAreReal, LiveStayRegistered
<1>10. ASSUME NEW c \in Callers, ReapFails(c)
      PROVE  LiveStayRegistered
  BY <1>10 DEF ReapFails, TypeOK, CallInv, EndsAreReal, LiveStayRegistered
<1>11. ASSUME NEW c \in Callers, NEW p \in Procs, ShutdownNext(c, p)
      PROVE  LiveStayRegistered
  BY <1>11 DEF ShutdownNext, TypeOK, CallInv, EndsAreReal, LiveStayRegistered
<1>12. ASSUME NEW c \in Callers, ShutdownClear(c)
      PROVE  LiveStayRegistered
  BY <1>12 DEF ShutdownClear, TypeOK, CallInv, EndsAreReal, LiveStayRegistered
<1>13. ASSUME NEW c \in Callers, CheckLimit(c)
      PROVE  LiveStayRegistered
  BY <1>13 DEF CheckLimit, TypeOK, CallInv, EndsAreReal, LiveStayRegistered
<1>14. ASSUME NEW c \in Callers, NEW p \in Procs, NEW place \in {"kill", "status", "wait"}, Lookup(c, p, place)
      PROVE  LiveStayRegistered
  BY <1>14 DEF Lookup, TypeOK, CallInv, EndsAreReal, LiveStayRegistered
<1>15. ASSUME NEW c \in Callers, BeginShutdown(c)
      PROVE  LiveStayRegistered
  BY <1>15 DEF BeginShutdown, TypeOK, CallInv, EndsAreReal, LiveStayRegistered
<1>16. ASSUME NEW p \in Procs, ProcExits(p)
      PROVE  LiveStayRegistered
  BY <1>16 DEF ProcExits, TypeOK, CallInv, EndsAreReal, LiveStayRegistered
<1>17. ASSUME NEW p \in Procs, NEW pipe \in {"stdout", "stderr"}, ProcBlocks(p, pipe)
      PROVE  LiveStayRegistered
  BY <1>17 DEF ProcBlocks, TypeOK, CallInv, EndsAreReal, LiveStayRegistered
<1>18. CASE UNCHANGED vars
  BY <1>18 DEF vars, TypeOK, CallInv, EndsAreReal, LiveStayRegistered
<1> QED
  BY <1>1, <1>2, <1>3, <1>4, <1>5, <1>6, <1>7, <1>8, <1>9, <1>10, <1>11, <1>12, <1>13, <1>14, <1>15, <1>16, <1>17, <1>18
     DEF Next, CallerStep, BeginCall, BeginKill, BeginStatus, BeginWait

-----------------------------------------------------------------------------
\* Whatever calls overlap on a process, an end reported to a caller has happened,
\* and only shutdown_all drops the handle of a running process.
THEOREM RegistryIsSound == Spec => RegistrySound
<1> DEFINE Inv == TypeOK /\ CallInv /\ EndsAreReal
<1>1. Init => Inv
  BY NamesDistinct DEF Init, TypeOK, CallInv, EndsAreReal, Places, Answers
<1>2. Inv /\ [Next]_vars => Inv'
  BY TypeStep, CallStep, EndsStep
<1>3. Inv /\ [Next]_vars => [EndsAreReal' /\ LiveStayRegistered]_vars
  BY EndsStep, LiveStep
<1> QED
  BY <1>1, <1>2, <1>3, PTL DEF Spec, RegistrySound
=============================================================================

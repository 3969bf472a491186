------------------------------- MODULE DbPool -------------------------------
(***************************************************************************)
(* Database calls of a Doo program (doo_ffi_db): connecting and            *)
(* registering the driver, the query semaphore and its wait limit, the     *)
(* connection pool, the statements of a call with the query timeout, and   *)
(* the conversion of parameters.  A call that times out is dropped: its    *)
(* permit and connection go back, but a statement already sent may still   *)
(* be executed by the server, and a later call is not told.                *)
(***************************************************************************)
EXTENDS Integers, Sequences, FiniteSets

CONSTANTS Callers, Connectors,
          CallKinds,               \* which entry points are called
          MaxQueries, PoolSize,
          Attempts,            \* connection attempts, the first and its retries
          Statements,          \* statements of a transaction or batch
          MaxCalls,            \* bound: calls per caller
          Samples,             \* parameters sent: <<JSON value, column type, typed>>
          Half                 \* [column type -> 2^(w-1)]: the width of the integer types

ASSUME PoolSizes == MaxQueries \in Nat /\ PoolSize \in Nat /\ Statements \in Nat \ {0}
ASSUME DbCallersFinite == IsFiniteSet(Callers) /\ IsFiniteSet(Connectors)

VARIABLES db

NoCaller == "none"
NoParam == [t |-> NoCaller]
DbInit ==
    db = [pool |-> FALSE, driver |-> FALSE, conn |-> [k \in Connectors |-> [step |-> "idle", tried |-> 0, stored |-> FALSE]],
          call |-> [c \in Callers |-> [step |-> "idle", kind |-> NoCaller, n |-> 0, i |-> 0, ans |-> NoCaller]],
          permits |-> MaxQueries, conns |-> PoolSize,
          rows |-> {}, pending |-> {}, orphans |-> {}, log |-> {}, bound |-> NoParam]

-----------------------------------------------------------------------------
\* Connecting.
SetConn(k, step) == [db EXCEPT !.conn[k].step = step]
ConnectFromEnv(k) ==
    /\ db.conn[k].step = "idle"
    /\ db' = IF db.pool THEN SetConn(k, "ok") ELSE SetConn(k, "try")
TryPoolConnectionAny(k, ok) ==
    /\ db.conn[k].step = "try" /\ ok
    /\ db' = [db EXCEPT !.pool = TRUE, !.conn[k].step = "register", !.conn[k].stored = TRUE]
TryPoolConnection(k, ok) ==
    /\ db.conn[k].step = "try"
    /\ db' = IF ~ok THEN [db EXCEPT !.conn[k].tried = @ + 1,
                                    !.conn[k].step = IF db.conn[k].tried + 1 = Attempts THEN "err" ELSE "try"]
             ELSE IF db.pool THEN SetConn(k, "err")
             ELSE [db EXCEPT !.pool = TRUE, !.conn[k].step = "register", !.conn[k].stored = TRUE]
RegisterDriver(k) ==
    /\ db.conn[k].step = "register"
    /\ db' = [SetConn(k, "ok") EXCEPT !.driver = TRUE]

-----------------------------------------------------------------------------
\* One call: get_driver, the permit, the connection, the statements.
Manys == {"transaction", "batch"}
Length(kind) == IF kind \in Manys THEN Statements ELSE 1
SetCall(s, c, step) == [s EXCEPT !.call[c].step = step]
AnswerCall(s, c, a) ==
    [SetCall(s, c, "idle") EXCEPT !.call[c].ans = a,
        !.log = @ \cup {[c |-> c, n |-> s.call[c].n, kind |-> s.call[c].kind, ans |-> a]}]
BeginCall(c, kind) ==
    /\ db.call[c].step = "idle" /\ db.call[c].n < MaxCalls
    /\ LET s == [db EXCEPT !.call[c] = [step |-> "permit", kind |-> kind, n |-> @.n + 1, i |-> 1, ans |-> NoCaller]]
       IN  db' = IF db.driver THEN s ELSE AnswerCall(s, c, IF kind = "raw" THEN "demo" ELSE "err")
AcquirePermit(c) ==
    /\ db.call[c].step = "permit" /\ db.permits > 0
    /\ db' = [SetCall(db, c, "conn") EXCEPT !.permits = @ - 1]
Overloaded(c) ==
    /\ db.call[c].step = "permit" /\ db.permits = 0
    /\ db' = AnswerCall(db, c, "err")
\* get_client: from here on the permit is held, and every way out gives it back.
ReleasePermit(s) == [s EXCEPT !.permits = @ + 1]
LeaveKeepConn(s, c, a) == ReleasePermit(AnswerCall(s, c, a))
Leave(s, c, a) ==
    ReleasePermit(AnswerCall(IF s.call[c].step \in {"run", "commit"} THEN [s EXCEPT !.conns = @ + 1] ELSE s, c, a))
GetClient(c) ==
    /\ db.call[c].step = "conn"
    /\ \/ db.pool /\ db.conns > 0 /\ db' = [SetCall(db, c, "run") EXCEPT !.conns = @ - 1]
       \/ (~db.pool \/ db.conns = 0) /\ db' = Leave(db, c, "err")

\* The effect of statement i of the call: kept with the transaction, or in the table.
Effect(c, i) == [c |-> c, n |-> db.call[c].n, i |-> i]
Of(S, c) == {e \in S : e.c = c /\ e.n = db.call[c].n}
Executed(c) ==
    IF db.call[c].kind = "transaction" THEN [db EXCEPT !.pending = @ \cup {Effect(c, db.call[c].i)}]
    ELSE [db EXCEPT !.rows = @ \cup {Effect(c, db.call[c].i)}]
Rollback(s, c) == [s EXCEPT !.pending = @ \ Of(@, c)]
NextStatement(s, c) ==
    IF s.call[c].i < Length(s.call[c].kind) THEN [s EXCEPT !.call[c].i = @ + 1]
    ELSE IF s.call[c].kind = "transaction" THEN SetCall(s, c, "commit")
    ELSE Leave(s, c, "ok")
\* "rows": executed, and its rows refused (too many, or not exactly one).
StatementSkipsFailed(c, out) ==
    /\ db.call[c].step = "run"
    /\ db' = NextStatement(IF out = "fails" THEN db ELSE Executed(c), c)
Statement(c, out) ==
    /\ db.call[c].step = "run"
    /\ db' = CASE out = "ok" -> NextStatement(Executed(c), c)
               [] out = "rows" -> Leave(Rollback(Executed(c), c), c, "err")
               [] out = "fails" -> Leave(Rollback(db, c), c, "err")
CommitEach(c) == [db EXCEPT !.rows = @ \cup {e \in Of(db.pending, c) : e.i = Statements}, !.pending = @ \ Of(@, c)]
CommitAll(c) == [db EXCEPT !.rows = @ \cup Of(db.pending, c), !.pending = @ \ Of(@, c)]
Commit(c, ok) ==
    /\ db.call[c].step = "commit"
    /\ db' = Leave(IF ok THEN CommitAll(c) ELSE Rollback(db, c), c, IF ok THEN "ok" ELSE "err")
\* The timeout drops the future.  What was sent may run later; a transaction whose
\* commit was not sent is rolled back.
InFlight(c) ==
    CASE db.call[c].step = "commit" -> Of(db.pending, c)
      [] db.call[c].step = "run" /\ db.call[c].kind # "transaction" -> {Effect(c, db.call[c].i)}
      [] OTHER -> {}
QueryTimeout(c) ==
    /\ db.call[c].step \in {"conn", "run", "commit"}
    /\ db' = Leave([Rollback(db, c) EXCEPT !.orphans = @ \cup ({InFlight(c)} \ {{}})], c, "err")
LateStatement(o, ok) ==
    /\ o \in db.orphans
    /\ db' = [db EXCEPT !.orphans = @ \ {o}, !.rows = IF ok THEN @ \cup o ELSE @]

-----------------------------------------------------------------------------
\* Parameters.  A JSON value is a kind and a number: a string spells its number or
\* nothing (NotANumber); a parameter is the type it is sent as and its value.
NotANumber == 1000
IntTypes == {"int2", "int4", "int8"}
ASSUME WidthsPositive == \A t \in IntTypes : Half[t] \in Nat \ {0}
ASSUME SampleNumbers == \A s \in Samples : s[1].n \in Int
Wrap(x, t) == ((x + Half[t]) % (2 * Half[t])) - Half[t]
InRange(x, t) == -Half[t] <= x /\ x < Half[t]
Param(t, v) == [pg |-> t, val |-> v]
AsText(v) == [text |-> v.k, n |-> v.n]
IntParamNarrow(v, t) == Wrap(v.n, "int2")
IntParam(v, t) ==
    CASE v.k = "num" -> Wrap(v.n, t)
      [] v.k = "str" -> IF v.n # NotANumber /\ InRange(v.n, t) THEN v.n ELSE 0
      [] v.k = "bool" -> v.n
      [] OTHER -> 0
JsonValueToTypedParam(v, t) ==
    CASE v.k = "null" -> Param(t, IF t = "json" THEN "jsonnull" ELSE "NULL")
      [] v.k # "null" /\ t \in IntTypes -> Param(t, IntParam(v, t))
      [] v.k # "null" /\ t = "bool" -> Param(t, IF v.k = "str" THEN v.n = 1 ELSE v.k # "obj" /\ v.n # 0)
      [] v.k # "null" /\ t = "json" -> Param(t, IF v.k = "str" /\ v.n # NotANumber THEN [text |-> "num", n |-> v.n] ELSE AsText(v))
      [] OTHER -> Param(t, AsText(v))
JsonValueToUntypedParam(v) ==
    CASE v.k = "num" -> IF InRange(v.n, "int4") THEN Param("int4", v.n) ELSE Param("int8", v.n)
      [] v.k = "bool" -> Param("bool", v.n # 0)
      [] v.k = "null" -> Param("text", "NULL")
      [] OTHER -> Param("text", AsText(v))
\* tokio_postgres: a parameter of another type than the column's is an error.
AcceptedByServer(p, t) == p.pg = t
Sent(v, t, typed) == IF typed THEN JsonValueToTypedParam(v, t) ELSE JsonValueToUntypedParam(v)
\* The parameters of a statement are converted one by one; a behaviour looks at one.
Untouched == db.driver /\ \A c \in Callers : db.call[c].n = 0
BindParam(v, t, typed) ==
    /\ Untouched
    /\ db' = [db EXCEPT !.bound = [v |-> v, t |-> t, p |-> Sent(v, t, typed)]]

Calls ==
    \/ \E k \in Connectors : ConnectFromEnv(k) \/ RegisterDriver(k) \/ \E ok \in BOOLEAN : TryPoolConnection(k, ok)
    \/ \E c \in Callers : \/ \E kind \in CallKinds : BeginCall(c, kind)
                          \/ AcquirePermit(c) \/ Overloaded(c) \/ GetClient(c) \/ QueryTimeout(c)
                          \/ \E out \in {"ok", "rows", "fails"} : Statement(c, out)
                          \/ \E ok \in BOOLEAN : Commit(c, ok)
    \/ \E o \in db.orphans, ok \in BOOLEAN : LateStatement(o, ok)
DbNext == db.bound = NoParam /\ (Calls \/ (Untouched /\ \E s \in Samples : BindParam(s[1], s[2], s[3])))
DbSpec == DbInit /\ [][DbNext]_db

-----------------------------------------------------------------------------
\* A transaction is in the table with all its statements or with none, whatever
\* fails, times out or arrives late, and a call that answered Ok has done them all.
TransactionAtomic ==
    \A l \in db.log :
        LET done == {e.i : e \in {x \in db.rows : x.c = l.c /\ x.n = l.n}}
        IN  /\ l.kind = "transaction" => done \in {{}, 1..Statements}
            /\ l.ans = "ok" => done = 1..Length(l.kind)

\* A batch without a transaction that stops in the middle leaves the statements before
\* the one it stopped at, and perhaps that one: never a later one without an earlier.
BatchIsPrefix ==
    \A e \in db.rows : \A i \in 1..e.i : [e EXCEPT !.i = i] \in db.rows

\* Permits and connections that are not free are held by a running call: no way out of
\* a call (refusal, failure, timeout, commit) keeps one.
SlotsReturned ==
    /\ MaxQueries - db.permits = Cardinality({c \in Callers : db.call[c].step \in {"conn", "run", "commit"}})
    /\ PoolSize - db.conns = Cardinality({c \in Callers : db.call[c].step \in {"run", "commit"}})

\* However many threads connect at once, one pool is stored, and a connect that
\* answers Ok leaves a pool behind.
OnePool ==
    /\ Cardinality({k \in Connectors : db.conn[k].stored}) <= 1
    /\ \A k \in Connectors : db.conn[k].step = "ok" => db.pool
    /\ db.driver => db.pool

\* A number that fits its column arrives as itself, sent as a number, as a string or
\* without type information, or it is refused: it is never another number.
ParamKept ==
    db.bound # NoParam =>
        LET v == db.bound.v  t == db.bound.t  p == db.bound.p
        IN  t \in IntTypes /\ v.k \in {"num", "str"} /\ v.n # NotANumber /\ InRange(v.n, t) /\ AcceptedByServer(p, t)
            => p.val = v.n

\* Statements of concurrent callers over one pool, with timeouts, refusals and
\* lost connections.
DbSound == TransactionAtomic /\ BatchIsPrefix /\ SlotsReturned /\ OnePool /\ ParamKept
=============================================================================

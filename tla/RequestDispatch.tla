-------------------------- MODULE RequestDispatch ---------------------------
(***************************************************************************)
(* One HTTP request after the other, on a pool of threads                  *)
(* (ffi/doo_ffi_http/src/server.rs, middleware.rs, helpers.rs, metrics.rs; *)
(* doo_ffi_core/src/cookies.rs).  The path, the last error and the cookies *)
(* of a request are kept in thread-local variables; reading a body is an   *)
(* await, after which the task may continue on another thread.  The        *)
(* middleware chain and the handler run without one.                       *)
(***************************************************************************)
EXTENDS Integers, Sequences, SequencesExt, FiniteSets

CONSTANTS Batches,   \* sets of requests: [id, method, path, body, token]
          Threads,
          Routes,    \* [method, path, mws, headers]: the frozen registry
          BuiltinPaths,   \* paths the server answers itself
          Cors,      \* is CORS configured?
          RateMax, RateWindow,  \* the rate limit
          MaxClock    \* bound: ticks of the clock

ASSUME DispatchParams ==
    /\ RateMax \in Nat /\ RateWindow \in Nat
    /\ \A x \in Routes : x.mws \in Seq({"jwt", "rate"})

VARIABLES rq  \* [pc, tl, resp, rate, now, admitted, users, metrics]

NoErr == [status |-> 0, of |-> 0]
FreshThread == [path |-> "/", err |-> NoErr, cookies |-> <<>>]
DispatchStart(reqs) ==
             [pc |-> [r \in reqs |-> "new"], tl |-> [t \in Threads |-> FreshThread],
              resp |-> [r \in reqs |-> <<>>], rate |-> {}, now |-> 0,
              admitted |-> <<>>, users |-> {}, metrics |-> 0, ran |-> {}]
DispatchInit == \E reqs \in Batches : rq = DispatchStart(reqs)
Reqs == DOMAIN rq.pc

HasBody(r) == r.method = "POST"
Matches(r) == {x \in Routes : x.method = r.method /\ x.path = r.path}
Allowed(r) == {x.method : x \in {y \in Routes : y.path = r.path}}
RouteOf(r) == CHOOSE x \in Matches(r) : TRUE
NeedsHeaders(r) == RouteOf(r).mws # <<>> \/ HasBody(r) \/ RouteOf(r).headers

\* A response: its status, the path an error names, the cookies it carries.
Resp(status, of, s, t) == [s |-> s, status |-> status, of |-> of, t |-> t]

\* The end of every request but the built-in ones: cookies out, CORS, metrics.
FinishKeepCookies(r, x) ==
    [x.s EXCEPT !.pc[r] = "done", !.metrics = @ + 1,
                !.resp[r] = <<[status |-> x.status, of |-> x.of, cookies |-> x.s.tl[x.t].cookies]>>]
Finish(r, x) ==
    [x.s EXCEPT !.pc[r] = "done", !.metrics = @ + 1, !.tl[x.t].cookies = <<>>,
                !.resp[r] = <<[status |-> x.status, of |-> x.of, cookies |-> x.s.tl[x.t].cookies]>>]

\* set_last_error, and an error that names the path of the thread.
MakeErrResponse(s, t, status, id) ==
    Resp(status, s.tl[t].path, [s EXCEPT !.tl[t].err = [status |-> status, of |-> id]], t)

\* The rate limiter: a fixed window for each client; here a client is its token.
ClientId(r) == r.token
EntryOf(s, c) ==
    IF \E x \in s.rate : x.c = c THEN CHOOSE x \in s.rate : x.c = c ELSE [c |-> c, count |-> 0, start |-> s.now]
CountNoRestart(e, now) == IF now - e.start >= RateWindow THEN [e EXCEPT !.count = 1] ELSE [e EXCEPT !.count = @ + 1]
Count(e, now) ==
    IF now - e.start >= RateWindow THEN [e EXCEPT !.count = 1, !.start = now] ELSE [e EXCEPT !.count = @ + 1]
RateLimit(s, r) ==
    LET e == Count(EntryOf(s, ClientId(r)), s.now)
        s1 == [s EXCEPT !.rate = {x \in @ : x.c # e.c} \cup {e}]
    IN  [pass |-> e.count <= RateMax,
         s |-> IF e.count <= RateMax
               THEN [s1 EXCEPT !.admitted = Append(@, [c |-> e.c, at |-> s.now, win |-> e.start])] ELSE s1]

\* The token check: a token of a user the table does not have yet inserts the user
\* (ON CONFLICT DO NOTHING) and reads the row back.
EnsureUserInDb(s, r) == [s EXCEPT !.users = @ \cup {r.token}]
JwtMiddleware(s, r) ==
    [pass |-> r.token \in {"valid", "new"},
     s |-> IF r.token = "new" THEN EnsureUserInDb(s, r) ELSE s]

\* One middleware after the other, each calling the next; the first refusal answers.
OneMiddleware(m, s, r, t) ==
    LET a == IF m = "jwt" THEN JwtMiddleware(s, r) ELSE RateLimit(s, r)
    IN  [pass |-> a.pass, s |-> a.s,
         x |-> IF a.pass THEN <<>> ELSE MakeErrResponse(a.s, t, IF m = "jwt" THEN 401 ELSE 429, r.id)]
Chain(s, r, t, mws) ==
    LET after[k \in 0..Len(mws)] ==
          IF k = 0 THEN [pass |-> TRUE, s |-> s, x |-> <<>>]
          ELSE IF after[k - 1].pass THEN OneMiddleware(mws[k], after[k - 1].s, r, t) ELSE after[k - 1]
    IN  after[Len(mws)]

\* What the handler did, and the response built from it.
Outcomes == {"ok", "cookie", "error", "errorNoData", "null", "panic", "redirect"}
BuildResponse(s, r, t, outcome) ==
    LET ran == [s EXCEPT !.ran = @ \cup {r}]
        late == IF NeedsHeaders(r) THEN ran ELSE [ran EXCEPT !.tl[t].path = r.path]
        own == ran.tl[t].path
    IN  CASE outcome = "ok" -> Resp(200, r.path, ran, t)
          [] outcome = "cookie" -> Resp(200, r.path, [ran EXCEPT !.tl[t].cookies = Append(@, r.id)], t)
          [] outcome = "error" -> Resp(422, own, [late EXCEPT !.tl[t].err = [status |-> 422, of |-> r.id]], t)
          [] outcome = "errorNoData" ->
                LET e == ran.tl[t].err IN Resp(IF e.status > 0 THEN e.status ELSE 500, r.path, late, t)
          [] outcome = "redirect" -> Resp(302, r.path, late, t)
          [] outcome = "null" -> Resp(500, r.path, ran, t)
          [] OTHER -> Resp(500, r.path, late, t)
ExecuteUnguarded(s, r, t, outcome) == BuildResponse(s, r, t, outcome)
Execute(s, r, t, outcome) ==
    LET c == Chain(s, r, t, RouteOf(r).mws)
    IN  IF c.pass THEN BuildResponse(c.s, r, t, outcome) ELSE c.x

\* Before the body: the thread's variables are set when the route needs them.
PrepareNot(s, r, t) == s
Prepare(s, r, t) ==
    IF NeedsHeaders(r) THEN [s EXCEPT !.tl[t].path = r.path, !.tl[t].err = NoErr] ELSE s

AnswerBuiltin(r, t) ==
    /\ rq.pc[r] = "new"
    /\ \/ r.method = "GET" /\ r.path \in BuiltinPaths
       \/ r.method = "OPTIONS" /\ Cors
    /\ rq' = [rq EXCEPT !.pc[r] = "done",
                        !.resp[r] = <<[status |-> IF r.method = "GET" THEN 200 ELSE 204, of |-> r.path, cookies |-> <<>>]>>]
Ours(r) == rq.pc[r] = "new" /\ ~(r.method = "GET" /\ r.path \in BuiltinPaths) /\ ~(r.method = "OPTIONS" /\ Cors)
Unmatched(r, t) ==
    /\ Ours(r) /\ Matches(r) = {}
    /\ rq' = Finish(r, Resp(IF Allowed(r) = {} THEN 404 ELSE 405, r.path, rq, t))
HandleNow(r, t, outcome) ==
    /\ Ours(r) /\ Matches(r) # {} /\ ~HasBody(r)
    /\ rq' = Finish(r, Execute(Prepare(rq, r, t), r, t, outcome))
\* A body announced too long is refused at once; another one is waited for.
AwaitBody(r, t) ==
    /\ Ours(r) /\ Matches(r) # {} /\ HasBody(r)
    /\ rq' = IF r.body = "announcedTooLong" THEN Finish(r, Resp(413, r.path, Prepare(rq, r, t), t))
             ELSE [Prepare(rq, r, t) EXCEPT !.pc[r] = "await"]
BodyArrives(r, t, outcome) ==
    /\ rq.pc[r] = "await"
    /\ rq' = CASE r.body = "broken" -> [rq EXCEPT !.pc[r] = "done"]
               [] r.body = "tooLong" -> Finish(r, Resp(413, r.path, rq, t))
               [] r.body = "notJson" -> Finish(r, Resp(400, r.path, rq, t))
               [] OTHER -> Finish(r, Execute(rq, r, t, outcome))
ClockTick == rq.now < MaxClock /\ rq' = [rq EXCEPT !.now = @ + 1]
DispatchNext ==
    \/ \E r \in Reqs, t \in Threads :
          \/ AnswerBuiltin(r, t) \/ Unmatched(r, t) \/ AwaitBody(r, t)
          \/ \E o \in Outcomes : HandleNow(r, t, o) \/ BodyArrives(r, t, o)
    \/ ClockTick
DispatchSpec == DispatchInit /\ [][DispatchNext]_rq

-----------------------------------------------------------------------------
\* A handler behind jwt runs only for a request with a token that passed, whatever
\* path the request took to it (body or not, after other requests on the thread).
GuardsRunFirst ==
    \A r \in rq.ran : Contains(RouteOf(r).mws, "jwt") => r.token \in {"valid", "new"}

\* A cookie goes out with the response of the request that set it: never with that
\* of another request served by the same thread, and it is not lost.
CookiesOwn ==
    \A r \in Reqs : rq.resp[r] # <<>> => \A i \in DOMAIN rq.resp[r][1].cookies : rq.resp[r][1].cookies[i] = r.id

\* Requests that set up the thread's variables and reach the handler without an
\* await: their errors name their own path and are their own errors.  (With an await
\* between, or when the set-up is skipped, they may be those of another request.)
Straight(r) == Matches(r) # {} /\ ~HasBody(r) /\ NeedsHeaders(r)
ErrorNamesItsRequest ==
    \A r \in Reqs : Straight(r) /\ rq.resp[r] # <<>> =>
        /\ rq.resp[r][1].of = r.path
        /\ rq.resp[r][1].status \in {401, 429} => Contains(RouteOf(r).mws, IF rq.resp[r][1].status = 401 THEN "jwt" ELSE "rate")

\* What the comments promise of every matched request: an error names the path of
\* the request it answers.
EveryErrorNamesItsRequest ==
    \A r \in Reqs : rq.resp[r] # <<>> => rq.resp[r][1].of = r.path

\* In no stretch of time as long as the window does a client get more than twice
\* the limit through: a full window and the beginning of the next.
RateBounded ==
    \A i \in DOMAIN rq.admitted :
        Cardinality({j \in DOMAIN rq.admitted : /\ rq.admitted[j].c = rq.admitted[i].c
                                                /\ rq.admitted[j].at - rq.admitted[i].at \in 0..(RateWindow - 1)})
            <= 2 * RateMax

\* Requests that share worker threads: guards come before the handler, cookies and
\* errors belong to their own request, and no client passes more requests than the
\* window allows.
RequestsIsolated == GuardsRunFirst /\ CookiesOwn /\ ErrorNamesItsRequest /\ RateBounded
=============================================================================

--------------------------- MODULE RouteRegistry ----------------------------
(***************************************************************************)
(* Routes before the server starts (ffi/doo_ffi_http/src/router.rs,        *)
(* routes.rs, middleware_ffi.rs): user code and packages register routes,  *)
(* middleware and handlers in any order; deferred routes are settled when  *)
(* the registry is frozen.  Insertion into a matchit router is external.   *)
(***************************************************************************)
EXTENDS Integers, Sequences, SequencesExt

CONSTANTS Methods,    \* request methods
          Patterns,   \* route patterns
          Middleware, \* names of middleware, BuiltinMiddleware among them
          BuiltinMiddleware,    \* "jwt", "cors", "ratelimit"
          MaxOps      \* bound: calls before the freeze

VARIABLES rr  \* [routes, global, known, handlers, package, deferred, frozen, ops, due]

RegistryInit ==
    rr = [routes |-> <<>>,        \* inserted entries: method, pattern, owner, mws, by
          global |-> <<>>,        \* global middleware
          known |-> {},           \* names with a middleware function
          handlers |-> FALSE,     \* is the named handler registered?
          package |-> {},         \* keys claimed by packages
          deferred |-> <<>>, frozen |-> FALSE, ops |-> 0,
          due |-> {}]             \* history: what a caller was promised: method, pattern, middleware

Open == ~rr.frozen /\ rr.ops < MaxOps
Counted(r) == [r EXCEPT !.ops = @ + 1]
HasRoute(r, m, p) == \E i \in DOMAIN r.routes : r.routes[i].method = m /\ r.routes[i].pattern = p
\* router.insert: a pattern that is taken is refused, and only logged.
InsertReplace(r, m, p, owner, mws) ==
    [r EXCEPT !.routes = <<[method |-> m, pattern |-> p, owner |-> owner, mws |-> mws]>>
                         \o SelectSeq(@, LAMBDA e : e.method # m \/ e.pattern # p)]
Insert(r, m, p, owner, mws) ==
    IF HasRoute(r, m, p) THEN r
    ELSE [r EXCEPT !.routes = Append(@, [method |-> m, pattern |-> p, owner |-> owner, mws |-> mws])]

\* app.use(f): once per function.
AddMiddleware(mw) ==
    Open /\ rr' = Counted([rr EXCEPT !.global = IF Contains(@, mw) THEN @ ELSE Append(@, mw)])
RegisterMiddleware(mw) == Open /\ rr' = Counted([rr EXCEPT !.known = @ \cup {mw}])
RegisterHandler == Open /\ ~rr.handlers /\ rr' = Counted([rr EXCEPT !.handlers = TRUE])

\* A promise is made for a route that was really inserted.
Promise(r, m, p, wanted) == [r EXCEPT !.due = @ \cup {[method |-> m, pattern |-> p, mw |-> mw] : mw \in wanted}]
Register(m, p) ==
    /\ Open
    /\ rr' = Counted(LET r == Insert(rr, m, p, "user", rr.global)
                     IN  IF HasRoute(rr, m, p) THEN r ELSE Promise(r, m, p, Range(rr.global)))
\* Registration by name does nothing when the handler is unknown.
RegisterByName(m, p) ==
    /\ Open
    /\ rr' = Counted(IF ~rr.handlers \/ HasRoute(rr, m, p) THEN rr
                     ELSE Promise(Insert(rr, m, p, "user", rr.global), m, p, Range(rr.global)))
\* The names of a route's middleware: built-in ones are known from now on,
\* unknown ones are dropped.
KnownOf(names, known) ==
    LET Kept[i \in 0..Len(names)] ==
            IF i = 0 THEN <<>> ELSE IF names[i] \in known THEN Append(Kept[i - 1], names[i]) ELSE Kept[i - 1]
    IN  Kept[Len(names)]
ResolveNoBuiltin(r, names) == [r |-> r, mws |-> KnownOf(names, r.known)]
Resolve(r, names) ==
    LET known == r.known \cup (Range(names) \cap BuiltinMiddleware)
    IN  [r |-> [r EXCEPT !.known = known], mws |-> KnownOf(names, known)]
RegisterWithMiddleware(m, p, names) ==
    /\ Open
    /\ LET res == Resolve(rr, names)
           mws == rr.global \o res.mws
           wanted == Range(rr.global) \cup (Range(names) \cap (BuiltinMiddleware \cup rr.known))
       IN  rr' = Counted(IF HasRoute(rr, m, p) THEN res.r
                         ELSE Promise(Insert(res.r, m, p, "user", mws), m, p, wanted))
\* Routes of packages run without middleware.
RegisterPackage(m, p) ==
    Open /\ rr' = Counted(Insert([rr EXCEPT !.package = @ \cup {<<m, p>>}], m, p, "package", <<>>))
DeferRouteEager(m, p, names) ==
    Open /\ rr' = Counted(Insert(rr, m, p, "deferred", rr.global \o names))
DeferRoute(m, p, names) ==
    /\ Open
    /\ rr' = Counted([rr EXCEPT !.deferred = Append(@, [method |-> m, pattern |-> p, mws |-> names])])

\* freeze_routes: deferred routes first, in order, unless a package has the key.
Settle(r, d) ==
    IF <<d.method, d.pattern>> \in r.package THEN r ELSE Insert(r, d.method, d.pattern, "deferred", r.global \o d.mws)
FreezeRoutes(r) ==
    LET Settled[k \in 0..Len(r.deferred)] == IF k = 0 THEN r ELSE Settle(Settled[k - 1], r.deferred[k])
    IN  Settled[Len(r.deferred)]
Freeze == ~rr.frozen /\ rr' = [FreezeRoutes(rr) EXCEPT !.frozen = TRUE, !.deferred = <<>>]

RegistryNext ==
    \/ \E mw \in Middleware : AddMiddleware(mw) \/ RegisterMiddleware(mw)
    \/ RegisterHandler
    \/ \E m \in Methods, p \in Patterns :
          \/ Register(m, p) \/ RegisterByName(m, p) \/ RegisterPackage(m, p)
          \/ \E a, b \in Middleware : RegisterWithMiddleware(m, p, <<a, b>>)
          \/ \E a \in Middleware : DeferRoute(m, p, <<a>>)
    \/ Freeze
RegistrySpec == RegistryInit /\ [][RegistryNext]_rr

ASSUME MiddlewareNames == BuiltinMiddleware \subseteq Middleware
-----------------------------------------------------------------------------
\* A deferred default (the built-in auth routes) never takes the place of a
\* package's route: whatever the order of the calls, a key the package claimed is
\* served by the package or by a route the user registered in so many words.
PackageWins ==
    rr.frozen => \A i \in DOMAIN rr.routes :
        rr.routes[i].owner = "deferred" => <<rr.routes[i].method, rr.routes[i].pattern>> \notin rr.package

\* A route keeps, to the end, the middleware its registration promised: all global
\* middleware of that moment and every built-in or registered one it named, even if
\* the built-in was never set up before and whatever is registered later.
MiddlewareKept ==
    \A d \in rr.due : \E i \in DOMAIN rr.routes :
        /\ rr.routes[i].method = d.method /\ rr.routes[i].pattern = d.pattern
        /\ Contains(rr.routes[i].mws, d.mw)

\* One entry for a method and pattern: the first one wins and a later registration
\* changes nothing, not even the middleware.
FirstRegistrationStays ==
    \A i \in DOMAIN rr.routes : i \in DOMAIN rr'.routes /\ rr'.routes[i] = rr.routes[i]

\* Routes registered in any order, directly, deferred or by packages: a package
\* route comes first, a route keeps the middleware it was declared with and a
\* later registration changes nothing.
RoutesRight == [][PackageWins' /\ MiddlewareKept' /\ FirstRegistrationStays]_rr
=============================================================================

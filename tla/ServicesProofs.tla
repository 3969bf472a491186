--------------------------- MODULE ServicesProofs ---------------------------
(***************************************************************************)
(* Proofs about the services of a web program, for every value of their    *)
(* constants: the connections of the server and its drain (ServerDrain),   *)
(* the account and OAuth handlers (AuthFlows), the database calls          *)
(* (DbPool), the registration of routes (RouteRegistry), the requests that *)
(* follow each other on a pool of threads (RequestDispatch), and CRUD with *)
(* its rules and webhooks (CrudWebhooks).                                  *)
(***************************************************************************)
EXTENDS AuthFlows, CrudWebhooks, DbPool, RouteRegistry, RequestDispatch, ServerDrain, FiniteSetTheorems, Inductions

-----------------------------------------------------------------------------
(* Connections and the drain, for any number of connections and permits.    *)
(* DrainedHonest is not inductive: that the counter reads zero says         *)
(* something about the connections only because the counter is exact, and   *)
(* about the awaited ones only because they are among those counted.        *)

\* The connections the drain waits for are counted, and nothing is awaited or
\* reported before the drain.
AwaitedCounted == awaited \subseteq CountedConns
Phases == server = "accepting" => report = "none" /\ awaited = {}

IInv == TypeOK /\ ConnAccounting /\ AwaitedCounted /\ Phases /\ DrainedHonest

\* The two sets of connections are finite, so their sizes are numbers.
LEMMA FiniteConns ==
    /\ IsFiniteSet(Holders) /\ Cardinality(Holders) \in Nat
    /\ IsFiniteSet(CountedConns) /\ Cardinality(CountedConns) \in Nat
<1>1. IsFiniteSet(Holders)
  BY ConnsFinite, FS_Subset DEF Holders
<1>2. IsFiniteSet(CountedConns)
  BY ConnsFinite, FS_Subset DEF CountedConns
<1> QED BY <1>1, <1>2, FS_CardinalityType

\* Connections that are counted hold a permit: active + permits <= MaxConns
\* follows from the two equalities.
LEMMA CountedHold ==
    /\ CountedConns \subseteq Holders
    /\ Cardinality(CountedConns) <= Cardinality(Holders)
<1>1. CountedConns \subseteq Holders
  BY DEF CountedConns, Holders, IsCounted, HoldsPermit
<1> QED BY <1>1, FiniteConns, FS_Subset

\* The same after a step.
LEMMA CountedHoldPrime ==
    /\ IsFiniteSet(Holders') /\ Cardinality(Holders') \in Nat
    /\ IsFiniteSet(CountedConns') /\ Cardinality(CountedConns') \in Nat
    /\ Cardinality(CountedConns') <= Cardinality(Holders')
<1>1. IsFiniteSet(Holders')
  BY ConnsFinite, FS_Subset DEF Holders
<1>2. CountedConns' \subseteq Holders'
  BY DEF CountedConns, Holders, IsCounted, HoldsPermit
<1> QED BY <1>1, <1>2, FS_Subset, FS_CardinalityType

\* The initial state satisfies the invariant: nobody is connected.
LEMMA InitIInv == Init => IInv
<1> SUFFICES ASSUME Init PROVE IInv
  OBVIOUS
<1>1. Holders = {} /\ CountedConns = {}
  BY DEF Init, Holders, CountedConns, HoldsPermit, IsCounted
<1>2. Cardinality(Holders) = 0 /\ Cardinality(CountedConns) = 0
  BY <1>1, FS_EmptySet
<1>3. permits \in 0 .. MaxConns
  BY MaxConnsIsNat DEF Init
<1>4. TypeOK
  BY <1>3 DEF Init, TypeOK, ConnStates
<1> QED
  BY <1>1, <1>2, <1>4, MaxConnsIsNat
  DEF Init, IInv, ConnAccounting, AwaitedCounted, Phases, DrainedHonest

\* What a step of one connection does to the two sets, by where it moves.
LEMMA MoveSets ==
    ASSUME TypeOK, NEW c \in Conns, NEW from \in ConnStates, NEW to \in ConnStates,
           Move(c, from, to)
    PROVE  /\ from \notin HoldsPermit /\ to \in HoldsPermit =>
                Cardinality(Holders') = Cardinality(Holders) + 1
           /\ from \in HoldsPermit /\ to \notin HoldsPermit =>
                Cardinality(Holders') = Cardinality(Holders) - 1
           /\ (from \in HoldsPermit <=> to \in HoldsPermit) => Holders' = Holders
           /\ from \notin IsCounted /\ to \in IsCounted =>
                Cardinality(CountedConns') = Cardinality(CountedConns) + 1
           /\ from \in IsCounted /\ to \notin IsCounted =>
                Cardinality(CountedConns') = Cardinality(CountedConns) - 1
           /\ (from \in IsCounted <=> to \in IsCounted) => CountedConns' = CountedConns
           /\ CountedConns \ {c} \subseteq CountedConns'
           /\ to \in IsCounted => c \in CountedConns'
<1>0. /\ conn \in [Conns -> ConnStates]
      /\ conn[c] = from
      /\ conn' = [conn EXCEPT ![c] = to]
  BY DEF Move, TypeOK
<1>1. ASSUME from \notin HoldsPermit /\ to \in HoldsPermit
     PROVE  Cardinality(Holders') = Cardinality(Holders) + 1
  <2>1. Holders' = Holders \cup {c} /\ c \notin Holders
    BY <1>0, <1>1 DEF Holders
  <2> QED BY <2>1, FiniteConns, FS_AddElement
<1>2. ASSUME from \in HoldsPermit /\ to \notin HoldsPermit
     PROVE  Cardinality(Holders') = Cardinality(Holders) - 1
  <2>1. Holders' = Holders \ {c} /\ c \in Holders
    BY <1>0, <1>2 DEF Holders
  <2> QED BY <2>1, FiniteConns, FS_RemoveElement
<1>3. (from \in HoldsPermit <=> to \in HoldsPermit) => Holders' = Holders
  BY <1>0 DEF Holders
<1>4. ASSUME from \notin IsCounted /\ to \in IsCounted
     PROVE  Cardinality(CountedConns') = Cardinality(CountedConns) + 1
  <2>1. CountedConns' = CountedConns \cup {c} /\ c \notin CountedConns
    BY <1>0, <1>4 DEF CountedConns
  <2> QED BY <2>1, FiniteConns, FS_AddElement
<1>5. ASSUME from \in IsCounted /\ to \notin IsCounted
     PROVE  Cardinality(CountedConns') = Cardinality(CountedConns) - 1
  <2>1. CountedConns' = CountedConns \ {c} /\ c \in CountedConns
    BY <1>0, <1>5 DEF CountedConns
  <2> QED BY <2>1, FiniteConns, FS_RemoveElement
<1>6. (from \in IsCounted <=> to \in IsCounted) => CountedConns' = CountedConns
  BY <1>0 DEF CountedConns
<1>7. CountedConns \ {c} \subseteq CountedConns' /\ (to \in IsCounted => c \in CountedConns')
  BY <1>0 DEF CountedConns
<1> QED BY <1>1, <1>2, <1>3, <1>4, <1>5, <1>6, <1>7

\* A step that moves a connection within the counted states, or outside of the
\* states that hold a permit, and touches neither number nor the loop.
LEMMA QuietMove ==
    ASSUME IInv, NEW c \in Conns, NEW from \in ConnStates, NEW to \in ConnStates,
           Move(c, from, to),
           from \in HoldsPermit <=> to \in HoldsPermit,
           from \in IsCounted <=> to \in IsCounted,
           UNCHANGED <<server, report, permits, active, awaited>>,
           signalled' \in BOOLEAN, ws' \subseteq Conns
    PROVE  IInv'
<1>1. Holders' = Holders /\ CountedConns' = CountedConns
  BY MoveSets DEF IInv
<1>2. TypeOK'
  BY DEF IInv, TypeOK, Move
<1> QED
  BY <1>1, <1>2 DEF IInv, ConnAccounting, AwaitedCounted, Phases, DrainedHonest

\* A step that leaves the connections and the two numbers alone.
LEMMA QuietLoop ==
    ASSUME IInv, UNCHANGED <<conn, permits, active>>
    PROVE  ConnAccounting' /\ CountedConns' = CountedConns
<1>1. Holders' = Holders /\ CountedConns' = CountedConns
  BY DEF Holders, CountedConns
<1> QED BY <1>1 DEF IInv, ConnAccounting

\* Every action preserves the invariant.
LEMMA StepIInv == IInv /\ [Next]_vars => IInv'
<1> SUFFICES ASSUME IInv, [Next]_vars PROVE IInv'
  OBVIOUS
<1> USE DEF ConnStates, HoldsPermit, IsCounted
<1>1. CASE AcceptFails
  <2>1. TypeOK' BY <1>1 DEF AcceptFails, IInv, TypeOK
  <2>2. ConnAccounting' /\ CountedConns' = CountedConns BY <1>1, QuietLoop DEF AcceptFails
  <2> QED BY <1>1, <2>1, <2>2
          DEF AcceptFails, IInv, AwaitedCounted, Phases, DrainedHonest
<1>2. CASE BeginDrain
  <2>1. TypeOK' BY <1>2 DEF BeginDrain, IInv, TypeOK
  <2>2. ConnAccounting' /\ CountedConns' = CountedConns BY <1>2, QuietLoop DEF BeginDrain
  <2>3. awaited' = CountedConns' BY <1>2, <2>2 DEF BeginDrain, CountedConns
  <2> QED BY <1>2, <2>1, <2>2, <2>3
          DEF BeginDrain, IInv, AwaitedCounted, Phases, DrainedHonest
<1>3. CASE Drained
  <2>1. TypeOK' BY <1>3 DEF Drained, IInv, TypeOK
  <2>2. ConnAccounting' /\ CountedConns' = CountedConns BY <1>3, QuietLoop DEF Drained
  <2>3. Cardinality(CountedConns) = 0 BY <1>3 DEF Drained, IInv, ConnAccounting
  <2>4. CountedConns = {} BY <2>3, FiniteConns, FS_EmptySet
  <2> QED BY <1>3, <2>1, <2>2, <2>4
          DEF Drained, IInv, AwaitedCounted, Phases, DrainedHonest
<1>4. CASE DrainTimeout
  <2>1. TypeOK' BY <1>4 DEF DrainTimeout, IInv, TypeOK
  <2>2. ConnAccounting' /\ CountedConns' = CountedConns BY <1>4, QuietLoop DEF DrainTimeout
  <2> QED BY <1>4, <2>1, <2>2
          DEF DrainTimeout, IInv, AwaitedCounted, Phases, DrainedHonest
<1>5. CASE Exit
  <2>1. TypeOK' BY <1>5 DEF Exit, IInv, TypeOK
  <2>2. ConnAccounting' /\ CountedConns' = CountedConns BY <1>5, QuietLoop DEF Exit
  <2> QED BY <1>5, <2>1, <2>2
          DEF Exit, IInv, AwaitedCounted, Phases, DrainedHonest
<1>6. CASE Signal
  <2>1. TypeOK' BY <1>6 DEF Signal, IInv, TypeOK
  <2>2. ConnAccounting' /\ CountedConns' = CountedConns BY <1>6, QuietLoop DEF Signal
  <2> QED BY <1>6, <2>1, <2>2
          DEF Signal, IInv, AwaitedCounted, Phases, DrainedHonest
<1>7. ASSUME NEW c \in Conns, Accept(c) PROVE IInv'
  <2>1. CASE permits > 0
    <3>1. /\ Cardinality(Holders') = Cardinality(Holders) + 1
          /\ CountedConns' = CountedConns
      BY <1>7, <2>1, MoveSets DEF Accept, IInv
    <3>2. TypeOK'
      BY <1>7, <2>1, MaxConnsIsNat DEF Accept, Move, IInv, TypeOK
    <3>3. ConnAccounting'
      BY <1>7, <2>1, <3>1, FiniteConns, CountedHoldPrime, MaxConnsIsNat
      DEF Accept, IInv, TypeOK, ConnAccounting
    <3> QED BY <1>7, <3>1, <3>2, <3>3
            DEF Accept, IInv, AwaitedCounted, Phases, DrainedHonest
  <2>2. CASE ~(permits > 0)
    BY <1>7, <2>2, QuietMove DEF Accept, IInv, TypeOK
  <2> QED BY <2>1, <2>2
<1>8. ASSUME NEW c \in Conns, StartTask(c) PROVE IInv'
  <2>1. /\ Cardinality(CountedConns') = Cardinality(CountedConns) + 1
        /\ Holders' = Holders
        /\ CountedConns \subseteq CountedConns'
    BY <1>8, MoveSets DEF StartTask, IInv
  <2>2. TypeOK' BY <1>8 DEF StartTask, Move, IInv, TypeOK
  <2>3. ConnAccounting'
    BY <1>8, <2>1, FiniteConns, CountedHoldPrime, MaxConnsIsNat
    DEF StartTask, IInv, TypeOK, ConnAccounting
  <2> QED BY <1>8, <2>1, <2>2, <2>3
          DEF StartTask, IInv, AwaitedCounted, Phases, DrainedHonest
<1>9. ASSUME NEW c \in Conns, Uncount(c) PROVE IInv'
  <2>1. /\ Cardinality(CountedConns') = Cardinality(CountedConns) - 1
        /\ Holders' = Holders
        /\ CountedConns \ {c} \subseteq CountedConns'
    BY <1>9, MoveSets DEF Uncount, IInv
  <2>2. active' = Cardinality(CountedConns')
    BY <1>9, <2>1 DEF Uncount, IInv, ConnAccounting
  <2>3. TypeOK'
    BY <1>9, <2>2, CountedHoldPrime DEF Uncount, Move, IInv, TypeOK
  <2>4. ConnAccounting'
    BY <1>9, <2>1, <2>2, FiniteConns, CountedHoldPrime, MaxConnsIsNat
    DEF Uncount, IInv, TypeOK, ConnAccounting
  <2> QED BY <1>9, <2>1, <2>3, <2>4
          DEF Uncount, IInv, AwaitedCounted, Phases, DrainedHonest
<1>10. ASSUME NEW c \in Conns, GiveBack(c) PROVE IInv'
  <2>1. /\ Cardinality(Holders') = Cardinality(Holders) - 1
        /\ CountedConns' = CountedConns
    BY <1>10, MoveSets DEF GiveBack, IInv
  <2>2. permits' + Cardinality(Holders') = MaxConns
    BY <1>10, <2>1, FiniteConns, MaxConnsIsNat DEF GiveBack, IInv, TypeOK, ConnAccounting
  <2>3. permits' \in 0 .. MaxConns
    BY <1>10, <2>2, CountedHoldPrime, MaxConnsIsNat DEF GiveBack, IInv, TypeOK
  <2>4. TypeOK' BY <1>10, <2>3 DEF GiveBack, Move, IInv, TypeOK
  <2>5. ConnAccounting'
    BY <1>10, <2>1, <2>2, <2>3, CountedHoldPrime, MaxConnsIsNat
    DEF GiveBack, IInv, TypeOK, ConnAccounting
  <2> QED BY <1>10, <2>1, <2>4, <2>5
          DEF GiveBack, IInv, AwaitedCounted, Phases, DrainedHonest
<1>11. ASSUME NEW c \in Conns, Connect(c) PROVE IInv'
  BY <1>11, QuietMove DEF Connect, IInv, TypeOK
<1>12. ASSUME NEW c \in Conns, BeginRequest(c) PROVE IInv'
  BY <1>12, QuietMove DEF BeginRequest, IInv, TypeOK
<1>13. ASSUME NEW c \in Conns, EndRequest(c) PROVE IInv'
  BY <1>13, QuietMove DEF EndRequest, IInv, TypeOK
<1>14. ASSUME NEW c \in Conns, Upgrade(c) PROVE IInv'
  BY <1>14, QuietMove DEF Upgrade, IInv, TypeOK
<1>15. ASSUME NEW c \in Conns, EndConnection(c) PROVE IInv'
  BY <1>15, QuietMove DEF EndConnection, IInv, TypeOK
<1>16. ASSUME NEW c \in Conns, WsEnds(c) PROVE IInv'
  <2>1. TypeOK' BY <1>16 DEF WsEnds, IInv, TypeOK
  <2>2. ConnAccounting' /\ CountedConns' = CountedConns BY <1>16, QuietLoop DEF WsEnds
  <2> QED BY <1>16, <2>1, <2>2
          DEF WsEnds, IInv, AwaitedCounted, Phases, DrainedHonest
<1>17. CASE UNCHANGED vars
  <2>1. TypeOK' BY <1>17 DEF vars, IInv, TypeOK
  <2>2. ConnAccounting' /\ CountedConns' = CountedConns BY <1>17, QuietLoop DEF vars
  <2> QED BY <1>17, <2>1, <2>2
          DEF vars, IInv, AwaitedCounted, Phases, DrainedHonest
<1> QED
  BY <1>1, <1>2, <1>3, <1>4, <1>5, <1>6, <1>7, <1>8, <1>9, <1>10, <1>11,
     <1>12, <1>13, <1>14, <1>15, <1>16, <1>17
  DEF Next, LoopStep, ConnStep, TaskStep

\* The inductive invariant holds in every reachable state.
LEMMA IInvariant == Spec => []IInv
<1>1. Init => IInv BY InitIInv
<1>2. IInv /\ [Next]_vars => IInv' BY StepIInv
<1> QED BY <1>1, <1>2, PTL DEF Spec

\* Permits and ACTIVE_REQUESTS are exact for any number of connections, with
\* upgrades, refusals and a drain in between.
THEOREM AccountingExact == Spec => []ConnAccounting
<1>1. IInv => ConnAccounting BY DEF IInv
<1> QED BY <1>1, IInvariant, PTL

\* The drain reports success only when every connection it was to wait for is
\* over.
THEOREM HonestDrain == Spec => []DrainedHonest
<1>1. IInv => DrainedHonest BY DEF IInv
<1> QED BY <1>1, IInvariant, PTL

-----------------------------------------------------------------------------
\* Accounts, sessions, OAuth, password reset.

\* The parts of the state; a state that has exactly these; and a state that differs from
\* another one at most in the parts fs.
AuthFields == {"db", "script", "users", "resets", "states", "tokens", "run", "calls", "now", "nextId", "sets", "exchanges", "me"}
AuthRec(s) == s = [f \in AuthFields |-> s[f]]
AuthSame(s, t, fs) == AuthRec(t) /\ \A f \in AuthFields \ fs : t[f] = s[f]

\* Handlers in progress, users and reset tokens are records of this shape.
HandlerFields == {"n", "kind", "email", "pw", "arg", "step", "at", "id"}
HandlerRec(p) == p = [f \in HandlerFields |-> p[f]]
UserRec(u) == u = [email |-> u.email, pw |-> u.pw, id |-> u.id]
ResetRec(r) == r = [token |-> r.token, email |-> r.email, exp |-> r.exp, used |-> r.used] /\ r.exp \in Nat

\* The shape of the state.  Handlers are numbered by the calls made so far.
AuthTypeOK ==
    /\ AuthRec(au)
    /\ au.calls \in Nat /\ au.now \in Nat
    /\ \A p \in au.run : HandlerRec(p) /\ p.n \in 1 .. au.calls
    /\ \A u \in au.users : UserRec(u)
    /\ \A r \in au.resets : ResetRec(r)
    /\ \A t \in au.tokens : t.typ \in {"access", "refresh"}

\* A call number names one handler, one OAuth state and one exchange: a state's token is
\* the number of a call that has ended, so no handler will issue it again.
CallsInv ==
    /\ \A p, q \in au.run : p.n = q.n => p = q
    /\ \A s \in au.states : s.token \in 1 .. au.calls /\ \A p \in au.run : p.n # s.token
    /\ \A x \in au.exchanges : x.state[1] \in 1 .. au.calls /\ \A p \in au.run : p.n # x.state[1]
    /\ StateSingleUse

\* A handler past its lookup holds a token that was stored for the address it writes, and
\* so does every password already written by one.  Without a database nothing is written.
ResetsInv ==
    /\ ~au.db => /\ \A p \in au.run : p.kind = "reset" => p.step = "find"
                 /\ \A x \in au.sets : x.by[1] # "reset"
    /\ \A p \in au.run : p.kind = "reset" /\ p.step # "find" =>
          \E r \in au.resets : r.token = p.arg /\ r.email = p.email /\ p.at < r.exp
    /\ \A x \in au.sets : x.by[1] = "reset" => \E r \in au.resets : r.token = x.by[2] /\ r.email = x.email

\* The user id, when there is one, is a row with this address.
Names(U, id, e) == id # NoId => \E u \in U : u.id = id /\ u.email = e
\* Ids carried by handlers and tokens name the address they were looked up with; before
\* the profile is fetched a callback carries none.
UsersInv ==
    /\ \A p \in au.run : p.kind = "callback" => Names(au.users, p.id, p.email)
    /\ \A p \in au.run : p.kind = "callback" /\ p.step \in {"state", "exchange"} => p.id = NoId
    /\ \A t \in au.tokens : Names(au.users, t.id, t.sub)

\* Call n exchanged an authorization code.
LoggedIn(X, n) == \E x \in X : x.call = n
\* Every refresh token descends from such a call, and a callback that passed its state
\* check is one.  Only access tokens were accepted as a session.
LoginsInv ==
    /\ \A p \in au.run : p.kind = "callback" /\ p.step # "state" => LoggedIn(au.exchanges, p.n)
    /\ \A t \in au.tokens : t.typ = "refresh" => LoggedIn(au.exchanges, t.root)
    /\ \A t \in au.me : t.typ = "access"

\* The inductive invariant of AuthFlows.
AuthInv == AuthTypeOK /\ CallsInv /\ ResetsInv /\ UsersInv /\ LoginsInv

\* Ends changes the set of running handlers only.
LEMMA EndsIs ==
    ASSUME NEW s, AuthRec(s), NEW p
    PROVE  AuthSame(s, Ends(s, p), {"run"}) /\ Ends(s, p).run = s.run \ {p}
  BY DEF AuthRec, AuthSame, Ends, AuthFields

\* So does Goes, which replaces a handler.
LEMMA GoesIs ==
    ASSUME NEW s, AuthRec(s), NEW p, NEW q
    PROVE  AuthSame(s, Goes(s, p, q), {"run"}) /\ Goes(s, p, q).run = (s.run \ {p}) \cup {q}
  BY DEF AuthRec, AuthSame, Goes, AuthFields

\* The users once the password of the address e is pw.
WithPassword(U, e, pw) == {IF u.email = e THEN [u EXCEPT !.pw = pw] ELSE u : u \in U}

\* SetPassword changes users and notes it in the history.
LEMMA SetPasswordIs ==
    ASSUME NEW s, AuthRec(s), NEW e, NEW pw, NEW by
    PROVE  /\ AuthSame(s, SetPassword(s, e, pw, by), {"users", "sets"})
           /\ SetPassword(s, e, pw, by).users = WithPassword(s.users, e, pw)
           /\ SetPassword(s, e, pw, by).sets = s.sets \cup {[email |-> e, pw |-> pw, by |-> by]}
  BY DEF AuthRec, AuthSame, SetPassword, AuthFields, WithPassword

\* InsertUser adds a row under the next id.
LEMMA InsertUserIs ==
    ASSUME NEW s, AuthRec(s), NEW e, NEW pw
    PROVE  /\ AuthSame(s, InsertUser(s, e, pw), {"users", "nextId"})
           /\ InsertUser(s, e, pw).users = s.users \cup {[email |-> e, pw |-> pw, id |-> s.nextId]}
  BY DEF AuthRec, AuthSame, InsertUser, AuthFields

\* SignToken adds one access token.
LEMMA SignTokenIs ==
    ASSUME NEW s, AuthRec(s), NEW e, NEW id, NEW root
    PROVE  /\ AuthSame(s, SignToken(s, e, id, root), {"tokens"})
           /\ SignToken(s, e, id, root).tokens = s.tokens \cup {Claims("access", e, id, AccessTTL, root)}
  BY DEF AuthRec, AuthSame, SignToken, AuthFields

\* SignBoth adds an access and a refresh token.
LEMMA SignBothIs ==
    ASSUME NEW s, AuthRec(s), NEW e, NEW id, NEW root
    PROVE  /\ AuthSame(s, SignBoth(s, e, id, root), {"tokens"})
           /\ SignBoth(s, e, id, root).tokens =
                s.tokens \cup {Claims("access", e, id, AccessTTL, root), Claims("refresh", e, id, RefreshTTL, root)}
<1> DEFINE u == SignToken(s, e, id, root)
<1>1. AuthSame(s, u, {"tokens"}) /\ u.tokens = s.tokens \cup {Claims("access", e, id, AccessTTL, root)}
  BY SignTokenIs
<1> HIDE DEF u
<1>2. /\ AuthSame(u, SignRefreshToken(u, e, id, root), {"tokens"})
      /\ SignRefreshToken(u, e, id, root).tokens = u.tokens \cup {Claims("refresh", e, id, RefreshTTL, root)}
  BY <1>1 DEF AuthRec, AuthSame, SignRefreshToken, AuthFields
<1>3. SignBoth(s, e, id, root) = SignRefreshToken(u, e, id, root)
  BY DEF SignBoth, u
<1> QED
  BY <1>1, <1>2, <1>3 DEF AuthSame, AuthFields

\* The row found for an address has that address.
LEMMA UserIs ==
    ASSUME NEW e, UserKnown(e)
    PROVE  User(e) \in au.users /\ User(e).email = e
  BY DEF UserKnown, User

\* A step of handler p, which ends or goes on as q, and what such a step keeps for each
\* part of the invariant to hold after it.
Moves(p, q) ==
    /\ HandlerRec(q) /\ q.n = p.n /\ q.kind = p.kind /\ q.arg = p.arg
    /\ au'.run \subseteq (au.run \ {p}) \cup {q}
    /\ au'.calls = au.calls /\ au'.db = au.db /\ au'.now = au.now
KeepsTypes ==
    /\ AuthRec(au')
    /\ \A u \in au'.users : UserRec(u)
    /\ \A r \in au'.resets : ResetRec(r)
    /\ \A t \in au'.tokens : t.typ \in {"access", "refresh"}
KeepsStates == au'.states = au.states /\ au'.exchanges = au.exchanges
KeepsResets(p, q) == au'.resets = au.resets /\ au'.sets = au.sets /\ (p.kind = "reset" => q = p)
KeepsUsers(q) ==
    /\ \A u \in au.users : \E v \in au'.users : v.id = u.id /\ v.email = u.email
    /\ \A t \in au'.tokens \ au.tokens : Names(au'.users, t.id, t.sub)
    /\ q.kind = "callback" => Names(au'.users, q.id, q.email)
    /\ q.kind = "callback" /\ q.step \in {"state", "exchange"} => q.id = NoId
KeepsLogins(q) ==
    /\ au.exchanges \subseteq au'.exchanges
    /\ \A t \in au'.tokens \ au.tokens : t.typ = "refresh" => LoggedIn(au'.exchanges, t.root)
    /\ q.kind = "callback" /\ q.step # "state" => LoggedIn(au'.exchanges, q.n)
    /\ \A t \in au'.me \ au.me : t.typ = "access"

\* The shape of the state survives a step that keeps the shape of its parts.
LEMMA TypesKept ==
    ASSUME AuthInv, NEW p \in au.run, NEW q, Moves(p, q), KeepsTypes
    PROVE  AuthTypeOK'
  BY DEF AuthInv, AuthTypeOK, Moves, KeepsTypes

\* States and exchanges that do not change stay single use.
LEMMA StatesKept ==
    ASSUME AuthInv, NEW p \in au.run, NEW q, Moves(p, q), KeepsStates
    PROVE  CallsInv'
  BY DEF AuthInv, CallsInv, Moves, KeepsStates, StateSingleUse

\* Resets that do not change stay justified.
LEMMA ResetsKept ==
    ASSUME AuthInv, NEW p \in au.run, NEW q, Moves(p, q), KeepsResets(p, q)
    PROVE  ResetsInv'
  BY DEF AuthInv, ResetsInv, Moves, KeepsResets

\* Ids stay names of users when rows keep their id and address.
LEMMA UsersKept ==
    ASSUME AuthInv, NEW p \in au.run, NEW q, Moves(p, q), KeepsUsers(q)
    PROVE  UsersInv'
  BY DEF AuthInv, UsersInv, Moves, KeepsUsers, Names

\* Refresh tokens stay descendants of logins when exchanges only grow.
LEMMA LoginsKept ==
    ASSUME AuthInv, NEW p \in au.run, NEW q, Moves(p, q), KeepsLogins(q)
    PROVE  LoginsInv'
  BY DEF AuthInv, LoginsInv, Moves, KeepsLogins, LoggedIn

\* A handler ends without doing anything else.
LEMMA EndStep ==
    ASSUME AuthInv, NEW p \in au.run, au' = Ends(au, p)
    PROVE  AuthInv'
<1>1. AuthSame(au, au', {"run"}) /\ au'.run = au.run \ {p}
  BY EndsIs DEF AuthInv, AuthTypeOK
<1>2. Moves(p, p)
  BY <1>1 DEF Moves, AuthSame, AuthFields, AuthInv, AuthTypeOK
<1>3. KeepsTypes /\ KeepsStates /\ KeepsResets(p, p)
  BY <1>1 DEF KeepsTypes, KeepsStates, KeepsResets, AuthSame, AuthFields, AuthInv, AuthTypeOK
<1>4. KeepsUsers(p) /\ KeepsLogins(p)
  BY <1>1 DEF KeepsUsers, KeepsLogins, Names, LoggedIn, AuthSame, AuthFields, AuthInv, UsersInv, LoginsInv
<1> QED
  BY <1>2, <1>3, <1>4, TypesKept, StatesKept, ResetsKept, UsersKept, LoginsKept DEF AuthInv

\* A handler other than a reset goes on without doing anything else.
LEMMA GoStep ==
    ASSUME AuthInv, NEW p \in au.run, NEW q, au' = Goes(au, p, q),
           HandlerRec(q), q.n = p.n, q.kind = p.kind, q.arg = p.arg, p.kind # "reset",
           p.kind = "callback" => /\ Names(au.users, q.id, q.email) /\ LoggedIn(au.exchanges, p.n)
                                  /\ q.step \in {"state", "exchange"} => q.id = NoId
    PROVE  AuthInv'
<1>1. AuthSame(au, au', {"run"}) /\ au'.run = (au.run \ {p}) \cup {q}
  BY GoesIs DEF AuthInv, AuthTypeOK
<1>2. Moves(p, q)
  BY <1>1 DEF Moves, AuthSame, AuthFields, AuthInv, AuthTypeOK
<1>3. KeepsTypes /\ KeepsStates /\ KeepsResets(p, q)
  BY <1>1 DEF KeepsTypes, KeepsStates, KeepsResets, AuthSame, AuthFields, AuthInv, AuthTypeOK
<1>4. KeepsUsers(q) /\ KeepsLogins(q)
  BY <1>1 DEF KeepsUsers, KeepsLogins, Names, LoggedIn, AuthSame, AuthFields, AuthInv, UsersInv, LoginsInv
<1> QED
  BY <1>2, <1>3, <1>4, TypesKept, StatesKept, ResetsKept, UsersKept, LoginsKept DEF AuthInv

\* A handler ends and signs tokens for an address its id names.
LEMMA SignStep ==
    ASSUME AuthInv, NEW p \in au.run, NEW e, NEW id, NEW root, Names(au.users, id, e),
           \/ au' = SignToken(Ends(au, p), e, id, root)
           \/ au' = SignBoth(Ends(au, p), e, id, root) /\ LoggedIn(au.exchanges, root)
    PROVE  AuthInv'
<1> DEFINE s == Ends(au, p)
<1>1. AuthSame(au, s, {"run"}) /\ s.run = au.run \ {p}
  BY EndsIs DEF AuthInv, AuthTypeOK
<1> HIDE DEF s
<1>2. /\ AuthSame(au, au', {"run", "tokens"}) /\ au'.run = au.run \ {p} /\ au.tokens \subseteq au'.tokens
      /\ \A t \in au'.tokens \ au.tokens : /\ t.typ \in {"access", "refresh"} /\ t.id = id /\ t.sub = e
                                           /\ t.typ = "refresh" => LoggedIn(au.exchanges, t.root)
  <2>1. CASE au' = SignToken(s, e, id, root)
    BY <1>1, <2>1, SignTokenIs DEF AuthSame, AuthFields, Claims
  <2>2. CASE au' = SignBoth(s, e, id, root) /\ LoggedIn(au.exchanges, root)
    BY <1>1, <2>2, SignBothIs DEF AuthSame, AuthFields, Claims
  <2> QED
    BY <2>1, <2>2 DEF s
<1>3. Moves(p, p)
  BY <1>2 DEF Moves, AuthSame, AuthFields, AuthInv, AuthTypeOK
<1>4. KeepsTypes /\ KeepsStates /\ KeepsResets(p, p)
  BY <1>2 DEF KeepsTypes, KeepsStates, KeepsResets, AuthSame, AuthFields, AuthInv, AuthTypeOK
<1>5. KeepsUsers(p) /\ KeepsLogins(p)
  BY <1>2 DEF KeepsUsers, KeepsLogins, Names, LoggedIn, AuthSame, AuthFields, AuthInv, UsersInv, LoginsInv
<1> QED
  BY <1>3, <1>4, <1>5, TypesKept, StatesKept, ResetsKept, UsersKept, LoginsKept DEF AuthInv

\* A password write keeps every id and address.
LEMMA PasswordsOnly ==
    ASSUME NEW U, \A u \in U : UserRec(u), NEW e, NEW pw
    PROVE  /\ \A u \in U : \E v \in WithPassword(U, e, pw) : v.id = u.id /\ v.email = u.email
           /\ \A v \in WithPassword(U, e, pw) : UserRec(v)
<1> DEFINE V == WithPassword(U, e, pw)
<1>1. ASSUME NEW u \in U PROVE \E v \in V : v.id = u.id /\ v.email = u.email
  <2> DEFINE v == IF u.email = e THEN [u EXCEPT !.pw = pw] ELSE u
  <2>1. v \in V
    BY DEF WithPassword
  <2>2. v.id = u.id /\ v.email = u.email
    BY DEF UserRec
  <2> QED
    BY <2>1, <2>2
<1> QED
  BY <1>1 DEF UserRec, WithPassword

\* signup_handler: the second half, which inserts the user.
LEMMA SignupStep ==
    ASSUME AuthInv, NEW p \in au.run, NEW ok \in BOOLEAN, SignupInsert(p, ok)
    PROVE  AuthInv'
<1>1. CASE au' = Ends(au, p)
  BY <1>1, EndStep
<1>2. CASE au' # Ends(au, p)
  <2> DEFINE s == Ends(au, p)
             t == InsertUser(s, p.email, p.pw)
             v == SetPassword(t, p.email, p.pw, <<"signup", p.n>>)
             c == Claims("access", p.email, au.nextId, AccessTTL, p.n)
  <2>0. au' = SignToken(v, p.email, au.nextId, p.n) /\ p.kind = "signup"
    BY <1>2 DEF SignupInsert, At
  <2>1. AuthSame(au, s, {"run"}) /\ s.run = au.run \ {p}
    BY EndsIs DEF AuthInv, AuthTypeOK
  <2> HIDE DEF s
  <2>2. AuthSame(s, t, {"users", "nextId"}) /\ t.users = s.users \cup {[email |-> p.email, pw |-> p.pw, id |-> s.nextId]}
    BY <2>1, InsertUserIs DEF AuthSame
  <2> HIDE DEF t
  <2>3. /\ AuthSame(t, v, {"users", "sets"})
        /\ v.users = WithPassword(t.users, p.email, p.pw)
        /\ v.sets = t.sets \cup {[email |-> p.email, pw |-> p.pw, by |-> <<"signup", p.n>>]}
    <3>1. AuthRec(t)
      BY <2>2 DEF AuthSame
    <3> QED
      BY <3>1, SetPasswordIs
  <2> HIDE DEF v
  <2>4. /\ AuthSame(v, au', {"tokens"})
        /\ au'.tokens = v.tokens \cup {c}
    BY <2>0, <2>3, SignTokenIs DEF AuthSame
  <2>13. c.typ = "access" /\ c.id = au.nextId /\ c.sub = p.email
    BY DEF Claims
  <2> HIDE DEF c
  <2>5. /\ AuthRec(au') /\ au'.run = au.run \ {p} /\ au'.calls = au.calls /\ au'.db = au.db /\ au'.now = au.now
        /\ au'.states = au.states /\ au'.exchanges = au.exchanges /\ au'.resets = au.resets /\ au'.me = au.me
        /\ au'.sets = au.sets \cup {[email |-> p.email, pw |-> p.pw, by |-> <<"signup", p.n>>]}
        /\ au'.tokens = au.tokens \cup {c}
        /\ au'.users = WithPassword(au.users \cup {[email |-> p.email, pw |-> p.pw, id |-> au.nextId]}, p.email, p.pw)
    BY ZenonT(60), <2>1, <2>2, <2>3, <2>4 DEF AuthSame, AuthFields
  <2> DEFINE U == au.users \cup {[email |-> p.email, pw |-> p.pw, id |-> au.nextId]}
  <2>6. \A u \in U : UserRec(u)
    BY DEF AuthInv, AuthTypeOK, UserRec
  <2>7. /\ \A u \in U : \E x \in au'.users : x.id = u.id /\ x.email = u.email
        /\ \A u \in au'.users : UserRec(u)
    <3>1. au'.users = WithPassword(U, p.email, p.pw)
      BY <2>5
    <3> HIDE DEF U
    <3> QED
      BY <2>6, <3>1, PasswordsOnly
  <2>8. Moves(p, p)
    BY <2>5 DEF Moves, AuthInv, AuthTypeOK
  <2>9. KeepsTypes /\ KeepsStates
    BY <2>5, <2>7, <2>13 DEF KeepsTypes, KeepsStates, AuthInv, AuthTypeOK
  <2>10. ResetsInv'
    BY <2>5 DEF AuthInv, ResetsInv
  <2>11. KeepsUsers(p)
    <3> DEFINE new == [email |-> p.email, pw |-> p.pw, id |-> au.nextId]
    <3>1. \E x \in au'.users : x.id = au.nextId /\ x.email = p.email
      <4>1. new \in U /\ new.id = au.nextId /\ new.email = p.email
        OBVIOUS
      <4> HIDE DEF new, U
      <4> QED
        BY <2>7, <4>1
    <3> QED
      BY <2>0, <2>5, <2>7, <2>13, <3>1 DEF KeepsUsers, Names
  <2>12. KeepsLogins(p)
    BY <2>0, <2>5, <2>13 DEF KeepsLogins
  <2> QED
    BY <2>8, <2>9, <2>10, <2>11, <2>12, TypesKept, StatesKept, UsersKept, LoginsKept DEF AuthInv
<1> QED
  BY <1>1, <1>2

\* forgot_password stores a reset token.
LEMMA ForgotStep ==
    ASSUME AuthInv, NEW p \in au.run, NEW ok \in BOOLEAN, ForgotPassword(p, ok)
    PROVE  AuthInv'
<1>1. CASE au' = Ends(au, p)
  BY <1>1, EndStep
<1>2. CASE au' # Ends(au, p)
  <2> DEFINE s == Ends(au, p)
             r == [token |-> p.n, email |-> p.email, exp |-> au.now + ResetTTL, used |-> FALSE]
  <2>1. au' = [s EXCEPT !.resets = @ \cup {r}] /\ p.kind = "forgot"
    BY <1>2 DEF ForgotPassword, At
  <2>2. AuthSame(au, s, {"run"}) /\ s.run = au.run \ {p}
    BY EndsIs DEF AuthInv, AuthTypeOK
  <2> HIDE DEF s
  <2>3. ResetRec(r)
    BY TimesToLive DEF ResetRec, AuthInv, AuthTypeOK
  <2> HIDE DEF r
  <2>4. AuthSame(au, au', {"run", "resets"}) /\ au'.run = au.run \ {p} /\ au'.resets = au.resets \cup {r}
    BY <2>1, <2>2 DEF AuthSame, AuthRec, AuthFields
  <2>5. Moves(p, p)
    BY <2>4 DEF Moves, AuthSame, AuthFields, AuthInv, AuthTypeOK
  <2>6. KeepsTypes /\ KeepsStates
    BY <2>3, <2>4 DEF KeepsTypes, KeepsStates, AuthSame, AuthFields, AuthInv, AuthTypeOK
  <2>7. ResetsInv'
    BY <2>4 DEF AuthInv, ResetsInv, AuthSame, AuthFields
  <2>8. KeepsUsers(p) /\ KeepsLogins(p)
    BY <2>1, <2>4 DEF KeepsUsers, KeepsLogins, AuthSame, AuthFields
  <2> QED
    BY <2>5, <2>6, <2>7, <2>8, TypesKept, StatesKept, UsersKept, LoginsKept DEF AuthInv
<1> QED
  BY <1>1, <1>2

\* reset_password: the lookup of the token.
LEMMA ResetFindStep ==
    ASSUME AuthInv, NEW p \in au.run, NEW ok \in BOOLEAN, ResetFind(p, ok)
    PROVE  AuthInv'
<1> DEFINE r == CHOOSE x \in Usable(p.arg) : TRUE
           q == [p EXCEPT !.step = "write", !.at = au.now, !.email = r.email]
<1>0. p.kind = "reset" /\ p.step = "find"
  BY DEF ResetFind, At
<1>1. CASE au' = Ends(au, p)
  BY <1>1, EndStep
<1>2. CASE ~au.db /\ au' = [Ends(au, p) EXCEPT !.resets = @ \ Usable(p.arg)]
  <2> DEFINE s == Ends(au, p)
  <2>1. AuthSame(au, s, {"run"}) /\ s.run = au.run \ {p}
    BY EndsIs DEF AuthInv, AuthTypeOK
  <2> HIDE DEF s
  <2>2. au' = [s EXCEPT !.resets = @ \ Usable(p.arg)]
    BY <1>2 DEF s
  <2>3. AuthSame(au, au', {"run", "resets"}) /\ au'.run = au.run \ {p} /\ au'.resets \subseteq au.resets
    BY <2>1, <2>2 DEF AuthSame, AuthRec, AuthFields
  <2>4. Moves(p, p)
    BY <2>3 DEF Moves, AuthSame, AuthFields, AuthInv, AuthTypeOK
  <2>5. KeepsTypes /\ KeepsStates
    BY <2>3 DEF KeepsTypes, KeepsStates, AuthSame, AuthFields, AuthInv, AuthTypeOK
  <2>6. ResetsInv'
    BY <1>2, <2>3 DEF AuthInv, ResetsInv, AuthSame, AuthFields
  <2>7. KeepsUsers(p) /\ KeepsLogins(p)
    BY <1>0, <2>3 DEF KeepsUsers, KeepsLogins, AuthSame, AuthFields
  <2> QED
    BY <2>4, <2>5, <2>6, <2>7, TypesKept, StatesKept, UsersKept, LoginsKept DEF AuthInv
<1>3. CASE Usable(p.arg) # {} /\ au.db /\ au' = Goes(au, p, q)
  <2>1. r \in au.resets /\ r.token = p.arg /\ au.now < r.exp
    BY <1>3 DEF Usable, AuthInv, AuthTypeOK, ResetRec
  <2> HIDE DEF r
  <2>2. HandlerRec(q) /\ q.n = p.n /\ q.kind = p.kind /\ q.arg = p.arg /\ q.at = au.now /\ q.email = r.email
    <3>1. HandlerRec(p)
      BY DEF AuthInv, AuthTypeOK
    <3> QED
      BY <3>1 DEF HandlerRec, HandlerFields
  <2> HIDE DEF q
  <2>3. AuthSame(au, au', {"run"}) /\ au'.run = (au.run \ {p}) \cup {q}
    BY <1>3, GoesIs DEF AuthInv, AuthTypeOK
  <2>4. Moves(p, q)
    BY <2>2, <2>3 DEF Moves, AuthSame, AuthFields
  <2>5. KeepsTypes /\ KeepsStates
    BY <2>3 DEF KeepsTypes, KeepsStates, AuthSame, AuthFields, AuthInv, AuthTypeOK
  <2>6. ResetsInv'
    BY <1>3, <2>1, <2>2, <2>3 DEF AuthInv, ResetsInv, AuthSame, AuthFields
  <2>7. KeepsUsers(q) /\ KeepsLogins(q)
    BY <1>0, <2>2, <2>3 DEF KeepsUsers, KeepsLogins, AuthSame, AuthFields
  <2> QED
    BY <2>4, <2>5, <2>6, <2>7, TypesKept, StatesKept, UsersKept, LoginsKept DEF AuthInv
<1> QED
  BY <1>1, <1>2, <1>3 DEF ResetFind

\* reset_password: the new password is written.
LEMMA ResetWriteStep ==
    ASSUME AuthInv, NEW p \in au.run, NEW ok \in BOOLEAN, ResetWrite(p, ok)
    PROVE  AuthInv'
<1> DEFINE s == SetPassword(au, p.email, p.pw, <<"reset", p.arg>>)
           q == [p EXCEPT !.step = "mark"]
<1>0. p.kind = "reset" /\ p.step = "write"
  BY DEF ResetWrite, At
<1>1. CASE au' = Ends(au, p)
  BY <1>1, EndStep
<1>2. CASE au' = Goes(s, p, q)
  <2>1. HandlerRec(q) /\ q.n = p.n /\ q.kind = p.kind /\ q.arg = p.arg /\ q.at = p.at /\ q.email = p.email
    BY DEF HandlerRec, HandlerFields, AuthInv, AuthTypeOK
  <2> HIDE DEF q
  <2>2. /\ AuthSame(au, s, {"users", "sets"}) /\ s.users = WithPassword(au.users, p.email, p.pw)
        /\ s.sets = au.sets \cup {[email |-> p.email, pw |-> p.pw, by |-> <<"reset", p.arg>>]}
    <3>1. AuthRec(au)
      BY DEF AuthInv, AuthTypeOK
    <3> QED
      BY <3>1, SetPasswordIs
  <2> HIDE DEF s
  <2>3. AuthSame(s, au', {"run"}) /\ au'.run = (s.run \ {p}) \cup {q}
    BY <1>2, <2>2, GoesIs DEF AuthSame
  <2>4. /\ AuthRec(au') /\ au'.run = (au.run \ {p}) \cup {q} /\ au'.calls = au.calls /\ au'.db = au.db /\ au'.now = au.now
        /\ au'.states = au.states /\ au'.exchanges = au.exchanges /\ au'.resets = au.resets /\ au'.me = au.me
        /\ au'.sets = au.sets \cup {[email |-> p.email, pw |-> p.pw, by |-> <<"reset", p.arg>>]}
        /\ au'.tokens = au.tokens /\ au'.users = WithPassword(au.users, p.email, p.pw)
    BY <2>2, <2>3 DEF AuthSame, AuthFields
  <2>5. /\ \A u \in au.users : \E v \in au'.users : v.id = u.id /\ v.email = u.email
        /\ \A v \in au'.users : UserRec(v)
    BY <2>4, PasswordsOnly DEF AuthInv, AuthTypeOK
  <2>6. Moves(p, q)
    BY <2>1, <2>4 DEF Moves
  <2>7. KeepsTypes /\ KeepsStates
    BY <2>4, <2>5 DEF KeepsTypes, KeepsStates, AuthInv, AuthTypeOK
  <2>8. ResetsInv'
    <3>1. au.db /\ \E r \in au.resets : r.token = p.arg /\ r.email = p.email /\ p.at < r.exp
      BY <1>0 DEF AuthInv, ResetsInv
    <3> QED
      BY <2>1, <2>4, <3>1 DEF AuthInv, ResetsInv
  <2>9. KeepsUsers(q) /\ KeepsLogins(q)
    BY <1>0, <2>1, <2>4, <2>5 DEF KeepsUsers, KeepsLogins
  <2> QED
    BY <2>6, <2>7, <2>8, <2>9, TypesKept, StatesKept, UsersKept, LoginsKept DEF AuthInv
<1> QED
  BY <1>1, <1>2 DEF ResetWrite

\* reset_password: the token is marked as used.
LEMMA ResetMarkStep ==
    ASSUME AuthInv, NEW p \in au.run, NEW ok \in BOOLEAN, ResetMark(p, ok)
    PROVE  AuthInv'
<1> DEFINE s == Ends(au, p)
           Marked(r) == IF r.token = p.arg THEN [r EXCEPT !.used = TRUE] ELSE r
           R == {Marked(r) : r \in au.resets}
<1>0. p.kind = "reset"
  BY DEF ResetMark, At
<1>1. CASE au' = Ends(au, p)
  BY <1>1, EndStep
<1>2. CASE au' = [Ends(au, p) EXCEPT !.resets = {IF r.token = p.arg THEN [r EXCEPT !.used = TRUE] ELSE r : r \in @}]
  <2>1. AuthSame(au, s, {"run"}) /\ s.run = au.run \ {p}
    BY EndsIs DEF AuthInv, AuthTypeOK
  <2> HIDE DEF s
  <2>2. au' = [s EXCEPT !.resets = {IF r.token = p.arg THEN [r EXCEPT !.used = TRUE] ELSE r : r \in @}]
    BY <1>2 DEF s
  <2>3. AuthSame(au, au', {"run", "resets"}) /\ au'.run = au.run \ {p} /\ au'.resets = R
    BY <2>1, <2>2 DEF AuthSame, AuthRec, AuthFields
  <2>4. ASSUME NEW r \in au.resets
        PROVE  /\ Marked(r) \in R /\ ResetRec(Marked(r)) /\ Marked(r).token = r.token
               /\ Marked(r).email = r.email /\ Marked(r).exp = r.exp
    <3>1. ResetRec(r)
      BY DEF AuthInv, AuthTypeOK
    <3>2. ResetRec(Marked(r)) /\ Marked(r).token = r.token /\ Marked(r).email = r.email /\ Marked(r).exp = r.exp
      BY <3>1 DEF ResetRec
    <3> QED
      BY <3>2
  <2>5. \A x \in R : ResetRec(x)
    BY <2>4
  <2>6. \A r \in au.resets : \E x \in R : x.token = r.token /\ x.email = r.email /\ x.exp = r.exp
    BY <2>4
  <2> HIDE DEF R
  <2>7. Moves(p, p)
    BY <2>3 DEF Moves, AuthSame, AuthFields, AuthInv, AuthTypeOK
  <2>8. KeepsTypes /\ KeepsStates
    BY <2>3, <2>5 DEF KeepsTypes, KeepsStates, AuthSame, AuthFields, AuthInv, AuthTypeOK
  <2>9. ResetsInv'
    BY <2>3, <2>6 DEF AuthInv, ResetsInv, AuthSame, AuthFields
  <2>10. KeepsUsers(p) /\ KeepsLogins(p)
    BY <1>0, <2>3 DEF KeepsUsers, KeepsLogins, AuthSame, AuthFields
  <2> QED
    BY <2>7, <2>8, <2>9, <2>10, TypesKept, StatesKept, UsersKept, LoginsKept DEF AuthInv
<1> QED
  BY <1>1, <1>2 DEF ResetMark

\* oauth_redirect stores a state whose token is the number of this call.
LEMMA CreateStateStep ==
    ASSUME AuthInv, NEW p \in au.run, CreateState(p)
    PROVE  AuthInv'
<1> DEFINE s == Ends(au, p)
           new == [token |-> p.n, provider |-> p.arg, at |-> au.now]
<1>0. p.kind = "redirect"
  BY DEF CreateState, At
<1>1. PICK kept \in SUBSET au.states : au' = [s EXCEPT !.states = kept \cup {new}]
  BY DEF CreateState, Fresh
<1>2. AuthSame(au, s, {"run"}) /\ s.run = au.run \ {p}
  BY EndsIs DEF AuthInv, AuthTypeOK
<1>3. new.token = p.n
  OBVIOUS
<1> HIDE DEF s, new
<1>4. AuthSame(au, au', {"run", "states"}) /\ au'.run = au.run \ {p} /\ au'.states = kept \cup {new}
  BY <1>1, <1>2 DEF AuthSame, AuthRec, AuthFields
<1>5. Moves(p, p)
  BY <1>4 DEF Moves, AuthSame, AuthFields, AuthInv, AuthTypeOK
<1>6. KeepsTypes /\ KeepsResets(p, p)
  BY <1>0, <1>4 DEF KeepsTypes, KeepsResets, AuthSame, AuthFields, AuthInv, AuthTypeOK
<1>7. CallsInv'
  BY <1>3, <1>4 DEF CallsInv, StateSingleUse, AuthSame, AuthFields, AuthInv, AuthTypeOK
<1>8. KeepsUsers(p) /\ KeepsLogins(p)
  BY <1>0, <1>4 DEF KeepsUsers, KeepsLogins, AuthSame, AuthFields
<1> QED
  BY <1>5, <1>6, <1>7, <1>8, TypesKept, ResetsKept, UsersKept, LoginsKept DEF AuthInv

\* validate_and_consume removes the state and the expired ones.
LEMMA ConsumeIs ==
    ASSUME NEW s, AuthRec(s), NEW t
    PROVE  /\ AuthSame(s, Consume(s, t), {"states"}) /\ Consume(s, t).states \subseteq s.states
           /\ \A x \in Consume(s, t).states : x.token # t
  BY DEF AuthRec, AuthSame, Consume, Fresh, AuthFields

\* oauth_callback: its state is consumed, and no other call can exchange with it again.
LEMMA ValidateStep ==
    ASSUME AuthInv, NEW p \in au.run, ValidateAndConsume(p)
    PROVE  AuthInv'
<1> DEFINE s == Consume(au, p.arg[1])
           q == [p EXCEPT !.step = "exchange"]
           x == [call |-> p.n, state |-> p.arg, at |-> au.now]
           hit == {y \in Fresh(au.states) : y.token = p.arg[1]}
<1>0. p.kind = "callback" /\ p.step = "state" /\ p.id = NoId
  BY DEF ValidateAndConsume, At, AuthInv, UsersInv
<1>1. /\ AuthSame(au, s, {"states"}) /\ s.states \subseteq au.states
      /\ \A y \in s.states : y.token # p.arg[1]
  BY ConsumeIs DEF AuthInv, AuthTypeOK
<1> HIDE DEF s
<1>2. CASE au' = Ends(s, p)
  <2>1. AuthSame(s, au', {"run"}) /\ au'.run = s.run \ {p}
    BY <1>1, <1>2, EndsIs DEF AuthSame
  <2>2. AuthSame(au, au', {"run", "states"}) /\ au'.run = au.run \ {p} /\ au'.states \subseteq au.states
    BY <1>1, <2>1 DEF AuthSame, AuthFields
  <2>3. Moves(p, p)
    BY <2>2 DEF Moves, AuthSame, AuthFields, AuthInv, AuthTypeOK
  <2>4. KeepsTypes /\ KeepsResets(p, p)
    BY <1>0, <2>2 DEF KeepsTypes, KeepsResets, AuthSame, AuthFields, AuthInv, AuthTypeOK
  <2>5. CallsInv'
    BY <2>2 DEF CallsInv, StateSingleUse, AuthSame, AuthFields, AuthInv
  <2>6. KeepsUsers(p) /\ KeepsLogins(p)
    BY <1>0, <2>2 DEF KeepsUsers, KeepsLogins, Names, AuthSame, AuthFields
  <2> QED
    BY <2>3, <2>4, <2>5, <2>6, TypesKept, ResetsKept, UsersKept, LoginsKept DEF AuthInv
<1>3. CASE hit # {} /\ au' = [Goes(s, p, q) EXCEPT !.exchanges = @ \cup {x}]
  <2>1. HandlerRec(q) /\ q.n = p.n /\ q.kind = p.kind /\ q.arg = p.arg /\ q.id = NoId
    BY <1>0 DEF HandlerRec, HandlerFields, AuthInv, AuthTypeOK
  <2>2. x.call = p.n /\ x.state = p.arg
    OBVIOUS
  <2>3. PICK y \in au.states : y.token = p.arg[1]
    BY <1>3 DEF Fresh
  <2> HIDE DEF q, x, hit
  <2> DEFINE g == Goes(s, p, q)
  <2>4. AuthSame(s, g, {"run"}) /\ g.run = (s.run \ {p}) \cup {q}
    BY <1>1, GoesIs DEF AuthSame
  <2> HIDE DEF g
  <2>5. au' = [g EXCEPT !.exchanges = @ \cup {x}]
    BY <1>3 DEF g
  <2>6. AuthSame(g, au', {"exchanges"}) /\ au'.exchanges = g.exchanges \cup {x}
    BY <2>4, <2>5 DEF AuthSame, AuthRec, AuthFields
  <2>7. /\ AuthSame(au, au', {"run", "states", "exchanges"}) /\ au'.run = (au.run \ {p}) \cup {q}
        /\ au'.states = s.states /\ au'.exchanges = au.exchanges \cup {x}
    BY <1>1, <2>4, <2>6 DEF AuthSame, AuthFields
  <2>8. Moves(p, q)
    BY <2>1, <2>7 DEF Moves, AuthSame, AuthFields
  <2>9. KeepsTypes /\ KeepsResets(p, q)
    BY <1>0, <2>7 DEF KeepsTypes, KeepsResets, AuthSame, AuthFields, AuthInv, AuthTypeOK
  <2>10. CallsInv'
    BY <1>1, <2>1, <2>2, <2>3, <2>7 DEF CallsInv, StateSingleUse, AuthSame, AuthFields, AuthInv
  <2>11. KeepsUsers(q) /\ KeepsLogins(q)
    BY <2>1, <2>2, <2>7 DEF KeepsUsers, KeepsLogins, Names, LoggedIn, AuthSame, AuthFields
  <2> QED
    BY <2>8, <2>9, <2>10, <2>11, TypesKept, ResetsKept, UsersKept, LoginsKept DEF AuthInv
<1> QED
  BY <1>2, <1>3 DEF ValidateAndConsume, s

\* oauth_callback: the user is inserted.
LEMMA UpsertInsertStep ==
    ASSUME AuthInv, NEW p \in au.run, NEW ok \in BOOLEAN, UpsertInsert(p, ok)
    PROVE  AuthInv'
<1> DEFINE q == [p EXCEPT !.step = "sign", !.id = UpsertId(p, ok)]
           s == InsertUser(au, p.email, "")
           new == [email |-> p.email, pw |-> "", id |-> au.nextId]
<1>0. p.kind = "callback" /\ p.step = "insert"
  BY DEF UpsertInsert, At
<1>1. /\ HandlerRec(q) /\ q.n = p.n /\ q.kind = p.kind /\ q.arg = p.arg
      /\ q.email = p.email /\ q.id = UpsertId(p, ok) /\ q.step = "sign"
  <2>1. HandlerRec(p)
    BY DEF AuthInv, AuthTypeOK
  <2> QED
    BY <2>1 DEF HandlerRec, HandlerFields
<1> HIDE DEF q
<1>2. LoggedIn(au.exchanges, p.n)
  BY <1>0 DEF AuthInv, LoginsInv
<1>3. CASE ~(ok /\ ~UserKnown(p.email))
  <2>1. au' = Goes(au, p, q)
    BY <1>3 DEF UpsertInsert, q
  <2>2. q.id = NoId
    BY <1>1, <1>3 DEF UpsertId
  <2> QED
    BY <1>0, <1>1, <1>2, <2>1, <2>2, GoStep DEF Names
<1>4. CASE ok /\ ~UserKnown(p.email)
  <2>1. au' = Goes(s, p, q)
    BY <1>4 DEF UpsertInsert, q
  <2>2. AuthSame(au, s, {"users", "nextId"}) /\ s.users = au.users \cup {new}
    <3>1. AuthRec(au)
      BY DEF AuthInv, AuthTypeOK
    <3> QED
      BY <3>1, InsertUserIs
  <2> HIDE DEF s
  <2>3. AuthSame(s, au', {"run"}) /\ au'.run = (s.run \ {p}) \cup {q}
    <3>1. AuthRec(s)
      BY <2>2 DEF AuthSame
    <3> QED
      BY <2>1, <3>1, GoesIs
  <2>4. new.id = au.nextId /\ new.email = p.email /\ UserRec(new)
    BY DEF UserRec
  <2> HIDE DEF new
  <2>5. AuthSame(au, au', {"run", "users", "nextId"}) /\ au'.run = (au.run \ {p}) \cup {q} /\ au'.users = au.users \cup {new}
    BY <2>2, <2>3 DEF AuthSame, AuthFields
  <2>6. q.id = au.nextId
    BY <1>1, <1>4 DEF UpsertId
  <2>7. Moves(p, q)
    BY <1>1, <2>5 DEF Moves, AuthSame, AuthFields
  <2>8. KeepsTypes /\ KeepsStates /\ KeepsResets(p, q)
    BY <1>0, <2>4, <2>5 DEF KeepsTypes, KeepsStates, KeepsResets, AuthSame, AuthFields, AuthInv, AuthTypeOK
  <2>9. KeepsUsers(q)
    <3>1. au'.tokens = au.tokens /\ \A u \in au.users : u \in au'.users
      BY <2>5 DEF AuthSame, AuthFields
    <3>2. new \in au'.users
      BY <2>5
    <3> QED
      BY <1>1, <2>4, <2>6, <3>1, <3>2 DEF KeepsUsers, Names
  <2>10. KeepsLogins(q)
    <3>1. au'.tokens = au.tokens /\ au'.exchanges = au.exchanges /\ au'.me = au.me
      BY <2>5 DEF AuthSame, AuthFields
    <3> QED
      BY <1>1, <1>2, <3>1 DEF KeepsLogins, LoggedIn
  <2> QED
    BY <2>7, <2>8, <2>9, <2>10, TypesKept, StatesKept, ResetsKept, UsersKept, LoginsKept DEF AuthInv
<1> QED
  BY <1>3, <1>4

\* me_handler accepts an access token.
LEMMA MeStep ==
    ASSUME AuthInv, NEW p \in au.run, Me(p)
    PROVE  AuthInv'
<1>0. p.kind = "me"
  BY DEF Me, At
<1>1. CASE au' = Ends(au, p)
  BY <1>1, EndStep
<1>2. CASE VerifyToken(p.arg) /\ au' = [Ends(au, p) EXCEPT !.me = @ \cup {p.arg}]
  <2> DEFINE s == Ends(au, p)
  <2>1. AuthSame(au, s, {"run"}) /\ s.run = au.run \ {p}
    BY EndsIs DEF AuthInv, AuthTypeOK
  <2> HIDE DEF s
  <2>2. au' = [s EXCEPT !.me = @ \cup {p.arg}]
    BY <1>2 DEF s
  <2>3. AuthSame(au, au', {"run", "me"}) /\ au'.run = au.run \ {p} /\ au'.me = au.me \cup {p.arg}
    BY <2>1, <2>2 DEF AuthSame, AuthRec, AuthFields
  <2>4. p.arg.typ = "access"
    BY <1>2 DEF VerifyToken, Decoded, AuthInv, AuthTypeOK
  <2>5. Moves(p, p)
    BY <2>3 DEF Moves, AuthSame, AuthFields, AuthInv, AuthTypeOK
  <2>6. KeepsTypes /\ KeepsStates /\ KeepsResets(p, p)
    BY <2>3 DEF KeepsTypes, KeepsStates, KeepsResets, AuthSame, AuthFields, AuthInv, AuthTypeOK
  <2>7. KeepsUsers(p) /\ KeepsLogins(p)
    BY <1>0, <2>3, <2>4 DEF KeepsUsers, KeepsLogins, AuthSame, AuthFields
  <2> QED
    BY <2>5, <2>6, <2>7, TypesKept, StatesKept, ResetsKept, UsersKept, LoginsKept DEF AuthInv
<1> QED
  BY <1>1, <1>2 DEF Me

\* A call arrives and gets the next number.
LEMMA StartStep ==
    ASSUME AuthInv, NEW kind, NEW email, NEW pw, NEW arg, NEW step, StartCall(kind, email, pw, arg, step),
           kind = "reset" => step = "find", kind = "callback" => step = "state"
    PROVE  AuthInv'
<1> DEFINE q == [n |-> au.calls + 1, kind |-> kind, email |-> email, pw |-> pw, arg |-> arg,
                 step |-> step, at |-> au.now, id |-> NoId]
<1>1. au' = [au EXCEPT !.calls = @ + 1, !.run = @ \cup {q}]
  BY DEF StartCall
<1>2. HandlerRec(q) /\ q.n = au.calls + 1 /\ q.kind = kind /\ q.step = step /\ q.id = NoId
  BY DEF HandlerRec, HandlerFields
<1> HIDE DEF q
<1>3. AuthSame(au, au', {"calls", "run"}) /\ au'.calls = au.calls + 1 /\ au'.run = au.run \cup {q}
  BY <1>1 DEF AuthSame, AuthRec, AuthFields, AuthInv, AuthTypeOK
<1>4. AuthTypeOK'
  BY <1>2, <1>3 DEF AuthSame, AuthFields, AuthInv, AuthTypeOK
<1>5. CallsInv'
  BY <1>2, <1>3 DEF AuthSame, AuthFields, AuthInv, AuthTypeOK, CallsInv, StateSingleUse
<1>6. ResetsInv' /\ UsersInv' /\ LoginsInv'
  BY <1>2, <1>3 DEF AuthSame, AuthFields, AuthInv, ResetsInv, UsersInv, Names, LoginsInv, LoggedIn
<1> QED
  BY <1>4, <1>5, <1>6 DEF AuthInv

\* Time passes.
LEMMA TickStep ==
    ASSUME AuthInv, Tick
    PROVE  AuthInv'
<1>1. AuthSame(au, au', {"now"}) /\ au'.now = au.now + 1
  BY DEF Tick, AuthSame, AuthRec, AuthFields, AuthInv, AuthTypeOK
<1>2. AuthTypeOK'
  BY <1>1 DEF AuthSame, AuthFields, AuthInv, AuthTypeOK
<1>3. CallsInv' /\ ResetsInv' /\ UsersInv' /\ LoginsInv'
  BY <1>1 DEF AuthSame, AuthFields, AuthInv, CallsInv, StateSingleUse, ResetsInv, UsersInv, LoginsInv
<1> QED
  BY <1>2, <1>3 DEF AuthInv

\* Every step of AuthNext keeps the invariant.
LEMMA AuthStep == AuthInv /\ [AuthNext]_au => AuthInv'
<1> SUFFICES ASSUME AuthInv, [AuthNext]_au PROVE AuthInv'
  OBVIOUS
<1> USE DEF At
<1>1. ASSUME NEW p \in au.run PROVE HandlerRec(p)
  BY DEF AuthInv, AuthTypeOK
<1>2. ASSUME NEW p \in au.run, NEW ok \in BOOLEAN, SignupCheck(p, ok) PROVE AuthInv'
  <2> DEFINE q == [p EXCEPT !.step = "insert"]
  <2>1. HandlerRec(q) /\ q.n = p.n /\ q.kind = p.kind /\ q.arg = p.arg
    BY <1>1 DEF HandlerRec, HandlerFields
  <2> HIDE DEF q
  <2> QED
    BY <1>2, <2>1, EndStep, GoStep DEF SignupCheck, q
<1>3. ASSUME NEW p \in au.run, NEW ok \in BOOLEAN, Login(p, ok) PROVE AuthInv'
  <2>1. CASE UserKnown(p.email) /\ au' = SignToken(Ends(au, p), p.email, User(p.email).id, p.n)
    <3>1. Names(au.users, User(p.email).id, p.email)
      BY <2>1, UserIs DEF Names
    <3> QED
      BY <2>1, <3>1, SignStep
  <2>2. CASE au' = Ends(au, p)
    BY <2>2, EndStep
  <2> QED
    BY <1>3, <2>1, <2>2 DEF Login
<1>4. ASSUME NEW p \in au.run, NEW e \in Emails, Exchange(p, e) PROVE AuthInv'
  <2> DEFINE q == [p EXCEPT !.step = IF au.db THEN "find" ELSE "sign", !.email = e]
  <2>1. HandlerRec(q) /\ q.n = p.n /\ q.kind = p.kind /\ q.arg = p.arg /\ q.id = p.id /\ q.step \notin {"state", "exchange"}
    BY <1>1 DEF HandlerRec, HandlerFields
  <2> HIDE DEF q
  <2>2. p.kind = "callback" /\ p.id = NoId /\ LoggedIn(au.exchanges, p.n)
    BY <1>4 DEF Exchange, AuthInv, UsersInv, LoginsInv
  <2>3. au' = Ends(au, p) \/ au' = Goes(au, p, q)
    BY <1>4 DEF Exchange, q
  <2> QED
    BY <2>1, <2>2, <2>3, EndStep, GoStep DEF Names
<1>5. ASSUME NEW p \in au.run, NEW ok \in BOOLEAN, UpsertFind(p, ok) PROVE AuthInv'
  <2>1. p.kind = "callback" /\ LoggedIn(au.exchanges, p.n) /\ Names(au.users, p.id, p.email)
    BY <1>5 DEF UpsertFind, AuthInv, UsersInv, LoginsInv
  <2>2. ASSUME NEW st \in {"sign", "insert"}, au' = Goes(au, p, [p EXCEPT !.step = st]) PROVE AuthInv'
    <3> DEFINE q == [p EXCEPT !.step = st]
    <3>1. /\ HandlerRec(q) /\ q.n = p.n /\ q.kind = p.kind /\ q.arg = p.arg /\ q.email = p.email
          /\ q.step \notin {"state", "exchange"} /\ q.id = p.id
      BY <1>1 DEF HandlerRec, HandlerFields
    <3> HIDE DEF q
    <3> QED
      BY <2>1, <2>2, <3>1, GoStep DEF q
  <2>3. ASSUME UserKnown(p.email), au' = Goes(au, p, [p EXCEPT !.step = "update", !.id = User(p.email).id])
        PROVE  AuthInv'
    <3> DEFINE q == [p EXCEPT !.step = "update", !.id = User(p.email).id]
    <3>1. /\ HandlerRec(q) /\ q.n = p.n /\ q.kind = p.kind /\ q.arg = p.arg /\ q.email = p.email
          /\ q.step \notin {"state", "exchange"} /\ q.id = User(p.email).id
      BY <1>1 DEF HandlerRec, HandlerFields
    <3> HIDE DEF q
    <3>2. Names(au.users, q.id, q.email)
      BY <2>3, <3>1, UserIs DEF Names
    <3>3. au' = Goes(au, p, q)
      BY <2>3 DEF q
    <3> QED
      BY <2>1, <3>1, <3>2, <3>3, GoStep
  <2> QED
    BY <1>5, <2>2, <2>3 DEF UpsertFind
<1>6. ASSUME NEW p \in au.run, NEW ok \in BOOLEAN, UpsertUpdate(p, ok) PROVE AuthInv'
  <2> DEFINE q == [p EXCEPT !.step = "sign", !.id = IF ok THEN @ ELSE NoId]
  <2>1. p.kind = "callback" /\ LoggedIn(au.exchanges, p.n) /\ Names(au.users, p.id, p.email)
    BY <1>6 DEF UpsertUpdate, AuthInv, UsersInv, LoginsInv
  <2>2. /\ HandlerRec(q) /\ q.n = p.n /\ q.kind = p.kind /\ q.arg = p.arg /\ q.email = p.email
        /\ q.step \notin {"state", "exchange"} /\ q.id \in {p.id, NoId}
    BY ZenonT(60), <1>1 DEF HandlerRec, HandlerFields
  <2> HIDE DEF q
  <2>3. au' = Goes(au, p, q)
    BY <1>6 DEF UpsertUpdate, q
  <2> QED
    BY <2>1, <2>2, <2>3, GoStep DEF Names
<1>7. ASSUME NEW p \in au.run, NEW ok \in BOOLEAN, Refresh(p, ok) PROVE AuthInv'
  <2>1. CASE VerifyRefreshToken(p.arg)
    <3>1. au' = SignBoth(Ends(au, p), p.arg.sub, ResolveUserId(p.arg, ok), p.arg.root)
      BY <1>7, <2>1 DEF Refresh
    <3>2. p.arg \in au.tokens /\ p.arg.typ = "refresh"
      BY <2>1 DEF VerifyRefreshToken, Decoded
    <3>3. LoggedIn(au.exchanges, p.arg.root) /\ Names(au.users, p.arg.id, p.arg.sub)
      BY <3>2 DEF AuthInv, LoginsInv, UsersInv
    <3>4. Names(au.users, ResolveUserId(p.arg, ok), p.arg.sub)
      BY <3>3, UserIs DEF ResolveUserId, Names, NoId
    <3> QED
      BY <3>1, <3>3, <3>4, SignStep
  <2>2. CASE ~VerifyRefreshToken(p.arg)
    BY <1>7, <2>2, EndStep DEF Refresh
  <2> QED
    BY <2>1, <2>2
<1>8. ASSUME NEW p \in au.run, OAuthSign(p) PROVE AuthInv'
  <2>1. LoggedIn(au.exchanges, p.n) /\ Names(au.users, p.id, p.email)
    BY <1>8 DEF OAuthSign, AuthInv, UsersInv, LoginsInv
  <2> QED
    BY <1>8, <2>1, SignStep DEF OAuthSign
<1>9. CASE UNCHANGED au
  BY <1>9 DEF AuthInv, AuthTypeOK, CallsInv, StateSingleUse, ResetsInv, UsersInv, LoginsInv
<1>10. CASE AuthNext
  <2>1. ASSUME NEW e \in Emails, NEW w \in Passwords,
               StartCall("signup", e, w, 0, "check") \/ StartCall("login", e, w, 0, "find")
        PROVE  AuthInv'
    BY <2>1, StartStep
  <2>2. ASSUME NEW e \in Emails, StartCall("forgot", e, "", 0, "store") PROVE AuthInv'
    BY <2>2, StartStep
  <2>3. ASSUME NEW r \in au.resets, NEW w \in Passwords, StartCall("reset", "", w, r.token, "find") PROVE AuthInv'
    BY <2>3, StartStep
  <2>4. ASSUME NEW v \in Providers, StartCall("redirect", "", "", v, "create") PROVE AuthInv'
    BY <2>4, StartStep
  <2>5. ASSUME NEW s \in au.states, NEW v \in Providers, StartCall("callback", "", "", <<s.token, v>>, "state") PROVE AuthInv'
    BY <2>5, StartStep
  <2>6. ASSUME NEW t \in au.tokens, StartCall("refresh", "", "", t, "verify") \/ StartCall("me", "", "", t, "verify")
        PROVE  AuthInv'
    BY <2>6, StartStep
  <2> QED
    BY <1>2, <1>3, <1>4, <1>5, <1>6, <1>7, <1>8, <1>10, <2>1, <2>2, <2>3, <2>4, <2>5, <2>6,
       SignupStep, ForgotStep, ResetFindStep, ResetWriteStep, ResetMarkStep, CreateStateStep, ValidateStep,
       UpsertInsertStep, MeStep, TickStep DEF AuthNext
<1> QED
  BY <1>9, <1>10

\* For any scripts of calls, lifetimes and capacities: a password is written only by a
\* signup or under a reset token issued for that address, an OAuth state is exchanged at
\* most once and by the provider it was issued for, ids in tokens name the user the token
\* is about, and refresh tokens come from a login (the account and OAuth handlers).
THEOREM AuthIsSound == AuthSpec => []AuthSound
<1>1. AuthInit => AuthInv
  <2> SUFFICES ASSUME NEW withDb \in BOOLEAN, NEW k \in Scripts, au = AuthStart(withDb, k) PROVE AuthInv
    BY DEF AuthInit
  <2>1. AuthRec(au)
    BY DEF AuthStart, AuthRec, AuthFields
  <2>2. /\ au.users = {} /\ au.resets = {} /\ au.states = {} /\ au.tokens = {} /\ au.run = {} /\ au.calls = 0
        /\ au.now = 0 /\ au.sets = {} /\ au.exchanges = {} /\ au.me = {}
    BY DEF AuthStart
  <2> QED
    BY <2>1, <2>2 DEF AuthInv, AuthTypeOK, CallsInv, StateSingleUse, ResetsInv, UsersInv, LoginsInv
<1>2. AuthInv => AuthSound
  BY DEF AuthInv, CallsInv, ResetsInv, UsersInv, LoginsInv, Names, LoggedIn,
         AuthSound, PasswordsByOwner, TokensNameTheUser, RefreshFromLogin
<1> QED
  BY <1>1, <1>2, AuthStep, PTL DEF AuthSpec

-----------------------------------------------------------------------------
\* Database calls.

\* The parts of the state, of a connecting thread and of a call.
DbFields == {"pool", "driver", "conn", "call", "permits", "conns", "rows", "pending", "orphans", "log", "bound"}
ConnFields == {"step", "tried", "stored"}
CallFields == {"step", "kind", "n", "i", "ans"}
\* A state of this shape; one that differs from s at most in the parts fs; and one whose
\* calls differ at most in the fields fs of c.
DbRec(s) ==
    /\ s = [f \in DbFields |-> s[f]]
    /\ s.call = [c \in Callers |-> s.call[c]]
    /\ \A c \in Callers : s.call[c] = [f \in CallFields |-> s.call[c][f]]
DbSame(s, t, fs) == DbRec(t) /\ \A f \in DbFields \ fs : t[f] = s[f]
CallSame(s, t, c, fs) ==
    /\ \A d \in Callers \ {c} : t.call[d] = s.call[d]
    /\ \A f \in CallFields \ fs : t.call[c][f] = s.call[c][f]
\* What a call that answers a leaves in the history.
Entry(s, c, a) == [c |-> c, n |-> s.call[c].n, kind |-> s.call[c].kind, ans |-> a]

\* SetCall changes one field.
LEMMA SetCallIs ==
    ASSUME NEW s, DbRec(s), NEW c \in Callers, NEW step
    PROVE  /\ DbSame(s, SetCall(s, c, step), {"call"})
           /\ CallSame(s, SetCall(s, c, step), c, {"step"})
           /\ SetCall(s, c, step).call[c].step = step
  BY DEF DbRec, DbSame, CallSame, SetCall, DbFields, CallFields

\* So does counting the statement up.
LEMMA CountUpIs ==
    ASSUME NEW s, DbRec(s), NEW c \in Callers
    PROVE  /\ DbSame(s, [s EXCEPT !.call[c].i = @ + 1], {"call"})
           /\ CallSame(s, [s EXCEPT !.call[c].i = @ + 1], c, {"i"})
           /\ [s EXCEPT !.call[c].i = @ + 1].call[c].i = s.call[c].i + 1
  BY DEF DbRec, DbSame, CallSame, DbFields, CallFields

\* AnswerCall makes the call idle and notes the answer.
LEMMA AnswerCallIs ==
    ASSUME NEW s, DbRec(s), NEW c \in Callers, NEW a
    PROVE  /\ DbSame(s, AnswerCall(s, c, a), {"call", "log"})
           /\ CallSame(s, AnswerCall(s, c, a), c, {"step", "ans"})
           /\ AnswerCall(s, c, a).call[c].step = "idle"
           /\ AnswerCall(s, c, a).log = s.log \cup {Entry(s, c, a)}
<1> DEFINE t == SetCall(s, c, "idle")
           u == [t EXCEPT !.call[c].ans = a]
<1>1. DbSame(s, t, {"call"}) /\ CallSame(s, t, c, {"step"}) /\ t.call[c].step = "idle"
  BY SetCallIs
<1> HIDE DEF t
<1>2. DbSame(t, u, {"call"}) /\ CallSame(t, u, c, {"ans"})
  BY <1>1 DEF DbRec, DbSame, CallSame, DbFields, CallFields
<1>3. AnswerCall(s, c, a) = [t EXCEPT !.call[c].ans = a, !.log = @ \cup {Entry(s, c, a)}]
  BY DEF AnswerCall, Entry, t
<1>4. [t EXCEPT !.call[c].ans = a, !.log = @ \cup {Entry(s, c, a)}] = [u EXCEPT !.log = @ \cup {Entry(s, c, a)}]
  BY <1>1 DEF DbRec, DbSame, DbFields
<1> HIDE DEF u
<1>5. DbSame(u, AnswerCall(s, c, a), {"log"}) /\ AnswerCall(s, c, a).log = u.log \cup {Entry(s, c, a)}
  BY <1>2, <1>3, <1>4 DEF DbRec, DbSame, DbFields
<1> QED
  BY <1>1, <1>2, <1>5 DEF DbSame, CallSame, DbFields, CallFields

\* Leave does that and returns the permit and, if one is held, the connection.
LEMMA LeaveIs ==
    ASSUME NEW s, DbRec(s), NEW c \in Callers, NEW a
    PROVE  /\ DbSame(s, Leave(s, c, a), {"call", "log", "permits", "conns"})
           /\ CallSame(s, Leave(s, c, a), c, {"step", "ans"})
           /\ Leave(s, c, a).call[c].step = "idle"
           /\ Leave(s, c, a).log = s.log \cup {Entry(s, c, a)}
           /\ Leave(s, c, a).permits = s.permits + 1
           /\ Leave(s, c, a).conns = IF s.call[c].step \in {"run", "commit"} THEN s.conns + 1 ELSE s.conns
<1> DEFINE t == IF s.call[c].step \in {"run", "commit"} THEN [s EXCEPT !.conns = @ + 1] ELSE s
           u == AnswerCall(t, c, a)
<1>1. /\ DbSame(s, t, {"conns"}) /\ CallSame(s, t, c, {})
      /\ t.conns = IF s.call[c].step \in {"run", "commit"} THEN s.conns + 1 ELSE s.conns
  BY DEF DbRec, DbSame, CallSame, DbFields, CallFields
<1> HIDE DEF t
<1>2. /\ DbSame(t, u, {"call", "log"}) /\ CallSame(t, u, c, {"step", "ans"}) /\ u.call[c].step = "idle"
      /\ u.log = t.log \cup {Entry(t, c, a)}
  BY <1>1, AnswerCallIs DEF DbSame
<1> HIDE DEF u
<1>3. Leave(s, c, a) = [u EXCEPT !.permits = @ + 1]
  BY DEF Leave, ReleasePermit, t, u
<1>4. /\ DbSame(u, Leave(s, c, a), {"permits"}) /\ Leave(s, c, a).permits = u.permits + 1
  BY <1>2, <1>3 DEF DbRec, DbSame, DbFields
<1>5. Entry(t, c, a) = Entry(s, c, a)
  BY <1>1 DEF Entry, CallSame, CallFields
<1> QED
  BY <1>1, <1>2, <1>4, <1>5 DEF DbSame, CallSame, DbFields, CallFields

\* The effect of statement i of call n of c.  Statements count from one.
Eff(c, n, i) == [c |-> c, n |-> n, i |-> i]
Places == Nat \ {0}
\* The shape of the state: a call that waits is at its first statement, one that runs is
\* at one of its statements, and only a transaction commits.
DbTypeOK ==
    /\ DbRec(db)
    /\ \A c \in Callers :
         LET k == db.call[c]
         IN  /\ k.n \in Nat /\ k.i \in Nat /\ k.step \in {"idle", "permit", "conn", "run", "commit"}
             /\ k.step \in {"permit", "conn"} => k.i = 1
             /\ k.step = "run" => k.i \in 1 .. Length(k.kind)
             /\ k.step = "commit" => k.kind = "transaction"
    /\ \A e \in db.rows \cup db.pending :
         /\ e.c \in Callers /\ e.n \in Nat /\ e.i \in Places /\ e = Eff(e.c, e.n, e.i)
         /\ e.n <= db.call[e.c].n
\* What a transaction keeps pending is exactly the statements it has executed, and
\* nothing is pending for anyone else.
PendingInv ==
    /\ \A e \in db.pending : /\ db.call[e.c].step \in {"run", "commit"} /\ db.call[e.c].kind = "transaction"
                             /\ e.n = db.call[e.c].n
    /\ \A c \in Callers : db.call[c].step = "run" /\ db.call[c].kind = "transaction" =>
          \A i \in Places : Eff(c, db.call[c].n, i) \in db.pending <=> i < db.call[c].i
    /\ \A c \in Callers : db.call[c].step = "commit" =>
          \A i \in Places : Eff(c, db.call[c].n, i) \in db.pending <=> i <= Statements
\* A running call has in the table exactly the statements it has executed, a transaction
\* nothing.
RunningInv ==
    \A c \in Callers : db.call[c].step # "idle" =>
        \A i \in Places : Eff(c, db.call[c].n, i) \in db.rows <=> db.call[c].kind # "transaction" /\ i < db.call[c].i
\* The table R has nothing of the logged call l; or exactly its first m statements.
Absent(R, l) == \A i \in Places : Eff(l.c, l.n, i) \notin R
FirstOf(R, l, m) == \A i \in Places : Eff(l.c, l.n, i) \in R <=> i <= m
\* Every call that ended has all or nothing, if a transaction, and everything if it
\* answered Ok; it is logged once.
LogInv ==
    /\ \A l \in db.log : /\ l.c \in Callers /\ l.n \in Nat /\ l.n <= db.call[l.c].n
                         /\ l.n = db.call[l.c].n => db.call[l.c].step = "idle"
    /\ \A l, m \in db.log : l.c = m.c /\ l.n = m.n => l = m
    /\ \A l \in db.log : l.kind = "transaction" => Absent(db.rows, l) \/ FirstOf(db.rows, l, Statements)
    /\ \A l \in db.log : l.ans = "ok" => FirstOf(db.rows, l, Length(l.kind))
\* o was sent by the call l, which answered an error, and if it arrives late it completes
\* what the table has of it: the whole transaction, or the next statement.
OrphanOf(R, o, l) ==
    /\ l.ans = "err"
    /\ IF l.kind = "transaction"
         THEN o = {Eff(l.c, l.n, i) : i \in 1 .. Statements} /\ Absent(R, l)
         ELSE \E j \in Places : o = {Eff(l.c, l.n, j)} /\ FirstOf(R, l, j - 1)
\* Every statement in flight after a timeout is such an orphan.
OrphansInv == \A o \in db.orphans : \E l \in db.log : OrphanOf(db.rows, o, l)
\* The part of the invariant about statements and their effects.
DataInv == DbTypeOK /\ PendingInv /\ RunningInv /\ LogInv /\ OrphansInv /\ BatchIsPrefix

\* A call has at least one statement.
LEMMA LengthIs == \A k : Length(k) \in Places /\ (k = "transaction" => Length(k) = Statements)
  BY PoolSizes DEF Length, Manys, Places

\* What DbTypeOK says of one call, and of one effect.
CallTyped(k) ==
    /\ k.n \in Nat /\ k.i \in Nat /\ k.step \in {"idle", "permit", "conn", "run", "commit"}
    /\ k.step \in {"permit", "conn"} => k.i = 1
    /\ k.step = "run" => k.i \in 1 .. Length(k.kind)
    /\ k.step = "commit" => k.kind = "transaction"
EffTyped(call, e) ==
    /\ e.c \in Callers /\ e.n \in Nat /\ e.i \in Places /\ e = Eff(e.c, e.n, e.i)
    /\ e.n <= call[e.c].n

\* DbTypeOK says this of every call and of every effect.
LEMMA TypesAre ==
    ASSUME DbTypeOK
    PROVE  /\ \A c \in Callers : CallTyped(db.call[c])
           /\ \A e \in db.rows \cup db.pending : EffTyped(db.call, e)
<1>1. \A c \in Callers : CallTyped(db.call[c])
  BY DEF DbTypeOK, CallTyped
<1>2. \A e \in db.rows \cup db.pending : EffTyped(db.call, e)
  BY DEF DbTypeOK, EffTyped
<1> QED
  BY <1>1, <1>2

\* It says nothing else.
LEMMA TypesMake ==
    ASSUME DbRec(db'), \A c \in Callers : CallTyped(db'.call[c]),
           \A e \in db'.rows \cup db'.pending : EffTyped(db'.call, e)
    PROVE  DbTypeOK'
  BY DEF DbTypeOK, CallTyped, EffTyped

\* The fields of an effect.
LEMMA EffIs == \A c, n, i : Eff(c, n, i).c = c /\ Eff(c, n, i).n = n /\ Eff(c, n, i).i = i
  BY DEF Eff

\* What a call that ends does to the effects.
Finishes(c, a, o) ==
    /\ DbRec(db') /\ CallSame(db, db', c, {"step", "ans"}) /\ db'.call[c].step = "idle"
    /\ db'.log = db.log \cup {Entry(db, c, a)}
    /\ db'.pending = db.pending \ {e \in db.pending : e.c = c /\ e.n = db.call[c].n}
    /\ db.rows \subseteq db'.rows
    /\ \A e \in db'.rows \ db.rows : e.i \in Places /\ e = Eff(c, db.call[c].n, e.i)
    /\ \A e \in db'.rows \ db.rows : \A i \in 1 .. e.i : Eff(c, db.call[c].n, i) \in db'.rows
    /\ db.call[c].kind = "transaction" => Absent(db'.rows, Entry(db, c, a)) \/ FirstOf(db'.rows, Entry(db, c, a), Statements)
    /\ a = "ok" => FirstOf(db'.rows, Entry(db, c, a), Length(db.call[c].kind))
    /\ db'.orphans \subseteq db.orphans \cup o
    /\ \A x \in o : OrphanOf(db'.rows, x, Entry(db, c, a))

\* A call that ends like that keeps the invariant of the data.
LEMMA FinishStep ==
    ASSUME DataInv, NEW c \in Callers, db.call[c].step # "idle", NEW a, NEW o, Finishes(c, a, o)
    PROVE  DataInv'
<1> DEFINE n == db.call[c].n
           l == Entry(db, c, a)
<1>0. l.c = c /\ l.n = n /\ l.kind = db.call[c].kind /\ l.ans = a
  BY DEF Entry
<1> HIDE DEF l
<1>1. \A d \in Callers : d # c => db'.call[d] = db.call[d]
  BY DEF Finishes, CallSame
<1>2. db'.call[c].n = n /\ db'.call[c].i = db.call[c].i /\ db'.call[c].kind = db.call[c].kind /\ db'.call[c].step = "idle"
  BY DEF Finishes, CallSame, CallFields
<1>3. DbTypeOK'
  <2>1. \A e \in db'.rows \cup db'.pending : e \in db.rows \cup db.pending \/ (e.i \in Places /\ e = Eff(c, n, e.i))
    BY DEF Finishes
  <2>2. \A e \in db'.rows \cup db'.pending :
         /\ e.c \in Callers /\ e.n \in Nat /\ e.i \in Places /\ e = Eff(e.c, e.n, e.i)
         /\ e.n <= db'.call[e.c].n
    BY <1>1, <1>2, <2>1, EffIs DEF DataInv, DbTypeOK
  <2> QED
    BY <1>1, <1>2, <2>2 DEF DataInv, DbTypeOK, Finishes
<1>4. PendingInv'
  <2>1. db'.pending = db.pending \ {e \in db.pending : e.c = c /\ e.n = n}
    BY DEF Finishes
  <2>2. ASSUME NEW e \in db'.pending
        PROVE  db'.call[e.c].step \in {"run", "commit"} /\ db'.call[e.c].kind = "transaction" /\ e.n = db'.call[e.c].n
    <3>1. e \in db.pending /\ ~(e.c = c /\ e.n = n)
      BY <2>1
    <3>2. e.c \in Callers
      BY ZenonT(60), <3>1, TypesAre DEF DataInv, EffTyped
    <3>3. db.call[e.c].step \in {"run", "commit"} /\ db.call[e.c].kind = "transaction" /\ e.n = db.call[e.c].n
      BY ZenonT(60), <3>1 DEF DataInv, PendingInv
    <3>4. db'.call[e.c] = db.call[e.c]
      BY <1>1, <3>1, <3>2, <3>3
    <3> QED
      BY <3>3, <3>4
  <2>3. ASSUME NEW d \in Callers, db'.call[d].step # "idle" PROVE d # c /\ db'.call[d] = db.call[d]
    BY <1>1, <1>2, <2>3
  <2>4. ASSUME NEW d \in Callers, d # c, NEW m, NEW i PROVE Eff(d, m, i) \in db'.pending <=> Eff(d, m, i) \in db.pending
    BY <2>1, <2>4, EffIs
  <2>5. ASSUME NEW d \in Callers, db'.call[d].step = "run" /\ db'.call[d].kind = "transaction", NEW i \in Places
        PROVE  Eff(d, db'.call[d].n, i) \in db'.pending <=> i < db'.call[d].i
    <3>1. d # c /\ db'.call[d] = db.call[d]
      BY <2>3, <2>5
    <3>2. Eff(d, db.call[d].n, i) \in db.pending <=> i < db.call[d].i
      BY <2>5, <3>1 DEF DataInv, PendingInv
    <3> QED
      BY <2>4, <3>1, <3>2
  <2>6. ASSUME NEW d \in Callers, db'.call[d].step = "commit", NEW i \in Places
        PROVE  Eff(d, db'.call[d].n, i) \in db'.pending <=> i <= Statements
    <3>1. d # c /\ db'.call[d] = db.call[d]
      BY <2>3, <2>6
    <3>2. Eff(d, db.call[d].n, i) \in db.pending <=> i <= Statements
      BY <2>6, <3>1 DEF DataInv, PendingInv
    <3> QED
      BY <2>4, <3>1, <3>2
  <2> QED
    BY <2>2, <2>5, <2>6 DEF PendingInv
<1>5. RunningInv'
  BY <1>1, <1>2, EffIs DEF DataInv, RunningInv, Finishes
<1>6. ASSUME NEW m \in db.log
      PROVE  \A i \in Places : Eff(m.c, m.n, i) \in db'.rows <=> Eff(m.c, m.n, i) \in db.rows
  BY EffIs DEF DataInv, LogInv, Finishes
<1>7. LogInv'
  <2>1. \A m \in db'.log : m = l \/ m \in db.log
    BY DEF Finishes, l
  <2>2. \A m \in db.log : ~(m.c = c /\ m.n = n)
    BY DEF DataInv, LogInv
  <2>3. \A m \in db'.log : /\ m.c \in Callers /\ m.n \in Nat /\ m.n <= db'.call[m.c].n
                           /\ m.n = db'.call[m.c].n => db'.call[m.c].step = "idle"
    BY <1>0, <1>1, <1>2, <2>1 DEF DataInv, LogInv, DbTypeOK
  <2>4. \A k, m \in db'.log : k.c = m.c /\ k.n = m.n => k = m
    BY <1>0, <2>1, <2>2 DEF DataInv, LogInv
  <2>5. \A m \in db'.log : m.kind = "transaction" => Absent(db'.rows, m) \/ FirstOf(db'.rows, m, Statements)
    BY <1>0, <1>6, <2>1 DEF DataInv, LogInv, Finishes, Absent, FirstOf, l
  <2>6. \A m \in db'.log : m.ans = "ok" => FirstOf(db'.rows, m, Length(m.kind))
    BY <1>0, <1>6, <2>1 DEF DataInv, LogInv, Finishes, FirstOf, l
  <2> QED
    BY <2>3, <2>4, <2>5, <2>6 DEF LogInv
<1>8. OrphansInv'
  <2> SUFFICES ASSUME NEW x \in db'.orphans PROVE \E m \in db'.log : OrphanOf(db'.rows, x, m)
    BY DEF OrphansInv
  <2>1. CASE x \in o
    BY <2>1 DEF Finishes
  <2>2. CASE x \in db.orphans
    <3>1. PICK m \in db.log : OrphanOf(db.rows, x, m)
      BY <2>2 DEF DataInv, OrphansInv
    <3>2. OrphanOf(db'.rows, x, m)
      BY <1>6, <3>1 DEF OrphanOf, Absent, FirstOf
    <3> QED
      BY <3>2 DEF Finishes
  <2> QED
    BY <2>1, <2>2 DEF Finishes
<1>9. BatchIsPrefix'
  <2> SUFFICES ASSUME NEW e \in db'.rows, NEW i \in 1 .. e.i PROVE [e EXCEPT !.i = i] \in db'.rows
    BY DEF BatchIsPrefix
  <2>1. CASE e \in db.rows
    BY <2>1 DEF DataInv, BatchIsPrefix, Finishes
  <2>2. CASE e \notin db.rows
    <3>1. e = Eff(c, n, e.i) /\ Eff(c, n, i) \in db'.rows
      BY <2>2 DEF Finishes
    <3>2. [e EXCEPT !.i = i] = Eff(c, n, i)
      BY <3>1 DEF Eff
    <3> QED
      BY <3>1, <3>2
  <2> QED
    BY <2>1, <2>2
<1> QED
  BY <1>3, <1>4, <1>5, <1>7, <1>8, <1>9 DEF DataInv

\* What the call c has pending; and a state s in which the call is ready to end.
Own(c) == {e \in db.pending : e.c = c /\ e.n = db.call[c].n}
Ending(s, c, a, o) ==
    /\ DbSame(db, s, {"rows", "pending", "orphans"})
    /\ s.pending = db.pending \ Own(c)
    /\ db.rows \subseteq s.rows
    /\ \A e \in s.rows \ db.rows : e.i \in Places /\ e = Eff(c, db.call[c].n, e.i)
    /\ \A e \in s.rows \ db.rows : \A i \in 1 .. e.i : Eff(c, db.call[c].n, i) \in s.rows
    /\ db.call[c].kind = "transaction" => Absent(s.rows, Entry(db, c, a)) \/ FirstOf(s.rows, Entry(db, c, a), Statements)
    /\ a = "ok" => FirstOf(s.rows, Entry(db, c, a), Length(db.call[c].kind))
    /\ s.orphans \subseteq db.orphans \cup o
    /\ \A x \in o : OrphanOf(s.rows, x, Entry(db, c, a))

\* Leaving from such a state keeps the invariant of the data.
LEMMA LeaveStep ==
    ASSUME DataInv, NEW c \in Callers, db.call[c].step # "idle", NEW s, NEW a, NEW o, Ending(s, c, a, o),
           db' = Leave(s, c, a) \/ db' = AnswerCall(s, c, a)
    PROVE  DataInv'
<1>1. DbRec(s) /\ s.call = db.call /\ s.log = db.log
  BY DEF Ending, DbSame, DbFields
<1>2. /\ DbSame(s, db', {"call", "log", "permits", "conns"})
      /\ CallSame(s, db', c, {"step", "ans"}) /\ db'.call[c].step = "idle"
      /\ db'.log = s.log \cup {Entry(s, c, a)}
  BY <1>1, LeaveIs, AnswerCallIs DEF DbSame
<1>3. Entry(s, c, a) = Entry(db, c, a)
  BY <1>1 DEF Entry
<1>4. db'.rows = s.rows /\ db'.pending = s.pending /\ db'.orphans = s.orphans /\ DbRec(db')
  BY <1>2 DEF DbSame, DbFields
<1>5. Finishes(c, a, o)
  BY <1>1, <1>2, <1>3, <1>4 DEF Finishes, Ending, CallSame, Own
<1> QED
  BY <1>5, FinishStep

\* The rows of a running transaction: none yet.
LEMMA NoRowsYet ==
    ASSUME DataInv, NEW c \in Callers, db.call[c].step # "idle", NEW a,
           db.call[c].kind = "transaction" \/ db.call[c].step \in {"permit", "conn"}
    PROVE  Absent(db.rows, Entry(db, c, a))
  BY DEF DataInv, DbTypeOK, RunningInv, Absent, Entry, Places

\* A rollback drops what is pending.
LEMMA RollbackIs ==
    ASSUME NEW s, DbRec(s), NEW c \in Callers
    PROVE  DbSame(s, Rollback(s, c), {"pending"}) /\ Rollback(s, c).pending = s.pending \ Of(s.pending, c)
  BY DEF DbRec, DbSame, DbFields, Rollback

\* A call may end with an error after a rollback.
LEMMA NothingDone ==
    ASSUME DataInv, NEW c \in Callers, db.call[c].step # "idle", NEW a, a # "ok", NEW s,
           DbSame(db, s, {"pending"}), s.pending = db.pending \ Own(c)
    PROVE  Ending(s, c, a, {})
<1>1. s.rows = db.rows /\ s.orphans = db.orphans /\ DbSame(db, s, {"rows", "pending", "orphans"})
  BY DEF DbSame, DbFields
<1> QED
  BY <1>1, NoRowsYet DEF Ending

\* Before the first statement nothing is pending.
LEMMA NothingPending ==
    ASSUME DataInv, NEW c \in Callers, db.call[c].step \notin {"run", "commit"} \/ db.call[c].kind # "transaction"
    PROVE  Own(c) = {}
  BY DEF DataInv, PendingInv, Own

\* A call that got no permit or no connection ends.
LEMMA RefusedStep ==
    ASSUME DataInv, NEW c \in Callers, db.call[c].step \in {"permit", "conn"},
           db' = AnswerCall(db, c, "err") \/ db' = Leave(db, c, "err")
    PROVE  DataInv'
<1>1. DbSame(db, db, {"pending"}) /\ db.pending = db.pending \ Own(c)
  BY NothingPending DEF DbSame, DataInv, DbTypeOK
<1>2. Ending(db, c, "err", {})
  BY <1>1, NothingDone
<1> QED
  BY <1>2, LeaveStep

\* A statement is executed into the transaction or into the table.
LEMMA ExecutedIs ==
    ASSUME DbTypeOK, NEW c \in Callers
    PROVE  /\ DbSame(db, Executed(c), {"rows", "pending"})
           /\ db.call[c].kind = "transaction" =>
                /\ Executed(c).rows = db.rows
                /\ Executed(c).pending = db.pending \cup {Eff(c, db.call[c].n, db.call[c].i)}
           /\ db.call[c].kind # "transaction" =>
                /\ Executed(c).pending = db.pending
                /\ Executed(c).rows = db.rows \cup {Eff(c, db.call[c].n, db.call[c].i)}
<1>1. Effect(c, db.call[c].i) = Eff(c, db.call[c].n, db.call[c].i)
  BY DEF Effect, Eff
<1> QED
  BY <1>1 DEF DbTypeOK, DbRec, DbSame, DbFields, Executed

\* The statement is executed, and the call goes on with the next or to the commit.
LEMMA AdvanceStep ==
    ASSUME DataInv, NEW c \in Callers, db.call[c].step = "run",
           \/ db.call[c].i < Length(db.call[c].kind) /\ db' = [Executed(c) EXCEPT !.call[c].i = @ + 1]
           \/ /\ ~(db.call[c].i < Length(db.call[c].kind)) /\ db.call[c].kind = "transaction"
              /\ db' = SetCall(Executed(c), c, "commit")
    PROVE  DataInv'
<1> DEFINE s == Executed(c)
           k == db.call[c]
           e0 == Eff(c, k.n, k.i)
<1>1. /\ DbSame(db, s, {"rows", "pending"})
      /\ k.kind = "transaction" => s.rows = db.rows /\ s.pending = db.pending \cup {e0}
      /\ k.kind # "transaction" => s.pending = db.pending /\ s.rows = db.rows \cup {e0}
  BY ExecutedIs DEF DataInv
<1> HIDE DEF s
<1>2. s.call = db.call /\ DbRec(s) /\ s.log = db.log /\ s.orphans = db.orphans
  BY <1>1 DEF DbSame, DbFields
<1>3. /\ DbSame(s, db', {"call"}) /\ CallSame(s, db', c, {"step", "i"})
      /\ \/ k.i < Length(k.kind) /\ db'.call[c].step = "run" /\ db'.call[c].i = k.i + 1
         \/ /\ ~(k.i < Length(k.kind)) /\ k.kind = "transaction"
            /\ db'.call[c].step = "commit" /\ db'.call[c].i = k.i
  <2>1. CASE k.i < Length(k.kind) /\ db' = [s EXCEPT !.call[c].i = @ + 1]
    <3>1. DbSame(s, db', {"call"}) /\ CallSame(s, db', c, {"i"}) /\ db'.call[c].i = s.call[c].i + 1
      BY ZenonT(60), <1>2, <2>1, CountUpIs
    <3>2. CallSame(s, db', c, {"step", "i"}) /\ db'.call[c].step = s.call[c].step
      BY <3>1 DEF CallSame, CallFields
    <3> QED
      BY <1>2, <2>1, <3>1, <3>2
  <2>2. CASE ~(k.i < Length(k.kind)) /\ k.kind = "transaction" /\ db' = SetCall(s, c, "commit")
    BY <1>2, <2>2, SetCallIs DEF DbSame, CallSame, DbFields, CallFields
  <2> QED
    BY <2>1, <2>2 DEF s
<1>4. \A d \in Callers : d # c => db'.call[d] = db.call[d]
  BY <1>2, <1>3 DEF CallSame
<1>5. db'.call[c].n = k.n /\ db'.call[c].kind = k.kind
  BY <1>2, <1>3 DEF CallSame, CallFields
<1>6. /\ DbRec(db') /\ db'.log = db.log /\ db'.orphans = db.orphans
      /\ db'.rows = s.rows /\ db'.pending = s.pending
  BY <1>2, <1>3 DEF DbSame, DbFields
<1>7. /\ k.i \in Places /\ k.n \in Nat /\ k.i <= Length(k.kind) /\ Length(k.kind) \in Places
      /\ k.kind = "transaction" => Length(k.kind) = Statements
  BY LengthIs DEF DataInv, DbTypeOK, Places
<1>8. e0.c = c /\ e0.n = k.n /\ e0.i = k.i /\ e0 = Eff(e0.c, e0.n, e0.i)
  BY EffIs DEF Eff
<1>9. \A d, n, i, j : Eff(d, n, i) = Eff(c, k.n, j) => d = c /\ n = k.n /\ i = j
  BY EffIs
<1> HIDE DEF e0
<1>10. DbTypeOK'
  <2>1. \A e \in db'.rows \cup db'.pending :
         /\ e.c \in Callers /\ e.n \in Nat /\ e.i \in Places /\ e = Eff(e.c, e.n, e.i)
         /\ e.n <= db'.call[e.c].n
    <3> SUFFICES ASSUME NEW e \in db'.rows \cup db'.pending PROVE EffTyped(db'.call, e)
      BY DEF EffTyped
    <3>1. e = e0 \/ e \in db.rows \cup db.pending
      BY <1>1, <1>6
    <3>2. CASE e = e0
      <4>1. k.n <= k.n
        BY <1>7
      <4> QED
        BY <1>5, <1>7, <1>8, <3>2, <4>1 DEF EffTyped
    <3>3. CASE e \in db.rows \cup db.pending
      <4>1. EffTyped(db.call, e)
        BY ZenonT(60), <3>3, TypesAre DEF DataInv
      <4>2. db'.call[e.c].n = db.call[e.c].n
        BY <1>4, <1>5, <4>1 DEF EffTyped
      <4> QED
        BY <4>1, <4>2 DEF EffTyped
    <3> QED
      BY <3>1, <3>2, <3>3
  <2>2. ASSUME NEW d \in Callers PROVE CallTyped(db'.call[d])
    <3>1. CallTyped(db.call[d])
      BY ZenonT(60), TypesAre DEF DataInv
    <3>2. CASE d # c
      BY <1>4, <3>1, <3>2
    <3>3. CASE d = c
      <4>1. k.i \in Nat /\ k.i + 1 \in Nat /\ (k.i < Length(k.kind) => k.i + 1 \in 1 .. Length(k.kind))
        BY <1>7 DEF Places
      <4> QED
        BY <1>3, <1>5, <1>7, <3>3, <4>1 DEF CallTyped
    <3> QED
      BY <3>2, <3>3
  <2>3. \A e \in db'.rows \cup db'.pending : EffTyped(db'.call, e)
    BY ZenonT(60), <2>1 DEF EffTyped
  <2> QED
    BY ZenonT(60), <1>6, <2>2, <2>3, TypesMake
<1>11. PendingInv'
  <2>1. \A e \in db'.pending : /\ db'.call[e.c].step \in {"run", "commit"} /\ db'.call[e.c].kind = "transaction"
                               /\ e.n = db'.call[e.c].n
    <3> SUFFICES ASSUME NEW e \in db'.pending
                 PROVE  db'.call[e.c].step \in {"run", "commit"} /\ db'.call[e.c].kind = "transaction" /\ e.n = db'.call[e.c].n
      OBVIOUS
    <3>1. e \in db.pending \/ (e = e0 /\ k.kind = "transaction")
      BY <1>1, <1>6
    <3>2. db'.call[c].step \in {"run", "commit"}
      BY <1>3
    <3>3. CASE e = e0 /\ k.kind = "transaction"
      BY <1>5, <1>8, <3>2, <3>3
    <3>4. CASE e \in db.pending
      <4>1. e.c \in Callers
        BY ZenonT(60), <3>4, TypesAre DEF DataInv, EffTyped
      <4>2. db.call[e.c].step \in {"run", "commit"} /\ db.call[e.c].kind = "transaction" /\ e.n = db.call[e.c].n
        BY ZenonT(60), <3>4 DEF DataInv, PendingInv
      <4> QED
        BY <1>4, <1>5, <3>2, <4>1, <4>2
    <3> QED
      BY <3>1, <3>3, <3>4
  <2>2. ASSUME NEW d \in Callers, d # c, NEW n, NEW i PROVE Eff(d, n, i) \in db'.pending <=> Eff(d, n, i) \in db.pending
    BY <1>1, <1>6, <1>9, <2>2 DEF e0
  <2>3. k.kind = "transaction" => \A i \in Places : Eff(c, k.n, i) \in db'.pending <=> i <= k.i
    BY <1>1, <1>6, <1>7, <1>9 DEF DataInv, PendingInv, e0, Places
  <2>4. ASSUME NEW d \in Callers, db'.call[d].step = "run", db'.call[d].kind = "transaction", NEW i \in Places
        PROVE  Eff(d, db'.call[d].n, i) \in db'.pending <=> i < db'.call[d].i
    <3>1. CASE d = c
      BY <1>3, <1>5, <1>7, <2>3, <2>4, <3>1 DEF Places
    <3>2. CASE d # c
      BY <1>4, <2>2, <2>4, <3>2 DEF DataInv, PendingInv
    <3> QED
      BY <3>1, <3>2
  <2>5. ASSUME NEW d \in Callers, db'.call[d].step = "commit", NEW i \in Places
        PROVE  Eff(d, db'.call[d].n, i) \in db'.pending <=> i <= Statements
    <3>1. CASE d = c
      BY <1>3, <1>5, <1>7, <2>3, <2>5, <3>1 DEF Places
    <3>2. CASE d # c
      BY <1>4, <2>2, <2>5, <3>2 DEF DataInv, PendingInv
    <3> QED
      BY <3>1, <3>2
  <2> QED
    BY <2>1, <2>4, <2>5 DEF PendingInv
<1>12. ASSUME NEW d, NEW n, d # c \/ n # k.n, NEW i PROVE Eff(d, n, i) \in db'.rows <=> Eff(d, n, i) \in db.rows
  BY <1>1, <1>6, <1>9, <1>12 DEF e0
<1>13. RunningInv'
  <2> SUFFICES ASSUME NEW d \in Callers, db'.call[d].step # "idle", NEW i \in Places
               PROVE  Eff(d, db'.call[d].n, i) \in db'.rows <=> db'.call[d].kind # "transaction" /\ i < db'.call[d].i
    BY DEF RunningInv
  <2>1. CASE d = c
    BY <1>1, <1>3, <1>5, <1>6, <1>7, <1>9, <2>1 DEF DataInv, RunningInv, e0, Places
  <2>2. CASE d # c
    BY <1>4, <1>12, <2>2 DEF DataInv, RunningInv
  <2> QED
    BY <2>1, <2>2
<1>14. ASSUME NEW m \in db.log, NEW i PROVE Eff(m.c, m.n, i) \in db'.rows <=> Eff(m.c, m.n, i) \in db.rows
  BY <1>12 DEF DataInv, LogInv
<1>15. LogInv'
  <2>1. \A m \in db'.log : /\ m.c \in Callers /\ m.n \in Nat /\ m.n <= db'.call[m.c].n
                           /\ m.n = db'.call[m.c].n => db'.call[m.c].step = "idle"
    BY <1>4, <1>5, <1>6 DEF DataInv, LogInv
  <2> QED
    BY <1>6, <1>14, <2>1 DEF DataInv, LogInv, Absent, FirstOf
<1>16. OrphansInv'
  BY <1>6, <1>14 DEF DataInv, OrphansInv, OrphanOf, Absent, FirstOf
<1>17. BatchIsPrefix'
  <2> SUFFICES ASSUME NEW e \in db'.rows, NEW i \in 1 .. e.i PROVE [e EXCEPT !.i = i] \in db'.rows
    BY DEF BatchIsPrefix
  <2>1. CASE e \in db.rows
    BY <1>1, <1>6, <2>1 DEF DataInv, BatchIsPrefix
  <2>2. CASE e \notin db.rows
    <3>1. e = e0 /\ k.kind # "transaction"
      BY <1>1, <1>6, <2>2
    <3>2. [e EXCEPT !.i = i] = Eff(c, k.n, i)
      BY <3>1 DEF e0, Eff
    <3>3. i \in Places /\ i <= k.i
      BY <1>7, <1>8, <3>1 DEF Places
    <3>4. db'.rows = db.rows \cup {e0}
      BY <1>1, <1>6, <3>1
    <3>5. CASE i = k.i
      BY <3>2, <3>4, <3>5 DEF e0
    <3>6. CASE i # k.i
      <4>1. i < k.i
        BY <1>7, <3>3, <3>6 DEF Places
      <4>2. Eff(c, k.n, i) \in db.rows
        BY <3>1, <3>3, <4>1 DEF DataInv, RunningInv
      <4> QED
        BY <3>2, <3>4, <4>2
    <3> QED
      BY <3>5, <3>6
  <2> QED
    BY <2>1, <2>2
<1> QED
  BY <1>10, <1>11, <1>13, <1>15, <1>16, <1>17 DEF DataInv

\* The statement was executed: the call ends, with what it has done so far undone
\* or, outside of a transaction, left.
LEMMA ExecutedEnds ==
    ASSUME DataInv, NEW c \in Callers, db.call[c].step = "run", NEW a, NEW s,
           DbSame(db, s, {"rows", "pending"}), s.pending = db.pending \ Own(c),
           IF db.call[c].kind = "transaction"
             THEN s.rows = db.rows /\ a # "ok"
             ELSE /\ s.rows = db.rows \cup {Eff(c, db.call[c].n, db.call[c].i)}
                  /\ a = "ok" => db.call[c].i = Length(db.call[c].kind)
    PROVE  Ending(s, c, a, {})
<1> DEFINE k == db.call[c]
<1>0. s.orphans = db.orphans /\ DbSame(db, s, {"rows", "pending", "orphans"})
  BY DEF DbSame, DbFields
<1>1. CASE k.kind = "transaction"
  BY <1>0, <1>1, NoRowsYet DEF Ending
<1>2. CASE k.kind # "transaction"
  <2>1. k.i \in Places /\ k.n \in Nat
    BY DEF DataInv, DbTypeOK, Places
  <2>2. \A i \in Places : Eff(c, k.n, i) \in s.rows <=> i <= k.i
    BY <1>2, <2>1, EffIs DEF DataInv, RunningInv, Places
  <2>3. \A e \in s.rows \ db.rows : e = Eff(c, k.n, k.i) /\ e.i = k.i
    BY <1>2, EffIs
  <2>4. \A e \in s.rows \ db.rows : \A i \in 1 .. e.i : Eff(c, k.n, i) \in s.rows
    BY <2>1, <2>2, <2>3 DEF Places
  <2>5. a = "ok" => FirstOf(s.rows, Entry(db, c, a), Length(k.kind))
    BY <1>2, <2>2 DEF FirstOf, Entry
  <2> QED
    BY <1>0, <1>2, <2>1, <2>3, <2>4, <2>5 DEF Ending
<1> QED
  BY <1>1, <1>2

\* What the code drops or commits is what the call has pending.
LEMMA OfIsOwn ==
    ASSUME DataInv, NEW c \in Callers
    PROVE  /\ Of(db.pending, c) = Own(c)
           /\ \A i : Of(db.pending \cup {Eff(c, db.call[c].n, i)}, c) = Own(c) \cup {Eff(c, db.call[c].n, i)}
  BY EffIs DEF Of, Own

\* A statement is executed, refused, or fails.
LEMMA StatementStep ==
    ASSUME DataInv, NEW c \in Callers, NEW out \in {"ok", "rows", "fails"}, Statement(c, out)
    PROVE  DataInv'
<1> DEFINE k == db.call[c]
           s == Executed(c)
<1>0. k.step = "run" /\ DbTypeOK
  BY DEF Statement, DataInv
<1>1. /\ DbSame(db, s, {"rows", "pending"})
      /\ k.kind = "transaction" => s.rows = db.rows /\ s.pending = db.pending \cup {Eff(c, k.n, k.i)}
      /\ k.kind # "transaction" => s.pending = db.pending /\ s.rows = db.rows \cup {Eff(c, k.n, k.i)}
  BY <1>0, ExecutedIs
<1>2. k.i \in Places /\ Length(k.kind) \in Places /\ k.i <= Length(k.kind)
  BY <1>0, LengthIs DEF DbTypeOK, Places
<1>3. s.call = db.call
  BY <1>1 DEF DbSame, DbFields
<1>4. CASE out = "ok"
  <2>1. db' = NextStatement(s, c)
    BY <1>4 DEF Statement
  <2>2. CASE k.i < Length(k.kind) \/ k.kind = "transaction"
    BY <1>0, <1>3, <2>1, <2>2, AdvanceStep DEF NextStatement
  <2>3. CASE ~(k.i < Length(k.kind)) /\ k.kind # "transaction"
    <3>1. db' = Leave(s, c, "ok")
      BY <1>3, <2>1, <2>3 DEF NextStatement
    <3>2. s.pending = db.pending \ Own(c)
      BY <1>1, <2>3, NothingPending
    <3>3. k.i = Length(k.kind)
      BY <1>2, <2>3 DEF Places
    <3> HIDE DEF s
    <3>4. Ending(s, c, "ok", {})
      BY <1>0, <1>1, <2>3, <3>2, <3>3, ExecutedEnds
    <3> QED
      BY <1>0, <3>1, <3>4, LeaveStep
  <2> QED
    BY <2>2, <2>3
<1>5. CASE out = "rows"
  <2> DEFINE t == Rollback(s, c)
  <2>1. db' = Leave(t, c, "err")
    BY <1>5 DEF Statement
  <2>2. DbSame(s, t, {"pending"}) /\ t.pending = s.pending \ Of(s.pending, c)
    BY <1>1, RollbackIs DEF DbSame
  <2> HIDE DEF t
  <2>3. DbSame(db, t, {"rows", "pending"}) /\ t.rows = s.rows
    BY <1>1, <2>2 DEF DbSame, DbFields
  <2>4. t.pending = db.pending \ Own(c)
    <3>1. CASE k.kind = "transaction"
      <4>1. Eff(c, k.n, k.i) \notin db.pending
        BY <1>0, <1>2, <3>1 DEF DataInv, PendingInv, Places
      <4> QED
        BY <1>1, <2>2, <3>1, <4>1, OfIsOwn
    <3>2. CASE k.kind # "transaction"
      BY <1>1, <2>2, <3>2, OfIsOwn
    <3> QED
      BY <3>1, <3>2
  <2>5. Ending(t, c, "err", {})
    BY <1>0, <1>1, <2>3, <2>4, ExecutedEnds
  <2> QED
    BY <1>0, <2>1, <2>5, LeaveStep
<1>6. CASE out = "fails"
  <2> DEFINE t == Rollback(db, c)
  <2>1. db' = Leave(t, c, "err")
    BY <1>6 DEF Statement
  <2>2. DbSame(db, t, {"pending"}) /\ t.pending = db.pending \ Own(c)
    BY <1>0, RollbackIs, OfIsOwn DEF DbTypeOK
  <2> HIDE DEF t
  <2>3. Ending(t, c, "err", {})
    BY <1>0, <2>2, NothingDone
  <2> QED
    BY <1>0, <2>1, <2>3, LeaveStep
<1> QED
  BY <1>4, <1>5, <1>6

\* A commit puts the whole transaction into the table, or fails and leaves nothing.
LEMMA CommitStep ==
    ASSUME DataInv, NEW c \in Callers, NEW ok \in BOOLEAN, Commit(c, ok)
    PROVE  DataInv'
<1> DEFINE k == db.call[c]
<1>0. k.step = "commit" /\ k.kind = "transaction" /\ DbRec(db)
  BY DEF Commit, DataInv, DbTypeOK
<1>1. CASE ~ok
  <2> DEFINE t == Rollback(db, c)
  <2>1. db' = Leave(t, c, "err")
    BY <1>1 DEF Commit
  <2>2. DbSame(db, t, {"pending"}) /\ t.pending = db.pending \ Own(c)
    BY <1>0, RollbackIs, OfIsOwn
  <2> HIDE DEF t
  <2>3. Ending(t, c, "err", {})
    BY <1>0, <2>2, NothingDone
  <2> QED
    BY <1>0, <2>1, <2>3, LeaveStep
<1>2. CASE ok
  <2> DEFINE t == CommitAll(c)
  <2>1. db' = Leave(t, c, "ok")
    BY <1>2 DEF Commit
  <2>2. DbSame(db, t, {"rows", "pending"}) /\ t.pending = db.pending \ Own(c) /\ t.rows = db.rows \cup Own(c)
    BY <1>0, OfIsOwn DEF CommitAll, DbRec, DbSame, DbFields
  <2> HIDE DEF t
  <2>3. t.orphans = db.orphans /\ DbSame(db, t, {"rows", "pending", "orphans"})
    BY <2>2 DEF DbSame, DbFields
  <2>4. \A e \in Own(c) : e.i \in Places /\ e = Eff(c, k.n, e.i)
    BY DEF Own, DataInv, DbTypeOK
  <2>5. \A i \in Places : Eff(c, k.n, i) \in t.rows <=> i <= Statements
    <3>1. \A i \in Places : Eff(c, k.n, i) \in Own(c) <=> i <= Statements
      BY <1>0, EffIs DEF Own, DataInv, PendingInv
    <3>2. \A i \in Places : Eff(c, k.n, i) \notin db.rows
      BY <1>0 DEF DataInv, RunningInv
    <3> QED
      BY <2>2, <3>1, <3>2
  <2>6. \A e \in t.rows \ db.rows : \A i \in 1 .. e.i : Eff(c, k.n, i) \in t.rows
    <3> SUFFICES ASSUME NEW e \in t.rows \ db.rows, NEW i \in 1 .. e.i PROVE Eff(c, k.n, i) \in t.rows
      OBVIOUS
    <3>1. e.i \in Places /\ e = Eff(c, k.n, e.i)
      BY <2>2, <2>4
    <3>2. e.i <= Statements
      BY <2>5, <3>1
    <3>3. i \in Places /\ i <= Statements
      BY <3>1, <3>2, PoolSizes DEF Places
    <3> QED
      BY <2>5, <3>3
  <2>7. FirstOf(t.rows, Entry(db, c, "ok"), Statements) /\ Length(k.kind) = Statements
    BY <1>0, <2>5, LengthIs DEF FirstOf, Entry
  <2>8. Ending(t, c, "ok", {})
    BY <2>2, <2>3, <2>4, <2>6, <2>7 DEF Ending
  <2> QED
    BY <1>0, <2>1, <2>8, LeaveStep
<1> QED
  BY <1>1, <1>2

\* The timeout drops the call: what was sent becomes an orphan.
LEMMA TimeoutStep ==
    ASSUME DataInv, NEW c \in Callers, QueryTimeout(c)
    PROVE  DataInv'
<1> DEFINE k == db.call[c]
           t == Rollback(db, c)
           o == {InFlight(c)} \ {{}}
           s == [t EXCEPT !.orphans = @ \cup o]
           l == Entry(db, c, "err")
<1>0. k.step \in {"conn", "run", "commit"} /\ DbRec(db) /\ db' = Leave(s, c, "err")
  BY DEF QueryTimeout, DataInv, DbTypeOK
<1>1. DbSame(db, t, {"pending"}) /\ t.pending = db.pending \ Own(c)
  BY <1>0, RollbackIs, OfIsOwn
<1> HIDE DEF t
<1>2. DbSame(t, s, {"orphans"}) /\ s.orphans = t.orphans \cup o
  BY <1>1 DEF DbSame, DbRec, DbFields
<1> HIDE DEF s
<1>3. /\ DbSame(db, s, {"rows", "pending", "orphans"}) /\ s.rows = db.rows /\ s.pending = db.pending \ Own(c)
      /\ s.orphans = db.orphans \cup o
  BY <1>1, <1>2 DEF DbSame, DbFields
<1>4. l.c = c /\ l.n = k.n /\ l.kind = k.kind /\ l.ans = "err"
  BY DEF Entry
<1>5. ASSUME NEW x \in o PROVE OrphanOf(db.rows, x, l)
  <2>1. CASE k.step = "commit"
    <3>1. k.kind = "transaction" /\ x = Own(c)
      BY <1>5, <2>1, OfIsOwn DEF InFlight, DataInv, DbTypeOK
    <3>2. \A i \in Places : Eff(c, k.n, i) \in Own(c) <=> i <= Statements
      BY <2>1, EffIs DEF Own, DataInv, PendingInv
    <3>3. \A e \in Own(c) : e.i \in Places /\ e = Eff(c, k.n, e.i)
      BY DEF Own, DataInv, DbTypeOK
    <3>4. Own(c) = {Eff(c, k.n, i) : i \in 1 .. Statements}
      BY <3>2, <3>3, PoolSizes DEF Places
    <3>5. Absent(db.rows, l)
      BY <1>0, <3>1, NoRowsYet
    <3> HIDE DEF l
    <3> QED
      BY <1>4, <3>1, <3>4, <3>5 DEF OrphanOf
  <2>2. CASE k.step # "commit"
    <3>1. k.step = "run" /\ k.kind # "transaction" /\ x = {Effect(c, k.i)}
      BY <1>5, <2>2 DEF InFlight
    <3>2. Effect(c, k.i) = Eff(c, k.n, k.i)
      BY DEF Effect, Eff
    <3>3. k.i \in Places
      BY <3>1 DEF DataInv, DbTypeOK, Places
    <3>4. FirstOf(db.rows, l, k.i - 1)
      <4>1. \A i \in Places : Eff(c, k.n, i) \in db.rows <=> i < k.i
        BY <3>1 DEF DataInv, RunningInv
      <4>2. \A i \in Places : i < k.i <=> i <= k.i - 1
        BY <3>3 DEF Places
      <4> QED
        BY <1>4, <4>1, <4>2 DEF FirstOf
    <3> HIDE DEF l
    <3> QED
      BY <1>4, <3>1, <3>2, <3>3, <3>4 DEF OrphanOf
  <2> QED
    BY <2>1, <2>2
<1>6. k.kind = "transaction" => Absent(db.rows, l)
  BY <1>0, NoRowsYet
<1> HIDE DEF o, l
<1>7. Ending(s, c, "err", o)
  BY <1>3, <1>5, <1>6 DEF Ending, l
<1> QED
  BY <1>0, <1>7, LeaveStep

\* Steps that leave the data alone.
LEMMA DataSame ==
    ASSUME DataInv, DbSame(db, db', {"conn", "pool", "driver", "bound", "permits", "conns"})
    PROVE  DataInv'
<1>1. /\ DbRec(db') /\ db'.call = db.call /\ db'.rows = db.rows /\ db'.pending = db.pending
      /\ db'.orphans = db.orphans /\ db'.log = db.log
  BY DEF DbSame, DbFields
<1> QED
  <2>1. DbTypeOK'
    BY <1>1 DEF DataInv, DbTypeOK
  <2>2. PendingInv' /\ RunningInv'
    BY <1>1 DEF DataInv, PendingInv, RunningInv
  <2>3. LogInv' /\ OrphansInv'
    BY <1>1 DEF DataInv, LogInv, OrphansInv
  <2>4. BatchIsPrefix'
    BY <1>1 DEF DataInv, BatchIsPrefix
  <2> QED
    BY <2>1, <2>2, <2>3, <2>4 DEF DataInv

\* A permit or a connection was got.
LEMMA GotStep ==
    ASSUME DataInv, NEW c \in Callers, DbSame(db, db', {"call", "permits", "conns"}), CallSame(db, db', c, {"step"}),
           \/ db.call[c].step = "permit" /\ db'.call[c].step = "conn"
           \/ db.call[c].step = "conn" /\ db'.call[c].step = "run"
    PROVE  DataInv'
<1>1. /\ DbRec(db') /\ db'.rows = db.rows /\ db'.pending = db.pending
      /\ db'.orphans = db.orphans /\ db'.log = db.log
  BY DEF DbSame, DbFields
<1>2. /\ \A d \in Callers : d # c => db'.call[d] = db.call[d]
      /\ db'.call[c].n = db.call[c].n /\ db'.call[c].i = db.call[c].i /\ db'.call[c].kind = db.call[c].kind
  BY DEF CallSame, CallFields
<1>3. DbTypeOK'
  <2>1. ASSUME NEW d \in Callers PROVE CallTyped(db'.call[d])
    <3>1. CallTyped(db.call[d]) /\ Length(db.call[d].kind) \in Places
      BY ZenonT(60), TypesAre, LengthIs DEF DataInv
    <3>2. CASE d # c
      BY <1>2, <3>1, <3>2
    <3>3. CASE d = c
      BY <1>2, <3>1, <3>3 DEF CallTyped, Places
    <3> QED
      BY <3>2, <3>3
  <2>2. ASSUME NEW e \in db'.rows \cup db'.pending PROVE EffTyped(db'.call, e)
    <3>1. EffTyped(db.call, e)
      BY ZenonT(60), <1>1, <2>2, TypesAre DEF DataInv
    <3>2. db'.call[e.c].n = db.call[e.c].n
      BY <1>2, <3>1 DEF EffTyped
    <3> QED
      BY <3>1, <3>2 DEF EffTyped
  <2> QED
    BY ZenonT(60), <1>1, <2>1, <2>2, TypesMake
<1>4. PendingInv'
  <2>1. Own(c) = {} /\ db.call[c].i = 1
    BY NothingPending DEF DataInv, DbTypeOK
  <2>2. \A i \in Places : Eff(c, db.call[c].n, i) \notin db.pending
    BY <2>1, EffIs DEF Own
  <2> QED
    <3>1. ASSUME NEW e \in db'.pending
          PROVE  db'.call[e.c].step \in {"run", "commit"} /\ db'.call[e.c].kind = "transaction" /\ e.n = db'.call[e.c].n
      <4>1. e \in db.pending
        BY <1>1, <3>1
      <4>2. e.c \in Callers
        BY ZenonT(60), <4>1, TypesAre DEF DataInv, EffTyped
      <4>3. db.call[e.c].step \in {"run", "commit"} /\ db.call[e.c].kind = "transaction" /\ e.n = db.call[e.c].n
        BY ZenonT(60), <4>1 DEF DataInv, PendingInv
      <4>4. db'.call[e.c] = db.call[e.c]
        BY <1>2, <4>2, <4>3
      <4> QED
        BY <4>3, <4>4
    <3>2. ASSUME NEW d \in Callers, db'.call[d].step = "run" /\ db'.call[d].kind = "transaction", NEW i \in Places
          PROVE  Eff(d, db'.call[d].n, i) \in db'.pending <=> i < db'.call[d].i
      <4>1. CASE d = c
        <5>1. ~(i < 1)
          BY DEF Places
        <5> QED
          BY <1>1, <1>2, <2>1, <2>2, <4>1, <5>1
      <4>2. CASE d # c
        <5>1. db'.call[d] = db.call[d]
          BY <1>2, <4>2
        <5>2. Eff(d, db.call[d].n, i) \in db.pending <=> i < db.call[d].i
          BY <3>2, <5>1 DEF DataInv, PendingInv
        <5> QED
          BY <1>1, <5>1, <5>2
      <4> QED
        BY <4>1, <4>2
    <3>3. ASSUME NEW d \in Callers, db'.call[d].step = "commit", NEW i \in Places
          PROVE  Eff(d, db'.call[d].n, i) \in db'.pending <=> i <= Statements
      <4>1. db'.call[d] = db.call[d]
        BY <1>2, <3>3
      <4>2. Eff(d, db.call[d].n, i) \in db.pending <=> i <= Statements
        BY <3>3, <4>1 DEF DataInv, PendingInv
      <4> QED
        BY <1>1, <4>1, <4>2
    <3> QED
      BY <3>1, <3>2, <3>3 DEF PendingInv
<1>5. RunningInv' /\ LogInv'
  <2>1. ASSUME NEW d \in Callers
        PROVE  /\ db'.call[d].n = db.call[d].n /\ db'.call[d].i = db.call[d].i /\ db'.call[d].kind = db.call[d].kind
               /\ db'.call[d].step # "idle" <=> db.call[d].step # "idle"
    BY <1>2
  <2>2. RunningInv'
    BY <1>1, <2>1 DEF DataInv, RunningInv
  <2>3. LogInv'
    <3>1. \A l \in db'.log : /\ l.c \in Callers /\ l.n \in Nat /\ l.n <= db'.call[l.c].n
                             /\ l.n = db'.call[l.c].n => db'.call[l.c].step = "idle"
      BY <1>1, <2>1 DEF DataInv, LogInv
    <3> QED
      BY <1>1, <3>1 DEF DataInv, LogInv
  <2> QED
    BY <2>2, <2>3
<1>6. OrphansInv' /\ BatchIsPrefix'
  BY <1>1 DEF DataInv, OrphansInv, BatchIsPrefix
<1> QED
  BY <1>3, <1>4, <1>5, <1>6 DEF DataInv

\* The state in which a call has begun.
BeginsCall(s, c, kind) == [s EXCEPT !.call[c] = [step |-> "permit", kind |-> kind, n |-> @.n + 1, i |-> 1, ans |-> NoCaller]]

\* It differs in that call only.
LEMMA BeginsCallIs ==
    ASSUME DbRec(db), NEW c \in Callers, NEW kind
    PROVE  /\ DbSame(db, BeginsCall(db, c, kind), {"call"})
           /\ \A d \in Callers : d # c => BeginsCall(db, c, kind).call[d] = db.call[d]
           /\ BeginsCall(db, c, kind).call[c] = [step |-> "permit", kind |-> kind, n |-> db.call[c].n + 1, i |-> 1, ans |-> NoCaller]
<1> DEFINE k == [step |-> "permit", kind |-> kind, n |-> db.call[c].n + 1, i |-> 1, ans |-> NoCaller]
<1>1. k = [f \in CallFields |-> k[f]]
  BY DEF CallFields
<1>2. BeginsCall(db, c, kind) = [db EXCEPT !.call = [db.call EXCEPT ![c] = k]]
  BY DEF BeginsCall, DbRec, DbFields
<1> HIDE DEF k
<1>3. /\ DbSame(db, BeginsCall(db, c, kind), {"call"})
      /\ BeginsCall(db, c, kind).call = [db.call EXCEPT ![c] = k]
  BY <1>1, <1>2 DEF DbRec, DbSame, DbFields
<1> QED
  BY <1>3 DEF DbRec, k

\* A call begins, or is answered at once when there is no driver.
LEMMA BeginStep ==
    ASSUME DataInv, NEW c \in Callers, NEW kind, BeginCall(c, kind)
    PROVE  DataInv'
<1> DEFINE s == BeginsCall(db, c, kind)
           a == IF kind = "raw" THEN "demo" ELSE "err"
           l == Entry(s, c, a)
<1>0. db.call[c].step = "idle" /\ DbRec(db) /\ db.call[c].n \in Nat
  BY DEF BeginCall, DataInv, DbTypeOK
<1>1. /\ DbSame(db, s, {"call"}) /\ \A d \in Callers : d # c => s.call[d] = db.call[d]
      /\ s.call[c] = [step |-> "permit", kind |-> kind, n |-> db.call[c].n + 1, i |-> 1, ans |-> NoCaller]
  BY <1>0, BeginsCallIs
<1>2. db' = s \/ db' = AnswerCall(s, c, a)
  BY DEF BeginCall, BeginsCall
<1> HIDE DEF s
<1>12. s.call[c].step = "permit" /\ s.call[c].kind = kind /\ s.call[c].n = db.call[c].n + 1 /\ s.call[c].i = 1
  BY <1>1
<1>3. l.c = c /\ l.n = db.call[c].n + 1 /\ l.kind = kind /\ l.ans # "ok"
  BY <1>12 DEF Entry
<1>4. /\ DbSame(db, db', {"call", "log"}) /\ \A d \in Callers : d # c => db'.call[d] = db.call[d]
      /\ db'.call[c].n = db.call[c].n + 1 /\ db'.call[c].i = 1
      /\ \/ db'.call[c].step = "permit" /\ db'.log = db.log
         \/ db'.call[c].step = "idle" /\ db'.log = db.log \cup {l}
  <2>1. CASE db' = s
    BY <1>1, <1>12, <2>1 DEF DbSame, DbFields
  <2>2. CASE db' = AnswerCall(s, c, a)
    BY <1>1, <1>12, <2>2, AnswerCallIs DEF DbSame, CallSame, DbFields, CallFields
  <2> QED
    BY <1>2, <2>1, <2>2
<1> HIDE DEF l, a
<1>5. DbRec(db') /\ db'.rows = db.rows /\ db'.pending = db.pending /\ db'.orphans = db.orphans
  BY <1>4 DEF DbSame, DbFields
<1>6. \A i \in Places : Eff(c, db.call[c].n + 1, i) \notin db.rows
  BY <1>0, EffIs DEF DataInv, DbTypeOK
<1>7. DbTypeOK'
  BY <1>0, <1>4, <1>5 DEF DataInv, DbTypeOK
<1>8. PendingInv'
  BY <1>0, <1>4, <1>5 DEF DataInv, DbTypeOK, PendingInv
<1>9. RunningInv'
  BY <1>4, <1>5, <1>6 DEF DataInv, RunningInv, Places
<1>10. LogInv'
  <2>1. \A m \in db'.log : m \in db.log \/ (m = l /\ db'.call[c].step = "idle")
    BY <1>4
  <2>2. \A m \in db.log : m.c \in Callers /\ m.n \in Nat /\ m.n <= db.call[m.c].n
    BY DEF DataInv, LogInv
  <2>3. \A m \in db'.log : /\ m.c \in Callers /\ m.n \in Nat /\ m.n <= db'.call[m.c].n
                           /\ m.n = db'.call[m.c].n => db'.call[m.c].step = "idle"
    BY <1>0, <1>3, <1>4, <2>1, <2>2 DEF DataInv, LogInv
  <2>4. \A k, m \in db'.log : k.c = m.c /\ k.n = m.n => k = m
    BY <1>0, <1>3, <2>1, <2>2 DEF DataInv, LogInv
  <2>5. Absent(db.rows, l)
    BY <1>3, <1>6 DEF Absent
  <2> QED
    BY <1>3, <1>5, <2>1, <2>3, <2>4, <2>5 DEF DataInv, LogInv
<1>11. OrphansInv' /\ BatchIsPrefix'
  BY <1>4, <1>5 DEF DataInv, OrphansInv, BatchIsPrefix
<1> QED
  BY <1>7, <1>8, <1>9, <1>10, <1>11 DEF DataInv

\* A statement of a call that timed out arrives late, or is lost.
LEMMA LateStep ==
    ASSUME DataInv, NEW o \in db.orphans, NEW ok \in BOOLEAN, LateStatement(o, ok)
    PROVE  DataInv'
<1>0. DbRec(db)
  BY DEF DataInv, DbTypeOK
<1>1. /\ DbSame(db, db', {"orphans", "rows"}) /\ db'.orphans = db.orphans \ {o}
      /\ db'.rows = IF ok THEN db.rows \cup o ELSE db.rows
  BY <1>0 DEF LateStatement, DbSame, DbRec, DbFields
<1>2. DbRec(db') /\ db'.call = db.call /\ db'.log = db.log /\ db'.pending = db.pending
  BY <1>1 DEF DbSame, DbFields
<1>3. CASE ~ok
  BY <1>1, <1>2, <1>3 DEF DataInv, DbTypeOK, PendingInv, RunningInv, LogInv, OrphansInv, BatchIsPrefix
<1>4. CASE ok
  <2>0. db'.rows = db.rows \cup o
    BY <1>1, <1>4
  <2>1. PICK l \in db.log : OrphanOf(db.rows, o, l)
    BY DEF DataInv, OrphansInv
  <2>2. /\ l.c \in Callers /\ l.n \in Nat /\ l.n <= db.call[l.c].n /\ l.ans = "err"
        /\ l.n = db.call[l.c].n => db.call[l.c].step = "idle"
    BY <2>1 DEF DataInv, LogInv, OrphanOf
  <2>3. \A e \in o : e.i \in Places /\ e = Eff(l.c, l.n, e.i)
    BY <2>1, EffIs DEF OrphanOf, Places
  <2>4. PICK m \in Nat : FirstOf(db'.rows, l, m) /\ (l.kind = "transaction" => m = Statements)
    <3>1. CASE l.kind = "transaction"
      <4>1. o = {Eff(l.c, l.n, i) : i \in 1 .. Statements} /\ Absent(db.rows, l)
        BY <2>1, <3>1 DEF OrphanOf
      <4>2. FirstOf(db'.rows, l, Statements)
        BY <2>0, <4>1, EffIs, PoolSizes DEF FirstOf, Absent, Places
      <4> QED
        BY <3>1, <4>2, PoolSizes
    <3>2. CASE l.kind # "transaction"
      <4>1. PICK j \in Places : o = {Eff(l.c, l.n, j)} /\ FirstOf(db.rows, l, j - 1)
        BY <2>1, <3>2 DEF OrphanOf
      <4>2. FirstOf(db'.rows, l, j)
        BY <2>0, <4>1, EffIs DEF FirstOf, Places
      <4> QED
        BY <3>2, <4>1, <4>2 DEF Places
    <3> QED
      BY <3>1, <3>2
  <2>5. ASSUME NEW d, NEW n, d # l.c \/ n # l.n, NEW i PROVE Eff(d, n, i) \in db'.rows <=> Eff(d, n, i) \in db.rows
    BY <2>0, <2>3, <2>5, EffIs
  <2>6. DbTypeOK'
    <3>1. \A e \in o : e.c \in Callers /\ e.n \in Nat /\ e.i \in Places /\ e = Eff(e.c, e.n, e.i) /\ e.n <= db.call[e.c].n
      BY <2>2, <2>3, EffIs
    <3> QED
      BY <1>2, <2>0, <3>1 DEF DataInv, DbTypeOK
  <2>7. PendingInv'
    BY <1>2 DEF DataInv, PendingInv
  <2>8. RunningInv'
    BY <1>2, <2>2, <2>5 DEF DataInv, RunningInv
  <2>9. ASSUME NEW k \in db.log, k # l, NEW i PROVE Eff(k.c, k.n, i) \in db'.rows <=> Eff(k.c, k.n, i) \in db.rows
    BY <2>1, <2>5, <2>9 DEF DataInv, LogInv
  <2>10. LogInv'
    <3>1. \A k \in db.log : k.kind = "transaction" => Absent(db'.rows, k) \/ FirstOf(db'.rows, k, Statements)
      BY <2>4, <2>9 DEF DataInv, LogInv, Absent, FirstOf
    <3>2. \A k \in db.log : k.ans = "ok" => FirstOf(db'.rows, k, Length(k.kind))
      BY <2>2, <2>9 DEF DataInv, LogInv, FirstOf
    <3> QED
      BY <1>2, <3>1, <3>2 DEF DataInv, LogInv
  <2>11. OrphansInv'
    <3> SUFFICES ASSUME NEW x \in db.orphans, x # o PROVE \E k \in db.log : OrphanOf(db'.rows, x, k)
      BY <1>1, <1>2 DEF OrphansInv
    <3>1. PICK k \in db.log : OrphanOf(db.rows, x, k)
      BY DEF DataInv, OrphansInv
    <3>2. k # l
      <4> SUFFICES ASSUME k = l PROVE FALSE
        OBVIOUS
      <4>1. CASE l.kind = "transaction"
        BY <2>1, <3>1, <4>1 DEF OrphanOf
      <4>2. CASE l.kind # "transaction"
        <5>1. PICK j \in Places : o = {Eff(l.c, l.n, j)} /\ FirstOf(db.rows, l, j - 1)
          BY <2>1, <4>2 DEF OrphanOf
        <5>2. PICK h \in Places : x = {Eff(l.c, l.n, h)} /\ FirstOf(db.rows, l, h - 1)
          BY <3>1, <4>2 DEF OrphanOf
        <5>3. j = h
          BY <5>1, <5>2 DEF FirstOf, Places
        <5> QED
          BY <5>1, <5>2, <5>3
      <4> QED
        BY <4>1, <4>2
    <3>3. OrphanOf(db'.rows, x, k)
      BY <2>9, <3>1, <3>2 DEF OrphanOf, Absent, FirstOf
    <3> QED
      BY <3>3
  <2>12. BatchIsPrefix'
    <3> SUFFICES ASSUME NEW e \in db'.rows, NEW i \in 1 .. e.i PROVE [e EXCEPT !.i = i] \in db'.rows
      BY DEF BatchIsPrefix
    <3>1. CASE e \in db.rows
      BY <2>0, <3>1 DEF DataInv, BatchIsPrefix
    <3>2. CASE e \in o
      <4>1. e.i \in Places /\ e = Eff(l.c, l.n, e.i) /\ Eff(l.c, l.n, e.i) \in db'.rows
        BY <2>3, <3>2
      <4>2. [e EXCEPT !.i = i] = Eff(l.c, l.n, i)
        BY <4>1 DEF Eff
      <4>3. e.i <= m /\ i \in Places /\ i <= m
        BY <2>4, <4>1 DEF FirstOf, Places
      <4> QED
        BY <2>4, <4>2, <4>3 DEF FirstOf
    <3> QED
      BY <2>0, <3>1, <3>2
  <2> QED
    BY <2>6, <2>7, <2>8, <2>10, <2>11, <2>12 DEF DataInv
<1> QED
  BY <1>3, <1>4

\* The callers that are at one of the steps S; the part one caller has in their number;
\* and the steps at which a permit and a connection are held.
Holding(call, S) == {c \in Callers : call[c].step \in S}
Weight(step, S) == IF step \in S THEN 1 ELSE 0
Occupied == {"conn", "run", "commit"}
Connected == {"run", "commit"}
\* The part of the invariant about permits and connections.
SlotsInv == db.permits \in Int /\ db.conns \in Int /\ SlotsReturned

\* When one caller moves, the number of holders changes by that caller.
LEMMA HoldingMoves ==
    ASSUME NEW f, NEW g, NEW S, NEW c \in Callers, \A d \in Callers : d # c => g[d].step = f[d].step
    PROVE  /\ Cardinality(Holding(f, S)) \in Nat
           /\ Cardinality(Holding(g, S)) = Cardinality(Holding(f, S)) + Weight(g[c].step, S) - Weight(f[c].step, S)
<1> DEFINE F == Holding(f, S)
           G == Holding(g, S)
<1>0. F \subseteq Callers /\ G \subseteq Callers
  BY DEF Holding
<1>1. IsFiniteSet(F) /\ IsFiniteSet(G)
  BY <1>0, DbCallersFinite, FS_Subset
<1>2. Cardinality(F) \in Nat /\ Cardinality(G) \in Nat
  BY <1>1, FS_CardinalityType
<1>3. (c \in F <=> f[c].step \in S) /\ (c \in G <=> g[c].step \in S)
  BY DEF Holding
<1>4. CASE f[c].step \in S /\ g[c].step \in S
  <2>1. F = G
    BY <1>4 DEF Holding
  <2> QED
    BY <1>2, <1>4, <2>1 DEF Weight
<1>5. CASE f[c].step \in S /\ g[c].step \notin S
  <2>1. G = F \ {c}
    BY <1>5 DEF Holding
  <2>2. Cardinality(G) = Cardinality(F) - 1
    BY <1>1, <1>3, <1>5, <2>1, FS_RemoveElement
  <2> QED
    BY <1>2, <1>5, <2>2 DEF Weight
<1>6. CASE f[c].step \notin S /\ g[c].step \in S
  <2>1. G = F \cup {c}
    BY <1>6 DEF Holding
  <2>2. Cardinality(G) = Cardinality(F) + 1
    BY <1>1, <1>3, <1>6, <2>1, FS_AddElement
  <2> QED
    BY <1>2, <1>6, <2>2 DEF Weight
<1>7. CASE f[c].step \notin S /\ g[c].step \notin S
  <2>1. F = G
    BY <1>7 DEF Holding
  <2> QED
    BY <1>2, <1>7, <2>1 DEF Weight
<1> QED
  BY <1>4, <1>5, <1>6, <1>7

\* What every action of a call does to what it shares with the other calls.
CallStep(c) ==
    /\ DbSame(db, db', {"call", "log", "permits", "conns", "rows", "pending", "orphans"})
    /\ \A d \in Callers : d # c => db'.call[d] = db.call[d]
    /\ db'.permits = db.permits + Weight(db.call[c].step, Occupied) - Weight(db'.call[c].step, Occupied)
    /\ db'.conns = db.conns + Weight(db.call[c].step, Connected) - Weight(db'.call[c].step, Connected)

\* SlotsReturned, in these terms.
LEMMA SlotsAre ==
    SlotsReturned <=> /\ MaxQueries - db.permits = Cardinality(Holding(db.call, Occupied))
                      /\ PoolSize - db.conns = Cardinality(Holding(db.call, Connected))
  BY DEF SlotsReturned, Holding, Occupied, Connected

\* A step that takes or returns exactly what its caller does keeps the count.
LEMMA SlotsStep ==
    ASSUME SlotsInv, NEW c \in Callers, CallStep(c)
    PROVE  SlotsInv'
<1> DEFINE f == db.call
           g == db'.call
<1>1. \A d \in Callers : d # c => g[d].step = f[d].step
  BY DEF CallStep
<1>10. /\ Cardinality(Holding(f, Occupied)) \in Nat
       /\ Cardinality(Holding(g, Occupied))
            = Cardinality(Holding(f, Occupied)) + Weight(g[c].step, Occupied) - Weight(f[c].step, Occupied)
  <2> HIDE DEF f, g
  <2> QED
    BY ZenonT(60), <1>1, HoldingMoves
<1>11. /\ Cardinality(Holding(f, Connected)) \in Nat
       /\ Cardinality(Holding(g, Connected))
            = Cardinality(Holding(f, Connected)) + Weight(g[c].step, Connected) - Weight(f[c].step, Connected)
  <2> HIDE DEF f, g
  <2> QED
    BY ZenonT(60), <1>1, HoldingMoves
<1> DEFINE W == Weight(db.call[c].step, Occupied)
           X == Weight(db'.call[c].step, Occupied)
           Y == Weight(db.call[c].step, Connected)
           Z == Weight(db'.call[c].step, Connected)
<1>2. W \in Int /\ X \in Int /\ Y \in Int /\ Z \in Int
  BY DEF Weight
<1>3. /\ db'.permits = db.permits + W - X /\ db'.conns = db.conns + Y - Z
  BY DEF CallStep
<1>4. /\ Cardinality(Holding(db.call, Occupied)) \in Nat
      /\ Cardinality(Holding(db'.call, Occupied)) = Cardinality(Holding(db.call, Occupied)) + X - W
  BY <1>10
<1>5. /\ Cardinality(Holding(db.call, Connected)) \in Nat
      /\ Cardinality(Holding(db'.call, Connected)) = Cardinality(Holding(db.call, Connected)) + Z - Y
  BY <1>11
<1>6. /\ MaxQueries - db.permits = Cardinality(Holding(db.call, Occupied))
      /\ PoolSize - db.conns = Cardinality(Holding(db.call, Connected))
      /\ db.permits \in Int /\ db.conns \in Int
  BY SlotsAre DEF SlotsInv
<1> HIDE DEF W, X, Y, Z
<1>7. /\ MaxQueries - db'.permits = Cardinality(Holding(db'.call, Occupied))
      /\ db'.permits \in Int
  BY <1>2, <1>3, <1>4, <1>6, PoolSizes
<1>8. /\ PoolSize - db'.conns = Cardinality(Holding(db'.call, Connected))
      /\ db'.conns \in Int
  BY <1>2, <1>3, <1>5, <1>6, PoolSizes
<1>9. SlotsReturned' <=> /\ MaxQueries - db'.permits = Cardinality(Holding(db'.call, Occupied))
                         /\ PoolSize - db'.conns = Cardinality(Holding(db'.call, Connected))
  BY DEF SlotsReturned, Holding, Occupied, Connected
<1> QED
  BY <1>7, <1>8, <1>9 DEF SlotsInv

\* The part of the invariant about connecting: whoever stored a pool is alone, and the
\* pool is there for good.
ConnInv ==
    /\ db.pool \in BOOLEAN
    /\ db.conn = [k \in Connectors |-> db.conn[k]]
    /\ \A k \in Connectors : db.conn[k] = [f \in ConnFields |-> db.conn[k][f]]
    /\ \A k \in Connectors : db.conn[k].stored \in BOOLEAN
    /\ \A k \in Connectors : db.conn[k].stored => db.pool
    /\ \A k, m \in Connectors : db.conn[k].stored /\ db.conn[m].stored => k = m
    /\ \A k \in Connectors : db.conn[k].step \in {"ok", "register"} => db.pool
    /\ db.driver => db.pool

\* So at most one pool is stored.
LEMMA OnePoolHolds ==
    ASSUME ConnInv
    PROVE  OnePool
<1> DEFINE S == {k \in Connectors : db.conn[k].stored}
<1>1. Cardinality(S) <= 1
  <2>1. CASE S = {}
    BY <2>1, FS_EmptySet
  <2>2. CASE S # {}
    <3>1. PICK k \in S : TRUE
      BY <2>2
    <3>2. S = {k}
      BY <3>1 DEF ConnInv
    <3>3. Cardinality({k}) = 1
      BY FS_Singleton
    <3> QED
      BY <3>2, <3>3
  <2> QED
    BY <2>1, <2>2
<1> QED
  BY <1>1 DEF OnePool, ConnInv

\* The connector k moves: its record has the given fields.
Moved(k, step, pool, stored) ==
    /\ DbSame(db, db', {"conn", "pool", "driver"})
    /\ db'.conn = [j \in Connectors |-> db'.conn[j]]
    /\ \A j \in Connectors : j # k => db'.conn[j] = db.conn[j]
    /\ db'.conn[k] = [f \in ConnFields |-> db'.conn[k][f]]
    /\ db'.conn[k].step = step /\ db'.conn[k].stored = stored /\ db'.pool = pool

\* SetConn moves one connector.
LEMMA SetConnIs ==
    ASSUME DbRec(db), ConnInv, NEW k \in Connectors, NEW step, db' = SetConn(k, step)
    PROVE  Moved(k, step, db.pool, db.conn[k].stored) /\ db'.driver = db.driver
<1> DEFINE t == [db.conn EXCEPT ![k].step = step]
<1>0. db' = [db EXCEPT !.conn = t]
  BY DEF SetConn, DbRec, DbFields
<1>1. /\ t = [j \in Connectors |-> t[j]] /\ \A j \in Connectors : j # k => t[j] = db.conn[j]
      /\ t[k] = [f \in ConnFields |-> t[k][f]] /\ t[k].step = step /\ t[k].stored = db.conn[k].stored
  BY DEF ConnInv, ConnFields
<1> HIDE DEF t
<1>2. DbSame(db, db', {"conn"}) /\ db'.conn = t
  BY <1>0 DEF DbRec, DbSame, DbFields
<1> QED
  BY <1>1, <1>2 DEF Moved, DbSame, DbFields

\* A connector stores a pool only if there is none.
LEMMA MovedStep ==
    ASSUME ConnInv, NEW k \in Connectors, NEW step, NEW pool \in BOOLEAN, NEW stored \in BOOLEAN,
           Moved(k, step, pool, stored),
           db.pool => pool, stored => pool, step \in {"ok", "register"} => pool, db'.driver => pool,
           stored => db.conn[k].stored \/ ~db.pool
    PROVE  ConnInv'
  BY DEF ConnInv, Moved

\* Leave returns exactly what the call held.
LEMMA LeaveCallStep ==
    ASSUME DbRec(db), SlotsInv, NEW c \in Callers, db.call[c].step \in Occupied,
           NEW s, DbSame(db, s, {"rows", "pending", "orphans"}), NEW a, db' = Leave(s, c, a)
    PROVE  CallStep(c)
<1>1. DbRec(s) /\ s.call = db.call /\ s.permits = db.permits /\ s.conns = db.conns
  BY DEF DbSame, DbFields
<1>2. /\ DbSame(s, db', {"call", "log", "permits", "conns"})
      /\ CallSame(s, db', c, {"step", "ans"})
      /\ db'.call[c].step = "idle"
      /\ db'.permits = s.permits + 1
      /\ db'.conns = IF s.call[c].step \in {"run", "commit"} THEN s.conns + 1 ELSE s.conns
  BY <1>1, LeaveIs
<1>3. DbSame(db, db', {"call", "log", "permits", "conns", "rows", "pending", "orphans"})
  BY <1>2 DEF DbSame, DbFields
<1>4. \A d \in Callers : d # c => db'.call[d] = db.call[d]
  BY <1>1, <1>2 DEF CallSame
<1>5. db'.permits = db.permits + Weight(db.call[c].step, Occupied) - Weight(db'.call[c].step, Occupied)
  BY <1>1, <1>2 DEF Weight, Occupied, SlotsInv
<1>6. db'.conns = db.conns + Weight(db.call[c].step, Connected) - Weight(db'.call[c].step, Connected)
  BY <1>1, <1>2 DEF Weight, Connected, Occupied, SlotsInv
<1> QED
  BY <1>3, <1>4, <1>5, <1>6 DEF CallStep

\* A step that neither takes nor returns.
LEMMA SameWeights ==
    ASSUME SlotsInv, NEW c \in Callers,
           DbSame(db, db', {"call", "log", "rows", "pending", "orphans"}),
           \A d \in Callers : d # c => db'.call[d] = db.call[d],
           Weight(db.call[c].step, Occupied) = Weight(db'.call[c].step, Occupied),
           Weight(db.call[c].step, Connected) = Weight(db'.call[c].step, Connected)
    PROVE  CallStep(c)
<1>1. /\ DbSame(db, db', {"call", "log", "permits", "conns", "rows", "pending", "orphans"})
      /\ db'.permits = db.permits /\ db'.conns = db.conns
  BY DEF DbSame, DbFields
<1>2. Weight(db.call[c].step, Occupied) \in Int /\ Weight(db.call[c].step, Connected) \in Int
  BY DEF Weight
<1>3. /\ db'.permits = db.permits + Weight(db.call[c].step, Occupied) - Weight(db'.call[c].step, Occupied)
      /\ db'.conns = db.conns + Weight(db.call[c].step, Connected) - Weight(db'.call[c].step, Connected)
  BY <1>1, <1>2 DEF SlotsInv
<1> QED
  BY <1>1, <1>3 DEF CallStep

\* Beginning a call takes nothing.
LEMMA BeginCallStep ==
    ASSUME DataInv, SlotsInv, NEW c \in Callers, NEW kind, BeginCall(c, kind)
    PROVE  CallStep(c)
<1> DEFINE s == BeginsCall(db, c, kind)
           a == IF kind = "raw" THEN "demo" ELSE "err"
<1>0. db.call[c].step = "idle" /\ DbRec(db)
  BY DEF BeginCall, DataInv, DbTypeOK
<1>1. /\ DbSame(db, s, {"call"}) /\ \A d \in Callers : d # c => s.call[d] = db.call[d]
      /\ s.call[c] = [step |-> "permit", kind |-> kind, n |-> db.call[c].n + 1, i |-> 1, ans |-> NoCaller]
  BY <1>0, BeginsCallIs
<1>2. db' = s \/ db' = AnswerCall(s, c, a)
  BY DEF BeginCall, BeginsCall
<1> HIDE DEF s, a
<1>3. s.call[c].step = "permit"
  BY <1>1
<1>4. /\ DbSame(db, db', {"call", "log"}) /\ \A d \in Callers : d # c => db'.call[d] = db.call[d]
      /\ db'.call[c].step \in {"permit", "idle"}
  <2>1. CASE db' = s
    BY <1>1, <1>3, <2>1 DEF DbSame, DbFields
  <2>2. CASE db' = AnswerCall(s, c, a)
    BY <1>1, <1>3, <2>2, AnswerCallIs DEF DbSame, CallSame, DbFields
  <2> QED
    BY <1>2, <2>1, <2>2
<1>5. DbSame(db, db', {"call", "log", "rows", "pending", "orphans"})
  BY <1>4 DEF DbSame
<1>6. /\ Weight(db.call[c].step, Occupied) = Weight(db'.call[c].step, Occupied)
      /\ Weight(db.call[c].step, Connected) = Weight(db'.call[c].step, Connected)
  BY <1>0, <1>4 DEF Weight, Occupied, Connected
<1> QED
  BY <1>4, <1>5, <1>6, SameWeights

\* A call that waited too long for a permit returns none.
LEMMA OverloadedStep ==
    ASSUME DataInv, SlotsInv, NEW c \in Callers, Overloaded(c)
    PROVE  DataInv' /\ CallStep(c)
<1>0. db.call[c].step = "permit" /\ DbRec(db) /\ db' = AnswerCall(db, c, "err")
  BY DEF Overloaded, DataInv, DbTypeOK
<1>1. DataInv'
  BY <1>0, RefusedStep
<1>2. DbSame(db, db', {"call", "log"}) /\ CallSame(db, db', c, {"step", "ans"}) /\ db'.call[c].step = "idle"
  BY <1>0, AnswerCallIs
<1>3. DbSame(db, db', {"call", "log", "rows", "pending", "orphans"}) /\ \A d \in Callers : d # c => db'.call[d] = db.call[d]
  BY <1>2 DEF DbSame, CallSame
<1>4. /\ Weight(db.call[c].step, Occupied) = Weight(db'.call[c].step, Occupied)
      /\ Weight(db.call[c].step, Connected) = Weight(db'.call[c].step, Connected)
  BY <1>0, <1>2 DEF Weight, Occupied, Connected
<1>5. CallStep(c)
  BY <1>3, <1>4, SameWeights
<1> QED
  BY <1>1, <1>5

\* A permit (conns unchanged) or a connection (permits unchanged) is taken.
LEMMA TakeStep ==
    ASSUME DataInv, SlotsInv, NEW c \in Callers,
           \/ AcquirePermit(c)
           \/ db.call[c].step = "conn" /\ db' = [SetCall(db, c, "run") EXCEPT !.conns = @ - 1]
    PROVE  DataInv' /\ CallStep(c)
<1>0. DbRec(db)
  BY DEF DataInv, DbTypeOK
<1>1. CASE AcquirePermit(c)
  <2> DEFINE s == SetCall(db, c, "conn")
  <2>0. db.call[c].step = "permit" /\ db' = [s EXCEPT !.permits = @ - 1]
    BY <1>1 DEF AcquirePermit
  <2>1. DbSame(db, s, {"call"}) /\ CallSame(db, s, c, {"step"}) /\ s.call[c].step = "conn"
    BY <1>0, SetCallIs
  <2> HIDE DEF s
  <2>2. DbSame(s, db', {"permits"}) /\ db'.permits = s.permits - 1
    BY <2>0, <2>1 DEF DbSame, DbRec, DbFields
  <2>3. /\ DbSame(db, db', {"call", "permits", "conns"}) /\ CallSame(db, db', c, {"step"})
        /\ db'.call[c].step = "conn" /\ db'.permits = db.permits - 1 /\ db'.conns = db.conns
    BY <2>1, <2>2 DEF DbSame, CallSame, DbFields
  <2>4. DataInv'
    BY <2>0, <2>3, GotStep
  <2>5. DbSame(db, db', {"call", "log", "permits", "conns", "rows", "pending", "orphans"})
        /\ \A d \in Callers : d # c => db'.call[d] = db.call[d]
    BY <2>3 DEF DbSame, CallSame
  <2>6. db'.permits = db.permits + Weight(db.call[c].step, Occupied) - Weight(db'.call[c].step, Occupied)
    BY <2>0, <2>3 DEF Weight, Occupied, SlotsInv
  <2>7. db'.conns = db.conns + Weight(db.call[c].step, Connected) - Weight(db'.call[c].step, Connected)
    BY <2>0, <2>3 DEF Weight, Connected, SlotsInv
  <2> QED
    BY <2>4, <2>5, <2>6, <2>7 DEF CallStep
<1>2. CASE db.call[c].step = "conn" /\ db' = [SetCall(db, c, "run") EXCEPT !.conns = @ - 1]
  <2> DEFINE s == SetCall(db, c, "run")
  <2>0. db.call[c].step = "conn" /\ db' = [s EXCEPT !.conns = @ - 1]
    BY <1>2
  <2>1. DbSame(db, s, {"call"}) /\ CallSame(db, s, c, {"step"}) /\ s.call[c].step = "run"
    BY <1>0, SetCallIs
  <2> HIDE DEF s
  <2>2. DbSame(s, db', {"conns"}) /\ db'.conns = s.conns - 1
    BY <2>0, <2>1 DEF DbSame, DbRec, DbFields
  <2>3. /\ DbSame(db, db', {"call", "permits", "conns"}) /\ CallSame(db, db', c, {"step"})
        /\ db'.call[c].step = "run" /\ db'.conns = db.conns - 1 /\ db'.permits = db.permits
    BY <2>1, <2>2 DEF DbSame, CallSame, DbFields
  <2>4. DataInv'
    BY <2>0, <2>3, GotStep
  <2>5. DbSame(db, db', {"call", "log", "permits", "conns", "rows", "pending", "orphans"})
        /\ \A d \in Callers : d # c => db'.call[d] = db.call[d]
    BY <2>3 DEF DbSame, CallSame
  <2>6. db'.permits = db.permits + Weight(db.call[c].step, Occupied) - Weight(db'.call[c].step, Occupied)
    BY <2>0, <2>3 DEF Weight, Occupied, SlotsInv
  <2>7. db'.conns = db.conns + Weight(db.call[c].step, Connected) - Weight(db'.call[c].step, Connected)
    BY <2>0, <2>3 DEF Weight, Connected, SlotsInv
  <2> QED
    BY <2>4, <2>5, <2>6, <2>7 DEF CallStep
<1> QED
  BY <1>1, <1>2

\* A connection is taken, or the call leaves with its permit returned.
LEMMA GetClientStep ==
    ASSUME DataInv, SlotsInv, NEW c \in Callers, GetClient(c)
    PROVE  DataInv' /\ CallStep(c)
<1>0. db.call[c].step = "conn" /\ DbRec(db)
  BY DEF GetClient, DataInv, DbTypeOK
<1>1. CASE db' = [SetCall(db, c, "run") EXCEPT !.conns = @ - 1]
  BY <1>0, <1>1, TakeStep
<1>2. CASE db' = Leave(db, c, "err")
  <2>1. DataInv'
    BY <1>0, <1>2, RefusedStep
  <2>2. DbSame(db, db, {"rows", "pending", "orphans"}) /\ db.call[c].step \in Occupied
    BY <1>0 DEF DbSame, Occupied
  <2>3. CallStep(c)
    BY <1>0, <1>2, <2>2, LeaveCallStep
  <2> QED
    BY <2>1, <2>3
<1> QED
  BY <1>1, <1>2 DEF GetClient

\* A statement keeps permit and connection until the call ends.
LEMMA StatementCallStep ==
    ASSUME DataInv, SlotsInv, NEW c \in Callers, NEW out \in {"ok", "rows", "fails"}, Statement(c, out)
    PROVE  CallStep(c)
<1> DEFINE s == Executed(c)
<1>0. db.call[c].step = "run" /\ DbRec(db) /\ db.call[c].step \in Occupied
  BY DEF Statement, DataInv, DbTypeOK, Occupied
<1>1. DbSame(db, s, {"rows", "pending"}) /\ DbSame(db, s, {"rows", "pending", "orphans"}) /\ s.call = db.call /\ DbRec(s)
  BY ExecutedIs DEF DataInv, DbSame, DbFields
<1>2. CASE out = "ok"
  <2>0. db' = NextStatement(s, c)
    BY <1>2 DEF Statement
  <2> HIDE DEF s
  <2>1. CASE db' = [s EXCEPT !.call[c].i = @ + 1]
    <3>1. DbSame(s, db', {"call"}) /\ CallSame(s, db', c, {"i"})
      BY <1>1, <2>1, CountUpIs
    <3>2. DbSame(db, db', {"call", "log", "rows", "pending", "orphans"}) /\ \A d \in Callers : d # c => db'.call[d] = db.call[d]
      BY <1>1, <3>1 DEF DbSame, CallSame, DbFields
    <3>3. db'.call[c].step = db.call[c].step
      BY <1>1, <3>1 DEF CallSame, CallFields
    <3> QED
      BY <3>2, <3>3, SameWeights
  <2>2. CASE db' = SetCall(s, c, "commit")
    <3>1. DbSame(s, db', {"call"}) /\ CallSame(s, db', c, {"step"}) /\ db'.call[c].step = "commit"
      BY <1>1, <2>2, SetCallIs
    <3>2. DbSame(db, db', {"call", "log", "rows", "pending", "orphans"}) /\ \A d \in Callers : d # c => db'.call[d] = db.call[d]
      BY <1>1, <3>1 DEF DbSame, CallSame, DbFields
    <3>3. /\ Weight(db.call[c].step, Occupied) = Weight(db'.call[c].step, Occupied)
          /\ Weight(db.call[c].step, Connected) = Weight(db'.call[c].step, Connected)
      BY <1>0, <3>1 DEF Weight, Occupied, Connected
    <3> QED
      BY <3>2, <3>3, SameWeights
  <2>3. CASE db' = Leave(s, c, "ok")
    BY <1>0, <1>1, <2>3, LeaveCallStep
  <2> QED
    BY <2>0, <2>1, <2>2, <2>3 DEF NextStatement
<1>3. CASE out = "rows"
  <2> DEFINE t == Rollback(s, c)
  <2>1. db' = Leave(t, c, "err")
    BY <1>3 DEF Statement
  <2> HIDE DEF s
  <2>2. DbSame(s, t, {"pending"})
    BY <1>1, RollbackIs
  <2> HIDE DEF t
  <2>3. DbSame(db, t, {"rows", "pending", "orphans"})
    BY <1>1, <2>2 DEF DbSame, DbFields
  <2> QED
    BY <1>0, <2>1, <2>3, LeaveCallStep
<1>4. CASE out = "fails"
  <2> DEFINE t == Rollback(db, c)
  <2>1. db' = Leave(t, c, "err")
    BY <1>4 DEF Statement
  <2>2. DbSame(db, t, {"pending"})
    BY <1>0, RollbackIs
  <2> HIDE DEF t
  <2>3. DbSame(db, t, {"rows", "pending", "orphans"})
    BY <2>2 DEF DbSame, DbFields
  <2> QED
    BY <1>0, <2>1, <2>3, LeaveCallStep
<1> QED
  BY <1>2, <1>3, <1>4

\* A commit returns both, whether it succeeds or not.
LEMMA CommitCallStep ==
    ASSUME DataInv, SlotsInv, NEW c \in Callers, NEW ok \in BOOLEAN, Commit(c, ok)
    PROVE  CallStep(c)
<1> DEFINE t == IF ok THEN CommitAll(c) ELSE Rollback(db, c)
<1>0. DbRec(db) /\ db.call[c].step \in Occupied /\ db' = Leave(t, c, IF ok THEN "ok" ELSE "err")
  BY DEF Commit, DataInv, DbTypeOK, Occupied
<1>1. DbSame(db, t, {"rows", "pending", "orphans"})
  BY <1>0 DEF CommitAll, Rollback, DbRec, DbSame, DbFields
<1> HIDE DEF t
<1> QED
  BY <1>0, <1>1, LeaveCallStep

\* So does the timeout, wherever it strikes.
LEMMA TimeoutCallStep ==
    ASSUME DataInv, SlotsInv, NEW c \in Callers, QueryTimeout(c)
    PROVE  CallStep(c)
<1> DEFINE t == Rollback(db, c)
           s == [t EXCEPT !.orphans = @ \cup ({InFlight(c)} \ {{}})]
<1>0. DbRec(db) /\ db.call[c].step \in Occupied /\ db' = Leave(s, c, "err")
  BY DEF QueryTimeout, DataInv, DbTypeOK, Occupied
<1>1. DbSame(db, t, {"pending"})
  BY <1>0, RollbackIs
<1> HIDE DEF t
<1>2. DbSame(t, s, {"orphans"})
  BY <1>1 DEF DbSame, DbRec, DbFields
<1> HIDE DEF s
<1>3. DbSame(db, s, {"rows", "pending", "orphans"})
  BY <1>1, <1>2 DEF DbSame, DbFields
<1> QED
  BY <1>0, <1>3, LeaveCallStep

\* A number in the range of an integer type survives the cast to it.
LEMMA WrapFits ==
    ASSUME NEW x \in Int, NEW t \in IntTypes, InRange(x, t)
    PROVE  Wrap(x, t) = x
<1> DEFINE h == Half[t]
           y == x + h
<1>0. h \in Nat \ {0}
  BY WidthsPositive
<1>1. y \in Nat /\ y < 2 * h /\ 2 * h \in Nat \ {0}
  BY <1>0 DEF InRange
<1>2. \A a \in Nat, m \in Nat \ {0} : a < m => a % m = a
  OBVIOUS
<1>3. y % (2 * h) = y
  <2> HIDE DEF y, h
  <2> DEFINE m == 2 * h
  <2>1. m \in Nat \ {0} /\ y \in Nat /\ y < m
    BY <1>1
  <2> HIDE DEF m
  <2>2. y % m = y
    BY <1>2, <2>1
  <2> QED
    BY <2>2 DEF m
<1> QED
  BY <1>0, <1>3 DEF Wrap

\* A number that fits its column and is accepted is sent as itself.
LEMMA SentFits ==
    ASSUME NEW v, NEW t \in IntTypes, NEW typed, v.n \in Int, v.k \in {"num", "str"}, v.n # NotANumber, InRange(v.n, t),
           AcceptedByServer(Sent(v, t, typed), t)
    PROVE  Sent(v, t, typed).val = v.n
<1>0. Wrap(v.n, t) = v.n
  BY WrapFits
<1>1. CASE typed
  <2>1. IntParam(v, t) = v.n
    BY <1>0 DEF IntParam
  <2>3. Sent(v, t, typed) = JsonValueToTypedParam(v, t)
    BY <1>1 DEF Sent
  <2>4. v.k # "null" /\ t \in IntTypes /\ t # "bool" /\ t # "json"
    BY DEF IntTypes
  <2>5. JsonValueToTypedParam(v, t) = Param(t, IntParam(v, t))
    BY <2>4, Zenon DEF JsonValueToTypedParam
  <2>2. Sent(v, t, typed) = Param(t, IntParam(v, t))
    BY <2>3, <2>5
  <2> QED
    BY <2>1, <2>2 DEF Param
<1>2. CASE ~typed
  <2>1. Sent(v, t, typed) = JsonValueToUntypedParam(v)
    BY <1>2 DEF Sent
  <2>2. CASE v.k = "num"
    BY <2>1, <2>2 DEF JsonValueToUntypedParam, Param
  <2>3. CASE v.k = "str"
    BY <2>1, <2>3 DEF JsonValueToUntypedParam, Param, AcceptedByServer, IntTypes
  <2> QED
    BY <2>2, <2>3
<1> QED
  BY <1>1, <1>2

\* So is every parameter that is bound.
LEMMA BindStep ==
    ASSUME DataInv, NEW s \in Samples, BindParam(s[1], s[2], s[3])
    PROVE  DbSame(db, db', {"bound"}) /\ ParamKept'
<1> DEFINE b == [v |-> s[1], t |-> s[2], p |-> Sent(s[1], s[2], s[3])]
<1>1. DbSame(db, db', {"bound"}) /\ db'.bound = b
  BY DEF BindParam, DataInv, DbTypeOK, DbRec, DbSame, DbFields
<1>2. ASSUME s[2] \in IntTypes, s[1].k \in {"num", "str"}, s[1].n # NotANumber, InRange(s[1].n, s[2]),
             AcceptedByServer(Sent(s[1], s[2], s[3]), s[2])
      PROVE  Sent(s[1], s[2], s[3]).val = s[1].n
  BY <1>2, SentFits, SampleNumbers
<1>3. ParamKept'
  <2>1. b.v = s[1] /\ b.t = s[2] /\ b.p = Sent(s[1], s[2], s[3])
    OBVIOUS
  <2> HIDE DEF b
  <2> QED
    BY <1>1, <1>2, <2>1 DEF ParamKept
<1> QED
  BY <1>1, <1>3

\* The inductive invariant of DbPool.
DbInv == DataInv /\ SlotsInv /\ ConnInv /\ ParamKept

\* It holds before anyone connects.
LEMMA DbStart == DbInit => DbInv
<1> SUFFICES ASSUME DbInit PROVE DbInv
  OBVIOUS
<1>1. DbRec(db)
  BY DEF DbInit, DbRec, DbFields, CallFields
<1>2. /\ \A c \in Callers : db.call[c].step = "idle" /\ db.call[c].n = 0 /\ db.call[c].i = 0
      /\ db.rows = {} /\ db.pending = {} /\ db.orphans = {} /\ db.log = {} /\ db.bound = NoParam
      /\ db.permits = MaxQueries /\ db.conns = PoolSize /\ ~db.pool /\ ~db.driver
      /\ \A k \in Connectors : db.conn[k].step = "idle" /\ ~db.conn[k].stored
  BY DEF DbInit
<1>3. DataInv
  BY <1>1, <1>2 DEF DataInv, DbTypeOK, PendingInv, RunningInv, LogInv, OrphansInv, BatchIsPrefix
<1>4. SlotsInv
  <2>1. {c \in Callers : db.call[c].step \in {"conn", "run", "commit"}} = {}
        /\ {c \in Callers : db.call[c].step \in {"run", "commit"}} = {}
    BY <1>2
  <2>2. Cardinality({}) = 0
    BY FS_EmptySet
  <2> QED
    <3>1. MaxQueries - db.permits = 0 /\ PoolSize - db.conns = 0 /\ db.permits \in Int /\ db.conns \in Int
      BY <1>2, PoolSizes
    <3>2. SlotsReturned
      BY <2>1, <2>2, <3>1, Zenon DEF SlotsReturned
    <3> QED
      BY <3>1, <3>2 DEF SlotsInv
<1>5. ConnInv
  <2>1. db.conn = [k \in Connectors |-> [step |-> "idle", tried |-> 0, stored |-> FALSE]]
    BY DEF DbInit
  <2>2. \A k \in Connectors : db.conn[k] = [step |-> "idle", tried |-> 0, stored |-> FALSE]
    BY <2>1
  <2>3. db.conn = [k \in Connectors |-> db.conn[k]]
    BY <2>1
  <2>4. \A k \in Connectors : db.conn[k] = [f \in ConnFields |-> db.conn[k][f]]
    BY <2>2 DEF ConnFields
  <2>5. (\A k \in Connectors : db.conn[k].stored \in BOOLEAN) /\ db.pool \in BOOLEAN
    BY <2>2 DEF DbInit
  <2> QED
    BY <1>2, <2>3, <2>4, <2>5 DEF ConnInv
<1> QED
  BY <1>2, <1>3, <1>4, <1>5 DEF DbInv, ParamKept

\* The parts no action of a call touches.
LEMMA RestSame ==
    ASSUME ConnInv, ParamKept,
           DbSame(db, db', {"call", "log", "permits", "conns", "rows", "pending", "orphans"})
    PROVE  ConnInv' /\ ParamKept'
<1>1. db'.conn = db.conn /\ db'.pool = db.pool /\ db'.driver = db.driver /\ db'.bound = db.bound
  BY DEF DbSame, DbFields
<1> QED
  BY <1>1 DEF ConnInv, ParamKept

\* connect_from_env, its attempts and the registration of the driver.
LEMMA ConnectStep ==
    ASSUME DataInv, ConnInv, NEW k \in Connectors,
           ConnectFromEnv(k) \/ RegisterDriver(k) \/ \E ok \in BOOLEAN : TryPoolConnection(k, ok)
    PROVE  ConnInv' /\ DbSame(db, db', {"conn", "pool", "driver"})
<1>0. DbRec(db) /\ db.pool \in BOOLEAN /\ db.conn[k].stored \in BOOLEAN
  BY DEF DataInv, DbTypeOK, ConnInv
<1>1. ASSUME NEW step, db' = SetConn(k, step), step \in {"ok", "register"} => db.pool
      PROVE  ConnInv' /\ DbSame(db, db', {"conn", "pool", "driver"})
  <2>1. Moved(k, step, db.pool, db.conn[k].stored) /\ db'.driver = db.driver
    BY <1>0, <1>1, SetConnIs
  <2>2. db.conn[k].stored => db.pool
    BY DEF ConnInv
  <2>3. db'.driver => db.pool
    BY <2>1 DEF ConnInv
  <2>4. ConnInv'
    BY <1>0, <1>1, <2>1, <2>2, <2>3, MovedStep
  <2> QED
    BY <2>1, <2>4 DEF Moved
<1>2. CASE ConnectFromEnv(k)
  <2>1. CASE db.pool
    BY <1>1, <1>2, <2>1 DEF ConnectFromEnv
  <2>2. CASE ~db.pool
    BY <1>1, <1>2, <2>2 DEF ConnectFromEnv
  <2> QED
    BY <2>1, <2>2
<1>3. CASE RegisterDriver(k)
  <2> DEFINE t == SetConn(k, "ok")
             c == [db.conn EXCEPT ![k].step = "ok"]
  <2>0. db.conn[k].step = "register" /\ db' = [t EXCEPT !.driver = TRUE]
    BY <1>3 DEF RegisterDriver
  <2>1. t = [db EXCEPT !.conn = c]
    BY <1>0 DEF SetConn, DbRec, DbFields
  <2>2. /\ c = [j \in Connectors |-> c[j]] /\ \A j \in Connectors : j # k => c[j] = db.conn[j]
        /\ c[k] = [f \in ConnFields |-> c[k][f]] /\ c[k].step = "ok" /\ c[k].stored = db.conn[k].stored
    BY DEF ConnInv, ConnFields
  <2> HIDE DEF c, t
  <2>3. DbSame(db, t, {"conn"}) /\ t.conn = c
    BY <1>0, <2>1 DEF DbRec, DbSame, DbFields
  <2>4. DbSame(t, db', {"driver"}) /\ db'.driver = TRUE
    BY <2>0, <2>3 DEF DbRec, DbSame, DbFields
  <2>5. Moved(k, "ok", db.pool, db.conn[k].stored)
    BY <2>2, <2>3, <2>4 DEF Moved, DbSame, DbFields
  <2>6. db.pool = TRUE
    BY <1>0, <2>0 DEF ConnInv
  <2>7. ConnInv'
    BY <1>0, <2>5, <2>6, MovedStep
  <2> QED
    BY <2>5, <2>7 DEF Moved
<1>4. ASSUME NEW ok \in BOOLEAN, TryPoolConnection(k, ok)
      PROVE  ConnInv' /\ DbSame(db, db', {"conn", "pool", "driver"})
  <2>1. CASE ~ok
    <3> DEFINE step == IF db.conn[k].tried + 1 = Attempts THEN "err" ELSE "try"
               c == [db.conn EXCEPT ![k].tried = @ + 1, ![k].step = step]
    <3>7. db' = [db EXCEPT !.conn[k].tried = @ + 1, !.conn[k].step = step]
      BY <1>4, <2>1 DEF TryPoolConnection
    <3>0. step \notin {"ok", "register"}
      OBVIOUS
    <3> HIDE DEF step
    <3>1. db' = [db EXCEPT !.conn = c]
      BY <1>0, <3>7 DEF DbRec, DbFields
    <3>2. /\ c = [j \in Connectors |-> c[j]] /\ \A j \in Connectors : j # k => c[j] = db.conn[j]
          /\ c[k] = [f \in ConnFields |-> c[k][f]] /\ c[k].step = step /\ c[k].stored = db.conn[k].stored
      BY DEF ConnInv, ConnFields
    <3> HIDE DEF c
    <3>3. DbSame(db, db', {"conn"}) /\ db'.conn = c
      BY <1>0, <3>1 DEF DbRec, DbSame, DbFields
    <3>4. Moved(k, step, db.pool, db.conn[k].stored) /\ db'.driver = db.driver
      BY <3>2, <3>3 DEF Moved, DbSame, DbFields
    <3>5. (db.conn[k].stored => db.pool) /\ (db'.driver => db.pool)
      BY <3>4 DEF ConnInv
    <3>6. ConnInv'
      BY <1>0, <3>0, <3>4, <3>5, MovedStep
    <3> QED
      BY <3>4, <3>6 DEF Moved
  <2>2. CASE ok /\ db.pool
    <3>1. db' = SetConn(k, "err")
      BY <1>4, <2>2 DEF TryPoolConnection
    <3> QED
      BY <1>1, <3>1
  <2>3. CASE ok /\ ~db.pool
    <3> DEFINE c == [db.conn EXCEPT ![k].step = "register", ![k].stored = TRUE]
    <3>0. db' = [db EXCEPT !.pool = TRUE, !.conn[k].step = "register", !.conn[k].stored = TRUE]
      BY <1>4, <2>3 DEF TryPoolConnection
    <3>1. db' = [db EXCEPT !.pool = TRUE, !.conn = c]
      BY ZenonT(60), <1>0, <3>0 DEF DbRec, DbFields
    <3>2. /\ c = [j \in Connectors |-> c[j]] /\ \A j \in Connectors : j # k => c[j] = db.conn[j]
          /\ c[k] = [f \in ConnFields |-> c[k][f]] /\ c[k].step = "register" /\ c[k].stored = TRUE
      BY DEF ConnInv, ConnFields
    <3> HIDE DEF c
    <3>3. DbSame(db, db', {"conn", "pool"}) /\ db'.conn = c /\ db'.pool = TRUE
      BY <1>0, <3>1 DEF DbRec, DbSame, DbFields
    <3>4. Moved(k, "register", TRUE, TRUE)
      BY <3>2, <3>3 DEF Moved, DbSame, DbFields
    <3>5. ConnInv'
      BY <2>3, <3>4, MovedStep
    <3> QED
      BY <3>4, <3>5 DEF Moved
  <2> QED
    BY <2>1, <2>2, <2>3
<1> QED
  BY <1>2, <1>3, <1>4

\* Every step of DbNext keeps the invariant.
LEMMA DbKept ==
    ASSUME DbInv, DbNext
    PROVE  DbInv'
<1> USE DEF DbInv
<1>0. DbRec(db)
  BY DEF DataInv, DbTypeOK
<1>1. ASSUME NEW k \in Connectors,
             ConnectFromEnv(k) \/ RegisterDriver(k) \/ \E ok \in BOOLEAN : TryPoolConnection(k, ok)
      PROVE  DbInv'
  <2>1. ConnInv' /\ DbSame(db, db', {"conn", "pool", "driver"})
    BY <1>1, ConnectStep
  <2>2. DataInv'
    <3>1. DbSame(db, db', {"conn", "pool", "driver", "bound", "permits", "conns"})
      BY <2>1 DEF DbSame
    <3> QED
      BY <3>1, DataSame
  <2>3. db'.call = db.call /\ db'.permits = db.permits /\ db'.conns = db.conns /\ db'.bound = db.bound
    BY <2>1 DEF DbSame, DbFields
  <2>4. SlotsInv' /\ ParamKept'
    BY <2>3 DEF SlotsInv, SlotsReturned, ParamKept
  <2> QED
    BY <2>1, <2>2, <2>4
<1>2. ASSUME NEW c \in Callers, DataInv', CallStep(c)
      PROVE  DbInv'
  <2>1. SlotsInv'
    BY <1>2, SlotsStep
  <2>2. ConnInv' /\ ParamKept'
    BY <1>2, RestSame DEF CallStep
  <2> QED
    BY <1>2, <2>1, <2>2
<1>3. ASSUME NEW c \in Callers, NEW kind \in CallKinds, BeginCall(c, kind)
      PROVE  DbInv'
  BY <1>2, <1>3, BeginStep, BeginCallStep
<1>4. ASSUME NEW c \in Callers, AcquirePermit(c) \/ Overloaded(c) \/ GetClient(c)
      PROVE  DbInv'
  BY <1>2, <1>4, TakeStep, OverloadedStep, GetClientStep
<1>5. ASSUME NEW c \in Callers, QueryTimeout(c)
      PROVE  DbInv'
  BY <1>2, <1>5, TimeoutStep, TimeoutCallStep
<1>6. ASSUME NEW c \in Callers, NEW out \in {"ok", "rows", "fails"}, Statement(c, out)
      PROVE  DbInv'
  BY <1>2, <1>6, StatementStep, StatementCallStep
<1>7. ASSUME NEW c \in Callers, NEW ok \in BOOLEAN, Commit(c, ok)
      PROVE  DbInv'
  BY <1>2, <1>7, CommitStep, CommitCallStep
<1>8. ASSUME NEW o \in db.orphans, NEW ok \in BOOLEAN, LateStatement(o, ok)
      PROVE  DbInv'
  <2>1. DataInv'
    BY <1>8, LateStep
  <2>2. DbSame(db, db', {"orphans", "rows"})
    BY <1>0, <1>8 DEF LateStatement, DbSame, DbRec, DbFields
  <2>3. db'.call = db.call /\ db'.permits = db.permits /\ db'.conns = db.conns
        /\ DbSame(db, db', {"call", "log", "permits", "conns", "rows", "pending", "orphans"})
    BY <2>2 DEF DbSame, DbFields
  <2>4. SlotsInv'
    BY <2>3 DEF SlotsInv, SlotsReturned
  <2> QED
    BY <2>1, <2>3, <2>4, RestSame
<1>9. ASSUME NEW s \in Samples, BindParam(s[1], s[2], s[3])
      PROVE  DbInv'
  <2>1. DbSame(db, db', {"bound"}) /\ ParamKept'
    BY <1>9, BindStep
  <2>2. DataInv'
    <3>1. DbSame(db, db', {"conn", "pool", "driver", "bound", "permits", "conns"})
      BY <2>1 DEF DbSame
    <3> QED
      BY <3>1, DataSame
  <2>3. /\ db'.call = db.call /\ db'.permits = db.permits /\ db'.conns = db.conns /\ db'.conn = db.conn
        /\ db'.pool = db.pool /\ db'.driver = db.driver
    BY <2>1 DEF DbSame, DbFields
  <2>4. SlotsInv' /\ ConnInv'
    BY <2>3 DEF SlotsInv, SlotsReturned, ConnInv
  <2> QED
    BY <2>1, <2>2, <2>4
<1> QED
  BY <1>1, <1>3, <1>4, <1>5, <1>6, <1>7, <1>8, <1>9 DEF DbNext, Calls

\* All or nothing for a transaction, everything for Ok: what the log entries say.
LEMMA AtomicFromLog ==
    ASSUME DataInv
    PROVE  TransactionAtomic
<1> SUFFICES ASSUME NEW l \in db.log
             PROVE  LET done == {e.i : e \in {x \in db.rows : x.c = l.c /\ x.n = l.n}}
                    IN  /\ l.kind = "transaction" => done \in {{}, 1..Statements}
                        /\ l.ans = "ok" => done = 1..Length(l.kind)
  BY DEF TransactionAtomic
<1> DEFINE R == {x \in db.rows : x.c = l.c /\ x.n = l.n}
           done == {e.i : e \in R}
<1>1. \A e \in R : e.i \in Places /\ e = Eff(l.c, l.n, e.i)
  BY DEF DataInv, DbTypeOK
<1>2. \A i \in Places : i \in done <=> Eff(l.c, l.n, i) \in db.rows
  BY <1>1, EffIs
<1>3. done \subseteq Places
  BY <1>1
<1> HIDE DEF done
<1>4. ASSUME NEW m \in Nat, FirstOf(db.rows, l, m) PROVE done = 1 .. m
  <2>1. \A i \in Places : i \in done <=> i <= m
    BY <1>2, <1>4 DEF FirstOf
  <2>2. \A i : i \in 1 .. m <=> i \in Places /\ i <= m
    BY DEF Places
  <2> QED
    BY <1>3, <2>1, <2>2
<1>5. Absent(db.rows, l) => done = {}
  BY <1>2, <1>3 DEF Absent
<1>6. l.kind = "transaction" => done \in {{}, 1..Statements}
  BY <1>4, <1>5, PoolSizes DEF DataInv, LogInv
<1>7. l.ans = "ok" => done = 1..Length(l.kind)
  BY <1>4, LengthIs DEF DataInv, LogInv, Places
<1> QED
  BY <1>6, <1>7 DEF done

\* For any number of callers, connectors, permits, connections and statements and any
\* integer widths: transactions are atomic and batches prefixes also when a statement
\* arrives after its call timed out, every permit and connection comes back, one pool is
\* stored, and a number that fits its column is never sent as another (doo_ffi_db).
THEOREM DbIsSound == DbSpec => []DbSound
<1>1. DbInv /\ UNCHANGED db => DbInv'
  <2> SUFFICES ASSUME DbInv, db' = db PROVE DbInv'
    OBVIOUS
  <2>1. DataInv'
    <3>1. DbSame(db, db', {"conn", "pool", "driver", "bound", "permits", "conns"})
      BY DEF DbSame, DbInv, DataInv, DbTypeOK
    <3> QED
      BY <3>1, DataSame DEF DbInv
  <2> QED
    BY <2>1 DEF DbInv, SlotsInv, SlotsReturned, ConnInv, ParamKept
<1>2. DbInv /\ [DbNext]_db => DbInv'
  BY <1>1, DbKept
<1>3. DbInv => DbSound
  BY OnePoolHolds, AtomicFromLog DEF DbInv, DbSound, DataInv, SlotsInv
<1> QED
  BY <1>2, <1>3, DbStart, PTL DEF DbSpec

-----------------------------------------------------------------------------
\* Routes.

\* The states of the registry; Seq(Middleware) is what a route runs through.
RouteEntries == [method : Methods, pattern : Patterns, owner : {"user", "package", "deferred"}, mws : Seq(Middleware)]
Deferrals == [method : Methods, pattern : Patterns, mws : Seq(Middleware)]
Promises == [method : Methods, pattern : Patterns, mw : Middleware]
Registries == [routes : Seq(RouteEntries), global : Seq(Middleware), known : SUBSET Middleware, handlers : BOOLEAN,
               package : SUBSET (Methods \X Patterns), deferred : Seq(Deferrals), frozen : BOOLEAN, ops : Nat, due : SUBSET Promises]
\* The entries of s are still there in t, where they were.
Extends(s, t) == \A i \in DOMAIN s.routes : i \in DOMAIN t.routes /\ t.routes[i] = s.routes[i]
\* No deferred route is there before the freeze, nor ever in the place of a package's.
DeferredWait(r) == \A i \in DOMAIN r.routes : r.routes[i].owner = "deferred" =>
                        r.frozen /\ <<r.routes[i].method, r.routes[i].pattern>> \notin r.package
\* What is promised is in an entry.
Has(r, d) == \E i \in DOMAIN r.routes : /\ r.routes[i].method = d.method /\ r.routes[i].pattern = d.pattern
                                        /\ Contains(r.routes[i].mws, d.mw)
PromisesKept(r) == \A d \in r.due : Has(r, d)
RegistryOK(r) == r \in Registries /\ DeferredWait(r) /\ PromisesKept(r)
RegistryInv == RegistryOK(rr)

\* A sequence contains the elements of its range.
LEMMA ContainsIs == \A s \in Seq(Middleware) : \A x : Contains(s, x) <=> x \in Range(s)
  BY DEF Contains, Range

\* What is added to an entry's middleware does not push another one out.
LEMMA ContainsConcat ==
    ASSUME NEW a \in Seq(Middleware), NEW b \in Seq(Middleware)
    PROVE  a \o b \in Seq(Middleware) /\ \A x \in Range(a) \cup Range(b) : Contains(a \o b, x)
<1> DEFINE c == a \o b
<1>1. /\ c \in Seq(Middleware) /\ Len(c) = Len(a) + Len(b) /\ Len(a) \in Nat /\ Len(b) \in Nat
      /\ \A i \in 1..Len(a) : c[i] = a[i]
      /\ \A i \in 1..Len(b) : c[Len(a) + i] = b[i]
  OBVIOUS
<1> HIDE DEF c
<1>2. DOMAIN c = 1..(Len(a) + Len(b)) /\ DOMAIN a = 1..Len(a) /\ DOMAIN b = 1..Len(b)
  BY <1>1
<1>3. /\ \A i \in 1..Len(a) : i \in 1..(Len(a) + Len(b))
      /\ \A i \in 1..Len(b) : Len(a) + i \in 1..(Len(a) + Len(b))
  BY <1>1
<1>4. \A x \in Range(a) : x \in Range(c)
  BY <1>1, <1>2, <1>3 DEF Range
<1>5. \A x \in Range(b) : x \in Range(c)
  <2> SUFFICES ASSUME NEW i \in DOMAIN b PROVE b[i] \in Range(c)
    BY DEF Range
  <2>1. Len(a) + i \in DOMAIN c /\ c[Len(a) + i] = b[i]
    BY <1>1, <1>2, <1>3
  <2> QED BY <2>1 DEF Range
<1> QED BY <1>1, <1>4, <1>5, ContainsIs DEF c

\* The middleware a route names: those that are known, none else.
LEMMA KnownIs ==
    ASSUME NEW names \in Seq(Middleware), NEW known
    PROVE  KnownOf(names, known) \in Seq(Middleware) /\ Range(names) \cap known \subseteq Range(KnownOf(names, known))
<1> DEFINE n == Len(names)
           T == Seq(Middleware)
           Step(i, s) == IF names[i] \in known THEN Append(s, names[i]) ELSE s
           body == [x \in (1..n) \X T |-> Step(x[1], x[2])]
           G(g) == [i \in 0..n |-> IF i = 0 THEN <<>> ELSE IF names[i] \in known THEN Append(g[i - 1], names[i]) ELSE g[i - 1]]
           K == CHOOSE g : g = G(g)
<1>1. n \in Nat /\ DOMAIN names = 1..n /\ \A i \in 1..n : names[i] \in Middleware
  OBVIOUS
<1>2. \A i \in 1..n : \A s \in T : Step(i, s) \in T /\ body[<<i, s>>] = Step(i, s)
  BY <1>1
<1>3. LoopBody(n, T, body) /\ <<>> \in T
  BY <1>2 DEF LoopBody
<1> HIDE DEF body, T, Step, n
<1>4. PICK g : LoopStates(n, T, <<>>, body, g)
  BY <1>1, <1>3, LoopRuns
<1>5. g = G(g)
  <2>1. /\ g \in [0..n -> T] /\ g[0] = <<>> /\ \A i \in 1..n : g[i] = body[<<i, g[i - 1]>>]
    BY <1>4 DEF LoopStates
  <2>2. \A i \in 1..n : i - 1 \in 0..n /\ g[i - 1] \in T
    BY <1>1, <2>1
  <2>3. \A i \in 1..n : g[i] = IF names[i] \in known THEN Append(g[i - 1], names[i]) ELSE g[i - 1]
    BY <1>2, <2>1, <2>2 DEF Step
  <2>4. \A i \in 0..n : i = 0 \/ i \in 1..n
    BY <1>1
  <2>5. \A i \in 0..n : g[i] = IF i = 0 THEN <<>> ELSE IF names[i] \in known THEN Append(g[i - 1], names[i]) ELSE g[i - 1]
    BY <2>1, <2>3, <2>4
  <2> QED BY <2>1, <2>5
<1>6. K = G(K)
  BY <1>5
<1>7. KnownOf(names, known) = K[n]
  BY DEF KnownOf, n
<1> HIDE DEF K
<1>8. K[0] = <<>> /\ \A i \in 1..n : K[i] = IF names[i] \in known THEN Append(K[i - 1], names[i]) ELSE K[i - 1]
  <2>1. 0 \in 0..n /\ \A i \in 1..n : i \in 0..n /\ i # 0
    BY <1>1
  <2> QED BY <1>6, <2>1
<1> DEFINE Holds(i) == K[i] \in T /\ \A j \in 1..i : names[j] \in known => names[j] \in Range(K[i])
           S == {i \in 0..n : Holds(i)}
<1>9. 0 \in S
  BY <1>1, <1>3, <1>8
<1>10. ASSUME NEW i \in 1..n, i - 1 \in S PROVE i \in S
  <2> DEFINE s == K[i - 1]
  <2>1. s \in T /\ (\A j \in 1..(i - 1) : names[j] \in known => names[j] \in Range(s)) /\ K[i] = Step(i, s)
    BY <1>8, <1>10 DEF Step
  <2>2. names[i] \in Middleware /\ i \in 0..n /\ \A j \in 1..i : j = i \/ j \in 1..(i - 1)
    BY <1>1
  <2> HIDE DEF s
  <2>3. \A u \in Seq(Middleware) : \A x \in Middleware : Append(u, x) \in Seq(Middleware) /\ x \in Range(Append(u, x)) /\ Range(u) \subseteq Range(Append(u, x))
    <3> SUFFICES ASSUME NEW u \in Seq(Middleware), NEW x \in Middleware
                 PROVE  Append(u, x) \in Seq(Middleware) /\ x \in Range(Append(u, x)) /\ Range(u) \subseteq Range(Append(u, x))
      OBVIOUS
    <3> DEFINE a == Append(u, x)
    <3>1. a \in Seq(Middleware) /\ Len(a) = Len(u) + 1 /\ a[Len(u) + 1] = x /\ (\A k \in 1..Len(u) : a[k] = u[k]) /\ Len(u) \in Nat
      OBVIOUS
    <3> HIDE DEF a
    <3>2. DOMAIN a = 1..(Len(u) + 1) /\ DOMAIN u = 1..Len(u) /\ Len(u) + 1 \in 1..(Len(u) + 1) /\ \A k \in 1..Len(u) : k \in 1..(Len(u) + 1)
      BY <3>1
    <3>3. x \in Range(a) /\ Range(u) \subseteq Range(a)
      BY <3>1, <3>2 DEF Range
    <3> QED BY <3>1, <3>3 DEF a
  <2>4. CASE names[i] \in known
    <3>1. K[i] = Append(s, names[i])
      BY <2>1, <2>4 DEF Step
    <3>2. K[i] \in T /\ names[i] \in Range(K[i]) /\ Range(s) \subseteq Range(K[i])
      BY <2>1, <2>2, <2>3, <3>1 DEF T
    <3> QED BY <2>1, <2>2, <3>2
  <2>5. CASE names[i] \notin known
    BY <2>1, <2>2, <2>5 DEF Step
  <2> QED BY <2>4, <2>5
<1> HIDE DEF S
<1>11. \A i \in 0..n : i \in S
  BY <1>1, <1>9, <1>10, UpTo
<1>12. K[n] \in T /\ \A j \in 1..n : names[j] \in known => names[j] \in Range(K[n])
  BY <1>1, <1>11 DEF S
<1> QED BY <1>1, <1>7, <1>12 DEF T, Range

\* An entry is added at the end, unless there is one for the same request.
LEMMA InsertIs ==
    ASSUME NEW r \in Registries, NEW m \in Methods, NEW p \in Patterns, NEW o \in {"user", "package", "deferred"}, NEW w \in Seq(Middleware)
    PROVE  LET t == Insert(r, m, p, o, w)
               e == [method |-> m, pattern |-> p, owner |-> o, mws |-> w]
           IN  /\ t \in Registries /\ Extends(r, t)
               /\ t.global = r.global /\ t.known = r.known /\ t.handlers = r.handlers /\ t.package = r.package
               /\ t.deferred = r.deferred /\ t.frozen = r.frozen /\ t.ops = r.ops /\ t.due = r.due
               /\ \A i \in DOMAIN t.routes : i \in DOMAIN r.routes \/ t.routes[i] = e
               /\ ~HasRoute(r, m, p) => \E i \in DOMAIN t.routes : t.routes[i] = e
<1> DEFINE t == Insert(r, m, p, o, w)
           e == [method |-> m, pattern |-> p, owner |-> o, mws |-> w]
<1>1. CASE HasRoute(r, m, p)
  <2>1. t = r
    BY <1>1 DEF Insert
  <2> QED BY <1>1, <2>1 DEF Extends
<1>2. CASE ~HasRoute(r, m, p)
  <2> DEFINE s == r.routes
             a == Append(s, e)
  <2>1. e \in RouteEntries
    BY DEF RouteEntries
  <2>2. t = [r EXCEPT !.routes = a]
    BY <1>2 DEF Insert
  <2>3. s \in Seq(RouteEntries)
    BY DEF Registries
  <2> HIDE DEF e
  <2>4. /\ a \in Seq(RouteEntries) /\ Len(a) = Len(s) + 1 /\ a[Len(s) + 1] = e /\ (\A k \in 1..Len(s) : a[k] = s[k]) /\ Len(s) \in Nat
    BY <2>1, <2>3
  <2>5. t \in Registries /\ t.routes = a
           /\ t.global = r.global /\ t.known = r.known /\ t.handlers = r.handlers /\ t.package = r.package
           /\ t.deferred = r.deferred /\ t.frozen = r.frozen /\ t.ops = r.ops /\ t.due = r.due
    <3> HIDE DEF a
    <3> QED BY <2>2, <2>4 DEF Registries
  <2> HIDE DEF a, t
  <2>6. DOMAIN a = 1..(Len(s) + 1) /\ DOMAIN s = 1..Len(s)
    BY <2>3, <2>4
  <2>7. /\ \A k \in 1..Len(s) : k \in 1..(Len(s) + 1)
        /\ Len(s) + 1 \in 1..(Len(s) + 1) /\ \A k \in 1..(Len(s) + 1) : k = Len(s) + 1 \/ k \in 1..Len(s)
    BY <2>4
  <2>8. Extends(r, t)
    BY <2>4, <2>5, <2>6, <2>7 DEF Extends
  <2>9. \A i \in DOMAIN t.routes : i \in DOMAIN r.routes \/ t.routes[i] = e
    BY <2>4, <2>5, <2>6, <2>7
  <2>10. \E i \in DOMAIN t.routes : t.routes[i] = e
    BY <2>4, <2>5, <2>6, <2>7
  <2> QED BY <2>5, <2>8, <2>9, <2>10 DEF t, e
<1> QED BY <1>1, <1>2

\* What an entry holds, it holds as long as the entries stay.
LEMMA HasStays ==
    ASSUME NEW r, NEW t, Extends(r, t), NEW d, Has(r, d)
    PROVE  Has(t, d)
  BY DEF Has, Extends

\* A call before the freeze that adds no deferred route, takes none away and keeps the
\* promises it makes leaves the registry right.
LEMMA CallOK ==
    ASSUME NEW r, RegistryOK(r), ~r.frozen, NEW u \in Registries, NEW t, t = Counted(u), Extends(r, u), ~u.frozen,
           \A i \in DOMAIN u.routes : i \in DOMAIN r.routes \/ u.routes[i].owner # "deferred",
           \A d \in u.due : d \in r.due \/ Has(u, d)
    PROVE  RegistryOK(t) /\ Extends(r, t)
<1>1. /\ t \in Registries /\ t.routes = u.routes /\ t.due = u.due /\ t.frozen = u.frozen /\ t.package = u.package
  BY DEF Counted, Registries
<1>2. Extends(r, t)
  BY <1>1 DEF Extends
<1>3. DeferredWait(t)
  BY <1>1, <1>2 DEF DeferredWait, Extends, RegistryOK
<1>4. PromisesKept(t)
  <2> SUFFICES ASSUME NEW d \in t.due PROVE Has(t, d)
    BY DEF PromisesKept
  <2>1. CASE d \in r.due
    BY <1>2, <2>1, HasStays DEF RegistryOK, PromisesKept
  <2>2. CASE Has(u, d)
    BY <1>1, <2>2 DEF Has
  <2> QED BY <1>1, <2>1, <2>2
<1> QED BY <1>1, <1>2, <1>3, <1>4 DEF RegistryOK

\* A call that leaves routes and promises alone leaves the registry right.
LEMMA QuietCallOK ==
    ASSUME NEW r, RegistryOK(r), ~r.frozen, NEW u \in Registries, NEW t, t = Counted(u),
           u.routes = r.routes, u.due = r.due, ~u.frozen
    PROVE  RegistryOK(t) /\ Extends(r, t)
<1>1. Extends(r, u)
  BY DEF Extends
<1> QED BY <1>1, CallOK

\* app.use(f) adds f to the global middleware once.
LEMMA AddMiddlewareOK ==
    ASSUME RegistryOK(rr), NEW mw \in Middleware, AddMiddleware(mw)
    PROVE  RegistryOK(rr') /\ Extends(rr, rr')
<1> DEFINE g == IF Contains(rr.global, mw) THEN rr.global ELSE Append(rr.global, mw)
           u == [rr EXCEPT !.global = g]
<1>1. rr \in Registries /\ rr.global \in Seq(Middleware) /\ ~rr.frozen /\ rr' = Counted(u)
  BY DEF RegistryOK, AddMiddleware, Registries, Open
<1>2. g \in Seq(Middleware)
  BY <1>1
<1> HIDE DEF g
<1>3. u \in Registries /\ u.routes = rr.routes /\ u.due = rr.due /\ u.frozen = rr.frozen
  BY <1>1, <1>2 DEF Registries
<1> HIDE DEF u
<1> QED BY <1>1, <1>3, QuietCallOK

\* A middleware function becomes known by its name.
LEMMA RegisterMiddlewareOK ==
    ASSUME RegistryOK(rr), NEW mw \in Middleware, RegisterMiddleware(mw)
    PROVE  RegistryOK(rr') /\ Extends(rr, rr')
<1> DEFINE u == [rr EXCEPT !.known = @ \cup {mw}]
<1>1. rr \in Registries /\ ~rr.frozen /\ rr' = Counted(u)
  BY DEF RegistryOK, RegisterMiddleware, Open
<1>2. u \in Registries /\ u.routes = rr.routes /\ u.due = rr.due /\ u.frozen = rr.frozen
  BY <1>1 DEF Registries
<1> HIDE DEF u
<1> QED BY <1>1, <1>2, QuietCallOK

\* The named handler is registered.
LEMMA RegisterHandlerOK ==
    ASSUME RegistryOK(rr), RegisterHandler
    PROVE  RegistryOK(rr') /\ Extends(rr, rr')
<1> DEFINE u == [rr EXCEPT !.handlers = TRUE]
<1>1. rr \in Registries /\ ~rr.frozen /\ rr' = Counted(u)
  BY DEF RegistryOK, RegisterHandler, Open
<1>2. u \in Registries /\ u.routes = rr.routes /\ u.due = rr.due /\ u.frozen = rr.frozen
  BY <1>1 DEF Registries
<1> HIDE DEF u
<1> QED BY <1>1, <1>2, QuietCallOK

\* A deferred route only waits.
LEMMA DeferRouteOK ==
    ASSUME RegistryOK(rr), NEW m \in Methods, NEW p \in Patterns, NEW names \in Seq(Middleware), DeferRoute(m, p, names)
    PROVE  RegistryOK(rr') /\ Extends(rr, rr')
<1> DEFINE e == [method |-> m, pattern |-> p, mws |-> names]
           w == Append(rr.deferred, e)
           u == [rr EXCEPT !.deferred = w]
<1>1. rr \in Registries /\ rr.deferred \in Seq(Deferrals) /\ ~rr.frozen /\ rr' = Counted(u)
  BY DEF RegistryOK, DeferRoute, Open, Registries
<1>2. e \in Deferrals
  BY DEF Deferrals
<1> HIDE DEF e
<1>3. w \in Seq(Deferrals)
  BY <1>1, <1>2
<1> HIDE DEF w
<1>4. u \in Registries /\ u.routes = rr.routes /\ u.due = rr.due /\ u.frozen = rr.frozen
  BY <1>1, <1>3 DEF Registries
<1> HIDE DEF u
<1> QED BY <1>1, <1>4, QuietCallOK

\* A route is registered with middleware w that holds all that is wanted; k may know more.
LEMMA PromiseOK ==
    ASSUME NEW r, RegistryOK(r), ~r.frozen, NEW k \in Registries, k.routes = r.routes, k.due = r.due, ~k.frozen,
           NEW m \in Methods, NEW p \in Patterns, NEW w \in Seq(Middleware), ~HasRoute(r, m, p),
           NEW wanted \in SUBSET Middleware, \A x \in wanted : Contains(w, x),
           NEW t, t = Counted(Promise(Insert(k, m, p, "user", w), m, p, wanted))
    PROVE  RegistryOK(t) /\ Extends(r, t)
<1> DEFINE v == Insert(k, m, p, "user", w)
           e == [method |-> m, pattern |-> p, owner |-> "user", mws |-> w]
           new == {[method |-> m, pattern |-> p, mw |-> x] : x \in wanted}
           u == Promise(v, m, p, wanted)
<1>1. ~HasRoute(k, m, p)
  BY DEF HasRoute
<1>2. /\ v \in Registries /\ Extends(k, v) /\ v.due = k.due /\ v.frozen = k.frozen
      /\ \A i \in DOMAIN v.routes : i \in DOMAIN k.routes \/ v.routes[i] = e
      /\ \E i \in DOMAIN v.routes : v.routes[i] = e
  BY <1>1, InsertIs
<1>3. new \subseteq Promises
  BY DEF Promises
<1> HIDE DEF v
<1>4. u = [v EXCEPT !.due = @ \cup new]
  BY DEF Promise
<1>5. e.owner = "user" /\ e.method = m /\ e.pattern = p /\ e.mws = w
  OBVIOUS
<1> HIDE DEF u, e
<1>6. u \in Registries /\ u.routes = v.routes /\ u.due = v.due \cup new /\ u.frozen = v.frozen
  <2> HIDE DEF new
  <2> QED BY <1>2, <1>3, <1>4 DEF Registries
<1>7. Extends(r, u)
  BY <1>2, <1>6 DEF Extends
<1>8. \A i \in DOMAIN u.routes : i \in DOMAIN r.routes \/ u.routes[i].owner # "deferred"
  BY <1>2, <1>5, <1>6
<1>9. \A d \in u.due : d \in r.due \/ Has(u, d)
  <2> SUFFICES ASSUME NEW d \in new PROVE Has(u, d)
    BY <1>2, <1>6
  <2>1. PICK x \in wanted : d = [method |-> m, pattern |-> p, mw |-> x]
    OBVIOUS
  <2>2. d.method = m /\ d.pattern = p /\ d.mw = x
    BY <2>1
  <2> QED BY <1>2, <1>5, <1>6, <2>2 DEF Has
<1> QED BY <1>2, <1>6, <1>7, <1>8, <1>9, CallOK DEF u, v

\* A route of the user runs through the global middleware of the moment.
LEMMA RegisterOK ==
    ASSUME RegistryOK(rr), NEW m \in Methods, NEW p \in Patterns, Register(m, p) \/ RegisterByName(m, p)
    PROVE  RegistryOK(rr') /\ Extends(rr, rr')
<1> DEFINE w == rr.global
           wanted == Range(w)
<1>1. rr \in Registries /\ w \in Seq(Middleware) /\ ~rr.frozen
  BY DEF RegistryOK, Register, RegisterByName, Open, Registries
<1>2. rr' = Counted(rr) \/ (~HasRoute(rr, m, p) /\ rr' = Counted(Promise(Insert(rr, m, p, "user", w), m, p, wanted)))
  BY DEF Register, RegisterByName, Insert
<1> HIDE DEF w
<1>3. wanted \in SUBSET Middleware /\ \A x \in wanted : Contains(w, x)
  BY <1>1, ContainsIs DEF Range
<1> HIDE DEF wanted
<1>4. CASE rr' = Counted(rr)
  BY <1>1, <1>4, QuietCallOK
<1>5. CASE ~HasRoute(rr, m, p) /\ rr' = Counted(Promise(Insert(rr, m, p, "user", w), m, p, wanted))
  BY <1>1, <1>3, <1>5, PromiseOK
<1> QED BY <1>2, <1>4, <1>5

\* A route with middleware of its own runs through the global and the known ones it names.
LEMMA RegisterWithMiddlewareOK ==
    ASSUME RegistryOK(rr), NEW m \in Methods, NEW p \in Patterns, NEW names \in Seq(Middleware),
           RegisterWithMiddleware(m, p, names)
    PROVE  RegistryOK(rr') /\ Extends(rr, rr')
<1> DEFINE g == rr.global
           known == rr.known \cup (Range(names) \cap BuiltinMiddleware)
           own == KnownOf(names, known)
           w == g \o own
           k == [rr EXCEPT !.known = known]
           wanted == Range(g) \cup (Range(names) \cap (BuiltinMiddleware \cup rr.known))
<1>1. rr \in Registries /\ g \in Seq(Middleware) /\ ~rr.frozen /\ rr.known \subseteq Middleware
  BY DEF RegistryOK, RegisterWithMiddleware, Open, Registries
<1>2. rr' = Counted(IF HasRoute(rr, m, p) THEN k ELSE Promise(Insert(k, m, p, "user", w), m, p, wanted))
  BY DEF RegisterWithMiddleware, Resolve
<1>3. Range(names) \subseteq Middleware /\ Range(g) \subseteq Middleware
  BY <1>1 DEF Range
<1>4. known \subseteq Middleware /\ wanted \subseteq Range(g) \cup (Range(names) \cap known) /\ wanted \in SUBSET Middleware
  BY <1>1, <1>3, MiddlewareNames
<1> HIDE DEF known, wanted, g
<1>5. own \in Seq(Middleware) /\ Range(names) \cap known \subseteq Range(own)
  BY KnownIs
<1>6. k \in Registries /\ k.routes = rr.routes /\ k.due = rr.due /\ k.frozen = rr.frozen
  BY <1>1, <1>4 DEF Registries
<1> HIDE DEF own, k
<1>7. w \in Seq(Middleware) /\ \A x \in wanted : Contains(w, x)
  BY <1>1, <1>4, <1>5, ContainsConcat
<1> HIDE DEF w
<1>8. CASE HasRoute(rr, m, p)
  BY <1>1, <1>2, <1>6, <1>8, QuietCallOK
<1>9. CASE ~HasRoute(rr, m, p)
  <2>1. rr' = Counted(Promise(Insert(k, m, p, "user", w), m, p, wanted))
    BY <1>2, <1>9
  <2> QED BY <1>1, <1>4, <1>6, <1>7, <1>9, <2>1, PromiseOK
<1> QED BY <1>8, <1>9

\* A package claims its key, and has the route if nobody had it before.
LEMMA RegisterPackageOK ==
    ASSUME RegistryOK(rr), NEW m \in Methods, NEW p \in Patterns, RegisterPackage(m, p)
    PROVE  RegistryOK(rr') /\ Extends(rr, rr')
<1> DEFINE k == [rr EXCEPT !.package = @ \cup {<<m, p>>}]
           w == <<>>
           u == Insert(k, m, p, "package", w)
           e == [method |-> m, pattern |-> p, owner |-> "package", mws |-> w]
<1>1. rr \in Registries /\ ~rr.frozen /\ rr' = Counted(u)
  BY DEF RegistryOK, RegisterPackage, Open
<1>2. k \in Registries /\ k.routes = rr.routes /\ k.due = rr.due /\ k.frozen = rr.frozen
  BY <1>1 DEF Registries
<1>3. w \in Seq(Middleware)
  OBVIOUS
<1> HIDE DEF k, w
<1>4. u \in Registries /\ Extends(k, u) /\ u.due = k.due /\ u.frozen = k.frozen
      /\ \A i \in DOMAIN u.routes : i \in DOMAIN k.routes \/ u.routes[i] = e
  BY <1>2, <1>3, InsertIs
<1>5. e.owner = "package"
  OBVIOUS
<1> HIDE DEF u, e
<1>6. Extends(rr, u) /\ ~u.frozen /\ \A i \in DOMAIN u.routes : i \in DOMAIN rr.routes \/ u.routes[i].owner # "deferred"
  BY <1>1, <1>2, <1>4, <1>5 DEF Extends
<1>7. \A d \in u.due : d \in rr.due
  BY <1>2, <1>4
<1> QED BY <1>1, <1>4, <1>6, <1>7, CallOK

\* The state of the freeze from r: entries stay, and a deferred one is in no package's place.
Settling(r, s) == /\ Extends(r, s) /\ s.package = r.package /\ s.due = r.due
                  /\ \A i \in DOMAIN s.routes : s.routes[i].owner = "deferred" =>
                        <<s.routes[i].method, s.routes[i].pattern>> \notin r.package

\* Settling one deferred route keeps that.
LEMMA SettleOK ==
    ASSUME NEW r, NEW s \in Registries, NEW d \in Deferrals
    PROVE  Settle(s, d) \in Registries /\ (Settling(r, s) => Settling(r, Settle(s, d)))
<1> DEFINE m == d.method
           p == d.pattern
           w == s.global \o d.mws
           t == Insert(s, m, p, "deferred", w)
           e == [method |-> m, pattern |-> p, owner |-> "deferred", mws |-> w]
<1>1. m \in Methods /\ p \in Patterns /\ d.mws \in Seq(Middleware) /\ s.global \in Seq(Middleware)
  BY DEF Deferrals, Registries
<1>2. w \in Seq(Middleware)
  BY <1>1
<1>3. e.method = m /\ e.pattern = p
  OBVIOUS
<1>4. CASE <<m, p>> \in s.package
  BY <1>4 DEF Settle
<1>5. CASE <<m, p>> \notin s.package
  <2>1. Settle(s, d) = t
    BY <1>5 DEF Settle
  <2> HIDE DEF m, p, w
  <2>2. t \in Registries /\ Extends(s, t) /\ t.package = s.package /\ t.due = s.due
        /\ \A i \in DOMAIN t.routes : i \in DOMAIN s.routes \/ t.routes[i] = e
    BY <1>1, <1>2, InsertIs
  <2> HIDE DEF t, e
  <2>3. ASSUME Settling(r, s) PROVE Settling(r, t)
    <3>1. Extends(r, t) /\ t.package = r.package /\ t.due = r.due
      BY <2>2, <2>3 DEF Settling, Extends
    <3>2. ASSUME NEW i \in DOMAIN t.routes, t.routes[i].owner = "deferred"
          PROVE  <<t.routes[i].method, t.routes[i].pattern>> \notin r.package
      <4>1. CASE i \in DOMAIN s.routes
        BY <2>2, <2>3, <3>2, <4>1 DEF Settling, Extends
      <4>2. CASE t.routes[i] = e
        BY <1>3, <1>5, <2>3, <4>2 DEF Settling
      <4> QED BY <2>2, <4>1, <4>2
    <3> QED BY <3>1, <3>2 DEF Settling
  <2> QED BY <2>1, <2>2, <2>3
<1> QED BY <1>4, <1>5

\* And so settling them all does.
LEMMA FreezeRoutesOK ==
    ASSUME NEW r \in Registries, Settling(r, r)
    PROVE  FreezeRoutes(r) \in Registries /\ Settling(r, FreezeRoutes(r))
<1> DEFINE q == r.deferred
           n == Len(q)
           T == Registries
           body == [x \in (1..n) \X T |-> Settle(x[2], q[x[1]])]
           G(g) == [k \in 0..n |-> IF k = 0 THEN r ELSE Settle(g[k - 1], q[k])]
           K == CHOOSE g : g = G(g)
<1>1. q \in Seq(Deferrals)
  BY DEF Registries
<1>2. n \in Nat /\ \A i \in 1..n : q[i] \in Deferrals
  BY <1>1
<1> HIDE DEF q, n, T
<1>3. \A i \in 1..n : \A s \in T : Settle(s, q[i]) \in T /\ body[<<i, s>>] = Settle(s, q[i])
  BY <1>2, SettleOK DEF T
<1>4. LoopBody(n, T, body) /\ r \in T
  BY <1>3 DEF LoopBody, T
<1> HIDE DEF body
<1>5. PICK g : LoopStates(n, T, r, body, g)
  BY <1>2, <1>4, LoopRuns
<1>6. g = G(g)
  <2>1. /\ g \in [0..n -> T] /\ g[0] = r /\ \A i \in 1..n : g[i] = body[<<i, g[i - 1]>>]
    BY <1>5 DEF LoopStates
  <2>2. \A i \in 1..n : i - 1 \in 0..n /\ g[i - 1] \in T
    BY <1>2, <2>1
  <2>3. \A i \in 1..n : g[i] = Settle(g[i - 1], q[i])
    BY <1>3, <2>1, <2>2
  <2>4. \A i \in 0..n : i = 0 \/ i \in 1..n
    BY <1>2
  <2>5. \A i \in 0..n : g[i] = IF i = 0 THEN r ELSE Settle(g[i - 1], q[i])
    BY <2>1, <2>3, <2>4
  <2> QED BY <2>1, <2>5
<1>7. K = G(K)
  BY <1>6
<1>8. FreezeRoutes(r) = K[n]
  BY DEF FreezeRoutes, n, q
<1> HIDE DEF K
<1>9. K[0] = r /\ \A i \in 1..n : K[i] = Settle(K[i - 1], q[i])
  <2>1. 0 \in 0..n /\ \A i \in 1..n : i \in 0..n /\ i # 0
    BY <1>2
  <2> QED BY <1>7, <2>1
<1> DEFINE S == {i \in 0..n : K[i] \in T /\ Settling(r, K[i])}
<1>10. 0 \in S
  BY <1>2, <1>4, <1>9
<1>11. ASSUME NEW i \in 1..n, i - 1 \in S PROVE i \in S
  <2>1. i \in 0..n
    BY <1>2
  <2>2. K[i - 1] \in Registries /\ Settling(r, K[i - 1]) /\ q[i] \in Deferrals
    BY <1>2, <1>11 DEF T
  <2>3. K[i] \in Registries /\ Settling(r, K[i])
    BY <1>9, <2>2, SettleOK
  <2> QED BY <2>1, <2>3 DEF T
<1> HIDE DEF S
<1>12. n \in S
  BY <1>2, <1>10, <1>11, UpTo
<1> QED BY <1>8, <1>12 DEF S, T

\* The freeze settles the deferred routes and closes the registry.
LEMMA FreezeOK ==
    ASSUME RegistryOK(rr), Freeze
    PROVE  RegistryOK(rr') /\ Extends(rr, rr')
<1> DEFINE s == FreezeRoutes(rr)
<1>1. rr \in Registries /\ ~rr.frozen /\ rr' = [s EXCEPT !.frozen = TRUE, !.deferred = <<>>]
  BY DEF RegistryOK, Freeze
<1>2. Settling(rr, rr)
  BY <1>1 DEF RegistryOK, DeferredWait, Settling, Extends
<1>3. s \in Registries /\ Settling(rr, s)
  BY <1>1, <1>2, FreezeRoutesOK
<1> HIDE DEF s
<1>4. <<>> \in Seq(Deferrals)
  OBVIOUS
<1>5. rr' \in Registries /\ rr'.routes = s.routes /\ rr'.frozen = TRUE /\ rr'.package = s.package /\ rr'.due = s.due
  BY <1>1, <1>3, <1>4 DEF Registries
<1>6. Extends(rr, rr')
  BY <1>3, <1>5 DEF Settling, Extends
<1>7. DeferredWait(rr')
  BY <1>3, <1>5 DEF Settling, DeferredWait
<1>8. PromisesKept(rr')
  BY <1>3, <1>5, <1>6, HasStays DEF Settling, RegistryOK, PromisesKept
<1> QED BY <1>5, <1>6, <1>7, <1>8 DEF RegistryOK

\* The empty registry is right.
LEMMA RegistryStarts == RegistryInit => RegistryInv
<1> SUFFICES ASSUME RegistryInit PROVE RegistryOK(rr)
  BY DEF RegistryInv
<1>1. <<>> \in Seq(RouteEntries) /\ <<>> \in Seq(Middleware) /\ <<>> \in Seq(Deferrals) /\ DOMAIN <<>> = {}
  OBVIOUS
<1>2. rr \in Registries /\ rr.routes = <<>> /\ rr.due = {}
  BY <1>1 DEF RegistryInit, Registries
<1> QED BY <1>1, <1>2 DEF RegistryOK, DeferredWait, PromisesKept

\* Every call and the freeze keep it right, and every entry in its place.
LEMMA RegistryStep == RegistryInv /\ [RegistryNext]_rr => RegistryInv' /\ Extends(rr, rr')
<1> SUFFICES ASSUME RegistryOK(rr), [RegistryNext]_rr PROVE RegistryOK(rr') /\ Extends(rr, rr')
  BY DEF RegistryInv
<1>1. CASE UNCHANGED rr
  BY <1>1 DEF Extends
<1>2. CASE RegistryNext
  <2>1. ASSUME NEW mw \in Middleware, AddMiddleware(mw) PROVE RegistryOK(rr') /\ Extends(rr, rr')
    BY <2>1, AddMiddlewareOK
  <2>2. ASSUME NEW mw \in Middleware, RegisterMiddleware(mw) PROVE RegistryOK(rr') /\ Extends(rr, rr')
    BY <2>2, RegisterMiddlewareOK
  <2>3. ASSUME NEW m \in Methods, NEW p \in Patterns, Register(m, p) \/ RegisterByName(m, p)
        PROVE  RegistryOK(rr') /\ Extends(rr, rr')
    BY <2>3, RegisterOK
  <2>4. ASSUME NEW m \in Methods, NEW p \in Patterns, RegisterPackage(m, p) PROVE RegistryOK(rr') /\ Extends(rr, rr')
    BY <2>4, RegisterPackageOK
  <2>5. ASSUME NEW m \in Methods, NEW p \in Patterns, NEW a \in Middleware, NEW b \in Middleware,
               RegisterWithMiddleware(m, p, <<a, b>>)
        PROVE  RegistryOK(rr') /\ Extends(rr, rr')
    <3>1. <<a, b>> \in Seq(Middleware)
      OBVIOUS
    <3> QED BY <2>5, <3>1, RegisterWithMiddlewareOK
  <2>6. ASSUME NEW m \in Methods, NEW p \in Patterns, NEW a \in Middleware, DeferRoute(m, p, <<a>>)
        PROVE  RegistryOK(rr') /\ Extends(rr, rr')
    <3>1. <<a>> \in Seq(Middleware)
      OBVIOUS
    <3> QED BY <2>6, <3>1, DeferRouteOK
  <2> QED BY <1>2, <2>1, <2>2, <2>3, <2>4, <2>5, <2>6, RegisterHandlerOK, FreezeOK DEF RegistryNext
<1> QED BY <1>1, <1>2

\* RoutesRight for any number of methods, patterns, middleware and calls: no deferred
\* default is in the place of a package's route, a route keeps the middleware promised
\* at its registration, and no registration changes an earlier one.
THEOREM RoutesAreRight == RegistrySpec => RoutesRight
<1>1. RegistryInv => PackageWins /\ MiddlewareKept
  BY DEF RegistryInv, RegistryOK, DeferredWait, PackageWins, PromisesKept, Has, MiddlewareKept
<1>2. Extends(rr, rr') => FirstRegistrationStays
  BY DEF Extends, FirstRegistrationStays
<1> QED BY <1>1, <1>2, RegistryStarts, RegistryStep, PTL DEF RegistrySpec, RoutesRight

-----------------------------------------------------------------------------
(* Requests: the middlewares, the rate limiter and the threads' variables.  *)
(* RateBounded is not inductive: the windows a client passed in must not    *)
(* overlap and none may be over the limit; CookiesOwn needs threads without *)
(* cookies between two requests, and in the middle of one the cookies of    *)
(* that request only.                                                       *)

\* The requests and what the state is made of.
AllRequests == UNION Batches
Clients == {r.token : r \in AllRequests}
Paths == {"/"} \cup {r.path : r \in AllRequests}
Numbers == {0} \cup {r.id : r \in AllRequests}
ThreadVars == [path : Paths, err : [status : Nat, of : Numbers], cookies : Seq(Numbers)]
Answers == {<<>>} \cup {<<x>> : x \in [status : Nat, of : Paths, cookies : Seq(Numbers)]}
RateEntries == [c : Clients, count : Nat, start : Nat]
Passes == [c : Clients, at : Nat, win : Nat]
DispatchShape(d) ==
    /\ d \in [pc : [DOMAIN d.pc -> {"new", "await", "done"}], tl : [Threads -> ThreadVars],
              resp : [DOMAIN d.pc -> Answers], rate : SUBSET RateEntries, now : Nat,
              admitted : Seq(Passes), users : {d.users}, metrics : Nat, ran : {d.ran}]
    /\ DOMAIN d.pc \subseteq AllRequests

\* The rate limiter.  A client has one entry; what it got through is sorted into
\* windows that do not overlap, the last of them the entry's; no window is over the
\* limit, and the entry has counted what its window let through.
Window(d, c, w) == {k \in 1..Len(d.admitted) : d.admitted[k].c = c /\ d.admitted[k].win = w}
Apart(v, w) == v = w \/ v + RateWindow <= w \/ w + RateWindow <= v
RateKept(d) ==
    /\ \A e \in d.rate : e.start <= d.now
    /\ \A e, f \in d.rate : e.c = f.c => e = f
    /\ \A k \in 1..Len(d.admitted) :
          /\ d.admitted[k].win <= d.admitted[k].at /\ d.admitted[k].at < d.admitted[k].win + RateWindow
          /\ \E e \in d.rate : /\ e.c = d.admitted[k].c
                               /\ d.admitted[k].win = e.start \/ d.admitted[k].win + RateWindow <= e.start
    /\ \A j, k \in 1..Len(d.admitted) : d.admitted[j].c = d.admitted[k].c => Apart(d.admitted[j].win, d.admitted[k].win)
    /\ \A c \in Clients, w \in Nat : Cardinality(Window(d, c, w)) <= RateMax
    /\ \A e \in d.rate : Cardinality(Window(d, e.c, e.start)) <= e.count
RateOK(d) == RateWindow > 0 => RateKept(d)

\* The rest: guards, answers, threads between two requests.
GuardOK(d) == \A r \in d.ran : Contains(RouteOf(r).mws, "jwt") => r.token \in {"valid", "new"}
FitsRequest(r, status, of) ==
    Straight(r) => /\ of = r.path
                   /\ status \in {401, 429} => Contains(RouteOf(r).mws, IF status = 401 THEN "jwt" ELSE "rate")
AnswersOK(d) ==
    \A r \in DOMAIN d.pc : d.resp[r] # <<>> =>
        /\ \A k \in DOMAIN d.resp[r][1].cookies : d.resp[r][1].cookies[k] = r.id
        /\ FitsRequest(r, d.resp[r][1].status, d.resp[r][1].of)
DispatchOK(d) ==
    /\ DispatchShape(d) /\ RateOK(d) /\ GuardOK(d) /\ AnswersOK(d)
    /\ \A t \in Threads : d.tl[t].cookies = <<>>
    /\ \A r \in DOMAIN d.pc : d.pc[r] = "await" => HasBody(r) /\ Matches(r) # {}
DispatchInv == DispatchOK(rq)

\* In the middle of a request r on the thread t, from the state d.
Mid(d, s, r, t) ==
    /\ DispatchShape(s) /\ RateOK(s) /\ GuardOK(s)
    /\ s.pc = d.pc /\ s.resp = d.resp
    /\ \A u \in Threads : u # t => s.tl[u].cookies = <<>>
    /\ \A k \in DOMAIN s.tl[t].cookies : s.tl[t].cookies[k] = r.id
Set(s, r, t) == s.tl[t].path = r.path /\ s.tl[t].err.status = 0
FromMid(d, x, r, t) ==
    /\ Mid(d, x.s, r, t) /\ x.t = t
    /\ x.status \in Nat /\ x.of \in Paths /\ FitsRequest(r, x.status, x.of)

\* The limiter looks at three parts of the state only.
LEMMA RateSame ==
    ASSUME NEW d, RateOK(d), NEW y, y.rate = d.rate, y.now = d.now, y.admitted = d.admitted
    PROVE  RateOK(y)
<1>1. \A c, w : Window(y, c, w) = Window(d, c, w)
  BY DEF Window
<1> SUFFICES ASSUME RateWindow > 0, RateKept(d) PROVE RateKept(y)
  BY DEF RateOK
<1> QED BY <1>1 DEF RateKept

\* A window is a finite set.
LEMMA WindowFinite ==
    ASSUME NEW d, DispatchShape(d), NEW c, NEW w
    PROVE  IsFiniteSet(Window(d, c, w)) /\ Cardinality(Window(d, c, w)) \in Nat
<1> DEFINE n == Len(d.admitted)
<1>1. n \in Nat
  BY DEF DispatchShape
<1>2. Window(d, c, w) \subseteq 1..n
  BY DEF Window
<1> HIDE DEF n
<1>3. IsFiniteSet(1..n)
  BY <1>1, FS_Interval
<1> QED BY <1>2, <1>3, FS_Subset, FS_CardinalityType

\* A response sent ends the request and leaves the thread without cookies.
LEMMA FinishOK ==
    ASSUME NEW d, DispatchOK(d), NEW r \in DOMAIN d.pc, NEW t \in Threads, NEW x, FromMid(d, x, r, t)
    PROVE  DispatchOK(Finish(r, x))
<1> DEFINE s == x.s
           a == [status |-> x.status, of |-> x.of, cookies |-> s.tl[t].cookies]
           y == Finish(r, x)
<1>1. /\ DispatchShape(s) /\ RateOK(s) /\ GuardOK(s) /\ s.pc = d.pc /\ s.resp = d.resp /\ x.t = t
      /\ \A u \in Threads : u # t => s.tl[u].cookies = <<>>
      /\ \A k \in DOMAIN s.tl[t].cookies : s.tl[t].cookies[k] = r.id
      /\ x.status \in Nat /\ x.of \in Paths /\ FitsRequest(r, x.status, x.of)
  BY DEF FromMid, Mid
<1> DEFINE v == [s.tl[t] EXCEPT !.cookies = <<>>]
<1>2. y = [s EXCEPT !.pc = [s.pc EXCEPT ![r] = "done"], !.metrics = s.metrics + 1,
                    !.tl = [s.tl EXCEPT ![t] = v], !.resp = [s.resp EXCEPT ![r] = <<a>>]]
  BY <1>1 DEF Finish
<1>3. s.tl[t] \in ThreadVars /\ s.tl \in [Threads -> ThreadVars]
  BY <1>1 DEF DispatchShape
<1>4. v \in ThreadVars /\ v.cookies = <<>>
  <2>1. <<>> \in Seq(Numbers)
    OBVIOUS
  <2> QED BY <1>3, <2>1 DEF ThreadVars
<1>5. <<a>> \in Answers /\ <<a>>[1] = a /\ a.status = x.status /\ a.of = x.of /\ a.cookies = s.tl[t].cookies
  <2>1. s.tl[t].cookies \in Seq(Numbers)
    BY <1>3 DEF ThreadVars
  <2>2. a \in [status : Nat, of : Paths, cookies : Seq(Numbers)]
    BY <1>1, <2>1
  <2> HIDE DEF a
  <2>3. <<a>> \in Answers /\ <<a>>[1] = a
    BY <2>2 DEF Answers
  <2> QED BY <2>3 DEF a
<1> HIDE DEF y, v, a, s
<1>6. /\ y.pc = [s.pc EXCEPT ![r] = "done"] /\ y.tl = [s.tl EXCEPT ![t] = v] /\ y.resp = [s.resp EXCEPT ![r] = <<a>>]
      /\ y.rate = s.rate /\ y.now = s.now /\ y.admitted = s.admitted /\ y.users = s.users /\ y.ran = s.ran
      /\ y.metrics = s.metrics + 1
  BY <1>1, <1>2 DEF DispatchShape
<1>7. DOMAIN y.pc = DOMAIN d.pc /\ DOMAIN s.pc = DOMAIN d.pc
  BY <1>1, <1>6
<1>8. DispatchShape(y)
  <2>1. y.pc \in [DOMAIN y.pc -> {"new", "await", "done"}]
    BY <1>1, <1>6, <1>7 DEF DispatchShape
  <2>2. y.tl \in [Threads -> ThreadVars]
    BY <1>3, <1>4, <1>6
  <2>3. y.resp \in [DOMAIN y.pc -> Answers]
    BY <1>1, <1>5, <1>6, <1>7 DEF DispatchShape
  <2>4. y.metrics \in Nat /\ y.rate \in SUBSET RateEntries /\ y.now \in Nat /\ y.admitted \in Seq(Passes)
    BY <1>1, <1>6 DEF DispatchShape
  <2>5. y = [pc |-> y.pc, tl |-> y.tl, resp |-> y.resp, rate |-> y.rate, now |-> y.now, admitted |-> y.admitted,
             users |-> y.users, metrics |-> y.metrics, ran |-> y.ran]
    BY <1>1, <1>2, <1>6 DEF DispatchShape
  <2>6. DOMAIN y.pc \subseteq AllRequests
    BY <1>1, <1>7 DEF DispatchShape
  <2> QED BY <2>1, <2>2, <2>3, <2>4, <2>5, <2>6 DEF DispatchShape
<1>9. RateOK(y)
  BY <1>1, <1>6, RateSame
<1>10. GuardOK(y)
  BY <1>1, <1>6 DEF GuardOK
<1>11. AnswersOK(y)
  <2> SUFFICES ASSUME NEW q \in DOMAIN d.pc, y.resp[q] # <<>>
               PROVE  /\ \A k \in DOMAIN y.resp[q][1].cookies : y.resp[q][1].cookies[k] = q.id
                      /\ FitsRequest(q, y.resp[q][1].status, y.resp[q][1].of)
    BY <1>7 DEF AnswersOK
  <2>1. s.resp \in [DOMAIN d.pc -> Answers]
    BY <1>1, <1>7 DEF DispatchShape
  <2>2. CASE q = r
    <3>1. y.resp[q] = <<a>>
      BY <1>6, <2>1, <2>2
    <3> QED BY <1>1, <1>5, <2>2, <3>1
  <2>3. CASE q # r
    <3>1. y.resp[q] = d.resp[q]
      BY <1>1, <1>6, <2>1, <2>3
    <3> QED BY <2>3, <3>1 DEF DispatchOK, AnswersOK
  <2> QED BY <2>2, <2>3
<1>12. \A u \in Threads : y.tl[u].cookies = <<>>
  BY <1>1, <1>3, <1>4, <1>6
<1>13. \A q \in DOMAIN y.pc : y.pc[q] = "await" => HasBody(q) /\ Matches(q) # {}
  BY <1>1, <1>6, <1>7 DEF DispatchOK
<1> QED BY <1>8, <1>9, <1>10, <1>11, <1>12, <1>13 DEF DispatchOK, y

\* What the limiter knows of a client before and after it counts a request.
Counting(d, e) ==
    /\ e \in RateEntries /\ e.start <= d.now
    /\ \A x \in d.rate : x.c = e.c => x.start <= e.start
    /\ \A k \in 1..Len(d.admitted) : d.admitted[k].c = e.c =>
          d.admitted[k].win = e.start \/ d.admitted[k].win + RateWindow <= e.start

\* The entry of a client as it stands.
LEMMA EntryIs ==
    ASSUME NEW d, DispatchShape(d), NEW c \in Clients
    PROVE  LET e == EntryOf(d, c)
           IN  /\ e \in RateEntries /\ e.c = c
               /\ RateKept(d) /\ RateWindow > 0 => Counting(d, e) /\ Cardinality(Window(d, c, e.start)) <= e.count
<1> DEFINE e == EntryOf(d, c)
<1>0. d.rate \subseteq RateEntries /\ d.now \in Nat /\ d.admitted \in Seq(Passes) /\ Len(d.admitted) \in Nat
  BY DEF DispatchShape
<1>1. CASE \E x \in d.rate : x.c = c
  <2>1. e \in d.rate /\ e.c = c
    BY <1>1 DEF EntryOf
  <2>2. e \in RateEntries
    BY <1>0, <2>1
  <2> HIDE DEF e
  <2>3. ASSUME RateKept(d), RateWindow > 0 PROVE Counting(d, e) /\ Cardinality(Window(d, c, e.start)) <= e.count
    <3>1. \A x \in d.rate : x.c = c => x = e
      BY <2>1, <2>3 DEF RateKept
    <3>2. e.start <= d.now /\ Cardinality(Window(d, c, e.start)) <= e.count
      BY <2>1, <2>3 DEF RateKept
    <3>3. e.start \in Nat
      BY <2>2 DEF RateEntries
    <3>4. \A x \in d.rate : x.c = c => x.start <= e.start
      BY <3>1, <3>3
    <3>5. ASSUME NEW k \in 1..Len(d.admitted), d.admitted[k].c = c
          PROVE  d.admitted[k].win = e.start \/ d.admitted[k].win + RateWindow <= e.start
      <4>1. PICK x \in d.rate : /\ x.c = d.admitted[k].c
                                /\ d.admitted[k].win = x.start \/ d.admitted[k].win + RateWindow <= x.start
        BY <2>3 DEF RateKept
      <4>2. x = e
        BY <3>1, <3>5, <4>1
      <4> QED BY <4>1, <4>2
    <3> QED BY <2>1, <2>2, <3>2, <3>4, <3>5 DEF Counting
  <2> QED BY <2>1, <2>2, <2>3 DEF e
<1>2. CASE ~\E x \in d.rate : x.c = c
  <2>1. e = [c |-> c, count |-> 0, start |-> d.now]
    BY <1>2 DEF EntryOf
  <2>2. e.c = c /\ e.count = 0 /\ e.start = d.now
    BY <2>1
  <2>3. e \in RateEntries
    BY <1>0, <2>1 DEF RateEntries
  <2> HIDE DEF e
  <2>4. ASSUME RateKept(d), RateWindow > 0 PROVE Counting(d, e) /\ Cardinality(Window(d, c, e.start)) <= e.count
    <3>1. \A k \in 1..Len(d.admitted) : d.admitted[k].c # c
      BY <1>2, <2>4 DEF RateKept
    <3>2. Window(d, c, e.start) = {}
      BY <3>1 DEF Window
    <3>3. Cardinality({}) = 0
      BY FS_EmptySet
    <3> QED BY <1>0, <1>2, <2>2, <2>3, <3>1, <3>2, <3>3 DEF Counting
  <2> QED BY <2>2, <2>3, <2>4 DEF e
<1> QED BY <1>1, <1>2

\* Counting starts a window anew when the last one is over.
LEMMA CountIs ==
    ASSUME NEW d, DispatchShape(d), NEW c \in Clients
    PROVE  LET e == Count(EntryOf(d, c), d.now)
           IN  /\ e \in RateEntries /\ e.c = c
               /\ RateKept(d) /\ RateWindow > 0 =>
                    /\ Counting(d, e) /\ d.now < e.start + RateWindow
                    /\ Cardinality(Window(d, c, e.start)) + 1 <= e.count
<1> DEFINE o == EntryOf(d, c)
           e == Count(o, d.now)
<1>0. RateWindow \in Nat /\ d.now \in Nat /\ d.admitted \in Seq(Passes) /\ Len(d.admitted) \in Nat /\ d.rate \subseteq RateEntries
  BY DispatchParams DEF DispatchShape
<1>1. /\ o \in RateEntries /\ o.c = c
      /\ RateKept(d) /\ RateWindow > 0 => Counting(d, o) /\ Cardinality(Window(d, c, o.start)) <= o.count
  BY EntryIs
<1> HIDE DEF o
<1>2. o = [c |-> c, count |-> o.count, start |-> o.start] /\ o.count \in Nat /\ o.start \in Nat
  BY <1>1 DEF RateEntries
<1>3. CASE d.now - o.start >= RateWindow
  <2>1. e = [c |-> c, count |-> 1, start |-> d.now]
    <3>1. e = [o EXCEPT !.count = 1, !.start = d.now]
      BY <1>3 DEF Count
    <3> HIDE DEF e
    <3> QED BY <1>1, <3>1 DEF RateEntries
  <2>2. e.c = c /\ e.count = 1 /\ e.start = d.now
    BY <2>1
  <2>3. e \in RateEntries
    BY <1>0, <2>1 DEF RateEntries
  <2> HIDE DEF e
  <2>4. ASSUME RateKept(d), RateWindow > 0
        PROVE  /\ Counting(d, e) /\ d.now < e.start + RateWindow
               /\ Cardinality(Window(d, c, e.start)) + 1 <= e.count
    <3>1. /\ \A x \in d.rate : x.c = c => x.start <= o.start
          /\ \A k \in 1..Len(d.admitted) : d.admitted[k].c = c =>
                d.admitted[k].win = o.start \/ d.admitted[k].win + RateWindow <= o.start
      BY <1>1, <2>4 DEF Counting
    <3>2. o.start + RateWindow <= d.now /\ o.start < d.now
      BY <1>0, <1>2, <1>3, <2>4
    <3>3. ASSUME NEW k \in 1..Len(d.admitted), d.admitted[k].c = c
          PROVE  d.admitted[k].win + RateWindow <= d.now /\ d.admitted[k].win # d.now
      <4>1. d.admitted[k] \in Passes
        BY <1>0
      <4>3. d.admitted[k].win \in Nat
        BY <4>1 DEF Passes
      <4>2. d.admitted[k].win = o.start \/ d.admitted[k].win + RateWindow <= o.start
        BY <3>1, <3>3
      <4> QED BY <1>0, <1>2, <2>4, <3>2, <4>3, <4>2
    <3>4. Window(d, c, e.start) = {}
      BY <2>2, <3>3 DEF Window
    <3>5. \A x \in d.rate : x.c = c => x.start <= d.now
      <4> SUFFICES ASSUME NEW x \in d.rate, x.c = c PROVE x.start <= d.now
        OBVIOUS
      <4>1. x.start \in Nat /\ x.start <= o.start
        BY <1>0, <3>1 DEF RateEntries
      <4> QED BY <1>0, <1>2, <3>2, <4>1
    <3>6. Counting(d, e)
      BY <1>0, <2>2, <2>3, <3>3, <3>5 DEF Counting
    <3>7. Cardinality({}) = 0
      BY FS_EmptySet
    <3> QED BY <1>0, <2>2, <2>4, <3>4, <3>6, <3>7
  <2> QED BY <2>2, <2>3, <2>4 DEF e, o
<1>4. CASE ~(d.now - o.start >= RateWindow)
  <2>1. e = [c |-> c, count |-> o.count + 1, start |-> o.start]
    BY <1>2, <1>4 DEF Count
  <2>2. e.c = c /\ e.count = o.count + 1 /\ e.start = o.start
    BY <2>1
  <2>3. e \in RateEntries
    BY <1>2, <2>1 DEF RateEntries
  <2> HIDE DEF e
  <2>4. ASSUME RateKept(d), RateWindow > 0
        PROVE  /\ Counting(d, e) /\ d.now < e.start + RateWindow
               /\ Cardinality(Window(d, c, e.start)) + 1 <= e.count
    <3>1. Counting(d, e)
      BY <1>1, <2>2, <2>3, <2>4 DEF Counting
    <3>2. d.now < e.start + RateWindow
      BY <1>0, <1>2, <1>4, <2>2
    <3>3. Cardinality(Window(d, c, e.start)) \in Nat
      BY WindowFinite
    <3> QED BY <1>1, <1>2, <2>2, <2>4, <3>1, <3>2, <3>3
  <2> QED BY <2>2, <2>3, <2>4 DEF e, o
<1> QED BY <1>3, <1>4

\* A request of the client that is refused: only its entry changes.
LEMMA RefusedKept ==
    ASSUME NEW d, DispatchShape(d), RateKept(d), NEW e, Counting(d, e), Cardinality(Window(d, e.c, e.start)) <= e.count,
           NEW y, y.rate = {x \in d.rate : x.c # e.c} \cup {e}, y.now = d.now, y.admitted = d.admitted
    PROVE  RateKept(y)
<1>1. \A f \in y.rate : f = e \/ (f \in d.rate /\ f.c # e.c)
  OBVIOUS
<1>2. \A c, w : Window(y, c, w) = Window(d, c, w)
  BY DEF Window
<1>3. \A f \in y.rate : f.start <= y.now
  BY <1>1 DEF RateKept, Counting
<1>4. \A f, g \in y.rate : f.c = g.c => f = g
  BY <1>1 DEF RateKept
<1>5. ASSUME NEW k \in 1..Len(y.admitted)
      PROVE  \E f \in y.rate : /\ f.c = y.admitted[k].c
                               /\ y.admitted[k].win = f.start \/ y.admitted[k].win + RateWindow <= f.start
  <2>1. CASE d.admitted[k].c = e.c
    BY <2>1 DEF Counting
  <2>2. CASE d.admitted[k].c # e.c
    BY <2>2 DEF RateKept
  <2> QED BY <2>1, <2>2
<1>6. \A f \in y.rate : Cardinality(Window(y, f.c, f.start)) <= f.count
  BY <1>1, <1>2 DEF RateKept
<1> QED BY <1>2, <1>3, <1>4, <1>5, <1>6 DEF RateKept

\* One that passes is added to the window of the entry.
LEMMA PassedKept ==
    ASSUME NEW d, DispatchShape(d), RateKept(d), RateWindow > 0, NEW e, Counting(d, e), d.now < e.start + RateWindow,
           Cardinality(Window(d, e.c, e.start)) + 1 <= e.count, e.count <= RateMax,
           NEW y, y.rate = {x \in d.rate : x.c # e.c} \cup {e}, y.now = d.now,
           y.admitted = Append(d.admitted, [c |-> e.c, at |-> d.now, win |-> e.start])
    PROVE  RateKept(y)
<1> DEFINE n == Len(d.admitted)
           a == [c |-> e.c, at |-> d.now, win |-> e.start]
<1>1. /\ d.admitted \in Seq(Passes) /\ n \in Nat /\ d.now \in Nat /\ e.start \in Nat /\ e.count \in Nat /\ e.c \in Clients
      /\ RateWindow \in Nat /\ RateMax \in Nat /\ d.rate \subseteq RateEntries
  BY DispatchParams DEF DispatchShape, Counting, RateEntries
<1>2. a \in Passes /\ a.c = e.c /\ a.at = d.now /\ a.win = e.start
  BY <1>1 DEF Passes
<1>3. y.admitted = Append(d.admitted, a)
  OBVIOUS
<1> HIDE DEF a
<1>4. Len(y.admitted) = n + 1 /\ y.admitted[n + 1] = a /\ \A k \in 1..n : y.admitted[k] = d.admitted[k]
  BY <1>1, <1>2, <1>3
<1>5. \A k \in 1..Len(y.admitted) : k \in 1..n \/ k = n + 1
  BY <1>1, <1>4
<1>6. \A k \in 1..n : d.admitted[k].c \in Clients /\ d.admitted[k].at \in Nat /\ d.admitted[k].win \in Nat
  <2> SUFFICES ASSUME NEW k \in 1..n
               PROVE  d.admitted[k].c \in Clients /\ d.admitted[k].at \in Nat /\ d.admitted[k].win \in Nat
    OBVIOUS
  <2>1. d.admitted[k] \in Passes
    BY <1>1
  <2> QED BY <2>1 DEF Passes
<1> HIDE DEF n
<1>7. \A f \in y.rate : f = e \/ (f \in d.rate /\ f.c # e.c)
  OBVIOUS
<1>8. \A c, w : ~(c = e.c /\ w = e.start) => Window(y, c, w) = Window(d, c, w)
  <2> SUFFICES ASSUME NEW c, NEW w, ~(c = e.c /\ w = e.start) PROVE Window(y, c, w) = Window(d, c, w)
    OBVIOUS
  <2>1. \A k : k \in Window(y, c, w) <=> k \in 1..n /\ d.admitted[k].c = c /\ d.admitted[k].win = w
    BY <1>1, <1>2, <1>4, <1>5 DEF Window
  <2>2. \A k : k \in Window(d, c, w) <=> k \in 1..n /\ d.admitted[k].c = c /\ d.admitted[k].win = w
    BY DEF Window, n
  <2> QED BY <2>1, <2>2
<1>9. Window(y, e.c, e.start) = Window(d, e.c, e.start) \cup {n + 1}
  <2>1. \A k : k \in Window(y, e.c, e.start) <=> (k \in 1..n /\ d.admitted[k].c = e.c /\ d.admitted[k].win = e.start) \/ k = n + 1
    BY <1>1, <1>2, <1>4, <1>5 DEF Window
  <2>2. \A k : k \in Window(d, e.c, e.start) <=> k \in 1..n /\ d.admitted[k].c = e.c /\ d.admitted[k].win = e.start
    BY DEF Window, n
  <2> QED BY <2>1, <2>2
<1>10. Cardinality(Window(y, e.c, e.start)) <= e.count /\ Cardinality(Window(y, e.c, e.start)) <= RateMax
  <2> DEFINE w == Window(d, e.c, e.start)
  <2>1. IsFiniteSet(w)
    BY WindowFinite
  <2>2. Cardinality(w) \in Nat
    BY WindowFinite
  <2> HIDE DEF w
  <2>3. Cardinality(w \cup {n + 1}) <= Cardinality(w) + 1 /\ Cardinality(w \cup {n + 1}) \in Nat
    <3>1. Cardinality(w \cup {n + 1}) = IF n + 1 \in w THEN Cardinality(w) ELSE Cardinality(w) + 1
      BY <2>1, FS_AddElement
    <3> QED BY <2>2, <3>1
  <2>4. Cardinality(w) + 1 <= e.count
    BY DEF w
  <2> QED BY <1>1, <1>9, <2>2, <2>3, <2>4 DEF w
<1>11. \A f \in y.rate : f.start <= y.now
  BY <1>7 DEF RateKept, Counting
<1>12. \A f, g \in y.rate : f.c = g.c => f = g
  BY <1>7 DEF RateKept
<1>13. ASSUME NEW k \in 1..Len(y.admitted)
       PROVE  /\ y.admitted[k].win <= y.admitted[k].at /\ y.admitted[k].at < y.admitted[k].win + RateWindow
              /\ \E f \in y.rate : /\ f.c = y.admitted[k].c
                                   /\ y.admitted[k].win = f.start \/ y.admitted[k].win + RateWindow <= f.start
  <2>1. CASE k = n + 1
    BY <1>2, <1>4, <2>1 DEF Counting
  <2>2. CASE k \in 1..n
    <3>1. y.admitted[k] = d.admitted[k] /\ k \in 1..Len(d.admitted)
      BY <1>4, <2>2 DEF n
    <3>2. d.admitted[k].win <= d.admitted[k].at /\ d.admitted[k].at < d.admitted[k].win + RateWindow
      BY <3>1 DEF RateKept
    <3>3. CASE d.admitted[k].c = e.c
      BY <3>1, <3>2, <3>3 DEF Counting
    <3>4. CASE d.admitted[k].c # e.c
      <4>1. PICK f \in d.rate : /\ f.c = d.admitted[k].c
                                /\ d.admitted[k].win = f.start \/ d.admitted[k].win + RateWindow <= f.start
        BY <3>1 DEF RateKept
      <4> QED BY <3>1, <3>2, <3>4, <4>1
    <3> QED BY <3>3, <3>4
  <2> QED BY <1>5, <2>1, <2>2
<1>14. ASSUME NEW j \in 1..Len(y.admitted), NEW k \in 1..Len(y.admitted), y.admitted[j].c = y.admitted[k].c
       PROVE  Apart(y.admitted[j].win, y.admitted[k].win)
  <2>1. \A i \in 1..n : d.admitted[i].c = e.c => Apart(d.admitted[i].win, e.start) /\ Apart(e.start, d.admitted[i].win)
    BY DEF Counting, Apart, n
  <2>2. \A i, h \in 1..n : d.admitted[i].c = d.admitted[h].c => Apart(d.admitted[i].win, d.admitted[h].win)
    BY DEF RateKept, n
  <2>3. Apart(e.start, e.start)
    BY DEF Apart
  <2> QED BY <1>2, <1>4, <1>5, <1>14, <2>1, <2>2, <2>3
<1>15. \A c \in Clients, w \in Nat : Cardinality(Window(y, c, w)) <= RateMax
  BY <1>8, <1>10 DEF RateKept
<1>16. \A f \in y.rate : Cardinality(Window(y, f.c, f.start)) <= f.count
  <2> SUFFICES ASSUME NEW f \in y.rate PROVE Cardinality(Window(y, f.c, f.start)) <= f.count
    OBVIOUS
  <2>1. CASE f = e
    BY <1>10, <2>1
  <2>2. CASE f \in d.rate /\ f.c # e.c
    BY <1>8, <2>2 DEF RateKept
  <2> QED BY <1>7, <2>1, <2>2
<1> QED BY <1>11, <1>12, <1>13, <1>14, <1>15, <1>16 DEF RateKept

\* Before the body: the thread's variables are the request's own.
LEMMA PrepareOK ==
    ASSUME NEW d, DispatchOK(d), NEW r \in DOMAIN d.pc, NEW t \in Threads
    PROVE  /\ Mid(d, Prepare(d, r, t), r, t)
           /\ NeedsHeaders(r) => Set(Prepare(d, r, t), r, t)
           /\ \A u \in Threads : Prepare(d, r, t).tl[u].cookies = <<>>
<1> DEFINE s == Prepare(d, r, t)
           v == [d.tl[t] EXCEPT !.path = r.path, !.err = NoErr]
<1>0. /\ DispatchShape(d) /\ RateOK(d) /\ GuardOK(d) /\ \A u \in Threads : d.tl[u].cookies = <<>>
      /\ d.tl \in [Threads -> ThreadVars] /\ d.tl[t] \in ThreadVars
  BY DEF DispatchOK, DispatchShape
<1>1. (s = d /\ ~NeedsHeaders(r)) \/ s = [d EXCEPT !.tl = [d.tl EXCEPT ![t] = v]]
  <2>1. CASE NeedsHeaders(r)
    <3>1. s = [d EXCEPT !.tl[t].path = r.path, !.tl[t].err = NoErr]
      BY <2>1 DEF Prepare
    <3> DEFINE w == [d.tl[t] EXCEPT !.path = r.path]
               y == [d EXCEPT !.tl = [d.tl EXCEPT ![t] = w]]
    <3>2. s = [y EXCEPT !.tl[t].err = NoErr]
      BY <3>1
    <3>3. y.tl = [d.tl EXCEPT ![t] = w] /\ y.tl[t] = w
      BY <1>0 DEF DispatchShape
    <3>4. [y.tl EXCEPT ![t].err = NoErr] = [d.tl EXCEPT ![t] = v]
      <4> DEFINE f == y.tl
      <4>1. f = [d.tl EXCEPT ![t] = w] /\ f[t] = w
        BY <3>3
      <4>2. v = [w EXCEPT !.err = NoErr]
        BY <1>0
      <4> HIDE DEF v, w, f
      <4>3. [f EXCEPT ![t].err = NoErr] = [f EXCEPT ![t] = v]
        BY <4>1, <4>2
      <4>4. [f EXCEPT ![t] = v] = [d.tl EXCEPT ![t] = v]
        BY <4>1
      <4> QED BY <4>3, <4>4 DEF f
    <3>5. s = [y EXCEPT !.tl = [d.tl EXCEPT ![t] = v]]
      BY <3>2, <3>4
    <3> HIDE DEF v, s, w
    <3>6. s = [d EXCEPT !.tl = [d.tl EXCEPT ![t] = v]]
      BY <3>5
    <3> QED BY <3>6
  <2>2. CASE ~NeedsHeaders(r)
    BY <2>2 DEF Prepare
  <2> QED BY <2>1, <2>2
<1>2. CASE s = d /\ ~NeedsHeaders(r)
  BY <1>0, <1>2 DEF Mid
<1>3. CASE s = [d EXCEPT !.tl = [d.tl EXCEPT ![t] = v]]
  <2>1. r.path \in Paths /\ NoErr \in [status : Nat, of : Numbers] /\ NoErr.status = 0
    <3>1. r \in AllRequests
      BY <1>0 DEF DispatchShape
    <3> QED BY <3>1 DEF Paths, Numbers, NoErr
  <2>2. v \in ThreadVars /\ v.path = r.path /\ v.err = NoErr /\ v.cookies = d.tl[t].cookies
    BY <1>0, <2>1 DEF ThreadVars
  <2> HIDE DEF v, s
  <2>3. /\ s.tl = [d.tl EXCEPT ![t] = v] /\ s.pc = d.pc /\ s.resp = d.resp /\ s.rate = d.rate /\ s.now = d.now
        /\ s.admitted = d.admitted /\ s.ran = d.ran
    BY <1>0, <1>3 DEF DispatchShape
  <2>4. s.tl \in [Threads -> ThreadVars] /\ s.tl[t] = v /\ \A u \in Threads : u # t => s.tl[u] = d.tl[u]
    BY <1>0, <2>2, <2>3
  <2>5. DispatchShape(s)
    BY <1>0, <1>3, <2>3, <2>4 DEF DispatchShape
  <2>6. RateOK(s)
    BY <1>0, <2>3, RateSame
  <2>10. GuardOK(s)
    BY <1>0, <2>3 DEF GuardOK
  <2>7. \A u \in Threads : s.tl[u].cookies = <<>>
    BY <1>0, <2>2, <2>4
  <2>8. s.tl[t].path = r.path /\ s.tl[t].err.status = 0
    BY <2>1, <2>2, <2>4
  <2>9. \A k \in DOMAIN s.tl[t].cookies : s.tl[t].cookies[k] = r.id
    BY <2>7
  <2> QED BY <2>3, <2>5, <2>6, <2>7, <2>8, <2>9, <2>10 DEF Mid, Set, s
<1> QED BY <1>1, <1>2, <1>3

\* A state that differs in parts the thread does not see.
Aside(s, y) == y.tl = s.tl /\ y.pc = s.pc /\ y.resp = s.resp /\ y.ran = s.ran

\* The rate limiter in the middle of a request.
LEMMA RateLimitOK ==
    ASSUME NEW d, DispatchOK(d), NEW r \in DOMAIN d.pc, NEW t \in Threads, NEW s, Mid(d, s, r, t)
    PROVE  LET a == RateLimit(s, r) IN Mid(d, a.s, r, t) /\ Aside(s, a.s) /\ a.pass \in BOOLEAN
<1> DEFINE c == ClientId(r)
           e == Count(EntryOf(s, c), s.now)
           R == {x \in s.rate : x.c # e.c} \cup {e}
           p == [c |-> e.c, at |-> s.now, win |-> e.start]
           s1 == [s EXCEPT !.rate = {x \in @ : x.c # e.c} \cup {e}]
           s2 == [s1 EXCEPT !.admitted = Append(@, p)]
           a == RateLimit(s, r)
<1>0. DispatchShape(s) /\ RateOK(s) /\ GuardOK(s)
  BY DEF Mid
<1>1. c \in Clients
  <2>1. r \in AllRequests
    BY DEF DispatchOK, DispatchShape
  <2> QED BY <2>1 DEF ClientId, Clients
<1> HIDE DEF c
<1>2. /\ e \in RateEntries
      /\ RateKept(s) /\ RateWindow > 0 =>
           Counting(s, e) /\ s.now < e.start + RateWindow /\ Cardinality(Window(s, e.c, e.start)) + 1 <= e.count
  BY <1>0, <1>1, CountIs
<1>3. a = [pass |-> e.count <= RateMax, s |-> IF e.count <= RateMax THEN s2 ELSE s1]
  BY DEF RateLimit, c
<1> HIDE DEF e, a
<1>4. RateMax \in Nat /\ e.count \in Nat /\ e.start \in Nat /\ e.c \in Clients /\ s.now \in Nat
  BY <1>0, <1>2, DispatchParams DEF RateEntries, DispatchShape
<1>5. R \in SUBSET RateEntries
  BY <1>0, <1>2 DEF DispatchShape
<1>6. s1 = [s EXCEPT !.rate = R] /\ s1.admitted = s.admitted
  BY <1>0 DEF DispatchShape
<1>7. s2 = [s EXCEPT !.rate = R, !.admitted = Append(s.admitted, p)]
  BY <1>0 DEF DispatchShape
<1>8. p \in Passes
  BY <1>4 DEF Passes
<1> HIDE DEF R, p, s1, s2
<1>9. DispatchShape(s1) /\ Aside(s, s1) /\ s1.rate = R /\ s1.now = s.now /\ s1.admitted = s.admitted
  BY <1>0, <1>5, <1>6 DEF DispatchShape, Aside
<1>10. Append(s.admitted, p) \in Seq(Passes)
  BY <1>0, <1>8 DEF DispatchShape
<1>11. DispatchShape(s2) /\ Aside(s, s2) /\ s2.rate = R /\ s2.now = s.now /\ s2.admitted = Append(s.admitted, p)
  BY <1>0, <1>5, <1>7, <1>10 DEF DispatchShape, Aside
<1>12. ASSUME NEW y, DispatchShape(y), Aside(s, y), RateOK(y) PROVE Mid(d, y, r, t)
  BY <1>0, <1>12 DEF Mid, Aside, GuardOK
<1>13. RateOK(s1)
  <2> SUFFICES ASSUME RateWindow > 0 PROVE RateKept(s1)
    BY DEF RateOK
  <2>1. RateKept(s)
    BY <1>0 DEF RateOK
  <2>2. Cardinality(Window(s, e.c, e.start)) \in Nat
    BY <1>0, WindowFinite
  <2>3. Counting(s, e) /\ Cardinality(Window(s, e.c, e.start)) <= e.count
    BY <1>2, <1>4, <2>1, <2>2
  <2> QED BY <1>0, <1>9, <2>1, <2>3, RefusedKept DEF R
<1>14. e.count <= RateMax => RateOK(s2)
  <2> SUFFICES ASSUME RateWindow > 0, e.count <= RateMax PROVE RateKept(s2)
    BY DEF RateOK
  <2>1. RateKept(s)
    BY <1>0 DEF RateOK
  <2>2. Counting(s, e) /\ s.now < e.start + RateWindow /\ Cardinality(Window(s, e.c, e.start)) + 1 <= e.count
    BY <1>2, <2>1
  <2> QED BY <1>0, <1>11, <2>1, <2>2, PassedKept DEF R, p
<1>15. CASE e.count <= RateMax
  BY <1>3, <1>11, <1>12, <1>14, <1>15 DEF a
<1>16. CASE ~(e.count <= RateMax)
  BY <1>3, <1>9, <1>12, <1>13, <1>16 DEF a
<1> QED BY <1>15, <1>16 DEF a

\* The token check.
LEMMA JwtOK ==
    ASSUME NEW d, DispatchOK(d), NEW r \in DOMAIN d.pc, NEW t \in Threads, NEW s, Mid(d, s, r, t)
    PROVE  LET a == JwtMiddleware(s, r)
           IN  /\ Mid(d, a.s, r, t) /\ Aside(s, a.s) /\ a.pass \in BOOLEAN
               /\ a.pass => r.token \in {"valid", "new"}
<1> DEFINE a == JwtMiddleware(s, r)
           s1 == [s EXCEPT !.users = @ \cup {r.token}]
<1>0. DispatchShape(s) /\ RateOK(s) /\ GuardOK(s)
  BY DEF Mid
<1>1. /\ a.s = s \/ a.s = s1
      /\ a.pass \in BOOLEAN
      /\ a.pass => r.token \in {"valid", "new"}
  <2>1. a = [pass |-> r.token \in {"valid", "new"}, s |-> IF r.token = "new" THEN s1 ELSE s]
    BY DEF JwtMiddleware, EnsureUserInDb
  <2> HIDE DEF a, s1
  <2>2. CASE r.token = "new"
    <3>1. a.pass = TRUE /\ a.s = s1
      BY <2>1, <2>2
    <3> QED BY <2>2, <3>1
  <2>3. CASE r.token = "valid"
    <3>1. a.pass = TRUE /\ a.s = s
      BY <2>1, <2>3
    <3> QED BY <2>3, <3>1
  <2>4. CASE r.token \notin {"valid", "new"}
    <3>0. (r.token \in {"valid", "new"}) = FALSE /\ r.token # "new"
      BY <2>4
    <3>1. a.pass = FALSE /\ a.s = s
      BY <2>1, <3>0
    <3> QED BY <3>1
  <2> QED BY <2>2, <2>3, <2>4
<1>2. Mid(d, s, r, t) /\ Aside(s, s)
  BY DEF Aside
<1>3. Aside(s, s1) /\ s1.rate = s.rate /\ s1.now = s.now /\ s1.admitted = s.admitted
  BY <1>0 DEF DispatchShape, Aside
<1>4. DispatchShape(s1)
  BY <1>0 DEF DispatchShape
<1>5. RateOK(s1)
  BY <1>0, <1>3, RateSame
<1> HIDE DEF s1, a
<1>6. Mid(d, s1, r, t)
  BY <1>0, <1>3, <1>4, <1>5 DEF Mid, Aside, GuardOK
<1>7. Mid(d, a.s, r, t) /\ Aside(s, a.s)
  <2>1. CASE a.s = s
    BY <1>2, <2>1
  <2>2. CASE a.s = s1
    BY <1>3, <1>6, <2>2
  <2> QED BY <1>1, <2>1, <2>2
<1> QED BY <1>1, <1>7 DEF a

\* A middleware that refuses sets the thread's error and answers.
LEMMA RefusalOK ==
    ASSUME NEW d, DispatchOK(d), NEW r \in DOMAIN d.pc, NEW t \in Threads, NEW s, Mid(d, s, r, t),
           NEW status \in {401, 429},
           Straight(r) => s.tl[t].path = r.path /\ Contains(RouteOf(r).mws, IF status = 401 THEN "jwt" ELSE "rate")
    PROVE  FromMid(d, MakeErrResponse(s, t, status, r.id), r, t)
<1> DEFINE v == [s.tl[t] EXCEPT !.err = [status |-> status, of |-> r.id]]
           y == [s EXCEPT !.tl[t].err = [status |-> status, of |-> r.id]]
           x == MakeErrResponse(s, t, status, r.id)
<1>0. /\ DispatchShape(s) /\ RateOK(s) /\ GuardOK(s) /\ s.tl \in [Threads -> ThreadVars] /\ s.tl[t] \in ThreadVars
      /\ s.tl[t].path \in Paths
  BY DEF Mid, DispatchShape, ThreadVars
<1>1. x = [s |-> y, status |-> status, of |-> s.tl[t].path, t |-> t]
  BY DEF MakeErrResponse, Resp
<1>2. y = [s EXCEPT !.tl = [s.tl EXCEPT ![t] = v]]
  BY <1>0 DEF DispatchShape
<1>3. v \in ThreadVars /\ v.cookies = s.tl[t].cookies
  <2>1. r.id \in Numbers /\ status \in Nat
    BY DEF DispatchOK, DispatchShape, Numbers
  <2> QED BY <1>0, <2>1, ZenonT(60) DEF ThreadVars
<1> HIDE DEF v, y
<1>4. /\ y.tl = [s.tl EXCEPT ![t] = v] /\ y.pc = s.pc /\ y.resp = s.resp /\ y.rate = s.rate /\ y.now = s.now
      /\ y.admitted = s.admitted /\ y.ran = s.ran
  BY <1>0, <1>2 DEF DispatchShape
<1>5. y.tl \in [Threads -> ThreadVars] /\ y.tl[t] = v /\ \A u \in Threads : u # t => y.tl[u] = s.tl[u]
  BY <1>0, <1>3, <1>4
<1>6. DispatchShape(y)
  BY <1>0, <1>2, <1>4, <1>5 DEF DispatchShape
<1>7. RateOK(y) /\ GuardOK(y)
  <2>1. RateOK(y)
    BY <1>0, <1>4, RateSame
  <2> QED BY <1>0, <1>4, <2>1 DEF GuardOK
<1>8. Mid(d, y, r, t)
  BY <1>3, <1>4, <1>5, <1>6, <1>7 DEF Mid
<1>9. x.s = y /\ x.t = t /\ x.status = status /\ x.of = s.tl[t].path
  BY <1>1
<1> HIDE DEF x
<1>10. x.status \in Nat /\ x.of \in Paths /\ FitsRequest(r, x.status, x.of)
  BY <1>0, <1>9 DEF FitsRequest
<1> QED BY <1>8, <1>9, <1>10 DEF FromMid, x

\* What the chain has done after a number of middlewares.
LEMMA ChainTurns ==
    ASSUME NEW s, NEW r, NEW t, NEW mws, Len(mws) \in Nat
    PROVE  \E D : /\ Chain(s, r, t, mws) = D[Len(mws)] /\ D[0] = [pass |-> TRUE, s |-> s, x |-> <<>>]
                  /\ \A k \in 1..Len(mws) :
                        D[k] = IF D[k - 1].pass THEN OneMiddleware(mws[k], D[k - 1].s, r, t) ELSE D[k - 1]
<1> DEFINE n == Len(mws)
           o == [pass |-> TRUE, s |-> s, x |-> <<>>]
           F(k, y) == IF y.pass THEN OneMiddleware(mws[k], y.s, r, t) ELSE y
           G(m, g) == [k \in 0..m |-> IF k = 0 THEN o ELSE F(k, g[k - 1])]
           T == {m \in 0..n : \E g : g = G(m, g)}
           H(g) == [k \in 0..n |-> IF k = 0 THEN [pass |-> TRUE, s |-> s, x |-> <<>>]
                     ELSE IF g[k - 1].pass THEN OneMiddleware(mws[k], g[k - 1].s, r, t) ELSE g[k - 1]]
           K == CHOOSE g : g = H(g)
<1>0. n \in Nat
  OBVIOUS
<1>1. Chain(s, r, t, mws) = K[n]
  BY DEF Chain
<1>2. \A g : H(g) = G(n, g)
  OBVIOUS
<1>3. \A k \in 1..n : \A y : F(k, y) = IF y.pass THEN OneMiddleware(mws[k], y.s, r, t) ELSE y
  OBVIOUS
<1> HIDE DEF F, H, o
<1>4. 0 \in T
  <2> DEFINE h == [k \in 0..0 |-> o]
  <2>1. h = G(0, h)
    OBVIOUS
  <2>2. \E g : g = G(0, g)
    <3> HIDE DEF h
    <3> WITNESS h
    <3> QED BY <2>1
  <2>3. 0 \in 0..n
    BY <1>0
  <2> HIDE DEF n
  <2> QED BY <2>2, <2>3
<1>5. ASSUME NEW m \in 1..n, m - 1 \in T PROVE m \in T
  <2>1. PICK g : g = G(m - 1, g)
    BY <1>5
  <2> DEFINE h == [k \in 0..m |-> IF k = m THEN F(m, g[m - 1]) ELSE g[k]]
  <2>2. \A k \in 0..m : h[k] = IF k = m THEN F(m, g[m - 1]) ELSE g[k]
    OBVIOUS
  <2>3. \A k \in 0..(m - 1) : g[k] = IF k = 0 THEN o ELSE F(k, g[k - 1])
    BY <2>1
  <2>4. ASSUME NEW k \in 0..m PROVE h[k] = IF k = 0 THEN o ELSE F(k, h[k - 1])
    <3>1. CASE k = m
      <4>1. m - 1 \in 0..m /\ m - 1 # m /\ k # 0
        BY <1>0, <3>1
      <4>2. h[m - 1] = g[m - 1]
        BY <2>2, <4>1
      <4> QED BY <2>2, <3>1, <4>1, <4>2
    <3>2. CASE k # m
      <4>1. k \in 0..(m - 1) /\ (k # 0 => k - 1 \in 0..m /\ k - 1 # m)
        BY <1>0, <3>2
      <4>2. k # 0 => h[k - 1] = g[k - 1]
        BY <2>2, <4>1
      <4> QED BY <2>2, <2>3, <3>2, <4>1, <4>2
    <3> QED BY <3>1, <3>2
  <2>5. h = [k \in 0..m |-> h[k]]
    OBVIOUS
  <2> HIDE DEF h
  <2>6. h = G(m, h)
    BY <2>4, <2>5
  <2>7. m \in 0..n
    BY <1>0
  <2> QED BY <2>6, <2>7
<1> HIDE DEF T
<1>6. n \in T
  <2> HIDE DEF n
  <2>1. \A m \in 0..n : m \in T
    BY <1>0, <1>4, <1>5, UpTo
  <2>2. n \in 0..n
    BY <1>0
  <2> QED BY <2>1, <2>2
<1>7. \E g : g = H(g)
  <2>1. \E g : g = G(n, g)
    BY <1>6 DEF T
  <2>2. PICK g : g = G(n, g)
    BY <2>1
  <2>3. H(g) = G(n, g)
    BY <1>2
  <2>4. g = H(g)
    BY <2>2, <2>3
  <2> QED BY <2>4
<1>8. K = H(K)
  BY <1>7
<1>9. K = G(n, K)
  BY <1>2, <1>8
<1> HIDE DEF K
<1>10. \A k \in 0..n : K[k] = IF k = 0 THEN o ELSE F(k, K[k - 1])
  BY <1>9
<1>11. K[0] = o
  <2>1. 0 \in 0..n
    BY <1>0
  <2> QED BY <1>10, <2>1
<1>12. \A k \in 1..n : K[k] = F(k, K[k - 1])
  <2>1. \A k \in 1..n : k \in 0..n /\ k # 0
    BY <1>0
  <2> QED BY <1>10, <2>1
<1> QED BY <1>1, <1>3, <1>11, <1>12 DEF o

\* The chain so far: as long as no middleware refused, those that ran let it pass.
ChainOK(d, s, r, t, k, c) ==
    /\ c.pass \in BOOLEAN
    /\ c.pass => /\ Mid(d, c.s, r, t) /\ c.s.tl = s.tl
                 /\ \A i \in 1..k : RouteOf(r).mws[i] = "jwt" => r.token \in {"valid", "new"}
    /\ ~c.pass => FromMid(d, c.x, r, t)

\* One middleware, and with it the chain.
LEMMA OneMiddlewareOK ==
    ASSUME NEW d, DispatchOK(d), NEW r \in DOMAIN d.pc, NEW t \in Threads, NEW s, Mid(d, s, r, t),
           Straight(r) => Set(s, r, t), NEW m \in {"jwt", "rate"}, Contains(RouteOf(r).mws, m)
    PROVE  LET a == OneMiddleware(m, s, r, t)
           IN  /\ a.pass \in BOOLEAN
               /\ a.pass => Mid(d, a.s, r, t) /\ a.s.tl = s.tl /\ (m = "jwt" => r.token \in {"valid", "new"})
               /\ ~a.pass => FromMid(d, a.x, r, t)
<1> DEFINE b == IF m = "jwt" THEN JwtMiddleware(s, r) ELSE RateLimit(s, r)
           status == IF m = "jwt" THEN 401 ELSE 429
           a == OneMiddleware(m, s, r, t)
<1>1. /\ Mid(d, b.s, r, t) /\ Aside(s, b.s) /\ b.pass \in BOOLEAN
      /\ m = "jwt" /\ b.pass => r.token \in {"valid", "new"}
  <2>1. CASE m = "jwt"
    BY <2>1, JwtOK
  <2>2. CASE m # "jwt"
    BY <2>2, RateLimitOK
  <2> QED BY <2>1, <2>2
<1>2. a = [pass |-> b.pass, s |-> b.s, x |-> IF b.pass THEN <<>> ELSE MakeErrResponse(b.s, t, status, r.id)]
  BY DEF OneMiddleware
<1>3. a.pass = b.pass /\ a.s = b.s /\ (~b.pass => a.x = MakeErrResponse(b.s, t, status, r.id))
  BY <1>2
<1> HIDE DEF b, a
<1>4. FromMid(d, MakeErrResponse(b.s, t, status, r.id), r, t)
  <2>1. status \in {401, 429} /\ m = IF status = 401 THEN "jwt" ELSE "rate"
    OBVIOUS
  <2>2. Straight(r) => b.s.tl[t].path = r.path
    BY <1>1 DEF Aside, Set
  <2> HIDE DEF status
  <2> QED BY <1>1, <2>1, <2>2, RefusalOK
<1>5. a.s.tl = s.tl
  BY <1>1, <1>3 DEF Aside
<1>6. Mid(d, a.s, r, t)
  BY <1>1, <1>3
<1>7. ~a.pass => FromMid(d, a.x, r, t)
  BY <1>3, <1>4
<1> QED BY <1>1, <1>3, <1>5, <1>6, <1>7 DEF a

\* The whole chain.
LEMMA ChainIs ==
    ASSUME NEW d, DispatchOK(d), NEW r \in DOMAIN d.pc, NEW t \in Threads, NEW s, Mid(d, s, r, t),
           Straight(r) => Set(s, r, t), Matches(r) # {}
    PROVE  ChainOK(d, s, r, t, Len(RouteOf(r).mws), Chain(s, r, t, RouteOf(r).mws))
<1> DEFINE mws == RouteOf(r).mws
           n == Len(mws)
<1>1. mws \in Seq({"jwt", "rate"})
  <2>1. RouteOf(r) \in Routes
    BY DEF RouteOf, Matches
  <2> QED BY <2>1, DispatchParams
<1>2. n \in Nat /\ \A k \in 1..n : mws[k] \in {"jwt", "rate"} /\ Contains(mws, mws[k])
  BY <1>1 DEF Contains
<1>3. PICK D : /\ Chain(s, r, t, mws) = D[n] /\ D[0] = [pass |-> TRUE, s |-> s, x |-> <<>>]
               /\ \A k \in 1..n : D[k] = IF D[k - 1].pass THEN OneMiddleware(mws[k], D[k - 1].s, r, t) ELSE D[k - 1]
  BY <1>2, ChainTurns
<1> HIDE DEF n
<1> DEFINE S == {k \in 0..n : ChainOK(d, s, r, t, k, D[k])}
<1>4. 0 \in S
  <2>1. 0 \in 0..n /\ 1..0 = {}
    BY <1>2
  <2>2. D[0].pass = TRUE /\ D[0].s = s
    BY <1>3
  <2>3. ChainOK(d, s, r, t, 0, D[0])
    BY <2>1, <2>2 DEF ChainOK
  <2> QED BY <2>1, <2>3
<1>5. ASSUME NEW k \in 1..n, k - 1 \in S PROVE k \in S
  <2> DEFINE p == D[k - 1]
             q == D[k]
  <2>0. k \in 0..n
    BY <1>2
  <2>1. ChainOK(d, s, r, t, k - 1, p)
    BY <1>5
  <2>2. q = IF p.pass THEN OneMiddleware(mws[k], p.s, r, t) ELSE p
    BY <1>3
  <2> HIDE DEF p, q
  <2>3. ASSUME p.pass PROVE ChainOK(d, s, r, t, k, q)
    <3>1. Mid(d, p.s, r, t) /\ p.s.tl = s.tl /\ \A i \in 1..(k - 1) : mws[i] = "jwt" => r.token \in {"valid", "new"}
      BY <2>1, <2>3 DEF ChainOK
    <3>2. Straight(r) => Set(p.s, r, t)
      BY <3>1 DEF Set
    <3>3. mws[k] \in {"jwt", "rate"} /\ Contains(mws, mws[k])
      BY <1>2
    <3>4. /\ q.pass \in BOOLEAN
          /\ q.pass => Mid(d, q.s, r, t) /\ q.s.tl = p.s.tl /\ (mws[k] = "jwt" => r.token \in {"valid", "new"})
          /\ ~q.pass => FromMid(d, q.x, r, t)
      BY <2>2, <2>3, <3>1, <3>2, <3>3, OneMiddlewareOK
    <3>5. \A i \in 1..k : i = k \/ i \in 1..(k - 1)
      BY <1>2
    <3>6. q.pass => /\ Mid(d, q.s, r, t) /\ q.s.tl = s.tl
                    /\ \A i \in 1..k : mws[i] = "jwt" => r.token \in {"valid", "new"}
      BY <3>1, <3>4, <3>5
    <3>7. ChainOK(d, s, r, t, k, q) <=>
            /\ q.pass \in BOOLEAN
            /\ q.pass => /\ Mid(d, q.s, r, t) /\ q.s.tl = s.tl
                         /\ \A i \in 1..k : mws[i] = "jwt" => r.token \in {"valid", "new"}
            /\ ~q.pass => FromMid(d, q.x, r, t)
      BY Zenon DEF ChainOK
    <3> HIDE DEF mws
    <3>8. CASE q.pass = TRUE
      BY <3>4, <3>6, <3>7, <3>8
    <3>9. CASE q.pass = FALSE
      BY <3>4, <3>6, <3>7, <3>9
    <3> QED BY <3>4, <3>8, <3>9
  <2>4. ASSUME ~p.pass PROVE ChainOK(d, s, r, t, k, q)
    <3>1. q = p
      BY <2>2, <2>4
    <3>2. p.pass = FALSE
      BY <2>1, <2>4 DEF ChainOK
    <3>3. ~q.pass => FromMid(d, q.x, r, t)
      BY <2>1, <3>1 DEF ChainOK
    <3> QED BY <3>1, <3>2, <3>3 DEF ChainOK
  <2>5. ChainOK(d, s, r, t, k, q)
    BY <2>3, <2>4
  <2> QED BY <2>0, <2>5 DEF q
<1> HIDE DEF S
<1>6. n \in S
  <2>1. \A k \in 0..n : k \in S
    BY <1>2, <1>4, <1>5, UpTo
  <2> QED BY <1>2, <2>1
<1> QED BY <1>3, <1>6 DEF S, n

\* The thread's variables change in the middle of a request.
LEMMA ThreadOK ==
    ASSUME NEW d, NEW r, NEW t \in Threads, NEW s, Mid(d, s, r, t),
           NEW v \in ThreadVars, \A k \in DOMAIN v.cookies : v.cookies[k] = r.id,
           NEW y, y = [s EXCEPT !.tl = [s.tl EXCEPT ![t] = v]]
    PROVE  Mid(d, y, r, t) /\ y.tl[t] = v
<1>0. DispatchShape(s) /\ RateOK(s) /\ GuardOK(s) /\ s.tl \in [Threads -> ThreadVars]
  BY DEF Mid, DispatchShape
<1>1. /\ y.tl = [s.tl EXCEPT ![t] = v] /\ y.pc = s.pc /\ y.resp = s.resp /\ y.rate = s.rate /\ y.now = s.now
      /\ y.admitted = s.admitted /\ y.ran = s.ran
  BY <1>0 DEF DispatchShape
<1>2. y.tl \in [Threads -> ThreadVars] /\ y.tl[t] = v /\ \A u \in Threads : u # t => y.tl[u] = s.tl[u]
  BY <1>0, <1>1
<1>3. DispatchShape(y)
  BY <1>0, <1>1, <1>2 DEF DispatchShape
<1>4. RateOK(y)
  BY <1>0, <1>1, RateSame
<1>5. GuardOK(y)
  BY <1>0, <1>1 DEF GuardOK
<1> QED BY <1>1, <1>2, <1>3, <1>4, <1>5 DEF Mid

\* The handler has run, and may have run.
LEMMA RanOK ==
    ASSUME NEW d, NEW r, NEW t \in Threads, NEW s, Mid(d, s, r, t),
           Contains(RouteOf(r).mws, "jwt") => r.token \in {"valid", "new"},
           NEW y, y = [s EXCEPT !.ran = @ \cup {r}]
    PROVE  Mid(d, y, r, t) /\ y.tl = s.tl
<1>0. DispatchShape(s) /\ RateOK(s) /\ GuardOK(s)
  BY DEF Mid
<1>1. /\ y.tl = s.tl /\ y.pc = s.pc /\ y.resp = s.resp /\ y.rate = s.rate /\ y.now = s.now
      /\ y.admitted = s.admitted /\ y.ran = s.ran \cup {r}
  BY <1>0 DEF DispatchShape
<1>2. DispatchShape(y)
  BY <1>0, <1>1 DEF DispatchShape
<1>3. RateOK(y)
  BY <1>0, <1>1, RateSame
<1>4. GuardOK(y)
  BY <1>0, <1>1 DEF GuardOK
<1> QED BY <1>1, <1>2, <1>3, <1>4 DEF Mid

\* The response built from what the handler did.
LEMMA BuildOK ==
    ASSUME NEW d, DispatchOK(d), NEW r \in DOMAIN d.pc, NEW t \in Threads, NEW s, Mid(d, s, r, t),
           Straight(r) => Set(s, r, t), Contains(RouteOf(r).mws, "jwt") => r.token \in {"valid", "new"},
           NEW outcome \in Outcomes
    PROVE  FromMid(d, BuildResponse(s, r, t, outcome), r, t)
<1> DEFINE ran == [s EXCEPT !.ran = @ \cup {r}]
           late == IF NeedsHeaders(r) THEN ran ELSE [ran EXCEPT !.tl[t].path = r.path]
           err == [late EXCEPT !.tl[t].err = [status |-> 422, of |-> r.id]]
           cook == [ran EXCEPT !.tl[t].cookies = Append(@, r.id)]
           e == ran.tl[t].err
           x == BuildResponse(s, r, t, outcome)
<1>1. Mid(d, ran, r, t) /\ ran.tl = s.tl
  BY RanOK
<1>2. \/ outcome = "ok" /\ x = Resp(200, r.path, ran, t)
      \/ outcome = "cookie" /\ x = Resp(200, r.path, cook, t)
      \/ outcome = "error" /\ x = Resp(422, ran.tl[t].path, err, t)
      \/ outcome = "errorNoData" /\ x = Resp(IF e.status > 0 THEN e.status ELSE 500, r.path, late, t)
      \/ outcome = "redirect" /\ x = Resp(302, r.path, late, t)
      \/ outcome = "null" /\ x = Resp(500, r.path, ran, t)
      \/ outcome = "panic" /\ x = Resp(500, r.path, late, t)
  <2>1. CASE outcome = "ok"
    BY <2>1 DEF BuildResponse
  <2>2. CASE outcome = "cookie"
    BY <2>2 DEF BuildResponse
  <2>3. CASE outcome = "error"
    BY <2>3 DEF BuildResponse
  <2>4. CASE outcome = "errorNoData"
    BY <2>4 DEF BuildResponse
  <2>5. CASE outcome = "redirect"
    BY <2>5 DEF BuildResponse
  <2>6. CASE outcome = "null"
    BY <2>6 DEF BuildResponse
  <2>7. CASE outcome = "panic"
    BY <2>7 DEF BuildResponse
  <2> QED BY <2>1, <2>2, <2>3, <2>4, <2>5, <2>6, <2>7 DEF Outcomes
<1> HIDE DEF ran, x
<1>3. r.path \in Paths /\ r.id \in Numbers
  <2>1. r \in AllRequests
    BY DEF DispatchOK, DispatchShape
  <2> QED BY <2>1 DEF Paths, Numbers
<1>4. /\ DispatchShape(ran) /\ ran.tl \in [Threads -> ThreadVars] /\ ran.tl[t] \in ThreadVars
      /\ ran.tl[t].path \in Paths /\ e \in [status : Nat, of : Numbers] /\ ran.tl[t].cookies \in Seq(Numbers)
      /\ e.status \in Nat /\ \A k \in DOMAIN ran.tl[t].cookies : ran.tl[t].cookies[k] = r.id
  BY <1>1 DEF Mid, DispatchShape, ThreadVars
<1>5. Straight(r) => ran.tl[t].path = r.path /\ e.status = 0
  BY <1>1 DEF Set
<1>6. Mid(d, late, r, t)
  <2> DEFINE v == [ran.tl[t] EXCEPT !.path = r.path]
  <2>1. v \in ThreadVars /\ v.cookies = ran.tl[t].cookies
    BY <1>3, <1>4 DEF ThreadVars
  <2>2. [ran EXCEPT !.tl[t].path = r.path] = [ran EXCEPT !.tl = [ran.tl EXCEPT ![t] = v]]
    BY <1>4 DEF DispatchShape
  <2> DEFINE y == [ran EXCEPT !.tl[t].path = r.path]
  <2>3. y = [ran EXCEPT !.tl = [ran.tl EXCEPT ![t] = v]]
    BY <2>2
  <2> HIDE DEF v, y
  <2>4. Mid(d, y, r, t)
    BY <1>1, <1>4, <2>1, <2>3, ThreadOK
  <2>5. late = ran \/ late = y
    BY DEF y
  <2> QED BY <1>1, <2>4, <2>5
<1> HIDE DEF late
<1>7. Mid(d, err, r, t)
  <2> DEFINE v == [late.tl[t] EXCEPT !.err = [status |-> 422, of |-> r.id]]
  <2>0. /\ DispatchShape(late) /\ late.tl \in [Threads -> ThreadVars] /\ late.tl[t] \in ThreadVars
        /\ \A k \in DOMAIN late.tl[t].cookies : late.tl[t].cookies[k] = r.id
    BY <1>6 DEF Mid, DispatchShape
  <2>1. v \in ThreadVars /\ v.cookies = late.tl[t].cookies
    BY <1>3, <2>0 DEF ThreadVars
  <2>2. err = [late EXCEPT !.tl = [late.tl EXCEPT ![t] = v]]
    BY <2>0 DEF DispatchShape
  <2> HIDE DEF v, err
  <2> QED BY <1>6, <2>0, <2>1, <2>2, ThreadOK
<1>8. Mid(d, cook, r, t)
  <2> DEFINE c == Append(ran.tl[t].cookies, r.id)
             v == [ran.tl[t] EXCEPT !.cookies = c]
  <2>1. cook = [ran EXCEPT !.tl = [ran.tl EXCEPT ![t] = v]]
    BY <1>4 DEF DispatchShape
  <2>2. c \in Seq(Numbers) /\ \A k \in DOMAIN c : c[k] = r.id
    BY <1>3, <1>4
  <2> HIDE DEF c
  <2>3. v \in ThreadVars /\ v.cookies = c
    BY <1>4, <2>2 DEF ThreadVars
  <2> HIDE DEF v, cook
  <2> QED BY <1>1, <2>1, <2>2, <2>3, ThreadOK
<1> HIDE DEF err, cook, e
<1>9. ASSUME NEW st \in Nat, NEW of \in Paths, NEW z, Mid(d, z, r, t), x = Resp(st, of, z, t),
             Straight(r) => of = r.path /\ st \notin {401, 429}
      PROVE  FromMid(d, x, r, t)
  <2>1. x.s = z /\ x.status = st /\ x.of = of /\ x.t = t
    BY <1>9 DEF Resp
  <2>2. FitsRequest(r, st, of)
    BY <1>9 DEF FitsRequest
  <2> QED BY <1>9, <2>1, <2>2 DEF FromMid
<1>10. CASE outcome = "errorNoData" /\ x = Resp(IF e.status > 0 THEN e.status ELSE 500, r.path, late, t)
  <2> DEFINE st == IF e.status > 0 THEN e.status ELSE 500
  <2>1. st \in Nat /\ (Straight(r) => st \notin {401, 429})
    BY <1>4, <1>5 DEF e
  <2>2. x = Resp(st, r.path, late, t)
    BY <1>10
  <2> HIDE DEF st
  <2>3. FromMid(d, x, r, t)
    BY <1>3, <1>6, <1>9, <2>1, <2>2
  <2> QED BY <2>3 DEF x
<1>11. CASE outcome = "error" /\ x = Resp(422, ran.tl[t].path, err, t)
  <2>1. FromMid(d, x, r, t)
    BY <1>4, <1>5, <1>7, <1>9, <1>11
  <2> QED BY <2>1 DEF x
<1>12. CASE \/ outcome = "ok" /\ x = Resp(200, r.path, ran, t)
            \/ outcome = "cookie" /\ x = Resp(200, r.path, cook, t)
            \/ outcome = "redirect" /\ x = Resp(302, r.path, late, t)
            \/ outcome = "null" /\ x = Resp(500, r.path, ran, t)
            \/ outcome = "panic" /\ x = Resp(500, r.path, late, t)
  <2>1. PICK st \in {200, 302, 500}, z \in {ran, cook, late} : x = Resp(st, r.path, z, t)
    BY <1>12
  <2>2. Mid(d, z, r, t) /\ st \in Nat /\ st \notin {401, 429}
    BY <1>1, <1>6, <1>8
  <2>3. FromMid(d, x, r, t)
    BY <1>3, <1>9, <2>1, <2>2
  <2> QED BY <2>3 DEF x
<1> QED BY <1>2, <1>10, <1>11, <1>12

\* The chain, and behind it the handler.
LEMMA ExecuteOK ==
    ASSUME NEW d, DispatchOK(d), NEW r \in DOMAIN d.pc, NEW t \in Threads, NEW s, Mid(d, s, r, t),
           Straight(r) => Set(s, r, t), Matches(r) # {}, NEW outcome \in Outcomes
    PROVE  FromMid(d, Execute(s, r, t, outcome), r, t)
<1> DEFINE mws == RouteOf(r).mws
           c == Chain(s, r, t, mws)
           x == Execute(s, r, t, outcome)
<1>1. ChainOK(d, s, r, t, Len(mws), c)
  BY ChainIs
<1>2. x = IF c.pass THEN BuildResponse(c.s, r, t, outcome) ELSE c.x
  BY DEF Execute
<1> HIDE DEF c, x
<1>3. CASE c.pass = TRUE
  <2>1. Mid(d, c.s, r, t) /\ c.s.tl = s.tl /\ \A i \in 1..Len(mws) : mws[i] = "jwt" => r.token \in {"valid", "new"}
    BY <1>1, <1>3 DEF ChainOK
  <2>2. Straight(r) => Set(c.s, r, t)
    BY <2>1 DEF Set
  <2>3. mws \in Seq({"jwt", "rate"})
    <3>1. RouteOf(r) \in Routes
      BY DEF RouteOf, Matches
    <3> QED BY <3>1, DispatchParams
  <2>4. Contains(mws, "jwt") => r.token \in {"valid", "new"}
    BY <2>1, <2>3 DEF Contains
  <2>5. FromMid(d, BuildResponse(c.s, r, t, outcome), r, t)
    BY <2>1, <2>2, <2>4, BuildOK
  <2>6. FromMid(d, x, r, t)
    BY <1>2, <1>3, <2>5
  <2> QED BY <2>6 DEF x
<1>4. CASE c.pass = FALSE
  <2>1. FromMid(d, c.x, r, t)
    BY <1>1, <1>4 DEF ChainOK
  <2>2. FromMid(d, x, r, t)
    BY <1>2, <1>4, <2>1
  <2> QED BY <2>2 DEF x
<1>5. c.pass \in BOOLEAN
  BY <1>1 DEF ChainOK
<1> QED BY <1>3, <1>4, <1>5

\* Between two requests: a request moves on without a word, or is answered by the
\* server itself.
LEMMA MovesOn ==
    ASSUME NEW d, DispatchOK(d), NEW r \in DOMAIN d.pc, NEW t \in Threads, NEW s, Mid(d, s, r, t),
           \A u \in Threads : s.tl[u].cookies = <<>>,
           NEW p \in {"await", "done"}, p = "await" => HasBody(r) /\ Matches(r) # {},
           NEW a \in Answers,
           a # <<>> => FitsRequest(r, a[1].status, a[1].of) /\ \A k \in DOMAIN a[1].cookies : a[1].cookies[k] = r.id,
           NEW y, y = [s EXCEPT !.pc = [s.pc EXCEPT ![r] = p], !.resp = [s.resp EXCEPT ![r] = a]]
    PROVE  DispatchOK(y)
<1>0. /\ DispatchShape(s) /\ RateOK(s) /\ GuardOK(s) /\ s.pc = d.pc /\ s.resp = d.resp
      /\ s.pc \in [DOMAIN d.pc -> {"new", "await", "done"}] /\ s.resp \in [DOMAIN d.pc -> Answers]
  BY DEF Mid, DispatchShape
<1>1. /\ y.pc = [s.pc EXCEPT ![r] = p] /\ y.resp = [s.resp EXCEPT ![r] = a] /\ y.tl = s.tl /\ y.rate = s.rate
      /\ y.now = s.now /\ y.admitted = s.admitted /\ y.ran = s.ran
  BY <1>0 DEF DispatchShape
<1>2. /\ y.pc \in [DOMAIN d.pc -> {"new", "await", "done"}] /\ y.resp \in [DOMAIN d.pc -> Answers]
      /\ y.resp[r] = a /\ \A q \in DOMAIN d.pc : q # r => y.resp[q] = d.resp[q] /\ y.pc[q] = d.pc[q]
      /\ y.pc[r] = p /\ DOMAIN y.pc = DOMAIN d.pc
  BY <1>0, <1>1
<1>3. DispatchShape(y)
  BY <1>0, <1>1, <1>2 DEF DispatchShape
<1>4. RateOK(y)
  BY <1>0, <1>1, RateSame
<1>5. GuardOK(y)
  BY <1>0, <1>1 DEF GuardOK
<1>6. AnswersOK(y)
  <2> SUFFICES ASSUME NEW q \in DOMAIN d.pc, y.resp[q] # <<>>
               PROVE  /\ \A k \in DOMAIN y.resp[q][1].cookies : y.resp[q][1].cookies[k] = q.id
                      /\ FitsRequest(q, y.resp[q][1].status, y.resp[q][1].of)
    BY <1>2 DEF AnswersOK
  <2>1. CASE q = r
    BY <1>2, <2>1
  <2>2. CASE q # r
    <3>1. y.resp[q] = d.resp[q]
      BY <1>2, <2>2
    <3> QED BY <3>1 DEF DispatchOK, AnswersOK
  <2> QED BY <2>1, <2>2
<1>7. \A q \in DOMAIN y.pc : y.pc[q] = "await" => HasBody(q) /\ Matches(q) # {}
  BY <1>2 DEF DispatchOK
<1>8. \A u \in Threads : y.tl[u].cookies = <<>>
  BY <1>1
<1> QED BY <1>3, <1>4, <1>5, <1>6, <1>7, <1>8 DEF DispatchOK

\* A response made by the server on the way.
LEMMA SaysOK ==
    ASSUME NEW d, DispatchOK(d), NEW r \in DOMAIN d.pc, NEW t \in Threads, NEW s, Mid(d, s, r, t),
           NEW st \in {400, 404, 405, 413}
    PROVE  DispatchOK(Finish(r, Resp(st, r.path, s, t)))
<1> DEFINE x == Resp(st, r.path, s, t)
<1>1. x.s = s /\ x.status = st /\ x.of = r.path /\ x.t = t
  BY DEF Resp
<1>2. r.path \in Paths
  <2>1. r \in AllRequests
    BY DEF DispatchOK, DispatchShape
  <2> QED BY <2>1 DEF Paths
<1>3. FitsRequest(r, st, r.path)
  BY DEF FitsRequest
<1> HIDE DEF x
<1>4. FromMid(d, x, r, t)
  BY <1>1, <1>2, <1>3 DEF FromMid
<1>5. DispatchOK(Finish(r, x))
  BY <1>4, FinishOK
<1> QED BY <1>5 DEF x

\* The clock goes on: no window moves.
LEMMA TickOK ==
    ASSUME NEW d, DispatchOK(d), NEW y, y = [d EXCEPT !.now = @ + 1]
    PROVE  DispatchOK(y)
<1>0. DispatchShape(d) /\ RateOK(d) /\ GuardOK(d) /\ AnswersOK(d)
  BY DEF DispatchOK
<1>1. /\ y.tl = d.tl /\ y.pc = d.pc /\ y.resp = d.resp /\ y.rate = d.rate /\ y.now = d.now + 1 /\ d.now \in Nat
      /\ y.admitted = d.admitted /\ y.ran = d.ran
  BY <1>0 DEF DispatchShape
<1>2. DispatchShape(y)
  BY <1>0, <1>1, SMTT(60) DEF DispatchShape
<1>3. RateOK(y)
  <2> SUFFICES ASSUME RateWindow > 0, RateKept(d) PROVE RateKept(y)
    BY <1>0 DEF RateOK
  <2>1. \A c, w : Window(y, c, w) = Window(d, c, w)
    BY <1>1 DEF Window
  <2>2. \A e \in y.rate : e.start <= y.now
    <3> SUFFICES ASSUME NEW e \in d.rate PROVE e.start <= d.now + 1
      BY <1>1
    <3>1. e.start \in Nat
      BY <1>0 DEF DispatchShape, RateEntries
    <3>2. e.start <= d.now
      BY DEF RateKept
    <3> QED BY <1>1, <3>1, <3>2
  <2> QED BY <1>1, <2>1, <2>2 DEF RateKept
<1>4. GuardOK(y) /\ AnswersOK(y)
  BY <1>0, <1>1 DEF GuardOK, AnswersOK
<1>5. (\A t \in Threads : y.tl[t].cookies = <<>>) /\ \A r \in DOMAIN y.pc : y.pc[r] = "await" => HasBody(r) /\ Matches(r) # {}
  BY <1>1 DEF DispatchOK
<1> QED BY <1>2, <1>3, <1>4, <1>5 DEF DispatchOK

\* Every step of the server.
LEMMA DispatchStep ==
    ASSUME DispatchInv, DispatchNext PROVE DispatchInv'
<1>0. DispatchOK(rq)
  BY DEF DispatchInv
<1>1. ASSUME NEW r \in Reqs, NEW t \in Threads, AnswerBuiltin(r, t) PROVE DispatchOK(rq')
  <2> DEFINE st == IF r.method = "GET" THEN 200 ELSE 204
             b == [status |-> st, of |-> r.path, cookies |-> <<>>]
  <2>0. r \in DOMAIN rq.pc /\ r.path \in Paths /\ st \in Nat /\ st \notin {401, 429} /\ <<>> \in Seq(Numbers)
    <3>1. r \in AllRequests
      BY <1>0 DEF DispatchOK, DispatchShape, Reqs
    <3> QED BY <3>1 DEF Paths, Reqs
  <2>1. rq' = [rq EXCEPT !.pc = [rq.pc EXCEPT ![r] = "done"], !.resp = [rq.resp EXCEPT ![r] = <<b>>]]
    BY <1>0, <1>1 DEF AnswerBuiltin, DispatchOK, DispatchShape
  <2> HIDE DEF st
  <2>2. b \in [status : Nat, of : Paths, cookies : Seq(Numbers)] /\ b.cookies = <<>> /\ b.status = st /\ b.of = r.path
    BY <2>0
  <2> HIDE DEF b
  <2> DEFINE a == <<b>>
  <2>3. a \in Answers /\ a[1] = b
    BY <2>2 DEF Answers
  <2>4. FitsRequest(r, b.status, b.of)
    BY <2>0, <2>2 DEF FitsRequest
  <2>6. a # <<>> => FitsRequest(r, a[1].status, a[1].of) /\ \A k \in DOMAIN a[1].cookies : a[1].cookies[k] = r.id
    BY <2>2, <2>3, <2>4
  <2>7. rq' = [rq EXCEPT !.pc = [rq.pc EXCEPT ![r] = "done"], !.resp = [rq.resp EXCEPT ![r] = a]]
    BY <2>1
  <2> HIDE DEF a
  <2>5. Mid(rq, rq, r, t) /\ \A u \in Threads : rq.tl[u].cookies = <<>>
    BY <1>0 DEF DispatchOK, Mid
  <2>8. r \in DOMAIN rq.pc /\ a \in Answers
    BY <2>0, <2>3
  <2> QED BY <1>0, <2>5, <2>6, <2>7, <2>8, MovesOn
<1>2. ASSUME NEW r \in Reqs, NEW t \in Threads, Unmatched(r, t) PROVE DispatchOK(rq')
  <2> DEFINE st == IF Allowed(r) = {} THEN 404 ELSE 405
  <2>1. rq' = Finish(r, Resp(st, r.path, rq, t)) /\ st \in {400, 404, 405, 413} /\ r \in DOMAIN rq.pc
    BY <1>2 DEF Unmatched, Reqs
  <2>2. Mid(rq, rq, r, t)
    BY <1>0 DEF DispatchOK, Mid
  <2> HIDE DEF st
  <2> QED BY <1>0, <2>1, <2>2, SaysOK
<1>3. ASSUME NEW r \in Reqs, NEW t \in Threads, AwaitBody(r, t) PROVE DispatchOK(rq')
  <2> DEFINE s == Prepare(rq, r, t)
  <2>1. r \in DOMAIN rq.pc /\ Matches(r) # {} /\ HasBody(r)
    BY <1>3 DEF AwaitBody, Reqs
  <2>2. rq' = IF r.body = "announcedTooLong" THEN Finish(r, Resp(413, r.path, s, t)) ELSE [s EXCEPT !.pc[r] = "await"]
    BY <1>3 DEF AwaitBody
  <2>3. Mid(rq, s, r, t) /\ \A u \in Threads : s.tl[u].cookies = <<>>
    BY <1>0, <2>1, PrepareOK
  <2> HIDE DEF s
  <2>4. CASE r.body = "announcedTooLong"
    BY <1>0, <2>1, <2>2, <2>3, <2>4, SaysOK
  <2>5. CASE r.body # "announcedTooLong"
    <3>1. DispatchShape(s) /\ s.resp \in [DOMAIN rq.pc -> Answers] /\ s.resp = rq.resp
      BY <2>3 DEF Mid, DispatchShape
    <3> DEFINE a == s.resp[r]
    <3>2. rq' = [s EXCEPT !.pc = [s.pc EXCEPT ![r] = "await"], !.resp = [s.resp EXCEPT ![r] = a]]
      BY <2>1, <2>2, <2>5, <3>1, ZenonT(60) DEF DispatchShape
    <3>3. /\ a \in Answers
          /\ a # <<>> => FitsRequest(r, a[1].status, a[1].of) /\ \A k \in DOMAIN a[1].cookies : a[1].cookies[k] = r.id
      BY <1>0, <1>3, <2>1, <3>1 DEF DispatchOK, AnswersOK
    <3> HIDE DEF a
    <3> QED BY <1>0, <2>1, <2>3, <3>2, <3>3, MovesOn
  <2> QED BY <2>4, <2>5
<1>4. ASSUME NEW r \in Reqs, NEW t \in Threads, NEW o \in Outcomes, HandleNow(r, t, o) PROVE DispatchOK(rq')
  <2> DEFINE s == Prepare(rq, r, t)
  <2>1. r \in DOMAIN rq.pc /\ Matches(r) # {} /\ rq' = Finish(r, Execute(s, r, t, o))
    BY <1>4 DEF HandleNow, Reqs
  <2>2. Mid(rq, s, r, t) /\ (Straight(r) => Set(s, r, t))
    BY <1>0, <2>1, PrepareOK DEF Straight
  <2> HIDE DEF s
  <2>3. FromMid(rq, Execute(s, r, t, o), r, t)
    BY <1>0, <2>1, <2>2, ExecuteOK
  <2> QED BY <1>0, <2>1, <2>3, FinishOK
<1>5. ASSUME NEW r \in Reqs, NEW t \in Threads, NEW o \in Outcomes, BodyArrives(r, t, o) PROVE DispatchOK(rq')
  <2>1. r \in DOMAIN rq.pc /\ Matches(r) # {} /\ HasBody(r) /\ Mid(rq, rq, r, t)
    BY <1>0, <1>5 DEF BodyArrives, Reqs, DispatchOK, Mid
  <2>2. CASE r.body = "broken"
    <3>1. rq' = [rq EXCEPT !.pc[r] = "done"]
      BY <1>5, <2>2 DEF BodyArrives
    <3>2. DispatchShape(rq) /\ rq.resp \in [DOMAIN rq.pc -> Answers]
      BY <1>0 DEF DispatchOK, DispatchShape
    <3> DEFINE a == rq.resp[r]
    <3>3. rq' = [rq EXCEPT !.pc = [rq.pc EXCEPT ![r] = "done"], !.resp = [rq.resp EXCEPT ![r] = a]]
      BY <2>1, <3>1, <3>2 DEF DispatchShape
    <3>4. /\ a \in Answers
          /\ a # <<>> => FitsRequest(r, a[1].status, a[1].of) /\ \A k \in DOMAIN a[1].cookies : a[1].cookies[k] = r.id
      BY <1>0, <2>1, <3>2 DEF DispatchOK, AnswersOK
    <3>5. \A u \in Threads : rq.tl[u].cookies = <<>>
      BY <1>0 DEF DispatchOK
    <3> HIDE DEF a
    <3> QED BY <1>0, <2>1, <3>3, <3>4, <3>5, MovesOn
  <2>3. CASE r.body = "tooLong" \/ r.body = "notJson"
    <3>1. PICK st \in {400, 404, 405, 413} : rq' = Finish(r, Resp(st, r.path, rq, t))
      BY <1>5, <2>3 DEF BodyArrives
    <3> QED BY <1>0, <2>1, <3>1, SaysOK
  <2>4. CASE r.body \notin {"broken", "tooLong", "notJson"}
    <3>1. rq' = Finish(r, Execute(rq, r, t, o))
      BY <1>5, <2>4 DEF BodyArrives
    <3>2. ~Straight(r)
      BY <2>1 DEF Straight
    <3>3. FromMid(rq, Execute(rq, r, t, o), r, t)
      BY <1>0, <2>1, <3>2, ExecuteOK
    <3> QED BY <1>0, <2>1, <3>1, <3>3, FinishOK
  <2> QED BY <2>2, <2>3, <2>4
<1>6. ASSUME ClockTick PROVE DispatchOK(rq')
  BY <1>0, <1>6, TickOK DEF ClockTick
<1>7. DispatchOK(rq')
  BY <1>1, <1>2, <1>3, <1>4, <1>5, <1>6 DEF DispatchNext
<1> QED BY <1>7 DEF DispatchInv

\* Before the first request every part of the invariant holds.
LEMMA DispatchStarts ==
    ASSUME DispatchInit PROVE DispatchInv
<1>1. PICK reqs \in Batches : rq = DispatchStart(reqs)
  BY DEF DispatchInit
<1>2. /\ rq = [pc |-> rq.pc, tl |-> rq.tl, resp |-> rq.resp, rate |-> rq.rate, now |-> rq.now,
               admitted |-> rq.admitted, users |-> rq.users, metrics |-> rq.metrics, ran |-> rq.ran]
      /\ rq.pc = [r \in reqs |-> "new"] /\ rq.tl = [t \in Threads |-> FreshThread] /\ rq.resp = [r \in reqs |-> <<>>]
      /\ rq.rate = {} /\ rq.now = 0 /\ rq.admitted = <<>> /\ rq.metrics = 0 /\ rq.ran = {}
  BY <1>1 DEF DispatchStart
<1>3. FreshThread \in ThreadVars /\ FreshThread.cookies = <<>>
  <2>1. "/" \in Paths /\ 0 \in Numbers /\ <<>> \in Seq(Numbers)
    BY DEF Paths, Numbers
  <2> QED BY <2>1 DEF FreshThread, NoErr, ThreadVars
<1>4. DispatchShape(rq)
  <2>0. DOMAIN rq.pc = reqs
    BY <1>2
  <2>1. rq.tl \in [Threads -> ThreadVars] /\ rq.pc \in [DOMAIN rq.pc -> {"new", "await", "done"}]
    BY <1>2, <1>3, <2>0
  <2>2. rq.resp \in [DOMAIN rq.pc -> Answers]
    BY <1>2, <2>0 DEF Answers
  <2>3. rq.admitted \in Seq(Passes) /\ rq.rate \in SUBSET RateEntries /\ rq.now \in Nat /\ rq.metrics \in Nat
    BY <1>2
  <2>4. DOMAIN rq.pc \subseteq AllRequests
    BY <2>0 DEF AllRequests
  <2>5. rq = [pc |-> rq.pc, tl |-> rq.tl, resp |-> rq.resp, rate |-> rq.rate, now |-> rq.now,
              admitted |-> rq.admitted, users |-> rq.users, metrics |-> rq.metrics, ran |-> rq.ran]
    BY <1>2
  <2> QED BY <2>1, <2>2, <2>3, <2>4, <2>5 DEF DispatchShape
<1>5. RateOK(rq)
  <2> SUFFICES RateKept(rq)
    BY DEF RateOK
  <2>1. 1..Len(rq.admitted) = {} /\ rq.rate = {}
    BY <1>2
  <2>2. \A c, w : Window(rq, c, w) = {}
    BY <2>1 DEF Window
  <2>3. Cardinality({}) = 0 /\ 0 <= RateMax
    BY FS_EmptySet, DispatchParams
  <2> QED BY <2>1, <2>2, <2>3 DEF RateKept
<1>6. GuardOK(rq) /\ AnswersOK(rq)
  BY <1>2 DEF GuardOK, AnswersOK
<1>7. (\A t \in Threads : rq.tl[t].cookies = <<>>) /\ \A r \in DOMAIN rq.pc : rq.pc[r] = "await" => HasBody(r) /\ Matches(r) # {}
  BY <1>2, <1>3
<1> QED BY <1>4, <1>5, <1>6, <1>7 DEF DispatchInv, DispatchOK

\* Of two moments less than a window apart, the second lies in the window of the
\* first or in one that starts less than a window after its end.
LEMMA WindowsMet ==
    ASSUME RateWindow \in Nat, RateWindow > 0, NEW u \in Nat, NEW v \in Nat, NEW s \in Nat, NEW t \in Nat,
           u <= s, s < u + RateWindow, v <= t, t < v + RateWindow, s <= t, t < s + RateWindow, Apart(v, u)
    PROVE  v = u \/ (u + RateWindow <= v /\ v < u + RateWindow + RateWindow)
BY DEF Apart

\* Two of those are the same.
LEMMA OneWindow ==
    ASSUME RateWindow \in Nat, NEW u \in Nat, NEW v \in Nat, NEW w \in Nat, Apart(v, w),
           u + RateWindow <= v, v < u + RateWindow + RateWindow, u + RateWindow <= w, w < u + RateWindow + RateWindow
    PROVE  v = w
BY DEF Apart

\* A stretch of time as long as a window meets at most two of them.
LEMMA TwoWindows ==
    ASSUME NEW d, DispatchShape(d), RateKept(d), RateWindow > 0, NEW i \in 1..Len(d.admitted)
    PROVE  Cardinality({j \in 1..Len(d.admitted) : /\ d.admitted[j].c = d.admitted[i].c
                                                   /\ d.admitted[j].at - d.admitted[i].at \in 0..(RateWindow - 1)})
             <= 2 * RateMax
<1> DEFINE n == Len(d.admitted)
           a == d.admitted
           c == a[i].c
           u == a[i].win
           J == {j \in 1..n : a[j].c = c /\ a[j].at - a[i].at \in 0..(RateWindow - 1)}
<1>0. n \in Nat /\ RateWindow \in Nat /\ RateMax \in Nat
  BY DispatchParams DEF DispatchShape
<1>1. \A j \in 1..n : a[j].c \in Clients /\ a[j].at \in Nat /\ a[j].win \in Nat
  <2> SUFFICES ASSUME NEW j \in 1..n PROVE a[j].c \in Clients /\ a[j].at \in Nat /\ a[j].win \in Nat
    OBVIOUS
  <2>1. a[j] \in Passes
    BY DEF DispatchShape
  <2> QED BY <2>1 DEF Passes
<1>2. \A j \in 1..n : a[j].win <= a[j].at /\ a[j].at < a[j].win + RateWindow
  BY DEF RateKept
<1>3. \A j, k \in 1..n : a[j].c = a[k].c => Apart(a[j].win, a[k].win)
  BY DEF RateKept
<1>4. \A v \in Nat : Cardinality(Window(d, c, v)) <= RateMax
  BY <1>1 DEF RateKept
<1>5. \A v : IsFiniteSet(Window(d, c, v)) /\ Cardinality(Window(d, c, v)) \in Nat
  BY WindowFinite
<1>6. \A v : Window(d, c, v) = {k \in 1..n : a[k].c = c /\ a[k].win = v}
  BY DEF Window
<1> HIDE DEF a, n
<1>7. ASSUME NEW j \in J PROVE a[j].win = u \/ (u + RateWindow <= a[j].win /\ a[j].win < u + RateWindow + RateWindow)
  <2>1. Apart(a[j].win, u)
    BY <1>3 DEF n
  <2>2. /\ a[j].at \in Nat /\ a[j].win \in Nat /\ a[i].at \in Nat /\ u \in Nat
        /\ a[j].win <= a[j].at /\ a[j].at < a[j].win + RateWindow /\ u <= a[i].at /\ a[i].at < u + RateWindow
    BY <1>1, <1>2 DEF n
  <2>3. a[i].at <= a[j].at /\ a[j].at < a[i].at + RateWindow
    BY <1>0, <2>2, SMTT(60)
  <2>4. RateWindow \in Nat /\ RateWindow > 0
    BY <1>0
  <2> DEFINE v == a[j].win
             y == a[j].at
             z == a[i].at
  <2>5. /\ u \in Nat /\ v \in Nat /\ z \in Nat /\ y \in Nat /\ Apart(v, u)
        /\ u <= z /\ z < u + RateWindow /\ v <= y /\ y < v + RateWindow /\ z <= y /\ y < z + RateWindow
    BY <2>1, <2>2, <2>3
  <2> HIDE DEF u, v, y, z
  <2>6. v = u \/ (u + RateWindow <= v /\ v < u + RateWindow + RateWindow)
    BY <2>4, <2>5, WindowsMet
  <2> QED BY <2>6 DEF v
<1>8. ASSUME NEW j \in J, NEW k \in J, a[j].win # u, a[k].win # u PROVE a[j].win = a[k].win
  <2>1. Apart(a[j].win, a[k].win)
    BY <1>3
  <2>2. a[j].win \in Nat /\ a[k].win \in Nat /\ u \in Nat
    BY <1>1 DEF n
  <2>3. /\ u + RateWindow <= a[j].win /\ a[j].win < u + RateWindow + RateWindow
        /\ u + RateWindow <= a[k].win /\ a[k].win < u + RateWindow + RateWindow
    BY <1>7, <1>8
  <2> QED BY <1>0, <2>1, <2>2, <2>3, OneWindow
<1>9. u \in Nat
  BY <1>1 DEF n
<1>10. \E v \in Nat : J \subseteq Window(d, c, u) \cup Window(d, c, v)
  <2>1. CASE \A j \in J : a[j].win = u
    BY <1>6, <1>9, <2>1, ZenonT(60)
  <2>2. CASE \E j \in J : a[j].win # u
    <3>1. PICK m \in J : a[m].win # u
      BY <2>2
    <3>2. \A j \in J : a[j].win = u \/ a[j].win = a[m].win
      BY <1>8, <3>1
    <3> DEFINE v == a[m].win
    <3>3. v \in Nat
      BY <1>1
    <3>4. J \subseteq Window(d, c, u) \cup Window(d, c, v)
      BY <1>6, <3>2
    <3> HIDE DEF v
    <3> QED BY <3>3, <3>4
  <2> QED BY <2>1, <2>2
<1>11. PICK v \in Nat : J \subseteq Window(d, c, u) \cup Window(d, c, v)
  BY <1>10
<1> HIDE DEF J
<1>12. Cardinality(J) <= 2 * RateMax
  <2> DEFINE U == Window(d, c, u)
             V == Window(d, c, v)
  <2>1. IsFiniteSet(U) /\ IsFiniteSet(V) /\ Cardinality(U) \in Nat /\ Cardinality(V) \in Nat
    BY <1>5
  <2>2. Cardinality(U) <= RateMax /\ Cardinality(V) <= RateMax
    BY <1>4, <1>9
  <2>3. J \subseteq U \cup V
    BY <1>11
  <2> HIDE DEF U, V
  <2>4. IsFiniteSet(U \cup V) /\ Cardinality(U \cup V) = Cardinality(U) + Cardinality(V) - Cardinality(U \cap V)
    BY <2>1, FS_Union
  <2>5. Cardinality(U \cap V) \in Nat
    <3>1. IsFiniteSet(U \cap V)
      BY <2>1, FS_Subset
    <3> QED BY <3>1, FS_CardinalityType
  <2>6. Cardinality(J) <= Cardinality(U \cup V) /\ Cardinality(J) \in Nat
    <3>1. IsFiniteSet(J) /\ Cardinality(J) <= Cardinality(U \cup V)
      BY <2>3, <2>4, FS_Subset
    <3> QED BY <3>1, FS_CardinalityType
  <2> QED BY <1>0, <2>1, <2>2, <2>4, <2>5, <2>6
<1> QED BY <1>12 DEF J, a, n

\* The invariant is what the property asks for.
LEMMA IsolatedFromInv ==
    ASSUME DispatchInv PROVE RequestsIsolated
<1>0. DispatchShape(rq) /\ RateOK(rq) /\ GuardOK(rq) /\ AnswersOK(rq)
  BY DEF DispatchInv, DispatchOK
<1>1. GuardsRunFirst
  BY <1>0 DEF GuardsRunFirst, GuardOK
<1>2. CookiesOwn
  BY <1>0 DEF CookiesOwn, AnswersOK, Reqs
<1>3. ErrorNamesItsRequest
  BY <1>0 DEF ErrorNamesItsRequest, AnswersOK, Reqs, FitsRequest
<1>4. RateBounded
  <2>0. DOMAIN rq.admitted = 1..Len(rq.admitted) /\ RateWindow \in Nat /\ RateMax \in Nat
    BY <1>0, DispatchParams DEF DispatchShape
  <2> SUFFICES ASSUME NEW i \in 1..Len(rq.admitted)
               PROVE  Cardinality({j \in 1..Len(rq.admitted) : /\ rq.admitted[j].c = rq.admitted[i].c
                                                               /\ rq.admitted[j].at - rq.admitted[i].at \in 0..(RateWindow - 1)})
                        <= 2 * RateMax
    BY <2>0 DEF RateBounded
  <2>1. CASE RateWindow > 0
    BY <1>0, <2>1, TwoWindows DEF RateOK
  <2>2. CASE RateWindow = 0
    <3>1. 0..(RateWindow - 1) = {}
      BY <2>2
    <3>2. Cardinality({}) = 0
      BY FS_EmptySet
    <3>3. {j \in 1..Len(rq.admitted) : /\ rq.admitted[j].c = rq.admitted[i].c
                                       /\ rq.admitted[j].at - rq.admitted[i].at \in 0..(RateWindow - 1)} = {}
      BY <3>1
    <3>4. 0 <= 2 * RateMax
      BY <2>0
    <3> QED BY <3>2, <3>3, <3>4
  <2> QED BY <2>0, <2>1, <2>2
<1> QED BY <1>1, <1>2, <1>3, <1>4 DEF RequestsIsolated

\* For every set of requests, threads, routes and limits: a handler behind the token
\* check runs only after it, a cookie leaves with the request that set it, an error of
\* a request that set up its thread is its own, and no client gets more than twice the
\* limit through in any stretch of time as long as the window.
THEOREM RequestsAreIsolated == DispatchSpec => []RequestsIsolated
<1>1. DispatchInit => DispatchInv
  BY DispatchStarts
<1>2. DispatchInv /\ [DispatchNext]_rq => DispatchInv'
  <2> SUFFICES ASSUME DispatchInv, [DispatchNext]_rq PROVE DispatchInv'
    OBVIOUS
  <2>1. CASE DispatchNext
    BY <2>1, DispatchStep
  <2>2. CASE UNCHANGED rq
    BY <2>2 DEF DispatchInv
  <2> QED BY <2>1, <2>2
<1>3. DispatchInv => RequestsIsolated
  BY IsolatedFromInv
<1> QED BY <1>1, <1>2, <1>3, PTL DEF DispatchSpec

-----------------------------------------------------------------------------
\* CRUD and its webhooks.

\* A function of finitely many arguments has finitely many values.
LEMMA ValuesFinite ==
    ASSUME NEW S, IsFiniteSet(S), NEW f
    PROVE  IsFiniteSet({f[x] : x \in S})
<1> DEFINE T == {f[x] : x \in S}
           g == [x \in S |-> f[x]]
<1>1. g \in Surjection(S, T)
  BY DEF Surjection
<1> QED BY <1>1, FS_Surjection

\* A finite set of numbers has a greatest.
LEMMA GreatestIs ==
    ASSUME NEW S, IsFiniteSet(S), S \subseteq Int, S # {}
    PROVE  Max(S) \in S /\ \A x \in S : Max(S) >= x
<1> DEFINE n == Cardinality(S)
<1>0. n \in Nat /\ ExistsBijection(1..n, S)
  BY FS_CardinalityType
<1> HIDE DEF n
<1>1. PICK f \in [1..n -> S] : \A x \in S : \E i \in 1..n : f[i] = x
  <2>1. PICK f : f \in Bijection(1..n, S)
    BY <1>0 DEF ExistsBijection
  <2>2. f \in [1..n -> S] /\ \A x \in S : \E i \in 1..n : f[i] = x
    BY <2>1 DEF Bijection, Injection, Surjection
  <2> QED BY <2>2
<1> DEFINE T == {k \in 0..n : k = 0 \/ \E x \in S : \A i \in 1..k : x >= f[i]}
<1>2. 0 \in T
  BY <1>0
<1>3. ASSUME NEW k \in 1..n, k - 1 \in T PROVE k \in T
  <2>0. k \in 1..k /\ k \in 0..n /\ \A i \in 1..k : i \in 1..n /\ (i = k \/ i \in 1..(k - 1))
    BY <1>0
  <2>1. k \in 1..k /\ f[k] \in S /\ f[k] \in Int /\ k \in 0..n /\ \A i \in 1..k : i = k \/ i \in 1..(k - 1)
    <3>1. f[k] \in S
      BY <1>1
    <3> QED BY <2>0, <3>1
  <2>2. CASE k = 1
    <3>1. \A i \in 1..k : f[k] >= f[i]
      BY <2>1, <2>2
    <3> QED BY <2>1, <3>1
  <2>3. CASE k # 1
    <3>1. PICK x \in S : \A i \in 1..(k - 1) : x >= f[i]
      BY <1>3, <2>1, <2>3
    <3>2. \A i \in 1..k : f[i] \in Int
      <4>1. \A i \in 1..n : f[i] \in S
        BY <1>1
      <4> QED BY <2>0, <4>1
    <3>3. x \in Int
      OBVIOUS
    <3>4. CASE x >= f[k]
      <4>1. \A i \in 1..k : x >= f[i]
        BY <2>1, <3>1, <3>4
      <4> QED BY <2>1, <4>1
    <3>5. CASE ~(x >= f[k])
      <4>1. \A i \in 1..k : f[k] >= f[i]
        BY <2>1, <3>1, <3>2, <3>3, <3>5
      <4> QED BY <2>1, <4>1
    <3> QED BY <3>4, <3>5
  <2> QED BY <2>2, <2>3
<1> HIDE DEF T
<1>4. n \in T
  <2>1. \A k \in 0..n : k \in T
    BY <1>0, <1>2, <1>3, UpTo
  <2> QED BY <1>0, <2>1
<1>5. n # 0
  <2>1. PICK x \in S : TRUE
    OBVIOUS
  <2>2. PICK i \in 1..n : f[i] = x
    BY <1>1
  <2> QED BY <1>0
<1>6. \E x \in S : \A y \in S : x >= y
  <2>1. PICK x \in S : \A i \in 1..n : x >= f[i]
    BY <1>4, <1>5 DEF T
  <2> QED BY <1>1, <2>1
<1> QED BY <1>6 DEF Max

\* The roles below a role.

\* A turn of the walk over the roles.
WalkOK(raw, start, s) ==
    /\ s = [todo |-> s.todo, out |-> s.out]
    /\ s.out \subseteq s.todo /\ s.todo \subseteq RolesOf(raw) /\ start \subseteq s.todo
    /\ \A p \in s.out \cap DOMAIN raw : raw[p] \subseteq s.todo
    /\ \A S : start \subseteq S /\ (\A p \in S \cap DOMAIN raw : raw[p] \subseteq S) => s.todo \subseteq S
\* A turn keeps what is said of it, and adds a role unless all are out.
LEMMA VisitOK ==
    ASSUME NEW raw, NEW start, NEW s, WalkOK(raw, start, s)
    PROVE  /\ WalkOK(raw, start, Visit(raw, s))
           /\ s.todo \subseteq s.out => Visit(raw, s) = s
           /\ ~(s.todo \subseteq s.out) => \E p : p \notin s.out /\ Visit(raw, s).out = s.out \cup {p}
<1>1. CASE s.todo \subseteq s.out
  BY <1>1 DEF Visit
<1>2. CASE ~(s.todo \subseteq s.out)
  <2> DEFINE p == CHOOSE x \in s.todo \ s.out : TRUE
             more == IF p \in DOMAIN raw THEN raw[p] ELSE {}
             t == [todo |-> s.todo \cup more, out |-> s.out \cup {p}]
  <2>1. p \in s.todo /\ p \notin s.out
    BY <1>2
  <2>2. Visit(raw, s) = t
    BY <1>2 DEF Visit
  <2>3. p \in DOMAIN raw => raw[p] \subseteq RolesOf(raw)
    BY DEF RolesOf
  <2>4. t.todo = s.todo \cup more /\ t.out = s.out \cup {p}
    OBVIOUS
  <2> HIDE DEF p
  <2>5. t.out \subseteq t.todo /\ t.todo \subseteq RolesOf(raw) /\ start \subseteq t.todo
    BY <2>1, <2>3, <2>4 DEF WalkOK
  <2>6. \A q \in t.out \cap DOMAIN raw : raw[q] \subseteq t.todo
    BY <2>4 DEF WalkOK
  <2>7. ASSUME NEW S, start \subseteq S, \A q \in S \cap DOMAIN raw : raw[q] \subseteq S PROVE t.todo \subseteq S
    <3>1. s.todo \subseteq S
      BY <2>7 DEF WalkOK
    <3> QED BY <2>1, <2>4, <2>7, <3>1
  <2>8. WalkOK(raw, start, t)
    BY <2>4, <2>5, <2>6, <2>7 DEF WalkOK
  <2> QED BY <1>2, <2>1, <2>2, <2>4, <2>8
<1> QED BY <1>1, <1>2

\* After as many turns as there are roles none is left to visit.
LEMMA CollectedIs ==
    ASSUME NEW raw \in Hierarchies, NEW r \in DOMAIN raw
    PROVE  LET out == CollectInherited(raw, raw[r])
           IN  /\ raw[r] \subseteq out /\ \A p \in out \cap DOMAIN raw : raw[p] \subseteq out
               /\ \A S : raw[r] \subseteq S /\ (\A p \in S \cap DOMAIN raw : raw[p] \subseteq S) => out \subseteq S
<1> DEFINE all == RolesOf(raw)
           n == Cardinality(all)
           start == raw[r]
           s0 == [todo |-> start, out |-> {}]
           Body(f) == [i \in 0..n |-> IF i = 0 THEN s0 ELSE Visit(raw, f[i - 1])]
           F == CHOOSE f : f = Body(f)
<1>1. IsFiniteSet(all)
  <2>1. IsFiniteSet({raw[p] : p \in DOMAIN raw})
    BY CrudParams, ValuesFinite
  <2> QED BY <2>1, CrudParams, FS_UNION DEF RolesOf
<1>2. n \in Nat
  BY <1>1, FS_CardinalityType
<1>3. CollectInherited(raw, raw[r]) = F[n].out
  BY DEF CollectInherited
<1> DEFINE W == {s \in [todo : SUBSET all, out : SUBSET all] : WalkOK(raw, start, s)}
<1>4. s0 \in W
  <2>1. start \subseteq all
    BY DEF RolesOf
  <2>2. s0.todo = start /\ s0.out = {} /\ s0 = [todo |-> s0.todo, out |-> s0.out]
    OBVIOUS
  <2> HIDE DEF s0, all
  <2>3. WalkOK(raw, start, s0)
    BY <2>1, <2>2 DEF WalkOK, all
  <2>4. s0 \in [todo : SUBSET all, out : SUBSET all]
    BY <2>1, <2>2
  <2> QED BY <2>3, <2>4
<1>5. ASSUME NEW s \in W PROVE Visit(raw, s) \in W
  <2> DEFINE t == Visit(raw, s)
  <2>1. WalkOK(raw, start, t)
    BY VisitOK
  <2> HIDE DEF t
  <2>2. t = [todo |-> t.todo, out |-> t.out] /\ t.todo \subseteq all /\ t.out \subseteq all
    BY <2>1 DEF WalkOK
  <2> HIDE DEF all
  <2>3. t \in [todo : SUBSET all, out : SUBSET all]
    BY <2>2
  <2> QED BY <2>1, <2>3 DEF t
<1> HIDE DEF W, s0, n
<1>6. \E f : f = Body(f)
  <2> DEFINE step == [x \in (1..n) \X W |-> Visit(raw, x[2])]
  <2>1. LoopBody(n, W, step)
    BY <1>5 DEF LoopBody
  <2>2. \A i \in 1..n : \A s \in W : step[<<i, s>>] = Visit(raw, s)
    OBVIOUS
  <2> HIDE DEF step
  <2>3. PICK g : LoopStates(n, W, s0, step, g)
    BY <1>2, <1>4, <2>1, LoopRuns
  <2>4. g \in [0..n -> W] /\ g[0] = s0 /\ \A i \in 1..n : g[i] = step[<<i, g[i - 1]>>]
    BY <2>3 DEF LoopStates
  <2>5. \A i \in 1..n : i - 1 \in 0..n
    BY <1>2
  <2>6. \A i \in 1..n : g[i] = Visit(raw, g[i - 1])
    BY <2>2, <2>4, <2>5
  <2>7. \A i \in 0..n : i = 0 \/ i \in 1..n
    BY <1>2
  <2>8. \A i \in 0..n : g[i] = IF i = 0 THEN s0 ELSE Visit(raw, g[i - 1])
    BY <2>4, <2>6, <2>7
  <2>9. g = [i \in 0..n |-> g[i]]
    BY <2>4
  <2>10. g = Body(g)
    BY <2>8, <2>9
  <2> HIDE DEF Body
  <2> QED BY <2>10
<1>7. F = Body(F)
  <2> HIDE DEF Body
  <2> QED BY <1>6
<1> HIDE DEF F
<1>8. F[0] = s0 /\ \A i \in 1..n : F[i] = Visit(raw, F[i - 1])
  <2>1. \A i \in 0..n : F[i] = IF i = 0 THEN s0 ELSE Visit(raw, F[i - 1])
    BY <1>7
  <2>2. 0 \in 0..n /\ \A i \in 1..n : i \in 0..n /\ i # 0
    BY <1>2
  <2> QED BY <2>1, <2>2
<1> HIDE DEF Body
\* After i turns the walk is over or i roles are out.
<1> DEFINE T == {i \in 0..n : F[i] \in W /\ (F[i].todo \subseteq F[i].out \/ Cardinality(F[i].out) = i)}
<1>9. 0 \in T
  <2>1. s0.out = {}
    BY DEF s0
  <2>2. Cardinality(s0.out) = 0 /\ 0 \in 0..n
    BY <1>2, <2>1, FS_EmptySet
  <2> QED BY <1>4, <1>8, <2>2
<1>10. ASSUME NEW i \in 1..n, i - 1 \in T PROVE i \in T
  <2> DEFINE s == F[i - 1]
             t == F[i]
  <2>1. s \in W /\ t = Visit(raw, s) /\ (s.todo \subseteq s.out \/ Cardinality(s.out) = i - 1)
    BY <1>8, <1>10
  <2> HIDE DEF s, t
  <2>2. t \in W /\ WalkOK(raw, start, s)
    BY <1>5, <2>1 DEF W
  <2>3. CASE s.todo \subseteq s.out
    <3>1. t = s
      BY <2>1, <2>2, <2>3, VisitOK
    <3> QED BY <1>2, <2>2, <2>3, <3>1 DEF t
  <2>4. CASE ~(s.todo \subseteq s.out)
    <3>1. PICK p : p \notin s.out /\ t.out = s.out \cup {p}
      BY <2>1, <2>2, <2>4, VisitOK
    <3>2. IsFiniteSet(s.out)
      BY <1>1, <2>1, FS_Subset DEF W
    <3>3. Cardinality(t.out) = Cardinality(s.out) + 1
      BY <3>1, <3>2, FS_AddElement
    <3>4. Cardinality(t.out) = i
      BY <1>2, <2>1, <2>4, <3>3
    <3> QED BY <1>2, <2>2, <3>4 DEF t
  <2> QED BY <2>3, <2>4
<1> HIDE DEF T
<1>11. n \in T
  <2>1. \A i \in 0..n : i \in T
    BY <1>2, <1>9, <1>10, UpTo
  <2> QED BY <1>2, <2>1
<1> DEFINE e == F[n]
<1>12. e \in W /\ (e.todo \subseteq e.out \/ Cardinality(e.out) = n)
  BY <1>11 DEF T
<1> HIDE DEF e
<1>13. WalkOK(raw, start, e) /\ e.out \subseteq all
  BY <1>12 DEF W
<1>14. e.todo \subseteq e.out
  <2>1. CASE Cardinality(e.out) = n
    <3>1. e.out = all
      BY <1>1, <1>13, <2>1, FS_Subset DEF n
    <3> QED BY <1>13, <3>1 DEF WalkOK
  <2> QED BY <1>12, <2>1
<1>15. e.out = e.todo
  BY <1>13, <1>14 DEF WalkOK
<1> QED BY <1>3, <1>13, <1>15 DEF WalkOK, e

\* Of two numbers the smaller.
LEMMA SmallerIs ==
    ASSUME NEW a \in Int, NEW b \in Int
    PROVE  (a <= b => Min({a, b}) = a) /\ (b <= a => Min({a, b}) = b)
<1> DEFINE P(x) == x \in {a, b} /\ \A y \in {a, b} : x <= y
<1>1. CASE a <= b
  <2>1. P(a) /\ \A x : P(x) => x = a
    BY <1>1
  <2>2. P(CHOOSE x : P(x))
    BY <2>1
  <2> QED BY <1>1, <2>1, <2>2 DEF Min
<1>2. CASE b <= a
  <2>1. P(b) /\ \A x : P(x) => x = b
    BY <1>2
  <2>2. P(CHOOSE x : P(x))
    BY <2>1
  <2> QED BY <1>2, <2>1, <2>2 DEF Min
<1> QED BY <1>1, <1>2

\* A list, whatever it holds, that grows at its end.
IsList(s) == s \in Seq(Range(s))
\* What it holds then.
LEMMA ListGrows ==
    ASSUME NEW s, IsList(s), NEW x
    PROVE  /\ IsList(Append(s, x)) /\ Len(s) \in Nat /\ Len(Append(s, x)) = Len(s) + 1
           /\ Append(s, x)[Len(s) + 1] = x /\ \A k \in 1..Len(s) : Append(s, x)[k] = s[k]
<1> DEFINE T == Range(s) \cup {x}
           a == Append(s, x)
<1>1. s \in Seq(T) /\ x \in T
  BY DEF IsList
<1> HIDE DEF T
<1>2. /\ a \in Seq(T) /\ Len(s) \in Nat /\ Len(a) = Len(s) + 1
      /\ a[Len(s) + 1] = x /\ \A k \in 1..Len(s) : a[k] = s[k]
  BY <1>1
<1> HIDE DEF a
<1>3. DOMAIN a = 1..Len(a) /\ Len(a) \in Nat
  BY <1>2
<1>4. \A k \in 1..Len(a) : a[k] \in Range(a)
  BY <1>3 DEF Range
<1>5. a \in Seq(Range(a))
  BY <1>2, <1>3, <1>4
<1> QED BY <1>2, <1>5 DEF IsList, a

\* One that loses its first element.
LEMMA ListShrinks ==
    ASSUME NEW s, IsList(s), Len(s) # 0
    PROVE  /\ IsList(Tail(s)) /\ Len(s) \in Nat /\ Len(s) >= 1 /\ Len(Tail(s)) = Len(s) - 1
           /\ \A k \in 1..(Len(s) - 1) : Tail(s)[k] = s[k + 1]
<1> DEFINE T == Range(s)
           a == Tail(s)
<1>1. s \in Seq(T)
  BY DEF IsList
<1> HIDE DEF T
<1>2. s # <<>>
  OBVIOUS
<1>3. /\ a \in Seq(T) /\ Len(s) \in Nat /\ Len(s) >= 1 /\ Len(a) = Len(s) - 1
      /\ \A k \in 1..(Len(s) - 1) : a[k] = s[k + 1]
  BY <1>1, <1>2
<1> HIDE DEF a
<1>4. DOMAIN a = 1..Len(a) /\ Len(a) \in Nat
  BY <1>3
<1>5. \A k \in 1..Len(a) : a[k] \in Range(a)
  BY <1>4 DEF Range
<1>6. a \in Seq(Range(a))
  BY <1>3, <1>4, <1>5
<1> QED BY <1>3, <1>6 DEF IsList, a

\* The state of the handlers, and what a step leaves as it was.
CwFields == {"raw", "inherits", "rows", "pc", "resp", "owners", "read", "changes", "sent", "flying", "saving",
             "log", "nextId", "stored"}
SameRoles(s, t) == DOMAIN t = CwFields /\ t.raw = s.raw /\ t.inherits = s.inherits
SameRows(s, t) == t.rows = s.rows /\ t.changes = s.changes
SameDeliveries(s, t) == t.sent = s.sent /\ t.flying = s.flying
SameLog(s, t) == t.saving = s.saving /\ t.stored = s.stored /\ t.log = s.log /\ t.nextId = s.nextId

\* The rule of a request, evaluated with the roles of a state rather than the current one.
Reaches(inh, role, wanted) == role = wanted \/ (role \in DOMAIN inh /\ wanted \in inh[role])
Term(inh, t, r, owner) ==
    CASE t = "public" -> TRUE
      [] t = "authenticated" -> r.user # Nobody
      [] t = "own" -> r.user # Nobody /\ owner = r.user
      [] OTHER -> r.user # Nobody /\ Reaches(inh, r.role, t)
Rule(inh, rule, r, owner) ==
    IF rule.any THEN \E t \in rule.terms : Term(inh, t, r, owner) ELSE \A t \in rule.terms : Term(inh, t, r, owner)
\* One of the owners satisfies it.
ByOwner(inh, by, owners) ==
    by.op \in DOMAIN Policy /\ by.op # "create" => \E o \in owners : Rule(inh, Policy[by.op], by, o)

\* The two say the same.
LEMMA RuleIs == \A rule, r, o : EvaluateRule(rule, r, o) <=> Rule(cw.inherits, rule, r, o)
<1>1. \A role, wanted : RoleSatisfies(role, wanted) <=> Reaches(cw.inherits, role, wanted)
  BY DEF RoleSatisfies, Reaches
<1>2. ASSUME NEW t, NEW r, NEW o PROVE EvaluateTerm(t, r, o) <=> Term(cw.inherits, t, r, o)
  <2>1. t # "public" /\ t # "authenticated" /\ t # "own" => (EvaluateTerm(t, r, o) <=> (r.user # Nobody /\ RoleSatisfies(r.role, t)))
    BY DEF EvaluateTerm
  <2>2. t # "public" /\ t # "authenticated" /\ t # "own" => (Term(cw.inherits, t, r, o) <=> (r.user # Nobody /\ Reaches(cw.inherits, r.role, t)))
    BY DEF Term
  <2>3. t = "public" \/ t = "authenticated" \/ t = "own" => (EvaluateTerm(t, r, o) <=> Term(cw.inherits, t, r, o))
    BY DEF EvaluateTerm, Term
  <2> QED BY <1>1, <2>1, <2>2, <2>3
<1> QED BY <1>2 DEF EvaluateRule, Rule

\* A request that passed the check passes it for one of the owners.
LEMMA CheckedIs ==
    ASSUME NEW r, NEW o, CheckPolicy(r, r.op, o)
    PROVE  ByOwner(cw.inherits, r, {o})
BY RuleIs DEF CheckPolicy, ByOwner

\* More owners do no harm.
LEMMA MoreOwners ==
    ASSUME NEW inh, NEW by, NEW a, NEW b, ByOwner(inh, by, a), a \subseteq b
    PROVE  ByOwner(inh, by, b)
BY DEF ByOwner

\* A refused or failed request is answered, and that is all.
LEMMA AnswerIs ==
    ASSUME NEW s, DOMAIN s = CwFields, NEW r, NEW status, NEW data, NEW t, t = Answer(s, r, status, data)
    PROVE  /\ SameRoles(s, t) /\ SameRows(s, t) /\ SameDeliveries(s, t) /\ SameLog(s, t)
           /\ t.pc = [s.pc EXCEPT ![r] = "done"] /\ t.owners = s.owners
<1>1. t = [s EXCEPT !.pc[r] = "done", !.resp[r] = <<[status |-> status, data |-> data]>>]
  BY DEF Answer
<1> DEFINE a == <<[status |-> status, data |-> data]>>
<1> HIDE DEF a
<1>2. t = [s EXCEPT !.pc = [s.pc EXCEPT ![r] = "done"], !.resp = [s.resp EXCEPT ![r] = a]]
  BY <1>1 DEF a, CwFields
<1>3. DOMAIN t = CwFields
  BY <1>2
<1>4. SameRoles(s, t) /\ SameRows(s, t)
  BY <1>2, <1>3 DEF CwFields, SameRoles, SameRows
<1>5. SameDeliveries(s, t)
  BY <1>2 DEF CwFields, SameDeliveries
<1>6. SameLog(s, t)
  BY <1>2 DEF CwFields, SameLog
<1>7. t.owners = s.owners /\ t.pc = [s.pc EXCEPT ![r] = "done"]
  BY <1>2 DEF CwFields
<1> QED BY <1>4, <1>5, <1>6, <1>7

\* The same, of the state it leaves.
Answered(s, t, r) ==
    /\ SameRoles(s, t) /\ SameRows(s, t) /\ SameDeliveries(s, t) /\ SameLog(s, t)
    /\ t.pc = [s.pc EXCEPT ![r] = "done"] /\ t.owners = s.owners
\* Every answer is of that kind.
LEMMA AnswerLeaves ==
    \A s, r, status, data : DOMAIN s = CwFields => Answered(s, Answer(s, r, status, data), r)
<1> SUFFICES ASSUME NEW s, NEW r, NEW status, NEW data, DOMAIN s = CwFields
             PROVE  Answered(s, Answer(s, r, status, data), r)
  OBVIOUS
<1> DEFINE t == Answer(s, r, status, data)
<1>1. t = Answer(s, r, status, data)
  OBVIOUS
<1> HIDE DEF t
<1>2. Answered(s, t, r)
  BY <1>1, AnswerIs DEF Answered
<1> QED BY <1>1, <1>2

\* The owners the other requests have seen, after a write.
Seen(s, id, row) == [q \in DOMAIN s.owners |-> IF s.pc[q] = "checked" /\ q.id = id THEN s.owners[q] \cup {OwnerOf(row)} ELSE s.owners[q]]
TheChange(s, r, event, id, row) == [event |-> event, id |-> id, by |-> r, row |-> row, owners |-> s.owners[r]]
\* A write adds its change, and the owner it leaves.
LEMMA ChangedIs ==
    ASSUME NEW s, DOMAIN s = CwFields, NEW r, NEW event, NEW id, NEW row, NEW t, t = Changed(s, r, event, id, row)
    PROVE  /\ SameRoles(s, t) /\ t.rows = s.rows /\ SameDeliveries(s, t) /\ SameLog(s, t) /\ t.pc = s.pc
           /\ t.changes = Append(s.changes, TheChange(s, r, event, id, row)) /\ t.owners = Seen(s, id, row)
<1> DEFINE c == TheChange(s, r, event, id, row)
           o == Seen(s, id, row)
<1>1. t = [s EXCEPT !.changes = Append(s.changes, c), !.owners = o]
  BY DEF Changed, TheChange, Seen, CwFields
<1> HIDE DEF c, o
<1>3. DOMAIN t = CwFields
  BY <1>1
<1>4. SameRoles(s, t) /\ t.rows = s.rows /\ t.pc = s.pc
  BY <1>1, <1>3 DEF CwFields, SameRoles
<1>5. SameDeliveries(s, t)
  BY <1>1 DEF CwFields, SameDeliveries
<1>6. SameLog(s, t)
  BY <1>1 DEF CwFields, SameLog
<1>7. t.changes = Append(s.changes, c) /\ t.owners = o
  BY <1>1 DEF CwFields
<1> QED BY <1>4, <1>5, <1>6, <1>7 DEF c, o

\* The deliveries of a change.
Fits(c, event, row) == c.event = event /\ EvaluateFilters(c, row)
NewDeliveries(n, event, row) == {[config |-> c, change |-> n] : c \in {x \in Configs : Fits(x, event, row)}}
\* They are under way from then on.
LEMMA FireIs ==
    ASSUME NEW s, DOMAIN s = CwFields, NEW event, NEW row, NEW t, t = Fire(s, event, row)
    PROVE  /\ SameRoles(s, t) /\ SameRows(s, t) /\ SameLog(s, t) /\ t.pc = s.pc /\ t.owners = s.owners
           /\ t.sent = s.sent \cup NewDeliveries(Len(s.changes), event, row)
           /\ t.flying = s.flying \cup NewDeliveries(Len(s.changes), event, row)
<1> DEFINE new == NewDeliveries(Len(s.changes), event, row)
<1>1. t = [s EXCEPT !.sent = s.sent \cup new, !.flying = s.flying \cup new]
  BY DEF Fire, NewDeliveries, Fits, CwFields
<1> HIDE DEF new
<1>3. DOMAIN t = CwFields
  BY <1>1
<1>4. SameRoles(s, t) /\ SameRows(s, t)
  BY <1>1, <1>3 DEF CwFields, SameRoles, SameRows
<1>5. SameLog(s, t)
  BY <1>1 DEF CwFields, SameLog
<1>6. t.pc = s.pc /\ t.owners = s.owners
  BY <1>1 DEF CwFields
<1>7. t.sent = s.sent \cup new /\ t.flying = s.flying \cup new
  BY <1>1 DEF CwFields
<1> QED BY <1>4, <1>5, <1>6, <1>7 DEF new

\* What holds of the handlers.  The roles of the hierarchy are those of the start; rows
\* and calls are numbered.
RolesOK(s) == DOMAIN s = CwFields /\ s.raw \in Hierarchies /\ s.inherits = TransitiveClosureOf(s.raw)
CallsOK(s) ==
    /\ IsFiniteSet(DOMAIN s.pc) /\ \A r \in DOMAIN s.pc : r.id \in Int
    /\ DOMAIN s.owners = DOMAIN s.pc
    /\ \A r \in DOMAIN s.pc : s.pc[r] = "checked" => ByOwner(s.inherits, r, s.owners[r])
\* A change was allowed by an owner of its row, and what was deleted is gone.
ChangeOK(inh, c) ==
    /\ c.id \in Int /\ ByOwner(inh, c.by, c.owners)
    /\ c.event = "created" /\ c.by.user # Nobody => c.row.owner = c.by.user
RowsOK(s) ==
    /\ IsFiniteSet(DOMAIN s.rows) /\ DOMAIN s.rows \subseteq Int /\ IsList(s.changes) /\ Len(s.changes) \in Nat
    /\ \A i \in 1..Len(s.changes) : ChangeOK(s.inherits, s.changes[i])
    /\ \A i \in 1..Len(s.changes) : s.changes[i].event = "deleted" =>
          s.changes[i].id \notin DOMAIN s.rows /\ \A j \in 1..Len(s.changes) : i < j => s.changes[j].id # s.changes[i].id
\* The deliveries of the changes.
Due(x, changes) ==
    \E c \in Configs, i \in 1..Len(changes) :
        x = [config |-> c, change |-> i] /\ Fits(c, changes[i].event, changes[i].row)
SentOK(s) ==
    /\ IsFiniteSet(s.sent) /\ s.flying \subseteq s.sent /\ \A x : x \in s.sent <=> Due(x, s.changes)
\* The log and the table, about the deliveries that were made.
LogOK(s) ==
    /\ s.saving \subseteq s.sent \ s.flying /\ s.stored \subseteq s.sent \ s.flying
    /\ s.nextId = Cardinality(s.sent \ s.flying) + 1
    /\ IsList(s.log) /\ Len(s.log) = Min({MaxRecords, s.nextId - 1})
    /\ \A i \in 1..Len(s.log) : s.log[i].id = s.nextId - Len(s.log) + i - 1 /\ s.log[i].of \in s.sent \ s.flying
    /\ \A i, j \in 1..Len(s.log) : i # j => s.log[i].of # s.log[j].of
CrudOK(s) == RolesOK(s) /\ CallsOK(s) /\ RowsOK(s) /\ SentOK(s) /\ LogOK(s)
CrudInv == CrudOK(cw)

\* What each of them speaks of.
LEMMA RolesKept ==
    ASSUME NEW s, NEW t, RolesOK(s), SameRoles(s, t)
    PROVE  RolesOK(t)
BY DEF RolesOK, SameRoles
\* The changes and the rows.
LEMMA RowsKept ==
    ASSUME NEW s, NEW t, RowsOK(s), SameRoles(s, t), SameRows(s, t)
    PROVE  RowsOK(t)
BY DEF RowsOK, SameRoles, SameRows
\* The deliveries of the changes.
LEMMA SentKept ==
    ASSUME NEW s, NEW t, SentOK(s), SameRows(s, t), SameDeliveries(s, t)
    PROVE  SentOK(t)
BY DEF SentOK, SameRows, SameDeliveries
\* The log.
LEMMA LogKept ==
    ASSUME NEW s, NEW t, LogOK(s), SameDeliveries(s, t), SameLog(s, t)
    PROVE  LogOK(t)
BY DEF LogOK, SameDeliveries, SameLog
\* A call that ends needs no owner any more.
LEMMA CallEnds ==
    ASSUME NEW s, NEW t, CallsOK(s), t.inherits = s.inherits, NEW r,
           t.pc = [s.pc EXCEPT ![r] = "done"], DOMAIN t.owners = DOMAIN s.owners,
           \A q \in DOMAIN s.owners : s.owners[q] \subseteq t.owners[q]
    PROVE  CallsOK(t)
<1>1. DOMAIN t.pc = DOMAIN s.pc
  OBVIOUS
<1>2. ASSUME NEW q \in DOMAIN t.pc, t.pc[q] = "checked" PROVE ByOwner(t.inherits, q, t.owners[q])
  <2>1. q \in DOMAIN s.pc /\ q \in DOMAIN s.owners /\ s.pc[q] = "checked"
    BY <1>1, <1>2 DEF CallsOK
  <2>2. ByOwner(s.inherits, q, s.owners[q]) /\ s.owners[q] \subseteq t.owners[q]
    BY <2>1 DEF CallsOK
  <2> QED BY <2>2, MoreOwners
<1> QED BY <1>1, <1>2 DEF CallsOK

\* An answer alone keeps everything.
LEMMA AnswerOK ==
    ASSUME NEW s, CrudOK(s), NEW r, NEW status, NEW data
    PROVE  CrudOK(Answer(s, r, status, data))
<1> DEFINE t == Answer(s, r, status, data)
<1>1. t = Answer(s, r, status, data) /\ DOMAIN s = CwFields
  BY DEF CrudOK, RolesOK
<1> HIDE DEF t
<1>2. /\ SameRoles(s, t) /\ SameRows(s, t) /\ SameDeliveries(s, t) /\ SameLog(s, t)
      /\ t.pc = [s.pc EXCEPT ![r] = "done"] /\ t.owners = s.owners
  BY <1>1, AnswerIs
<1>3. CallsOK(t)
  <2>1. t.inherits = s.inherits
    BY <1>2 DEF SameRoles
  <2> QED BY <1>2, <2>1, CallEnds DEF CrudOK
<1>4. RolesOK(t) /\ RowsOK(t) /\ SentOK(t) /\ LogOK(t)
  BY <1>2, RolesKept, RowsKept, SentKept, LogKept DEF CrudOK
<1> QED BY <1>1, <1>3, <1>4 DEF CrudOK

\* A write: the rows, and the change that is announced.
LEMMA WriteOK ==
    ASSUME NEW s, CrudOK(s), NEW rows, NEW r \in DOMAIN s.pc, NEW event, NEW id \in Int, NEW row, NEW status, NEW data,
           IsFiniteSet(DOMAIN rows), DOMAIN rows \subseteq Int,
           ByOwner(s.inherits, r, s.owners[r]),
           event = "created" /\ r.user # Nobody => row.owner = r.user,
           event = "deleted" => id \notin DOMAIN rows,
           \A i \in 1..Len(s.changes) : s.changes[i].event = "deleted" => s.changes[i].id \notin DOMAIN rows \cup {id}
    PROVE  CrudOK(Answer(Fire(Changed([s EXCEPT !.rows = rows], r, event, id, row), event, row), r, status, data))
<1> DEFINE a == [s EXCEPT !.rows = rows]
           b == Changed(a, r, event, id, row)
           c == Fire(b, event, row)
           t == Answer(c, r, status, data)
           ch == TheChange(s, r, event, id, row)
           n == Len(s.changes)
           new == NewDeliveries(n + 1, event, row)
<1>0. DOMAIN s = CwFields
  BY DEF CrudOK, RolesOK
<1>1. SameRoles(s, a) /\ a.rows = rows /\ a.changes = s.changes /\ a.pc = s.pc /\ a.owners = s.owners
  BY <1>0 DEF SameRoles, CwFields
<1>2. SameDeliveries(s, a) /\ SameLog(s, a)
  BY <1>0 DEF SameDeliveries, SameLog, CwFields
<1>a. b = Changed(a, r, event, id, row) /\ c = Fire(b, event, row) /\ t = Answer(c, r, status, data)
  OBVIOUS
<1> HIDE DEF a, b, c, t
<1>3. /\ SameRoles(a, b) /\ b.rows = a.rows /\ SameDeliveries(a, b) /\ SameLog(a, b) /\ b.pc = a.pc
      /\ b.changes = Append(a.changes, TheChange(a, r, event, id, row)) /\ b.owners = Seen(a, id, row)
  BY <1>1, <1>a, ChangedIs DEF SameRoles
<1>4. /\ SameRoles(b, c) /\ SameRows(b, c) /\ SameLog(b, c) /\ c.pc = b.pc /\ c.owners = b.owners
      /\ c.sent = b.sent \cup NewDeliveries(Len(b.changes), event, row)
      /\ c.flying = b.flying \cup NewDeliveries(Len(b.changes), event, row)
  BY <1>3, <1>a, FireIs DEF SameRoles
<1>5. /\ SameRoles(c, t) /\ SameRows(c, t) /\ SameDeliveries(c, t) /\ SameLog(c, t)
      /\ t.pc = [c.pc EXCEPT ![r] = "done"] /\ t.owners = c.owners
  <2>1. DOMAIN c = CwFields
    BY <1>4 DEF SameRoles
  <2>2. t = Answer(c, r, status, data)
    BY <1>a
  <2>3. Answered(c, Answer(c, r, status, data), r)
    BY <2>1, AnswerLeaves, Zenon
  <2> QED BY <2>2, <2>3 DEF Answered
<1>6. IsList(s.changes) /\ n \in Nat
  BY DEF CrudOK, RowsOK
<1>7. SameRoles(s, t)
  BY <1>1, <1>3, <1>4, <1>5 DEF SameRoles
<1>8. t.rows = rows /\ t.changes = Append(s.changes, ch)
  BY <1>1, <1>3, <1>4, <1>5 DEF SameRows, TheChange
<1>9. IsList(t.changes) /\ Len(t.changes) = n + 1 /\ t.changes[n + 1] = ch /\ \A k \in 1..n : t.changes[k] = s.changes[k]
  BY <1>6, <1>8, ListGrows
<1>10. t.sent = s.sent \cup new /\ t.flying = s.flying \cup new
  <2>1. b.changes = t.changes
    BY <1>4, <1>5 DEF SameRows
  <2>2. Len(b.changes) = n + 1
    BY <1>9, <2>1
  <2> HIDE DEF n
  <2> QED BY <1>2, <1>3, <1>4, <1>5, <2>2 DEF SameDeliveries
<1>11. SameLog(s, t)
  BY <1>2, <1>3, <1>4, <1>5 DEF SameLog
<1>12. t.pc = [s.pc EXCEPT ![r] = "done"] /\ t.owners = Seen(s, id, row)
  BY <1>1, <1>3, <1>4, <1>5 DEF Seen
<1>13. ch.event = event /\ ch.id = id /\ ch.by = r /\ ch.row = row /\ ch.owners = s.owners[r]
  BY DEF TheChange
<1> HIDE DEF ch, n
<1>14. CallsOK(t)
  <2>1. DOMAIN t.owners = DOMAIN s.owners /\ \A q \in DOMAIN s.owners : s.owners[q] \subseteq t.owners[q]
    BY <1>12 DEF Seen
  <2>2. t.inherits = s.inherits
    BY <1>7 DEF SameRoles
  <2> QED BY <1>12, <2>1, <2>2, CallEnds DEF CrudOK
<1>15. RowsOK(t)
  <2>1. \A k \in 1..(n + 1) : k = n + 1 \/ k \in 1..n
    BY <1>6
  <2>2. t.inherits = s.inherits
    BY <1>7 DEF SameRoles
  <2>3. ChangeOK(t.inherits, ch)
    BY <1>13, <2>2 DEF ChangeOK
  <2>4. \A k \in 1..n : ChangeOK(t.inherits, s.changes[k])
    BY <2>2 DEF CrudOK, RowsOK, n
  <2>5. \A k \in 1..(n + 1) : ChangeOK(t.inherits, t.changes[k])
    BY <1>9, <2>1, <2>3, <2>4
  <2>6. ASSUME NEW i \in 1..(n + 1), t.changes[i].event = "deleted", NEW j \in 1..(n + 1), i < j
        PROVE  t.changes[j].id # t.changes[i].id
    <3>1. i \in 1..n /\ t.changes[i] = s.changes[i]
      BY <1>6, <1>9, <2>6
    <3>2. CASE j = n + 1
      <4>1. s.changes[i].id # id
        BY <2>6, <3>1 DEF n
      <4> QED BY <1>9, <1>13, <3>1, <3>2, <4>1
    <3>3. CASE j \in 1..n
      <4>1. s.changes[j].id # s.changes[i].id
        BY <2>6, <3>1, <3>3 DEF CrudOK, RowsOK, n
      <4> QED BY <1>9, <3>1, <3>3, <4>1
    <3> QED BY <2>1, <3>2, <3>3
  <2>7. ASSUME NEW i \in 1..(n + 1), t.changes[i].event = "deleted" PROVE t.changes[i].id \notin DOMAIN rows
    <3>1. CASE i = n + 1
      BY <1>9, <1>13, <2>7, <3>1
    <3>2. CASE i \in 1..n
      <4>1. t.changes[i] = s.changes[i]
        BY <1>9, <3>2
      <4> QED BY <2>7, <3>2, <4>1 DEF n
    <3> QED BY <2>1, <3>1, <3>2
  <2>8. Len(t.changes) \in Nat
    BY <1>6, <1>9
  <2>9. \A i \in 1..Len(t.changes) : t.changes[i].event = "deleted" =>
          t.changes[i].id \notin DOMAIN t.rows /\ \A j \in 1..Len(t.changes) : i < j => t.changes[j].id # t.changes[i].id
    BY <1>8, <1>9, <2>6, <2>7
  <2> QED BY <1>8, <1>9, <2>5, <2>8, <2>9 DEF RowsOK
<1>16. \A x : x \in new <=> \E d \in Configs : x = [config |-> d, change |-> n + 1] /\ Fits(d, event, row)
  BY DEF NewDeliveries
<1>17. IsFiniteSet(new)
  <2> DEFINE X == {x \in Configs : Fits(x, event, row)}
             f == [d \in X |-> [config |-> d, change |-> n + 1]]
  <2>1. IsFiniteSet(X)
    BY CrudParams, FS_Subset
  <2>2. new = {f[d] : d \in X}
    BY DEF NewDeliveries
  <2> HIDE DEF X, f, new
  <2> QED BY <2>1, <2>2, ValuesFinite
<1> HIDE DEF new
<1>18. new \cap s.sent = {}
  <2>1. SUFFICES ASSUME NEW x \in new, x \in s.sent PROVE FALSE
    OBVIOUS
  <2>2. PICK d : x = [config |-> d, change |-> n + 1]
    BY <1>16
  <2>3. PICK e \in Configs, i \in 1..n : x = [config |-> e, change |-> i]
    BY <2>1 DEF CrudOK, SentOK, Due, n
  <2>4. x.change = n + 1 /\ x.change = i
    BY <2>2, <2>3
  <2> QED BY <1>6, <2>4
<1>19. SentOK(t)
  <2>1. IsFiniteSet(t.sent) /\ t.flying \subseteq t.sent
    <3>1. IsFiniteSet(s.sent) /\ s.flying \subseteq s.sent
      BY DEF CrudOK, SentOK
    <3>2. IsFiniteSet(s.sent \cup new)
      BY <1>17, <3>1, FS_Union
    <3> QED BY <1>10, <3>1, <3>2
  <2>2. ASSUME NEW x PROVE x \in t.sent <=> Due(x, t.changes)
    <3>1. \A k \in 1..(n + 1) : k = n + 1 \/ k \in 1..n
      BY <1>6
    <3>2. n + 1 \in 1..(n + 1) /\ \A k \in 1..n : k \in 1..(n + 1)
      BY <1>6
    <3>3. x \in s.sent <=> \E d \in Configs, i \in 1..n : x = [config |-> d, change |-> i] /\ Fits(d, t.changes[i].event, t.changes[i].row)
      BY <1>9 DEF CrudOK, SentOK, Due, n
    <3>4. x \in new <=> \E d \in Configs : x = [config |-> d, change |-> n + 1] /\ Fits(d, t.changes[n + 1].event, t.changes[n + 1].row)
      BY <1>9, <1>13, <1>16
    <3>5. Due(x, t.changes) <=> \E d \in Configs, i \in 1..(n + 1) : x = [config |-> d, change |-> i] /\ Fits(d, t.changes[i].event, t.changes[i].row)
      BY <1>9 DEF Due
    <3>6. x \in t.sent => Due(x, t.changes)
      BY <1>10, <3>2, <3>3, <3>4, <3>5
    <3>7. Due(x, t.changes) => x \in t.sent
      BY <1>10, <3>1, <3>3, <3>4, <3>5
    <3> QED BY <3>6, <3>7
  <2> QED BY <2>1, <2>2 DEF SentOK
<1>20. LogOK(t)
  <2>1. t.sent \ t.flying = s.sent \ s.flying
    BY <1>10, <1>18
  <2>2. LogOK(s)
    BY DEF CrudOK
  <2> QED BY <1>11, <2>1, <2>2 DEF LogOK, SameLog
<1>21. RolesOK(t)
  BY <1>7, RolesKept DEF CrudOK
<1> QED BY <1>a, <1>14, <1>15, <1>19, <1>20, <1>21 DEF CrudOK, a, b, c, t

\* The handlers, one by one.  Every way out but one is an answer.
Answers1(r) == \E status, data : cw' = Answer(cw, r, status, data)
\* After which everything holds as before.
LEMMA Answered1 ==
    ASSUME CrudInv, NEW r, Answers1(r)
    PROVE  CrudInv'
<1>1. PICK status, data : cw' = Answer(cw, r, status, data)
  BY DEF Answers1
<1>2. CrudOK(cw')
  BY <1>1, AnswerOK DEF CrudInv
<1> QED BY <1>2 DEF CrudInv

\* Reading does nothing else.
LEMMA ReadsOnly ==
    ASSUME NEW r, NEW up, ListHandler(r, up) \/ GetHandler(r, up)
    PROVE  Answers1(r)
<1>1. CASE ListHandler(r, up)
  <2> DEFINE shown == [i \in DOMAIN cw.rows |-> FilterResponse(cw.rows[i], r, FALSE)]
  <2>1. cw' = CASE ~CheckPolicy(r, "read", Nobody) -> Answer(cw, r, Denied(r), <<>>)
               [] ~DbBacked -> Answer(cw, r, 503, <<>>)
               [] ~up -> Answer(cw, r, 500, <<>>)
               [] OTHER -> Answer(cw, r, 200, shown)
    BY <1>1 DEF ListHandler
  <2> HIDE DEF shown
  <2> QED BY <2>1 DEF Answers1
<1>2. CASE GetHandler(r, up)
  BY <1>2 DEF GetHandler, Answers1
<1> QED BY <1>1, <1>2

\* The number of a new row was never used.
LEMMA NewIdIs ==
    ASSUME CrudInv, NEW r \in DOMAIN cw.pc
    PROVE  /\ NewId(cw) \in Int /\ NewId(cw) \notin DOMAIN cw.rows
           /\ \A i \in 1..Len(cw.changes) : cw.changes[i].id # NewId(cw)
<1> DEFINE A == DOMAIN cw.rows
           B == {q.id : q \in DOMAIN cw.pc}
           C == {cw.changes[i].id : i \in DOMAIN cw.changes}
           S == A \cup B \cup C
<1>1. CallsOK(cw) /\ RowsOK(cw)
  BY DEF CrudInv, CrudOK
<1>2. DOMAIN cw.changes = 1..Len(cw.changes) /\ Len(cw.changes) \in Nat
  BY <1>1 DEF RowsOK, IsList
<1>3. IsFiniteSet(A) /\ A \subseteq Int
  BY <1>1 DEF RowsOK
<1>4. IsFiniteSet(B) /\ B \subseteq Int
  <2> DEFINE Q == DOMAIN cw.pc
             f == [q \in Q |-> q.id]
  <2>1. B = {f[q] : q \in Q}
    OBVIOUS
  <2>2. IsFiniteSet(Q) /\ \A q \in Q : q.id \in Int
    BY <1>1 DEF CallsOK
  <2>3. B \subseteq Int
    BY <2>2
  <2> HIDE DEF Q, f, B
  <2> QED BY <2>1, <2>2, <2>3, ValuesFinite
<1>5. IsFiniteSet(C) /\ C \subseteq Int
  <2> DEFINE Q == 1..Len(cw.changes)
             f == [i \in Q |-> cw.changes[i].id]
  <2>1. C = {f[i] : i \in Q}
    BY <1>2
  <2>2. \A i \in Q : cw.changes[i].id \in Int
    BY <1>1 DEF RowsOK, ChangeOK
  <2>3. C \subseteq Int
    BY <1>2, <2>2
  <2>4. IsFiniteSet(Q)
    BY <1>2, FS_Interval
  <2> HIDE DEF Q, f, C
  <2> QED BY <2>1, <2>3, <2>4, ValuesFinite
<1>6. r.id \in B /\ \A i \in 1..Len(cw.changes) : cw.changes[i].id \in C
  BY <1>2
<1>7. NewId(cw) = Max(S) + 1
  BY DEF NewId
<1> HIDE DEF A, B, C
<1>8. IsFiniteSet(S) /\ S \subseteq Int /\ S # {}
  BY <1>3, <1>4, <1>5, <1>6, FS_Union
<1> HIDE DEF S
<1>9. Max(S) \in S /\ \A x \in S : Max(S) >= x
  BY <1>8, GreatestIs
<1>10. Max(S) + 1 \in Int /\ Max(S) + 1 \notin S
  <2>1. Max(S) \in Int
    BY <1>8, <1>9
  <2>2. Max(S) + 1 \in Int /\ ~(Max(S) >= Max(S) + 1)
    BY <2>1
  <2> QED BY <1>9, <2>2
<1> QED BY <1>6, <1>7, <1>10 DEF A, S

\* A row is created under a number of its own, for the caller.
LEMMA CreatedRight == \A r : r.user # Nobody => Created(r).owner = r.user
BY DEF Created, Fields
\* So a new row changes nothing of what was there.
LEMMA CreateHandlerOK ==
    ASSUME CrudInv, NEW r \in DOMAIN cw.pc, NEW up, CreateHandler(r, up)
    PROVE  CrudInv'
<1> DEFINE id == NewId(cw)
           row == Created(r)
           rows == [i \in DOMAIN cw.rows \cup {id} |-> IF i = id THEN row ELSE cw.rows[i]]
           data == id :> FilterResponse(row, r, FALSE)
           t == Answer(Fire(Changed([cw EXCEPT !.rows = rows], r, "created", id, row), "created", row), r, 200, data)
<1>1. r.op = "create" /\ (Answers1(r) \/ cw' = t)
  <2>1. /\ r.op = "create"
        /\ cw' = CASE ~CheckPolicy(r, "create", Nobody) -> Answer(cw, r, Denied(r), <<>>)
                   [] DOMAIN r.body = {} -> Answer(cw, r, 400, <<>>)
                   [] ~DbBacked -> Answer(cw, r, 503, <<>>)
                   [] ~up -> Answer(cw, r, 500, <<>>)
                   [] OTHER -> t
    BY DEF CreateHandler
  <2> HIDE DEF t
  <2> QED BY <2>1 DEF Answers1
<1>2. CASE Answers1(r)
  BY <1>2, Answered1
<1>3. CASE cw' = t
  <2>1. id \in Int /\ id \notin DOMAIN cw.rows /\ \A i \in 1..Len(cw.changes) : cw.changes[i].id # id
    BY NewIdIs
  <2>2. DOMAIN rows = DOMAIN cw.rows \cup {id}
    OBVIOUS
  <2>3. r.user # Nobody => row.owner = r.user
    BY CreatedRight
  <2> HIDE DEF id, row, rows, data
  <2>4. CrudOK(cw) /\ RowsOK(cw)
    BY DEF CrudInv, CrudOK
  <2>5. IsFiniteSet(DOMAIN rows) /\ DOMAIN rows \subseteq Int
    BY <2>1, <2>2, <2>4, FS_AddElement DEF RowsOK
  <2>6. ByOwner(cw.inherits, r, cw.owners[r])
    BY <1>1 DEF ByOwner
  <2>7. \A i \in 1..Len(cw.changes) : cw.changes[i].event = "deleted" => cw.changes[i].id \notin DOMAIN rows \cup {id}
    BY <2>1, <2>2, <2>4 DEF RowsOK
  <2>8. "created" # "deleted"
    OBVIOUS
  <2>9. CrudOK(t)
    BY <2>1, <2>3, <2>4, <2>5, <2>6, <2>7, <2>8, WriteOK
  <2> HIDE DEF t
  <2> QED BY <1>3, <2>9 DEF CrudInv
<1> QED BY <1>1, <1>2, <1>3

\* The check of an update or a delete sees the owner of the row at that moment.
LEMMA BeginOK ==
    ASSUME CrudInv, NEW r \in DOMAIN cw.pc, NEW up, Begin(r, up)
    PROVE  CrudInv'
<1> DEFINE o == OwnerOf(cw.rows[r.id])
           row == cw.rows[r.id]
           t == [cw EXCEPT !.pc[r] = "checked", !.owners[r] = {o}, !.read[r] = row]
<1>1. Answers1(r) \/ (CheckPolicy(r, r.op, o) /\ cw' = t)
  BY DEF Begin, FetchAndCheck, Answers1
<1>2. CASE Answers1(r)
  BY <1>2, Answered1
<1>3. CASE CheckPolicy(r, r.op, o) /\ cw' = t
  <2>1. ByOwner(cw.inherits, r, {o})
    BY <1>3, CheckedIs
  <2> HIDE DEF o, row
  <2>2. DOMAIN cw = CwFields /\ CallsOK(cw) /\ CrudOK(cw)
    BY DEF CrudInv, CrudOK, RolesOK
  <2>3. t = [cw EXCEPT !.pc = [cw.pc EXCEPT ![r] = "checked"], !.owners = [cw.owners EXCEPT ![r] = {o}], !.read = [cw.read EXCEPT ![r] = row]]
    BY <2>2 DEF CwFields
  <2> HIDE DEF t
  <2>4. DOMAIN t = CwFields
    BY <2>2, <2>3
  <2>5. SameRoles(cw, t) /\ SameRows(cw, t)
    BY <2>2, <2>3, <2>4 DEF CwFields, SameRoles, SameRows
  <2>6. SameDeliveries(cw, t)
    BY <2>2, <2>3 DEF CwFields, SameDeliveries
  <2>7. SameLog(cw, t)
    BY <2>2, <2>3 DEF CwFields, SameLog
  <2>8. t.pc = [cw.pc EXCEPT ![r] = "checked"] /\ t.owners = [cw.owners EXCEPT ![r] = {o}]
    BY <2>2, <2>3 DEF CwFields
  <2>9. CallsOK(t)
    <3>1. t.inherits = cw.inherits
      BY <2>5 DEF SameRoles
    <3>2. DOMAIN t.pc = DOMAIN cw.pc /\ DOMAIN t.owners = DOMAIN t.pc
      BY <2>2, <2>8 DEF CallsOK
    <3>3. ASSUME NEW q \in DOMAIN t.pc, t.pc[q] = "checked" PROVE ByOwner(t.inherits, q, t.owners[q])
      <4>1. q \in DOMAIN cw.pc /\ q \in DOMAIN cw.owners
        BY <2>2, <3>2, <3>3 DEF CallsOK
      <4>2. CASE q = r
        <5>1. t.owners[q] = {o}
          BY <2>8, <4>1, <4>2
        <5> QED BY <2>1, <3>1, <4>2, <5>1
      <4>3. CASE q # r
        <5>1. t.owners[q] = cw.owners[q] /\ cw.pc[q] = "checked"
          BY <2>8, <3>3, <4>1, <4>3
        <5> QED BY <2>2, <3>1, <4>1, <5>1 DEF CallsOK
      <4> QED BY <4>2, <4>3
    <3> QED BY <2>2, <3>2, <3>3 DEF CallsOK
  <2>10. RolesOK(t) /\ RowsOK(t) /\ SentOK(t) /\ LogOK(t)
    BY <2>2, <2>5, <2>6, <2>7, RolesKept, RowsKept, SentKept, LogKept DEF CrudOK
  <2>11. CrudOK(t)
    BY <2>9, <2>10 DEF CrudOK
  <2> QED BY <1>3, <2>11 DEF CrudInv, t
<1> QED BY <1>1, <1>2, <1>3

\* The write of an update.
LEMMA UpdateHandlerOK ==
    ASSUME CrudInv, NEW r \in DOMAIN cw.pc, NEW up, UpdateHandler(r, up)
    PROVE  CrudInv'
<1> DEFINE row == [f \in Fields |-> IF f \in Accepted(r) THEN r.body[f] ELSE cw.rows[r.id][f]]
           rows == [cw.rows EXCEPT ![r.id] = row]
           data == r.id :> FilterResponse(row, r, IsOwner(r, row))
           a == [cw EXCEPT !.rows = rows]
           b == [cw EXCEPT !.rows[r.id] = row]
           Written(x) == Answer(Fire(Changed(x, r, "updated", r.id, row), "updated", row), r, 200, data)
<1>1. cw.pc[r] = "checked" /\ (Answers1(r) \/ (r.id \in DOMAIN cw.rows /\ cw' = Written(b)))
  BY DEF UpdateHandler, Answers1
<1>2. CASE Answers1(r)
  BY <1>2, Answered1
<1>3. CASE r.id \in DOMAIN cw.rows /\ cw' = Written(b)
  <2>0. DOMAIN cw = CwFields /\ CrudOK(cw) /\ RowsOK(cw) /\ CallsOK(cw)
    BY DEF CrudInv, CrudOK, RolesOK
  <2> HIDE DEF row, data
  <2>1. a = b
    BY <2>0 DEF CwFields
  <2>2. DOMAIN rows = DOMAIN cw.rows
    OBVIOUS
  <2> HIDE DEF rows, b
  <2>3. IsFiniteSet(DOMAIN rows) /\ DOMAIN rows \subseteq Int /\ r.id \in Int
    BY <2>0, <2>2 DEF RowsOK, CallsOK
  <2>4. ByOwner(cw.inherits, r, cw.owners[r])
    BY <1>1, <2>0 DEF CallsOK
  <2>5. \A i \in 1..Len(cw.changes) : cw.changes[i].event = "deleted" => cw.changes[i].id \notin DOMAIN rows \cup {r.id}
    BY <1>3, <2>0, <2>2 DEF RowsOK
  <2>6. "updated" # "deleted" /\ "updated" # "created"
    OBVIOUS
  <2>7. CrudOK(Written(a))
    BY <2>0, <2>3, <2>4, <2>5, <2>6, WriteOK
  <2> HIDE DEF a, Written
  <2> QED BY <1>3, <2>1, <2>7 DEF CrudInv
<1> QED BY <1>1, <1>2, <1>3

\* The write of a delete.
LEMMA DeleteHandlerOK ==
    ASSUME CrudInv, NEW r \in DOMAIN cw.pc, NEW up, DeleteHandler(r, up)
    PROVE  CrudInv'
<1> DEFINE row == cw.read[r]
           rows == [i \in DOMAIN cw.rows \ {r.id} |-> cw.rows[i]]
           t == Answer(Fire(Changed([cw EXCEPT !.rows = rows], r, "deleted", r.id, row), "deleted", row), r, 200, <<>>)
<1>1. cw.pc[r] = "checked" /\ (Answers1(r) \/ (r.id \in DOMAIN cw.rows /\ cw' = t))
  BY DEF DeleteHandler, DeleteAffected, Answers1
<1>2. CASE Answers1(r)
  BY <1>2, Answered1
<1>3. CASE r.id \in DOMAIN cw.rows /\ cw' = t
  <2>0. CrudOK(cw) /\ RowsOK(cw) /\ CallsOK(cw)
    BY DEF CrudInv, CrudOK
  <2>2. DOMAIN rows = DOMAIN cw.rows \ {r.id}
    OBVIOUS
  <2> HIDE DEF row, rows
  <2>3. IsFiniteSet(DOMAIN rows) /\ DOMAIN rows \subseteq Int /\ r.id \in Int
    BY <2>0, <2>2, FS_Subset DEF RowsOK, CallsOK
  <2>4. ByOwner(cw.inherits, r, cw.owners[r])
    BY <1>1, <2>0 DEF CallsOK
  <2>5. \A i \in 1..Len(cw.changes) : cw.changes[i].event = "deleted" => cw.changes[i].id \notin DOMAIN rows \cup {r.id}
    BY <1>3, <2>0, <2>2 DEF RowsOK
  <2>6. "deleted" # "created" /\ r.id \notin DOMAIN rows
    BY <2>2
  <2>7. CrudOK(t)
    BY <2>0, <2>3, <2>4, <2>5, <2>6, WriteOK
  <2> HIDE DEF t
  <2> QED BY <1>3, <2>7 DEF CrudInv
<1> QED BY <1>1, <1>2, <1>3

\* A delivery that was made is logged: the oldest entry makes room.
LEMMA DispatchWebhookOK ==
    ASSUME CrudInv, NEW d, NEW ok, DispatchWebhook(d, ok)
    PROVE  CrudInv'
<1> DEFINE s == cw
           max == MaxRecords
           made == s.sent \ s.flying
           e == [id |-> s.nextId, of |-> d, ok |-> ok]
           kept == IF Len(s.log) >= max THEN Tail(s.log) ELSE s.log
           t == [s EXCEPT !.log = Append(kept, e), !.nextId = s.nextId + 1, !.flying = s.flying \ {d}, !.saving = s.saving \cup {d}]
<1>1. DOMAIN s = CwFields /\ CrudOK(s) /\ SentOK(s) /\ LogOK(s)
  BY DEF CrudInv, CrudOK, RolesOK
<1>2. d \in s.flying /\ cw' = t
  <2>1. cw' = [RecordDispatch(s, d, ok) EXCEPT !.flying = @ \ {d}, !.saving = @ \cup {d}]
    BY DEF DispatchWebhook
  <2>2. RecordDispatch(s, d, ok) = [s EXCEPT !.log = Append(kept, e), !.nextId = s.nextId + 1]
    BY DEF RecordDispatch
  <2> HIDE DEF kept, e
  <2>3. d \in s.flying
    BY DEF DispatchWebhook
  <2> QED BY <1>1, <2>1, <2>2, <2>3 DEF CwFields
<1> HIDE DEF kept, e, s
<1>3. DOMAIN t = CwFields
  BY <1>1
<1>4. SameRoles(s, t) /\ SameRows(s, t)
  BY <1>1, <1>3 DEF CwFields, SameRoles, SameRows
<1>5. t.pc = s.pc /\ t.owners = s.owners
  BY <1>1 DEF CwFields
<1>6. t.sent = s.sent /\ t.flying = s.flying \ {d} /\ t.saving = s.saving \cup {d} /\ t.stored = s.stored
  BY <1>1 DEF CwFields
<1>7. t.log = Append(kept, e) /\ t.nextId = s.nextId + 1
  BY <1>1 DEF CwFields
<1> HIDE DEF t
<1>8. RolesOK(t) /\ RowsOK(t)
  BY <1>1, <1>4, RolesKept, RowsKept DEF CrudOK
<1>9. CallsOK(t)
  BY <1>1, <1>4, <1>5 DEF CrudOK, CallsOK, SameRoles
<1>10. SentOK(t)
  BY <1>1, <1>4, <1>6 DEF SentOK, SameRows
<1>11. t.sent \ t.flying = made \cup {d} /\ d \notin made /\ IsFiniteSet(made)
  BY <1>1, <1>2, <1>6, FS_Subset DEF SentOK
<1> HIDE DEF made
<1>12. max \in Nat \ {0} /\ Cardinality(made) \in Nat /\ Cardinality(made \cup {d}) = Cardinality(made) + 1
  BY <1>11, CrudParams, FS_CardinalityType, FS_AddElement
<1>13. s.nextId = Cardinality(made) + 1 /\ Len(s.log) = Min({max, s.nextId - 1}) /\ IsList(s.log)
  BY <1>1 DEF LogOK, made
<1>14. ASSUME NEW i \in 1..Len(s.log)
       PROVE  s.log[i].id = s.nextId - Len(s.log) + i - 1 /\ s.log[i].of \in made
  BY <1>1 DEF LogOK, made
<1>15. ASSUME NEW i \in 1..Len(s.log), NEW j \in 1..Len(s.log), i # j PROVE s.log[i].of # s.log[j].of
  BY <1>1, <1>15 DEF LogOK
<1>16. s.saving \subseteq made /\ s.stored \subseteq made
  BY <1>1 DEF LogOK, made
<1>17. e.id = s.nextId /\ e.of = d
  BY DEF e
<1> DEFINE n == Len(s.log)
           k == Len(kept)
<1> HIDE DEF e, max
<1>18. n \in Nat /\ n <= max /\ n <= s.nextId - 1 /\ (n = max \/ n = s.nextId - 1) /\ s.nextId \in Nat
  <2>1. s.nextId - 1 \in Int /\ max \in Int /\ s.nextId \in Nat
    BY <1>12, <1>13
  <2>2. (max <= s.nextId - 1 => n = max) /\ (s.nextId - 1 <= max => n = s.nextId - 1)
    BY <1>13, <2>1, SmallerIs
  <2> QED BY <1>12, <1>13, <2>1, <2>2
<1>19. /\ IsList(kept) /\ k \in Nat /\ k + 1 = Min({max, t.nextId - 1})
       /\ \A i \in 1..k : i + (n - k) \in 1..n /\ kept[i] = s.log[i + (n - k)]
  <2>0. t.nextId - 1 \in Int /\ t.nextId - 1 = s.nextId /\ max \in Int
    BY <1>7, <1>12, <1>18
  <2>1. (max <= s.nextId => Min({max, t.nextId - 1}) = max) /\ (s.nextId <= max => Min({max, t.nextId - 1}) = s.nextId)
    BY <2>0, SmallerIs
  <2>2. CASE n >= max
    <3>1. kept = Tail(s.log) /\ n = max
      BY <1>12, <1>18, <2>2 DEF kept
    <3>2. IsList(Tail(s.log)) /\ Len(Tail(s.log)) = n - 1 /\ \A i \in 1..(n - 1) : Tail(s.log)[i] = s.log[i + 1]
      BY <1>12, <1>13, <3>1, ListShrinks
    <3>3. k = n - 1 /\ n - k = 1 /\ k \in Nat
      BY <1>12, <1>18, <3>1, <3>2
    <3> HIDE DEF n, k
    <3>4. k + 1 = max /\ max <= s.nextId
      BY <1>12, <1>18, <3>1, <3>3
    <3>5. \A i \in 1..k : i + (n - k) \in 1..n
      BY <1>18, <3>3
    <3>6. \A i \in 1..k : kept[i] = s.log[i + (n - k)]
      BY <3>1, <3>2, <3>3
    <3>7. IsList(kept)
      BY <3>1, <3>2
    <3> QED BY <2>1, <3>3, <3>4, <3>5, <3>6, <3>7
  <2>3. CASE ~(n >= max)
    <3>1. kept = s.log /\ n = s.nextId - 1
      BY <1>12, <1>18, <2>3 DEF kept
    <3>2. k = n /\ IsList(kept)
      BY <1>13, <3>1
    <3> HIDE DEF n, k
    <3>3. n - k = 0 /\ k \in Nat /\ k + 1 = s.nextId /\ s.nextId <= max
      BY <1>12, <1>18, <2>3, <3>1, <3>2
    <3>4. \A i \in 1..k : i + (n - k) = i /\ i \in 1..n
      BY <1>18, <3>2, <3>3
    <3> QED BY <2>1, <3>1, <3>2, <3>3, <3>4
  <2> QED BY <2>2, <2>3
<1>20. IsList(t.log) /\ Len(t.log) = k + 1 /\ t.log[k + 1] = e /\ \A i \in 1..k : t.log[i] = kept[i]
  BY <1>7, <1>19, ListGrows
<1>21. \A i \in 1..(k + 1) : i = k + 1 \/ i \in 1..k
  BY <1>19
<1> HIDE DEF n, k
<1>22. ASSUME NEW i \in 1..(k + 1) PROVE t.log[i].id = t.nextId - (k + 1) + i - 1 /\ t.log[i].of \in made \cup {d}
  <2>1. CASE i = k + 1
    <3>1. t.log[i].id = s.nextId /\ t.log[i].of = d
      BY <1>17, <1>20, <2>1
    <3>2. k \in Nat /\ s.nextId \in Nat /\ t.nextId = s.nextId + 1
      BY <1>7, <1>18, <1>19
    <3>3. t.nextId - (k + 1) + i - 1 = s.nextId
      BY <2>1, <3>2
    <3> QED BY <3>1, <3>3
  <2>2. CASE i \in 1..k
    <3> DEFINE j == i + (n - k)
    <3>1. j \in 1..n /\ t.log[i] = s.log[j]
      BY <1>19, <1>20, <2>2
    <3>2. s.log[j].id = s.nextId - n + j - 1 /\ s.log[j].of \in made
      BY <1>14, <3>1 DEF n
    <3>3. s.nextId - n + j - 1 = t.nextId - (k + 1) + i - 1
      BY <1>7, <1>18, <1>19, <2>2
    <3> HIDE DEF j
    <3> QED BY <3>1, <3>2, <3>3
  <2> QED BY <1>21, <2>1, <2>2
<1>23. ASSUME NEW i \in 1..(k + 1), NEW j \in 1..(k + 1), i # j PROVE t.log[i].of # t.log[j].of
  <2>1. ASSUME NEW x \in 1..k PROVE x + (n - k) \in 1..n /\ t.log[x] = s.log[x + (n - k)] /\ t.log[x].of \in made
    <3>1. x + (n - k) \in 1..n /\ t.log[x] = s.log[x + (n - k)]
      BY <1>19, <1>20
    <3> QED BY <1>14, <3>1 DEF n
  <2>2. t.log[k + 1].of = d
    BY <1>17, <1>20
  <2>3. CASE i = k + 1
    <3>1. j \in 1..k
      BY <1>21, <1>23, <2>3
    <3> QED BY <1>11, <2>1, <2>2, <2>3, <3>1
  <2>4. CASE i \in 1..k /\ j = k + 1
    BY <1>11, <2>1, <2>2, <2>4
  <2>5. CASE i \in 1..k /\ j \in 1..k
    <3> DEFINE x == i + (n - k)
               y == j + (n - k)
    <3>1. x \in 1..n /\ y \in 1..n /\ t.log[i] = s.log[x] /\ t.log[j] = s.log[y]
      BY <2>1, <2>5
    <3>2. x # y
      BY <1>18, <1>19, <1>23, <2>5
    <3> HIDE DEF x, y
    <3>3. s.log[x].of # s.log[y].of
      BY <1>15, <3>1, <3>2 DEF n
    <3> QED BY <3>1, <3>3
  <2> QED BY <1>21, <2>3, <2>4, <2>5
<1>24. LogOK(t)
  <2>1. t.nextId = Cardinality(made \cup {d}) + 1
    BY <1>7, <1>12, <1>13
  <2>2. t.saving \subseteq made \cup {d} /\ t.stored \subseteq made \cup {d}
    BY <1>6, <1>16
  <2>3. Len(t.log) = Min({MaxRecords, t.nextId - 1})
    BY <1>19, <1>20 DEF max
  <2> QED BY <1>11, <1>20, <1>22, <1>23, <2>1, <2>2, <2>3 DEF LogOK
<1>25. CrudOK(t)
  BY <1>8, <1>9, <1>10, <1>24 DEF CrudOK
<1> QED BY <1>2, <1>25 DEF CrudInv, t, s

\* What is logged is stored, or not.
LEMMA PersistToDbOK ==
    ASSUME CrudInv, NEW d, NEW up, PersistToDb(d, up)
    PROVE  CrudInv'
<1> DEFINE s == cw
           stored == IF up THEN s.stored \cup {d} ELSE s.stored
           t == [s EXCEPT !.saving = s.saving \ {d}, !.stored = stored]
<1>1. DOMAIN s = CwFields /\ CrudOK(s) /\ LogOK(s)
  BY DEF CrudInv, CrudOK, RolesOK
<1>2. d \in s.saving /\ cw' = t
  BY DEF PersistToDb
<1>a. stored \subseteq s.stored \cup {d}
  OBVIOUS
<1> HIDE DEF stored, s
<1>3. DOMAIN t = CwFields
  BY <1>1
<1>4. SameRoles(s, t) /\ SameRows(s, t)
  BY <1>1, <1>3 DEF CwFields, SameRoles, SameRows
<1>5. t.pc = s.pc /\ t.owners = s.owners /\ SameDeliveries(s, t)
  BY <1>1 DEF CwFields, SameDeliveries
<1>6. t.saving = s.saving \ {d} /\ t.stored = stored /\ t.log = s.log /\ t.nextId = s.nextId
  BY <1>1 DEF CwFields
<1> HIDE DEF t
<1>8. RolesOK(t) /\ RowsOK(t) /\ SentOK(t)
  BY <1>1, <1>4, <1>5, RolesKept, RowsKept, SentKept DEF CrudOK
<1>9. CallsOK(t)
  BY <1>1, <1>4, <1>5 DEF CrudOK, CallsOK, SameRoles
<1>10. t.sent = s.sent /\ t.flying = s.flying
  BY <1>5 DEF SameDeliveries
<1>11. t.saving \subseteq s.sent \ s.flying /\ t.stored \subseteq s.sent \ s.flying
  BY <1>1, <1>2, <1>6, <1>a DEF LogOK
<1>12. LogOK(t)
  BY <1>1, <1>6, <1>10, <1>11 DEF LogOK
<1>13. CrudOK(t)
  BY <1>8, <1>9, <1>12 DEF CrudOK
<1> QED BY <1>2, <1>13 DEF CrudInv, t, s

\* Every step keeps it.
LEMMA CrudStep == CrudInv /\ [CrudNext]_cw => CrudInv'
<1> SUFFICES ASSUME CrudInv, [CrudNext]_cw PROVE CrudInv'
  OBVIOUS
<1>1. CASE UNCHANGED cw
  BY <1>1 DEF CrudInv
<1>2. ASSUME NEW r \in OpenCalls, NEW up \in BOOLEAN,
             ListHandler(r, up) \/ GetHandler(r, up) \/ CreateHandler(r, up) \/ Begin(r, up) \/ UpdateHandler(r, up) \/ DeleteHandler(r, up)
      PROVE  CrudInv'
  <2>0. r \in DOMAIN cw.pc
    BY DEF OpenCalls
  <2>1. CASE ListHandler(r, up) \/ GetHandler(r, up)
    BY <2>1, ReadsOnly, Answered1
  <2>2. CASE CreateHandler(r, up)
    BY <2>0, <2>2, CreateHandlerOK
  <2>3. CASE Begin(r, up)
    BY <2>0, <2>3, BeginOK
  <2>4. CASE UpdateHandler(r, up)
    BY <2>0, <2>4, UpdateHandlerOK
  <2>5. CASE DeleteHandler(r, up)
    BY <2>0, <2>5, DeleteHandlerOK
  <2> QED BY <1>2, <2>1, <2>2, <2>3, <2>4, <2>5
<1>3. ASSUME NEW d, NEW ok, DispatchWebhook(d, ok) PROVE CrudInv'
  BY <1>3, DispatchWebhookOK
<1>4. ASSUME NEW d, NEW up, PersistToDb(d, up) PROVE CrudInv'
  BY <1>4, PersistToDbOK
<1> QED BY <1>1, <1>2, <1>3, <1>4 DEF CrudNext

\* It holds at the start.
LEMMA CrudStarts == CrudInit => CrudInv
<1> SUFFICES ASSUME NEW reqs \in CallBatches, NEW raw \in Hierarchies, cw = CrudStart(reqs, raw) PROVE CrudOK(cw)
  BY DEF CrudInit, CrudInv
<1> DEFINE s == cw
<1>1. DOMAIN s = CwFields
  BY DEF CrudStart, CwFields
<1>2. s.raw = raw /\ s.inherits = TransitiveClosureOf(raw) /\ s.rows = Rows
  BY DEF CrudStart
<1>3. s.pc = [r \in reqs |-> "new"] /\ s.owners = [r \in reqs |-> {}]
  BY DEF CrudStart
<1>4. s.changes = <<>> /\ s.log = <<>> /\ s.nextId = 1
  BY DEF CrudStart
<1>5. s.sent = {} /\ s.flying = {} /\ s.saving = {} /\ s.stored = {}
  BY DEF CrudStart
<1> HIDE DEF s
<1>6. IsFiniteSet(reqs) /\ (\A r \in reqs : r.id \in Int) /\ IsFiniteSet(DOMAIN Rows) /\ DOMAIN Rows \subseteq Int /\ MaxRecords \in Nat \ {0}
  BY CrudParams
<1>7. RolesOK(s)
  BY <1>1, <1>2 DEF RolesOK
<1>8. CallsOK(s)
  <2>1. DOMAIN s.pc = reqs /\ DOMAIN s.owners = reqs /\ \A r \in reqs : s.pc[r] # "checked"
    BY <1>3
  <2> QED BY <1>6, <2>1 DEF CallsOK
<1>9. IsList(<<>>) /\ Len(<<>>) = 0
  BY DEF IsList
<1>10. RowsOK(s)
  BY <1>2, <1>4, <1>6, <1>9 DEF RowsOK
<1>11. SentOK(s)
  <2>1. \A x : ~Due(x, <<>>)
    BY <1>9 DEF Due
  <2>2. IsFiniteSet({})
    BY FS_EmptySet
  <2> QED BY <1>4, <1>5, <2>1, <2>2 DEF SentOK
<1>12. LogOK(s)
  <2>1. Cardinality({} \ {}) = 0
    BY FS_EmptySet
  <2>2. Min({MaxRecords, 1 - 1}) = 0
    BY <1>6, SmallerIs
  <2>3. \A i \in 1..Len(s.log) : FALSE
    BY <1>4, <1>9
  <2> QED BY <1>4, <1>5, <1>9, <2>1, <2>2, <2>3 DEF LogOK
<1> QED BY <1>7, <1>8, <1>10, <1>11, <1>12 DEF CrudOK, s

\* What it says of the system.
LEMMA SoundFromInv == CrudInv => CrudSound
<1> SUFFICES ASSUME CrudInv PROVE CrudSound
  OBVIOUS
<1>1. RolesOK(cw) /\ RowsOK(cw) /\ SentOK(cw) /\ LogOK(cw)
  BY DEF CrudInv, CrudOK
<1> DEFINE n == Len(cw.changes)
<1>2. DOMAIN cw.changes = 1..n /\ n \in Nat
  BY <1>1 DEF RowsOK, IsList
<1>3. ASSUME NEW i \in DOMAIN cw.changes PROVE ChangeOK(cw.inherits, cw.changes[i])
  BY <1>1, <1>2 DEF RowsOK
<1>4. WritesByOwners
  <2> SUFFICES ASSUME NEW i \in DOMAIN cw.changes, cw.changes[i].by.op \in DOMAIN Policy, cw.changes[i].by.op # "create"
               PROVE  \E o \in cw.changes[i].owners : EvaluateRule(Policy[cw.changes[i].by.op], cw.changes[i].by, o)
    BY DEF WritesByOwners
  <2> DEFINE c == cw.changes[i]
  <2>1. ByOwner(cw.inherits, c.by, c.owners)
    BY <1>3 DEF ChangeOK
  <2>2. PICK o \in c.owners : Rule(cw.inherits, Policy[c.by.op], c.by, o)
    BY <2>1 DEF ByOwner
  <2> HIDE DEF c
  <2>3. EvaluateRule(Policy[c.by.op], c.by, o)
    BY <2>2, RuleIs
  <2> QED BY <2>3 DEF c
<1>5. CreatorOwns
  BY <1>3 DEF CreatorOwns, ChangeOK
<1>6. FiredForEveryChange
  <2>1. ASSUME NEW c \in Configs, NEW i \in 0..(n + 1)
        PROVE  [config |-> c, change |-> i] \in cw.sent <=>
                  i \in DOMAIN cw.changes /\ c.event = cw.changes[i].event /\ EvaluateFilters(c, cw.changes[i].row)
    <3> DEFINE x == [config |-> c, change |-> i]
    <3>1. x \in cw.sent <=> Due(x, cw.changes)
      BY <1>1 DEF SentOK
    <3>2. \A b, j : x = [config |-> b, change |-> j] <=> (b = c /\ j = i)
      <4>1. ASSUME NEW b, NEW j, x = [config |-> b, change |-> j] PROVE b = c /\ j = i
        <5>1. x.config = c /\ x.change = i /\ x.config = b /\ x.change = j
          BY <4>1
        <5> QED BY <5>1
      <4> QED BY <4>1
    <3> HIDE DEF x
    <3>3. Due(x, cw.changes) <=> i \in 1..n /\ Fits(c, cw.changes[i].event, cw.changes[i].row)
      BY <3>2 DEF Due
    <3> QED BY <1>2, <3>1, <3>3 DEF Fits, x
  <2>2. \A i, j \in DOMAIN cw.changes : cw.changes[i].event = "deleted" /\ i < j => cw.changes[j].id # cw.changes[i].id
    BY <1>1, <1>2 DEF RowsOK
  <2> QED BY <2>1, <2>2 DEF FiredForEveryChange
<1>7. LogIsRecent
  <2>1. DOMAIN cw.log = 1..Len(cw.log)
    BY <1>1 DEF LogOK, IsList
  <2>2. cw.stored \cap cw.flying = {}
    BY <1>1 DEF LogOK
  <2> QED BY <1>1, <2>1, <2>2 DEF LogOK, LogIsRecent
<1>8. ClosureIsReachability
  <2> DEFINE step(S) == UNION {cw.raw[p] : p \in S \cap DOMAIN cw.raw}
  <2> SUFFICES ASSUME NEW r \in DOMAIN cw.raw
               PROVE  /\ cw.raw[r] \cup step(cw.inherits[r]) \subseteq cw.inherits[r]
                      /\ \A S \in SUBSET cw.inherits[r] : cw.raw[r] \subseteq S /\ step(S) \subseteq S => S = cw.inherits[r]
    BY DEF ClosureIsReachability
  <2> DEFINE raw == cw.raw
             out == cw.inherits[r]
  <2>1. raw \in Hierarchies /\ out = CollectInherited(raw, raw[r])
    BY <1>1 DEF RolesOK, TransitiveClosureOf
  <2>2. /\ raw[r] \subseteq out /\ \A p \in out \cap DOMAIN raw : raw[p] \subseteq out
        /\ \A S : raw[r] \subseteq S /\ (\A p \in S \cap DOMAIN raw : raw[p] \subseteq S) => out \subseteq S
    <3>1. r \in DOMAIN raw
      OBVIOUS
    <3> HIDE DEF raw, out
    <3> QED BY <2>1, <3>1, CollectedIs
  <2>3. \A S, p : p \in S \cap DOMAIN raw => raw[p] \subseteq step(S)
    OBVIOUS
  <2>4. step(out) \subseteq out
    BY <2>2
  <2> HIDE DEF step, raw, out
  <2>5. ASSUME NEW S \in SUBSET out, raw[r] \subseteq S, step(S) \subseteq S PROVE S = out
    <3>1. \A p \in S \cap DOMAIN raw : raw[p] \subseteq S
      BY <2>3, <2>5
    <3> QED BY <2>2, <2>5, <3>1
  <2> QED BY <2>2, <2>4, <2>5 DEF raw, out
<1> QED BY <1>4, <1>5, <1>6, <1>7, <1>8 DEF CrudSound

\* Whatever requests overlap, under whatever policy, rows, hierarchy and webhooks: a row
\* is changed for one who owned it or has a role of its rule, belongs to its creator,
\* every change is announced once to those who asked, the log keeps the latest
\* deliveries, and a role stands for exactly the roles it reaches (crud.rs, rbac.rs,
\* webhook_engine.rs, webhook_log.rs).
THEOREM CrudIsSound == CrudSpec => []CrudSound
<1>1. CrudInit => CrudInv
  BY CrudStarts
<1>2. CrudInv /\ [CrudNext]_cw => CrudInv'
  BY CrudStep
<1>3. CrudInv => CrudSound
  BY SoundFromInv
<1> QED BY <1>1, <1>2, <1>3, PTL DEF CrudSpec
=============================================================================

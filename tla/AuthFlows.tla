----------------------------- MODULE AuthFlows ------------------------------
(***************************************************************************)
(* Accounts, sessions, OAuth and password reset (doo_ffi_http/src/auth.rs, *)
(* password_reset.rs; doo_ffi_auth/src/session.rs, user_bridge.rs,         *)
(* strategies/oauth/state.rs, mod.rs, http_handlers.rs).  Each handler is  *)
(* a sequence of statements to the database, each of which may fail, and   *)
(* handlers of several requests overlap.  Hashes and signatures are        *)
(* perfect: a password is itself, a token is its claims.                   *)
(***************************************************************************)
EXTENDS Integers, Sequences, FiniteSets

CONSTANTS Emails, Passwords, Providers,
          StateTTL, ResetTTL, AccessTTL, RefreshTTL,
          MaxPending,          \* pending OAuth states before a clean-up
          Scripts,             \* bound: the calls that arrive, in this order
          MaxTime              \* bound: ticks

ASSUME TimesToLive == {StateTTL, ResetTTL, AccessTTL, RefreshTTL} \subseteq Nat

VARIABLES au
NoId == 0

\* users: the table, its email unique; resets: password_resets, or the vector in memory.
AuthStart(withDb, k) ==
             [db |-> withDb, script |-> k, users |-> {}, resets |-> {}, states |-> {}, tokens |-> {}, run |-> {}, calls |-> 0,
              now |-> 0, nextId |-> 1, sets |-> {}, exchanges |-> {}, me |-> {}]
AuthInit == \E withDb \in BOOLEAN, k \in Scripts : au = AuthStart(withDb, k)

UserKnown(e) == \E u \in au.users : u.email = e
User(e) == CHOOSE u \in au.users : u.email = e

\* A running handler: its kind, the next step, and what it has read so far.
StartCall(kind, email, pw, arg, step) ==
    /\ au.calls < Len(au.script) /\ kind = au.script[au.calls + 1]
    /\ au' = [au EXCEPT !.calls = @ + 1,
                        !.run = @ \cup {[n |-> au.calls + 1, kind |-> kind, email |-> email, pw |-> pw, arg |-> arg,
                                         step |-> step, at |-> au.now, id |-> NoId]}]
At(p, kind, step) == p.kind = kind /\ p.step = step
Goes(s, p, q) == [s EXCEPT !.run = (@ \ {p}) \cup {q}]
Ends(s, p) == [s EXCEPT !.run = @ \ {p}]
SetPassword(s, e, pw, by) == [s EXCEPT !.users = {IF u.email = e THEN [u EXCEPT !.pw = pw] ELSE u : u \in @},
                                       !.sets = @ \cup {[email |-> e, pw |-> pw, by |-> by]}]

\* root: the call that authenticated, for the properties.
Claims(typ, e, id, ttl, root) == [typ |-> typ, sub |-> e, id |-> id, exp |-> au.now + ttl, root |-> root]
SignToken(s, e, id, root) == [s EXCEPT !.tokens = @ \cup {Claims("access", e, id, AccessTTL, root)}]
SignRefreshToken(s, e, id, root) == [s EXCEPT !.tokens = @ \cup {Claims("refresh", e, id, RefreshTTL, root)}]
SignBoth(s, e, id, root) == SignRefreshToken(SignToken(s, e, id, root), e, id, root)
Decoded(t) == t \in au.tokens /\ t.exp >= au.now
VerifyToken(t) == Decoded(t) /\ t.typ # "refresh"
VerifyRefreshTokenAny(t) == Decoded(t)
VerifyRefreshToken(t) == Decoded(t) /\ t.typ = "refresh"

\* Signup: is the email there (an error here is ignored), then the insert, which the
\* unique constraint refuses to the second of two.
SignupCheck(p, ok) ==
    /\ At(p, "signup", "check")
    /\ au' = IF ~au.db \/ (ok /\ UserKnown(p.email)) THEN Ends(au, p) ELSE Goes(au, p, [p EXCEPT !.step = "insert"])
InsertUser(s, e, pw) ==
    [s EXCEPT !.users = @ \cup {[email |-> e, pw |-> pw, id |-> s.nextId]}, !.nextId = @ + 1]
SignupInsert(p, ok) ==
    /\ At(p, "signup", "insert")
    /\ au' = IF ~ok \/ UserKnown(p.email) THEN Ends(au, p)
             ELSE SignToken(SetPassword(InsertUser(Ends(au, p), p.email, p.pw), p.email, p.pw, <<"signup", p.n>>), p.email, au.nextId, p.n)
Login(p, ok) ==
    /\ At(p, "login", "find")
    /\ au' = IF au.db /\ ok /\ UserKnown(p.email) /\ User(p.email).pw = p.pw
             THEN SignToken(Ends(au, p), p.email, User(p.email).id, p.n) ELSE Ends(au, p)

\* Forgot: a token for a known email; in memory, for any.  The token is the number
\* of the call.
ForgotPassword(p, ok) ==
    /\ At(p, "forgot", "store")
    /\ au' = IF au.db /\ (~ok \/ ~UserKnown(p.email)) THEN Ends(au, p)
             ELSE [Ends(au, p) EXCEPT !.resets = @ \cup {[token |-> p.n, email |-> p.email, exp |-> au.now + ResetTTL, used |-> FALSE]}]

\* Reset: the token is looked up, the password written, the token marked: three
\* statements, the outcome of the last one ignored.  In memory the token is taken in
\* one step (and no password changes).
UsableForEver(t) == {r \in au.resets : r.token = t /\ ~r.used}
Usable(t) == {r \in au.resets : r.token = t /\ r.exp > au.now /\ ~r.used}
ResetFind(p, ok) ==
    /\ At(p, "reset", "find")
    /\ au' = IF Usable(p.arg) = {} \/ (au.db /\ ~ok) THEN Ends(au, p)
             ELSE IF ~au.db THEN [Ends(au, p) EXCEPT !.resets = @ \ Usable(p.arg)]
             ELSE Goes(au, p, [p EXCEPT !.step = "write", !.at = au.now, !.email = (CHOOSE r \in Usable(p.arg) : TRUE).email])
ResetWrite(p, ok) ==
    /\ At(p, "reset", "write")
    /\ au' = IF ~ok THEN Ends(au, p)
             ELSE Goes(SetPassword(au, p.email, p.pw, <<"reset", p.arg>>), p, [p EXCEPT !.step = "mark"])
ResetMark(p, ok) ==
    /\ At(p, "reset", "mark")
    /\ au' = IF ok THEN [Ends(au, p) EXCEPT !.resets = {IF r.token = p.arg THEN [r EXCEPT !.used = TRUE] ELSE r : r \in @}]
             ELSE Ends(au, p)

\* OAuth: the redirect makes a state token; the callback consumes it.
Fresh(S) == {s \in S : au.now - s.at <= StateTTL}
CreateState(p) ==
    /\ At(p, "redirect", "create")
    /\ LET kept == IF Cardinality(au.states) >= MaxPending THEN Fresh(au.states) ELSE au.states
       IN  au' = [Ends(au, p) EXCEPT !.states = kept \cup {[token |-> p.n, provider |-> p.arg, at |-> au.now]}]
ConsumeKeep(s, t) == [s EXCEPT !.states = Fresh(@)]
Consume(s, t) == [s EXCEPT !.states = {x \in Fresh(@) : x.token # t}]
ValidateAndConsume(p) ==
    /\ At(p, "callback", "state")
    /\ LET hit == {s \in Fresh(au.states) : s.token = p.arg[1]}
       IN  au' = IF hit = {} \/ \E s \in hit : s.provider # p.arg[2] THEN Ends(Consume(au, p.arg[1]), p)
                 ELSE [Goes(Consume(au, p.arg[1]), p, [p EXCEPT !.step = "exchange"]) EXCEPT !.exchanges = @ \cup {[call |-> p.n, state |-> p.arg, at |-> au.now]}]
\* The provider's answer, and the user it names.
Exchange(p, e) ==
    /\ At(p, "callback", "exchange")
    /\ \/ au' = Ends(au, p)
       \/ au' = Goes(au, p, [p EXCEPT !.step = IF au.db THEN "find" ELSE "sign", !.email = e])
\* upsert_oauth_user: any error leaves user id 0, and the login goes on.
UpsertFind(p, ok) ==
    /\ At(p, "callback", "find")
    /\ au' = CASE ~ok -> Goes(au, p, [p EXCEPT !.step = "sign"])
               [] ok /\ UserKnown(p.email) -> Goes(au, p, [p EXCEPT !.step = "update", !.id = User(p.email).id])
               [] OTHER -> Goes(au, p, [p EXCEPT !.step = "insert"])
UpsertUpdate(p, ok) ==
    /\ At(p, "callback", "update")
    /\ au' = Goes(au, p, [p EXCEPT !.step = "sign", !.id = IF ok THEN @ ELSE NoId])
UpsertIdNext(p, ok) == au.nextId
UpsertId(p, ok) == IF ok /\ ~UserKnown(p.email) THEN au.nextId ELSE NoId
UpsertInsert(p, ok) ==
    /\ At(p, "callback", "insert")
    /\ au' = Goes(IF ok /\ ~UserKnown(p.email) THEN InsertUser(au, p.email, "") ELSE au, p,
                  [p EXCEPT !.step = "sign", !.id = UpsertId(p, ok)])
OAuthSign(p) ==
    /\ At(p, "callback", "sign")
    /\ au' = SignBoth(Ends(au, p), p.email, p.id, p.n)

\* Refresh: a new pair for the same subject; a missing user id is looked up.
ResolveUserId(t, ok) == IF t.id > NoId THEN t.id ELSE IF au.db /\ ok /\ UserKnown(t.sub) THEN User(t.sub).id ELSE NoId
Refresh(p, ok) ==
    /\ At(p, "refresh", "verify")
    /\ au' = IF VerifyRefreshToken(p.arg) THEN SignBoth(Ends(au, p), p.arg.sub, ResolveUserId(p.arg, ok), p.arg.root) ELSE Ends(au, p)
Me(p) ==
    /\ At(p, "me", "verify")
    /\ au' = IF VerifyToken(p.arg) THEN [Ends(au, p) EXCEPT !.me = @ \cup {p.arg}] ELSE Ends(au, p)

Tick == au.now < MaxTime /\ au' = [au EXCEPT !.now = @ + 1]
AuthNext ==
    \/ \E e \in Emails, w \in Passwords : StartCall("signup", e, w, 0, "check") \/ StartCall("login", e, w, 0, "find")
    \/ \E e \in Emails : StartCall("forgot", e, "", 0, "store")
    \/ \E r \in au.resets, w \in Passwords : StartCall("reset", "", w, r.token, "find")
    \/ \E v \in Providers : StartCall("redirect", "", "", v, "create")
    \/ \E s \in au.states, v \in Providers : StartCall("callback", "", "", <<s.token, v>>, "state")
    \/ \E t \in au.tokens : StartCall("refresh", "", "", t, "verify") \/ StartCall("me", "", "", t, "verify")
    \/ \E p \in au.run, ok \in BOOLEAN :
          \/ SignupCheck(p, ok) \/ SignupInsert(p, ok) \/ Login(p, ok) \/ ForgotPassword(p, ok)
          \/ ResetFind(p, ok) \/ ResetWrite(p, ok) \/ ResetMark(p, ok)
          \/ UpsertFind(p, ok) \/ UpsertUpdate(p, ok) \/ UpsertInsert(p, ok) \/ Refresh(p, ok)
    \/ \E p \in au.run : CreateState(p) \/ ValidateAndConsume(p) \/ OAuthSign(p) \/ Me(p) \/ \E e \in Emails : Exchange(p, e)
    \/ Tick
AuthSpec == AuthInit /\ [][AuthNext]_au

-----------------------------------------------------------------------------
\* A password is written only by the signup that made the account or with a reset
\* token made for its email, and the token was neither expired nor marked as used
\* when the reset looked it up.
PasswordsByOwner ==
    /\ \A x \in au.sets : x.by[1] = "reset" => \E r \in au.resets : r.token = x.by[2] /\ r.email = x.email
    /\ \A p \in au.run : p.kind = "reset" /\ p.step # "find" => \E r \in au.resets : r.token = p.arg /\ p.at < r.exp

\* A pending OAuth state is exchanged at most once, whoever else calls back with it,
\* not later than its time to live and with the provider it was made for.
StateSingleUse ==
    /\ \A x, y \in au.exchanges : x.state[1] = y.state[1] => x = y
    /\ \A x \in au.exchanges : \A s \in au.states : x.state[1] # s.token

\* A token names the user of its subject or no user: two first logins of one user at
\* once, or a failing database, never make a token that names another row.
TokensNameTheUser ==
    \A t \in au.tokens : t.id # NoId => \E u \in au.users : u.id = t.id /\ u.email = t.sub

\* A refresh token goes back to an OAuth login through any number of rotations, an
\* access token is never turned into new ones, and a refresh token is no identity.
RefreshFromLogin ==
    /\ \A t \in au.me : t.typ = "access"
    /\ \A t \in au.tokens : t.typ = "refresh" => \E x \in au.exchanges : x.call = t.root

\* Accounts, reset tokens, OAuth states and sessions, whatever the order of
\* requests and the passing of time.
AuthSound == PasswordsByOwner /\ StateSingleUse /\ TokensNameTheUser /\ RefreshFromLogin
=============================================================================

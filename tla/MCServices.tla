----------------------------- MODULE MCServices -----------------------------
\* The run-time services of a web program and the planning of its migrations.
EXTENDS RouteRegistry, RequestDispatch, CrudWebhooks, AuthFlows, DbPool, SchemaPlan, JsonCodec

\* RequestDispatch
\* Three requests at a time, of these; four of one client against the rate limit.
MCReq(i, m, p, b, k) == [id |-> i, method |-> m, path |-> p, body |-> b, token |-> k]
MCPool == {MCReq(1, "GET", "/u", "none", "none"), MCReq(2, "GET", "/jwt", "none", "bad"), MCReq(3, "POST", "/jwt", "ok", "new"),
           MCReq(4, "GET", "/jwt", "none", "valid"), MCReq(5, "POST", "/jwt", "tooLong", "valid"), MCReq(6, "POST", "/jwt", "notJson", "valid"),
           MCReq(7, "POST", "/jwt", "broken", "valid"), MCReq(8, "POST", "/jwt", "announcedTooLong", "valid"),
           MCReq(9, "GET", "/health", "none", "none"), MCReq(10, "OPTIONS", "/u", "none", "none"), MCReq(11, "POST", "/u", "ok", "none"),
           MCReq(12, "GET", "/x", "none", "none")}
MCBatches == {{a, b} : a, b \in MCPool}
             \cup {{MCReq(1, "GET", "/u", "none", "none"), MCReq(3, "POST", "/jwt", "ok", "new"), a} : a \in MCPool}
             \cup {{MCReq(i, "GET", "/rate", "none", "valid") : i \in 1..4}}
MCRoutes == {[method |-> "GET", path |-> "/u", mws |-> <<>>, headers |-> FALSE],
             [method |-> "GET", path |-> "/rate", mws |-> <<"rate">>, headers |-> FALSE],
             [method |-> "GET", path |-> "/jwt", mws |-> <<"rate", "jwt">>, headers |-> FALSE],
             [method |-> "POST", path |-> "/jwt", mws |-> <<"jwt">>, headers |-> FALSE]}

\* CrudWebhooks
\* Two rows; up to three overlapping requests of two users and a visitor.
MCCall(n, op, id, user, role, body) == [n |-> n, op |-> op, id |-> id, user |-> user, role |-> role, body |-> body]
MCHand(u) == [owner |-> u]
MCNote(x) == [note |-> x]
MCNewRow == [owner |-> 7, note |-> "b"]
MCCallPool == {MCCall(1, "update", 8, 1, "User", MCHand(2)), MCCall(2, "update", 8, 2, "User", MCNote("b")), MCCall(3, "delete", 8, 1, "User", <<>>),
               MCCall(4, "delete", 8, 3, "Admin", <<>>), MCCall(5, "create", 0, 2, "User", MCNewRow), MCCall(6, "get", 8, 1, "User", <<>>),
               MCCall(7, "list", 0, 0, "none", <<>>), MCCall(8, "update", 8, 0, "none", MCNote("b")), MCCall(9, "update", 1, 1, "User", MCNote("b")),
               MCCall(10, "update", 1, 2, "User", MCHand(1)), MCCall(11, "create", 0, 0, "none", MCNewRow), MCCall(12, "update", 8, 3, "Admin", MCNote("c"))}
MCCalls == {{a, b} : a, b \in MCCallPool} \cup {{MCCall(3, "delete", 8, 1, "User", <<>>), MCCall(4, "delete", 8, 3, "Admin", <<>>), a} : a \in MCCallPool}
MCRows == (1 :> [owner |-> 2, note |-> "a", secret |-> "s"]) @@ (8 :> [owner |-> 1, note |-> "a", secret |-> "s"])
MCPolicy == [create |-> [any |-> TRUE, terms |-> {"public"}], update |-> [any |-> TRUE, terms |-> {"own", "Editor"}],
             delete |-> [any |-> TRUE, terms |-> {"own", "Admin"}]]
MCVisible == [secret |-> {"own", "Admin"}]
MCWritable == [secret |-> {"Admin"}]
MCRoles == {"Admin", "Editor", "User"}
MCHierarchies == {[Admin |-> {"Editor"}, Editor |-> {"User"}], [Admin |-> {"Editor"}, Editor |-> {"Admin", "User"}, User |-> {}]}
MCConfigs == {[event |-> e, filter |-> "any"] : e \in {"created", "updated", "deleted"}} \cup {[event |-> "updated", filter |-> "b"]}

\* AuthFlows
MCScripts == {<<"signup", "signup", "login">>, <<"signup", "forgot", "reset", "reset">>, <<"redirect", "callback", "callback", "me">>,
              <<"redirect", "redirect", "callback", "callback">>, <<"redirect", "callback", "refresh", "refresh">>, <<"signup", "refresh", "me">>}

\* DbPool
\* Integer types of 3, 4 and 5 bits, numbers in and out of their ranges.
MCHalf == [t \in {"int2", "int4", "int8"} |-> CASE t = "int2" -> 4 [] t = "int4" -> 8 [] OTHER -> 16]
MCSamples == {<<[k |-> k, n |-> n], t, y>> : k \in {"num", "str", "bool", "null", "obj"}, n \in (-18)..18 \cup {NotANumber},
                                             t \in {"int2", "int4", "int8", "bool", "json", "text"}, y \in BOOLEAN}

\* SchemaPlan
F(n, k, of, d, ref, def) == [n |-> n, k |-> k, of |-> of, d |-> d, ref |-> ref, def |-> def]
Id == F("id", "int", Nil, {"primary", "auto"}, Nil, Nil)
St(n, pl, tb, fs) == [name |-> n, plural |-> pl, table |-> tb, fields |-> fs, stamped |-> FALSE]
Pg(ss, cs, es) == [structs |-> ss, calls |-> cs, enums |-> es]
FX == {F("x", "str", Nil, {}, Nil, Nil), F("x", "str", Nil, {"optional", "unique"}, Nil, Nil), F("x", "int", Nil, {"index"}, Nil, "1"),
       F("x", "int", Nil, {}, Nil, "2"), F("x", "enum", "e", {}, Nil, Nil), F("x", "enum", "g", {"optional"}, Nil, Nil), F("x", "struct", "N", {}, Nil, Nil),
       F("y", "str", Nil, {"optional"}, Nil, Nil), F("y", "int", Nil, {"unique"}, Nil, Nil)}
En == {[name |-> "e", vars |-> <<"u", "v">>]}
Eg == {[name |-> "g", vars |-> <<"u", "v">>]}
Ew == {[name |-> "e", vars |-> <<"u", "v", "w">>]}
Nest == [name |-> "N", plural |-> "ns", table |-> "-", fields |-> <<F("k", "enum", "e", {}, Nil, Nil)>>, stamped |-> FALSE]
One(tb, fs) == Pg(<<St("A", "as", tb, fs), Nest>>, <<>>, En \cup Eg)
FkB == F("b", "int", Nil, {"foreign"}, "B", Nil)
FkC == F("b", "int", Nil, {"foreign", "optional"}, "C", Nil)
B == St("B", "bs", Nil, <<Id, F("x", "str", Nil, {}, Nil, Nil)>>)
C == St("C", "cs", Nil, <<Id>>)
MCTableOrder == <<"as", "bs", "cs">>
MCPrograms4 ==
    {One(Nil, <<Id, f>>) : f \in FX} \cup {One("bs", <<Id, f>>) : f \in {g \in FX : g.k = "str"}}
    \cup {One(Nil, <<Id, u[1], u[2]>>) : u \in {w \in FX \X FX : w[1].n # w[2].n /\ {w[1].k, w[2].k} \subseteq {"str", "int"}}}
    \cup {Pg(<<St("A", "as", Nil, <<Id, F("x", "enum", "e", {}, Nil, Nil)>>)>>, <<>>, Ew),
          Pg(<<St("A", "as", Nil, <<F("x", "str", Nil, {"primary"}, Nil, Nil)>>)>>, <<>>, {}),
          Pg(<<B, St("A", "as", Nil, <<Id, FkB>>)>>, <<>>, {}), Pg(<<St("A", "as", Nil, <<Id, FkB>>), B>>, <<>>, {}),
          Pg(<<B, C, St("A", "as", Nil, <<Id, FkC>>)>>, <<>>, {}), Pg(<<C, St("A", "as", "as", <<Id, F("b", "int", Nil, {}, Nil, Nil)>>), [B EXCEPT !.stamped = TRUE]>>, <<>>, {}),
          Pg(<<[B EXCEPT !.table = "-"], C>>, <<[struct |-> "B", table |-> "bs"]>>, {}), Pg(<<>>, <<>>, {})}

\* JsonCodec
\* Values of every type of depth two over small leaves, and every text of at
\* most four lexemes with a few longer ones.
MCNames == {"user_id", "userId", "Ok", "no"}
MCNormal == [n \in MCNames |-> IF n \in {"user_id", "userId"} THEN "userid" ELSE n]
MCCapital == [n \in MCNames |-> IF n = "no" THEN "No" ELSE n]
MCStrings == {<<>>, <<"a">>, <<DQuote, LF>>, <<BSlash, Ctl>>}
MCField(n, t) == [name |-> n, json |-> n, ty |-> t]
MCTwo(t, u) == TStruct(<<MCField("user_id", t), MCField("userId", u)>>)
MCVariants(t) == TEnum(<<[name |-> "Ok", ty |-> TNone], [name |-> "no", ty |-> TNone], [name |-> "userId", ty |-> t]>>)
MCGoodVariants(t) == TEnum(<<[name |-> "Ok", ty |-> t], [name |-> "userId", ty |-> TNone]>>)
MCPrimTypes == {TInt, TFloat, TBool, TStr}
MCT1 == MCPrimTypes \cup {TArray(t) : t \in MCPrimTypes} \cup {TMap(t, u) : t, u \in MCPrimTypes} \cup {TOptional(t) : t \in {TStr, TInt, TArray(TInt)}}
        \cup {TTuple(<<TStr, TStr>>), TTuple(<<TInt, TStr>>)} \cup {MCGoodVariants(TInt), MCVariants(TStr), MCTwo(TInt, TStr)}
MCTypes == MCT1 \cup {TArray(t) : t \in MCT1} \cup {TMap(TStr, t) : t \in MCT1} \cup {MCTwo(TStr, t) : t \in MCT1} \cup {MCGoodVariants(t) : t \in MCT1}
RECURSIVE MCValues(_)
MCSome(S) == IF Cardinality(S) <= 3 THEN S
             ELSE LET x == CHOOSE v \in S : TRUE
                      y == CHOOSE v \in S \ {x} : TRUE
                  IN {x, y, CHOOSE v \in S \ {x, y} : TRUE}
MCCells(t) == {Cell(CreateLlvmType(t), v) : v \in MCSome(MCValues(t))}
MCValues(t) ==
    CASE t.k = "Int" -> {IntV(n) : n \in {0, 7}}
      [] t.k = "Float" -> {FloatV(0), FloatV(3), NaN}
      [] t.k = "Bool" -> {BoolV(TRUE), BoolV(FALSE)}
      [] t.k = "Str" -> {StrV(s) : s \in MCStrings}
      [] t.k = "Optional" -> IF t.of.k \in {"Str", "Array"} THEN {NullV} \cup MCValues(t.of) ELSE {NullV}
      [] t.k = "Array" -> {SeqV(c) : c \in UNION {[1..n -> MCCells(t.of)] : n \in 0..2}}
      [] t.k = "Tuple" -> {SeqV(<<c, d>>) : c \in MCCells(t.of[1]), d \in MCCells(t.of[2])}
      [] t.k = "Map" -> {MapV(<<>>)} \cup {MapV(<<PairV(c, d)>>) : c \in MCCells(t.key), d \in MCCells(t.of)}
                        \cup {MapV(<<PairV(p[1], d), PairV(p[2], d)>>) : d \in MCCells(t.of), p \in {q \in MCCells(t.key) \X MCCells(t.key) : q[1] # q[2]}}
      [] t.k = "Struct" -> {StructV(<<c, d>>) : c \in MCCells(t.of[1].ty), d \in MCCells(t.of[2].ty)}
      [] t.k = "Enum" -> UNION {IF t.of[i].ty.k = "none" THEN {EnumV(i, <<>>)} ELSE {EnumV(i, <<c>>) : c \in MCCells(t.of[i].ty)} : i \in DOMAIN t.of}
MCWritten == UNION {{[ty |-> t, val |-> v] : v \in {u \in MCValues(t) : t.k = "Struct" \/ ~Has(u, {"null"})}} : t \in MCTypes \ {MCTwo(TStr, TOptional(TArray(TInt)))}}
MCLexemes == {Char("["), Char("]"), Char(","), Lex("int", "", 7), Lex("dec", "", 3), Word("true"), Word("null")}
MCKey(n) == <<Char(DQuote), Char(n), Char(DQuote), Char(":")>>
MCTexts == UNION {[1..n -> MCLexemes] : n \in 1..4}
   \cup {<<Char("[")>> \o x \o <<Char(","), y, Char("]")>> : x \in {<<Lex("int", "", 7)>>, <<Char(DQuote), Char("a"), Char(DQuote)>>, <<Char("{"), Char("}")>>}, y \in MCLexemes}
   \cup {<<Char("{")>> \o MCKey(n) \o <<y, Char("}")>> : n \in MCNames, y \in MCLexemes}
   \cup {<<Char("{")>> \o MCKey(n) \o <<y, Char(",")>> \o MCKey(m) \o <<z, Char("}")>> : n, m \in MCNames, y, z \in {Lex("int", "", 7), Word("null"), Word("true")}}
   \cup {<<Char(DQuote)>> \o x \o <<Char(DQuote)>> : x \in {<<>>, <<Lex("int", "", 7)>>, <<Word("true")>>, <<Char("Ok")>>, <<Char("no")>>}}
MCReceived == [ty : MCT1 \cup {TArray(MCTwo(TInt, TStr)), MCTwo(TArray(TInt), TBool)}, text : MCTexts]

VARIABLE part  \* the component this behaviour is about; the others rest in an initial state

mcvars == <<part, rr, rq, cw, au, db, sp, js>>
Init ==
    /\ part \in {"RouteRegistry", "RequestDispatch", "CrudWebhooks", "AuthFlows", "DbPool", "SchemaPlan", "JsonCodec"}
    /\ IF part = "RouteRegistry" THEN RegistryInit ELSE RegistryInit
    /\ IF part = "RequestDispatch" THEN DispatchInit ELSE rq = DispatchStart({})
    /\ IF part = "CrudWebhooks" THEN CrudInit ELSE cw = CrudStart({}, CHOOSE h \in Hierarchies : TRUE)
    /\ IF part = "AuthFlows" THEN AuthInit ELSE au = AuthStart(FALSE, <<>>)
    /\ IF part = "DbPool" THEN DbInit ELSE DbInit
    /\ IF part = "SchemaPlan" THEN SchemaInit ELSE SchemaInit
    /\ IF part = "JsonCodec" THEN JsonInit ELSE js = JsonStart(TInt, IntV(0), <<>>, "value")
Next ==
    \/ part = "RouteRegistry" /\ RegistryNext /\ UNCHANGED <<part, rq, cw, au, db, sp, js>>
    \/ part = "RequestDispatch" /\ DispatchNext /\ UNCHANGED <<part, rr, cw, au, db, sp, js>>
    \/ part = "CrudWebhooks" /\ CrudNext /\ UNCHANGED <<part, rr, rq, au, db, sp, js>>
    \/ part = "AuthFlows" /\ AuthNext /\ UNCHANGED <<part, rr, rq, cw, db, sp, js>>
    \/ part = "DbPool" /\ DbNext /\ UNCHANGED <<part, rr, rq, cw, au, sp, js>>
    \/ part = "SchemaPlan" /\ SchemaNext /\ UNCHANGED <<part, rr, rq, cw, au, db, js>>
    \/ part = "JsonCodec" /\ JsonNext /\ UNCHANGED <<part, rr, rq, cw, au, db, sp>>
Spec == Init /\ [][Next]_mcvars
=============================================================================

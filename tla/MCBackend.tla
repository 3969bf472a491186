----------------------------- MODULE MCBackend -----------------------------
\* The checks of the compiler and what it emits: matches, types, loops, generics, borrows, drops, basic blocks, queries and values in memory.
EXTENDS MatchCheck, TypeSound, LoopLowering, Generics, StringOps, BorrowCheck, DropInsertion, MirBuild, QueryBuilder, HeapValues, ArrayMemory, MapMemory

\* MatchCheck
MCPatterns == {Pattern(p, FALSE) : p \in {"_", "true", "false", "A", "B", "one", "cond", "tuple_"}} \cup {Pattern("_", TRUE), Pattern("A", TRUE)}
MCArms == UNION {[1..n -> MCPatterns] : n \in 0..3}

\* TypeSound
MCTVars == {"x", "y"}
MCAtoms == {Lit(INT), Lit(STR), Lit(VOID), Var("x"), Var("y")}
MCExprs == MCAtoms \cup {Lit(FLOAT)} \cup {Bin("+", Var("x"), a) : a \in MCAtoms \cup {Lit(FLOAT)}}
           \cup {Bin("<", Var("x"), Lit(INT)), Bin("<", Var("x"), Var("y")), Bin("??", Var("x"), Lit(INT)),
                 Bin("??", Var("x"), Var("y")), Bin("==", Var("x"), Var("y")), Bin("-", Lit(INT), Var("x")),
                 Cast(Var("x"), STR), Cast(Var("x"), INT)}
MCAnns == {NoType, INT, OptInt}

\* LoopLowering
MCx == User("x")
MCy == User("y")
MCk == User("k")
MCw == User("_")
MCa == User("a")
MCm == User("m")
MCn == User("n")
MCLists == {ListOf(<<Num(1), Num(2)>>), ListOf(<<>>), Get(MCa)}
MCMaps == {MapOf(<<Num(2), Num(1), Num(1), Num(3)>>), Get(MCm)}
MCShow(x) == <<PrintStmt(Get(x))>>
MCWhen(x, how) == <<IfStmt(Less(Get(x), Num(2)), <<JumpStmt(how)>>, <<PrintStmt(Num(0))>>)>>
MCLoops(x, y, body) ==
    {ForRange(x, Num(f), t, c, body) : f \in {0, 1}, t \in {Num(2), Get(MCn)}, c \in BOOLEAN}
    \cup {ForIn(p, e, body) : p \in {<<x>>, <<y, x>>}, e \in MCLists} \cup {ForIn(p, e, body) : p \in {<<x>>, <<x, y>>}, e \in MCMaps}
MCInnerLoops == UNION {MCLoops(x, MCw, b) : x \in {MCx, MCy}, b \in {MCShow(MCx), MCWhen(MCy, "continue") \o MCShow(MCx)}}
    \cup {ForEver(MCShow(MCx) \o MCWhen(MCn, h) \o <<IncDecStmt(MCn, "-")>>) : h \in {"break", "return", "continue"}}
MCBodies2 == {MCShow(MCx) \o MCWhen(MCx, h) \o MCShow(MCn) \o <<CompoundStmt(MCn, "+", Num(1))>> : h \in {"break", "continue", "return"}}
    \cup {<<i>> \o MCShow(MCx) : i \in MCInnerLoops}
    \cup {<<LetStmt(z, Plus(Get(MCx), Num(1))), BlockStmt(<<LetTuple(<<MCk, z>>, PairUp(<<Get(z), Get(MCx)>>)), PrintStmt(Get(z))>>), PrintStmt(Get(z))>> : z \in {MCx, MCa, MCw}}
MCDecls == <<LetStmt(MCn, Num(2)), LetStmt(MCa, ListOf(<<Num(3), Num(1)>>)), LetStmt(MCm, MapOf(<<Num(1), Num(0), Num(3), Num(2)>>))>>
MCPrograms == {MCDecls \o <<s>> : s \in UNION {MCLoops(MCx, MCk, b) : b \in MCBodies2}}
    \cup {MCDecls \o <<s, q>> : s, q \in UNION {MCLoops(x, MCk, MCShow(MCx)) : x \in {MCx}}}
    \cup {MCDecls \o <<LetTuple(<<MCx, MCk>>, PairUp(<<Get(MCm), Get(MCn)>>)), ForRange(MCy, Num(0), Get(MCk), TRUE, <<SetStmt(MCk, Num(1)), PrintStmt(Get(MCy))>>), s>> : s \in MCLoops(MCy, MCw, MCShow(MCy))}
    \cup {<<LetStmt(MCa, ListOf(<<MapOf(<<Num(1), Num(2)>>)>>)), ForIn(<<MCx>>, Get(MCa), <<ForIn(<<MCk, MCy>>, Get(MCx), MCShow(MCk))>>)>>}

\* Generics
MCT == Param("T")
MCTemplates == <<
    GFunc("id", <<"T">>, <<"x">>, <<MCT>>, MCT, <<Give(Name("x"))>>),
    GFunc("wrap", <<"T">>, <<"x">>, <<MCT>>, MCT, <<LetIs("y", Name("x")), Give(CallOf("id", <<Name("y")>>))>>),
    GFunc("boxed", <<"T">>, <<"x">>, <<MCT>>, Untyped,
          <<LetIs("b", StructLit("Box", <<"Label", "Value">>, <<LiteralOf("Str"), Name("x")>>)), Give(CallOf("id", <<DotOf(Name("b"), "Value")>>))>>),
    GFunc("swap", <<"A", "B">>, <<"a", "b">>, <<Param("A"), Param("B")>>, TupleType(<<Param("B"), Param("A")>>),
          <<LetAll(<<"p", "q">>, TupleLit(<<Name("b"), Name("a")>>)), Give(TupleLit(<<CallOf("id", <<Name("p")>>), Name("q")>>))>>),
    GFunc("head", <<"T">>, <<"xs">>, <<ArrayType(MCT)>>, MCT, <<Give(IndexInto(Name("xs")))>>),
    GFunc("pick", <<"K", "T">>, <<"m", "k", "z">>, <<MapType(Param("K"), MCT), Param("K"), MCT>>, MCT,
          <<WhenTrue(LiteralOf("Bool"), <<LetIs("ks", MethodOf(Name("m"), "keys", <<>>)), Do(CallOf("head", <<Name("ks")>>))>>), Give(Name("z"))>>),
    GFunc("same", <<"T">>, <<"a", "b">>, <<MCT, MCT>>, MCT, <<Give(Name("b"))>>),
    GFunc("even", <<"T">>, <<"x">>, <<MCT>>, Untyped, <<Give(CallOf("odd", <<Name("x")>>))>>),
    GFunc("odd", <<"T">>, <<"x">>, <<MCT>>, Untyped, <<Give(CallOf("even", <<Name("x")>>))>>),
    GFunc("grow", <<"T">>, <<"x">>, <<MCT>>, Untyped, <<Give(CallOf("grow", <<ArrayLit(<<Name("x")>>)>>))>>),
    GFunc("apply", <<"T">>, <<"x", "f">>, <<MCT, FunType(<<MCT>>, MCT)>>, MCT, <<Give(Name("x"))>>),
    GFunc("label", <<>>, <<"n">>, <<Prim("Int")>>, Prim("Str"), <<LetIs("s", LiteralOf("Str")), Give(CallOf("id", <<Name("s")>>))>>)>>
MCStructs == [Box |-> [params |-> <<"T">>, fields |-> <<<<"Label", Prim("Str")>>, <<"Value", MCT>>>>],
              Both |-> [params |-> <<"A", "B">>, fields |-> <<<<"Left", ArrayType(Param("A"))>>, <<"Right", Param("B")>>>>],
              Plain |-> [params |-> <<>>, fields |-> <<<<"Size", Prim("Int")>>>>]]
MCBoxOf(e) == StructLit("Box", <<"Label", "Value">>, <<LiteralOf("Str"), e>>)
MCFirsts == {LetIs("u", e) : e \in
           {LiteralOf("Int"), ArrayLit(<<LiteralOf("Int"), LiteralOf("Int")>>), MapLit(LiteralOf("Str"), LiteralOf("Int")),
            TupleLit(<<LiteralOf("Int"), LiteralOf("Str")>>), MCBoxOf(LiteralOf("Int")), MCBoxOf(MCBoxOf(LiteralOf("Str"))),
            StructLit("Both", <<"Left", "Right">>, <<ArrayLit(<<LiteralOf("Str")>>), LiteralOf("Int")>>),
            StructLit("Plain", <<"Size">>, <<LiteralOf("Int")>>), CallOf("id", <<LiteralOf("Int")>>), CallOf("label", <<LiteralOf("Int")>>),
            MethodOf(ArrayLit(<<LiteralOf("Int")>>), "map", <<ClosureOf("y", Name("y"))>>)}}
MCCalls(args) ==
    {CallOf(f, <<a>>) : f \in {"id", "wrap", "boxed", "head", "even", "grow"}, a \in args}
    \cup {CallOf(f, <<a, Name("u")>>) : f \in {"swap", "same"}, a \in args}
    \cup {CallOf("pick", <<Name("u"), LiteralOf("Str"), z>>) : z \in args}
    \cup {CallOf("apply", <<a, ClosureOf("y", e)>>) : a \in args, e \in {Name("y"), CallOf("id", <<Name("y")>>)}}
    \cup {MCBoxOf(a) : a \in args}
MCDots == {DotOf(Name("u"), f) : f \in {"Value", "Left", "Size"}} \cup {DotOf(DotOf(Name("u"), "Value"), "Value")}
MCRests == {<<LetIs("v", c), Do(g)>> : c \in MCCalls({Name("u"), LiteralOf("Str")}), g \in MCCalls({Name("v")})}
           \cup {<<LetIs("w", f), Do(c)>> : f \in MCDots, c \in MCCalls({Name("w"), LiteralOf("Int")} \cup MCDots)}

\* StringOps
MCFirstValues == {<<Literal(<<97, 98, 97>>), Literal(<<97>>), NullStr, IntV(2), IntV(MinInt)>>,
    <<Literal(<<32, 97, 97, 9>>), Literal(<<>>), Literal(<<97, 97>>), IntV(0), IntV(-1)>>,
    <<Literal(<<195, 169, 65>>), Literal(<<65>>), IntV(1), BoolV(TRUE), BoolV(FALSE)>>,
    <<Literal(<<45, 49, 48>>), Literal(<<32, 55>>), IntV(MaxInt), IntV(MinInt), IntV(-1)>>,
    <<EnumV(0, <<>>), EnumV(1, <<>>), EnumV(1, <<5>>), EnumV(1, <<6>>), IntV(3)>>,
    <<Scalar("float", 1), Scalar("float", 2), Scalar("float", NaN), IntV(0), IntV(7)>>}

\* DropInsertion
\* Two statements, or a binding and two more; the alias is read after its binding.
MCStmt == {S("bind", Base), S("call", Base), S("meth", Base), S("meth", Alias), S("call", Alias), S("ret", Base), S("ret", NoVar),
           S("closure", Base), S("spawn", Base)}
MCOne == {<<s>> : s \in MCStmt}
MCFew == {S("bind", Base), S("meth", Base), S("meth", Alias), S("ret", NoVar)}
MCTwo == {<<s, t>> : s, t \in MCFew}
MCStmts == MCStmt \cup {If(a, b) : a \in MCOne, b \in MCOne \cup {<<>>}} \cup {If(a, <<>>) : a \in MCTwo} \cup {While(a) : a \in MCOne \cup MCTwo}
AliasBound(p) == LET x == Flat(p) IN \A i \in DOMAIN x : x[i].v = Alias => \E j \in 1..(i - 1) : x[j].k = "bind"
MCBlocks == {p \in {<<s, t>> : s, t \in MCStmts} \cup {<<S("bind", Base), t, u>> : t \in MCStmts, u \in MCStmt} : AliasBound(p)}

\* MirBuild
\* Bodies of one or two statements with blocks of one or two, nested twice.
MCSimple == {Ev("a"), Ev("b"), Jump("break"), Jump("continue"), Jump("return"), Jump("ok"), TryS, UnwrapS("m")}
MCBlock1 == {<<s>> : s \in MCSimple}
MCBlock2 == MCBlock1 \cup {<<Ev("a"), s>> : s \in MCSimple}
MCInner == {IfS(x, NoElse) : x \in MCBlock2} \cup {IfS(x, y) : x, y \in MCBlock1}
           \cup {WhileS(x, i) : x \in MCBlock1, i \in {<<>>, <<Ev("i")>>}}
MCNested == MCSimple \cup {IfS(x, y) : x \in MCBlock1, y \in MCBlock1 \cup {NoElse}}
            \cup {WhileS(<<x, Ev("b")>>, i) : x \in MCInner, i \in {<<>>, <<Ev("i")>>}}
            \cup {MatchS(<<x, y, z>>) : x, y \in {<<Ev("a")>>, <<TryS>>}, z \in {<<>>, <<TryS>>, <<Ev("b")>>}} \cup {IfExpr(x, <<Ev("b")>>) : x \in MCBlock2}
MCBodies == {<<s, t>> : s \in MCNested, t \in {Ev("z"), Jump("return"), TryS, IfS(<<Ev("c"), Jump("return")>>, <<Jump("return")>>)}} \cup {<<s>> : s \in MCNested}
MCAnswers == [1..3 -> BOOLEAN]

\* QueryBuilder
\* A table of an id, a number and an optional string; chains of up to two
\* filters, of up to three with OR, and of each other clause with and without
\* a filter, with right, wrong and missing operands.
MCField3(n, t, opt, key) == [name |-> n, ty |-> t, opt |-> opt, primary |-> key, auto |-> key]
MCFields == <<MCField3("id", "Int", FALSE, TRUE), MCField3("n", "Int", FALSE, FALSE), MCField3("s", "Str", TRUE, FALSE)>>
MCLikes == {<<"a%", "ab">>}
MCInt(n) == Const(IntVal(n))
MCStr(x) == Const(StrVal(x))
MCOps == {Call("Gt", <<MCInt(1)>>), Call("Lte", <<MCInt(1)>>), Call("Ne", <<MCInt(1)>>), Call("In", <<Array(<<MCInt(1), MCInt(2)>>)>>), Call("NotIn", <<Array(<<MCInt(2)>>)>>),
          Call("In", <<Array(<<>>)>>), Call("Between", <<MCInt(1), MCInt(1)>>), MCInt(2)}
MCObjects == {<<<<"n", e>>>> : e \in MCOps} \cup {<<<<"s", e>>>> : e \in {MCStr("ab"), Local("IsNull", ""), Call("IsNotNull", <<>>), Call("Like", <<MCStr("a%")>>), Const(Nil), Call("Ne", <<MCStr("ab")>>)}}
             \cup {<<<<"n", MCInt(1)>>, <<"s", MCStr("ab")>>>>, <<<<"n", Call("Between", <<MCInt(1), MCInt(2)>>)>>, <<"id", Call("Gte", <<MCInt(2)>>)>>>>}
MCOdd == {<<<<"n", MCStr("ab")>>>>, <<<<"x", MCInt(1)>>>>, <<<<"n", Local("id", "Int")>>>>, <<<<"n", Local("other", "")>>>>, <<<<"n", Call("Gt", <<>>)>>>>, <<<<"s", Call("Gt", <<MCInt(1)>>)>>>>,
          <<<<"n", Call("Gt", <<>>)>>, <<"s", MCStr("ab")>>>>, <<>>, <<<<"s", Local("f()", "Str")>>>>, <<<<"s", Call("f", <<>>)>>>>, <<<<"n", Call("Lt", <<MCStr("ab")>>)>>>>,
          <<<<"n", Call("Like", <<MCStr("a%")>>)>>>>, <<<<"n", Call("In", <<Array(<<MCStr("ab")>>)>>)>>>>, <<<<"n", Call("Between", <<MCInt(1)>>)>>>>, <<<<"n", Call("In", <<Local("xs", "")>>)>>>>}
MCObj(o) == <<Struct(o)>>
MCFilters == {Clause("where", MCObj(o)) : o \in MCObjects} \cup {Clause("whereNot", MCObj(o)) : o \in MCObjects}
             \cup {Clause("whereIn", <<MCStr("n"), Array(<<MCInt(1), MCInt(3)>>)>>), Clause("whereNull", <<MCStr("s")>>), Clause("whereNotNull", <<MCStr("s"), MCStr("n")>>), Clause("whereBetween", <<MCStr("n"), MCInt(2), MCInt(3)>>)}
MCFewFilters == {Clause("where", MCObj(<<<<"n", MCInt(1)>>>>)), Clause("whereNot", MCObj(<<<<"s", MCStr("ab")>>, <<"id", MCInt(1)>>>>)), Clause("whereNull", <<MCStr("s")>>)}
MCOr == {Clause("orWhere", MCObj(o)) : o \in {<<<<"n", MCInt(2)>>>>, <<<<"s", MCStr("ab")>>, <<"n", MCInt(1)>>>>}}
MCOddFilters == {Clause(m, MCObj(o)) : m \in {"where", "whereNot", "orWhere"}, o \in MCOdd}
   \cup {Clause("where", <<>>), Clause("whereIn", <<MCStr("n")>>), Clause("whereIn", <<MCStr("s"), Array(<<MCInt(1)>>)>>), Clause("whereNull", <<Array(<<MCStr("s")>>)>>), Clause("whereNull", <<Array(<<MCStr("x")>>)>>),
         Clause("whereBetween", <<MCStr("s"), MCInt(1), MCInt(2)>>), Clause("whereBetween", <<MCStr("n"), MCInt(1)>>), Clause("limit", <<>>), Clause("nowhere", <<>>)}
MCDesc == Local("Desc", "")
MCAsc == Local("Asc", "")
MCRest == {Clause("orderBy", MCObj(o)) : o \in {<<<<"n", MCDesc>>>>, <<<<"n", MCAsc>>, <<"id", MCDesc>>>>}}
   \cup {Clause("limit", <<MCInt(n)>>) : n \in {0, 2}} \cup {Clause("offset", <<MCInt(1)>>), Clause("limit", <<Local("k", "Int")>>), Clause("distinct", <<>>), Clause("exclude", <<MCStr("n")>>)}
   \cup {Clause("select", a) : a \in {<<MCStr("n")>>, <<Array(<<MCStr("s"), MCStr("n")>>)>>, <<MCStr("x")>>, <<>>}}
   \cup {Clause("groupBy", <<MCStr(x)>>) : x \in {"n", "s"}}
   \cup {Clause("having", MCObj(o)) : o \in {<<<<"n", Call("Gt", <<MCInt(1)>>)>>>>, <<<<"total", MCInt(1)>>>>}}
   \cup {Clause("aggregate", MCObj(<<<<"total", e>>>>)) : e \in {Call("Count", <<>>), Call("Sum", <<MCStr("n")>>), Call("Max", <<MCStr("n")>>), Call("Avg", <<MCStr("n")>>), Call("Min", <<MCStr("id")>>), Call("Sum", <<MCStr("s")>>), Call("Median", <<MCStr("n")>>), MCInt(1)}}
MCSets == {<<Clause("set", MCObj(o))>> : o \in {<<<<"n", MCInt(3)>>>>, <<<<"s", Const(Nil)>>, <<"n", MCInt(1)>>>>, <<<<"n", Const(Nil)>>>>, <<<<"s", MCInt(1)>>>>, <<>>, <<<<"x", MCInt(1)>>>>}}
   \cup {<<Clause("increment", <<MCStr("n"), MCInt(1)>>)>>, <<Clause("decrement", MCObj(<<<<"n", MCInt(1)>>, <<"id", MCInt(5)>>>>))>>, <<Clause("increment", <<MCStr("s"), MCInt(1)>>)>>, <<>>, <<Clause("increment", MCObj(<<>>))>>,
         <<Clause("set", MCObj(<<<<"s", MCStr("x")>>>>)), Clause("increment", <<MCStr("n"), MCInt(2)>>)>>, <<Clause("set", MCObj(<<<<"n", MCInt(3)>>>>)), Clause("increment", <<MCStr("n"), MCInt(2)>>)>>,
         <<Clause("set", MCObj(<<<<"n", MCInt(1)>>>>)), Clause("set", MCObj(<<<<"n", MCInt(2)>>>>)), Clause("returning", <<MCStr("id")>>)>>}
MCChain(op, data, cs, term) == [op |-> op, model |-> "Task", data |-> data, clauses |-> cs, terminal |-> term]
MCRows == {<<<<"n", MCInt(1)>>, <<"s", MCStr("ab")>>>>, <<<<"s", MCStr("x")>>, <<"n", MCInt(2)>>>>, <<<<"n", MCInt(2)>>>>, <<<<"s", MCStr("x")>>>>, <<<<"n", MCStr("x")>>>>, <<<<"n", Local("k", "Int")>>>>}
MCChains ==
    {MCChain(op, <<>>, <<a, b>>, "exec") : op \in {"find"}, a, b \in MCFilters}
    \cup {MCChain(op, <<>>, cs, "exec") : op \in {"find", "delete"}, cs \in {<<a, b, c>> : a, b, c \in MCFewFilters \cup MCOr} \cup {<<a, b>> : a, b \in MCFewFilters \cup MCOr} \cup {<<a>> : a \in MCFilters \cup MCOddFilters} \cup {<<>>}}
    \cup {MCChain("find", <<>>, cs, term) : cs \in {<<a, b>> : a, b \in MCRest} \cup {<<Clause("where", MCObj(<<<<"n", Call("Gte", <<MCInt(1)>>)>>>>)), a>> : a \in MCRest}, term \in {"exec"}}
    \cup {MCChain("find", <<>>, <<g, a, b>>, "exec") : a, b \in MCRest, g \in {Clause("groupBy", <<MCStr("n")>>)}}
    \cup {MCChain(op, <<>>, <<f>> \o cs, term) : op \in {"findOne", "count"}, f \in MCFewFilters, cs \in {<<>>} \cup {<<r>> : r \in MCRest}, term \in {"exec", "execOne", "toSql"}}
    \cup {MCChain("update", <<>>, u \o f, "exec") : u \in MCSets, f \in {<<a>> : a \in MCFilters} \cup {<<>>} \cup {<<a, b>> : a, b \in MCFewFilters \cup MCOr}}
    \cup {MCChain("update", <<>>, f \o u, "exec") : u \in MCSets, f \in {<<a>> : a \in MCFewFilters}}
    \cup {MCChain("insert", d, cs, "exec") : d \in {<<>>, <<Local("task", "")>>} \cup {<<Struct(r)>> : r \in MCRows}, cs \in {<<>>, <<Clause("returning", <<Array(<<MCStr("id")>>)>>)>>, <<Clause("returning", <<Array(<<>>)>>)>>}}
    \cup {MCChain("insertMany", <<Array(rs)>>, <<>>, "exec") : rs \in {<<>>} \cup {<<Struct(r), Struct(q)>> : r, q \in MCRows}}
    \cup {[MCChain("find", <<>>, <<>>, "exec") EXCEPT !.model = "Other"], MCChain("insertMany", <<Struct(<<<<"n", MCInt(1)>>>>)>>, <<>>, "exec"), MCChain("find", <<>>, <<>>, "run")}
MCRow(i, n, s) == [id |-> IntVal(i), n |-> IntVal(n), s |-> s]
MCTable(rows) == [exists |-> TRUE, cols |-> BuildCreateTable, rows |-> rows]
MCContents == {MCTable({MCRow(1, 1, StrVal("ab")), MCRow(2, 2, Nil), MCRow(3, 1, StrVal("x"))}), MCTable({MCRow(1, 2, StrVal("ab")), MCRow(2, 2, StrVal("x"))}),
               [exists |-> FALSE, cols |-> <<>>, rows |-> {}], [exists |-> TRUE, cols |-> SubSeq(BuildCreateTable, 1, 2), rows |-> {[id |-> IntVal(1), n |-> IntVal(1)]}]}

\* HeapValues
MCTypes == {StrT, ArrayT(StrT), StructT(<<IntT, StrT, ArrayT(StrT)>>), ArrayT(StructT(<<StrT>>)), MapT(StrT, StrT), ArrayT(ArrayT(IntT)),
            MapT(StrT, StructT(<<IntT>>)), OptionalT(ArrayT(IntT))}

VARIABLE part  \* the component this behaviour is about; the others rest in an initial state

mcvars == <<part, mx, ty, ll, mo, sv, bw, dp, mb, qb, hv, av, mv>>
Init ==
    /\ part \in {"MatchCheck", "TypeSound", "LoopLowering", "Generics", "StringOps", "BorrowCheck", "DropInsertion", "MirBuild", "QueryBuilder", "HeapValues", "ArrayMemory", "MapMemory"}
    /\ IF part = "MatchCheck" THEN MatchInit ELSE mx = MatchStart("any", <<>>)
    /\ IF part = "TypeSound" THEN TypeInit ELSE TypeInit
    /\ IF part = "LoopLowering" THEN LoopInit ELSE ll = LoopStart(<<>>, FALSE)
    /\ IF part = "Generics" THEN GenericsInit ELSE mo = GenericsStart(<<>>)
    /\ IF part = "StringOps" THEN StringInit ELSE sv = StringStart(<<>>, FALSE)
    /\ IF part = "BorrowCheck" THEN BorrowInit ELSE BorrowInit
    /\ IF part = "DropInsertion" THEN DropInit ELSE dp = DropStart(<<>>)
    /\ IF part = "MirBuild" THEN MirInit ELSE mb = MirStart(<<Ev("a")>>, "void", <<>>)
    /\ IF part = "QueryBuilder" THEN QueryInit ELSE qb = QueryStart([op |-> "find", model |-> ModelName, data |-> <<>>, clauses |-> <<>>, terminal |-> "toSql"], [exists |-> FALSE, cols |-> <<>>, rows |-> {}], TRUE)
    /\ IF part = "HeapValues" THEN HeapInit ELSE HeapInit
    /\ IF part = "ArrayMemory" THEN ArrayInit ELSE ArrayInit
    /\ IF part = "MapMemory" THEN MapInit ELSE mv = MapStart(<<>>)
Next ==
    \/ part = "MatchCheck" /\ MatchNext /\ UNCHANGED <<part, ty, ll, mo, sv, bw, dp, mb, qb, hv, av, mv>>
    \/ part = "TypeSound" /\ TypeNext /\ UNCHANGED <<part, mx, ll, mo, sv, bw, dp, mb, qb, hv, av, mv>>
    \/ part = "LoopLowering" /\ LoopNext /\ UNCHANGED <<part, mx, ty, mo, sv, bw, dp, mb, qb, hv, av, mv>>
    \/ part = "Generics" /\ GenericsNext /\ UNCHANGED <<part, mx, ty, ll, sv, bw, dp, mb, qb, hv, av, mv>>
    \/ part = "StringOps" /\ StringNext /\ UNCHANGED <<part, mx, ty, ll, mo, bw, dp, mb, qb, hv, av, mv>>
    \/ part = "BorrowCheck" /\ BorrowNext /\ UNCHANGED <<part, mx, ty, ll, mo, sv, dp, mb, qb, hv, av, mv>>
    \/ part = "DropInsertion" /\ DropNext /\ UNCHANGED <<part, mx, ty, ll, mo, sv, bw, mb, qb, hv, av, mv>>
    \/ part = "MirBuild" /\ MirNext /\ UNCHANGED <<part, mx, ty, ll, mo, sv, bw, dp, qb, hv, av, mv>>
    \/ part = "QueryBuilder" /\ QueryNext /\ UNCHANGED <<part, mx, ty, ll, mo, sv, bw, dp, mb, hv, av, mv>>
    \/ part = "HeapValues" /\ HeapNext /\ UNCHANGED <<part, mx, ty, ll, mo, sv, bw, dp, mb, qb, av, mv>>
    \/ part = "ArrayMemory" /\ ArrayNext /\ UNCHANGED <<part, mx, ty, ll, mo, sv, bw, dp, mb, qb, hv, mv>>
    \/ part = "MapMemory" /\ MapNext /\ UNCHANGED <<part, mx, ty, ll, mo, sv, bw, dp, mb, qb, hv, av>>
Spec == Init /\ [][Next]_mcvars
=============================================================================

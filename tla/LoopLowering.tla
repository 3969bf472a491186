---------------------------- MODULE LoopLowering ----------------------------
(***************************************************************************)
(* Loops become while loops: the lowering of statements to HIR             *)
(* (crates/doo_hir/src/lowering/{stmt,for_loops,mod}.rs), untyped and      *)
(* typed.  A range, array or map loop turns into internal variables, a     *)
(* condition, a body that first binds the loop variables, and an increment *)
(* kept apart so that continue reaches it.  The lowered program runs with  *)
(* the MIR's one variable per name and function and with integers that     *)
(* wrap; what it prints is compared with the statements read lexically.    *)
(***************************************************************************)
EXTENDS Integers, Sequences, SequencesExt, FiniteSets

CONSTANTS Programs,   \* sequences of statements, built with the operators below
          MaxInteger, \* integers are -MaxInteger - 1 .. MaxInteger
          Iterations  \* loop iterations run before a program is cut off

VARIABLES ll  \* [prog, typed, phase, hir, prints, means]

\* A variable: a name of the program, or an internal one with its loop's number.
User(x) == [kind |-> "user", base |-> x, uid |-> 0]
Internal(kind, x, uid) == [kind |-> kind, base |-> x.base, uid |-> uid]
NoName == User("")

\* Expressions, in the source and in HIR.
LoopExpr(e, n, x, args) == [e |-> e, n |-> n, x |-> x, args |-> args]
Num(n) == LoopExpr("num", n, NoName, <<>>)
Get(x) == LoopExpr("var", 0, x, <<>>)
Plus(a, b) == LoopExpr("plus", 0, NoName, <<a, b>>)
Minus(a, b) == LoopExpr("minus", 0, NoName, <<a, b>>)
Less(a, b) == LoopExpr("less", 0, NoName, <<a, b>>)
LessEq(a, b) == LoopExpr("lesseq", 0, NoName, <<a, b>>)
ListOf(args) == LoopExpr("array", 0, NoName, args)
MapOf(args) == LoopExpr("map", 0, NoName, args)      \* key, value, key, value ...
PairUp(args) == LoopExpr("tuple", 0, NoName, args)
LenOf(a) == LoopExpr("len", 0, NoName, <<a>>)
KeysOf(a) == LoopExpr("keys", 0, NoName, <<a>>)
IndexOf(a, i) == LoopExpr("index", 0, NoName, <<a, i>>)

\* Statements of the source; a pattern is a sequence of one or two variables.
Stmt(s) == [s |-> s, vars |-> <<>>, e |-> Num(0), to |-> Num(0), inclusive |-> FALSE, op |-> "", yes |-> <<>>, no |-> <<>>]
LetStmt(x, e) == [Stmt("let") EXCEPT !.vars = <<x>>, !.e = e]
LetTuple(xs, e) == [Stmt("lettuple") EXCEPT !.vars = xs, !.e = e]
SetStmt(x, e) == [Stmt("assign") EXCEPT !.vars = <<x>>, !.e = e]
CompoundStmt(x, op, e) == [Stmt("compound") EXCEPT !.vars = <<x>>, !.op = op, !.e = e]
IncDecStmt(x, op) == [Stmt("incdec") EXCEPT !.vars = <<x>>, !.op = op]
PrintStmt(e) == [Stmt("print") EXCEPT !.e = e]
JumpStmt(how) == Stmt(how)                          \* "break", "continue", "return"
IfStmt(c, yes, no) == [Stmt("if") EXCEPT !.e = c, !.yes = yes, !.no = no]
BlockStmt(ss) == [Stmt("block") EXCEPT !.yes = ss]
ForEver(body) == [Stmt("forever") EXCEPT !.yes = body]
ForRange(x, from, to, inclusive, body) == [Stmt("range") EXCEPT !.vars = <<x>>, !.e = from, !.to = to, !.inclusive = inclusive, !.yes = body]
ForIn(xs, e, body) == [Stmt("for") EXCEPT !.vars = xs, !.e = e, !.yes = body]

\* What HIR adds: a while loop with its increment (in "no").
WhileStmt(c, body, incr) == [Stmt("while") EXCEPT !.e = c, !.yes = body, !.no = incr]

-----------------------------------------------------------------------------
\* The lowering: [typed, uid, types], threaded through the statements.
LowerNew(typed) == [typed |-> typed, uid |-> 0, types |-> [x \in {} |-> ""]]
UniqueSuffix(l) == [l EXCEPT !.uid = @ + 1]
To(l, hir) == [low |-> l, hir |-> hir]
PatternToName(p) == IF Len(p) = 1 THEN p[1] ELSE User("__tuple")

\* The type lowering knows for an expression; "" when it knows none.  It has
\* one table of variables, whatever their scope.
TypeKnown(l, e) ==
    CASE ~l.typed -> ""
      [] e.e = "var" -> IF e.x \in DOMAIN l.types THEN l.types[e.x] ELSE ""
      [] e.e \in {"array", "map", "tuple"} -> e.e
      [] OTHER -> "int"
Remember(l, x, t) == IF t = "" THEN l ELSE [l EXCEPT !.types = [y \in DOMAIN @ \cup {x} |-> IF y = x THEN t ELSE @[y]]]

\* let, let (a, b) = ..., x = ..., x += ..., x++.
LowerLet(l, s) == To(l, <<LetStmt(s.vars[1], s.e)>>)
LowerLetTyped(l, s) == To(Remember(l, s.vars[1], TypeKnown(l, s.e)), <<LetStmt(s.vars[1], s.e)>>)
LowerTupleLet(l, s) ==
    LET known == IF s.e.e = "tuple" THEN {i \in DOMAIN s.vars : i <= Len(s.e.args)} ELSE {}
        RECURSIVE Each(_, _)
        Each(k, i) == IF i > Len(s.vars) THEN k ELSE Each(IF i \in known THEN Remember(k, s.vars[i], TypeKnown(l, s.e.args[i])) ELSE k, i + 1)
    IN  To(Each(l, 1), <<LetTuple(s.vars, s.e)>>)
CompoundOp(op, a, b) == IF op = "+" THEN Plus(a, b) ELSE Minus(a, b)
LowerAssign(l, s) == To(l, <<SetStmt(s.vars[1], s.e)>>)
LowerCompoundAssign(l, s) == To(l, <<SetStmt(s.vars[1], CompoundOp(s.op, Get(s.vars[1]), s.e))>>)
LowerIncDec(l, s) == To(l, <<SetStmt(s.vars[1], CompoundOp(s.op, Get(s.vars[1]), Num(1)))>>)

RECURSIVE LowerStmts(_, _), SubstituteLocalInStmts(_, _, _), SubstituteLocalInExpr(_, _, _)

LowerIf(l, s) ==
    LET yes == LowerStmts(l, s.yes)  no == LowerStmts(yes.low, s.no)
    IN  To(no.low, <<IfStmt(s.e, yes.hir, no.hir)>>)
LowerBlock(l, s) == LET b == LowerStmts(l, s.yes) IN To(b.low, <<BlockStmt(b.hir)>>)

\* The pieces of a lowered loop.
Increment(idx) == <<SetStmt(idx, Plus(Get(idx), Num(1)))>>
RangeCondition(idx, s) == IF s.inclusive THEN LessEq(Get(idx), s.to) ELSE Less(Get(idx), s.to)
IndexName(p) == IF Len(p) = 2 THEN <<p[1]>> ELSE <<>>
ElemName(p) == IF Len(p) = 2 THEN p[2] ELSE PatternToName(p)
KeyName(p) == IF Len(p) = 2 THEN p[1] ELSE PatternToName(p)
ValueName(p) == IF Len(p) = 2 THEN <<p[2]>> ELSE <<>>

\* for x in a .. b
LowerRangeForLoop(l, s) ==
    LET x == PatternToName(s.vars)
        idx == Internal("idx", x, 0)
        body == LowerStmts(l, s.yes)
    IN  To(body.low, <<BlockStmt(<<LetStmt(idx, s.e), WhileStmt(RangeCondition(idx, s), <<LetStmt(x, Get(idx))>> \o body.hir, Increment(idx))>>)>>)
LowerRangeIncrementInBody(l, s) ==
    LET x == PatternToName(s.vars)
        idx == Internal("idx", x, 0)
        body == LowerStmts(l, s.yes)
    IN  To(body.low, <<BlockStmt(<<LetStmt(idx, s.e), WhileStmt(RangeCondition(idx, s), <<LetStmt(x, Get(idx))>> \o body.hir \o Increment(idx), <<>>)>>)>>)
LowerRangeForLoopTyped(l, s) ==
    LET x == PatternToName(s.vars)
        idx == Internal("idx", x, 0)
        body == LowerStmts(l, s.yes)
    IN  To(body.low, <<BlockStmt(<<LetStmt(idx, s.e), WhileStmt(RangeCondition(idx, s), <<LetStmt(x, Get(idx))>> \o body.hir, Increment(idx))>>)>>)

\* for x in array, for i, x in array: the index is bound before the element.
ArrayLoopBody(p, body) ==
    LET x == ElemName(p)  idx == Internal("idx", x, 0)
    IN  [i \in DOMAIN IndexName(p) |-> LetStmt(IndexName(p)[i], Get(idx))]
        \o <<LetStmt(x, IndexOf(Get(Internal("arr", x, 0)), Get(idx)))>> \o body
ArrayLoop(p, array, body) ==
    LET x == ElemName(p)  idx == Internal("idx", x, 0)  arr == Internal("arr", x, 0)  length == Internal("len", x, 0)
    IN  <<BlockStmt(<<LetStmt(arr, array), LetStmt(length, LenOf(Get(arr))), LetStmt(idx, Num(0)),
                      WhileStmt(Less(Get(idx), Get(length)), ArrayLoopBody(p, body), Increment(idx))>>)>>
LowerArrayForLoop(l, s) == LET body == LowerStmts(l, s.yes) IN To(body.low, ArrayLoop(s.vars, s.e, body.hir))
LowerArrayForLoopTyped(l, s) == LET body == LowerStmts(l, s.yes) IN To(body.low, ArrayLoop(s.vars, s.e, body.hir))

\* for k in map, for k, v in map, over the list of its keys.
MapLoopBody(key, value, map, keys, idx, body) ==
    <<LetStmt(key, IndexOf(Get(keys), Get(idx)))>>
    \o [i \in DOMAIN value |-> LetStmt(value[i], IndexOf(Get(map), Get(key)))] \o body
MapLoop(p, uid, e, key, value, body) ==
    LET k == KeyName(p)
        map == Internal("map", k, uid)  keys == Internal("keys", k, uid)  idx == Internal("mapidx", k, uid)
    IN  <<BlockStmt(<<LetStmt(map, e), LetStmt(keys, KeysOf(Get(map))), LetStmt(idx, Num(0)),
                      WhileStmt(Less(Get(idx), LenOf(Get(keys))), MapLoopBody(key, value, map, keys, idx, body), Increment(idx))>>)>>
LowerMapForLoop(l, s) ==
    LET body == LowerStmts(UniqueSuffix(l), s.yes)
    IN  To(body.low, MapLoop(s.vars, l.uid, s.e, KeyName(s.vars), ValueName(s.vars), body.hir))

\* Typed, the loop variables get names of their own, put into the lowered body.
KeyVar(l, p) == Internal("key", KeyName(p), l.uid)
ValueVar(l, p) == [i \in DOMAIN ValueName(p) |-> Internal("value", ValueName(p)[i], l.uid)]
Renamed(l, p, body) ==
    LET keyed == SubstituteLocalInStmts(body, KeyName(p), KeyVar(l, p))
    IN  IF Len(p) = 2 THEN SubstituteLocalInStmts(keyed, p[2], ValueVar(l, p)[1]) ELSE keyed
LowerMapForLoopTyped(l, s) ==
    LET body == LowerStmts(UniqueSuffix(l), s.yes)
    IN  To(body.low, MapLoop(s.vars, l.uid, s.e, KeyVar(l, s.vars), ValueVar(l, s.vars), Renamed(l, s.vars, body.hir)))
LowerMapForLoopTypedWithLowered(l, s, lowered) ==
    LET body == LowerStmts(UniqueSuffix(l), s.yes)
    IN  To(body.low, MapLoop(s.vars, l.uid, lowered, KeyVar(l, s.vars), ValueVar(l, s.vars), Renamed(l, s.vars, body.hir)))

\* Uses of a variable are renamed, declarations of one are not.
SubstituteLocalInExpr(e, old, new) ==
    [e EXCEPT !.x = IF e.e = "var" /\ e.x = old THEN new ELSE @,
              !.args = [i \in DOMAIN e.args |-> SubstituteLocalInExpr(e.args[i], old, new)]]
SubstituteLocalInStmt(s, old, new) ==
    [s EXCEPT !.e = SubstituteLocalInExpr(s.e, old, new),
              !.vars = IF s.s = "assign" /\ s.vars[1] = old THEN <<new>> ELSE @,
              !.yes = SubstituteLocalInStmts(s.yes, old, new), !.no = SubstituteLocalInStmts(s.no, old, new)]
SubstituteLocalInStmts(ss, old, new) == [i \in DOMAIN ss |-> SubstituteLocalInStmt(ss[i], old, new)]

LowerForLoop(l, s) ==
    CASE s.s = "forever" -> LET b == LowerStmts(l, s.yes) IN To(b.low, <<WhileStmt(Num(1), b.hir, <<>>)>>)
      [] s.s = "range" -> LowerRangeForLoop(l, s)
      [] s.s = "for" /\ s.e.e = "map" -> LowerMapForLoop(l, s)
      [] OTHER -> LowerArrayForLoop(l, s)
LowerForLoopTyped(l, s) ==
    CASE s.s = "forever" -> LET b == LowerStmts(l, s.yes) IN To(b.low, <<WhileStmt(Num(1), b.hir, <<>>)>>)
      [] s.s = "range" -> LowerRangeForLoopTyped(l, s)
      [] s.s = "for" /\ s.e.e = "map" -> LowerMapForLoopTyped(l, s)
      [] s.s = "for" /\ s.e.e # "map" /\ TypeKnown(l, s.e) = "map" -> LowerMapForLoopTypedWithLowered(l, s, s.e)
      [] OTHER -> LowerArrayForLoopTyped(l, s)

LowerStmt(l, s) ==
    CASE s.s = "let" -> LowerLet(l, s)
      [] s.s = "lettuple" -> To(l, <<s>>)
      [] s.s = "assign" -> LowerAssign(l, s)
      [] s.s = "compound" -> LowerCompoundAssign(l, s)
      [] s.s = "incdec" -> LowerIncDec(l, s)
      [] s.s = "if" -> LowerIf(l, s)
      [] s.s = "block" -> LowerBlock(l, s)
      [] s.s \in {"forever", "range", "for"} -> LowerForLoop(l, s)
      [] OTHER -> To(l, <<s>>)                      \* print and jumps
LowerStmtTyped(l, s) ==
    CASE s.s = "let" -> LowerLetTyped(l, s)
      [] s.s = "lettuple" -> LowerTupleLet(l, s)
      [] s.s = "assign" -> LowerAssign(l, s)
      [] s.s = "compound" -> LowerCompoundAssign(l, s)
      [] s.s = "incdec" -> LowerIncDec(l, s)
      [] s.s = "if" -> LowerIf(l, s)
      [] s.s = "block" -> LowerBlock(l, s)
      [] s.s \in {"forever", "range", "for"} -> LowerForLoopTyped(l, s)
      [] OTHER -> To(l, <<s>>)
LowerStmts(l, ss) ==
    IF ss = <<>> THEN To(l, <<>>)
    ELSE LET one == IF l.typed THEN LowerStmtTyped(l, Head(ss)) ELSE LowerStmt(l, Head(ss))
             rest == LowerStmts(one.low, Tail(ss))
         IN  To(rest.low, one.hir \o rest.hir)

-----------------------------------------------------------------------------
\* Values, and expressions under a reading of variables.
IntOf(n) == [t |-> "int", n |-> n, items |-> <<>>]
ListValue(items) == [t |-> "array", n |-> 0, items |-> items]
Wrapped(n) == ((n + MaxInteger + 1) % (2 * MaxInteger + 2)) - MaxInteger - 1
TruthOf(b) == IntOf(IF b THEN 1 ELSE 0)
KeysIn(m) == [i \in 1..(Len(m.items) \div 2) |-> m.items[2 * i - 1]]
ValuesIn(m) == [i \in 1..(Len(m.items) \div 2) |-> m.items[2 * i]]
At(v, i) ==
    CASE v.t = "array" /\ i.n \in 0..(Len(v.items) - 1) -> v.items[i.n + 1]
      [] v.t = "map" /\ Contains(KeysIn(v), i) -> ValuesIn(v)[CHOOSE j \in DOMAIN KeysIn(v) : KeysIn(v)[j] = i]
      [] OTHER -> IntOf(0)

\* env maps variables to values; a variable never stored reads as zero.
RECURSIVE EvalExpr(_, _)
EvalExpr(env, e) ==
    LET arg == [i \in DOMAIN e.args |-> EvalExpr(env, e.args[i])]
    IN  CASE e.e = "num" -> IntOf(e.n)
          [] e.e = "var" -> IF e.x \in DOMAIN env THEN env[e.x] ELSE IntOf(0)
          [] e.e = "plus" -> IntOf(Wrapped(arg[1].n + arg[2].n))
          [] e.e = "minus" -> IntOf(Wrapped(arg[1].n - arg[2].n))
          [] e.e = "less" -> TruthOf(arg[1].n < arg[2].n)
          [] e.e = "lesseq" -> TruthOf(arg[1].n <= arg[2].n)
          [] e.e = "len" -> IntOf(Len(arg[1].items))
          [] e.e = "keys" -> ListValue(KeysIn(arg[1]))
          [] e.e = "index" -> At(arg[1], arg[2])
          [] OTHER -> [t |-> e.e, n |-> 0, items |-> arg]

\* A run: [env, prints, how, fuel].  One variable per name (MIR's locals).
Ran(env) == [env |-> env, prints |-> <<>>, how |-> "next", fuel |-> Iterations]
Bind(env, x, v) == [y \in DOMAIN env \cup {x} |-> IF y = x THEN v ELSE env[y]]
BindAll(env, xs, vs) == [y \in DOMAIN env \cup Range(xs) |-> IF y \in Range(xs) THEN vs[CHOOSE i \in DOMAIN xs : xs[i] = y] ELSE env[y]]
Resumed(r) == IF r.how \in {"break", "continue"} THEN [r EXCEPT !.how = "next"] ELSE r

RECURSIVE RunHir(_, _), RunWhile(_, _)
RunWhile(s, r) ==
    IF EvalExpr(r.env, s.e).n = 0 THEN r
    ELSE IF r.fuel = 0 THEN [r EXCEPT !.how = "cut"]
    ELSE LET b == RunHir(s.yes, [r EXCEPT !.fuel = @ - 1])
         IN  CASE b.how = "break" -> Resumed(b)
               [] b.how \in {"return", "cut"} -> b
               [] OTHER -> RunWhile(s, RunHir(s.no, Resumed(b)))
RunHirStmt(s, r) ==
    CASE s.s \in {"let", "assign"} -> [r EXCEPT !.env = Bind(r.env, s.vars[1], EvalExpr(r.env, s.e))]
      [] s.s = "lettuple" -> [r EXCEPT !.env = BindAll(r.env, s.vars, EvalExpr(r.env, s.e).items)]
      [] s.s = "print" -> [r EXCEPT !.prints = Append(@, EvalExpr(r.env, s.e))]
      [] s.s = "if" -> RunHir(IF EvalExpr(r.env, s.e).n # 0 THEN s.yes ELSE s.no, r)
      [] s.s = "block" -> RunHir(s.yes, r)
      [] s.s = "while" -> RunWhile(s, r)
      [] OTHER -> [r EXCEPT !.how = s.s]
RunHir(ss, r) == IF ss = <<>> \/ r.how # "next" THEN r ELSE RunHir(Tail(ss), RunHirStmt(Head(ss), r))

-----------------------------------------------------------------------------
\* The statements as they read: env is a sequence of scopes, the innermost last.
Visible(scopes, x) == {i \in DOMAIN scopes : x \in DOMAIN scopes[i]}
Innermost(scopes, x) == CHOOSE i \in Visible(scopes, x) : \A j \in Visible(scopes, x) : j <= i
Seen(scopes) == LET names == UNION {DOMAIN scopes[i] : i \in DOMAIN scopes} IN [x \in names |-> scopes[Innermost(scopes, x)][x]]
Empty == [x \in {} |-> IntOf(0)]
Declare(scopes, xs, vs) == [scopes EXCEPT ![Len(scopes)] = BindAll(@, xs, vs)]
StoreVar(scopes, x, v) == LET i == Innermost(scopes, x) IN [scopes EXCEPT ![i] = Bind(@, x, v)]

RECURSIVE Means(_, _), MeansEach(_, _, _), MeansRange(_, _, _), MeansForever(_, _)
Reads(r, e) == EvalExpr(Seen(r.env), e)
LoopScope(ss, xs, vs, r) ==
    LET b == Means(ss, [r EXCEPT !.env = Append(@, BindAll(Empty, xs, vs))]) IN [b EXCEPT !.env = SubSeq(@, 1, Len(r.env))]
Iterate(ss, xs, vs, r) == LoopScope(ss, xs, vs, [r EXCEPT !.fuel = @ - 1])
Ends(b) == b.how \in {"break", "return", "cut"}
MeansEach(s, rows, r) ==
    IF rows = <<>> THEN r
    ELSE IF r.fuel = 0 THEN [r EXCEPT !.how = "cut"]
    ELSE LET b == Iterate(s.yes, s.vars, Head(rows), r) IN IF Ends(b) THEN Resumed(b) ELSE MeansEach(s, Tail(rows), Resumed(b))
MeansRange(s, i, r) ==
    IF IF s.inclusive THEN i > Reads(r, s.to).n ELSE i >= Reads(r, s.to).n THEN r
    ELSE IF r.fuel = 0 THEN [r EXCEPT !.how = "cut"]
    ELSE LET b == Iterate(s.yes, s.vars, <<IntOf(i)>>, r) IN IF Ends(b) THEN Resumed(b) ELSE MeansRange(s, i + 1, Resumed(b))
MeansForever(s, r) ==
    IF r.fuel = 0 THEN [r EXCEPT !.how = "cut"]
    ELSE LET b == Iterate(s.yes, <<>>, <<>>, r) IN IF Ends(b) THEN Resumed(b) ELSE MeansForever(s, Resumed(b))
RowsOf(p, v) ==
    LET firsts == IF v.t = "map" THEN KeysIn(v) ELSE [i \in DOMAIN v.items |-> IntOf(i - 1)]
        seconds == IF v.t = "map" THEN ValuesIn(v) ELSE v.items
    IN  [i \in DOMAIN firsts |-> IF Len(p) = 2 THEN <<firsts[i], seconds[i]>> ELSE IF v.t = "map" THEN <<firsts[i]>> ELSE <<seconds[i]>>]
MeansStmt(s, r) ==
    CASE s.s = "let" -> [r EXCEPT !.env = Declare(r.env, s.vars, <<Reads(r, s.e)>>)]
      [] s.s = "lettuple" -> [r EXCEPT !.env = Declare(r.env, s.vars, Reads(r, s.e).items)]
      [] s.s = "assign" -> [r EXCEPT !.env = StoreVar(r.env, s.vars[1], Reads(r, s.e))]
      [] s.s = "compound" -> [r EXCEPT !.env = StoreVar(r.env, s.vars[1], Reads(r, CompoundOp(s.op, Get(s.vars[1]), s.e)))]
      [] s.s = "incdec" -> [r EXCEPT !.env = StoreVar(r.env, s.vars[1], Reads(r, CompoundOp(s.op, Get(s.vars[1]), Num(1))))]
      [] s.s = "print" -> [r EXCEPT !.prints = Append(@, Reads(r, s.e))]
      [] s.s = "if" -> LoopScope(IF Reads(r, s.e).n # 0 THEN s.yes ELSE s.no, <<>>, <<>>, r)
      [] s.s = "block" -> LoopScope(s.yes, <<>>, <<>>, r)
      [] s.s = "forever" -> MeansForever(s, r)
      [] s.s = "range" -> MeansRange(s, Reads(r, s.e).n, r)
      [] s.s = "for" -> MeansEach(s, RowsOf(s.vars, Reads(r, s.e)), r)
      [] OTHER -> [r EXCEPT !.how = s.s]
Means(ss, r) == IF ss = <<>> \/ r.how # "next" THEN r ELSE Means(Tail(ss), MeansStmt(Head(ss), r))

-----------------------------------------------------------------------------
LoopStart(prog, typed) == [prog |-> prog, typed |-> typed, phase |-> "source", hir |-> <<>>, prints |-> <<>>, how |-> ""]
LoopInit == \E prog \in Programs, typed \in BOOLEAN : ll = LoopStart(prog, typed)
LowerFunction ==
    /\ ll.phase = "source"
    /\ ll' = [ll EXCEPT !.phase = "hir", !.hir = LowerStmts(LowerNew(ll.typed), ll.prog).hir]
RunFunction ==
    /\ ll.phase = "hir"
    /\ LET r == RunHir(ll.hir, Ran(Empty)) IN ll' = [ll EXCEPT !.phase = "ran", !.prints = r.prints, !.how = r.how]
LoopNext == LowerFunction \/ RunFunction

\* What a program must not do for the claim: declare a name while it is
\* visible, loop up to and including the largest integer, and loop over a map
\* whose type the lowering does not know.
RECURSIVE NeverShadows(_, _), MapsKnown(_, _, _)
Declared(s) == IF s.s \in {"let", "lettuple"} THEN Range(s.vars) ELSE {}
Inside(s) == IF s.s \in {"range", "for"} THEN Range(s.vars) ELSE {}
NeverShadows(ss, seen) ==
    ss = <<>> \/ LET s == Head(ss) IN
                 /\ (Declared(s) \cup Inside(s)) \cap seen = {} /\ Cardinality(Inside(s)) = IF s.s \in {"range", "for"} THEN Len(s.vars) ELSE 0
                 /\ NeverShadows(s.yes, seen \cup Inside(s)) /\ NeverShadows(s.no, seen)
                 /\ NeverShadows(Tail(ss), seen \cup Declared(s))
StaysBelow(s) == s.s = "range" /\ s.inclusive => s.to.e = "num" /\ s.to.n < MaxInteger
RECURSIVE AllStmts(_)
AllStmts(ss) == UNION {{ss[i]} \cup AllStmts(ss[i].yes) \cup AllStmts(ss[i].no) : i \in DOMAIN ss}
\* Variables bound to a map by a let, and loops over a variable bound to one some other way.
LetMaps(prog) == {s.vars[1] : s \in {q \in AllStmts(prog) : q.s = "let" /\ q.e.e = "map"}}
MapsKnown(typed, prog, s) == s.s = "for" => CASE s.e.e = "map" -> TRUE
                                              [] s.e.e = "array" -> TRUE
                                              [] OTHER -> IF s.e.x \in LetMaps(prog) THEN typed
                                                          ELSE \E q \in AllStmts(prog) : q.s = "let" /\ q.vars[1] = s.e.x /\ q.e.e = "array"
Claimed(prog, typed) == NeverShadows(prog, {}) /\ \A s \in AllStmts(prog) : StaysBelow(s) /\ MapsKnown(typed, prog, s)

\* A lowered program prints what its statements say, in the same order, and
\* ends the same way: however loops nest, whatever mixture of break, continue
\* and return leaves them, and whichever names internal variables get, for
\* every program that does not shadow a name.
LoopsAsWritten ==
    ll.phase = "ran" /\ Claimed(ll.prog, ll.typed) =>
        LET m == Means(ll.prog, Ran(<<Empty>>)) IN ll.prints = m.prints /\ ll.how = m.how
=============================================================================

------------------------------ MODULE Generics ------------------------------
(***************************************************************************)
(* Generic functions and structs become concrete ones: the typed lowering  *)
(* of expressions (crates/doo_hir/src/lowering/{expr,type_infer}.rs), the  *)
(* monomorphizer (monomorphize.rs), a work list that specialises a         *)
(* template for the argument types at each call and struct literal it      *)
(* meets, in what it has just made too, and the pass that types closures   *)
(* from the functions they are handed to.  The code generator lays out     *)
(* every value by the type written on it, so what is emitted is run with   *)
(* the types its values really have.                                       *)
(***************************************************************************)
EXTENDS Integers, Sequences, SequencesExt, FiniteSets, TLC

CONSTANTS Templates,  \* the functions of the program but main, built below
          Structs,    \* [struct -> [params, fields : Seq of <<name, type>>]]
          Firsts,     \* main: a first statement,
          Rests,      \* and what follows it
          MaxEmitted, \* specialisations made before a compilation is cut off
          CallDepth   \* nested calls run before a run is cut off

VARIABLES mo  \* [phase, body, todo, out, s] with s the Monomorphizer

\* Types; a function type lists its parameters and then its result.
GType(k, n, of) == [k |-> k, n |-> n, of |-> of]
Prim(n) == GType("prim", n, <<>>)
Param(n) == GType("param", n, <<>>)
StructType(n) == GType("struct", n, <<>>)
ArrayType(t) == GType("array", "", <<t>>)
MapType(k, v) == GType("map", "", <<k, v>>)
TupleType(ts) == GType("tuple", "", ts)
OptionType(t) == GType("optional", "", <<t>>)
FunType(ps, r) == GType("fn", "", Append(ps, r))
AnyType == Prim("Any")
Untyped == GType("none", "", <<>>)

\* Expressions and statements, of the source (Untyped) and of HIR: ns are the
\* fields of a struct literal or the parameters of a closure, with types pts.
GExpr(k, n, ns, es) == [k |-> k, n |-> n, ns |-> ns, pts |-> <<>>, es |-> es, ty |-> Untyped]
LiteralOf(n) == GExpr("const", n, <<>>, <<>>)
Name(n) == GExpr("local", n, <<>>, <<>>)
CallOf(f, args) == GExpr("call", f, <<>>, args)
ArrayLit(es) == GExpr("array", "", <<>>, es)
MapLit(k, v) == GExpr("map", "", <<>>, <<k, v>>)
TupleLit(es) == GExpr("tuple", "", <<>>, es)
StructLit(n, fs, es) == GExpr("struct", n, fs, es)
DotOf(e, f) == GExpr("field", f, <<>>, <<e>>)
IndexInto(e) == GExpr("index", "", <<>>, <<e>>)
MethodOf(e, m, args) == GExpr("method", m, <<>>, <<e>> \o args)
ClosureOf(x, body) == [GExpr("closure", "", <<x>>, <<body>>) EXCEPT !.pts = <<Untyped>>]

GStmt(k, ns, e, yes) == [k |-> k, ns |-> ns, tys |-> SubSeq(<<Untyped, Untyped>>, 1, Len(ns)), e |-> e, yes |-> yes]
LetIs(x, e) == GStmt("let", <<x>>, e, <<>>)
LetAll(xs, e) == GStmt("tuplelet", xs, e, <<>>)
Do(e) == GStmt("expr", <<>>, e, <<>>)
Give(e) == GStmt("return", <<>>, e, <<>>)
WhenTrue(e, yes) == GStmt("if", <<>>, e, yes)

GFunc(n, tps, ps, ts, ret, body) == [n |-> n, tps |-> tps, ps |-> ps, ts |-> ts, ret |-> ret, body |-> body]

-----------------------------------------------------------------------------
\* Typed lowering: vt are the types of the variables, flat for a function.
SetType(vt, x, t) == IF t = Untyped THEN vt ELSE (x :> t) @@ vt
TypeIn(vt, x) == IF x \in DOMAIN vt THEN vt[x] ELSE Untyped
OrAny(t) == IF t = Untyped THEN AnyType ELSE t
CommonType(ts) == IF ts # <<>> /\ \A t \in Range(ts) : t = ts[1] THEN OrAny(ts[1]) ELSE AnyType
TypesOf(es) == [i \in DOMAIN es |-> es[i].ty]
FieldType(defs, t, f) ==
    LET found == IF t.k = "struct" /\ t.n \in DOMAIN defs THEN SelectSeq(defs[t.n].fields, LAMBDA d : d[1] = f) ELSE <<>>
    IN  IF found = <<>> THEN Untyped ELSE found[1][2]

\* infer_closure_body_type.
RECURSIVE ClosureBodyType(_, _)
ClosureBodyType(e, locals) ==
    CASE e.ty # Untyped -> e.ty
      [] e.k = "local" -> OrAny(TypeIn(locals, e.n))
      [] e.k = "index" -> LET o == ClosureBodyType(e.es[1], locals)
                          IN  IF o.k \in {"array", "map"} THEN o.of[Len(o.of)] ELSE AnyType
      [] OTHER -> AnyType

\* apply_closure_signature: parameters without a type take the expected one.
ExpectedParams(pts, params) == [i \in DOMAIN pts |-> IF pts[i] = Untyped /\ i \in DOMAIN params THEN params[i] ELSE pts[i]]
ClosureLocals(ns, pts) == [x \in {ns[i] : i \in {j \in DOMAIN pts : pts[j] # Untyped}} |-> pts[CHOOSE i \in DOMAIN pts : ns[i] = x]]
ResultType(body, returns, locals) ==
    IF body.ty \notin {Untyped, AnyType} THEN body.ty ELSE IF returns # Untyped THEN returns ELSE ClosureBodyType(body, locals)
WithSignature(e, pts, ret) ==
    [e EXCEPT !.pts = pts, !.es[1].ty = ret, !.ty = FunType([i \in DOMAIN pts |-> OrAny(pts[i])], ret)]
TypedBy(e, pts, returns) == WithSignature(e, pts, ResultType(e.es[1], returns, ClosureLocals(e.ns, pts)))
ApplySignature(e, params, returns) == IF e.k # "closure" THEN e ELSE TypedBy(e, ExpectedParams(e.pts, params), returns)
SignatureResult(e) == IF e.ty.k = "fn" THEN Last(e.ty.of) ELSE Untyped

\* infer_array_method_type and infer_map_method_type: the method's type, and
\* its closure typed by the element.
Mapping(e, c) == [e EXCEPT !.ty = ArrayType(OrAny(SignatureResult(c))), !.es[2] = c]
Reducing(e, from, c) == [e EXCEPT !.ty = IF from # AnyType THEN from ELSE OrAny(SignatureResult(c)), !.es[3] = c]
ArrayMethod(e, elem) ==
    CASE e.n \in {"len", "indexOf"} -> [e EXCEPT !.ty = Prim("Int")]
      [] e.n \in {"isEmpty", "contains"} -> [e EXCEPT !.ty = Prim("Bool")]
      [] e.n = "join" -> [e EXCEPT !.ty = Prim("Str")]
      [] e.n \in {"first", "last", "pop"} -> [e EXCEPT !.ty = elem]
      [] e.n = "slice" -> [e EXCEPT !.ty = ArrayType(elem)]
      [] e.n \in {"push", "clear", "sort", "reverse"} -> [e EXCEPT !.ty = Prim("Void")]
      [] e.n = "map" -> Mapping(e, ApplySignature(e.es[2], <<elem>>, Untyped))
      [] e.n = "filter" -> [e EXCEPT !.ty = ArrayType(elem), !.es[2] = ApplySignature(@, <<elem>>, Prim("Bool"))]
      [] e.n = "reduce" -> LET from == OrAny(e.es[2].ty) IN Reducing(e, from, ApplySignature(e.es[3], <<from, elem>>, from))
      [] OTHER -> e
MapMethod(e, key, value) ==
    CASE e.n = "keys" -> [e EXCEPT !.ty = ArrayType(key)]
      [] e.n = "values" -> [e EXCEPT !.ty = ArrayType(value)]
      [] e.n \in {"has", "isEmpty"} -> [e EXCEPT !.ty = Prim("Bool")]
      [] e.n = "len" -> [e EXCEPT !.ty = Prim("Int")]
      [] e.n \in {"clear", "remove"} -> [e EXCEPT !.ty = Prim("Void")]
      [] OTHER -> e
MethodType(e) ==
    LET of == e.es[1].ty
    IN  CASE of.k = "array" -> ArrayMethod(e, of.of[1])
          [] of.k = "map" -> MapMethod(e, of.of[1], of.of[2])
          [] OTHER -> e

\* The node l, whose parts are lowered, with its type.
TypedNode(l, ts, vt) ==
    CASE l.k = "const" -> [l EXCEPT !.ty = Prim(l.n)]
      [] l.k = "local" -> [l EXCEPT !.ty = TypeIn(vt, l.n)]
      [] l.k = "array" -> [l EXCEPT !.ty = ArrayType(CommonType(ts))]
      [] l.k = "map" -> [l EXCEPT !.ty = MapType(OrAny(ts[1]), OrAny(ts[2]))]
      [] l.k = "tuple" -> [l EXCEPT !.ty = TupleType([i \in DOMAIN ts |-> OrAny(ts[i])])]
      [] l.k = "struct" -> [l EXCEPT !.ty = StructType(l.n)]
      [] l.k = "closure" -> [l EXCEPT !.ty = FunType([i \in DOMAIN l.pts |-> OrAny(l.pts[i])], OrAny(ts[1]))]
      [] l.k = "field" -> [l EXCEPT !.ty = FieldType(Structs, ts[1], l.n)]
      [] l.k = "method" -> MethodType(l)
      [] OTHER -> l                                        \* calls and indexing stay untyped
WithParts(e, es, vt) == TypedNode([e EXCEPT !.es = es], TypesOf(es), vt)
RECURSIVE LowerExprTyped(_, _)
LowerExprTyped(e, vt) == WithParts(e, [i \in DOMAIN e.es |-> LowerExprTyped(e.es[i], vt)], vt)

TupleTypes(t, n) == [i \in 1 .. n |-> IF t.k = "tuple" /\ i \in DOMAIN t.of THEN t.of[i] ELSE Untyped]
SetTypes(vt, xs, ts) == FoldLeft(LAMBDA acc, i : SetType(acc, xs[i], ts[i]), vt, [i \in DOMAIN xs |-> i])
RECURSIVE LowerStmtsTyped(_, _)
\* The statement st, whose expression is lowered to e, and those after it.
TypedStmt(st, e, after, vt) ==
    LET tys == IF st.k = "let" THEN <<e.ty>> ELSE TupleTypes(e.ty, Len(st.ns))
        yes == LowerStmtsTyped(st.yes, SetTypes(vt, st.ns, tys))
        rest == LowerStmtsTyped(after, yes.vt)
    IN  [rest EXCEPT !.ss = <<[st EXCEPT !.e = e, !.tys = tys, !.yes = yes.ss]>> \o @]
\* [ss, vt]: a block's variables stay in vt after the block.
LowerStmtsTyped(ss, vt) ==
    IF ss = <<>> THEN [ss |-> <<>>, vt |-> vt]
    ELSE TypedStmt(Head(ss), LowerExprTyped(Head(ss).e, vt), Tail(ss), vt)
LowerFunctionTyped(f) == [f EXCEPT !.body = LowerStmtsTyped(f.body, SetTypes(<<>>, f.ps, f.ts)).ss]

-----------------------------------------------------------------------------
\* The type substituted for the parameters a map names; a parameter is known by
\* its name alone, whichever declaration it belongs to.
RECURSIVE SubstituteTypeId(_, _)
SubstituteTypeId(t, m) ==
    IF t.k = "param" /\ t.n \in DOMAIN m THEN m[t.n]
    ELSE [t EXCEPT !.of = [i \in DOMAIN @ |-> SubstituteTypeId(@[i], m)]]
SubstituteAll(ts, m) == [i \in DOMAIN ts |-> SubstituteTypeId(ts[i], m)]
BuildTypeMap(tps, concrete) == [p \in Range(tps) |-> concrete[CHOOSE i \in DOMAIN tps : tps[i] = p]]

RECURSIVE UnifyTypeParam(_, _, _)
UnifyTypeParam(decl, actual, found) ==
    CASE decl.k = "param" -> IF actual.k = "param" \/ actual = AnyType THEN found ELSE (decl.n :> actual) @@ found
      [] decl.k = actual.k /\ decl.k \in {"array", "map", "tuple", "optional", "result"} /\ Len(decl.of) = Len(actual.of) ->
            FoldLeft(LAMBDA acc, i : UnifyTypeParam(decl.of[i], actual.of[i], acc), found, [i \in DOMAIN decl.of |-> i])
      [] OTHER -> found
\* The concrete types of parameters tps, from declared types and those of the
\* values given for them; what stays open is Any.
InferTypes(tps, decls, actuals) ==
    LET both == SelectSeq([i \in DOMAIN decls |-> i], LAMBDA i : i \in DOMAIN actuals /\ actuals[i] # Untyped)
        found == FoldLeft(LAMBDA acc, i : UnifyTypeParam(decls[i], actuals[i], acc), <<>>, both)
    IN  [i \in DOMAIN tps |-> IF tps[i] \in DOMAIN found THEN found[tps[i]] ELSE AnyType]
InferTypesFromArgs(f, args) == InferTypes(f.tps, f.ts, TypesOf(args))
InferTypesFromStructFields(d, e) ==
    LET known == SelectSeq([i \in DOMAIN e.ns |-> i], LAMBDA i : \E c \in DOMAIN d.fields : d.fields[c][1] = e.ns[i])
        decl(n) == d.fields[CHOOSE c \in DOMAIN d.fields : d.fields[c][1] = n][2]
    IN  InferTypes(d.params, [i \in DOMAIN known |-> decl(e.ns[known[i]])], [i \in DOMAIN known |-> e.es[known[i]].ty])

\* The name of a specialisation: the template's and those of its types.
RECURSIVE DisplayName(_), Joined(_)
Joined(ts) == IF ts = <<>> THEN "" ELSE DisplayName(Head(ts)) \o (IF Len(ts) = 1 THEN "" ELSE "_") \o Joined(Tail(ts))
DisplayName(t) == CASE t.k \in {"prim", "struct"} -> t.n
                    [] t.k = "param" -> "__typeparam_" \o t.n
                    [] t.k = "array" -> "[" \o DisplayName(t.of[1]) \o "]"
                    [] OTHER -> t.k \o "(" \o Joined(t.of) \o ")"
Mangled(n, ts) == n \o "__" \o Joined(ts)

\* substitute_expr, substitute_stmts: every type of a body, but a closure's parameters.
RECURSIVE SubstituteExpr(_, _), SubstituteStmts(_, _)
SubstituteExpr(e, m) == [e EXCEPT !.ty = SubstituteTypeId(@, m), !.es = [i \in DOMAIN @ |-> SubstituteExpr(@[i], m)]]
SubstituteStmts(ss, m) ==
    [i \in DOMAIN ss |-> [ss[i] EXCEPT !.e = SubstituteExpr(@, m), !.tys = SubstituteAll(@, m), !.yes = SubstituteStmts(@, m)]]

-----------------------------------------------------------------------------
\* The templates, which leave the program; and the Monomorphizer: what is
\* specialised already, what was made and is not yet processed, the structs of the
\* registry, and the types of the variables of the function at hand.
GenericFunctions ==
    LET generic == {i \in DOMAIN Templates : Templates[i].tps # <<>>}
    IN  [n \in {Templates[i].n : i \in generic} |-> LowerFunctionTyped(Templates[CHOOSE i \in generic : Templates[i].n = n])]
NewMonomorphizer == [templates |-> <<>>, specs |-> <<>>, made |-> <<>>, sspecs |-> <<>>, defs |-> Structs, newStructs |-> <<>>, binds |-> <<>>]

AlreadyMade(table, n, ts) == <<n, ts>> \in DOMAIN table
Specialized(f, ts) ==
    LET m == BuildTypeMap(f.tps, ts)
    IN  [f EXCEPT !.n = Mangled(f.n, ts), !.tps = <<>>, !.ts = SubstituteAll(@, m),
                  !.ret = SubstituteTypeId(@, m), !.body = SubstituteStmts(@, m)]
GetOrCreateSpecialization(s, f, ts) ==
    IF AlreadyMade(s.specs, f.n, ts) THEN s
    ELSE [s EXCEPT !.specs = (<<f.n, ts>> :> Mangled(f.n, ts)) @@ @, !.made = Append(@, Specialized(f, ts))]
SpecializedStruct(d, ts) ==
    LET m == BuildTypeMap(d.params, ts)
    IN  [params |-> <<>>, fields |-> [i \in DOMAIN d.fields |-> <<d.fields[i][1], SubstituteTypeId(d.fields[i][2], m)>>]]
GetOrCreateStructSpecialization(s, n, ts) ==
    IF AlreadyMade(s.sspecs, n, ts) THEN s
    ELSE LET name == Mangled(n, ts)
         IN  [s EXCEPT !.sspecs = (<<n, ts>> :> name) @@ @, !.newStructs = Append(@, name),
                       !.defs = @ @@ (name :> SpecializedStruct(@[n], ts))]

\* A call of a template: the callee's name and the arguments' types are replaced.
SpecializeCall(s, e, f, ts) ==
    LET m == BuildTypeMap(f.tps, ts)
    IN  [s |-> GetOrCreateSpecialization(s, f, ts),
         e |-> [e EXCEPT !.n = Mangled(f.n, ts), !.ty = SubstituteTypeId(@, m),
                         !.es = [i \in DOMAIN e.es |-> [e.es[i] EXCEPT !.ty = SubstituteTypeId(@, m)]]]]
ProcessCall(s, e) ==
    IF e.n \notin DOMAIN s.templates THEN [s |-> s, e |-> e]
    ELSE SpecializeCall(s, e, s.templates[e.n], InferTypesFromArgs(s.templates[e.n], e.es))
SpecializeLiteral(s, e, ts) ==
    [s |-> GetOrCreateStructSpecialization(s, e.n, ts), e |-> [e EXCEPT !.n = Mangled(e.n, ts), !.ty = StructType(Mangled(e.n, ts))]]
ProcessStruct(s, e) ==
    IF e.n \notin DOMAIN Structs \/ Structs[e.n].params = <<>> THEN [s |-> s, e |-> e]
    ELSE SpecializeLiteral(s, e, InferTypesFromStructFields(Structs[e.n], e))
ProcessField(s, e) ==
    LET t == FieldType(s.defs, e.es[1].ty, e.n) IN [s |-> s, e |-> IF t = Untyped THEN e ELSE [e EXCEPT !.ty = t]]
ProcessLocal(s, e) == [s |-> s, e |-> IF e.n \in DOMAIN s.binds THEN [e EXCEPT !.ty = s.binds[e.n]] ELSE e]

\* process_expr: the parts first, then the node; [s, e].
RECURSIVE ProcessExpr(_, _), ProcessExprs(_, _)
ProcessExprs(s, es) ==
    IF es = <<>> THEN [s |-> s, es |-> <<>>]
    ELSE LET h == ProcessExpr(s, Head(es))
             t == ProcessExprs(h.s, Tail(es))
         IN  [t EXCEPT !.es = <<h.e>> \o @]
ProcessNode(s, e) ==
    CASE e.k = "call" -> ProcessCall(s, e)
      [] e.k = "struct" -> ProcessStruct(s, e)
      [] e.k = "field" -> ProcessField(s, e)
      [] e.k = "local" -> ProcessLocal(s, e)
      [] OTHER -> [s |-> s, e |-> e]
ProcessExpr(s, e) == LET r == ProcessExprs(s, e.es) IN ProcessNode(r.s, [e EXCEPT !.es = r.es])

\* The types a let or a tuple let gives its names once the value is processed.
LetTypesKept(st, e) ==
    IF st.k = "tuplelet" /\ e.ty.k = "tuple" THEN [i \in DOMAIN st.tys |-> IF i \in DOMAIN e.ty.of THEN e.ty.of[i] ELSE st.tys[i]] ELSE st.tys
LetTypes(st, e) ==
    CASE st.k = "let" -> IF e.ty \in {Untyped, AnyType} THEN st.tys ELSE <<e.ty>>
      [] st.k = "tuplelet" /\ e.ty.k = "tuple" -> [i \in DOMAIN st.tys |-> IF i \in DOMAIN e.ty.of THEN e.ty.of[i] ELSE st.tys[i]]
      [] OTHER -> st.tys
Binds(st, e) == IF st.k = "tuplelet" /\ e.ty.k # "tuple" THEN <<>> ELSE st.ns
RECURSIVE ProcessStmts(_, _)
\* The statement st, whose expression is processed to r, and those after it.
ProcessStmt(st, r, after) ==
    LET tys == LetTypes(st, r.e)
        yes == ProcessStmts([r.s EXCEPT !.binds = SetTypes(@, Binds(st, r.e), tys)], st.yes)
        rest == ProcessStmts(yes.s, after)
    IN  [rest EXCEPT !.ss = <<[st EXCEPT !.e = r.e, !.tys = tys, !.yes = yes.ss]>> \o @]
ProcessStmts(s, ss) ==
    IF ss = <<>> THEN [s |-> s, ss |-> <<>>] ELSE ProcessStmt(Head(ss), ProcessExpr(s, Head(ss).e), Tail(ss))
\* [s, ss]
ProcessFunctionBody(s, f) == ProcessStmts([s EXCEPT !.binds = SetTypes(<<>>, f.ps, f.ts)], f.body)

-----------------------------------------------------------------------------
\* infer_closure_types_in_program: a closure given to a function takes its types
\* from the parameter's.  Only arguments of known functions, and only the
\* statements named here, are looked into.
RECURSIVE InferClosuresInExpr(_, _)
InferClosuresInExpr(e, sigs) ==
    LET expected(i) == IF e.k = "call" /\ i \in DOMAIN sigs[e.n] THEN sigs[e.n][i] ELSE Untyped
        typed(i) == IF expected(i).k = "fn" THEN ApplySignature(e.es[i], Front(expected(i).of), Last(expected(i).of)) ELSE e.es[i]
    IN  IF e.k = "call" /\ e.n \notin DOMAIN sigs THEN e
        ELSE [e EXCEPT !.es = [i \in DOMAIN e.es |-> InferClosuresInExpr(typed(i), sigs)]]
InferClosuresInStmts(ss, sigs) ==
    [i \in DOMAIN ss |-> IF ss[i].k \in {"let", "expr", "return"} THEN [ss[i] EXCEPT !.e = InferClosuresInExpr(@, sigs)] ELSE ss[i]]
Signatures(fs) == [n \in {fs[i].n : i \in DOMAIN fs} |-> fs[CHOOSE i \in DOMAIN fs : fs[i].n = n].ts]
InferClosuresInProgram(fs) == [i \in DOMAIN fs |-> [fs[i] EXCEPT !.body = InferClosuresInStmts(@, Signatures(fs))]]

-----------------------------------------------------------------------------
MainOf(body) == GFunc("main", <<>>, <<>>, <<>>, Untyped, body)
GenericsStart(body) == [phase |-> "source", body |-> body, todo |-> <<>>, out |-> <<>>, s |-> NewMonomorphizer]
GenericsInit == \E first \in Firsts, rest \in Rests : mo = GenericsStart(<<first>> \o rest)
LowerProgramTyped ==
    /\ mo.phase = "source"
    /\ LET concrete == SelectSeq(Templates, LAMBDA f : f.tps = <<>>) \o <<MainOf(mo.body)>>
       IN  mo' = [mo EXCEPT !.phase = "mono", !.s.templates = GenericFunctions, !.todo = [i \in DOMAIN concrete |-> LowerFunctionTyped(concrete[i])]]
ProcessNext ==
    /\ mo.phase = "mono" /\ mo.todo # <<>>
    /\ \E r \in {ProcessFunctionBody(mo.s, Head(mo.todo))} :
          mo' = [mo EXCEPT !.todo = Tail(@), !.out = Append(@, [Head(mo.todo) EXCEPT !.body = r.ss]), !.s = r.s]
NextBatch ==
    /\ mo.phase = "mono" /\ mo.todo = <<>> /\ mo.s.made # <<>>
    /\ Len(mo.out) + Len(mo.s.made) <= MaxEmitted
    /\ mo' = [mo EXCEPT !.todo = mo.s.made, !.s.made = <<>>]
InferClosureTypes ==
    /\ mo.phase = "mono" /\ mo.todo = <<>> /\ mo.s.made = <<>>
    /\ mo' = [mo EXCEPT !.phase = "done", !.out = InferClosuresInProgram(@)]
GenericsNext == LowerProgramTyped \/ ProcessNext \/ NextBatch \/ InferClosureTypes

-----------------------------------------------------------------------------
\* A run: a value is the type it really has, a struct's with those of its
\* fields.  prog is [fns, defs], generic or emitted.
CutOff == GType("stop", "", <<>>)
AClosure == GType("closure", "", <<>>)
RECURSIVE HasType(_, _), PartsOf(_)
HasType(v, t) ==
    CASE t \in {AnyType, Untyped} \/ v = CutOff -> TRUE
      [] t.k \in {"array", "map", "tuple"} -> v.k = t.k /\ Len(v.of) = Len(t.of) /\ \A i \in DOMAIN t.of : HasType(v.of[i], t.of[i])
      [] t.k = "struct" -> v.k = "struct" /\ v.n = t.n /\ (t.of = <<>> \/ t.of = v.of)
      [] t.k = "fn" -> v = AClosure
      [] OTHER -> v = t
PartsOf(v) == {v} \cup UNION {PartsOf(v.of[i]) : i \in DOMAIN v.of}
\* Values vs for declared types ts: one choice of the parameters fits them all.
Accepts(tps, ts, vs) ==
    \E m \in [Range(tps) -> UNION {PartsOf(vs[i]) : i \in DOMAIN vs}] :
        \A i \in DOMAIN ts : HasType(vs[i], SubstituteTypeId(ts[i], m))
Ran1(v, ok) == [v |-> v, ok |-> ok]
ElemOf(vs) == IF vs # <<>> /\ \A v \in Range(vs) : v = vs[1] THEN vs[1] ELSE AnyType
\* A closure's types are those of the parameter it is given for.
ClosureFits(e, t) == e.k = "closure" /\ t.k = "fn" => \A i \in DOMAIN e.pts : e.pts[i] = Untyped \/ e.pts[i] = t.of[i]

RECURSIVE RunExpr(_, _, _, _), RunStmts(_, _, _, _), RunCall(_, _, _, _)
RunCall(prog, f, vs, d) ==
    IF d = 0 THEN Ran1(CutOff, TRUE)
    ELSE LET r == RunStmts(prog, f.body, [x \in Range(f.ps) |-> vs[CHOOSE i \in DOMAIN vs : f.ps[i] = x]], d - 1)
         IN  Ran1(r.v, r.ok /\ Accepts(f.tps, Append(f.ts, f.ret), Append(vs, r.v)))
RunExpr(prog, e, env, d) ==
    LET rs == [i \in DOMAIN e.es |-> IF e.k = "closure" THEN Ran1(AClosure, TRUE) ELSE RunExpr(prog, e.es[i], env, d)]
        vs == [i \in DOMAIN rs |-> rs[i].v]
        fs == SelectSeq(prog.fns, LAMBDA f : f.n = e.n)
        inClosure(v) == RunExpr(prog, e.es[2].es[1], (e.es[2].ns[1] :> v) @@ env, d)
        inner ==
          CASE e.k = "const" -> Ran1(Prim(e.n), TRUE)
            [] e.k = "local" -> Ran1(env[e.n], TRUE)
            [] e.k = "array" -> Ran1(ArrayType(ElemOf(vs)), TRUE)
            [] e.k = "map" -> Ran1(MapType(vs[1], vs[2]), TRUE)
            [] e.k = "tuple" -> Ran1(TupleType(vs), TRUE)
            [] e.k = "closure" -> Ran1(AClosure, TRUE)
            [] e.k = "index" -> IF vs[1].k \in {"array", "map"} THEN Ran1(Last(vs[1].of), TRUE) ELSE Ran1(CutOff, vs[1] = CutOff)
            [] e.k = "struct" ->
                  Ran1(GType("struct", e.n, vs),
                       e.n \in DOMAIN prog.defs
                       /\ LET d2 == prog.defs[e.n] IN Accepts(d2.params, [i \in DOMAIN d2.fields |-> d2.fields[i][2]], vs))
            [] e.k = "field" ->
                  LET fields == IF vs[1].k = "struct" /\ vs[1].n \in DOMAIN prog.defs THEN prog.defs[vs[1].n].fields ELSE <<>>
                      at == {i \in DOMAIN fields : fields[i][1] = e.n}
                  IN  IF at = {} THEN Ran1(CutOff, vs[1] = CutOff) ELSE Ran1(vs[1].of[CHOOSE i \in at : TRUE], TRUE)
            [] e.k = "call" ->
                  IF Len(fs) # 1 THEN Ran1(CutOff, FALSE)
                  ELSE LET r == RunCall(prog, fs[1], vs, d)
                       IN  Ran1(r.v, r.ok /\ (fs[1].tps = <<>> => \A i \in DOMAIN vs : ClosureFits(e.es[i], fs[1].ts[i])))
            [] e.k = "method" /\ vs[1].of = <<>> -> Ran1(CutOff, vs[1] = CutOff)
            [] e.k = "method" /\ e.n = "map" ->
                  LET r == inClosure(vs[1].of[1]) IN Ran1(ArrayType(r.v), r.ok /\ HasType(vs[1].of[1], e.es[2].pts[1]))
            [] e.k = "method" /\ e.n = "first" -> Ran1(vs[1].of[1], TRUE)
            [] e.k = "method" /\ e.n = "keys" -> Ran1(ArrayType(vs[1].of[1]), TRUE)
            [] OTHER -> Ran1(Prim("Int"), TRUE)
    IN  Ran1(inner.v, inner.ok /\ HasType(inner.v, e.ty) /\ \A i \in DOMAIN rs : rs[i].ok)
Destructured(st, v) == IF st.k = "tuplelet" /\ v.k = "tuple" THEN v.of ELSE [i \in DOMAIN st.ns |-> IF st.k = "let" THEN v ELSE CutOff]
RunStmts(prog, ss, env, d) ==
    IF ss = <<>> THEN Ran1(Prim("Void"), TRUE)
    ELSE LET st == Head(ss)
             r == RunExpr(prog, st.e, env, d)
             vs == Destructured(st, r.v)
             bound == SetTypes(env, st.ns, vs)
             yes == RunStmts(prog, st.yes, bound, d)
             rest == RunStmts(prog, Tail(ss), bound, d)
             ok == r.ok /\ yes.ok /\ \A i \in DOMAIN st.tys : HasType(vs[i], st.tys[i])
         IN  IF st.k = "return" THEN Ran1(r.v, ok) ELSE Ran1(rest.v, ok /\ rest.ok)

RunsWell(prog) == RunStmts(prog, SelectSeq(prog.fns, LAMBDA f : f.n = "main")[1].body, <<>>, CallDepth).ok
SourceProgram(body) == [fns |-> Append(Templates, MainOf(body)), defs |-> Structs]
EmittedProgram(m) ==
    [fns |-> m.out,
     defs |-> [n \in {x \in DOMAIN Structs : Structs[x].params = <<>>} \cup Range(m.s.newStructs) |-> m.s.defs[n]]]

\* A program whose generic functions and structs are used consistently is
\* emitted with every called function and built struct defined exactly once, and
\* every value that reaches a variable, parameter, field, result or closure at
\* run time has the type written there, with no type parameter left: through
\* templates that call templates, inferences that stay open, tuples taken apart
\* and structs specialised on the way.
GenericsResolved == mo.phase = "done" /\ RunsWell(SourceProgram(mo.body)) => RunsWell(EmittedProgram(mo))
=============================================================================

----------------------------- MODULE TypeSound ------------------------------
(***************************************************************************)
(* Static types against run-time values.  Lowering (crates/doo_hir/src/    *)
(* lowering) gives every expression a type, remembering variables in a map *)
(* without scopes; the type checker (crates/doo_analysis/src/semantic/     *)
(* type_check.rs with scope.rs) walks the statements with a tree of        *)
(* scopes.  The model takes one statement after the other through both,    *)
(* and executes it.  A value is its run-time tag.                          *)
(***************************************************************************)
EXTENDS Integers, Sequences, FiniteSets

CONSTANTS TVars,       \* variable names
          Exprs,       \* the expressions, built with Lit, Var, Bin, Cast
          Anns,        \* type annotations of let, NoType among them
          MaxStmts,    \* bound: statements of a program
          MaxNest      \* bound: nested blocks

NoType == "none"
VOID == "Void"
INT == "Int"
FLOAT == "Float"
STR == "Str"
BOOL == "Bool"
OptInt == "OptInt"
OptStr == "OptStr"
OptTypes == {OptInt, OptStr}
Unwrap(t) == CASE t = OptInt -> INT [] t = OptStr -> STR [] OTHER -> t
Numeric == {INT, FLOAT}

Lit(t) == [k |-> "lit", t |-> t]
Var(v) == [k |-> "var", v |-> v]
Bin(op, a, b) == [k |-> "bin", op |-> op, a |-> a, b |-> b]
Cast(a, t) == [k |-> "cast", a |-> a, t |-> t]
Arithmetic == {"+", "-"}
Comparison == {"==", "<"}
Coalesce == "??"
\* What is modelled: types, casts to a scalar, and operators on names and literals.
Scalars == {INT, FLOAT, STR, BOOL}
ValueTypes == Scalars \cup OptTypes \cup {VOID}
AtomsOver(V) == {Lit(t) : t \in Scalars \cup {VOID}} \cup {Var(v) : v \in V}
ExprsOver(V) ==
    AtomsOver(V) \cup {Cast(a, t) : a \in AtomsOver(V), t \in Scalars}
    \cup {Bin(op, a, b) : op \in Arithmetic \cup Comparison \cup {Coalesce}, a, b \in AtomsOver(V)}

ASSUME TypeInputs == Exprs \subseteq ExprsOver(TVars) /\ Anns \subseteq ValueTypes \cup {NoType}

VARIABLES ty  \* [scopes, cur, vt, env, reject, stuck, n, holes]

\* The tree of scopes: each knows its parent, symbols and their types.
NewScope(parent) == [parent |-> parent, syms |-> <<>>]
TypeInit == ty = [scopes |-> <<NewScope(0)>>, cur |-> 1, vt |-> [v \in TVars |-> NoType],
                  env |-> <<[v \in TVars |-> NoType]>>, reject |-> FALSE, stuck |-> FALSE,
                  n |-> 0, holes |-> {}]

InScope(c, s, v) == \E i \in DOMAIN c.scopes[s].syms : c.scopes[s].syms[i].v = v
SymOf(c, s, v) == c.scopes[s].syms[CHOOSE i \in DOMAIN c.scopes[s].syms : c.scopes[s].syms[i].v = v]
\* Lookup: the scope that has the name, from the current one through the parents.
Lookup(c, v) ==
    LET Up[s \in 0..Len(c.scopes)] ==
            IF s = 0 THEN 0 ELSE IF InScope(c, s, v) THEN s ELSE Up[c.scopes[s].parent]
    IN  Up[c.cur]

\* Lowering: the type an expression is given.
InferBinop(op, l, r) ==
    IF op \in Comparison THEN BOOL
    ELSE IF op = Coalesce THEN Unwrap(IF l = VOID \/ l = NoType THEN r ELSE l)
    ELSE IF l = INT /\ r = INT THEN INT
    ELSE IF l = FLOAT \/ r = FLOAT THEN FLOAT
    ELSE IF l = STR /\ op = "+" THEN STR
    ELSE IF l # NoType THEN l ELSE r
SimpleType(c, x) == IF x.k = "lit" THEN x.t ELSE c.vt[x.v]
TypeOf(c, e) == CASE e.k \in {"lit", "var"} -> SimpleType(c, e)
                  [] e.k = "cast" -> e.t
                  [] OTHER -> InferBinop(e.op, SimpleType(c, e.a), SimpleType(c, e.b))

\* The checker: NoType stands for a type it does not know and lets pass.
IsCompatible(actual, expected) ==
    \/ actual = expected \/ actual = NoType \/ expected = NoType
    \/ expected \in OptTypes /\ actual \in {VOID, Unwrap(expected)}
BothNumeric(l, r) == l \in Numeric /\ r \in Numeric
ValidateBinopNoOrder(op, l, r) ==
    \/ l = NoType \/ r = NoType
    \/ op \in Arithmetic /\ (l \in Numeric \/ r \in Numeric)
    \/ op \in Comparison
    \/ op = Coalesce
ValidateBinop(op, l, r) ==
    \/ l = NoType \/ r = NoType
    \/ op \in Arithmetic /\ (BothNumeric(l, r) \/ (op = "+" /\ l = STR))
    \/ op \in Comparison /\ (l = r \/ BothNumeric(l, r))
    \/ op = Coalesce /\ \/ VOID \in {Unwrap(l), Unwrap(r)}
                        \/ Unwrap(l) = Unwrap(r)
                        \/ BothNumeric(Unwrap(l), Unwrap(r))
ValidateCast(from, to) ==
    \/ from = to \/ NoType \in {from, to} \/ to = STR
    \/ from \in {INT, FLOAT, STR} /\ to \in Numeric
    \/ from = BOOL /\ to = INT
Atoms(e) == IF e.k \in {"lit", "var"} THEN {e} ELSE IF e.k = "cast" THEN {e.a} ELSE {e.a, e.b}
CheckExpr(c, e) ==
    /\ \A a \in Atoms(e) : a.k = "var" => Lookup(c, a.v) # 0
    /\ e.k = "bin" => ValidateBinop(e.op, SimpleType(c, e.a), SimpleType(c, e.b))
    /\ e.k = "cast" => ValidateCast(SimpleType(c, e.a), e.t)

\* Running: the tag of the value, Stuck when the operation has none.
Stuck == "stuck"
FrameOf(env, v) ==
    LET Down[i \in 0..Len(env)] == IF i = 0 THEN 0 ELSE IF env[i][v] # NoType THEN i ELSE Down[i - 1]
    IN  Down[Len(env)]
ValueOf(env, v) == IF FrameOf(env, v) = 0 THEN Stuck ELSE env[FrameOf(env, v)][v]
Tag(env, x) == IF x.k = "lit" THEN x.t ELSE ValueOf(env, x.v)
\* emit_binop: nil is compared with anything; no code orders strings.
Comparable(l, r) == l = r \/ BothNumeric(l, r) \/ VOID \in {l, r}
BinopTag(op, l, r) ==
    IF Stuck \in {l, r} THEN Stuck
    ELSE CASE op = Coalesce -> IF l = VOID THEN r ELSE l
           [] op = "==" -> IF Comparable(l, r) THEN BOOL ELSE Stuck
           [] op = "<" -> IF Comparable(l, r) /\ STR \notin {l, r} THEN BOOL ELSE Stuck
           [] op \in Arithmetic -> IF BothNumeric(l, r) THEN IF FLOAT \in {l, r} THEN FLOAT ELSE INT
                                   ELSE IF op = "+" /\ l = STR THEN STR ELSE Stuck
RunProgram(env, e) ==
    CASE e.k \in {"lit", "var"} -> Tag(env, e)
      [] e.k = "cast" -> IF Tag(env, e.a) = Stuck THEN Stuck ELSE e.t
      [] OTHER -> BinopTag(e.op, Tag(env, e.a), Tag(env, e.b))

\* Operators whose result is not what their type says: a float appended to a string,
\* strings put in order, and a default that may itself be nil or is of another type.
Unsound(op, l, r) ==
    \/ op = "+" /\ l = STR /\ r = FLOAT
    \/ op = "<" /\ STR \in {Unwrap(l), Unwrap(r)}
    \/ op = Coalesce /\ \/ l \in OptTypes /\ r # Unwrap(l)
                        \/ l = VOID /\ r \in OptTypes
HolesOf(c, e) == IF e.k = "bin" /\ Unsound(e.op, SimpleType(c, e.a), SimpleType(c, e.b)) THEN {e.op} ELSE {}

Going == ~ty.reject /\ ~ty.stuck /\ ty.n < MaxStmts
\* From c to t, with e evaluated in c.
Checked(c, t, ok, e) == [t EXCEPT !.n = @ + 1, !.reject = ~ok, !.stuck = ok /\ RunProgram(c.env, e) = Stuck,
                               !.holes = @ \cup HolesOf(c, e)]

\* let v: a = e.  A name may be declared again in an inner scope only.
LetType(c, a, e) == IF a # NoType THEN a ELSE TypeOf(c, e)
LetOf(c, v, a, e) ==
    Checked(c, [c EXCEPT !.vt[v] = LetType(c, a, e),
                      !.scopes[c.cur].syms = Append(@, [v |-> v, t |-> LetType(c, a, e)]),
                      !.env[Len(c.env)][v] = RunProgram(c.env, e),
                      !.holes = IF Lookup(c, v) # 0 THEN @ \cup {"shadow"} ELSE @],
         CheckExpr(c, e) /\ IsCompatible(TypeOf(c, e), a) /\ ~InScope(c, c.cur, v), e)
Let(v, a, e) == Going /\ ty' = LetOf(ty, v, a, e)
\* v = e, where a value or a target of type VOID passes.
AssignOf(c, v, e) ==
    LET ok == /\ Lookup(c, v) # 0 /\ CheckExpr(c, e)
              /\ VOID \in {c.vt[v], TypeOf(c, e)} \/ IsCompatible(TypeOf(c, e), c.vt[v])
    IN  Checked(c, IF ~ok THEN c
                ELSE [c EXCEPT !.env[FrameOf(c.env, v)][v] = RunProgram(c.env, e),
                               !.holes = IF IsCompatible(TypeOf(c, e), c.vt[v]) THEN @ ELSE @ \cup {"void"}],
             ok, e)
Assign(v, e) == Going /\ ty' = AssignOf(ty, v, e)
EnterScope ==
    /\ Going /\ Len(ty.env) <= MaxNest
    /\ ty' = [ty EXCEPT !.n = @ + 1, !.cur = Len(ty.scopes) + 1,
                        !.scopes = Append(@, NewScope(ty.cur)),
                        !.env = Append(@, [v \in TVars |-> NoType])]
ExitScopeToGlobal ==
    /\ Going /\ ty.scopes[ty.cur].parent # 0
    /\ ty' = [ty EXCEPT !.n = @ + 1, !.cur = 1, !.env = SubSeq(@, 1, Len(@) - 1)]
ExitScope ==
    /\ Going /\ ty.scopes[ty.cur].parent # 0
    /\ ty' = [ty EXCEPT !.n = @ + 1, !.cur = ty.scopes[ty.cur].parent,
                        !.env = SubSeq(@, 1, Len(@) - 1)]
TypeNext == \/ \E v \in TVars, e \in Exprs : Assign(v, e) \/ \E a \in Anns : Let(v, a, e)
            \/ EnterScope \/ ExitScope
TypeSpec == TypeInit /\ [][TypeNext]_ty
-----------------------------------------------------------------------------
Conforms(tag, t) == tag = t \/ t = NoType \/ (t \in OptTypes /\ tag \in {VOID, Unwrap(t)})
InScopeVars == {v \in TVars : Lookup(ty, v) # 0}

(* What the checker accepts does not go wrong: no operation meets operands  *)
(* it has no meaning for, and every variable holds a value of its declared  *)
(* type.  Left out: programs where a block declares a name again that is    *)
(* already visible (lowering does not take the outer type back), a value of *)
(* type Void is on either side of an assignment (it is not compared), or an *)
(* operator is used where its type is wrong (Unsound).                      *)
AcceptedRuns ==
    ~ty.reject /\ ty.holes = {} =>
        /\ ~ty.stuck
        /\ \A v \in InScopeVars : Conforms(ValueOf(ty.env, v), SymOf(ty, Lookup(ty, v), v).t)

(* The checker's tree of scopes and the blocks that are open at run time    *)
(* agree on which variables exist and on which declaration is meant.        *)
ScopesFollowBlocks ==
    ~ty.reject => \A v \in TVars :
        /\ v \in InScopeVars <=> FrameOf(ty.env, v) # 0
        /\ v \in InScopeVars /\ ty.holes = {} => SymOf(ty, Lookup(ty, v), v).t = ty.vt[v]

\* A program the checker accepts does not get stuck, and the scope the checker
\* looks a name up in is the one the name lives in at run time.
TypesSound == AcceptedRuns /\ ScopesFollowBlocks
=============================================================================

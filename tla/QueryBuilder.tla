---------------------------- MODULE QueryBuilder ----------------------------
(* The query builder: a chain such as                                       *)
(*    db.find(Task).where({ done: false }).orderBy({ id: Desc }).exec()     *)
(* is compiled to one constant SQL text with numbered placeholders and the  *)
(* parameters they stand for.  The text is a tree here, except where the    *)
(* text itself decides the meaning: conditions are joined by AND and OR     *)
(* without parentheses, so a condition is an OR of ANDs as the server reads *)
(* them.  The server is modelled by what PostgreSQL does with such a        *)
(* statement.                                                               *)
EXTENDS Integers, Sequences, SequencesExt, FiniteSets

CONSTANTS
    Fields,    \* the fields of the model's struct, in order: [name, ty, opt, primary, auto]
    ModelName, \* its name
    Chains,    \* the chains that are written
    TableContents,  \* what its table may hold: a set of rows, or the name of no table
    Likes      \* the pairs of a pattern and a string that match

VARIABLE qb

-----------------------------------------------------------------------------
(* Values and expressions.                                                  *)
Val(t, n, s) == [t |-> t, n |-> n, s |-> s]
Nil == Val("Nil", 0, "")
IntVal(n) == Val("Int", n, "")
StrVal(x) == Val("Str", 0, x)
Expr(k, name, ty, val, args, fields) == [k |-> k, name |-> name, ty |-> ty, val |-> val, args |-> args, fields |-> fields]
Const(v) == Expr("Const", "", v.t, v, <<>>, <<>>)
Local(n, ty) == Expr("Local", n, ty, Nil, <<>>, <<>>)
Call(f, args) == Expr("Call", f, "", Nil, args, <<>>)
Array(items) == Expr("Array", "", "", Nil, items, <<>>)
Struct(fs) == Expr("Struct", "", "", Nil, <<>>, fs)
Clause(m, args) == [m |-> m, args |-> args]

FilterClauses == {"where", "orWhere", "whereNot", "whereIn", "whereNull", "whereNotNull", "whereBetween"}
ChainClauses == FilterClauses \cup
    {"orderBy", "limit", "offset", "select", "exclude", "distinct", "groupBy", "having", "aggregate", "set", "increment", "decrement", "returning"}
Terminals == {"exec", "execOne", "toSql"}
Entries == {"find", "findOne", "count", "insert", "insertMany", "update", "delete"}
IsQueryTerminal(m) == m \in Terminals

\* The walk goes from the terminal to the root and collects the clauses on its
\* way, the one written last first.
ExtractChain(w) ==
    IF /\ IsQueryTerminal(w.terminal) /\ w.op \in Entries
       /\ \A i \in DOMAIN w.clauses : /\ w.clauses[i].m \in ChainClauses
                                      /\ w.clauses[i].m \in {"limit", "offset"} => w.clauses[i].args # <<>>
    THEN <<[terminal |-> w.terminal, op |-> w.op, model |-> w.model, data |-> w.data, clauses |-> Reverse(w.clauses)]>>
    ELSE <<>>

-----------------------------------------------------------------------------
(* Helpers of the builder.                                                  *)
ExtractStringLit(e) == IF e.k = "Const" /\ e.val.t = "Str" THEN <<e.val.s>> ELSE <<>>
StringsOf(args) == FlattenSeq([i \in DOMAIN args |-> ExtractStringLit(args[i])])
ExtractStringList(args) == IF Len(args) = 1 /\ args[1].k = "Array" THEN StringsOf(args[1].args) ELSE StringsOf(args)
FieldsOf(args) == IF args # <<>> /\ args[1].k = "Struct" THEN args[1].fields ELSE <<>>
First(chain, m) == LET s == SelectSeq(chain.clauses, LAMBDA c : c.m = m) IN IF s = <<>> THEN <<>> ELSE <<s[1].args>>
HasClause(chain, m) == First(chain, m) # <<>>
FieldNames == {Fields[i].name : i \in DOMAIN Fields}
FieldOf(n) == CHOOSE f \in Range(Fields) : f.name = n

\* SqlState: the number of the next placeholder and the parameters so far.
SqlStart == [idx |-> 1, ps |-> <<>>]
PushParam(st, e) == [idx |-> st.idx + 1, ps |-> Append(st.ps, e)]
Ph(n) == [k |-> "ph", n |-> n]
Null == [k |-> "null", n |-> 0]

-----------------------------------------------------------------------------
(* Validation.  The answer is the kind of the first error, or "".           *)
IsPrimitive(t) == t \in {"Int", "Float", "Bool", "Str"}
ExprPrimitiveType(e) == IF IsPrimitive(e.ty) THEN e.ty ELSE ""
IsNumericType(t) == t \in {"Int", "Float"}
FirstError(errs) == LET s == SelectSeq(errs, LAMBDA x : x # "") IN IF s = <<>> THEN "" ELSE s[1]
ValidateNumericExpr(e) == IF ExprPrimitiveType(e) \in {"Bool", "Str"} THEN "InvalidChain" ELSE ""
ValidateStringExpr(e) == IF ExprPrimitiveType(e) \in {"Int", "Float", "Bool"} THEN "InvalidChain" ELSE ""
PrimitiveCompatible(t, e) == ExprPrimitiveType(e) \in {"", t}
ValidateListCompat(t, e) == IF e.k = "Array" /\ \E i \in DOMAIN e.args : ~PrimitiveCompatible(t, e.args[i]) THEN "InvalidChain" ELSE ""
OnFirst(args, Check(_)) == IF args = <<>> THEN "" ELSE Check(args[1])

ValidateConditionValueType(t, e) ==
    CASE e.k = "Local" -> ""
      [] e.k = "Call" /\ e.name \in {"Gt", "Gte", "Lt", "Lte"} ->
            IF IsNumericType(t) THEN OnFirst(e.args, ValidateNumericExpr) ELSE "InvalidChain"
      [] e.k = "Call" /\ e.name \in {"Like", "ILike"} ->
            IF t = "Str" THEN OnFirst(e.args, ValidateStringExpr) ELSE "InvalidChain"
      [] e.k = "Call" /\ e.name \in {"In", "NotIn"} -> OnFirst(e.args, LAMBDA a : ValidateListCompat(t, a))
      [] e.k = "Call" /\ e.name = "Between" ->
            IF ~IsNumericType(t) THEN "InvalidChain"
            ELSE IF Len(e.args) >= 2 THEN FirstError(<<ValidateNumericExpr(e.args[1]), ValidateNumericExpr(e.args[2])>>) ELSE ""
      [] OTHER -> IF PrimitiveCompatible(t, e) THEN "" ELSE "InvalidChain"

\* The fields a clause names, as far as they are looked at.
NamesIn(c) ==
    CASE c.m \in {"where", "orWhere", "whereNot", "orderBy", "set"} -> {FieldsOf(c.args)[i][1] : i \in DOMAIN FieldsOf(c.args)}
      [] c.m \in {"whereIn", "whereBetween", "increment", "decrement"} -> IF c.args = <<>> THEN {} ELSE Range(ExtractStringLit(c.args[1]))
      [] c.m \in {"whereNull", "whereNotNull"} -> Range(StringsOf(c.args)) \cup UNION {Range(StringsOf(c.args[i].args)) : i \in DOMAIN c.args}
      [] c.m \in {"select", "exclude", "groupBy", "returning"} -> Range(ExtractStringList(c.args)) \ {"*"}
      [] OTHER -> {}
ValidatePlanFields(chain) == IF \E i \in DOMAIN chain.clauses : ~(NamesIn(chain.clauses[i]) \subseteq FieldNames) THEN "UnknownField" ELSE ""

NumericField(c, n) ==
    LET f == ExtractStringLit(c.args[1])
    IN  IF Len(c.args) < n \/ f = <<>> \/ Range(f) \cap FieldNames = {} THEN ""
        ELSE IF ~IsNumericType(FieldOf(f[1]).ty) THEN "InvalidChain"
        ELSE FirstError([i \in 1..(n - 1) |-> ValidateNumericExpr(c.args[i + 1])])
ValidateAggregate(e) ==
    IF e.k # "Call" THEN ""
    ELSE IF e.name \notin {"Count", "Sum", "Avg", "Min", "Max"} THEN "InvalidChain"
    ELSE LET col == IF e.args = <<>> THEN <<>> ELSE ExtractStringLit(e.args[1])
         IN  IF e.name \in {"Sum", "Avg"} /\ \E f \in Range(Fields) : <<f.name>> = col /\ ~IsNumericType(f.ty) THEN "InvalidChain" ELSE ""
ValidateClauseTypes(c) ==
    LET fs == FieldsOf(c.args)
    IN  CASE c.m \in {"where", "orWhere", "whereNot"} ->
                FirstError([i \in DOMAIN fs |-> IF fs[i][1] \in FieldNames THEN ValidateConditionValueType(FieldOf(fs[i][1]).ty, fs[i][2]) ELSE ""])
          [] c.m = "whereIn" /\ Len(c.args) >= 2 ->
                IF \E f \in Range(Fields) : <<f.name>> = ExtractStringLit(c.args[1]) /\ ValidateListCompat(f.ty, c.args[2]) # "" THEN "InvalidChain" ELSE ""
          [] c.m = "whereBetween" /\ c.args # <<>> -> NumericField(c, 3)
          [] c.m \in {"increment", "decrement"} /\ c.args # <<>> -> NumericField(c, 2)
          [] c.m = "aggregate" -> FirstError([i \in DOMAIN fs |-> ValidateAggregate(fs[i][2])])
          [] OTHER -> ""
ValidatePlanTypes(chain) == FirstError([i \in DOMAIN chain.clauses |-> ValidateClauseTypes(chain.clauses[i])])

-----------------------------------------------------------------------------
(* Conditions.  An atom stands for a piece of text the server reads as one  *)
(* condition; a text is the sequence of its OR parts, each the sequence of  *)
(* the atoms joined by AND; the empty text is <<>>.                         *)
Atom(op, field, terms, sub) == [op |-> op, field |-> field, terms |-> terms, sub |-> sub]
NoText == Atom("missing", "", <<>>, <<>>)
Answer(a, st) == [a |-> a, st |-> st]
Simple(op, field, e, st) == Answer(Atom(op, field, <<Ph(st.idx)>>, <<>>), PushParam(st, e))
Two(op, field, e, f, st) == Answer(Atom(op, field, <<Ph(st.idx), Ph(st.idx + 1)>>, <<>>), PushParam(PushParam(st, e), f))

BuildInConditionExpr(field, e, st, negate) ==
    LET op == IF negate THEN "NotIn" ELSE "In"
    IN  IF e.k # "Array" THEN Simple(op, field, e, st)
        ELSE IF e.args = <<>> THEN Answer(Atom(IF negate THEN "true" ELSE "false", "", <<>>, <<>>), st)
        ELSE Answer(Atom(op, field, [i \in DOMAIN e.args |-> Ph(st.idx + i - 1)], <<>>), FoldLeft(PushParam, st, e.args))

\* A local is put into the text by its name; an operator without its operand
\* leaves an empty text.
BuildConditionExpr(field, e, st) ==
    CASE e.k = "Local" /\ e.name \in {"IsNull", "IsNotNull"} -> Answer(Atom(e.name, field, <<>>, <<>>), st)
      [] e.k = "Local" -> Answer(Atom("Column", field, <<>>, <<<<Atom("name", e.name, <<>>, <<>>)>>>>), st)
      [] e.k = "Call" /\ e.name \in {"Gt", "Gte", "Lt", "Lte", "Ne", "Like", "ILike"} ->
            IF e.args = <<>> THEN Answer(NoText, st) ELSE Simple(e.name, field, e.args[1], st)
      [] e.k = "Call" /\ e.name \in {"In", "NotIn"} ->
            IF e.args = <<>> THEN Answer(NoText, st) ELSE BuildInConditionExpr(field, e.args[1], st, e.name = "NotIn")
      [] e.k = "Call" /\ e.name = "Between" ->
            IF Len(e.args) < 2 THEN Answer(NoText, st) ELSE Two("Between", field, e.args[1], e.args[2], st)
      [] e.k = "Call" /\ e.name \in {"IsNull", "IsNotNull"} -> Answer(Atom(e.name, field, <<>>, <<>>), st)
      [] OTHER -> Simple("Eq", field, e, st)

\* The conditions of an object, joined by AND; one empty text alone is empty.
AndAlso(acc, r) == [as |-> Append(acc.as, r.a), st |-> r.st]
AndText(all) == [text |-> IF all.as \in {<<>>, <<NoText>>} THEN <<>> ELSE <<all.as>>, st |-> all.st]
BuildConditions(args, st) ==
    AndText(FoldLeft(LAMBDA acc, f : AndAlso(acc, BuildConditionExpr(f[1], f[2], acc.st)), [as |-> <<>>, st |-> st], FieldsOf(args)))

\* a AND b as text: the last part of a and the first of b come together.
JoinAnd(a, b) == IF a = <<>> THEN b ELSE Front(a) \o <<Last(a) \o b[1]>> \o Tail(b)
JoinAll(parts) == FoldLeft(JoinAnd, <<>>, parts)
Paren(text) == <<<<Atom("paren", "", <<>>, text)>>>>
Negated(text) == <<<<Atom("not", "", <<>>, text)>>>>
NegatedFirst(text) == [text EXCEPT ![1][1] = Atom("not", "", <<>>, <<<<text[1][1]>>>>)]
NotText(text) == Negated(text)

NameOr(args, default) == IF ExtractStringLit(args[1]) = <<>> THEN default ELSE ExtractStringLit(args[1])[1]
AddCondition(acc, r) == [parts |-> Append(acc.parts, <<<<r.a>>>>), st |-> r.st]
AddNulls(acc, names, op) == [acc EXCEPT !.parts = @ \o [i \in DOMAIN names |-> <<<<Atom(op, names[i], <<>>, <<>>)>>>>]]
\* The object of a where, orWhere or whereNot, whose text is r.
AddObject(acc, m, r) ==
    [parts |-> CASE r.text = <<>> -> acc.parts
                 [] m = "orWhere" -> <<Paren(JoinAll(acc.parts)) \o Paren(r.text)>>
                 [] OTHER -> Append(acc.parts, IF m = "whereNot" THEN NotText(r.text) ELSE r.text),
     st |-> r.st]
WhereClause(acc, c) ==
    CASE c.m = "orWhere" /\ (c.args = <<>> \/ acc.parts = <<>>) -> acc
      [] c.m \in {"where", "orWhere", "whereNot"} -> AddObject(acc, c.m, BuildConditions(c.args, acc.st))
      [] c.m = "whereIn" /\ Len(c.args) >= 2 -> AddCondition(acc, BuildInConditionExpr(NameOr(c.args, "id"), c.args[2], acc.st, FALSE))
      [] c.m = "whereBetween" /\ Len(c.args) >= 3 -> AddCondition(acc, Two("Between", NameOr(c.args, "id"), c.args[2], c.args[3], acc.st))
      [] c.m = "whereNull" -> AddNulls(acc, StringsOf(c.args), "IsNull")
      [] c.m = "whereNotNull" -> AddNulls(acc, StringsOf(c.args), "IsNotNull")
      [] OTHER -> acc
AppendWhereClauses(chain, st) == FoldLeft(WhereClause, [parts |-> <<>>, st |-> st], chain.clauses)

-----------------------------------------------------------------------------
(* Statements.                                                              *)
IntTerm(n) == [k |-> "int", n |-> n]
NoSql == [verb |-> "", cols |-> <<>>, distinct |-> FALSE, where |-> <<>>, group |-> <<>>, having |-> <<>>, order |-> <<>>,
          limit |-> <<>>, offset |-> <<>>, rows |-> <<>>, sets |-> <<>>, ret |-> <<>>]
Col(n) == [fn |-> "", col |-> n]
Star == <<Col("*")>>
Cols(names) == [i \in DOMAIN names |-> Col(names[i])]
Built(sql, st) == [sql |-> sql, st |-> st]

\* An entry that is no call is the bare alias.
BuildAggregateCols(args) ==
    IF args = <<>> \/ args[1].k # "Struct" THEN Star
    ELSE [i \in DOMAIN FieldsOf(args) |->
            LET e == FieldsOf(args)[i][2]
            IN  IF e.k # "Call" THEN Col(FieldsOf(args)[i][1])
                ELSE [fn |-> e.name, col |-> IF e.args = <<>> \/ ExtractStringLit(e.args[1]) = <<>> THEN "*" ELSE ExtractStringLit(e.args[1])[1]]]
BuildOrderBy(args) == [i \in DOMAIN FieldsOf(args) |->
    <<FieldsOf(args)[i][1], IF FieldsOf(args)[i][2].k = "Local" /\ FieldsOf(args)[i][2].name = "Desc" THEN "DESC" ELSE "ASC">>]
SelectedCols(chain) ==
    IF HasClause(chain, "aggregate") THEN BuildAggregateCols(First(chain, "aggregate")[1])
    ELSE IF HasClause(chain, "select") /\ ExtractStringList(First(chain, "select")[1]) # <<>> THEN Cols(ExtractStringList(First(chain, "select")[1]))
    ELSE Star
Bound(chain, m, st) ==
    LET e == First(chain, m)
    IN  IF e = <<>> THEN [term |-> <<>>, st |-> st]
        ELSE IF e[1][1].k = "Const" /\ e[1][1].val.t = "Int" THEN [term |-> <<IntTerm(e[1][1].val.n)>>, st |-> st]
        ELSE [term |-> <<Ph(st.idx)>>, st |-> PushParam(st, e[1][1])]

\* A statement is built clause by clause, each numbering its parameters after
\* those of the one before.
WithWhere(b, w) == Built([b.sql EXCEPT !.where = JoinAll(w.parts)], w.st)
WithHaving(b, h) == Built([b.sql EXCEPT !.having = <<h.text>>], h.st)
WithLimit(b, l) == Built([b.sql EXCEPT !.limit = l.term], l.st)
WithOffset(b, o) == Built([b.sql EXCEPT !.offset = o.term], o.st)
AddWhere(b, chain) == WithWhere(b, AppendWhereClauses(chain, b.st))
AddHaving(b, having) == IF having \in {<<>>, <<<<>>>>} THEN b ELSE WithHaving(b, BuildConditions(having[1], b.st))
AddLimit(b, chain, limitOne) == WithLimit(b, IF limitOne THEN [term |-> <<IntTerm(1)>>, st |-> b.st] ELSE Bound(chain, "limit", b.st))
AddOffset(b, chain) == WithOffset(b, Bound(chain, "offset", b.st))

BuildSelectSql(chain, st, limitOne) ==
    LET select == [NoSql EXCEPT !.verb = "SELECT", !.cols = SelectedCols(chain),
                                !.distinct = HasClause(chain, "distinct") /\ ~HasClause(chain, "aggregate"),
                                !.group = IF HasClause(chain, "groupBy") THEN ExtractStringList(First(chain, "groupBy")[1]) ELSE <<>>,
                                !.order = IF HasClause(chain, "orderBy") THEN BuildOrderBy(First(chain, "orderBy")[1]) ELSE <<>>]
    IN  AddOffset(AddLimit(AddHaving(AddWhere(Built(select, st), chain), First(chain, "having")), chain, limitOne), chain)
BuildCountSql(chain, st) ==
    AddWhere(Built([NoSql EXCEPT !.verb = "SELECT", !.cols = <<[fn |-> "Count", col |-> "*"]>>], st), chain)

BuildReturningClause(chain) ==
    LET args == First(chain, "returning")
    IN  IF args = <<>> \/ args[1] = <<>> THEN Star
        ELSE IF args[1][1].k = "Array" THEN Cols(ExtractStringList(args[1][1].args))
        ELSE IF ExtractStringLit(args[1][1]) # <<>> THEN Cols(ExtractStringLit(args[1][1]))
        ELSE Star

InsertFields == LET fs == SelectSeq(Fields, LAMBDA f : ~f.auto) IN [i \in DOMAIN fs |-> fs[i].name]
\* Without data the placeholders are counted and have no parameter; a field
\* the object does not give is NULL; anything else is one parameter.
BuildInsertOneValues(data, st) ==
    IF data = <<>> THEN [row |-> [i \in DOMAIN InsertFields |-> Ph(st.idx + i - 1)], st |-> [st EXCEPT !.idx = @ + Len(InsertFields)]]
    ELSE IF data[1].k # "Struct" THEN [row |-> <<Ph(st.idx)>>, st |-> PushParam(st, data[1])]
    ELSE LET given(n) == SelectSeq(data[1].fields, LAMBDA p : p[1] = n)
             one(acc, n) == IF given(n) = <<>> THEN [acc EXCEPT !.row = Append(@, Null)]
                            ELSE [row |-> Append(acc.row, Ph(acc.st.idx)), st |-> PushParam(acc.st, given(n)[1][2])]
         IN  FoldLeft(one, [row |-> <<>>, st |-> st], InsertFields)
AddRow(acc, r) == [rows |-> Append(acc.rows, r.row), st |-> r.st]
NoRows(st) == [rows |-> <<>>, st |-> st]
BuildInsertManyValues(data, st) ==
    IF data # <<>> /\ data[1].k = "Array"
    THEN FoldLeft(LAMBDA acc, e : AddRow(acc, BuildInsertOneValues(<<e>>, acc.st)), NoRows(st), data[1].args)
    ELSE AddRow(NoRows(st), BuildInsertOneValues(data, st))
WithRows(sql, r) == Built([sql EXCEPT !.rows = r.rows], r.st)
BuildInsertSql(chain, st, many) ==
    IF InsertFields = <<>> THEN Built([NoSql EXCEPT !.verb = "INSERT", !.rows = <<<<>>>>, !.ret = Star], st)
    ELSE WithRows([NoSql EXCEPT !.verb = "INSERT", !.ret = BuildReturningClause(chain)],
                  IF many THEN BuildInsertManyValues(chain.data, st) ELSE AddRow(NoRows(st), BuildInsertOneValues(chain.data, st)))

SetTo(f, op, term) == [field |-> f, op |-> op, term |-> term]
AddSet(acc, f, op, e) == [sets |-> Append(acc.sets, SetTo(f, op, Ph(acc.st.idx))), st |-> PushParam(acc.st, e)]
BuildSetClause(args, acc) == FoldLeft(LAMBDA a, p : AddSet(a, p[1], "=", p[2]), acc, FieldsOf(args))
BuildIncrementClause(acc, args, op) ==
    IF Len(args) >= 2 THEN IF ExtractStringLit(args[1]) = <<>> THEN acc ELSE AddSet(acc, ExtractStringLit(args[1])[1], op, args[2])
    ELSE IF args = <<>> \/ args[1].k # "Struct" THEN acc
    ELSE IF FieldsOf(args) = <<>> THEN [acc EXCEPT !.sets = Append(@, SetTo("", op, Null))]
    ELSE FoldLeft(LAMBDA a, p : AddSet(a, p[1], op, p[2]), acc, FieldsOf(args))
BuildSetClauses(chain, start) ==
    FoldLeft(LAMBDA acc, c : IF c.m = "increment" THEN BuildIncrementClause(acc, c.args, "+")
                             ELSE IF c.m = "decrement" THEN BuildIncrementClause(acc, c.args, "-") ELSE acc,
             IF HasClause(chain, "set") THEN BuildSetClause(First(chain, "set")[1], start) ELSE start, chain.clauses)
WithSets(sql, sets) == Built([sql EXCEPT !.sets = sets.sets], sets.st)
BuildUpdateSql(chain, st) ==
    AddWhere(WithSets([NoSql EXCEPT !.verb = "UPDATE", !.ret = BuildReturningClause(chain)],
                      BuildSetClauses(chain, [sets |-> <<>>, st |-> st])), chain)
BuildDeleteSql(chain, st) ==
    AddWhere(Built([NoSql EXCEPT !.verb = "DELETE", !.ret = BuildReturningClause(chain)], st), chain)

HasFilter(chain) == \E i \in DOMAIN chain.clauses : chain.clauses[i].m \in FilterClauses
BuildStatement(chain) ==
    CASE chain.op \in {"find", "findOne"} -> BuildSelectSql(chain, SqlStart, chain.terminal = "execOne" \/ chain.op = "findOne")
      [] chain.op = "count" -> BuildCountSql(chain, SqlStart)
      [] chain.op \in {"insert", "insertMany"} -> BuildInsertSql(chain, SqlStart, chain.op = "insertMany")
      [] chain.op = "update" -> BuildUpdateSql(chain, SqlStart)
      [] chain.op = "delete" -> BuildDeleteSql(chain, SqlStart)
Lowered(err, b) == [sql |-> b.sql, ps |-> b.st.ps, err |-> err]
PlanError(chain) == IF chain.model # ModelName THEN "UnknownModel" ELSE FirstError(<<ValidatePlanFields(chain), ValidatePlanTypes(chain)>>)
BuildSql(chain) ==
    IF PlanError(chain) # "" THEN Lowered(PlanError(chain), Built(NoSql, SqlStart))
    ELSE Lowered(IF chain.op \in {"update", "delete"} /\ ~HasFilter(chain) THEN "MissingWhere" ELSE "", BuildStatement(chain))

\* The parameters as they reach the driver: constants are written when the
\* program is compiled; otherwise an array of unknown type is written as if it
\* were one string, and whatever its first bytes are is the only parameter.
LiteralExprToJson(e) == e.k = "Const" \/ (e.k = "Array" /\ \A i \in DOMAIN e.args : e.args[i].k = "Const")
ParamValue(e) == IF e.k = "Const" THEN e.val ELSE Val("Array", 0, "")
BuildParamsOperand(ps) ==
    IF \A i \in DOMAIN ps : LiteralExprToJson(ps[i]) THEN [i \in DOMAIN ps |-> ParamValue(ps[i])] ELSE <<StrVal("bytes")>>

\* CREATE TABLE IF NOT EXISTS
MapTypeToSql(f) == [name |-> f.name, ty |-> f.ty, notNull |-> ~f.opt \/ f.primary, serial |-> f.primary /\ f.auto]
BuildCreateTable == [i \in DOMAIN Fields |-> MapTypeToSql(Fields[i])]

-----------------------------------------------------------------------------
(* The server.  A table is [exists, cols, rows], a row a function from its  *)
(* column names to values; truth is 2, unknown 1 and false 0.               *)
ColumnNames(t) == {t.cols[i].name : i \in DOMAIN t.cols}
ColumnOf(t, n) == CHOOSE c \in Range(t.cols) : c.name = n
Term(x, ps) == IF x.k = "ph" THEN ps[x.n] ELSE IF x.k = "null" THEN Nil ELSE IntVal(x.n)
Truth(b) == IF b THEN 2 ELSE 0
Least(S) == IF S = {} THEN 2 ELSE CHOOSE x \in S : \A y \in S : x <= y
Greatest(S) == IF S = {} THEN 0 ELSE CHOOSE x \in S : \A y \in S : x >= y
Compare(op, a, b) ==
    IF Nil \in {a, b} THEN 1
    ELSE Truth(CASE op = "Eq" -> a = b [] op = "Ne" -> a # b [] op = "Gt" -> a.n > b.n [] op = "Gte" -> a.n >= b.n
                 [] op = "Lt" -> a.n < b.n [] op = "Lte" -> a.n <= b.n [] op \in {"Like", "ILike"} -> <<b.s, a.s>> \in Likes)
OneOf(a, S) == Greatest({Compare("Eq", a, b) : b \in S})
Within(a, b, c) == Least({Compare("Gte", a, b), Compare("Lte", a, c)})
RECURSIVE Eval(_, _, _)
EvalAtom(a, row, ps) ==
    CASE a.op \in {"paren", "not"} -> IF a.op = "not" THEN 2 - Eval(a.sub, row, ps) ELSE Eval(a.sub, row, ps)
      [] a.op \in {"true", "false"} -> Truth(a.op = "true")
      [] a.op = "IsNull" -> Truth(row[a.field] = Nil)
      [] a.op = "IsNotNull" -> Truth(row[a.field] # Nil)
      [] a.op = "Column" -> Compare("Eq", row[a.field], row[a.sub[1][1].field])
      [] a.op = "In" -> OneOf(row[a.field], {Term(x, ps) : x \in Range(a.terms)})
      [] a.op = "NotIn" -> 2 - OneOf(row[a.field], {Term(x, ps) : x \in Range(a.terms)})
      [] a.op = "Between" -> Within(row[a.field], Term(a.terms[1], ps), Term(a.terms[2], ps))
      [] OTHER -> Compare(a.op, row[a.field], Term(a.terms[1], ps))
Eval(text, row, ps) == IF text = <<>> THEN 2 ELSE Greatest({Least({EvalAtom(a, row, ps) : a \in Range(text[i])}) : i \in DOMAIN text})

\* Whether the server prepares a statement: columns exist, operands have the
\* type of their column, every placeholder has a parameter and none is over.
TermOk(x, ty, ps) == x.k # "ph" \/ (x.n \in DOMAIN ps /\ ps[x.n].t \in {ty, "Nil"})
RECURSIVE TextOk(_, _, _)
TextOk(text, t, ps) == \A i \in DOMAIN text : \A a \in Range(text[i]) :
    CASE a.op = "missing" -> FALSE
      [] a.op \in {"paren", "not"} -> TextOk(a.sub, t, ps)
      [] a.op \in {"true", "false"} -> TRUE
      [] a.op = "Column" -> {a.field, a.sub[1][1].field} \subseteq ColumnNames(t) /\ ColumnOf(t, a.field).ty = ColumnOf(t, a.sub[1][1].field).ty
      [] OTHER -> a.field \in ColumnNames(t) /\ \A x \in Range(a.terms) : TermOk(x, ColumnOf(t, a.field).ty, ps)
ColsOk(cols, t) == cols # <<>> /\ \A c \in Range(cols) : c.col = "*" \/ c.col \in ColumnNames(t)
RECURSIVE TextTerms(_)
TextTerms(text) == UNION {UNION {Range(a.terms) \cup TextTerms(a.sub) : a \in Range(text[i])} : i \in DOMAIN text}
TermsIn(sql) == TextTerms(sql.where) \cup UNION {TextTerms(sql.having[i]) : i \in DOMAIN sql.having} \cup Range(sql.limit) \cup Range(sql.offset)
                \cup UNION {Range(sql.rows[i]) : i \in DOMAIN sql.rows} \cup {sql.sets[i].term : i \in DOMAIN sql.sets}
Grouped(sql) == sql.group # <<>> \/ \E c \in Range(sql.cols) : c.fn # ""
Names(cols, t) == IF cols = Star THEN ColumnNames(t) ELSE {c.col : c \in Range(cols)}
SelectOk(sql, t) ==
    /\ ColsOk(sql.cols, t) /\ \A c \in Range(sql.cols) : c.fn # "" /\ c.fn # "Count" => c.col # "*"
    /\ Range(sql.group) \cup {o[1] : o \in Range(sql.order)} \subseteq ColumnNames(t)
    /\ IF Grouped(sql) THEN /\ Names(SelectSeq(sql.cols, LAMBDA c : c.fn = ""), t) \cup {o[1] : o \in Range(sql.order)} \subseteq Range(sql.group)
                            /\ \A h \in Range(sql.having) : h # <<>> /\ \A a \in UNION {Range(p) : p \in Range(h)} : a.field \in Range(sql.group) \cup {""}
       ELSE sql.having = <<>>
    /\ sql.distinct => {o[1] : o \in Range(sql.order)} \subseteq Names(sql.cols, t)
PrepareOk(sql, t, ps) ==
    /\ t.exists
    /\ {x.n : x \in {y \in TermsIn(sql) : y.k = "ph"}} = DOMAIN ps
    /\ TextOk(sql.where, t, ps) /\ \A h \in Range(sql.having) : TextOk(h, t, ps)
    /\ \A x \in Range(sql.limit \o sql.offset) : TermOk(x, "Int", ps)
    /\ CASE sql.verb = "SELECT" -> SelectOk(sql, t)
         [] sql.verb = "INSERT" -> /\ ColsOk(sql.ret, t) /\ sql.rows # <<>> /\ Range(InsertFields) \subseteq ColumnNames(t)
                                   /\ \A r \in Range(sql.rows) : Len(r) = Len(InsertFields) /\ \A i \in DOMAIN r : TermOk(r[i], ColumnOf(t, InsertFields[i]).ty, ps)
         [] sql.verb = "UPDATE" -> /\ ColsOk(sql.ret, t) /\ sql.sets # <<>>
                                   /\ \A i, j \in DOMAIN sql.sets : sql.sets[i].field = sql.sets[j].field => i = j
                                   /\ \A x \in Range(sql.sets) : x.field \in ColumnNames(t) /\ TermOk(x.term, ColumnOf(t, x.field).ty, ps)
                                                                 /\ (x.op # "=" => ColumnOf(t, x.field).ty = "Int")
         [] OTHER -> ColsOk(sql.ret, t)

\* What a query may answer: rows in any order its ORDER BY allows, cut by its
\* OFFSET and LIMIT.  NULL comes last in ascending order; only numbers are
\* ordered here.
Before(a, b, o) ==
    LET less(x, y) == x # Nil /\ (y = Nil \/ x.n < y.n)
    IN  IF o[2] = "ASC" THEN less(a[o[1]], b[o[1]]) ELSE less(b[o[1]], a[o[1]])
InOrder(a, b, order) == \A i \in DOMAIN order : Before(b, a, order[i]) => \E j \in 1..(i - 1) : Before(a, b, order[j])
Orderings(S, order) == {s \in [1..Cardinality(S) -> S] : /\ \A i, j \in DOMAIN s : i # j => s[i] # s[j]
                                                         /\ \A i, j \in DOMAIN s : i < j => InOrder(s[i].src, s[j].src, order)}
Cut(s, limit, offset) ==
    LET from == IF offset = <<>> THEN 1 ELSE offset[1] + 1
        to == IF limit = <<>> THEN Len(s) ELSE from + limit[1] - 1
    IN  SubSeq(s, from, IF to > Len(s) THEN Len(s) ELSE to)
Total(f, S) == FoldLeft(LAMBDA a, r : a + r[f].n, 0, SetToSeq(S))
Aggregated(c, S) ==
    LET known == {r \in S : c.col = "*" \/ r[c.col] # Nil}
    IN  CASE c.fn = "" -> (CHOOSE r \in S : TRUE)[c.col]
          [] c.fn = "Count" -> IntVal(Cardinality(known))
          [] known = {} -> Nil
          [] c.fn = "Sum" -> IntVal(Total(c.col, known))
          [] c.fn = "Avg" -> Val("Ratio", (100 * Total(c.col, known)) \div Cardinality(known), "")
          [] c.fn = "Min" -> IntVal(Least({r[c.col].n : r \in known}))
          [] c.fn = "Max" -> IntVal(Greatest({r[c.col].n : r \in known}))
Projected(cols, row) == IF cols = Star THEN LET fs == SelectSeq(Fields, LAMBDA f : f.name \in DOMAIN row) IN [i \in DOMAIN fs |-> row[fs[i].name]] ELSE [i \in DOMAIN cols |-> row[cols[i].col]]
Groups(rows, group) ==
    IF group = <<>> THEN {rows}
    ELSE {{r \in rows : \A i \in DOMAIN group : r[group[i]] = x[group[i]]} : x \in rows}
QueryAnswers(q, rows) ==
    LET grouped == {[src |-> CHOOSE r \in g : TRUE, out |-> [i \in DOMAIN q.cols |-> Aggregated(q.cols[i], g)]] : g \in {h \in Groups(rows, q.group) : h # {} /\ q.keep[CHOOSE r \in h : TRUE]}}
        empty == IF q.group = <<>> /\ rows = {} THEN {[src |-> <<>>, out |-> [i \in DOMAIN q.cols |-> Aggregated(q.cols[i], {})]]} ELSE {}
        plain == {[src |-> r, out |-> Projected(q.cols, r)] : r \in rows}
        entries == IF q.grouped THEN grouped \cup empty
                   ELSE IF q.distinct THEN {CHOOSE e \in plain : e.out = x : x \in {e.out : e \in plain}} ELSE plain
    IN  {Cut([i \in DOMAIN s |-> s[i].out], q.limit, q.offset) : s \in Orderings(entries, q.order)}
AnyOrder(rows, cols) == {[i \in DOMAIN s |-> Projected(cols, s[i].src)] : s \in Orderings({[src |-> r] : r \in rows}, <<>>)}

\* The rows after the statement, or that a constraint refuses it.
NextId(rows) == 1 + Greatest({r["id"].n : r \in rows})
Inserted(t, values) ==
    LET row(i) == [n \in ColumnNames(t) |-> IF ColumnOf(t, n).serial THEN IntVal(NextId(t.rows) + i - 1)
                                            ELSE IF n \in Range(InsertFields) THEN values[i][CHOOSE k \in DOMAIN InsertFields : InsertFields[k] = n] ELSE Nil]
    IN  {row(i) : i \in DOMAIN values}
ConstraintsHold(t, rows) == \A r \in rows : \A c \in Range(t.cols) : c.notNull => r[c.name] # Nil
NewValue(x, old, v) == IF x.op = "=" THEN v ELSE IF Nil \in {old, v} THEN Nil ELSE IntVal(IF x.op = "+" THEN old.n + v.n ELSE old.n - v.n)
Updated(row, sets, ps) == [n \in DOMAIN row |-> IF \E x \in Range(sets) : x.field = n
                                                THEN LET x == CHOOSE y \in Range(sets) : y.field = n IN NewValue(x, row[n], Term(x.term, ps)) ELSE row[n]]
Done(t, touched, out) == [ok |-> TRUE, table |-> t, touched |-> touched, out |-> out]
Refused(t) == [ok |-> FALSE, table |-> t, touched |-> {}, out |-> <<>>]
Changed(t, rows, new, cols) == IF ConstraintsHold(t, new) THEN {Done([t EXCEPT !.rows = (@ \ rows) \cup new], rows, o) : o \in AnyOrder(new, cols)} ELSE {Refused(t)}
Execute(sql, t, ps) ==
    LET chosen == {r \in t.rows : Eval(sql.where, r, ps) = 2}
        ints(x) == [i \in DOMAIN x |-> Term(x[i], ps).n]
        q == [cols |-> sql.cols, distinct |-> sql.distinct, grouped |-> Grouped(sql), group |-> sql.group, order |-> sql.order,
              keep |-> [r \in t.rows |-> \A h \in Range(sql.having) : Eval(h, r, ps) = 2], limit |-> ints(sql.limit), offset |-> ints(sql.offset)]
        values == [i \in DOMAIN sql.rows |-> [j \in DOMAIN sql.rows[i] |-> Term(sql.rows[i][j], ps)]]
    IN  IF ~PrepareOk(sql, t, ps) THEN {Refused(t)}
        ELSE CASE sql.verb = "SELECT" -> {Done(t, {}, o) : o \in QueryAnswers(q, chosen)}
               [] sql.verb = "INSERT" -> Changed(t, {}, Inserted(t, values), sql.ret)
               [] sql.verb = "UPDATE" -> Changed(t, chosen, {Updated(r, sql.sets, ps) : r \in chosen}, sql.ret)
               [] sql.verb = "DELETE" -> {Done([t EXCEPT !.rows = @ \ chosen], chosen, o) : o \in AnyOrder(chosen, sql.ret)}

-----------------------------------------------------------------------------
(* From the chain to the answer.                                            *)
QueryStart(w, t, fallible) == [w |-> w, before |-> t, table |-> t, fallible |-> fallible, pc |-> "lower", built |-> [sql |-> NoSql, ps |-> <<>>, err |-> ""],
                               out |-> <<>>, touched |-> {}]
QueryInit == qb \in {QueryStart(w, t, f) : w \in Chains, t \in TableContents, f \in BOOLEAN}

TryLowerQueryChain ==
    /\ qb.pc = "lower"
    /\ \E chain \in {ExtractChain(qb.w)} :
          \/ chain = <<>> /\ qb' = [qb EXCEPT !.pc = "no query"]
          \/ /\ chain # <<>>
             /\ \E b \in {BuildSql(chain[1])} :
                   qb' = [qb EXCEPT !.built = b, !.pc = IF b.err # "" THEN "compile error" ELSE IF qb.w.terminal = "toSql" THEN "text" ELSE "migrate"]
EmitModelAutoMigration ==
    /\ qb.pc = "migrate"
    /\ qb' = [qb EXCEPT !.pc = "query", !.table = IF @.exists THEN @ ELSE [exists |-> TRUE, cols |-> BuildCreateTable, rows |-> {}]]
RawParam ==
    /\ qb.pc = "query"
    /\ \E r \in Execute(qb.built.sql, qb.table, BuildParamsOperand(qb.built.ps)) :
          qb' = [qb EXCEPT !.pc = IF r.ok THEN "value" ELSE "refused", !.table = r.table, !.out = r.out, !.touched = r.touched]
ConnectionFails == qb.pc \in {"migrate", "query"} /\ qb' = [qb EXCEPT !.pc = "failed"]
ErrBlock == qb.pc \in {"refused", "failed"} /\ qb' = [qb EXCEPT !.pc = IF qb.fallible THEN "returned Err" ELSE "panicked"]

QueryNext == TryLowerQueryChain \/ EmitModelAutoMigration \/ RawParam \/ ConnectionFails \/ ErrBlock

-----------------------------------------------------------------------------
(* What a chain means, said of its clauses in the order they are written    *)
(* and without placeholders.                                                *)
Meets(v, e) ==
    CASE e.k = "Const" -> Compare("Eq", v, e.val)
      [] e.name \in {"IsNull", "IsNotNull"} -> Truth((v = Nil) <=> (e.name = "IsNull"))
      [] e.name = "In" -> OneOf(v, {a.val : a \in Range(e.args[1].args)})
      [] e.name = "NotIn" -> 2 - OneOf(v, {a.val : a \in Range(e.args[1].args)})
      [] e.name = "Between" -> Within(v, e.args[1].val, e.args[2].val)
      [] OTHER -> Compare(e.name, v, e.args[1].val)
Object(args, row) == Least({Meets(row[FieldsOf(args)[i][1]], FieldsOf(args)[i][2]) : i \in DOMAIN FieldsOf(args)})
Filters(c, row) ==
    CASE c.m \in {"where", "orWhere"} -> Object(c.args, row)
      [] c.m = "whereNot" -> IF FieldsOf(c.args) = <<>> THEN 2 ELSE 2 - Object(c.args, row)
      [] c.m = "whereIn" -> OneOf(row[c.args[1].val.s], {a.val : a \in Range(c.args[2].args)})
      [] c.m \in {"whereNull", "whereNotNull"} -> Least({Truth((row[a.val.s] = Nil) <=> (c.m = "whereNull")) : a \in Range(c.args)})
      [] c.m = "whereBetween" -> Within(row[c.args[1].val.s], c.args[2].val, c.args[3].val)
FiltersOf(w) == {c \in Range(w.clauses) : c.m \in FilterClauses}
Meant(w, rows) == {r \in rows : \A c \in FiltersOf(w) : Filters(c, r) = 2}
LastOf(w, m) == LET s == SelectSeq(w.clauses, LAMBDA c : c.m = m) IN IF s = <<>> THEN <<>> ELSE Last(s).args
Wrote(w, m) == \E c \in Range(w.clauses) : c.m = m
MeantQuery(w, t) ==
    LET number(m) == IF Wrote(w, m) THEN <<LastOf(w, m)[1].val.n>> ELSE <<>>
        all == [r \in t.rows |-> TRUE]
    IN  IF w.op = "count"
        THEN [cols |-> <<[fn |-> "Count", col |-> "*"]>>, distinct |-> FALSE, grouped |-> TRUE, group |-> <<>>, order |-> <<>>, keep |-> all, limit |-> <<>>, offset |-> <<>>]
        ELSE [cols |-> IF Wrote(w, "aggregate") THEN BuildAggregateCols(LastOf(w, "aggregate"))
                       ELSE IF ExtractStringList(LastOf(w, "select")) # <<>> THEN Cols(ExtractStringList(LastOf(w, "select"))) ELSE Star,
              distinct |-> Wrote(w, "distinct"), grouped |-> Wrote(w, "aggregate") \/ Wrote(w, "groupBy"),
              group |-> ExtractStringList(LastOf(w, "groupBy")), order |-> BuildOrderBy(LastOf(w, "orderBy")),
              keep |-> IF Wrote(w, "having") THEN [r \in t.rows |-> Object(LastOf(w, "having"), r) = 2] ELSE all,
              limit |-> IF w.op = "findOne" \/ w.terminal = "execOne" THEN <<1>> ELSE number("limit"), offset |-> number("offset")]
SetsOf(w) == LET pairs(args, op) == [i \in DOMAIN FieldsOf(args) |-> <<FieldsOf(args)[i][1], op, FieldsOf(args)[i][2].val>>]
                 one(c) == LET op == IF c.m = "increment" THEN "+" ELSE "-" IN IF Len(c.args) = 2 THEN <<<<c.args[1].val.s, op, c.args[2].val>>>> ELSE pairs(c.args, op)
             IN  pairs(LastOf(w, "set"), "=") \o FlattenSeq([i \in DOMAIN w.clauses |-> IF w.clauses[i].m \in {"increment", "decrement"} THEN one(w.clauses[i]) ELSE <<>>])
MeantRow(w, row) == [n \in DOMAIN row |-> IF \E x \in Range(SetsOf(w)) : x[1] = n
                                          THEN LET x == CHOOSE y \in Range(SetsOf(w)) : y[1] = n IN NewValue([op |-> x[2]], row[n], x[3]) ELSE row[n]]
Given(data) == [i \in DOMAIN InsertFields |-> LET s == SelectSeq(data.fields, LAMBDA p : p[1] = InsertFields[i]) IN IF s = <<>> THEN Nil ELSE s[1][2].val]
DataOf(w) == IF w.data[1].k = "Array" THEN w.data[1].args ELSE w.data

\* Chains whose operands are all constants of the clause's form.
Constant(e) == e.k = "Const"
Constants(e) == e.k = "Array" /\ \A i \in DOMAIN e.args : Constant(e.args[i])
PlainCondition(e) == \/ Constant(e) \/ (e.k \in {"Local", "Call"} /\ e.name \in {"IsNull", "IsNotNull"})
                     \/ e.k = "Call" /\ e.name \in {"Gt", "Gte", "Lt", "Lte", "Ne", "Like", "ILike"} /\ Len(e.args) = 1 /\ Constant(e.args[1])
                     \/ e.k = "Call" /\ e.name \in {"In", "NotIn"} /\ Len(e.args) = 1 /\ Constants(e.args[1])
                     \/ e.k = "Call" /\ e.name = "Between" /\ Len(e.args) = 2 /\ \A i \in 1..2 : Constant(e.args[i])
IsName(e) == Constant(e) /\ e.val.t = "Str"
PlainClause(c) ==
    CASE c.m \in {"where", "orWhere", "whereNot", "having"} -> Len(c.args) = 1 /\ c.args[1].k = "Struct" /\ \A p \in Range(FieldsOf(c.args)) : PlainCondition(p[2])
      [] c.m = "whereIn" -> Len(c.args) = 2 /\ IsName(c.args[1]) /\ Constants(c.args[2])
      [] c.m \in {"whereNull", "whereNotNull"} -> \A a \in Range(c.args) : IsName(a)
      [] c.m = "whereBetween" -> Len(c.args) = 3 /\ IsName(c.args[1]) /\ Constant(c.args[2]) /\ Constant(c.args[3])
      [] c.m \in {"limit", "offset"} -> c.args[1].val.t = "Int"
      [] c.m = "set" -> \A p \in Range(FieldsOf(c.args)) : Constant(p[2])
      [] c.m \in {"increment", "decrement"} -> IF Len(c.args) = 2 THEN IsName(c.args[1]) /\ Constant(c.args[2]) ELSE \A p \in Range(FieldsOf(c.args)) : Constant(p[2])
      [] c.m = "returning" -> c.args # <<>> => ExtractStringList(c.args) # <<>>
      [] OTHER -> c.m # "exclude"
PlainData(w) == w.op \in {"insert", "insertMany"} =>
    w.data # <<>> /\ \A e \in Range(DataOf(w)) : e.k = "Struct" /\ \A p \in Range(e.fields) : Constant(p[2])
Plain(w) == PlainData(w) /\ \A c \in Range(w.clauses) : PlainClause(c)
Typed(n, v, op) == LET f == FieldOf(n) IN IF v = Nil THEN f.opt ELSE v.t = f.ty /\ (op # "=" => f.ty = "Int")

\* What the compiler does not look at and the server refuses.
Supported(w) ==
    LET names(S) == {p[1] : p \in S}
        group == Range(ExtractStringList(LastOf(w, "groupBy")))
    IN  CASE w.op \in {"insert", "insertMany"} ->
                DataOf(w) # <<>> /\ \A e \in Range(DataOf(w)) : \A i \in DOMAIN InsertFields : Typed(InsertFields[i], Given(e)[i], "=")
          [] w.op = "update" -> /\ SetsOf(w) # <<>> /\ \A i, j \in DOMAIN SetsOf(w) : SetsOf(w)[i][1] = SetsOf(w)[j][1] => i = j
                                /\ \A x \in Range(SetsOf(w)) : x[1] \in FieldNames /\ Typed(x[1], x[3], x[2])
                                /\ \A c \in Range(w.clauses) : c.m \in {"increment", "decrement"} => Len(c.args) = 2 \/ FieldsOf(c.args) # <<>>
          [] w.op \in {"find", "findOne"} /\ Wrote(w, "aggregate") ->
                /\ \A c \in Range(BuildAggregateCols(LastOf(w, "aggregate"))) : c.fn # "" /\ (c.col \in FieldNames \/ (c.fn = "Count" /\ c.col = "*"))
                /\ names(Range(BuildOrderBy(LastOf(w, "orderBy")))) \cup names(Range(FieldsOf(LastOf(w, "having")))) \subseteq group
                /\ Wrote(w, "having") => FieldsOf(LastOf(w, "having")) # <<>> /\ ValidateClauseTypes([m |-> "where", args |-> LastOf(w, "having")]) = ""
          [] w.op \in {"find", "findOne"} ->
                /\ ~Wrote(w, "groupBy") /\ ~Wrote(w, "having")
                /\ Wrote(w, "distinct") => names(Range(BuildOrderBy(LastOf(w, "orderBy")))) \subseteq Names(MeantQuery(w, [rows |-> {}]).cols, [cols |-> BuildCreateTable])
          [] OTHER -> TRUE

-----------------------------------------------------------------------------
(* Properties.                                                              *)

\* A query with constant operands answers, and changes, exactly the rows its
\* clauses mean, whatever their number and order: every placeholder meets its
\* own parameter, and the text the server reads groups the conditions as they
\* were written (orWhere apart: the clauses are collected from the last one).
QueryMeant ==
    (qb.pc = "value" /\ Plain(qb.w) /\ ~Wrote(qb.w, "orWhere")) =>
        LET t == IF qb.before.exists THEN qb.before ELSE [qb.before EXCEPT !.rows = {}]
            rows == Meant(qb.w, t.rows)
        IN  CASE qb.w.op \in {"find", "findOne", "count"} -> qb.table.rows = t.rows /\ qb.out \in QueryAnswers(MeantQuery(qb.w, t), rows)
              [] qb.w.op = "delete" -> qb.table.rows = t.rows \ rows /\ Len(qb.out) = Cardinality(rows)
              [] qb.w.op = "update" -> qb.table.rows = (t.rows \ rows) \cup {MeantRow(qb.w, r) : r \in rows} /\ Len(qb.out) = Cardinality(rows)
              [] OTHER -> qb.table.rows = t.rows \cup Inserted([qb.table EXCEPT !.rows = t.rows], [i \in DOMAIN DataOf(qb.w) |-> Given(DataOf(qb.w)[i])])

\* A chain the compiler lets through, with constant operands and within what
\* SQL can say, is not refused by a server whose table has the model's columns.
NotRefused ==
    qb.pc = "refused" /\ Plain(qb.w) /\ Supported(qb.w) => ~(FieldNames \subseteq ColumnNames(qb.table))

\* No bulk change by accident: every row an update or delete touches meets one
\* of the filters that were written, when one of them says anything by itself.
Says(c) == c.m # "orWhere" /\ (c.m \in {"where", "whereNot"} => FieldsOf(c.args) # <<>>) /\ (c.m \in {"whereNull", "whereNotNull"} => c.args # <<>>)
TouchesOnlyFiltered ==
    (qb.pc = "value" /\ Plain(qb.w) /\ \E c \in FiltersOf(qb.w) : Says(c)) =>
        \A r \in qb.touched : \E c \in FiltersOf(qb.w) : Filters(c, r) = 2

\* What a chain of the query builder promises: it means what its clauses say, the
\* server accepts it, and no row outside its filters is changed.
QueriesSound == QueryMeant /\ NotRefused /\ TouchesOnlyFiltered
=============================================================================

----------------------------- MODULE SchemaPlan -----------------------------
(***************************************************************************)
(* Planning a database migration (doo_migrate: extract.rs, introspect.rs,  *)
(* diff.rs, plan.rs, sql.rs, lib.rs): the schema a Doo program wants, the  *)
(* difference to the schema of the database, the ordered plan with its     *)
(* risks and batches, and the statements it turns into, run against a      *)
(* model of PostgreSQL.  A database sees a sequence of programs, so that   *)
(* it holds what earlier plans left, not what a fresh one would create.    *)
(* Module Migration models the execution of a plan (lock, transaction,     *)
(* history).  Lists built from hash maps are taken in one arbitrary order. *)
(***************************************************************************)
EXTENDS Integers, Sequences, FiniteSets, SequencesExt

CONSTANTS Programs,            \* the programs the database is migrated to
          TableOrder,          \* the table names in alphabetical order
          MaxRuns              \* bound: migrations of one database

VARIABLES sp
Nil == "none"
Ty(k) == <<k, Nil>>           \* a PostgreSQL type: its kind, and the enum's name
NoPk == [name |-> Nil, cols |-> <<>>]

-----------------------------------------------------------------------------
\* Extraction.  A program: its structs in order (their @table name, Nil for the
\* default name, "-" without the decorator), the app.auth and app.crud calls as
\* struct and table, its enums.  A field: name, kind, what the kind names, decorators.
StructNamed(p, s) == CHOOSE x \in Range(p.structs) : x.name = s
ImplicitTable(p, s) == LET c == SelectSeq(p.calls, LAMBDA x : x.struct = s) IN IF c = <<>> THEN "-" ELSE c[1].table
IsTable(p, s) == StructNamed(p, s).table # "-" \/ ImplicitTable(p, s) # "-"
ResolveTableName(p, s) == IF StructNamed(p, s).table \in {"-", Nil} THEN StructNamed(p, s).plural ELSE StructNamed(p, s).table
RECURSIVE ResolveTransitiveDeps(_, _, _)
\* The enums and structs behind a type; a struct that is a table ends the walk.
ResolveTransitiveDeps(p, f, visited) ==
    CASE f.k = "enum" -> {f.of}
      [] f.k = "struct" /\ f.of \notin visited /\ ~IsTable(p, f.of) ->
            {f.of} \cup UNION {ResolveTransitiveDeps(p, g, visited \cup {f.of}) : g \in Range(StructNamed(p, f.of).fields)}
      [] OTHER -> {}
ResolveSqlType(f) ==
    CASE f.k = "int" -> IF "auto" \in f.d THEN Ty("serial") ELSE Ty("int")
      [] f.k = "str" -> Ty("text")
      [] f.k = "enum" -> <<"enum", f.of>>
      [] OTHER -> Ty("jsonb")
ColumnOf(f) == [n |-> f.n, t |-> ResolveSqlType(f), nul |-> f.d \cap {"optional", "internal"} # {},
                def |-> f.def, auto |-> "auto" \in f.d]
Stamp(n) == [n |-> n, t |-> Ty("timestamptz"), nul |-> FALSE, def |-> "now", auto |-> FALSE]
With(s, dec) == {f \in Range(s.fields) : dec \in f.d}
BuildTableDef(p, s, table) ==
    LET named == [i \in DOMAIN s.fields |-> ColumnOf(s.fields[i])]
        stamps == SelectSeq(<<Stamp("created_at"), Stamp("updated_at")>>, LAMBDA c : \A f \in Range(s.fields) : f.n # c.n)
        keys == SelectSeq(s.fields, LAMBDA f : "primary" \in f.d)
    IN  [name |-> table,
         cols |-> IF s.stamped THEN named \o stamps ELSE named,
         pk |-> IF keys = <<>> THEN NoPk ELSE [name |-> <<table, "pkey">>, cols |-> [i \in DOMAIN keys |-> keys[i].n]],
         uniq |-> {[name |-> <<table, f.n, "key">>, col |-> f.n] : f \in With(s, "unique")},
         idx |-> {[name |-> <<"idx", table, f.n>>, col |-> f.n] : f \in With(s, "index")},
         fks |-> {[name |-> <<table, f.n, "fkey">>, col |-> f.n, ref |-> ResolveTableName(p, f.ref), del |-> "cascade"] : f \in With(s, "foreign")},
         deps |-> UNION {ResolveTransitiveDeps(p, f, {}) : f \in Range(s.fields)}]
\* Declared tables in order, then the implicit ones.
ExtractFromHir(p) ==
    LET decl == SelectSeq(p.structs, LAMBDA s : s.table # "-")
        impl == SelectSeq(p.structs, LAMBDA s : s.table = "-" /\ ImplicitTable(p, s.name) # "-")
        tabs == [i \in DOMAIN decl |-> BuildTableDef(p, decl[i], ResolveTableName(p, decl[i].name))]
                \o [i \in DOMAIN impl |-> BuildTableDef(p, impl[i], ImplicitTable(p, impl[i].name))]
    IN  [tabs |-> tabs, enums |-> {e \in p.enums : \E t \in Range(tabs) : e.name \in t.deps}]

\* Introspection: tables by name, columns in the order they were added.
Plain(t) == [t EXCEPT !.cols = [i \in DOMAIN t.cols |-> [n |-> t.cols[i].n, t |-> t.cols[i].t, nul |-> t.cols[i].nul,
                                                         def |-> t.cols[i].def, auto |-> t.cols[i].auto]]]
Table(d, n) == CHOOSE t \in d.tabs : t.name = n
HasTable(d, n) == \E t \in d.tabs : t.name = n
IntrospectSchema(d) ==
    LET names == SelectSeq(TableOrder, LAMBDA n : HasTable(d, n))
    IN  [tabs |-> [i \in DOMAIN names |-> Plain(Table(d, names[i]))], enums |-> d.enums]

-----------------------------------------------------------------------------
\* The difference: a sequence of changes, each with its kind and operands.
Ch(k, t, x) == [k |-> k, t |-> t, x |-> x]
NoCh == Ch(Nil, Nil, [n |-> Nil])
Names(s) == {x.name : x \in Range(s)}
ColNames(t) == {c.n : c \in Range(t.cols)}
ColOf(t, n) == CHOOSE c \in Range(t.cols) : c.n = n
SerialFamily == {Ty("int"), Ty("serial")}
SameOrSerialExact(a, b) == a.t = b.t
SameOrSerial(a, b) == a.t = b.t \/ ((a.auto \/ b.auto) /\ {a.t, b.t} \subseteq SerialFamily)
TablesMatchForRename(a, b) ==
    Len(a.cols) = Len(b.cols) /\ \A i \in DOMAIN a.cols : a.cols[i].n = b.cols[i].n /\ SameOrSerial(a.cols[i], b.cols[i])
\* The new tables in order; each takes the first dropped table of the same shape that
\* no other took.
RenameStep(acc, b, cur, des) ==
    LET free == SelectSeq(cur, LAMBDA a : a.name \notin Names(des) /\ TablesMatchForRename(a, b) /\ \A r \in acc : r.from # a.name)
    IN  IF b.name \in Names(cur) \/ free = <<>> THEN acc ELSE acc \cup {[from |-> free[1].name, to |-> b.name]}
TableRenames(cur, des) == FoldLeft(LAMBDA acc, b : RenameStep(acc, b, cur, des), {}, des)
DiffEnums(cur, des) ==
    LET new == {e \in des : e.name \notin {c.name : c \in cur}}
        gone == {c \in cur : c.name \notin {e.name : e \in des}}
        ren == {e \in new : \E c \in gone : c.vars = e.vars}
        src(e) == CHOOSE c \in gone : c.vars = e.vars
    IN  SetToSeq({Ch("RenameEnum", src(e).name, [n |-> e.name]) : e \in ren} \cup {Ch("CreateEnum", e.name, e) : e \in new \ ren}
                 \cup UNION {{Ch("AddEnumValue", e.name, [n |-> v]) : v \in Range(e.vars) \ UNION {Range(c.vars) : c \in {y \in cur : y.name = e.name}}}
                             : e \in {z \in des : z \notin new}})
DiffColumn(t, a, b, sofar) ==
    LET enumRenamed == Ch("RenameEnum", a.t[2], [n |-> b.t[2]]) \in Range(sofar)
    IN  (IF SameOrSerial(a, b) \/ enumRenamed THEN <<>> ELSE <<Ch("AlterColumnType", t, [n |-> b.n, from |-> a.t, to |-> b.t])>>)
        \o (IF a.nul = b.nul THEN <<>> ELSE IF b.nul THEN <<Ch("DropNotNull", t, [n |-> b.n])>> ELSE <<Ch("SetNotNull", t, [n |-> b.n])>>)
        \o (CASE b.def # Nil /\ a.def # b.def -> <<Ch("SetDefault", t, [n |-> b.n, def |-> b.def, old |-> a.def])>>
              [] b.def = Nil /\ a.def # Nil /\ ~b.auto -> <<Ch("DropDefault", t, [n |-> b.n])>>
              [] OTHER -> <<>>)
\* A new column at the place of a dropped one of the same type is a rename.
ColumnRenames(a, b) ==
    {[from |-> a.cols[i].n, to |-> b.cols[i].n] :
        i \in {j \in DOMAIN a.cols \cap DOMAIN b.cols : b.cols[j].n \notin ColNames(a) /\ a.cols[j].n \notin ColNames(b) /\ a.cols[j].t = b.cols[j].t}}
DiffColumns(a, b, sofar) ==
    LET ren == ColumnRenames(a, b)
        added == SelectSeq(b.cols, LAMBDA c : c.n \notin ColNames(a) /\ \A r \in ren : r.to # c.n)
        gone == SelectSeq(a.cols, LAMBDA c : c.n \notin ColNames(b) /\ \A r \in ren : r.from # c.n)
        both == SelectSeq(b.cols, LAMBDA c : c.n \in ColNames(a))
    IN  SetToSeq({Ch("RenameColumn", b.name, r) : r \in ren})
        \o [i \in DOMAIN added |-> Ch("AddColumn", b.name, added[i])]
        \o [i \in DOMAIN gone |-> Ch("DropColumn", b.name, gone[i])]
        \o FlattenSeq([i \in DOMAIN both |-> DiffColumn(b.name, ColOf(a, both[i].n), both[i], sofar)])
DiffPrimaryKey(a, b) ==
    (IF a.pk # NoPk /\ a.pk.cols # b.pk.cols THEN <<Ch("DropPrimaryKey", b.name, a.pk)>> ELSE <<>>)
    \o (IF b.pk # NoPk /\ a.pk.cols # b.pk.cols THEN <<Ch("AddPrimaryKey", b.name, b.pk)>> ELSE <<>>)
\* Unique constraints and indexes are matched by their column.
WithoutPartner(S, T) == {x \in S : \A y \in T : y.col # x.col}
DiffUniqueConstraints(a, b) == SetToSeq({Ch("AddUnique", b.name, u) : u \in WithoutPartner(b.uniq, a.uniq)}
                                        \cup {Ch("DropUnique", b.name, u) : u \in WithoutPartner(a.uniq, b.uniq)})
DiffIndexes(a, b) == SetToSeq({Ch("CreateIndex", b.name, u) : u \in WithoutPartner(b.idx, a.idx)}
                              \cup {Ch("DropIndex", b.name, u) : u \in WithoutPartner(a.idx, b.idx)})
\* Foreign keys are matched by name, then by target and column, then by column.
DiffForeignKeys(a, b) ==
    LET byName == {f \in b.fks : \E g \in a.fks : g.name = f.name}
        restB == b.fks \ byName
        restA == {g \in a.fks : \A f \in byName : f.name # g.name}
        new == {f \in restB : \A g \in restA : <<g.ref, g.col>> # <<f.ref, f.col>>}
        gone == {g \in restA : \A f \in restB : <<g.ref, g.col>> # <<f.ref, f.col>>}
        old(f, S) == CHOOSE g \in S : g.name = f.name \/ g.col = f.col
    IN  SetToSeq({Ch("ModifyForeignKey", b.name, [new |-> f, old |-> old(f, a.fks)]) : f \in {h \in byName : old(h, {g \in a.fks : g.name = h.name}) # h}}
            \cup {Ch("ModifyForeignKey", b.name, [new |-> f, old |-> old(f, restA)]) : f \in {h \in new : \E g \in restA : g.col = h.col}}
            \cup {Ch("AddForeignKey", b.name, f) : f \in {h \in new : \A g \in restA : g.col # h.col}}
            \cup {Ch("DropForeignKey", b.name, g) : g \in {h \in gone : \A f \in restB : f.col # h.col}})
DiffTable(a, b, sofar) ==
    DiffColumns(a, b, sofar) \o DiffPrimaryKey(a, b) \o DiffUniqueConstraints(a, b) \o DiffForeignKeys(a, b) \o DiffIndexes(a, b)
ComputeDiff(cur, des) ==
    LET enums == DiffEnums(cur.enums, des.enums)
        ren == TableRenames(cur.tabs, des.tabs)
        new == SelectSeq(des.tabs, LAMBDA t : t.name \notin Names(cur.tabs) /\ \A r \in ren : r.to # t.name)
        gone == SelectSeq(cur.tabs, LAMBDA t : t.name \notin Names(des.tabs) /\ \A r \in ren : r.from # t.name)
        both == SelectSeq(des.tabs, LAMBDA t : t.name \in Names(cur.tabs) \/ \E r \in ren : r.to = t.name)
        was(t) == IF t.name \in Names(cur.tabs) THEN t.name ELSE (CHOOSE r \in ren : r.to = t.name).from
        old(t) == CHOOSE a \in Range(cur.tabs) : a.name = was(t)
    IN  enums \o SetToSeq({Ch("RenameTable", r.from, [n |-> r.to]) : r \in ren})
        \o [i \in DOMAIN new |-> Ch("CreateTable", new[i].name, new[i])]
        \o [i \in DOMAIN gone |-> Ch("DropTable", gone[i].name, gone[i])]
        \o FlattenSeq([i \in DOMAIN both |-> DiffTable(old(both[i]), both[i], enums)])

-----------------------------------------------------------------------------
\* The plan: a stable sort by kind, risks, components.
Order == <<"CreateEnum", "RenameEnum", "AddEnumValue", "CreateTable", "RenameTable", "AddColumn", "RenameColumn", "AlterColumnType",
           "SetDefault", "SetNotNull", "DropNotNull", "DropDefault", "AddPrimaryKey", "AddUnique", "CreateIndex", "AddForeignKey",
           "ModifyForeignKey", "DropForeignKey", "DropIndex", "DropUnique", "DropPrimaryKey", "DropColumn", "DropTable">>
ChangeOrderKeysFirst == <<"AddForeignKey">> \o SelectSeq(Order, LAMBDA k : k # "AddForeignKey")
ChangeOrder == Order
SortByDependency(cs) == FlattenSeq([i \in DOMAIN ChangeOrder |-> SelectSeq(cs, LAMBDA c : c.k = ChangeOrder[i])])
IsSafeCastTo(from, to) == to = Ty("text")
ClassifyRiskTablesOnly(c) == IF c.k = "DropTable" THEN "destructive" ELSE "risky"
ClassifyRisk(c) ==
    CASE c.k \in {"DropTable", "DropColumn"} -> "destructive"
      [] c.k = "AlterColumnType" -> IF IsSafeCastTo(c.x.from, c.x.to) THEN "risky" ELSE "destructive"
      [] c.k \in {"SetNotNull", "DropDefault", "DropPrimaryKey", "DropUnique", "DropIndex", "DropForeignKey", "RenameTable", "RenameColumn", "RenameEnum"} -> "risky"
      [] c.k = "ModifyForeignKey" -> IF c.x.new.ref # c.x.old.ref THEN "risky" ELSE "safe"
      [] OTHER -> "safe"
EnumIn(t) == {t[2]} \ {Nil}
AffectedObjectsOwn(c) == {c.t}
AffectedObjects(c) ==
    CASE c.k \in {"CreateEnum", "AddEnumValue"} -> {c.t}
      [] c.k \in {"RenameEnum", "RenameTable"} -> {c.t, c.x.n}
      [] c.k = "CreateTable" -> {c.t} \cup {f.ref : f \in c.x.fks} \cup c.x.deps
      [] c.k = "AddColumn" -> {c.t} \cup EnumIn(c.x.t)
      [] c.k = "AlterColumnType" -> {c.t} \cup EnumIn(c.x.to)
      [] c.k = "AddForeignKey" -> {c.t, c.x.ref}
      [] c.k = "ModifyForeignKey" -> {c.t, c.x.new.ref, c.x.old.ref}
      [] OTHER -> {c.t}
\* Components: changes that touch a common object, transitively.  (Dependencies and
\* foreign keys link changes through the objects of both.)
Component(plan, i) ==
    LET Grow(S) == {j \in DOMAIN plan : \E s \in S : s = j \/ AffectedObjects(plan[s]) \cap AffectedObjects(plan[j]) # {}}
    IN  FoldLeft(LAMBDA S, k : Grow(S), {i}, plan)
BuildPlan(d, p) == SortByDependency(ComputeDiff(IntrospectSchema(d), ExtractFromHir(p)))

-----------------------------------------------------------------------------
\* PostgreSQL.  A statement gives the new schema or Fails.  born: which column of
\* which table the data was written to, a type change that is no safe cast starts anew.
Fails == [tabs |-> {}, enums |-> {}, failed |-> TRUE]
Put(d, t) == [d EXCEPT !.tabs = {IF x.name = t.name THEN t ELSE x : x \in @}]
EnumKnown(d, ty) == EnumIn(ty) \subseteq {e.name : e \in d.enums}
Stored(c, born) == [n |-> c.n, t |-> IF c.t = Ty("serial") THEN Ty("int") ELSE c.t, nul |-> c.nul /\ ~c.auto, def |-> IF c.auto THEN Nil ELSE c.def,
                    auto |-> c.auto, born |-> born]
CanRefer(d, t, ref) == ref = t.name \/ \E x \in d.tabs : x.name = ref /\ x.pk.cols = <<"id">>
TakeOut(t, n) == [t EXCEPT !.cols = SelectSeq(@, LAMBDA c : c.n # n), !.pk = IF n \in Range(@.cols) THEN NoPk ELSE @,
                           !.uniq = {u \in @ : u.col # n}, !.idx = {u \in @ : u.col # n}, !.fks = {f \in @ : f.col # n}]
EachCol(t, n, F(_)) == [t EXCEPT !.cols = [i \in DOMAIN @ |-> IF @[i].n = n THEN F(@[i]) ELSE @[i]]]
Renamed(t, a, b) ==
    LET r(x) == IF x = a THEN b ELSE x
    IN  [t EXCEPT !.cols = [i \in DOMAIN @ |-> [@[i] EXCEPT !.n = r(@)]], !.pk.cols = [i \in DOMAIN @ |-> r(@[i])],
                  !.uniq = {[u EXCEPT !.col = r(@)] : u \in @}, !.idx = {[u EXCEPT !.col = r(@)] : u \in @}, !.fks = {[f EXCEPT !.col = r(@)] : f \in @}]
NoRefsTo(d, n) == [d EXCEPT !.tabs = {[t EXCEPT !.fks = {f \in @ : f.ref # n}] : t \in @}]
CreateTable(d, t) ==
    IF HasTable(d, t.name) THEN d
    ELSE IF \E f \in t.fks : ~CanRefer(d, t, f.ref) \/ (f.ref = t.name /\ t.pk.cols # <<"id">>) THEN Fails
    ELSE IF \E c \in Range(t.cols) : ~EnumKnown(d, c.t) THEN Fails
    ELSE [d EXCEPT !.tabs = @ \cup {[t EXCEPT !.cols = [i \in DOMAIN @ |-> Stored(@[i], <<t.name, @[i].n, sp.runs>>)]]}]
AddFk(d, t, f) == IF ~CanRefer(d, t, f.ref) \/ \E g \in t.fks : g.name = f.name THEN Fails ELSE Put(d, [t EXCEPT !.fks = @ \cup {f}])
ReferredTo(d, n) == \E t \in d.tabs : \E f \in t.fks : f.ref = n
ConstraintUpSql(d, c) ==
    LET t == Table(d, c.t)
    IN  CASE c.k = "AddPrimaryKey" -> IF t.pk # NoPk THEN Fails ELSE Put(d, [t EXCEPT !.pk = c.x])
          [] c.k = "DropPrimaryKey" -> IF ReferredTo(d, c.t) THEN Fails ELSE Put(d, [t EXCEPT !.pk = NoPk])
          [] c.k = "AddUnique" -> IF \E u \in t.uniq : u.name = c.x.name THEN Fails ELSE Put(d, [t EXCEPT !.uniq = @ \cup {c.x}])
          [] c.k = "DropUnique" -> Put(d, [t EXCEPT !.uniq = {u \in @ : u.name # c.x.name}])
          [] c.k = "CreateIndex" -> IF \E x \in d.tabs : \E u \in x.idx : u.name = c.x.name THEN d ELSE Put(d, [t EXCEPT !.idx = @ \cup {c.x}])
          [] c.k = "DropIndex" -> Put(d, [t EXCEPT !.idx = {u \in @ : u.name # c.x.name}])
          [] c.k = "AddForeignKey" -> AddFk(d, t, c.x)
          [] c.k = "DropForeignKey" -> Put(d, [t EXCEPT !.fks = {f \in @ : f.name # c.x.name}])
          [] c.k = "ModifyForeignKey" -> AddFk(d, [t EXCEPT !.fks = {f \in @ : f.name # c.x.old.name}], c.x.new)
ColumnUpSql(d, c) ==
    LET t == Table(d, c.t)
    IN  CASE c.k = "AddColumn" -> IF ~EnumKnown(d, c.x.t) THEN Fails ELSE Put(d, [t EXCEPT !.cols = Append(@, Stored(c.x, <<c.t, c.x.n, sp.runs>>))])
          [] c.k = "RenameColumn" -> Put(d, Renamed(t, c.x.from, c.x.to))
          [] c.k = "AlterColumnType" -> IF ~EnumKnown(d, c.x.to) \/ (ColOf(t, c.x.n).def # Nil /\ ~IsSafeCastTo(c.x.from, c.x.to)) THEN Fails
                                        ELSE Put(d, EachCol(t, c.x.n, LAMBDA y : [y EXCEPT !.t = IF c.x.to = Ty("serial") THEN Ty("int") ELSE c.x.to, !.auto = c.x.to = Ty("serial") \/ @,
                                                                                           !.born = IF IsSafeCastTo(c.x.from, c.x.to) THEN @ ELSE <<c.t, c.x.n, sp.runs>>]))
          [] c.k = "SetDefault" -> IF ColOf(t, c.x.n).auto THEN Fails ELSE Put(d, EachCol(t, c.x.n, LAMBDA y : [y EXCEPT !.def = c.x.def]))
          [] c.k = "DropDefault" -> Put(d, EachCol(t, c.x.n, LAMBDA y : [y EXCEPT !.def = Nil]))
          [] c.k = "SetNotNull" -> Put(d, EachCol(t, c.x.n, LAMBDA y : [y EXCEPT !.nul = FALSE]))
          [] c.k = "DropNotNull" -> IF c.x.n \in Range(t.pk.cols) \/ ColOf(t, c.x.n).auto THEN Fails ELSE Put(d, EachCol(t, c.x.n, LAMBDA y : [y EXCEPT !.nul = TRUE]))
          [] c.k = "DropColumn" -> Put(IF c.x.n = "id" THEN NoRefsTo(d, c.t) ELSE d, TakeOut(t, c.x.n))
          [] OTHER -> ConstraintUpSql(d, c)
ChangeToUpSql(d, c) ==
    CASE c.k = "CreateEnum" -> [d EXCEPT !.enums = @ \cup {c.x}]
      [] c.k = "RenameEnum" -> [enums |-> {IF e.name = c.t THEN [e EXCEPT !.name = c.x.n] ELSE e : e \in d.enums}, failed |-> FALSE,
                                    tabs |-> {[x EXCEPT !.cols = [i \in DOMAIN @ |-> IF @[i].t = <<"enum", c.t>> THEN [@[i] EXCEPT !.t = <<"enum", c.x.n>>] ELSE @[i]]] : x \in d.tabs}]
      [] c.k = "AddEnumValue" -> [d EXCEPT !.enums = {IF e.name = c.t THEN [e EXCEPT !.vars = Append(@, c.x.n)] ELSE e : e \in @}]
      [] c.k = "CreateTable" -> CreateTable(d, c.x)
      [] c.k = "RenameTable" -> IF HasTable(d, c.x.n) THEN Fails
                                    ELSE [d EXCEPT !.tabs = {[x EXCEPT !.name = IF @ = c.t THEN c.x.n ELSE @,
                                                                       !.fks = {[f EXCEPT !.ref = IF @ = c.t THEN c.x.n ELSE @] : f \in @}] : x \in @}]
      [] c.k = "DropTable" -> [NoRefsTo(d, c.t) EXCEPT !.tabs = {x \in @ : x.name # c.t}]
      [] OTHER -> ColumnUpSql(d, c)

\* The kinds of change_to_down_sql that have no way back.
Irreversible == {"AddEnumValue", "DropColumn", "DropDefault", "DropPrimaryKey", "DropUnique", "DropIndex", "DropForeignKey"}
ChangeToDownSql(d, c) ==
    LET t == Table(d, c.t)
        cons(e) == Put(d, e)
    IN  CASE c.k = "CreateEnum" -> [d EXCEPT !.enums = {e \in @ : e.name # c.t}]
          [] c.k = "RenameEnum" -> ChangeToUpSql(d, Ch("RenameEnum", c.x.n, [n |-> c.t]))
          [] c.k = "CreateTable" -> ChangeToUpSql(d, Ch("DropTable", c.t, c.x))
          [] c.k = "DropTable" -> CreateTable(d, c.x)
          [] c.k = "RenameTable" -> ChangeToUpSql(d, Ch("RenameTable", c.x.n, [n |-> c.t]))
          [] c.k = "AddColumn" -> cons(TakeOut(t, c.x.n))
          [] c.k = "RenameColumn" -> cons(Renamed(t, c.x.to, c.x.from))
          [] c.k = "AlterColumnType" -> ChangeToUpSql(d, Ch("AlterColumnType", c.t, [n |-> c.x.n, from |-> c.x.to, to |-> c.x.from]))
          [] c.k = "SetNotNull" -> ChangeToUpSql(d, Ch("DropNotNull", c.t, c.x))
          [] c.k = "DropNotNull" -> ChangeToUpSql(d, Ch("SetNotNull", c.t, c.x))
          [] c.k = "SetDefault" -> ChangeToUpSql(d, Ch("DropDefault", c.t, c.x))
          [] c.k = "AddPrimaryKey" -> cons([t EXCEPT !.pk = NoPk])
          [] c.k = "AddUnique" -> cons([t EXCEPT !.uniq = {u \in @ : u.name # c.x.name}])
          [] c.k = "CreateIndex" -> cons([t EXCEPT !.idx = {u \in @ : u.name # c.x.name}])
          [] c.k = "AddForeignKey" -> cons([t EXCEPT !.fks = {f \in @ : f.name # c.x.name}])
          [] c.k = "ModifyForeignKey" -> AddFk(d, [t EXCEPT !.fks = {f \in @ : f.name # c.x.new.name}], c.x.old)
          [] OTHER -> d

-----------------------------------------------------------------------------
NoProgram == [structs |-> <<>>, calls |-> <<>>, enums |-> {}, no |-> TRUE]
Empty == [tabs |-> {}, enums |-> {}, failed |-> FALSE]
SchemaInit ==
    sp = [d |-> Empty, before |-> Empty, undone |-> Empty, prog |-> NoProgram, plan |-> <<>>, i |-> 0, runs |-> 0, force |-> FALSE, phase |-> "idle",
          bad |-> NoCh, again |-> FALSE]
\* run_migrate: the plan, and its approval when something in it destroys data.
RunMigrate(p, force) ==
    /\ sp.phase \in {"idle", "done"} /\ sp.runs < MaxRuns
    /\ LET plan == IF ExtractFromHir(p).tabs = <<>> THEN <<>> ELSE BuildPlan(sp.d, p)  \* a program without tables is left alone
           blocked == ~force /\ \E c \in Range(plan) : ClassifyRisk(c) = "destructive"
       IN  sp' = [sp EXCEPT !.prog = p, !.plan = plan, !.i = 1, !.runs = @ + 1, !.force = force, !.before = sp.d, !.undone = sp.d, !.bad = NoCh,
                            !.again = sp.prog = p /\ sp.phase = "done" /\ sp.bad = NoCh,
                            !.phase = IF plan = <<>> THEN "done" ELSE IF blocked THEN "idle" ELSE "apply"]
\* The statements run in one transaction: an error takes all of them back.
ApplyChange ==
    /\ sp.phase = "apply" /\ sp.i <= Len(sp.plan)
    /\ LET e == ChangeToUpSql(sp.d, sp.plan[sp.i])
       IN  sp' = IF e.failed THEN [sp EXCEPT !.d = sp.before, !.phase = "done", !.bad = sp.plan[sp.i]]
                 ELSE [sp EXCEPT !.d = e, !.i = @ + 1]
\* generate_down_sql, from the last change to the first: what an undo would leave.
UndoForward == FoldLeft(LAMBDA e, c : IF e.failed THEN e ELSE ChangeToDownSql(e, c), sp.d, sp.plan)
Undo == FoldLeft(LAMBDA e, c : IF e.failed THEN e ELSE ChangeToDownSql(e, c), sp.d, Reverse(sp.plan))
Committed ==
    /\ sp.phase = "apply" /\ sp.i > Len(sp.plan)
    /\ sp' = [sp EXCEPT !.phase = "done", !.undone = IF \E c \in Range(sp.plan) : c.k \in Irreversible THEN sp.before ELSE Undo]
SchemaNext == (\E p \in Programs, force \in BOOLEAN : RunMigrate(p, force)) \/ ApplyChange \/ Committed

-----------------------------------------------------------------------------
Applied == sp.phase = "done" /\ sp.bad = NoCh
Shape(d) == [tabs |-> {Plain(t) : t \in d.tabs}, enums |-> d.enums]

\* What a plan leaves is what the program asked for: planning the same program again
\* finds nothing, except what a renamed column still differs in, and a third run
\* finds nothing at all.
Converges ==
    Applied /\ sp.plan # <<>> =>
        LET rest == BuildPlan(sp.d, sp.prog)
        IN  rest # <<>> => ~sp.again /\ \E c \in Range(sp.plan) : c.k = "RenameColumn"

\* The order of the plan respects its dependencies: no statement is refused, except
\* in the cases named here.  A table whose primary key changes gets the new one before
\* the old one is dropped; a new table or foreign key may refer to a table that is
\* created later, or not at all; a type change does not drop a default first.
RefusedFor(c) ==
    \/ \E e \in Range(sp.plan) : e.k = "DropPrimaryKey" /\ e.t = c.t
    \/ c.k = "CreateTable" /\ \E f \in c.x.fks : ~CanRefer(sp.before, c.x, f.ref)
    \/ c.k = "AddForeignKey" /\ ~HasTable(sp.before, c.x.ref) /\ \A e \in Range(sp.plan) : e.k = "CreateTable" => e.t # c.x.ref
    \/ c.k = "AlterColumnType" /\ ColOf(Table(sp.before, c.t), c.x.n).def # Nil
PlanIsOrdered == sp.bad # NoCh => RefusedFor(sp.bad)

\* Without approval no data is lost: every column written to before the migration is
\* still there under some name.
LossNeedsApproval ==
    Applied /\ ~sp.force =>
        \A t \in sp.before.tabs : \A c \in Range(t.cols) : \E u \in sp.d.tabs : \E e \in Range(u.cols) : e.born = c.born

\* Batches can be approved one by one: the changes of one component, taken alone and
\* in the order of the plan, are accepted by the database that accepted all of them.
ComponentsIndependent ==
    Applied => \A i \in DOMAIN sp.plan :
        LET part == SelectSeq(sp.plan, LAMBDA c : \E j \in Component(sp.plan, i) : sp.plan[j] = c)
        IN  ~FoldLeft(LAMBDA e, c : IF e.failed THEN e ELSE ChangeToUpSql(e, c), sp.before, part).failed

\* A plan all of whose changes have a way back is undone by it: the schema is the one
\* before, unless a default was replaced (undone to none), a dropped table took foreign
\* keys of other tables with it, or an enum is renamed in the plan that also changes the
\* type of its columns (undone under the name it no longer has).
KeepsOld(c) ==
    /\ c.k # "DropTable"
    /\ c.k = "SetDefault" => c.x.old = Nil
    /\ c.k = "AlterColumnType" => \A e \in Range(sp.plan) : e.k # "RenameEnum"
UndoRestores == Applied /\ (\A c \in Range(sp.plan) : KeepsOld(c)) => Shape(sp.undone) = Shape(sp.before)

\* A migration plan: it leads to the declared schema, in an order the database
\* accepts, asks before data is lost, splits into independent parts and is undone
\* by its down statements.
PlanSound == Converges /\ PlanIsOrdered /\ LossNeedsApproval /\ ComponentsIndependent
             /\ UndoRestores
=============================================================================

------------------------------ MODULE JsonCodec ------------------------------
\* JSON.stringify and JSON.parse: the compiler emits, for the type at hand, the
\* calls that write a value through JsonWriter and the calls that read a text
\* into a value laid out in memory as the type asks
\* (doo_codegen/src/builtins/json.rs over doo_ffi_json).
\*
\* A text is a sequence of lexemes: one per byte of punctuation and strings,
\* one per number and word. A value in memory is made of cells; a cell holds
\* what was stored and the LLVM type it was stored with, and loading it with
\* another one gives garbage. Reading text into a tree and back is serde_json's.
EXTENDS Integers, Sequences, SequencesExt, FiniteSetsExt

CONSTANTS
    Written,       \* programs: [ty, val], a value to stringify and read back
    Received,      \* texts from outside: [ty, text], to be read as a type
    Normal,        \* a field name in lower case without "_" and "-"
    Capital,       \* a variant name with its first letter in upper case
    MaxJsonSize,   \* MAX_JSON_SIZE, in lexemes
    MinCapacity,   \* the capacity a JsonWriter starts with
    MaxNestingDepth

VARIABLE js

DQuote == "quote"
BSlash == "backslash"
LF == "newline"
Ctl == "control"

-----------------------------------------------------------------------------
\* Types and the LLVM type of a value of each.
TInt == [k |-> "Int"]
TFloat == [k |-> "Float"]
TBool == [k |-> "Bool"]
TStr == [k |-> "Str"]
TArray(t) == [k |-> "Array", of |-> t]
TMap(t, u) == [k |-> "Map", key |-> t, of |-> u]
TTuple(ts) == [k |-> "Tuple", of |-> ts]
TOptional(t) == [k |-> "Optional", of |-> t]
TStruct(fs) == [k |-> "Struct", of |-> fs]        \* fields [name, json, ty]
TEnum(vs) == [k |-> "Enum", of |-> vs]            \* variants [name, ty], ty.k = "none" for a unit variant
TNone == [k |-> "none"]
Prims == {"Int", "Float", "Bool", "Str"}
CreateLlvmType(t) ==
    CASE t.k = "Int" -> "i64" [] t.k = "Float" -> "f64" [] t.k = "Bool" -> "i8" [] t.k = "Enum" -> "tagged" [] OTHER -> "ptr"

\* Values.
Val(k, n, s, items) == [k |-> k, n |-> n, s |-> s, items |-> items]
IntV(n) == Val("int", n, <<>>, <<>>)
FloatV(n) == Val("float", n, <<>>, <<>>)
NaN == Val("nan", 0, <<>>, <<>>)
BoolV(b) == Val("bool", IF b THEN 1 ELSE 0, <<>>, <<>>)
StrV(s) == Val("str", 0, s, <<>>)
NullV == Val("null", 0, <<>>, <<>>)
Garbage == Val("garbage", 0, <<>>, <<>>)
Cell(slot, v) == Val("cell", 0, <<slot>>, <<v>>)
Load(cell, slot) == IF cell.s = <<slot>> THEN cell.items[1] ELSE Garbage
SeqV(cells) == Val("seq", 0, <<>>, cells)
StructV(cells) == Val("struct", 0, <<>>, cells)
MapV(pairs) == Val("map", 0, <<>>, pairs)
PairV(k, v) == Val("pair", 0, <<>>, <<k, v>>)
EnumV(tag, payload) == Val("enum", tag, <<>>, payload)   \* payload: a sequence of at most one cell
Box(v) == Val("box", 0, <<>>, <<v>>)                     \* a pointer to a number or a truth value

-----------------------------------------------------------------------------
\* JsonWriter.
Lex(t, v, n) == [t |-> t, v |-> v, n |-> n]
Char(c) == Lex("ch", c, 0)
Word(c) == Lex("word", c, 0)
Writer(cap) == [text |-> <<>>, len |-> 0, cap |-> Max({cap, MinCapacity}), ok |-> TRUE]
NextPowerOfTwo(n) == CHOOSE p \in {2 ^ i : i \in 0..7} : p >= n /\ p < 2 * n
WriteRaw(w, s) ==
    LET needed == w.len + Len(s)
    IN [w EXCEPT !.text = @ \o s, !.len = needed,
                 !.cap = IF needed > @ THEN Max({NextPowerOfTwo(needed), @ * 2}) ELSE @]
WritePunct(w, c) == WriteRaw(w, <<Char(c)>>)
WriteNull(w) == WriteRaw(w, <<Word("null")>>)
WriteInt(w, n) == WriteRaw(w, <<Lex("int", "", n)>>)
WriteFloat(w, v) == IF v.k = "nan" THEN WriteNull(w) ELSE WriteRaw(w, <<Lex("dec", "", v.n)>>)
WriteBool(w, n) == WriteRaw(w, <<Word(IF n = 1 THEN "true" ELSE "false")>>)
EscapeByte(c) ==
    CASE c \in {DQuote, BSlash} -> <<Char(BSlash), Char(c)>>
      [] c = LF -> <<Char(BSlash), Char("n")>>
      [] c = Ctl -> <<Char(BSlash), Char("u"), Char(Ctl)>>
      [] OTHER -> <<Char(c)>>
WriteString(w, v) ==
    IF v.k = "null" THEN WriteNull(w)
    ELSE WriteRaw(w, <<Char(DQuote)>> \o FlattenSeq([i \in 1..Len(v.s) |-> EscapeByte(v.s[i])]) \o <<Char(DQuote)>>)
WriteKey(w, name) == WriteString(w, StrV(<<name>>))

\* What a stored value that is not what its type says prints as.
WriteGarbage(w) == WriteRaw(w, <<Word("garbage")>>)
Refused(w) == [w EXCEPT !.ok = FALSE]                   \* emit_write_value returns None

-----------------------------------------------------------------------------
\* emit_write_map_key: keys are strings in JSON whatever their type.
WriteMapKey(w, v, t) ==
    CASE v.k = "garbage" -> WriteGarbage(w)
      [] t.k = "Str" -> WriteString(w, v)
      [] t.k = "Int" -> WriteRaw(w, <<Char(DQuote), Lex("int", "", v.n), Char(DQuote)>>)
      [] t.k = "Float" -> WritePunct(WriteFloat(WritePunct(w, DQuote), v), DQuote)
      [] t.k = "Bool" -> WritePunct(WriteBool(WritePunct(w, DQuote), v.n), DQuote)

RECURSIVE WriteValue(_, _, _, _), WriteCells(_, _, _), WritePairs(_, _, _), WriteFields(_, _, _)
\* emit_array_loop, and the elements of a tuple: types is one type per cell.
WriteCells(w, cells, types) ==
    IF cells = <<>> THEN w
    ELSE LET w1 == WriteValue(w, Load(cells[1], CreateLlvmType(types[1])), types[1], CreateLlvmType(types[1]))
         IN WriteCells(IF Len(cells) > 1 THEN WritePunct(w1, ",") ELSE w1, Tail(cells), Tail(types))
WritePairs(w, pairs, t) ==
    IF pairs = <<>> THEN w
    ELSE LET p == pairs[1].items
             w1 == WritePunct(WriteMapKey(w, Load(p[1], CreateLlvmType(t.key)), t.key), ":")
             w2 == WriteValue(w1, Load(p[2], CreateLlvmType(t.of)), t.of, CreateLlvmType(t.of))
         IN WritePairs(IF Len(pairs) > 1 THEN WritePunct(w2, ",") ELSE w2, Tail(pairs), t)
WriteFields(w, cells, fields) ==
    IF fields = <<>> THEN w
    ELSE LET ft == fields[1].ty
             w1 == WritePunct(WriteKey(w, fields[1].json), ":")
             w2 == WriteValue(w1, Load(cells[1], CreateLlvmType(ft)), ft, CreateLlvmType(ft))
         IN WriteFields(IF Len(fields) > 1 THEN WritePunct(w2, ",") ELSE w2, Tail(cells), Tail(fields))
WriteArray(w, v, t) == WritePunct(WriteCells(WritePunct(w, "["), v.items, [i \in 1..Len(v.items) |-> t.of]), "]")
WriteMap(w, v, t) == WritePunct(WritePairs(WritePunct(w, "{"), v.items, t), "}")
WriteStruct(w, v, t) == WritePunct(WriteFields(WritePunct(w, "{"), v.items, t.of), "}")
WriteTuple(w, v, t) ==
    IF Len(v.items) < Len(t.of) THEN WriteGarbage(w)
    ELSE WritePunct(WriteCells(WritePunct(w, "["), SubSeq(v.items, 1, Len(t.of)), t.of), "]")
\* A unit variant is its name; another is an object of the name and the payload.
WriteEnum(w, v, t) ==
    LET var == t.of[v.n] IN
    IF var.ty.k = "none" THEN WriteKey(w, var.name)
    ELSE LET w1 == WritePunct(WriteKey(WritePunct(w, "{"), var.name), ":")
         IN WritePunct(WriteValue(w1, Load(v.items[1], CreateLlvmType(var.ty)), var.ty, CreateLlvmType(var.ty)), "}")
\* emit_write_value; slot is the LLVM type of the value at hand.
WriteValue(w, v, t, slot) ==
    CASE ~w.ok -> w
      [] v.k = "garbage" -> WriteGarbage(w)
      [] t.k = "Int" -> IF slot # "i64" THEN Refused(w) ELSE WriteInt(w, v.n)
      [] t.k = "Float" -> IF slot # "f64" THEN Refused(w) ELSE WriteFloat(w, v)
      [] t.k = "Bool" -> IF slot # "i8" THEN Refused(w) ELSE WriteBool(w, v.n)
      [] t.k = "Str" -> IF v.k \in {"str", "null"} THEN WriteString(w, v) ELSE WriteGarbage(w)
      [] t.k = "Array" -> IF v.k = "seq" THEN WriteArray(w, v, t) ELSE WriteGarbage(w)
      [] t.k = "Map" -> IF v.k = "map" THEN WriteMap(w, v, t) ELSE WriteGarbage(w)
      [] t.k = "Struct" -> IF v.k = "struct" THEN WriteStruct(w, v, t) ELSE WriteGarbage(w)
      [] t.k = "Tuple" -> IF v.k = "seq" THEN WriteTuple(w, v, t) ELSE WriteGarbage(w)
      [] t.k = "Enum" -> IF v.k = "enum" THEN WriteEnum(w, v, t) ELSE WriteGarbage(w)
      [] t.k = "Optional" -> WriteValue(w, v, t.of, slot)
      [] OTHER -> WriteNull(w)
Stringify(v, t) ==
    WriteValue(Writer(IF t.k = "Struct" THEN Len(t.of) * 20 + 16 ELSE 0), v, t, CreateLlvmType(t))

-----------------------------------------------------------------------------
\* serde_json: the tree of a text. An object keeps the last of equal keys.
J(k, n, s, items) == [k |-> k, n |-> n, s |-> s, items |-> items]
BadJson == J("bad", 0, <<>>, <<>>)
NullJson == J("null", 0, <<>>, <<>>)
RECURSIVE StringFrom(_, _, _), ReadFrom(_, _), ItemsFrom(_, _, _, _)
StringFrom(x, i, s) ==
    CASE i > Len(x) -> [j |-> BadJson, i |-> i]
      [] x[i] = Char(DQuote) -> [j |-> J("str", 0, s, <<>>), i |-> i + 1]
      [] x[i] = Char(BSlash) /\ i + 1 <= Len(x) ->
           IF x[i + 1] = Char("u") THEN StringFrom(x, i + 3, Append(s, Char(Ctl)))
           ELSE StringFrom(x, i + 2, Append(s, IF x[i + 1] = Char("n") THEN Char(LF) ELSE x[i + 1]))
      [] x[i].v \in {LF, Ctl} -> [j |-> BadJson, i |-> i]
      [] OTHER -> StringFrom(x, i + 1, Append(s, x[i]))
PutKey(items, p) == Append(SelectSeq(items, LAMBDA q : q.s # p.s), p)
ItemsFrom(x, i, close, items) ==
    LET key == IF close = "}" /\ i <= Len(x) /\ x[i] = Char(DQuote) THEN StringFrom(x, i + 1, <<>>)
               ELSE [j |-> BadJson, i |-> i]
        colon == key.j.k = "str" /\ key.i <= Len(x) /\ x[key.i] = Char(":")
        item == IF close = "]" THEN ReadFrom(x, i)
                ELSE IF ~colon THEN [j |-> BadJson, i |-> i] ELSE ReadFrom(x, key.i + 1)
        all == IF close = "]" THEN Append(items, item.j) ELSE PutKey(items, J("entry", 0, key.j.s, <<item.j>>))
    IN IF item.j.k = "bad" \/ item.i > Len(x) THEN [j |-> BadJson, i |-> i]
       ELSE IF x[item.i] = Char(",") THEN ItemsFrom(x, item.i + 1, close, all)
       ELSE IF x[item.i] = Char(close) THEN [j |-> J(IF close = "]" THEN "arr" ELSE "obj", 0, <<>>, all), i |-> item.i + 1]
       ELSE [j |-> BadJson, i |-> i]
ReadFrom(x, i) ==
    IF i > Len(x) THEN [j |-> BadJson, i |-> i]
    ELSE LET leaf(j) == [j |-> j, i |-> i + 1]
             l == x[i]
             Open(c, close) == IF i + 1 <= Len(x) /\ x[i + 1] = Char(close) THEN [j |-> J(c, 0, <<>>, <<>>), i |-> i + 2]
                               ELSE ItemsFrom(x, i + 1, close, <<>>)
         IN CASE l.t \in {"int", "dec"} -> leaf(J(l.t, l.n, <<>>, <<>>))
              [] l = Word("null") -> leaf(NullJson)
              [] l = Word("true") -> leaf(J("bool", 1, <<>>, <<>>))
              [] l = Word("false") -> leaf(J("bool", 0, <<>>, <<>>))
              [] l = Char(DQuote) -> StringFrom(x, i + 1, <<>>)
              [] l = Char("[") -> Open("arr", "]")
              [] l = Char("{") -> Open("obj", "}")
              [] OTHER -> [j |-> BadJson, i |-> i]
FromStr(x) == LET r == ReadFrom(x, 1) IN IF r.j.k # "bad" /\ r.i = Len(x) + 1 THEN r.j ELSE BadJson

-----------------------------------------------------------------------------
\* doo_ffi_json: a tree read as a type. A result is the value and whether a
\* type mismatch was recorded in the thread's PARSE_ERROR.
Read(v, err) == [v |-> v, err |-> err]
Good(v) == Read(v, FALSE)
CheckJsonSize(x) == Len(x) <= MaxJsonSize
AllocEmptyArray == SeqV(<<>>)
AllocEmptyMap == MapV(<<>>)
Chars(s) == [i \in 1..Len(s) |-> s[i].v]
IsNumeral(s, ts) == Len(s) = 1 /\ s[1].t \in ts

\* as_i64, as_f64, as_bool, as_str: NullV when the tree is of another type.
AsPrim(j, t) ==
    CASE t = "Int" /\ j.k = "int" -> IntV(j.n)
      [] t = "Float" /\ j.k \in {"int", "dec"} -> FloatV(j.n)
      [] t = "Bool" /\ j.k = "bool" -> BoolV(j.n = 1)
      [] t = "Str" /\ j.k = "str" -> StrV(Chars(j.s))
      [] OTHER -> NullV
Zero(t) == CASE t = "Int" -> IntV(0) [] t = "Float" -> FloatV(0) [] t = "Bool" -> BoolV(FALSE) [] t = "Str" -> StrV(<<>>)
\* doo_json_parse_int, _float, _bool: a number or a truth value in quotes is
\* accepted too; what is neither is zero.
ParseInt(j) == IF AsPrim(j, "Int") # NullV THEN AsPrim(j, "Int")
               ELSE IF j.k = "str" /\ IsNumeral(j.s, {"int"}) THEN IntV(j.s[1].n) ELSE IntV(0)
ParseFloat(j) == IF AsPrim(j, "Float") # NullV THEN AsPrim(j, "Float")
                 ELSE IF j.k = "str" /\ IsNumeral(j.s, {"int", "dec"}) THEN FloatV(j.s[1].n) ELSE FloatV(0)
ParseBool(j) == IF AsPrim(j, "Bool") # NullV THEN AsPrim(j, "Bool") ELSE BoolV(j.k = "str" /\ j.s = <<Word("true")>>)
ParseStr(j) == IF AsPrim(j, "Str") # NullV THEN AsPrim(j, "Str") ELSE StrV(<<>>)
ParsePrim(j, t) ==
    CASE t = "Int" -> ParseInt(j) [] t = "Float" -> ParseFloat(j) [] t = "Bool" -> ParseBool(j) [] t = "Str" -> ParseStr(j)

\* doo_json_parse_array_*: one element of another type empties the array.
ArrayOf(j, t) ==
    IF j.k # "arr" THEN Good(AllocEmptyArray)
    ELSE IF \E i \in DOMAIN j.items : AsPrim(j.items[i], t) = NullV THEN Read(AllocEmptyArray, TRUE)
    ELSE Good(SeqV([i \in DOMAIN j.items |-> Cell(CreateLlvmType([k |-> t]), AsPrim(j.items[i], t))]))
ParseArrayInt(j) == ArrayOf(j, "Int")
ParseArrayFloat(j) == ArrayOf(j, "Float")
ParseArrayBool(j) == ArrayOf(j, "Bool")
ParseArrayStr(j) == ArrayOf(j, "Str")

\* doo_json_parse_map_*: a key that does not parse is passed over, a value of
\* another type before that or after empties the map.
KeyOf(s, t) ==
    CASE t = "Str" -> StrV(Chars(s))
      [] t = "Int" -> IF IsNumeral(s, {"int"}) THEN IntV(s[1].n) ELSE NullV
      [] t = "Float" -> IF IsNumeral(s, {"int", "dec"}) THEN FloatV(s[1].n) ELSE NullV
      [] t = "Bool" -> IF s \in {<<Word("true")>>, <<Word("false")>>} THEN BoolV(s = <<Word("true")>>) ELSE NullV
MapOf(j, kt, vt) ==
    IF j.k # "obj" THEN Good(AllocEmptyMap)
    ELSE LET kept == SelectSeq(j.items, LAMBDA e : KeyOf(e.s, kt) # NullV)
         IN IF \E i \in DOMAIN kept : AsPrim(kept[i].items[1], vt) = NullV THEN Read(AllocEmptyMap, TRUE)
            ELSE Good(MapV([i \in DOMAIN kept |-> PairV(Cell(CreateLlvmType([k |-> kt]), KeyOf(kept[i].s, kt)),
                                                        Cell(CreateLlvmType([k |-> vt]), AsPrim(kept[i].items[1], vt)))]))
ParseMapStr(j, vt) == MapOf(j, "Str", vt)
ParseMapInt(j, vt) == MapOf(j, "Int", vt)
ParseMapFloat(j, vt) == MapOf(j, "Float", vt)
ParseMapBool(j, vt) == MapOf(j, "Bool", vt)

\* json_value_to_doo_ptr: the layout when no type-specific reader exists.
RECURSIVE JsonValueToDooPtr(_, _)
GenericArray(j, depth) == SeqV([i \in DOMAIN j.items |-> Cell("ptr", JsonValueToDooPtr(j.items[i], depth + 1))])
GenericObject(j, depth) ==
    MapV([i \in DOMAIN j.items |->
        LET v == j.items[i].items[1] IN
        PairV(Cell("ptr", StrV(Chars(j.items[i].s))),
              CASE v.k = "int" -> Cell("i64", IntV(v.n))
                [] v.k = "dec" -> Cell("f64", FloatV(v.n))
                [] v.k = "bool" -> Cell("i8", BoolV(v.n = 1))
                [] OTHER -> Cell("ptr", JsonValueToDooPtr(v, depth + 1)))])
JsonValueToDooPtr(j, depth) ==
    CASE depth > MaxNestingDepth -> NullV
      [] j.k \in {"null", "bad"} -> NullV
      [] j.k = "bool" -> Box(BoolV(j.n = 1))
      [] j.k = "int" -> Box(IntV(j.n))
      [] j.k = "dec" -> Box(FloatV(j.n))
      [] j.k = "str" -> StrV(Chars(j.s))
      [] j.k = "arr" -> GenericArray(j, depth)
      [] j.k = "obj" -> GenericObject(j, depth)

\* json_object_get_field: the name as it is, else any key alike but for case,
\* underscores and dashes. NullJson stands for a field that is not there.
NormalKey(s) == IF Len(s) = 1 /\ s[1].v \in DOMAIN Normal THEN Normal[s[1].v] ELSE "other"
FieldAlike(j, name) ==
    IF j.k # "obj" THEN NullJson
    ELSE LET alike == {i \in DOMAIN j.items : NormalKey(j.items[i].s) = Normal[name]}
         IN IF alike = {} THEN NullJson ELSE j.items[Min(alike)].items[1]
JsonObjectGetField(j, name) ==
    IF j.k = "obj" /\ \E i \in DOMAIN j.items : j.items[i].s = <<Char(name)>>
    THEN (CHOOSE e \in Range(j.items) : e.s = <<Char(name)>>).items[1]
    ELSE FieldAlike(j, name)
\* doo_json_object_get_int, _float, _bool, _str and _optional_str.
ObjectGetPrim(j, name, t) ==
    LET v == AsPrim(JsonObjectGetField(j, name), t) IN IF v = NullV THEN Zero(t) ELSE v
ObjectGetOptionalStr(j, name) == AsPrim(JsonObjectGetField(j, name), "Str")

\* doo_json_get_variant_name and _payload.
GetVariantName(j) ==
    LET s == CASE j.k = "str" -> j.s
               [] j.k = "obj" /\ Len(j.items) = 1 -> j.items[1].s
               [] OTHER -> <<>>
    IN IF Len(s) = 1 /\ s[1].v \in DOMAIN Capital THEN Capital[s[1].v] ELSE "none of them"
GetVariantPayload(j) == IF j.k = "obj" /\ Len(j.items) = 1 THEN j.items[1].items[1] ELSE NullJson

-----------------------------------------------------------------------------
\* emit_parse and what it emits per type.
RECURSIVE Parse(_, _), ParseStruct(_, _), ParseEnum(_, _)
AnyErr(rs) == \E i \in DOMAIN rs : rs[i].err
ParseField(j, f) ==
    LET t == f.ty
        name == f.json
    IN CASE t.k \in Prims -> Good(ObjectGetPrim(j, name, t.k))
         [] t.k = "Optional" /\ t.of.k \in {"Int", "Float", "Bool"} -> Good(ObjectGetPrim(j, name, t.of.k))
         [] t.k = "Optional" /\ t.of.k = "Str" -> Good(ObjectGetOptionalStr(j, name))
         [] t.k = "Optional" -> Good(ObjectGetPrim(j, name, "Str"))
         [] OTHER -> Parse(JsonObjectGetField(j, name), t)
\* An optional number is stored as the number where a pointer is expected.
FieldSlot(t) == IF t.k = "Optional" THEN CreateLlvmType(IF t.of.k \in Prims THEN t.of ELSE TStr) ELSE CreateLlvmType(t)
ParseStruct(j, t) ==
    LET rs == [i \in DOMAIN t.of |-> ParseField(j, t.of[i])]
    IN Read(StructV([i \in DOMAIN t.of |-> Cell(FieldSlot(t.of[i].ty), rs[i].v)]), AnyErr(rs))
\* The block of an array of structs or enums holds pointers.
ParseArrayStruct(j, t) ==
    LET rs == [i \in DOMAIN j.items |-> ParseStruct(j.items[i], t)]
    IN IF j.k # "arr" THEN Good(AllocEmptyArray)
       ELSE Read(SeqV([i \in DOMAIN rs |-> Cell("ptr", rs[i].v)]), AnyErr(rs))
ParseArrayEnum(j, t) ==
    LET rs == [i \in DOMAIN j.items |-> ParseEnum(j.items[i], t)]
    IN IF j.k # "arr" THEN Good(AllocEmptyArray)
       ELSE Read(SeqV([i \in DOMAIN rs |-> Cell("ptr", rs[i].v)]), AnyErr(rs))
\* No variant of that name: the block stays as malloc gave it.
ParseEnum(j, t) ==
    LET found == {i \in DOMAIN t.of : t.of[i].name = GetVariantName(j)}
        tag == Min(found)
        pt == t.of[tag].ty
    IN IF found = {} THEN Good(Garbage)
       ELSE IF pt.k = "none" THEN Good(EnumV(tag, <<>>))
       ELSE LET r == Parse(GetVariantPayload(j), pt)
            IN Read(EnumV(tag, <<Cell(IF pt.k = "Enum" THEN "ptr" ELSE CreateLlvmType(pt), r.v)>>), r.err)
ParseArray(j, t) ==
    CASE t.of.k = "Struct" -> ParseArrayStruct(j, t.of)
      [] t.of.k = "Enum" -> ParseArrayEnum(j, t.of)
      [] t.of.k = "Int" -> ParseArrayInt(j)
      [] t.of.k = "Float" -> ParseArrayFloat(j)
      [] t.of.k = "Bool" -> ParseArrayBool(j)
      [] t.of.k = "Str" -> ParseArrayStr(j)
      [] OTHER -> Good(JsonValueToDooPtr(j, 0))
ParseMap(j, t) ==
    CASE t.of.k \notin Prims \/ t.key.k \notin Prims -> Good(JsonValueToDooPtr(j, 0))
      [] t.key.k = "Str" -> ParseMapStr(j, t.of.k)
      [] t.key.k = "Int" -> ParseMapInt(j, t.of.k)
      [] t.key.k = "Float" -> ParseMapFloat(j, t.of.k)
      [] t.key.k = "Bool" -> ParseMapBool(j, t.of.k)
Parse(j, t) ==
    CASE t.k \in Prims -> Good(ParsePrim(j, t.k))
      [] t.k = "Struct" -> ParseStruct(j, t)
      [] t.k = "Enum" -> ParseEnum(j, t)
      [] t.k = "Array" -> ParseArray(j, t)
      [] t.k = "Map" -> ParseMap(j, t)
      [] OTHER -> Good(JsonValueToDooPtr(j, 0))
ParseText(x, t) == Parse(IF CheckJsonSize(x) THEN FromStr(x) ELSE BadJson, t)

-----------------------------------------------------------------------------
\* A value is written, read back and written again; or a text from outside is
\* read. The handler's thread keeps PARSE_ERROR until the server clears it.
JsonStart(ty, val, text, phase) ==
    [ty |-> ty, val |-> val, text |-> text, phase |-> phase, back |-> NullV, err |-> FALSE, len |-> 0, cap |-> MinCapacity, ok |-> TRUE]
JsonInit ==
    \/ \E c \in Written : js = JsonStart(c.ty, c.val, <<>>, "value")
    \/ \E c \in Received : js = JsonStart(c.ty, Garbage, c.text, "text")
Stringifies ==
    /\ js.phase \in {"value", "back"}
    /\ LET w == Stringify(IF js.phase = "value" THEN js.val ELSE js.back, js.ty)
       IN js' = [js EXCEPT !.phase = IF @ = "value" THEN "text" ELSE "again", !.text = w.text, !.ok = w.ok, !.len = w.len, !.cap = w.cap]
Parses ==
    /\ js.phase = "text" /\ js.ok
    /\ LET r == ParseText(js.text, js.ty)
       IN js' = [js EXCEPT !.phase = IF js.val = Garbage THEN "received" ELSE "back", !.back = r.v, !.err = @ \/ r.err]
ClearParseError ==
    /\ js.phase = "received" /\ js.err
    /\ js' = [js EXCEPT !.err = FALSE, !.phase = "cleared"]
JsonNext == Stringifies \/ Parses \/ ClearParseError

-----------------------------------------------------------------------------
\* The types whose every value reads back: those with readers of their own, and
\* those for which the generic layout happens to be the right one.
RECURSIVE Generic(_), ReadsBack(_)
Generic(t) ==
    CASE t.k = "Array" -> Generic(t.of)
      [] t.k = "Tuple" -> \A i \in DOMAIN t.of : Generic(t.of[i])
      [] t.k = "Map" -> t.key.k = "Str" /\ (t.of.k \in Prims \/ Generic(t.of))
      [] OTHER -> t.k = "Str"
ReadsBack(t) ==
    CASE t.k \in Prims -> TRUE
      [] t.k = "Array" -> t.of.k \in Prims \/ (t.of.k = "Struct" /\ ReadsBack(t.of)) \/ Generic(t)
      [] t.k = "Map" -> (t.key.k \in Prims /\ t.of.k \in Prims) \/ Generic(t)
      [] t.k = "Struct" -> \A i \in DOMAIN t.of : LET ft == t.of[i].ty IN
                               IF ft.k = "Optional" THEN ft.of.k = "Str" ELSE ReadsBack(ft)
      [] t.k = "Enum" -> \A i \in DOMAIN t.of : /\ Capital[t.of[i].name] = t.of[i].name
                                                /\ t.of[i].ty.k = "none" \/ (t.of[i].ty.k # "Enum" /\ ReadsBack(t.of[i].ty))
      [] OTHER -> Generic(t)
RECURSIVE Has(_, _)
Has(v, ks) == v.k \in ks \/ \E i \in DOMAIN v.items : Has(v.items[i], ks)
\* Maps come back in the order of their keys.
RECURSIVE SameValue(_, _)
SameValue(v, u) ==
    /\ v.k = u.k /\ v.n = u.n /\ v.s = u.s /\ Len(v.items) = Len(u.items)
    /\ IF v.k = "map" THEN \A i \in DOMAIN v.items : \E j \in DOMAIN u.items : SameValue(v.items[i], u.items[j])
       ELSE \A i \in DOMAIN v.items : SameValue(v.items[i], u.items[i])

\* A value without NaN and null strings, of a type that can be read, is what it
\* was after stringify and parse, and no mismatch is recorded
\* (builtins/json.rs:100, parser.rs:1765).
RoundTrip ==
    (js.phase = "back" /\ ReadsBack(js.ty) /\ ~Has(js.val, {"nan"}) /\ (js.ty.k = "Struct" \/ ~Has(js.val, {"null"})) /\ CheckJsonSize(js.text))
        => SameValue(js.val, js.back) /\ ~js.err

\* Whatever is written for a value the program built is a JSON text
\* (builtins/json.rs:1073, writer.rs:224).
WritesJson == (js.phase = "text" /\ js.ok /\ js.val # Garbage) => FromStr(js.text).k # "bad"

\* The buffer has room for the text, and for the zero byte after it (writer.rs:30).
BufferHolds == js.len <= js.cap /\ (js.phase = "again" => js.len = Len(js.text))

\* A text from outside gives a value of the type that can be used as such, for
\* types without enums: a wrong or missing part is zero or empty, never a bad
\* pointer (parser.rs:120, :1850).
RECURSIVE NoEnum(_)
NoEnum(t) == CASE t.k = "Struct" -> \A i \in DOMAIN t.of : NoEnum(t.of[i].ty)
               [] t.k \in {"Array", "Map"} -> t.of.k \in Prims \cup {"Struct"} /\ NoEnum(t.of)
               [] OTHER -> t.k \in Prims
ReceivedIsUsable ==
    (js.phase = "received" /\ NoEnum(js.ty))
        => LET w == Stringify(js.back, js.ty) IN w.ok /\ FromStr(w.text).k # "bad" /\ Word("garbage") \notin Range(w.text)

\* An array or a map that came out shorter than the text's was reported, or its
\* keys are not of the key type (lib.rs:80, parser.rs:257).
LossIsTold ==
    LET j == FromStr(js.text)
        whole == (js.ty.k = "Array" /\ j.k = "arr" /\ js.ty.of.k \in Prims \cup {"Struct"})
                 \/ (js.ty.k = "Map" /\ js.ty.key.k = "Str" /\ j.k = "obj" /\ js.ty.of.k \in Prims)
    IN (js.phase = "received" /\ CheckJsonSize(js.text) /\ whole) => js.err \/ Len(js.back.items) = Len(j.items)

\* Values survive their JSON, and texts from outside become usable values.
JsonSound == RoundTrip /\ WritesJson /\ BufferHolds /\ ReceivedIsUsable /\ LossIsTold
=============================================================================

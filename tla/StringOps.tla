----------------------------- MODULE StringOps -----------------------------
(***************************************************************************)
(* Operators, string methods and casts as the code generator emits them    *)
(* (crates/doo_codegen/src/instructions/{arithmetic,casts}.rs,             *)
(* builtins/string.rs) and the run-time functions they call                *)
(* (ffi/doo_ffi_core/src/{casts,string,memory}.rs, doo_ffi_runtime).  A    *)
(* string is a block of bytes with a terminator; each operation allocates  *)
(* its result and reads and writes bytes by index.  Values are made from   *)
(* earlier values, so a block left without a terminator harms a later step.*)
(***************************************************************************)
EXTENDS Integers, Sequences, SequencesExt, FiniteSets

CONSTANTS FirstValues,    \* the values a program starts with
          MaxInt,         \* integers are -MaxInt - 1 .. MaxInt
          Methods,        \* the string methods called
          BinaryOps,      \* the operators used
          MaxApplied,     \* operations in a program
          LongestText     \* bytes of the longest string kept

VARIABLES sv  \* [vals, checks, last]: the values so far, whether
              \* DOO_OVERFLOW_CHECKS was set when compiling, the last operation

Nul == 0
Unwritten == -1      \* a byte of a block nobody has written
\* Values: ty is "int", "bool", "float", "str", "list" or "enum"; a string with
\* no cells is the null pointer; an enum has its tag in n and a payload in cells.
Scalar(ty, n) == [ty |-> ty, n |-> n, cells |-> <<>>, list |-> <<>>]
IntV(n) == Scalar("int", n)
BoolV(b) == Scalar("bool", IF b THEN 1 ELSE 0)
NaN == 1000      \* no number of the model
StrV(cells) == [Scalar("str", 0) EXCEPT !.cells = cells]
ListV(list) == [Scalar("list", 0) EXCEPT !.list = list]
EnumV(tag, payload) == [Scalar("enum", tag) EXCEPT !.cells = payload]
NullStr == StrV(<<>>)
Literal(text) == StrV(Append(text, Nul))

\* How an operation ends: with a value, with an access outside a block, with
\* the message and exit of a guard, with a trap of the processor, or never.
Answered(v) == [how |-> "value", val |-> v]
Fails(how) == [how |-> how, val |-> NullStr]
OutOfBounds == Fails("bounds")

-----------------------------------------------------------------------------
\* Blocks.
NullCoerce(v) == IF v.cells = <<>> THEN <<Nul>> ELSE v.cells
Terminated(c) == \E i \in DOMAIN c : c[i] = Nul
StrLen(c) == (CHOOSE i \in DOMAIN c : c[i] = Nul /\ \A j \in 1..(i - 1) : c[j] # Nul) - 1
TextOf(c) == SubSeq(c, 1, StrLen(c))
\* malloc(size), then bytes stored from its start; out of bounds when they do not fit.
Allocated(size, bytes) ==
    IF size < 1 \/ Len(bytes) > size THEN OutOfBounds
    ELSE Answered(StrV(bytes \o [i \in 1..(size - Len(bytes)) |-> Unwritten]))
\* len bytes from an index of a block, as memcpy reads them.
CanCopy(c, from, len) == from >= 0 /\ len >= 0 /\ from + len <= Len(c)
DooAllocString(text) == Allocated(Len(text) + 1, Append(text, Nul))
\* strstr from a position: the first position where needle occurs, or -1.
OccursAt(text, needle, p) == p + Len(needle) <= Len(text) /\ SubSeq(text, p + 1, p + Len(needle)) = needle
StrStr(text, needle, from) ==
    LET found == {p \in from..Len(text) : OccursAt(text, needle, p)}
    IN  IF found = {} THEN -1 ELSE CHOOSE p \in found : \A q \in found : p <= q

\* Bytes 195 and 169 are the two halves of one character.
Utf8(text) == \A i \in DOMAIN text : /\ text[i] = 195 => i < Len(text) /\ text[i + 1] = 169
                                     /\ text[i] = 169 => i > 1 /\ text[i - 1] = 195
ToStr(text) == IF Utf8(text) THEN text ELSE <<>>

-----------------------------------------------------------------------------
\* String methods.  s and t are blocks, a and b integers.
EmitLen(s) == Answered(IntV(StrLen(s)))
EmitCharAt(s, a) == IF a \in 0..(Len(s) - 1) THEN Allocated(2, <<s[a + 1], Nul>>) ELSE OutOfBounds
EmitSubstring(s, a, b) ==
    IF CanCopy(s, a, b - a) THEN Allocated(b - a + 1, Append(SubSeq(s, a + 1, b), Nul)) ELSE OutOfBounds
EmitConcatTight(s, t) ==
    LET len1 == StrLen(s)  len2 == StrLen(t)
    IN  Allocated(len1 + len2 + 1, SubSeq(s, 1, len1) \o SubSeq(t, 1, len2))
EmitConcat(s, t) ==
    LET len1 == StrLen(s)  len2 == StrLen(t)
    IN  Allocated(len1 + len2 + 1, SubSeq(s, 1, len1) \o SubSeq(t, 1, len2 + 1))
EmitFind(s, t) == Answered(IntV(StrStr(TextOf(s), TextOf(t), 0)))
Convert(c, upper) == CASE upper /\ c \in 97..122 -> c - 32
                       [] ~upper /\ c \in 65..90 -> c + 32
                       [] OTHER -> c
EmitCaseConvert(s, upper) ==
    LET len == StrLen(s) IN Allocated(len + 1, Append([i \in 1..len |-> Convert(s[i], upper)], Nul))
IsWs(c) == c \in {32, 9, 10, 13}
EmitTrim(s) ==
    LET len == StrLen(s)
        start == CHOOSE i \in 0..len : (\A j \in 1..i : IsWs(s[j])) /\ (i < len => ~IsWs(s[i + 1]))
        end == CHOOSE i \in start..len : (\A j \in (i + 1)..len : IsWs(s[j])) /\ (i > start => ~IsWs(s[i]))
    IN  IF CanCopy(s, start, end - start) THEN Allocated(end - start + 1, Append(SubSeq(s, start + 1, end), Nul)) ELSE OutOfBounds
EmitReversed(s) == LET len == StrLen(s) IN Allocated(len + 1, Append([i \in 1..len |-> s[len - 1 - (i - 1) + 1]], Nul))
EmitContains(s, t) == Answered(BoolV(StrStr(TextOf(s), TextOf(t), 0) # -1))
\* strncmp of n bytes: stops at the end of either string.
SamePrefix(s, t, n) == \A i \in 1..n : (\A j \in 1..(i - 1) : s[j] = t[j] /\ s[j] # Nul) => i <= Len(s) /\ i <= Len(t) /\ s[i] = t[i]
EmitStartsWith(s, t) == Answered(BoolV(SamePrefix(s, t, StrLen(t))))
EmitEndsWith(s, t) ==
    LET offset == StrLen(s) - StrLen(t)
    IN  IF offset < 0 THEN OutOfBounds ELSE Answered(BoolV(SamePrefix(SubSeq(s, offset + 1, Len(s)), t, StrLen(t))))
EmitRepeat(s, a) ==
    LET len == StrLen(s)
    IN  IF a < 0 THEN OutOfBounds
        ELSE Allocated(len * a + 1, Append([i \in 1..(len * a) |-> s[((i - 1) % len) + 1]], Nul))
EmitCharCode(s) == Answered(IntV(s[1]))
RECURSIVE CountFrom(_, _, _)
CountFrom(text, needle, p) == LET q == StrStr(text, needle, p) IN IF q = -1 THEN 0 ELSE 1 + CountFrom(text, needle, q + Len(needle))
EmitCountSubstr(s, t) == IF StrLen(t) = 0 THEN Fails("never") ELSE Answered(IntV(CountFrom(TextOf(s), TextOf(t), 0)))
\* Rust's split and replace, on text that is UTF-8.
RECURSIVE Parts(_, _)
Parts(text, delim) ==
    LET p == StrStr(text, delim, 0)
    IN  IF p = -1 THEN <<text>> ELSE <<SubSeq(text, 1, p)>> \o Parts(SubSeq(text, p + Len(delim) + 1, Len(text)), delim)
DooStringReplaceAll(s, t, u) ==
    LET text == ToStr(TextOf(s))  needle == ToStr(TextOf(t))  new == ToStr(TextOf(u))
        parts == Parts(text, needle)
        RECURSIVE Joined(_)
        Joined(i) == IF i = Len(parts) THEN parts[i] ELSE parts[i] \o new \o Joined(i + 1)
    IN  DooAllocString(IF needle = <<>> THEN text ELSE Joined(1))
EmitReplace(s, t, u) == DooStringReplaceAll(s, t, u)
\* The delimiter is passed as it is: a null pointer gives an empty list.
DooStringSplit(s, delim) ==
    IF delim.cells = <<>> THEN Answered(ListV(<<>>))
    ELSE LET text == TextOf(s)  d == TextOf(delim.cells)
             parts == IF d = <<>> THEN <<text>> ELSE Parts(text, d)
         IN  IF ~Utf8(text) \/ ~Utf8(d) THEN Answered(ListV(<<>>)) ELSE Answered(ListV([i \in DOMAIN parts |-> DooAllocString(parts[i]).val.cells]))

Takes(m) == CASE m \in {"len", "toUpper", "toLower", "trim", "reverse", "charCode"} -> <<>>
              [] m \in {"charAt", "repeat"} -> <<"int">>
              [] m = "substring" -> <<"int", "int">>
              [] m = "replace" -> <<"str", "str">>
              [] OTHER -> <<"str">>
StringDispatch(m, recv, args) ==
    LET s == NullCoerce(recv)
        t == NullCoerce(args[1])
    IN  CASE m = "len" -> EmitLen(s)
          [] m = "charAt" -> EmitCharAt(s, args[1].n)
          [] m = "substring" -> EmitSubstring(s, args[1].n, args[2].n)
          [] m = "concat" -> EmitConcat(s, t)
          [] m = "indexOf" -> EmitFind(s, t)
          [] m = "toUpper" -> EmitCaseConvert(s, TRUE)
          [] m = "toLower" -> EmitCaseConvert(s, FALSE)
          [] m = "replace" -> EmitReplace(s, t, NullCoerce(args[2]))
          [] m = "trim" -> EmitTrim(s)
          [] m = "reverse" -> EmitReversed(s)
          [] m = "contains" -> EmitContains(s, t)
          [] m = "startsWith" -> EmitStartsWith(s, t)
          [] m = "endsWith" -> EmitEndsWith(s, t)
          [] m = "repeat" -> EmitRepeat(s, args[1].n)
          [] m = "charCode" -> EmitCharCode(s)
          [] m = "countSubstr" -> EmitCountSubstr(s, t)
          [] OTHER -> DooStringSplit(s, args[1])

-----------------------------------------------------------------------------
\* Operators.
MinInt == -MaxInt - 1
Wrap(n) == ((n - MinInt) % (2 * MaxInt + 2)) + MinInt
\* sdiv and srem round towards zero.
Magnitude(n) == IF n < 0 THEN -n ELSE n
SignedDiv(a, b) == LET q == Magnitude(a) \div Magnitude(b) IN IF (a < 0) = (b < 0) THEN q ELSE -q
SignedRem(a, b) == a - b * SignedDiv(a, b)
OverflowGuard(n) == IF sv.checks /\ n # Wrap(n) THEN Fails("exit") ELSE Answered(IntV(Wrap(n)))
DivZeroGuard(a, b, n) ==
    CASE b = 0 -> Fails("exit")
      [] a = MinInt /\ b = -1 -> Fails("trap")
      [] OTHER -> Answered(IntV(IF n = "/" THEN SignedDiv(a, b) ELSE SignedRem(a, b)))
EmitIntBinop(op, a, b) ==
    CASE op = "+" -> OverflowGuard(a + b)
      [] op = "-" -> OverflowGuard(a - b)
      [] op = "*" -> OverflowGuard(a * b)
      [] op \in {"/", "%"} -> DivZeroGuard(a, b, op)
      [] op = "==" -> Answered(BoolV(a = b))
      [] op = "!=" -> Answered(BoolV(a # b))
      [] op = "<" -> Answered(BoolV(a < b))
      [] op = "<=" -> Answered(BoolV(a <= b))
      [] op = ">" -> Answered(BoolV(a > b))
      [] op = ">=" -> Answered(BoolV(a >= b))
      [] op = "&&" -> Answered(BoolV(a = 1 /\ b = 1))
      [] op = "||" -> Answered(BoolV(a = 1 \/ b = 1))
      [] OTHER -> Fails("none")
\* Ordered comparisons: with a NaN every one of them is false, != included.
EmitFloatCompare(op, a, b) ==
    Answered(BoolV(a # NaN /\ b # NaN /\ CASE op = "==" -> a = b [] op = "!=" -> a # b [] op = "<" -> a < b
                                           [] op = "<=" -> a <= b [] op = ">" -> a > b [] OTHER -> a >= b))
EmitStringEq(op, s, t) == LET same == TextOf(s) = TextOf(t) IN Answered(BoolV(IF op = "==" THEN same ELSE ~same))
EmitStringConcat(s, t) ==
    LET len1 == StrLen(s)  len2 == StrLen(t)
    IN  Allocated(len1 + len2 + 1, SubSeq(s, 1, len1) \o SubSeq(t, 1, len2 + 1))
Digit(d) == 48 + d
RECURSIVE Decimal(_)
Decimal(n) == IF n < 10 THEN <<Digit(n)>> ELSE Append(Decimal(n \div 10), Digit(n % 10))
\* snprintf twice: once for the length, then into a block of that length and one.
ValueToString(v) == LET text == (IF v.n < 0 THEN <<45>> ELSE <<>>) \o Decimal(Magnitude(v.n)) IN Allocated(Len(text) + 1, Append(text, Nul)).val.cells

Pointer(v) == v.ty \in {"str", "list"}
EmitBinop(op, l, r) ==
    CASE op = "+" /\ Pointer(l) /\ Pointer(r) -> EmitStringConcat(NullCoerce(l), NullCoerce(r))
      [] op = "+" /\ Pointer(l) /\ r.ty = "int" -> EmitStringConcat(NullCoerce(l), ValueToString(r))
      [] op = "+" /\ l.ty = "int" /\ Pointer(r) -> EmitStringConcat(ValueToString(l), NullCoerce(r))
      [] op \in {"==", "!="} /\ Pointer(l) /\ Pointer(r) -> EmitStringEq(op, NullCoerce(l), NullCoerce(r))
      [] op \in {"==", "!="} /\ l.ty = "enum" /\ r.ty = "enum" -> EmitIntBinop(op, l.n, r.n)
      [] l.ty \in {"int", "bool"} /\ r.ty \in {"int", "bool"} -> EmitIntBinop(op, l.n, r.n)
      [] l.ty \in {"int", "float"} /\ r.ty \in {"int", "float"} -> EmitFloatCompare(op, l.n, r.n)
      [] OTHER -> Fails("none")
EmitNot(v) == Answered(BoolV(v.n = 0))
EmitNeg(v) == Answered(IntV(Wrap(-v.n)))

-----------------------------------------------------------------------------
\* Casts between Int, Bool and Str.
RECURSIVE NumberOf(_)
NumberOf(ds) == IF ds = <<>> THEN 0 ELSE 10 * NumberOf(Front(ds)) + Last(ds) - 48
Signed(text) == text # <<>> /\ Head(text) \in {43, 45}
Digits(text) == IF Signed(text) THEN Tail(text) ELSE text
Parsed(text) == IF Signed(text) /\ Head(text) = 45 THEN -NumberOf(Digits(text)) ELSE NumberOf(Digits(text))
IsNumber(text) == Digits(text) # <<>> /\ (\A i \in DOMAIN Digits(text) : Digits(text)[i] \in 48..57) /\ Parsed(text) \in MinInt..MaxInt
DooCastStrToInt(v) ==
    IF v.cells = <<>> THEN 0
    ELSE LET text == TextOf(EmitTrim(v.cells).val.cells) IN IF Utf8(text) /\ IsNumber(text) THEN Parsed(text) ELSE 0
EmitCast(to, v) ==
    CASE to = "str" /\ v.ty = "str" -> Answered(v)
      [] to = "str" /\ v.ty = "int" -> Answered(StrV(ValueToString(v)))
      [] to = "int" /\ v.ty = "str" -> Answered(IntV(DooCastStrToInt(v)))
      [] to = "int" /\ v.ty = "bool" -> Answered(IntV(v.n))
      [] OTHER -> Answered(v)

-----------------------------------------------------------------------------
\* A program applies operations to values it has; after a failure it ends.
NoOp == [op |-> "", args |-> <<>>, how |-> "value", val |-> IntV(0)]
StringStart(vals, checks) == [vals |-> vals, checks |-> checks, last |-> NoOp]
StringInit == \E vals \in FirstValues, checks \in BOOLEAN : sv = StringStart(vals, checks)
Runs == sv.last.how = "value" /\ Len(sv.vals) < MaxApplied + Len(CHOOSE v \in FirstValues : TRUE)
Applied(op, args, r) ==
    /\ Len(r.val.cells) <= LongestText
    /\ sv' = [sv EXCEPT !.vals = IF r.how = "value" THEN Append(@, r.val) ELSE @, !.last = [op |-> op, args |-> args, how |-> r.how, val |-> r.val]]
Held(ty) == {v \in Range(sv.vals) : v.ty = ty}
CallMethod(m) ==
    /\ Runs
    /\ \E recv \in Held("str") :
         \/ Takes(m) = <<>> /\ Applied(m, <<recv>>, StringDispatch(m, recv, <<NullStr>>))
         \/ Len(Takes(m)) = 1 /\ \E a \in Held(Takes(m)[1]) : Applied(m, <<recv, a>>, StringDispatch(m, recv, <<a>>))
         \/ Len(Takes(m)) = 2 /\ \E a \in Held(Takes(m)[1]), b \in Held(Takes(m)[2]) : Applied(m, <<recv, a, b>>, StringDispatch(m, recv, <<a, b>>))
\* The pairs of types the checker lets through; && and || it does not check.
NumericPair(types) == types \subseteq {"int", "float"}
Fits(op, l, r) ==
    CASE op \in {"==", "!=", "<", "<=", ">", ">="} -> (l = r /\ l \notin {"list", "bool"}) \/ NumericPair({l, r})
      [] op = "+" /\ l = "str" -> r \in {"int", "str"}
      [] op \in {"&&", "||"} -> l = "bool" /\ r = "bool"
      [] OTHER -> l = "int" /\ r = "int"
Binary(op) == Runs /\ \E l, r \in Range(sv.vals) : Fits(op, l.ty, r.ty) /\ Applied(op, <<l, r>>, EmitBinop(op, l, r))
Unary ==
    /\ Runs
    /\ \/ \E v \in Held("bool") : Applied("!", <<v>>, EmitNot(v))
       \/ \E v \in Held("int") : Applied("neg", <<v>>, EmitNeg(v))
\* A cast to Bool is refused by the checker.
CastValue ==
    /\ Runs
    /\ \/ \E v \in Held("str") \cup Held("int") : Applied("str", <<v>>, EmitCast("str", v))
       \/ \E v \in Held("str") \cup Held("int") \cup Held("bool") : Applied("int", <<v>>, EmitCast("int", v))
StringNext == (\E m \in Methods : CallMethod(m)) \/ (\E op \in BinaryOps : Binary(op)) \/ Unary \/ CastValue

-----------------------------------------------------------------------------
\* What the operations promise, on texts and integers.
Text(v) == TextOf(NullCoerce(v))
Sound(v) == v.ty \in {"str"} /\ v.cells # <<>> => Terminated(v.cells) /\ \A i \in DOMAIN TextOf(v.cells) : TextOf(v.cells)[i] # Unwritten
\* Calls the methods are meant for: positions inside the string, a suffix no
\* longer than it, a needle that is not empty, UTF-8 where text is decoded.
InRange(a, s) == a.n \in 0..Len(s)
MeantFor(op, args) ==
    LET s == Text(args[1])  t == Text(args[2])
    IN  CASE op = "charAt" -> InRange(args[2], s)
          [] op = "substring" -> InRange(args[2], s) /\ InRange(args[3], s) /\ args[2].n <= args[3].n
          [] op = "endsWith" -> Len(t) <= Len(s)
          [] op = "repeat" -> args[2].n >= 0
          [] op = "countSubstr" -> t # <<>>
          [] op = "replace" -> t # <<>> /\ Utf8(s) /\ Utf8(t) /\ Utf8(Text(args[3]))
          [] op = "split" -> t # <<>> /\ Utf8(s) /\ Utf8(t)
          [] op \in {"/", "%"} -> args[1].n # MinInt \/ args[2].n # -1
          [] op \in {"==", "!="} /\ args[1].ty = "enum" -> args[1].cells = <<>> /\ args[2].cells = <<>>
          [] op \in {"<", "<=", ">", ">="} -> NumericPair({args[1].ty, args[2].ty})
          [] op = "!=" -> args[1].n # NaN /\ args[2].n # NaN
          [] OTHER -> TRUE
Occurrences(s, t) == {p \in 0..Len(s) : OccursAt(s, t, p)}
\* The longest set of occurrences taken greedily from the left.
Disjoint(s, t) == CHOOSE q \in SUBSET Occurrences(s, t) :
    /\ \A x, y \in q : x < y => y - x >= Len(t)
    /\ \A p \in Occurrences(s, t) \ q : \E x \in q : x < p /\ p < x + Len(t)
    /\ \A x \in q : \A p \in Occurrences(s, t) : p < x => \E y \in q : y <= p /\ p < y + Len(t)
Glued(list, sep) == LET RECURSIVE G(_)
                        G(i) == IF i > Len(list) THEN <<>> ELSE (IF i = 1 THEN <<>> ELSE sep) \o TextOf(list[i]) \o G(i + 1)
                    IN  G(1)
Promised(op, args, v) ==
    LET s == Text(args[1])  t == Text(args[2])  a == args[1].n  b == args[2].n
    IN  CASE op = "len" -> v.n = Len(s)
          [] op = "charAt" -> Text(v) = IF b < Len(s) THEN <<s[b + 1]>> ELSE <<>>
          [] op = "substring" -> Text(v) = SubSeq(s, b + 1, args[3].n)
          [] op = "concat" -> Text(v) = s \o t
          [] op = "indexOf" -> IF Occurrences(s, t) = {} THEN v.n = -1 ELSE v.n \in Occurrences(s, t) /\ \A p \in Occurrences(s, t) : v.n <= p
          [] op = "contains" -> (v.n = 1) = (Occurrences(s, t) # {})
          [] op = "startsWith" -> (v.n = 1) = IsPrefix(t, s)
          [] op = "endsWith" -> (v.n = 1) = IsSuffix(t, s)
          [] op \in {"toUpper", "toLower"} -> Len(Text(v)) = Len(s) /\ \A i \in DOMAIN s : Text(v)[i] \in {s[i], s[i] + 32, s[i] - 32} /\ ~(IF op = "toUpper" THEN Text(v)[i] \in 97..122 ELSE Text(v)[i] \in 65..90)
          [] op = "trim" -> \E i \in 0..Len(s), j \in 0..Len(s) : i <= j /\ Text(v) = SubSeq(s, i + 1, j) /\ (\A k \in (1..i) \cup ((j + 1)..Len(s)) : IsWs(s[k])) /\ (Text(v) # <<>> => ~IsWs(Head(Text(v))) /\ ~IsWs(Last(Text(v))))
          [] op = "reverse" -> Text(v) = Reverse(s)
          [] op = "repeat" -> Len(Text(v)) = b * Len(s) /\ \A i \in DOMAIN Text(v) : Text(v)[i] = s[((i - 1) % Len(s)) + 1]
          [] op = "charCode" -> v.n = IF s = <<>> THEN 0 ELSE s[1]
          [] op = "countSubstr" -> v.n = Cardinality(Disjoint(s, t))
          [] op = "split" -> Glued(v.list, t) = s /\ \A i \in DOMAIN v.list : Occurrences(TextOf(v.list[i]), t) = {}
          [] op = "replace" -> Len(Text(v)) = Len(s) + Cardinality(Disjoint(s, t)) * (Len(Text(args[3])) - Len(t))
          [] op = "+" /\ {args[1].ty, args[2].ty} = {"str"} -> Text(v) = s \o t
          [] op = "+" /\ args[1].ty = "str" /\ args[2].ty = "int" -> IsPrefix(s, Text(v)) /\ Parsed(SubSeq(Text(v), Len(s) + 1, Len(Text(v)))) = b
          [] op \in {"+", "-", "*"} -> v.n = Wrap(CASE op = "+" -> a + b [] op = "-" -> a - b [] OTHER -> a * b)
          [] op = "/" -> \E r \in -Magnitude(b)..Magnitude(b) : a = b * v.n + r /\ Magnitude(r) < Magnitude(b) /\ (r # 0 => (r < 0) = (a < 0))
          [] op = "%" -> \E q \in (2 * MinInt)..(2 * MaxInt) : a = b * q + v.n /\ Magnitude(v.n) < Magnitude(b) /\ (v.n # 0 => (v.n < 0) = (a < 0))
          [] op = "==" -> (v.n = 1) = (s = t /\ args[1].n = args[2].n /\ a # NaN)
          [] op = "!=" -> (v.n = 1) = (s # t \/ args[1].n # args[2].n)
          [] op \in {"<", ">="} -> (v.n = 1) = ((op = "<") = (a < b) /\ a # NaN /\ b # NaN)
          [] op = "str" /\ args[1].ty = "int" -> Parsed(Text(v)) = a
          [] op = "int" /\ args[1].ty = "str" -> (\E n \in MinInt..MaxInt : Parsed(s) = n /\ IsNumber(s)) => v.n = Parsed(s)
          [] OTHER -> TRUE
\* Each operation gives what its name promises and stays inside its blocks:
\* whatever came before it, a string made by one operation is terminated and
\* whole for the next, divisions by zero and checked overflows stop the
\* program, and no call it is meant for reads outside a block or never ends.
StringsRight ==
    /\ \A i \in DOMAIN sv.vals : Sound(sv.vals[i])
    /\ sv.last.op # "" /\ MeantFor(sv.last.op, sv.last.args \o <<NullStr, NullStr>>) =>
         /\ sv.last.how \in {"value", "exit"}
         /\ sv.last.how = "value" => Promised(sv.last.op, sv.last.args \o <<NullStr, NullStr>>, sv.last.val)
         /\ sv.last.how = "exit" => sv.checks \/ sv.last.args[2].n = 0
=============================================================================

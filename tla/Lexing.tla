------------------------------ MODULE Lexing ------------------------------
(***************************************************************************)
(* The lexer (crates/doo_frontend/src/lexer/lexer.rs).  The source is a    *)
(* sequence of characters of one byte each; a letter, a digit and a symbol *)
(* stand for their classes, and the characters TLA+ strings cannot show    *)
(* have names.  A step of the specification is one call of next_token.     *)
(* Carriage returns are not among the characters.                          *)
(***************************************************************************)
EXTENDS Integers, Sequences, SequencesExt, FiniteSets

CONSTANTS SourceTexts,             \* what is lexed: [src, value], value the text the string must give or NoValue
          MaxStringLength,     \* MAX_STRING_LENGTH
          MaxIdentifierLength, \* MAX_IDENTIFIER_LENGTH
          MaxTokenCount,       \* MAX_TOKEN_COUNT
          MaxHex               \* hex digits read in \u{...}: 6

VARIABLE lx

DQ == "quote"
BS == "backslash"
NL == "newline"
NoValue == <<"no value">>

LetterChars == {"a", "e", "f", "i", "n", "u", "E"}
DigitChars == {"0", "1"}
LexKeywords == {<<"i", "f">>, <<"f", "n">>, <<"i", "n">>}  \* of keyword_map, those the letters spell
Operators3 == {<<".", ".", "=">>, <<".", ".", ".">>}
Operators2 == {<<x, "=">> : x \in {"=", "!", "<", ">", "+", "-", "*", "/", "%"}}
              \cup {<<x, x>> : x \in {"&", "|", "+", "-", ".", ":", "?"}} \cup {<<"-", ">">>, <<"=", ">">>}
Operators1 == {"+", "-", "*", "/", "%", "=", "!", "<", ">", "&", "|", "(", ")", "{", "}", "[", "]",
               ",", ";", ".", ":", "?", "@", "#", "~", "$"}

-----------------------------------------------------------------------------
(* The position: pos in the characters, off in bytes, line and column. *)

Lexer(src) == [src |-> src, pos |-> 1, off |-> 0, line |-> 1, col |-> 1]

Ended(l) == l.pos > Len(l.src)
Char(l) == IF Ended(l) THEN "nul" ELSE l.src[l.pos]
Ahead(l, n) == SubSeq(l.src, l.pos, Min({l.pos + n - 1, Len(l.src)}))
Advance(l) == IF Ended(l) THEN l ELSE [l EXCEPT !.pos = @ + 1, !.off = @ + 1, !.col = @ + 1]
RECURSIVE AdvanceBy(_, _)
AdvanceBy(l, n) == IF n = 0 THEN l ELSE AdvanceBy(Advance(l), n - 1)

\* a line break between tokens starts column 1; inside a string the column is
\* reset before the break is passed, so the next line starts in column 2
BreakThen(l) == [Advance(l) EXCEPT !.line = @ + 1, !.col = 1]
InString(l) == IF Char(l) = NL THEN Advance([l EXCEPT !.line = @ + 1, !.col = 1]) ELSE Advance(l)

Token(kind, text, from, to) ==
    [kind |-> kind, text |-> text, start |-> from.off, end |-> to.off, at |-> <<from.pos, to.pos>>]

\* past the characters of a class
RECURSIVE SkipWhile(_, _)
SkipWhile(l, class) == IF ~Ended(l) /\ Char(l) \in class THEN SkipWhile(Advance(l), class) ELSE l

RECURSIVE SkipLineComment(_), SkipBlockComment(_, _), SkipBlanks(_)
SkipLineComment(l) == IF Ended(l) \/ Char(l) = NL THEN l ELSE SkipLineComment(Advance(l))

\* block comments nest; one that is never closed ends with the input
SkipBlockComment(l, depth) ==
    CASE Ended(l) \/ depth = 0 -> l
      [] Ahead(l, 2) = <<"/", "*">> -> SkipBlockComment(AdvanceBy(l, 2), depth + 1)
      [] Ahead(l, 2) = <<"*", "/">> -> SkipBlockComment(AdvanceBy(l, 2), depth - 1)
      [] Char(l) = NL -> SkipBlockComment(BreakThen(l), depth)
      [] OTHER -> SkipBlockComment(Advance(l), depth)

SkipBlanks(l) ==
    CASE Char(l) = " " -> SkipBlanks(Advance(l))
      [] Char(l) = NL -> SkipBlanks(BreakThen(l))
      [] Ahead(l, 2) = <<"/", "/">> -> SkipBlanks(SkipLineComment(AdvanceBy(l, 2)))
      [] Ahead(l, 2) = <<"/", "*">> -> SkipBlanks(SkipBlockComment(AdvanceBy(l, 2), 1))
      [] OTHER -> l

-----------------------------------------------------------------------------
(* Strings: a body up to one quote, or up to three. *)

Quotes(n) == [i \in 1..n |-> DQ]
AtClose(l, n) == Ahead(l, n) = Quotes(n)

\* an error in a string skips to its end and past it
RECURSIVE SkipToClose(_, _)
SkipToClose(l, n) ==
    CASE Ended(l) -> l
      [] AtClose(l, n) -> AdvanceBy(l, n)
      [] OTHER -> SkipToClose(InString(l), n)

\* ${ ... }: everything up to the matching brace, quotes included
RECURSIVE Interpolated(_, _, _)
Interpolated(l, depth, v) ==
    IF Ended(l) \/ depth = 0 THEN [l |-> l, v |-> v]
    ELSE Interpolated(InString(l), depth + (CASE Char(l) = "{" -> 1 [] Char(l) = "}" -> -1 [] OTHER -> 0), Append(v, Char(l)))

EscapeOf == [c \in {"n", BS, DQ, "0", "$"} |-> IF c = "n" THEN NL ELSE IF c = "0" THEN "nul" ELSE c]
HexDigits == {"0", "1", "a", "e", "f", "E"}

\* \u{...}: up to MaxHex digits; the result of a well-formed one is "uni"
RECURSIVE HexFrom(_, _)
HexFrom(l, v) == IF Ended(l) \/ Char(l) = "}" \/ Len(v) >= MaxHex THEN [l |-> l, v |-> v] ELSE HexFrom(Advance(l), Append(v, Char(l)))
UnicodeEscape(l) ==
    LET digits == HexFrom(AdvanceBy(l, 2), <<>>)
        good == /\ Ahead(l, 2) = <<"u", "{">> /\ Char(digits.l) = "}"
                /\ digits.v # <<>> /\ \A i \in 1..Len(digits.v) : digits.v[i] \in HexDigits
        bad == IF Ahead(l, 2) # <<"u", "{">> THEN Advance(l) ELSE IF Char(digits.l) = "}" THEN Advance(digits.l) ELSE digits.l
    IN  [ok |-> good, l |-> IF good THEN Advance(digits.l) ELSE bad]

\* the loop of scan_string and scan_multiline_string
RECURSIVE StringBody(_, _, _, _, _)
StringBody(l, n, v, template, length) ==
    LET error(at) == [kind |-> "error", l |-> SkipToClose(at, n), v |-> <<>>, indent |-> 0]
        escape == Char(Advance(l))
        code == UnicodeEscape(Advance(l))
    IN  CASE Ended(l) -> [kind |-> "error", l |-> l, v |-> <<>>, indent |-> 0]
          [] AtClose(l, n) -> [kind |-> IF template THEN "template" ELSE "string", l |-> AdvanceBy(l, n), v |-> v, indent |-> l.col - 1]
          [] length = MaxStringLength -> error(l)
          [] Ahead(l, 2) = <<"$", "{">> ->
                LET r == Interpolated(AdvanceBy(l, 2), 1, v \o <<"$", "{">>) IN StringBody(r.l, n, r.v, TRUE, length + 1)
          [] Char(l) = BS /\ Ended(Advance(l)) -> StringBody(Advance(l), n, v, template, length + 1)
          [] Char(l) = BS /\ escape \in DOMAIN EscapeOf -> StringBody(AdvanceBy(l, 2), n, Append(v, EscapeOf[escape]), template, length + 1)
          [] Char(l) = BS /\ escape = "u" -> IF code.ok THEN StringBody(code.l, n, Append(v, "uni"), template, length + 1) ELSE error(code.l)
          [] Char(l) = BS -> error(Advance(l))
          [] OTHER -> StringBody(InString(l), n, Append(v, Char(l)), template, length + 1)

ScanString(l) ==
    LET r == StringBody(Advance(l), 1, <<>>, FALSE, 0) IN [l |-> r.l, tok |-> Token(r.kind, r.v, l, r.l)]

\* the lines of a text, as str::lines gives them
RECURSIVE LinesOf(_)
LinesOf(v) ==
    IF v = <<>> THEN <<>>
    ELSE LET breaks == {i \in 1..Len(v) : v[i] = NL}
             first == Min(breaks)
         IN  IF breaks = {} THEN <<v>> ELSE <<SubSeq(v, 1, first - 1)>> \o LinesOf(SubSeq(v, first + 1, Len(v)))

\* a bug: the trimmed line loses its first character whatever it is
TrimLineBlindly(line, indent) == SubSeq(line, indent + 1, Len(line))

\* up to indent leading blanks go, but one goes even when indent is 0
TrimLine(line, indent) ==
    LET blanks == {i \in 0..Len(line) : \A j \in 1..i : line[j] = " "}
        gone == Min({Max(blanks), IF indent = 0 THEN 1 ELSE indent})
    IN  SubSeq(line, gone + 1, Len(line))

TrimMultiline(v, indent) ==
    LET lines == LinesOf(v)
    IN  FlattenSeq([i \in 1..Len(lines) |-> (IF i = 1 THEN <<>> ELSE <<NL>>) \o TrimLine(lines[i], indent)])

ScanMultilineString(l) ==
    LET open == AdvanceBy(l, 3)
        body == IF Char(open) = NL THEN BreakThen(open) ELSE open
        r == StringBody(body, 3, <<>>, FALSE, 0)
    IN  [l |-> r.l, tok |-> Token(r.kind, IF r.kind = "error" THEN <<>> ELSE TrimMultiline(r.v, r.indent), l, r.l)]

-----------------------------------------------------------------------------
(* Numbers, names and operators. *)

\* an exponent without digits is given back: the position, not the offset
ScanNumber(l) ==
    LET whole == SkipWhile(l, DigitChars)
        point == Char(whole) = "." /\ Char(Advance(whole)) \in DigitChars
        mantissa == IF point THEN SkipWhile(Advance(whole), DigitChars) ELSE whole
        marked == Char(mantissa) \in {"e", "E"}
        signed == IF Char(Advance(mantissa)) \in {"+", "-"} THEN AdvanceBy(mantissa, 2) ELSE Advance(mantissa)
        exponent == marked /\ Char(signed) \in DigitChars
        end == CASE exponent -> SkipWhile(signed, DigitChars)
                 [] marked -> [signed EXCEPT !.pos = mantissa.pos]
                 [] OTHER -> mantissa
    IN  [l |-> end, tok |-> Token(IF point \/ exponent THEN "float" ELSE "int", SubSeq(l.src, l.pos, end.pos - 1), l, end)]

ScanIdentifier(l) ==
    LET end == SkipWhile(l, LetterChars \cup DigitChars \cup {"_"})
        text == SubSeq(l.src, l.pos, end.pos - 1)
        kind == CASE Len(text) > MaxIdentifierLength -> "error"
                  [] text = <<"_">> -> "underscore"
                  [] text \in LexKeywords -> "keyword"
                  [] OTHER -> "ident"
    IN  [l |-> end, tok |-> Token(kind, text, l, end)]

ScanOperator(l) ==
    LET n == CASE Ahead(l, 3) \in Operators3 -> 3 [] Ahead(l, 2) \in Operators2 -> 2 [] OTHER -> 1
        end == AdvanceBy(l, n)
    IN  [l |-> end, tok |-> Token(IF n > 1 \/ Char(l) \in Operators1 THEN "op" ELSE "error", Ahead(l, n), l, end)]

NextToken(l0) ==
    LET l == SkipBlanks(l0)
    IN  CASE Ended(l) -> [l |-> l, tok |-> Token("eof", <<>>, l, l)]
          [] Char(l) = DQ -> IF Ahead(l, 3) = Quotes(3) THEN ScanMultilineString(l) ELSE ScanString(l)
          [] Char(l) \in DigitChars -> ScanNumber(l)
          [] Char(l) \in LetterChars \cup {"_"} -> ScanIdentifier(l)
          [] OTHER -> ScanOperator(l)

\* process_escapes of the parser, over the text the lexer has unescaped already
RECURSIVE ProcessEscapes(_)
ProcessEscapes(v) ==
    IF v = <<>> THEN <<>>
    ELSE IF v[1] = BS /\ Len(v) > 1
    THEN (IF v[2] \in DOMAIN EscapeOf THEN <<EscapeOf[v[2]]>> ELSE <<BS, v[2]>>) \o ProcessEscapes(SubSeq(v, 3, Len(v)))
    ELSE <<v[1]>> \o ProcessEscapes(Tail(v))

LexingStart(s) == [l |-> Lexer(s.src), toks |-> <<>>, value |-> s.value]
LexingInit == \E s \in SourceTexts : lx = LexingStart(s)

LexDone == lx.toks # <<>> /\ (Last(lx.toks).kind = "eof" \/ Len(lx.toks) > MaxTokenCount)

TokenTaken ==
    LET r == NextToken(lx.l)
    IN  /\ ~LexDone /\ Len(lx.toks) < MaxTokenCount
        /\ lx' = [lx EXCEPT !.l = r.l, !.toks = Append(@, r.tok)]

TooManyTokens ==
    /\ ~LexDone /\ Len(lx.toks) = MaxTokenCount
    /\ lx' = [lx EXCEPT !.toks = Append(@, Token("error", <<>>, lx.l, lx.l))]

LexingNext == TokenTaken \/ TooManyTokens

-----------------------------------------------------------------------------
(* Properties. *)

\* an exponent that was given back: from there the offsets run ahead
Rewound == lx.l.off # lx.l.pos - 1

\* Every token is where its span says and the spans come in order, through
\* strings, comments and line breaks, until an exponent is given back.
SpansArePlaces ==
    ~Rewound => \A i \in 1..Len(lx.toks) :
        /\ lx.toks[i].start = lx.toks[i].at[1] - 1 /\ lx.toks[i].end = lx.toks[i].at[2] - 1
        /\ i > 1 => lx.toks[i - 1].end <= lx.toks[i].start

\* Between two tokens there is nothing but blanks and comments, and a name, a
\* number or an operator is exactly the characters it covers.
NothingIsSkipped ==
    \A i \in 1..Len(lx.toks) :
        LET t == lx.toks[i]
            gap == SubSeq(lx.l.src, IF i = 1 THEN 1 ELSE lx.toks[i - 1].at[2], t.at[1] - 1)
        IN  /\ "/" \notin ToSet(gap) => ToSet(gap) \subseteq {" ", NL}
            /\ t.kind \in {"int", "float", "ident", "keyword", "underscore", "op"}
                  => t.text = SubSeq(lx.l.src, t.at[1], t.at[2] - 1)

\* A token takes as much as it can: with the character after it, it would not
\* be one longer token.  (1 followed by e+ is not: the exponent needs a digit.)
TakesTheLongest ==
    \A i \in 1..Len(lx.toks) :
        LET t == lx.toks[i]
            more == SubSeq(lx.l.src, t.at[1], t.at[2])
        IN  t.kind \in {"int", "float", "ident", "keyword", "op"} /\ t.at[2] <= Len(lx.l.src)
              => LET r == NextToken(Lexer(more)) IN Ended(r.l) => r.tok.kind = "error" \/ r.tok.text = <<>>

\* The line counter counts every line break, inside strings and comments too.
LinesAreCounted ==
    lx.l.line = 1 + Cardinality({i \in 1..Min({lx.l.pos - 1, Len(lx.l.src)}) : lx.l.src[i] = NL})

\* A string that was written with its quotes, backslashes and line breaks
\* escaped has the value that was written, after the parser has processed the
\* escapes once more, if no backslash stands before an escape's letter.
StringsReadBack ==
    LET v == lx.value
        clean == \A i \in 1..Len(v) - 1 : v[i] = BS => v[i + 1] \notin DOMAIN EscapeOf
    IN  v # NoValue /\ clean /\ lx.toks # <<>> =>
          /\ lx.toks[1].kind \in {"string", "template"}
          /\ lx.toks[1].kind = "string" => ProcessEscapes(lx.toks[1].text) = v

\* A text block loses blanks at the start of its lines and nothing else.
TrimsOnlyBlanks ==
    \A i \in 1..Len(lx.toks) :
        LET t == lx.toks[i]
            raw == SubSeq(lx.l.src, t.at[1] + 3, t.at[2] - 4)
            solid(s) == SelectSeq(s, LAMBDA c : c \notin {" ", NL})
        IN  t.kind = "string" /\ t.at[2] - t.at[1] >= 6 /\ SubSeq(lx.l.src, t.at[1], t.at[1] + 2) = Quotes(3) /\ BS \notin ToSet(raw)
              => solid(t.text) = solid(raw)

\* What lexing promises.
LexesRight == SpansArePlaces /\ NothingIsSkipped /\ TakesTheLongest /\ LinesAreCounted /\ StringsReadBack /\ TrimsOnlyBlanks

=============================================================================

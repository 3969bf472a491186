----------------------------- MODULE Parsing -----------------------------
(***************************************************************************)
(* The recursive-descent parser (crates/doo_frontend/src/parser).  A token *)
(* is its text: a keyword or a punctuation mark stands for its kind, and   *)
(* an identifier, a literal or a string template for itself.  The parser's *)
(* state is a record, every method is an operator from a state to a result *)
(* [ok, p, v], and `?` is Try: a failed result goes up with the state as   *)
(* it is, the depth counters that were not counted down included.  One     *)
(* step of the specification is one turn of the loop of parse_program.     *)
(* Spans, messages and error codes are left out: an error is counted.      *)
(***************************************************************************)
EXTENDS Integers, Sequences, SequencesExt, FiniteSets

CONSTANTS PIdents,       \* the identifiers of the inputs
          Capitals,      \* those that start with a capital letter
          PTemplates,    \* string templates, each with the tokens of its one ${...}
          MaxExprDepth,  \* MAX_EXPR_DEPTH
          Inputs         \* what is parsed: [toks, want], want the items it must give or Unknown

VARIABLE pa

Eof == "<eof>"
Unknown == <<"unknown">>
PNone == <<"none">>
NoName == ""

PInts == {"1", "2"}
PFloats == {"1.5"}
PStrings == {"str"}
PBools == {"true", "false"}
RouteMethodNames == {"get", "post", "put", "delete", "patch", "head", "options"}

-----------------------------------------------------------------------------
(* The state, and the helpers every method is written with. *)

Parser(toks) ==
    [toks |-> toks, pos |-> 1, loop |-> 0, fn |-> 0, depth |-> 0,
     errs |-> Len(SelectSeq(toks, LAMBDA t : t = "error"))]

Tok(p) == IF p.pos <= Len(p.toks) THEN p.toks[p.pos] ELSE Eof
Peek(p) == IF p.pos < Len(p.toks) THEN p.toks[p.pos + 1] ELSE Eof
AtEnd(p) == Tok(p) = Eof
Adv(p) == IF AtEnd(p) THEN p ELSE [p EXCEPT !.pos = @ + 1]

Good(p, v) == [ok |-> TRUE, p |-> p, v |-> v]
Bad(p) == [ok |-> FALSE, p |-> p, v |-> PNone]
Try(r, F(_, _)) == IF r.ok THEN F(r.p, r.v) ELSE r

Expect(p, t) == IF Tok(p) = t THEN Good(Adv(p), t) ELSE Bad(p)
ExpectIdent(p) == IF Tok(p) \in PIdents THEN Good(Adv(p), Tok(p)) ELSE Bad(p)
\* a token that may be there: the state after it, if it is
Maybe(p, t) == IF Tok(p) = t THEN Adv(p) ELSE p

SyncPoints == {"fn", "struct", "enum", "import", "let", "if", "for", "return"}

\* skip at least one token, then up to the start of a declaration or statement
Synchronize(p) ==
    LET from == Adv(p)
        stops == {i \in from.pos..Len(p.toks) :
                    \/ p.toks[i] = "}"
                    \/ p.toks[i] \in SyncPoints /\ ~(p.toks[i] = "fn" /\ p.fn > 0)}
    IN  [from EXCEPT !.pos = IF stops = {} THEN Len(p.toks) + 1
                             ELSE CHOOSE i \in stops : \A j \in stops : i <= j]

\* A rule calls another one through ParseElement, which all of them end in.
RECURSIVE ParseElement(_, _), ParsePrec(_, _), ParseUnary(_), ParsePrimary(_), ParsePostfix(_, _), ParseBinaryOp(_, _, _),
          ParseListFrom(_, _, _, _), ParseIf(_), ParseIfExpr(_), ParseStmtsFrom(_, _), ParseBlockItems(_, _),
          ParseScopeItems(_, _), CommaSeparated(_, _, _), ExprToPattern(_), ParseDecorators(_, _), ArmPatterns(_, _),
          ImportPath(_, _), PolicyRule(_, _)

ParseExpression(p) == ParseElement(p, "expr")

\* parse_field_decl: name, `?`, type, decorators, default
ParseFieldDecl(p) ==
    Try(ExpectIdent(p), LAMBDA q, name :
    Try(Expect(Maybe(q, "?"), ":"), LAMBDA r, c :
    Try(ParseElement(r, "type"), LAMBDA s, type :
    Try(ParseDecorators(s, <<>>), LAMBDA t, decs :
        IF Tok(t) # "=" THEN Good(t, <<"field", name, Tok(q) = "?", type, decs, PNone>>)
        ELSE Try(ParseExpression(Adv(t)), LAMBDA u, e :
                 Good(u, <<"field", name, Tok(q) = "?", type, decs, e>>))))))

\* parse_variant_decl: a name, perhaps with the types it carries
ParseVariantDecl(p) ==
    Try(ExpectIdent(p), LAMBDA q, name :
        LET payload == IF Tok(q) # "(" THEN Good(q, PNone)
                       ELSE Try(ParseListFrom(Adv(q), ")", "type", <<>>), LAMBDA r, ts :
                            Try(Expect(r, ")"), LAMBDA s, c : Good(s, IF Len(ts) = 1 THEN ts[1] ELSE <<"tuple", ts>>)))
        IN  Try(payload, LAMBDA r, ty :
            Try(ParseDecorators(r, <<>>), LAMBDA s, decs : Good(s, <<"variant", name, ty, decs>>))))

\* a parameter of a function or of a closure: a name and perhaps its type
ParseParam(p) ==
    Try(ExpectIdent(p), LAMBDA q, name :
        IF Tok(q) # ":" THEN Good(q, <<name, PNone>>)
        ELSE Try(ParseElement(Adv(q), "type"), LAMBDA r, ty : Good(r, <<name, ty>>)))

\* parse_type_params: a name and perhaps the interface it must implement
ParseTypeParam(p) ==
    Try(ExpectIdent(p), LAMBDA q, name :
        IF Tok(q) # ":" THEN Good(q, <<name, NoName>>)
        ELSE Try(ExpectIdent(Adv(q)), LAMBDA r, i : Good(r, <<name, i>>)))

\* `key : value`, of an object literal, a map literal and a struct literal
ParsePair(p, key, shorthand) ==
    Try(key, LAMBDA q, k :
        IF shorthand /\ Tok(q) # ":" THEN Good(q, <<k, <<"id", k>>>>)
        ELSE Try(Expect(q, ":"), LAMBDA r, c :
             Try(ParseExpression(r), LAMBDA s, v : Good(s, <<k, v>>))))

ParseSpread(p) == Try(ParseExpression(Adv(p)), LAMBDA q, e : Good(q, <<"spread", e>>))

ParseMapEntry(p) ==
    IF Tok(p) = "..." THEN Try(ParseSpread(p), LAMBDA q, e : Good(q, <<e, <<"nil">>>>))
    ELSE ParsePair(p, ParseExpression(p), FALSE)

-----------------------------------------------------------------------------
(* Match arms. *)

ParseMatchPattern(p) ==
    CASE Tok(p) = "_" -> Good(Adv(p), <<"wild">>)
      [] Tok(p) \in PIdents /\ Peek(p) = "::" ->
            Try(ExpectIdent(Adv(Adv(p))), LAMBDA q, v :
                IF Tok(q) # "(" THEN Good(q, <<"variant", Tok(p), v>>)
                ELSE Try(ParseListFrom(Adv(q), ")", "ident", <<>>), LAMBDA r, bs :
                     Try(Expect(r, ")"), LAMBDA s, c : Good(s, <<"payload", Tok(p), v, bs>>))))
      [] OTHER -> Try(ParseExpression(p), LAMBDA q, e :
                      Good(q, <<IF e[1] = "lit" /\ Tok(p) = e[2] THEN "literal" ELSE "cond", e>>))

\* more patterns of a tuple, unless the comma ends the list or the arm
ArmPatterns(p, acc) ==
    IF Tok(p) = "," /\ Peek(p) \notin {"=>", "}"}
    THEN Try(ParseMatchPattern(Adv(p)), LAMBDA q, m : ArmPatterns(q, Append(acc, m)))
    ELSE Good(p, IF Len(acc) = 1 THEN acc[1] ELSE <<"tuple", acc>>)

ParseMatchArm(p) ==
    Try(ParseMatchPattern(p), LAMBDA q, first :
    Try(ArmPatterns(q, <<first>>), LAMBDA r, pat :
    Try(IF Tok(r) = "if" THEN ParseExpression(Adv(r)) ELSE Good(r, PNone), LAMBDA s, guard :
    Try(Expect(s, "=>"), LAMBDA t, c :
    Try(IF Tok(t) \in {"print", "let", "for", "return", "break", "continue"}
        THEN Try(ParseElement(t, "statement"), LAMBDA u, st : Good(u, <<"block", <<st>>, PNone>>))
        ELSE ParseExpression(t), LAMBDA u, body : Good(u, <<"arm", pat, guard, body>>))))))

-----------------------------------------------------------------------------
(* Lists: the items are parsed until the closing token, with commas between. *)

ParseListFrom(p, end, what, acc) ==
    IF Tok(p) = end \/ AtEnd(p) THEN Good(p, acc)
    ELSE Try(ParseElement(p, what), LAMBDA q, v :
         Try(IF Tok(q) = end THEN Good(q, end) ELSE Expect(q, ","), LAMBDA r, c :
             ParseListFrom(r, end, what, Append(acc, v))))

Bracketed(p, open, what, close) ==
    Try(Expect(p, open), LAMBDA q, o :
    Try(ParseListFrom(q, close, what, <<>>), LAMBDA r, vs :
    Try(Expect(r, close), LAMBDA s, c : Good(s, vs))))

\* one or more items with commas between, no closing token
CommaSeparated(p, what, acc) ==
    Try(ParseElement(p, what), LAMBDA q, v :
        IF Tok(q) = "," THEN CommaSeparated(Adv(q), what, Append(acc, v)) ELSE Good(q, Append(acc, v)))

\* the same name twice in one list is refused (HashSet::insert)
Distinct(r, Name(_)) ==
    Try(r, LAMBDA p, vs : IF Cardinality({Name(vs[i]) : i \in 1..Len(vs)}) = Len(vs) THEN r ELSE Bad(p))

-----------------------------------------------------------------------------
(* Expressions. *)

Precedence ==
    [o \in {"||", "&&", "==", "!=", "<", ">", "<=", ">=", "in", "??", "|", "&", "+", "-", "*", "/", "%"} |->
        CASE o = "||" -> 1 [] o = "&&" -> 2 [] o \in {"==", "!="} -> 3
          [] o \in {"<", ">", "<=", ">=", "in"} -> 4 [] o = "??" -> 5 [] o = "|" -> 6 [] o = "&" -> 7
          [] o \in {"+", "-"} -> 8 [] OTHER -> 9]

\* a plausible bug: the right operand takes operators of the same level too
ParseBinaryOpRight(p, left, min) ==
    LET op == Tok(p)
    IN  IF op \notin DOMAIN Precedence \/ (op \in DOMAIN Precedence /\ Precedence[op] < min) THEN Good(p, left)
        ELSE Try(ParsePrec(Adv(p), Precedence[op]), LAMBDA q, right :
                 ParseBinaryOp(q, <<"bin", op, left, right>>, min))

ParseBinaryOp(p, left, min) ==
    LET op == Tok(p)
    IN  IF op \notin DOMAIN Precedence \/ (op \in DOMAIN Precedence /\ Precedence[op] < min) THEN Good(p, left)
        ELSE Try(ParsePrec(Adv(p), Precedence[op] + 1), LAMBDA q, right :
                 ParseBinaryOp(q, <<"bin", op, left, right>>, min))

ParseRange(p, left) ==
    IF Tok(p) \notin {"..", "..="} THEN Good(p, left)
    ELSE Try(ParsePrec(Adv(p), 8), LAMBDA q, end : Good(q, <<"range", Tok(p), left, end>>))

\* the depth is counted down only on the way out that succeeds
ParsePrec(p0, min) ==
    LET p == [p0 EXCEPT !.depth = @ + 1]
    IN  IF p.depth > MaxExprDepth THEN Bad(p0)
        ELSE Try(ParseUnary(p), LAMBDA q, e :
             Try(ParsePostfix(q, e), LAMBDA r, f :
             Try(ParseBinaryOp(r, f, min), LAMBDA s, g :
             Try(ParseRange(s, g), LAMBDA t, h : Good([t EXCEPT !.depth = @ - 1], h)))))

ParseUnary(p) ==
    IF Tok(p) \in {"-", "!"}
    THEN Try(ParsePrimary(Adv(p)), LAMBDA q, e :
         Try(ParsePostfix(q, e), LAMBDA r, f : Good(r, <<"un", Tok(p), f>>)))
    ELSE ParsePrimary(p)

ParsePostfix(p, e) ==
    CASE Tok(p) = "(" -> Try(Bracketed(p, "(", "expr", ")"), LAMBDA q, args : ParsePostfix(q, <<"call", e, args>>))
      [] Tok(p) = "." ->
            Try(ExpectIdent(Adv(p)), LAMBDA q, f :
                IF Tok(q) # "(" THEN ParsePostfix(q, <<"get", e, f>>)
                ELSE Try(Bracketed(q, "(", "expr", ")"), LAMBDA r, args : ParsePostfix(r, <<"method", e, f, args>>)))
      [] Tok(p) = "[" ->
            Try(ParseExpression(Adv(p)), LAMBDA q, i :
            Try(Expect(q, "]"), LAMBDA r, c : ParsePostfix(r, <<"index", e, i>>)))
      [] Tok(p) = "as" -> Try(ParseElement(Adv(p), "type"), LAMBDA q, ty : ParsePostfix(q, <<"cast", e, ty>>))
      [] Tok(p) = "??" /\ Peek(p) = "panic" ->
            Try(Expect(Adv(Adv(p)), "("), LAMBDA q, o :
            Try(ParseExpression(q), LAMBDA r, m :
            Try(Expect(r, ")"), LAMBDA s, c : ParsePostfix(s, <<"unwrap", e, m>>))))
      [] Tok(p) = "?" -> ParsePostfix(Adv(p), <<"try", e>>)
      [] OTHER -> Good(p, e)

\* `{` after a capitalised name opens a struct literal if fields seem to follow
IsStructLiteralBody(p) ==
    \/ Peek(p) = "}"
    \/ /\ Peek(p) \in PIdents
       /\ p.pos + 2 > Len(p.toks) \/ p.toks[p.pos + 2] \in {":", ",", "}"}

ParseIdent(p) ==
    LET name == Tok(p)
        q == Adv(p)
    IN  CASE Tok(q) = "::" ->
                Try(ExpectIdent(Adv(q)), LAMBDA r, v :
                    IF Tok(r) # "(" THEN Good(r, <<"enum", name, v, <<>>>>)
                    ELSE Try(Bracketed(r, "(", "expr", ")"), LAMBDA s, args : Good(s, <<"enum", name, v, args>>)))
          [] Tok(q) = "{" /\ name \in Capitals /\ IsStructLiteralBody(q) ->
                Try(Bracketed(q, "{", "structfield", "}"), LAMBDA r, fs : Good(r, <<"struct", name, fs>>))
          [] OTHER -> Good(q, <<"id", name>>)

\* lookahead_closure: does the parenthesis close before `=>` or `->`?
LookaheadClosure(p) ==
    LET depth(i) == Len(SelectSeq(SubSeq(p.toks, p.pos, i), LAMBDA t : t = "("))
                    - Len(SelectSeq(SubSeq(p.toks, p.pos, i), LAMBDA t : t = ")"))
        closes == {i \in p.pos..Len(p.toks) : depth(i) = 0}
        after == 1 + (CHOOSE i \in closes : \A j \in closes : i <= j)
    IN  closes # {} /\ after <= Len(p.toks) /\ p.toks[after] \in {"=>", "->"}

ParseGroupOrTuple(p) ==
    IF Peek(p) = ")" THEN Good(Adv(Adv(p)), <<"tuple", <<>>>>)
    ELSE Try(ParseExpression(Adv(p)), LAMBDA q, first :
             IF Tok(q) # "," THEN Try(Expect(q, ")"), LAMBDA r, c : Good(r, first))
             ELSE Try(ParseListFrom(Adv(q), ")", "expr", <<first>>), LAMBDA r, es :
                  Try(Expect(r, ")"), LAMBDA s, c : Good(s, <<"tuple", es>>))))

\* lookahead_brace_type: what an expression that starts with `{` is
LookaheadBraceType(p) ==
    LET t(k) == IF p.pos + k <= Len(p.toks) THEN p.toks[p.pos + k] ELSE Eof
        level(i) == Len(SelectSeq(SubSeq(p.toks, p.pos + 1, i), LAMBDA x : x = "{"))
                    - Len(SelectSeq(SubSeq(p.toks, p.pos + 1, i), LAMBDA x : x = "}"))
        marks == {i \in p.pos + 1..Len(p.toks) :
                    \/ p.toks[i] = "}" /\ level(i) < 0
                    \/ p.toks[i] \in {":", ";"} /\ level(i) = 0}
        first == CHOOSE i \in marks : \A j \in marks : i <= j
    IN  CASE t(1) \in {"}", "..."} \cup PStrings -> "map"
          [] t(1) \in PInts \cup PFloats \cup PBools -> IF t(2) = ":" THEN "map" ELSE "block"
          [] t(1) \in RouteMethodNames \cap PIdents /\ t(2) = "(" -> "routes"
          [] t(1) \in PIdents /\ marks # {} /\ p.toks[first] = ":" -> "object"
          [] OTHER -> "block"

\* parse_block of expressions: the first error ends it, semicolons are optional
ParseBlockItems(p, acc) ==
    IF Tok(p) = "}" \/ AtEnd(p) THEN Good(p, <<"block", acc, PNone>>)
    ELSE Try(ParseElement(p, "statement"), LAMBDA q, s :
             IF Tok(q) = "}" /\ s[1] = "expr" THEN Good(q, <<"block", acc, s[2]>>)
             ELSE ParseBlockItems(Maybe(q, ";"), Append(acc, s)))

ParseBlockExpr(p) ==
    Try(Expect(p, "{"), LAMBDA q, o :
    Try(ParseBlockItems(q, <<>>), LAMBDA r, b :
    Try(Expect(r, "}"), LAMBDA s, c : Good(s, b))))

\* the statements of a scope: nothing consumes a semicolon
ParseScopeItems(p, acc) ==
    IF Tok(p) = "}" \/ AtEnd(p) THEN Try(Expect(p, "}"), LAMBDA q, c : Good(q, <<"scope", acc>>))
    ELSE Try(ParseElement(p, "statement"), LAMBDA q, s : ParseScopeItems(q, Append(acc, s)))

ParseBrace(p) ==
    LET kind == LookaheadBraceType(p)
    IN  CASE kind = "object" -> Try(Bracketed(p, "{", "objectfield", "}"), LAMBDA q, es : Good(q, <<"object", es>>))
          [] kind = "map" -> Try(Bracketed(p, "{", "entry", "}"), LAMBDA q, es : Good(q, <<"map", es>>))
          [] kind = "routes" -> Try(Bracketed(p, "{", "route", "}"), LAMBDA q, es : Good(q, <<"routes", es>>))
          [] OTHER -> ParseBlockExpr(p)

ParseIfExpr(p) ==
    Try(Expect(p, "if"), LAMBDA q, i :
    Try(ParseExpression(q), LAMBDA r, cond :
    Try(ParseBlockExpr(r), LAMBDA s, then :
        IF Tok(s) # "else" THEN Good(s, <<"ifx", cond, then, PNone>>)
        ELSE Try(IF Peek(s) = "if" THEN ParseIfExpr(Adv(s)) ELSE ParseBlockExpr(Adv(s)), LAMBDA t, els :
                 Good(t, <<"ifx", cond, then, els>>)))))

ParseMatch(p) ==
    Try(IF Peek(p) = "{" THEN Good(Adv(p), <<>>) ELSE CommaSeparated(Adv(p), "expr", <<>>), LAMBDA q, vs :
    Try(Bracketed(q, "{", "arm", "}"), LAMBDA r, arms : Good(r, <<"match", vs, arms>>)))

ParseClosure(p) ==
    Try(Bracketed(p, "(", "param", ")"), LAMBDA q, params :
    Try(IF Tok(q) # "->" THEN Good(q, PNone) ELSE ParseElement(Adv(q), "type"), LAMBDA r, ret :
    Try(IF Tok(q) = "->" /\ Tok(r) = "!" THEN ParseElement(Adv(r), "type") ELSE Good(r, PNone), LAMBDA s, err :
    Try(Expect(s, "=>"), LAMBDA t, c :
    Try(IF Tok(t) = "{" THEN ParseBlockExpr(t) ELSE ParseExpression(t), LAMBDA u, body :
        Good(u, <<"closure", params, ret, err, body>>))))))

\* without parentheses the values go on after each comma
RECURSIVE OkValues(_, _)
OkValues(p, acc) ==
    Try(ParseExpression(p), LAMBDA q, e :
        IF Tok(q) # "," THEN Good(q, Append(acc, e))
        ELSE IF Peek(q) \in {";", "}"} THEN Good(Adv(q), Append(acc, e))
        ELSE OkValues(Adv(q), Append(acc, e)))

ParseOk(p) ==
    Try(IF Peek(p) = "(" THEN Bracketed(Adv(p), "(", "expr", ")") ELSE OkValues(Adv(p), <<>>), LAMBDA q, vs :
        Good(q, <<"ok", vs>>))

ParseErr(p) ==
    IF Peek(p) # "(" THEN Try(ParseExpression(Adv(p)), LAMBDA q, e : Good(q, <<"err", e>>))
    ELSE Try(ParseExpression(Adv(Adv(p))), LAMBDA q, e :
         Try(Expect(q, ")"), LAMBDA r, c : Good(r, <<"err", e>>)))

\* parse_string_interpolation: the text in ${...} is parsed on its own; what
\* follows its first expression is not looked at
ParseInterpolation(p) ==
    LET inner == ParseExpression(Parser(PTemplates[Tok(p)]))
    IN  IF inner.ok THEN Good(Adv(p), <<"interp", Tok(p), inner.v>>) ELSE Bad(Adv(p))

ParsePrimary(p) ==
    LET t == Tok(p)
    IN  CASE t \in {"error", "99999999999999999999"} -> Bad(Adv(p))  \* a lexer error, an integer that is no i64
          [] t \in PInts \cup PFloats \cup PStrings \cup PBools -> Good(Adv(p), <<"lit", t>>)
          [] t \in DOMAIN PTemplates -> ParseInterpolation(p)
          [] t = "nil" -> Good(Adv(p), <<"nil">>)
          [] t = "..." -> ParseSpread(p)
          [] t \in PIdents -> ParseIdent(p)
          [] t = "(" -> IF LookaheadClosure(p) THEN ParseClosure(p) ELSE ParseGroupOrTuple(p)
          [] t = "[" -> Try(Bracketed(p, "[", "expr", "]"), LAMBDA q, es : Good(q, <<"array", es>>))
          [] t = "{" -> ParseBrace(p)
          [] t = "if" -> ParseIfExpr(p)
          [] t = "match" -> ParseMatch(p)
          [] t = "ok" -> ParseOk(p)
          [] t = "err" -> ParseErr(p)
          [] t = "await" -> Try(ParseUnary(Adv(p)), LAMBDA q, e :
                            Try(ParsePostfix(q, e), LAMBDA r, f : Good(r, <<"await", f>>)))
          [] t = "go" -> Try(ParseBlockExpr(Adv(p)), LAMBDA q, b : Good(q, <<"go", b>>))
          [] t = "scope" -> Try(Expect(Adv(p), "{"), LAMBDA q, o : ParseScopeItems(q, <<>>))
          [] OTHER -> Bad(p)

-----------------------------------------------------------------------------
(* Types and patterns. *)

Delimited(p, close, r, Make(_)) == Try(r, LAMBDA q, v : Try(Expect(q, close), LAMBDA s, c : Good(s, Make(v))))

ParseTypeExpr(p) ==
    LET base ==
          CASE Tok(p) = "[" -> Delimited(p, "]", ParseElement(Adv(p), "type"), LAMBDA ty : <<"tarray", ty>>)
            [] Tok(p) = "{" -> Try(ParseElement(Adv(p), "type"), LAMBDA q, k :
                               Try(Expect(q, ":"), LAMBDA r, c :
                                   Delimited(r, "}", ParseElement(r, "type"), LAMBDA v : <<"tmap", k, v>>)))
            [] Tok(p) = "(" -> Try(Bracketed(p, "(", "type", ")"), LAMBDA q, ts : Good(q, <<"ttuple", ts>>))
            [] Tok(p) = "fn" -> Try(Bracketed(Adv(p), "(", "type", ")"), LAMBDA q, ts :
                                Try(IF Tok(q) = "->" THEN ParseElement(Adv(q), "type") ELSE Good(q, PNone), LAMBDA r, ret :
                                    Good(r, <<"tfn", ts, ret>>)))
            [] OTHER -> Try(ExpectIdent(p), LAMBDA q, name : Good(q, <<"tname", name>>))
    IN  Try(base, LAMBDA q, ty : IF Tok(q) = "?" THEN Good(Adv(q), <<"topt", ty>>) ELSE Good(q, ty))

ParsePattern(p) ==
    CASE Tok(p) = "_" -> Good(Adv(p), <<"wild">>)
      [] Tok(p) = "(" -> Try(Bracketed(p, "(", "pattern", ")"), LAMBDA q, ps : Good(q, <<"tuple", ps>>))
      [] OTHER -> Try(ExpectIdent(p), LAMBDA q, name : Good(q, <<"id", name>>))

-----------------------------------------------------------------------------
(* Statements. *)

\* `?? e =` after the pattern of a let: the error goes to its own variable
ErrorExtract(p, pat) ==
    Try(IF Tok(p) = "_" THEN Good(Adv(p), "_") ELSE ExpectIdent(p), LAMBDA q, e :
    Try(Expect(q, "="), LAMBDA r, c :
    Try(ParseExpression(r), LAMBDA s, v : Good(s, <<"extract", pat, e, v>>))))

\* one pattern, or several: `a, b` is a tuple and `a, ?? e` ends the list
RECURSIVE LetPatterns(_, _)
LetPatterns(p, acc) ==
    CASE Tok(p) # "," -> Good(p, IF Len(acc) = 1 THEN acc[1] ELSE <<"tuple", acc>>)
      [] Peek(p) = "??" -> Good(Adv(p), IF Len(acc) = 1 THEN acc[1] ELSE <<"tuple", acc>>)
      [] OTHER -> Try(ParseElement(Adv(p), "pattern"), LAMBDA q, x : LetPatterns(q, Append(acc, x)))

ParseLet(p) ==
    LET mut == Peek(p) = "mut"
    IN  Try(ParseElement(Maybe(Adv(p), "mut"), "pattern"), LAMBDA q, first :
        Try(LetPatterns(q, <<first>>), LAMBDA r, pat :
            \* after a list of patterns only `, ??` extracts an error
            IF Tok(r) = "??" /\ (Tok(q) # "," \/ p.toks[r.pos - 1] = ",")
            THEN IF mut THEN Bad(IF Tok(q) = "," THEN Adv(r) ELSE r) ELSE ErrorExtract(Adv(r), pat)
            ELSE Try(IF Tok(r) = ":" THEN ParseElement(Adv(r), "type") ELSE Good(r, PNone), LAMBDA s, ty :
                 Try(Expect(s, "="), LAMBDA t, c :
                 Try(ParseExpression(t), LAMBDA u, e : Good(u, <<"let", mut, pat, ty, e>>))))))

\* the kinds of expression a statement may end with no semicolon after
EndsWithBrace == {"ifx", "match", "block", "struct", "routes", "go", "scope"}
NeedsSemicolon(s) ==
    /\ s[1] \notin {"if", "for", "blockstmt", "structdecl", "enumdecl"}
    /\ s[1] = "expr" => s[2][1] \notin EndsWithBrace

\* the loop of parse_block: an error is recorded and the parser recovers
ParseStmtsFrom(p, acc) ==
    IF Tok(p) = "}" \/ AtEnd(p) THEN Try(Expect(p, "}"), LAMBDA q, c : Good(q, acc))
    ELSE LET r == ParseElement(p, "statement")
             missing == NeedsSemicolon(r.v) /\ Tok(r.p) # ";"
         IN  IF r.ok THEN ParseStmtsFrom([Maybe(r.p, ";") EXCEPT !.errs = @ + IF missing THEN 1 ELSE 0], Append(acc, r.v))
             ELSE ParseStmtsFrom([Synchronize(r.p) EXCEPT !.errs = @ + 1], acc)

ParseBlock(p) == Try(Expect(p, "{"), LAMBDA q, o : ParseStmtsFrom(q, <<>>))

ParseIf(p) ==
    Try(ParseExpression(Adv(p)), LAMBDA q, cond :
    Try(ParseBlock(q), LAMBDA r, then :
        IF Tok(r) # "else" THEN Good(r, <<"if", cond, then, PNone>>)
        ELSE Try(IF Peek(r) = "if" THEN Try(ParseIf(Adv(r)), LAMBDA s, i : Good(s, <<i>>))
                 ELSE ParseBlock(Adv(r)), LAMBDA s, els : Good(s, <<"if", cond, then, <<Peek(r) = "if", els>>>>))))

\* a body that fails counts the loop down, except that of the bare `for {`
LoopBody(p, bare) ==
    LET r == ParseBlock([p EXCEPT !.loop = @ + 1])
    IN  IF r.ok \/ ~bare THEN [r EXCEPT !.p.loop = @ - 1] ELSE r

ParseFor(p) ==
    IF Peek(p) = "{" THEN Try(LoopBody(Adv(p), TRUE), LAMBDA q, b : Good(q, <<"for", <<"wild">>, PNone, b>>))
    ELSE Try(CommaSeparated(Adv(p), "pattern", <<>>), LAMBDA q, ps :
         Try(IF Tok(q) = "in" THEN ParseExpression(Adv(q)) ELSE Good(q, PNone), LAMBDA r, it :
         Try(LoopBody(r, FALSE), LAMBDA s, b :
             Good(s, <<"for", IF Len(ps) = 1 THEN ps[1] ELSE <<"tuple", ps>>, it, b>>))))

ParseReturn(p) ==
    IF p.fn = 0 THEN Bad(Adv(p))
    ELSE Try(IF Peek(p) \in {";", "}", Eof} THEN Good(Adv(p), <<>>) ELSE CommaSeparated(Adv(p), "expr", <<>>),
             LAMBDA q, vs : Good(q, <<"return", vs>>))

ParseJump(p) == IF p.loop = 0 THEN Bad(Adv(p)) ELSE Good(Adv(p), <<"jump", Tok(p)>>)

\* what may stand on the left of an assignment
ExprToPattern(e) ==
    CASE e[1] = "id" -> TRUE
      [] e[1] = "tuple" -> \A i \in 1..Len(e[2]) : ExprToPattern(e[2][i])
      [] e[1] \in {"index", "get"} -> ExprToPattern(e[2])
      [] OTHER -> FALSE

CompoundOps == {"+=", "-=", "*=", "/=", "%="}

ParseExprOrAssign(p) ==
    Try(ParseExpression(p), LAMBDA q, e :
        CASE Tok(q) \in {"="} \cup CompoundOps ->
                Try(ParseExpression(Adv(q)), LAMBDA r, v :
                    IF ExprToPattern(e) THEN Good(r, <<"assign", Tok(q), e, v>>) ELSE Bad(r))
          [] Tok(q) \in {"++", "--"} -> Good(Adv(q), IF e[1] = "id" THEN <<"incdec", e[2], Tok(q)>> ELSE <<"expr", e>>)
          [] OTHER -> Good(q, <<"expr", e>>))

ParseStruct(p) ==
    Try(ExpectIdent(Adv(p)), LAMBDA q, name :
    Try(IF Tok(q) = "<" THEN Distinct(Bracketed(q, "<", "typeparam", ">"), LAMBDA x : x[1]) ELSE Good(q, <<>>), LAMBDA r, tps :
    Try(Expect(r, "{"), LAMBDA s, o :
        LET RECURSIVE fields(_, _)
            fields(t, acc) == IF Tok(t) = "}" \/ AtEnd(t) THEN Try(Expect(t, "}"), LAMBDA u, c : Good(u, acc))
                              ELSE Try(ParseFieldDecl(t), LAMBDA u, f :
                                       IF \E i \in 1..Len(acc) : acc[i][2] = f[2] THEN Bad(u)
                                       ELSE fields(Maybe(u, ","), Append(acc, f)))
        IN  Try(fields(s, <<>>), LAMBDA t, fs : Good(t, <<"structdecl", name, tps, fs>>)))))

\* the variants after a colon are separated by `,` or `|` up to `;`, those
\* between braces need no separator
RECURSIVE VariantsFrom(_, _, _)
VariantsFrom(p, braces, acc) ==
    IF braces /\ (Tok(p) = "}" \/ AtEnd(p)) THEN Try(Expect(p, "}"), LAMBDA q, c : Good(q, acc))
    ELSE Try(ParseVariantDecl(p), LAMBDA q, v :
             CASE \E i \in 1..Len(acc) : acc[i][2] = v[2] -> Bad(q)
               [] braces -> VariantsFrom(Maybe(q, ","), TRUE, Append(acc, v))
               [] Tok(q) \in {",", "|"} -> VariantsFrom(Adv(q), FALSE, Append(acc, v))
               [] OTHER -> Good(Maybe(q, ";"), Append(acc, v)))

ParseEnum(p) ==
    Try(ExpectIdent(Adv(p)), LAMBDA q, name :
    Try(CASE Tok(q) = ":" /\ Peek(q) \in {";", Eof} -> Good(Maybe(Adv(q), ";"), <<>>)
          [] Tok(q) = ":" -> VariantsFrom(Adv(q), FALSE, <<>>)
          [] OTHER -> Try(Expect(q, "{"), LAMBDA r, o : VariantsFrom(r, TRUE, <<>>)), LAMBDA r, vs :
        Good(r, <<"enumdecl", name, Tok(q), vs>>)))

ParseStatement(p) ==
    CASE Tok(p) = "let" -> ParseLet(p)
      [] Tok(p) = "if" -> ParseIf(p)
      [] Tok(p) = "for" -> ParseFor(p)
      [] Tok(p) = "return" -> ParseReturn(p)
      [] Tok(p) \in {"break", "continue"} -> ParseJump(p)
      [] Tok(p) = "print" -> Try(Bracketed(Adv(p), "(", "expr", ")"), LAMBDA q, es : Good(q, <<"print", es>>))
      [] Tok(p) = "{" -> Try(ParseBlock(p), LAMBDA q, b : Good(q, <<"blockstmt", b>>))
      [] Tok(p) = "struct" -> ParseStruct(p)
      [] Tok(p) = "enum" -> ParseEnum(p)
      [] OTHER -> ParseExprOrAssign(p)

-----------------------------------------------------------------------------
(* Items. *)

ParseDecorator(p) ==
    Try(ExpectIdent(Adv(p)), LAMBDA q, name :
        IF Tok(q) # "(" THEN Good(q, <<name, <<>>>>)
        ELSE Try(Bracketed(q, "(", "expr", ")"), LAMBDA r, args : Good(r, <<name, args>>)))

ParseDecorators(p, acc) ==
    IF Tok(p) # "@" THEN Good(p, acc)
    ELSE Try(ParseDecorator(p), LAMBDA q, d : ParseDecorators(q, Append(acc, d)))

\* `-> T`, `-> A, B`, `-> T ! E`, `-> ! E` or `! E`: what a function returns
ParseSignature(p) ==
    CASE Tok(p) = "!" \/ (Tok(p) = "->" /\ Peek(p) = "!") ->
            Try(ParseElement(IF Tok(p) = "!" THEN Adv(p) ELSE Adv(Adv(p)), "type"), LAMBDA q, e : Good(q, <<<<>>, e>>))
      [] Tok(p) = "->" ->
            Try(CommaSeparated(Adv(p), "type", <<>>), LAMBDA q, ts :
            Try(IF Tok(q) = "!" THEN ParseElement(Adv(q), "type") ELSE Good(q, PNone), LAMBDA r, e : Good(r, <<ts, e>>)))
      [] OTHER -> Good(p, <<<<>>, PNone>>)

\* the body; a body that fails leaves the function depth as it is
FunctionBody(p0) ==
    LET p == [p0 EXCEPT !.fn = @ + 1]
        leave(r) == Try(r, LAMBDA q, b : Good([q EXCEPT !.fn = @ - 1], b))
    IN  CASE Tok(p) = "=>" -> leave(Try(CommaSeparated(Adv(p), "expr", <<>>), LAMBDA q, vs : Good(q, <<<<"return", vs>>, "=>">>)))
          [] Tok(p) = "{" -> leave(Try(ParseBlock(p), LAMBDA q, b : Good(q, <<b, "{">>)))
          [] OTHER -> Bad(p0)

ParseParams(p) ==
    Distinct(Bracketed(p, "(", "param", ")"), LAMBDA x : x[1])

ParseFunctionName(p) ==
    Try(ExpectIdent(p), LAMBDA q, first :
        IF Tok(q) # "." THEN Good(q, <<first>>)
        ELSE Try(ExpectIdent(Adv(q)), LAMBDA r, m : Good(r, <<first, m>>)))

ParseFunction(p) ==
    Try(Expect(Maybe(p, "async"), "fn"), LAMBDA q, f :
    Try(ParseFunctionName(q), LAMBDA r, name :
    Try(IF Tok(r) = "<" THEN Distinct(Bracketed(r, "<", "typeparam", ">"), LAMBDA x : x[1]) ELSE Good(r, <<>>), LAMBDA s, tps :
    Try(ParseParams(s), LAMBDA t, params :
    Try(ParseSignature(t), LAMBDA u, sig :
    Try(FunctionBody(u), LAMBDA v, body :
        Good(v, <<"fn", Tok(p) = "async", name, tps, params, sig, body>>)))))))

RECURSIVE MethodsFrom(_, _)
MethodsFrom(p, acc) ==
    IF Tok(p) = "}" \/ AtEnd(p) THEN Try(Expect(p, "}"), LAMBDA q, c : Good(q, acc))
    ELSE Try(ParseFunction(p), LAMBDA q, f :
             IF f[5] = <<>> \/ (f[5] # <<>> /\ f[5][1][1] # "self") \/ \E i \in 1..Len(acc) : Last(acc[i][3]) = Last(f[3])
             THEN Bad(q) ELSE MethodsFrom(q, Append(acc, f)))

ParseImpl(p) ==
    Try(ExpectIdent(Adv(p)), LAMBDA q, name :
    Try(Expect(q, "{"), LAMBDA r, o :
    Try(MethodsFrom(r, <<>>), LAMBDA s, ms : Good(s, <<"impl", name, ms>>))))

RECURSIVE SignaturesFrom(_, _)
SignaturesFrom(p, acc) ==
    IF Tok(p) = "}" \/ AtEnd(p) THEN Try(Expect(p, "}"), LAMBDA q, c : Good(q, acc))
    ELSE Try(Expect(p, "fn"), LAMBDA q, f :
         Try(ExpectIdent(q), LAMBDA r, name :
         Try(ParseParams(r), LAMBDA s, params :
         Try(ParseSignature(s), LAMBDA t, sig :
             IF \E i \in 1..Len(acc) : acc[i][1] = name THEN Bad(t)
             ELSE SignaturesFrom(Maybe(t, ";"), Append(acc, <<name, params, sig>>))))))

ParseInterface(p) ==
    Try(ExpectIdent(Adv(p)), LAMBDA q, name :
    Try(Expect(q, "{"), LAMBDA r, o :
    Try(SignaturesFrom(r, <<>>), LAMBDA s, ms : Good(s, <<"interface", name, ms>>))))

ImportPath(p, acc) ==
    IF Tok(p) = "::" /\ Peek(p) \notin {"*", "{"}
    THEN Try(ExpectIdent(Adv(p)), LAMBDA q, n : ImportPath(q, Append(acc, n))) ELSE Good(p, acc)

RECURSIVE ImportItems(_, _)
ImportItems(p, acc) ==
    IF Tok(p) = "}" \/ AtEnd(p) THEN Try(Expect(p, "}"), LAMBDA q, c : Good(q, acc))
    ELSE Try(IF Tok(p) = "*" THEN Good(Adv(p), "*") ELSE ExpectIdent(p), LAMBDA q, n :
         Try(IF n # "*" /\ Tok(q) = "as" THEN ExpectIdent(Adv(q)) ELSE Good(q, NoName), LAMBDA r, as :
         Try(IF Tok(r) = "}" THEN Good(r, "}") ELSE Expect(r, ","), LAMBDA s, c : ImportItems(s, Append(acc, <<n, as>>)))))

\* only a brace after the path, with or without `::`, opens the list of names
ParseImport(p) ==
    Try(ExpectIdent(Adv(p)), LAMBDA q, first :
    Try(ImportPath(q, <<first>>), LAMBDA r, path :
        CASE Tok(r) = "::" /\ Peek(r) = "*" -> Good(Adv(Adv(r)), <<"import", path, "*", <<>>>>)
          [] Tok(r) = "as" -> Try(ExpectIdent(Adv(r)), LAMBDA s, a : Good(s, <<"import", path, a, <<>>>>))
          [] Tok(Maybe(r, "::")) = "{" ->
                Try(ImportItems(Adv(Maybe(r, "::")), <<>>), LAMBDA s, items : Good(s, <<"import", path, NoName, items>>))
          [] OTHER -> Good(r, <<"import", path, NoName, <<>>>>)))

\* a rule: role names with `|` and `&` between; the enum of a role is dropped
PolicyRule(p, acc) ==
    Try(ExpectIdent(p), LAMBDA q, first :
    Try(IF Tok(q) = "::" THEN ExpectIdent(Adv(q)) ELSE Good(q, first), LAMBDA r, role :
        IF Tok(r) \in {"|", "&"} THEN PolicyRule(Adv(r), acc \o <<role, Tok(r)>>) ELSE Good(r, Append(acc, role))))

RECURSIVE PolicyRules(_, _)
PolicyRules(p, acc) ==
    IF Tok(p) = "}" \/ AtEnd(p) THEN Try(Expect(p, "}"), LAMBDA q, c : Good(q, acc))
    ELSE Try(ExpectIdent(p), LAMBDA q, action :
         Try(Expect(q, ":"), LAMBDA r, c :
         Try(PolicyRule(r, <<>>), LAMBDA s, rule : PolicyRules(Maybe(s, ","), Append(acc, <<action, rule>>)))))

ParsePolicy(p) ==
    Try(ExpectIdent(Adv(p)), LAMBDA q, name :
    Try(Expect(q, "for"), LAMBDA r, f :
    Try(ExpectIdent(r), LAMBDA s, struct :
    Try(Expect(s, "{"), LAMBDA t, o :
    Try(PolicyRules(t, <<>>), LAMBDA u, rules : Good(u, <<"policy", name, struct, rules>>))))))

\* a compile-time constant and a global without a value
ParseConst(p) ==
    Try(ExpectIdent(Adv(p)), LAMBDA q, name :
    Try(Expect(q, "="), LAMBDA r, c :
    Try(ParseExpression(r), LAMBDA s, e : Good(s, <<"const", name, e>>))))
ParseStatic(p) ==
    Try(ExpectIdent(Adv(p)), LAMBDA q, name :
    Try(Expect(q, ":"), LAMBDA r, c :
    Try(ParseElement(r, "type"), LAMBDA s, ty : Good(s, <<"static", name, ty>>))))

\* decorators stay on functions, structs and impl blocks, and are dropped elsewhere
ParseItem(p0) ==
    Try(ParseDecorators(p0, <<>>), LAMBDA p, decs :
        LET with(r) == Try(r, LAMBDA q, v : Good(q, <<"item", decs, v>>))
            plain(r) == Try(r, LAMBDA q, v : Good(q, <<"item", <<>>, v>>))
        IN  CASE Tok(p) \in {"fn", "async"} -> with(ParseFunction(p))
              [] Tok(p) = "struct" -> with(ParseStruct(p))
              [] Tok(p) = "impl" -> with(ParseImpl(p))
              [] Tok(p) = "const" -> plain(ParseConst(p))
              [] Tok(p) = "static" -> plain(ParseStatic(p))
              [] Tok(p) = "enum" -> plain(ParseEnum(p))
              [] Tok(p) = "interface" -> plain(ParseInterface(p))
              [] Tok(p) = "import" -> plain(ParseImport(p))
              [] Tok(p) = "policy" -> plain(ParsePolicy(p))
              [] OTHER -> plain(ParseElement(p, "statement")))

ParseElement(p, what) ==
    CASE what \in {"expr", "route"} -> ParsePrec(p, 0)  \* Spread is a primary too
      [] what = "type" -> ParseTypeExpr(p)
      [] what = "pattern" -> ParsePattern(p)
      [] what = "ident" -> ExpectIdent(p)
      [] what = "param" -> ParseParam(p)
      [] what = "typeparam" -> ParseTypeParam(p)
      [] what = "arm" -> ParseMatchArm(p)
      [] what = "structfield" -> ParsePair(p, ExpectIdent(p), TRUE)
      [] what = "objectfield" -> ParsePair(p, ExpectIdent(p), FALSE)
      [] what = "entry" -> ParseMapEntry(p)
      [] what = "statement" -> ParseStatement(p)
      [] what = "item" -> ParseItem(p)

ItemNeedsSemicolon(v) ==
    v[3][1] \in {"const", "static", "import"}
    \/ (v[3][1] \notin {"fn", "impl", "interface", "policy"} /\ NeedsSemicolon(v[3]))

-----------------------------------------------------------------------------
(* parse_program *)

ParsingStart(input) == [p |-> Parser(input.toks), items |-> <<>>, want |-> input.want]
ParsingInit == \E input \in Inputs : pa = ParsingStart(input)

ItemParsed ==
    \E r \in {ParseElement(pa.p, "item")} :
        /\ ~AtEnd(pa.p) /\ r.ok
        /\ pa' = [pa EXCEPT !.items = Append(@, r.v),
                            !.p = [Maybe(r.p, ";") EXCEPT !.errs = @ + IF ItemNeedsSemicolon(r.v) /\ Tok(r.p) # ";" THEN 1 ELSE 0]]

ItemFailed ==
    \E r \in {ParseElement(pa.p, "item")} :
        /\ ~AtEnd(pa.p) /\ ~r.ok
        /\ pa' = [pa EXCEPT !.p = [Synchronize(r.p) EXCEPT !.errs = @ + 1]]

ParsingNext == ItemParsed \/ ItemFailed

-----------------------------------------------------------------------------
(***************************************************************************)
(* The reference: how a tree is written.  A parenthesis stands where the   *)
(* precedence or the grouping to the left would read something else; the   *)
(* start of a range is a primary, since `a + b .. c` is read as            *)
(* a + (b .. c) (every level of parse_expression_prec looks for a range).  *)
(***************************************************************************)
RECURSIVE WriteE(_, _), WriteS(_), WriteT(_), WriteP(_), Joined(_, _), WriteStmts(_)

Joined(ss, sep) == IF Len(ss) <= 1 THEN FlattenSeq(ss) ELSE ss[1] \o <<sep>> \o Joined(Tail(ss), sep)
Each(vs, F(_)) == [i \in 1..Len(vs) |-> F(vs[i])]
List(vs) == Joined(Each(vs, LAMBDA e : WriteE(e, 0)), ",")
Paren(c, s) == IF c THEN <<"(">> \o s \o <<")">> ELSE s
Opt(v, F(_)) == IF v = PNone THEN <<>> ELSE F(v)
OptName(mark, n) == IF n = NoName THEN <<>> ELSE <<mark, n>>

\* the object of a postfix operator, and the operand of a prefix one
Object(e) == Paren(e[1] \in {"bin", "range", "un", "await", "closure", "spread", "cast", "enum"}, WriteE(e, 0))
Operand(e, also) == Paren(e[1] \in {"bin", "range", "closure", "spread"} \cup also, WriteE(e, 0))

WriteM(m) ==
    CASE m[1] = "wild" -> <<"_">>
      [] m[1] = "variant" -> <<m[2], "::", m[3]>>
      [] m[1] = "payload" -> <<m[2], "::", m[3], "(">> \o Joined(Each(m[4], LAMBDA x : <<x>>), ",") \o <<")">>
      [] OTHER -> WriteE(m[2], 0)

WriteArm(a) ==
    (IF a[2][1] = "tuple" THEN Joined(Each(a[2][2], WriteM), ",") ELSE WriteM(a[2]))
    \o Opt(a[3], LAMBDA g : <<"if">> \o WriteE(g, 0)) \o <<"=>">> \o WriteE(a[4], 0)

WriteParam(x) == <<x[1]>> \o Opt(x[2], LAMBDA ty : <<":">> \o WriteT(ty))
WritePair(kv) == <<kv[1], ":">> \o WriteE(kv[2], 0)

WriteE(e, min) ==
    LET k == e[1]
    IN  CASE k \in {"id", "lit"} -> <<e[2]>>
          [] k = "interp" -> <<e[2]>>
          [] k = "nil" -> <<"nil">>
          [] k = "bin" -> Paren(Precedence[e[2]] < min,
                                WriteE(e[3], Precedence[e[2]]) \o <<e[2]>> \o WriteE(e[4], Precedence[e[2]] + 1))
          [] k = "range" -> Paren(min > 0, Operand(e[3], {"un"}) \o <<e[2]>> \o WriteE(e[4], 8))
          [] k = "un" -> <<e[2]>> \o Operand(e[3], {"un"})
          [] k = "await" -> <<"await">> \o Operand(e[2], {})
          [] k = "spread" -> <<"...">> \o WriteE(e[2], 0)
          [] k = "call" -> Object(e[2]) \o <<"(">> \o List(e[3]) \o <<")">>
          [] k = "get" -> Object(e[2]) \o <<".", e[3]>>
          [] k = "method" -> Object(e[2]) \o <<".", e[3], "(">> \o List(e[4]) \o <<")">>
          [] k = "index" -> Object(e[2]) \o <<"[">> \o WriteE(e[3], 0) \o <<"]">>
          [] k = "cast" -> Object(e[2]) \o <<"as">> \o WriteT(e[3])
          [] k = "try" -> Object(e[2]) \o <<"?">>
          [] k = "unwrap" -> Object(e[2]) \o <<"??", "panic", "(">> \o WriteE(e[3], 0) \o <<")">>
          [] k = "enum" -> <<e[2], "::", e[3]>> \o IF e[4] = <<>> THEN <<>> ELSE <<"(">> \o List(e[4]) \o <<")">>
          [] k = "struct" -> <<e[2], "{">> \o Joined(Each(e[3], WritePair), ",") \o <<"}">>
          [] k = "tuple" -> <<"(">> \o List(e[2]) \o (IF Len(e[2]) = 1 THEN <<",", ")">> ELSE <<")">>)
          [] k = "array" -> <<"[">> \o List(e[2]) \o <<"]">>
          [] k = "map" -> <<"{">> \o Joined(Each(e[2], LAMBDA kv : IF kv[1][1] = "spread" THEN WriteE(kv[1], 0)
                                                  ELSE WriteE(kv[1], 0) \o <<":">> \o WriteE(kv[2], 0)), ",") \o <<"}">>
          [] k = "object" -> <<"{">> \o Joined(Each(e[2], WritePair), ",") \o <<"}">>
          [] k = "routes" -> <<"{">> \o List(e[2]) \o <<"}">>
          [] k = "block" -> <<"{">> \o WriteStmts(e[2]) \o Opt(e[3], LAMBDA f : WriteE(f, 0)) \o <<"}">>
          [] k = "ifx" -> <<"if">> \o WriteE(e[2], 0) \o WriteE(e[3], 0) \o Opt(e[4], LAMBDA f : <<"else">> \o WriteE(f, 0))
          [] k = "match" -> <<"match">> \o List(e[2]) \o <<"{">> \o Joined(Each(e[3], WriteArm), ",") \o <<"}">>
          [] k = "closure" -> Paren(min > 0, <<"(">> \o Joined(Each(e[2], WriteParam), ",") \o <<")">>
                                   \o Opt(e[3], LAMBDA ty : <<"->">> \o WriteT(ty)) \o Opt(e[4], LAMBDA ty : <<"!">> \o WriteT(ty))
                                   \o <<"=>">> \o Paren(e[5][1] \in {"map", "object", "routes"}, WriteE(e[5], 0)))
          [] k = "ok" -> <<"ok", "(">> \o List(e[2]) \o <<")">>
          [] k = "err" -> <<"err", "(">> \o WriteE(e[2], 0) \o <<")">>
          [] k = "go" -> <<"go">> \o WriteE(e[2], 0)
          [] k = "scope" -> <<"scope", "{">> \o FlattenSeq(Each(e[2], WriteS)) \o <<"}">>

WriteT(t) ==
    CASE t[1] = "tname" -> <<t[2]>>
      [] t[1] = "topt" -> WriteT(t[2]) \o <<"?">>
      [] t[1] = "tarray" -> <<"[">> \o WriteT(t[2]) \o <<"]">>
      [] t[1] = "tmap" -> <<"{">> \o WriteT(t[2]) \o <<":">> \o WriteT(t[3]) \o <<"}">>
      [] t[1] \in {"ttuple", "tuple"} -> <<"(">> \o Joined(Each(t[2], WriteT), ",") \o <<")">>
      [] t[1] = "tfn" -> <<"fn", "(">> \o Joined(Each(t[2], WriteT), ",") \o <<")">> \o Opt(t[3], LAMBDA r : <<"->">> \o WriteT(r))

WriteP(x) ==
    CASE x[1] = "wild" -> <<"_">>
      [] x[1] = "id" -> <<x[2]>>
      [] OTHER -> <<"(">> \o Joined(Each(x[2], WriteP), ",") \o <<")">>

Braced(b) == <<"{">> \o WriteStmts(b) \o <<"}">>
Angled(tps) == IF tps = <<>> THEN <<>>
               ELSE <<"<">> \o Joined(Each(tps, LAMBDA x : <<x[1]>> \o OptName(":", x[2])), ",") \o <<">">>
Decorated(ds) == FlattenSeq(Each(ds, LAMBDA d : <<"@", d[1]>> \o IF d[2] = <<>> THEN <<>> ELSE <<"(">> \o List(d[2]) \o <<")">>))
Signature(sig) ==
    (IF sig[1] = <<>> THEN <<>> ELSE <<"->">> \o Joined(Each(sig[1], WriteT), ",")) \o Opt(sig[2], LAMBDA e : <<"!">> \o WriteT(e))
WriteFn(v) ==
    (IF v[2] THEN <<"async", "fn">> ELSE <<"fn">>) \o Joined(Each(v[3], LAMBDA n : <<n>>), ".") \o Angled(v[4])
    \o <<"(">> \o Joined(Each(v[5], WriteParam), ",") \o <<")">> \o Signature(v[6])
    \o IF v[7][2] = "{" THEN Braced(v[7][1]) ELSE <<"=>">> \o List(v[7][1][2])

WriteS(s) ==
    LET k == s[1]
    IN  CASE k = "let" -> <<"let">> \o (IF s[2] THEN <<"mut">> ELSE <<>>) \o WriteP(s[3])
                          \o Opt(s[4], LAMBDA ty : <<":">> \o WriteT(ty)) \o <<"=">> \o WriteE(s[5], 0)
          [] k = "extract" -> <<"let">> \o WriteP(s[2]) \o <<"??", s[3], "=">> \o WriteE(s[4], 0)
          [] k = "if" -> <<"if">> \o WriteE(s[2], 0) \o Braced(s[3])
                         \o Opt(s[4], LAMBDA e : <<"else">> \o IF e[1] THEN WriteS(e[2][1]) ELSE Braced(e[2]))
          [] k = "for" -> <<"for">> \o (IF s[2] = <<"wild">> /\ s[3] = PNone THEN <<>> ELSE WriteP(s[2]))
                          \o Opt(s[3], LAMBDA e : <<"in">> \o WriteE(e, 0)) \o Braced(s[4])
          [] k = "return" -> <<"return">> \o List(s[2])
          [] k = "jump" -> <<s[2]>>
          [] k = "print" -> <<"print", "(">> \o List(s[2]) \o <<")">>
          [] k = "blockstmt" -> Braced(s[2])
          [] k = "assign" -> WriteE(s[3], 0) \o <<s[2]>> \o WriteE(s[4], 0)
          [] k = "incdec" -> <<s[2], s[3]>>
          [] k = "structdecl" -> <<"struct", s[2]>> \o Angled(s[3]) \o <<"{">>
                \o Joined(Each(s[4], LAMBDA f : <<f[2]>> \o (IF f[3] THEN <<"?", ":">> ELSE <<":">>) \o WriteT(f[4])
                                                \o Decorated(f[5]) \o Opt(f[6], LAMBDA e : <<"=">> \o WriteE(e, 0))), ",") \o <<"}">>
          [] k = "enumdecl" -> <<"enum", s[2], s[3]>>
                \o Joined(Each(s[4], LAMBDA v : <<v[2]>> \o Opt(v[3], LAMBDA ty : Paren(ty[1] # "tuple", WriteT(ty))) \o Decorated(v[4])), ",")
                \o (IF s[3] = "{" THEN <<"}">> ELSE <<";">>)
          [] OTHER -> WriteE(s[2], 0)

\* An expression is always closed with `;`: after `match x { }` a `(` or a `-`
\* that starts the next statement would be read as its continuation.
WriteStmts(b) ==
    FlattenSeq(Each(b, LAMBDA s : WriteS(s) \o IF NeedsSemicolon(s) \/ s[1] = "expr" THEN <<";">> ELSE <<>>))

WriteItem(item) ==
    LET v == item[3]
        k == v[1]
    IN  Decorated(item[2]) \o
        (CASE k = "fn" -> WriteFn(v)
           [] k = "impl" -> <<"impl", v[2], "{">> \o FlattenSeq(Each(v[3], WriteFn)) \o <<"}">>
           [] k = "interface" -> <<"interface", v[2], "{">> \o FlattenSeq(Each(v[3], LAMBDA m :
                <<"fn", m[1], "(">> \o Joined(Each(m[2], WriteParam), ",") \o <<")">> \o Signature(m[3]) \o <<";">>)) \o <<"}">>
           [] k = "import" -> <<"import">> \o Joined(Each(v[2], LAMBDA n : <<n>>), "::")
                \o OptName(IF v[3] = "*" THEN "::" ELSE "as", v[3])
                \o IF v[4] = <<>> THEN <<>> ELSE <<"::", "{">>
                     \o Joined(Each(v[4], LAMBDA x : <<x[1]>> \o OptName("as", x[2])), ",") \o <<"}">>
           [] k = "policy" -> <<"policy", v[2], "for", v[3], "{">>
                \o Joined(Each(v[4], LAMBDA r : <<r[1], ":">> \o r[2]), ",") \o <<"}">>
           [] k = "const" -> <<"const", v[2], "=">> \o WriteE(v[3], 0)
           [] k = "static" -> <<"static", v[2], ":">> \o WriteT(v[3])
           [] OTHER -> WriteS(v))
        \o IF ItemNeedsSemicolon(item) THEN <<";">> ELSE <<>>

Write(items) == FlattenSeq(Each(items, WriteItem))

-----------------------------------------------------------------------------
(* Properties. *)

Finished == AtEnd(pa.p)
Accepted == Finished /\ pa.p.errs = 0

\* A program that is written down from its tree is read back as that tree,
\* without an error: precedence, grouping, what a brace or a parenthesis
\* opens, and which statements end without a semicolon (parse_binary_op,
\* lookahead_closure, lookahead_brace_type, needs_semicolon).
ReadsBackWhatIsWritten ==
    Finished /\ pa.want # Unknown => pa.p.errs = 0 /\ pa.items = pa.want

RECURSIVE IsSubsequence(_, _)
IsSubsequence(s, t) ==
    CASE s = <<>> -> TRUE
      [] t = <<>> -> FALSE
      [] OTHER -> IF s[1] = t[1] THEN IsSubsequence(Tail(s), Tail(t)) ELSE IsSubsequence(s, Tail(t))

\* Parentheses, separators and the notations a tree does not keep; `++` after
\* something other than a variable is skipped (stmt.rs:499-511).
Notation == {"(", ")", ",", ";", "->", "_", "++", "--"}

\* An accepted program keeps every token in its tree, in order: nothing that
\* was not understood is skipped without an error.
NoTokenIsLost ==
    Accepted => LET kept(s) == SelectSeq(s, LAMBDA t : t \notin Notation)
                IN  IsSubsequence(kept(pa.p.toks), kept(Write(pa.items)))

\* The first brace after token j encloses token i.
BodyEncloses(toks, j, i) ==
    LET level(k, m) == Len(SelectSeq(SubSeq(toks, k, m), LAMBDA t : t = "{"))
                       - Len(SelectSeq(SubSeq(toks, k, m), LAMBDA t : t = "}"))
    IN  \E k \in j..i : /\ toks[k] = "{"
                        /\ \A m \in j..(k - 1) : toks[m] # "{"
                        /\ \A m \in k..i : level(k, m) > 0

\* An accepted program breaks and continues only inside the body of a loop
\* and returns only inside the body of a function (loop_depth, fn_depth).
JumpsArePlaced ==
    LET t == pa.p.toks
        within(i, keyword) == \E j \in 1..(i - 1) : t[j] = keyword /\ BodyEncloses(t, j, i)
    IN  Accepted => \A i \in 1..Len(t) : /\ t[i] \in {"break", "continue"} => within(i, "for")
                                         /\ t[i] = "return" => within(i, "fn")

\* Between two items the parser is in no loop, unless the input ended inside
\* one, and without an error it is in no function and no expression either.
\* (An error inside an expression leaves expr_depth, and one in a function
\* written with `=>` leaves fn_depth, above zero.)
CountersReturn ==
    /\ pa.p.loop > 0 => Finished
    /\ pa.p.errs = 0 => pa.p.fn = 0 /\ pa.p.depth = 0

\* Every turn of the loop of parse_program consumes a token: it ends.
Advances == pa'.p.pos > pa.p.pos

\* What parsing promises, at every step.
ParsesRight ==
    [][Advances /\ (ReadsBackWhatIsWritten /\ NoTokenIsLost /\ JumpsArePlaced /\ CountersReturn)']_pa

=============================================================================

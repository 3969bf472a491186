----------------------------- MODULE MCFrontend -----------------------------
\* From the text of a program to its modules, the driver around the compiler, and the language server.
EXTENDS Lexing, Parsing, ImportCycles, ModuleLoader, BuildDriver, LanguageServer

\* Lexing
\* Every source of at most four characters, comments and numbers of up to
\* five, strings and text blocks with every body of up to three, and every
\* value of up to three characters written as a string.
MCPlain == {"a", "i", "f", "1", ".", "=", "/", "*", "e", "+", " ", NL, "_"}
MCAny(S, n) == UNION {[1..k -> S] : k \in 0..n}
MCEscaped(v) == FlattenSeq([i \in 1..Len(v) |-> CASE v[i] \in {BS, DQ, "$"} -> <<BS, v[i]>> [] v[i] = NL -> <<BS, "n">> [] OTHER -> <<v[i]>>])
MCPlainSrc(S) == {[src |-> s, value |-> NoValue] : s \in S}
MCSourceTexts ==
    MCPlainSrc(MCAny(MCPlain, 4) \cup MCAny({"/", "*", NL, "a"}, 5) \cup MCAny({"1", ".", "e", "-"}, 5) \cup MCAny({"^", "?", "="}, 3))
    \cup MCPlainSrc({<<DQ>> \o b \o <<DQ, NL, "a">> : b \in MCAny({"a", "n", BS, "$", "{", "}", NL, DQ}, 4)})
    \cup MCPlainSrc({<<DQ, BS, "u">> \o b \o <<DQ, "a">> : b \in MCAny({"{", "}", "1", "n", DQ}, 4)})
    \cup MCPlainSrc({Quotes(3) \o b \o Quotes(3) \o <<"a">> : b \in MCAny({"a", " ", NL, DQ}, 5) \cup MCAny({"a", BS, "$", "{", NL}, 3)})
    \cup {[src |-> <<DQ>> \o MCEscaped(v) \o <<DQ>>, value |-> v] : v \in MCAny({"a", "n", BS, "$", "{", NL, DQ}, 3)}

\* Parsing
\* Trees of every form, nested two or three deep; each is written and read
\* back, whole and with one token dropped, doubled or replaced, and every
\* sequence of at most three tokens is read too.
MCPTemplates == [t \in {"tmpl"} |-> <<"a">>]
MCIda == <<"id", "a">>
MCIdb == <<"id", "b">>
MCOne == <<"lit", "1">>
MCPostfix == {<<"call", MCIda, <<>>>>, <<"call", MCIda, <<MCOne, MCIdb>>>>, <<"get", MCIda, "b">>, <<"method", MCIda, "b", <<MCOne>>>>,
              <<"index", MCIda, MCIdb>>, <<"cast", MCIda, <<"tname", "T">>>>, <<"cast", MCIda, <<"topt", <<"tname", "T">>>>>>,
              <<"try", MCIda>>, <<"unwrap", MCIda, MCIdb>>, <<"un", "-", MCIda>>, <<"un", "!", MCIda>>, <<"await", MCIda>>}
MCBlock == <<"block", <<<<"let", FALSE, MCIda, PNone, MCOne>>>>, MCIdb>>
MCBraces == {<<"object", <<<<"a", MCOne>>, <<"b", MCIda>>>>>>, <<"map", <<>>>>, <<"map", <<<<<<"lit", "1">>, MCIda>>>>>>,
             <<"map", <<<<<<"spread", MCIda>>, <<"nil">>>>, <<<<"lit", "str">>, MCIdb>>>>>>, <<"struct", "T", <<>>>>,
             <<"struct", "T", <<<<"a", MCOne>>, <<"b", MCIdb>>>>>>, MCBlock, <<"routes", <<<<"call", <<"id", "get">>, <<MCIda>>>>>>>>,
             <<"ifx", MCIda, MCBlock, PNone>>, <<"ifx", MCIda, MCBlock, <<"ifx", MCIdb, MCBlock, MCBlock>>>>,
             <<"match", <<MCIda>>, <<<<"arm", <<"literal", MCOne>>, PNone, MCIdb>>, <<"arm", <<"wild">>, PNone, MCOne>>>>>>,
             <<"match", <<MCIda, MCIdb>>, <<<<"arm", <<"tuple", <<<<"variant", "T", "a">>, <<"payload", "T", "b", <<"a">>>>>>>>, MCIda, MCIdb>>,
                                           <<"arm", <<"tuple", <<<<"wild">>, <<"cond", MCIda>>>>>>, PNone, <<"block", <<<<"print", <<MCOne>>>>>>, PNone>>>>>>>>,
             <<"go", MCBlock>>, <<"scope", <<<<"expr", <<"go", MCBlock>>>>, <<"if", MCIda, <<>>, PNone>>>>>>}
MCOthers == {<<"enum", "T", "a", <<>>>>, <<"enum", "T", "a", <<MCOne>>>>, <<"tuple", <<>>>>, <<"tuple", <<MCOne>>>>, <<"tuple", <<MCOne, MCIda>>>>,
             <<"array", <<>>>>, <<"array", <<MCOne, <<"spread", MCIda>>>>>>, <<"ok", <<MCIda, MCIdb>>>>, <<"err", MCIda>>, <<"interp", "tmpl", MCIda>>, <<"nil">>,
             <<"closure", <<<<"a", PNone>>>>, PNone, PNone, MCIda>>, <<"closure", <<<<"a", <<"tname", "T">>>>>>, <<"tname", "T">>, <<"tname", "T">>, MCBlock>>}
MCOps == {"||", "==", "<", "in", "??", "&", "+", "-", "*"}
MCBins == {<<"bin", o, MCIda, MCOne>> : o \in MCOps}
MCRanges == {<<"range", "..", MCOne, MCIda>>, <<"range", "..=", MCIda, <<"bin", "-", MCIdb, MCOne>>>>}
MCLevel1 == {MCIda, MCOne} \cup MCPostfix \cup MCBraces \cup MCOthers \cup MCBins \cup MCRanges
MCLevel2 == MCLevel1
    \cup {<<"bin", o, x, y>> : o \in MCOps, x \in {MCIda} \cup MCBins \cup MCRanges, y \in {MCIdb} \cup MCBins}
    \cup {<<"bin", o, x, MCOne>> : o \in {"-", "??"}, x \in MCLevel1}
    \cup {<<"get", x, "b">> : x \in MCLevel1} \cup {<<"try", x>> : x \in MCLevel1} \cup {<<"un", "-", x>> : x \in MCLevel1}
    \cup {<<"call", MCIda, <<x>>>> : x \in MCLevel1} \cup {<<"index", MCIda, x>> : x \in MCLevel1}
    \cup {<<"closure", <<>>, PNone, PNone, x>> : x \in MCLevel1} \cup {<<"range", "..", x, y>> : x, y \in MCBins \cup {MCIda}}
MCLet(e) == <<"let", FALSE, MCIda, PNone, e>>
MCJumps == {<<"jump", "break">>, <<"jump", "continue">>}
MCStmts == {MCLet(MCOne), <<"let", TRUE, <<"tuple", <<MCIda, <<"wild">>>>>>, <<"tname", "T">>, MCOne>>, <<"extract", MCIda, "b", MCOne>>,
            <<"extract", <<"tuple", <<MCIda, MCIdb>>>>, "_", MCOne>>, <<"let", FALSE, MCIda, <<"tfn", <<<<"tarray", <<"tname", "T">>>>>>, <<"tmap", <<"tname", "a">>, <<"topt", <<"tname", "b">>>>>>>>, MCOne>>,
            <<"if", MCIda, <<MCLet(MCOne)>>, PNone>>, <<"if", MCIda, <<>>, <<TRUE, <<<<"if", MCIdb, <<>>, <<FALSE, <<MCLet(MCOne)>>>>>>>>>>>>,
            <<"for", <<"wild">>, PNone, <<<<"jump", "break">>>>>>, <<"for", MCIda, <<"range", "..", MCOne, MCIdb>>, <<<<"if", MCIda, <<<<"jump", "continue">>>>, PNone>>>>>>,
            <<"for", <<"tuple", <<MCIda, MCIdb>>>>, MCIda, <<<<"for", <<"wild">>, PNone, <<>>>>, <<"jump", "break">>>>>>,
            <<"return", <<>>>>, <<"return", <<MCOne, MCIda>>>>, <<"print", <<MCOne, MCIda>>>>, <<"blockstmt", <<MCLet(MCOne)>>>>,
            <<"assign", "=", <<"index", <<"get", MCIda, "b">>, MCOne>>, MCIdb>>, <<"assign", "+=", MCIda, MCOne>>, <<"assign", "=", <<"tuple", <<MCIda, MCIdb>>>>, MCOne>>,
            <<"incdec", "a", "++">>, <<"expr", <<"call", MCIda, <<>>>>>>, <<"expr", <<"match", <<MCIda>>, <<<<"arm", <<"wild">>, PNone, MCOne>>>>>>>>,
            <<"structdecl", "T", <<<<"a", NoName>>, <<"b", "T">>>>, <<<<"field", "a", TRUE, <<"tname", "T">>, <<<<"b", <<>>>>, <<"a", <<MCOne>>>>>>, MCOne>>, <<"field", "b", FALSE, <<"tname", "T">>, <<>>, PNone>>>>>>,
            <<"enumdecl", "T", "{", <<<<"variant", "a", PNone, <<>>>>, <<"variant", "b", <<"tname", "T">>, <<>>>>>>>>,
            <<"enumdecl", "T", ":", <<<<"variant", "a", PNone, <<>>>>, <<"variant", "b", PNone, <<>>>>>>>>}
MCFn(name, body) == <<"fn", FALSE, <<name>>, <<>>, <<>>, <<<<>>, PNone>>, <<body, "{">>>>
MCSelf == <<"fn", TRUE, <<"a">>, <<>>, <<<<"self", PNone>>>>, <<<<<<"tname", "T">>>>, <<"tname", "b">>>>, <<<<"return", <<MCOne, MCIda>>>>, "=>">>>>
MCItemTrees == {<<"item", <<>>, MCFn("a", <<s>>)>> : s \in MCStmts}
    \cup {<<"item", <<>>, MCLet(e)>> : e \in MCLevel2}
    \cup {<<"item", <<>>, x>> : x \in {<<"import", <<"a", "b">>, "*", <<>>>>, <<"import", <<"a">>, "b", <<>>>>, <<"import", <<"a">>, NoName, <<<<"b", "T">>, <<"*", NoName>>>>>>,
            <<"const", "T", MCOne>>, <<"static", "a", <<"tname", "T">>>>, <<"policy", "a", "T", <<<<"get", <<"a", "|", "b">>>>, <<"b", <<"a">>>>>>>>,
            <<"interface", "T", <<<<"a", <<<<"b", <<"tname", "T">>>>>>, <<<<>>, <<"tname", "T">>>>>>, <<"b", <<>>, <<<<<<"tname", "T">>, <<"tname", "a">>>>, PNone>>>>>>>>}}
    \cup {<<"item", <<<<"b", <<MCOne>>>>>>, x>> : x \in {<<"impl", "T", <<MCSelf>>>>, MCSelf, <<"fn", FALSE, <<"T", "a">>, <<<<"T", "a">>>>, <<>>, <<<<>>, PNone>>, <<<<>>, "{">>>>}}
MCWhole == {<<i>> : i \in MCItemTrees}
           \cup {<<<<"item", <<>>, MCFn("a", <<s, t>>)>>, <<"item", <<>>, MCFn("b", <<>>)>>>> : s, t \in MCStmts}
Without(s, i) == SubSeq(s, 1, i - 1) \o SubSeq(s, i + 1, Len(s))
MCDamaged == LET short == {s \in {Write(w) : w \in {<<i>> : i \in {<<"item", <<>>, MCFn("a", <<s>>)>> : s \in MCStmts}}} : TRUE}
                 tail == <<"for", "{", "break", ";", "}", "fn", "b", "(", ")", "{", "}">>
             IN  UNION {{Without(s, i) \o tail : i \in 1..Len(s)} \cup {SubSeq(s, 1, i) \o SubSeq(s, i, Len(s)) : i \in 1..Len(s)}
                        \cup {[s EXCEPT ![i] = x] \o tail : i \in 1..Len(s), x \in {"a", "}", "{", "=>", "break", "error"}} : s \in short}
MCAlphabet == {"a", "T", "1", "+", "-", "(", ")", "{", "}", "[", "]", ";", "=", ",", ".", "..", "if", "for", "break", "return", "?", "match", "=>"}
MCInputs == {[toks |-> Write(w), want |-> w] : w \in MCWhole}
            \cup {[toks |-> s, want |-> Unknown] : s \in MCDamaged}
            \cup {[toks |-> s, want |-> Unknown] : s \in UNION {[1..n -> MCAlphabet] : n \in 1..3}}

\* ImportCycles
MCMods == 1..3
MCGraphs == [MCMods -> SUBSET MCMods]

\* ModuleLoader
\* Three project modules: every list of at most two different imports for each
\* file, and the requests to the standard module on a few of them.
MCFiles == {"a", "b", "c"}
MCStdItems ==
    {Item("std", "Pub", "fn", TRUE, TopLevel), Item("std", "priv", "fn", FALSE, TopLevel), Item("std", "T", "type", TRUE, TopLevel),
     Item("std", "m", "fn", FALSE, "T"), Item("std", "K", "const", TRUE, TopLevel), Item("std", "P", "policy", TRUE, TopLevel)}
MCItemsOf == [f \in MCFiles \cup {"main"} |->
   CASE f = "a" -> <<Item(f, "A", "type", TRUE, TopLevel), Item(f, "go", "fn", FALSE, "A"), Item(f, "Shared", "fn", TRUE, TopLevel)>>
     [] f = "b" -> <<Item(f, "Shared", "fn", TRUE, TopLevel), Item(f, "hid", "fn", FALSE, TopLevel),
                     Item(f, "hidden", "type", FALSE, TopLevel), Item(f, "K", "const", TRUE, TopLevel)>>
     [] f = "c" -> <<Item(f, "Pub", "fn", TRUE, TopLevel), Item(f, "Own", "fn", TRUE, TopLevel)>>
     [] OTHER -> <<Item(f, "Own", "fn", TRUE, TopLevel)>>]
ImportLists == {<<>>} \cup {<<x>> : x \in MCFiles}
               \cup {l \in {<<x, y>> : x, y \in MCFiles} : l[1] # l[2]}
NoRequests == [f \in MCFiles \cup {"main"} |-> {}]
NoImports == [f \in MCFiles \cup {"main"} |-> <<>>]
MCAsked == {{}, {All}, {"Pub"}, {"T"}, {"priv", "T"}, {"no"}}
MCPrograms ==
    {[imports |-> i, std |-> NoRequests] : i \in [MCFiles \cup {"main"} -> ImportLists]}
    \cup {[imports |-> [NoImports EXCEPT !["main"] = l, !["a"] = k, !["c"] = <<"main">>],
           std |-> [NoRequests EXCEPT !["main"] = s, !["a"] = t]] :
             l \in ImportLists, k \in {<<>>, <<"b">>}, s, t \in MCAsked}

\* BuildDriver
\* Two programs that share a file, two runs at once; a few directory trees.
MCUses == [e \in {"a", "b"} |-> IF e = "a" THEN {"a", "lib"} ELSE {"lib"}]
MCTexts == {[v |-> 1, bad |-> {}], [v |-> 2, bad |-> {"recovered_syntax", "warning"}], [v |-> 3, bad |-> {"borrow"}]}
MCDirs == {<<>>, <<"src">>, <<"x">>, <<"y">>, <<"x", "src">>, <<"x", "z">>, <<"target">>}
MCLayouts == {[dirs |-> MCDirs, mains |-> ms, cwd |-> c, input |-> i, entryVar |-> v, entry |-> <<"y">>, rank |-> [d \in MCDirs |-> Len(d)]] :
                ms \in {m \in SUBSET MCDirs : Cardinality(m) <= 3}, c \in {<<>>, <<"x", "z">>}, i \in {<<>>, <<"x">>}, v \in BOOLEAN}

\* LanguageServer
MCLspTexts ==
    {[fatal |-> FALSE, items |-> <<SrcItem("fn", "f", <<>>, "", FALSE), SrcItem("statement", "f", <<>>, "type", TRUE)>>],
     [fatal |-> FALSE, items |-> <<SrcItem("enum", "E", <<"f">>, "", FALSE), SrcItem("impl", "S", <<"m">>, "panic", TRUE)>>],
     [fatal |-> TRUE, items |-> <<SrcItem("fn", "f", <<>>, "", FALSE), SrcItem("const", "c", <<>>, "syntax", FALSE)>>]}

VARIABLE part  \* the component this behaviour is about; the others rest in an initial state

mcvars == <<part, lx, pa, ic, ld, bd, ed>>
Init ==
    /\ part \in {"Lexing", "Parsing", "ImportCycles", "ModuleLoader", "BuildDriver", "LanguageServer"}
    /\ IF part = "Lexing" THEN LexingInit ELSE lx = LexingStart([src |-> <<>>, value |-> NoValue])
    /\ IF part = "Parsing" THEN ParsingInit ELSE pa = ParsingStart([toks |-> <<"a">>, want |-> Unknown])
    /\ IF part = "ImportCycles" THEN CyclesInit ELSE ic = CyclesStart([m \in Mods |-> {}], <<>>)
    /\ IF part = "ModuleLoader" THEN LoaderInit ELSE ld = LoaderStart([imports |-> NoImports, std |-> NoRequests])
    /\ IF part = "BuildDriver" THEN BuildInit ELSE bd = BuildStart(NoLayout)
    /\ IF part = "LanguageServer" THEN LspInit ELSE ed = ServerStart
Next ==
    \/ part = "Lexing" /\ LexingNext /\ UNCHANGED <<part, pa, ic, ld, bd, ed>>
    \/ part = "Parsing" /\ ParsingNext /\ UNCHANGED <<part, lx, ic, ld, bd, ed>>
    \/ part = "ImportCycles" /\ CyclesNext /\ UNCHANGED <<part, lx, pa, ld, bd, ed>>
    \/ part = "ModuleLoader" /\ LoaderNext /\ UNCHANGED <<part, lx, pa, ic, bd, ed>>
    \/ part = "BuildDriver" /\ BuildNext /\ UNCHANGED <<part, lx, pa, ic, ld, ed>>
    \/ part = "LanguageServer" /\ LspNext /\ UNCHANGED <<part, lx, pa, ic, ld, bd>>
Spec == Init /\ [][Next]_mcvars
=============================================================================

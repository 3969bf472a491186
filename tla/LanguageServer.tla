--------------------------- MODULE LanguageServer ---------------------------
(***************************************************************************)
(* The language server (crates/doo_lsp) and an editor, joined by two FIFO  *)
(* streams.  The editor opens, changes and closes documents and asks about *)
(* positions while earlier messages are still under way; the server keeps  *)
(* one analysis per document, made anew from the whole text (full sync),   *)
(* and answers and publishes without naming the version it is about.       *)
(***************************************************************************)
EXTENDS Integers, Sequences, SequencesExt, FiniteSets

CONSTANTS Uris,    \* documents
          Buffers,   \* [fatal, items : Seq of items], an item to a line
          MaxSent  \* messages the editor sends

VARIABLES ed  \* [open, sent, toServer, toClient, shown, docs, server, split]

\* An item: its kind, the name it declares (a statement: uses), its members, what
\* is wrong with it ("", "syntax", "type", "panic" of the checker), and whether a
\* character of several bytes stands before its name.
SrcItem(kind, name, members, wrong, wide) == [kind |-> kind, name |-> name, members |-> members, wrong |-> wrong, wide |-> wide]
NoPlace == [uri |-> "", line |-> 0, name |-> ""]

-----------------------------------------------------------------------------
\* extract_symbols_from_item: nothing for statements, policies and interfaces;
\* the methods of an impl, under the struct's name.
SymbolDef(kind, name, line) == [kind |-> kind, name |-> name, line |-> line]
MethodName(struct, method) == struct \o "::" \o method
ExtractSymbols(item, line) ==
    LET members(kind) == [i \in DOMAIN item.members |-> SymbolDef(kind, item.members[i], line)]
    IN  CASE item.kind \in {"fn", "const", "static", "import"} -> <<SymbolDef(item.kind, item.name, line)>>
          [] item.kind = "struct" -> <<SymbolDef("struct", item.name, line)>> \o members("field")
          [] item.kind = "enum" -> <<SymbolDef("enum", item.name, line)>> \o members("variant")
          [] item.kind = "impl" -> [i \in DOMAIN item.members |-> SymbolDef("fn", MethodName(item.name, item.members[i]), line)]
          [] OTHER -> <<>>

\* run_type_check: the errors of every item, statements in a function of their
\* own; none at all when the checker panics.
RunTypeCheck(items) ==
    IF \E i \in DOMAIN items : items[i].wrong = "panic" THEN {} ELSE {i \in DOMAIN items : items[i].wrong = "type"}
ParseAndExtract(text) ==
    LET syntax == {i \in DOMAIN text.items : text.items[i].wrong = "syntax"}
    IN  IF text.fatal THEN [text |-> text, errors |-> syntax \cup {0}, symbols |-> <<>>]
        ELSE [text |-> text, errors |-> syntax \cup RunTypeCheck(text.items),
              symbols |-> FlattenSeq([i \in DOMAIN text.items |-> ExtractSymbols(text.items[i], i)])]

ServerStateNew == <<>>
UpdateDocument(docs, uri, text) == [u \in DOMAIN docs \cup {uri} |-> IF u = uri THEN ParseAndExtract(text) ELSE docs[u]]
RemoveDocument(docs, uri) == [u \in DOMAIN docs \ {uri} |-> docs[u]]
DiagnosticsForDocument(docs, uri) == IF uri \in DOMAIN docs THEN docs[uri].errors ELSE {}

\* word_at_position: "split" is a column inside a character; "past", beyond the line.
ItemAt(docs, uri, line) == docs[uri].text.items[line]
HasLine(docs, uri, line) == uri \in DOMAIN docs /\ line \in DOMAIN docs[uri].text.items
Panics(docs, q) == q.what \in {"definition", "completion", "signature"} /\ q.place = "split" /\ HasLine(docs, q.uri, q.line) /\ ItemAt(docs, q.uri, q.line).wide
WordAtPosition(docs, q) == IF HasLine(docs, q.uri, q.line) /\ q.place # "past" THEN ItemAt(docs, q.uri, q.line).name ELSE ""

\* The first of the symbols at the places at.
FirstAt(syms, at) == IF at = {} THEN SymbolDef("", "", 0) ELSE syms[CHOOSE i \in at : \A j \in at : i <= j]
\* find_definition, signature_help: documents in the order of a hash map.
Found(docs, word, kinds) ==
    LET hit(u) == LET syms == docs[u].symbols IN FirstAt(syms, {i \in DOMAIN syms : syms[i].name = word /\ syms[i].kind \in kinds})
        in == {u \in DOMAIN docs : hit(u).line # 0}
    IN  IF word = "" \/ in = {} THEN {NoPlace} ELSE {[uri |-> u, line |-> hit(u).line, name |-> word] : u \in in}
SymbolKinds == {"fn", "const", "static", "import", "struct", "field", "enum", "variant"}
FindDefinition(docs, word) == Found(docs, word, SymbolKinds)
FindSignature(docs, word) == Found(docs, word, {"fn"})
FindSymbolAt(docs, uri, line) ==
    LET syms == IF uri \in DOMAIN docs THEN docs[uri].symbols ELSE <<>>
        s == FirstAt(syms, {i \in DOMAIN syms : syms[i].line = line})
    IN  IF s.line = 0 THEN NoPlace ELSE [uri |-> uri, line |-> line, name |-> s.name]
\* symbols_with_prefix: a prefix is empty or a whole name here.
SymbolsWithPrefix(docs, prefix) ==
    UNION {{[uri |-> u, line |-> s.line, name |-> s.name] : s \in {x \in Range(docs[u].symbols) : prefix \in {"", x.name}}} : u \in DOMAIN docs}
\* completions: beside the keywords and the built-in names, which are always there.
Completions(docs, prefix) == SymbolsWithPrefix(docs, prefix)
DocumentSymbols(docs, uri) ==
    IF uri \in DOMAIN docs THEN {[uri |-> uri, line |-> s.line, name |-> s.name] : s \in Range(docs[uri].symbols)} ELSE {}

\* The answers a request may get, each a set of places.
HandleGotoDefinition(docs, q) == {{d} : d \in FindDefinition(docs, WordAtPosition(docs, q))}
HandleHover(docs, q) == {{FindSymbolAt(docs, q.uri, q.line)}}
HandleCompletion(docs, q) == {Completions(docs, WordAtPosition(docs, q))}
HandleDocumentSymbols(docs, q) == {DocumentSymbols(docs, q.uri)}
HandleSignatureHelp(docs, q) == {{d} : d \in FindSignature(docs, WordAtPosition(docs, q))}
Kinds == {"definition", "hover", "completion", "outline", "signature"}
HandleRequest(docs, q) ==
    CASE q.what = "definition" -> HandleGotoDefinition(docs, q)
      [] q.what = "hover" -> HandleHover(docs, q)
      [] q.what = "completion" -> HandleCompletion(docs, q)
      [] q.what = "outline" -> HandleDocumentSymbols(docs, q)
      [] q.what = "signature" -> HandleSignatureHelp(docs, q)

-----------------------------------------------------------------------------
\* Messages; a request remembers the editor's documents when it was sent.
Blank == [fatal |-> FALSE, items |-> <<>>]
Msg(m, uri) == [m |-> m, uri |-> uri, text |-> Blank, what |-> "", line |-> 0, place |-> "", open |-> <<>>, answer |-> {}]
TextMsg(m, uri, text) == [Msg(m, uri) EXCEPT !.text = text]
Question(what, uri, line, place, open) == [Msg("request", uri) EXCEPT !.what = what, !.line = line, !.place = place, !.open = open]
Response(q, answer) == [q EXCEPT !.m = "response", !.answer = answer]
Publish(uri, errors) == [Msg("publish", uri) EXCEPT !.answer = errors]

ServerStart == [open |-> <<>>, sent |-> 0, toServer |-> <<>>, toClient |-> <<>>, shown |-> [u \in Uris |-> {}],
                docs |-> ServerStateNew, server |-> "running", split |-> FALSE]
LspInit == ed = ServerStart

Send(m) == ed.sent < MaxSent /\ ed' = [ed EXCEPT !.sent = @ + 1, !.toServer = Append(@, m)]
Opened(uri, text) == [u \in DOMAIN ed.open \cup {uri} |-> IF u = uri THEN text ELSE ed.open[u]]
EditorOpens(uri, text) ==
    /\ ed.sent < MaxSent /\ uri \notin DOMAIN ed.open
    /\ ed' = [ed EXCEPT !.sent = @ + 1, !.open = Opened(uri, text), !.toServer = Append(@, TextMsg("didOpen", uri, text))]
EditorChanges(uri, text) ==
    /\ ed.sent < MaxSent /\ uri \in DOMAIN ed.open /\ ed.open[uri] # text
    /\ ed' = [ed EXCEPT !.sent = @ + 1, !.open = Opened(uri, text), !.toServer = Append(@, TextMsg("didChange", uri, text))]
EditorCloses(uri) ==
    /\ ed.sent < MaxSent /\ uri \in DOMAIN ed.open
    /\ ed' = [ed EXCEPT !.sent = @ + 1, !.open = [u \in DOMAIN @ \ {uri} |-> @[u]], !.toServer = Append(@, Msg("didClose", uri))]
EditorAsks(what, uri, line, place) ==
    /\ place = "split" => ed.open[uri].items[line].wide
    /\ what \in {"hover", "outline"} => place = "word"    \* their handlers read no column
    /\ what = "outline" => line = 1
    /\ what = "signature" => place # "past"    \* as for a definition
    /\ Send(Question(what, uri, line, place, ed.open))
EditorShutsDown == Send(Msg("shutdown", ""))
EditorReceives ==
    /\ ed.toClient # <<>>
    /\ LET m == Head(ed.toClient)
       IN  ed' = [ed EXCEPT !.toClient = Tail(@), !.shown = IF m.m = "publish" THEN [@ EXCEPT ![m.uri] = m.answer] ELSE @]

\* One message of main_loop.
Serving == ed.server = "running" /\ ed.toServer # <<>>
PublishFor(docs, uri) == Publish(uri, DiagnosticsForDocument(docs, uri))
HandleDidOpenOrChange ==
    /\ Serving /\ Head(ed.toServer).m \in {"didOpen", "didChange"}
    /\ LET m == Head(ed.toServer)
           docs == UpdateDocument(ed.docs, m.uri, m.text)
       IN  ed' = [ed EXCEPT !.toServer = Tail(@), !.docs = docs, !.toClient = Append(@, PublishFor(docs, m.uri))]
HandleDidCloseQuiet ==
    /\ Serving /\ Head(ed.toServer).m = "didClose"
    /\ ed' = [ed EXCEPT !.toServer = Tail(@), !.docs = RemoveDocument(@, Head(ed.toServer).uri)]
HandleDidClose ==
    /\ Serving /\ Head(ed.toServer).m = "didClose"
    /\ LET uri == Head(ed.toServer).uri
       IN  ed' = [ed EXCEPT !.toServer = Tail(@), !.docs = RemoveDocument(@, uri), !.toClient = Append(@, Publish(uri, {}))]
HandleRequestMessage ==
    /\ Serving /\ Head(ed.toServer).m = "request"
    /\ LET q == Head(ed.toServer)
       IN  IF Panics(ed.docs, q)
           THEN ed' = [ed EXCEPT !.toServer = Tail(@), !.server = "panicked", !.split = q.place = "split"]
           ELSE \E answer \in HandleRequest(ed.docs, q) :
                    ed' = [ed EXCEPT !.toServer = Tail(@), !.toClient = Append(@, Response(q, answer))]
HandleShutdown ==
    /\ Serving /\ Head(ed.toServer).m = "shutdown"
    /\ ed' = [ed EXCEPT !.toServer = Tail(@), !.server = "stopped", !.toClient = Append(@, [Head(ed.toServer) EXCEPT !.m = "response"])]

LspNext ==
    \/ \E uri \in Uris, text \in Buffers : EditorOpens(uri, text) \/ EditorChanges(uri, text)
    \/ \E uri \in Uris : EditorCloses(uri)
    \/ \E what \in Kinds, uri \in DOMAIN ed.open, place \in {"word", "past", "split"} :
          \E line \in DOMAIN ed.open[uri].items : EditorAsks(what, uri, line, place)
    \/ EditorShutsDown \/ EditorReceives
    \/ HandleDidOpenOrChange \/ HandleDidClose \/ HandleRequestMessage \/ HandleShutdown
LspSpec == LspInit /\ [][LspNext]_ed

-----------------------------------------------------------------------------
\* What a text declares, read off the text: names at lines; a method is
\* declared under its struct's name.
Declares(text, line) ==
    LET item == text.items[line]
    IN  IF text.fatal \/ item.kind \in {"statement", "policy", "interface"} THEN {}
        ELSE IF item.kind = "impl" THEN {MethodName(item.name, m) : m \in Range(item.members)}
        ELSE {item.name} \cup Range(item.members)
\* A name is not empty; and what the parser gives members: a struct, an enum or an impl.
ItemKinds == {"fn", "const", "static", "import", "struct", "enum", "impl", "statement", "policy", "interface"}
ASSUME BufferTexts ==
    \A text \in Buffers :
        /\ text.fatal \in BOOLEAN /\ text.items \in Seq(Range(text.items))
        /\ \A line \in DOMAIN text.items :
              /\ text.items[line].kind \in ItemKinds /\ "" \notin Declares(text, line)
              /\ text.items[line].members \in Seq(Range(text.items[line].members))
              /\ text.items[line].kind \in {"fn", "const", "static", "import"} => text.items[line].members = <<>>
Places(open) == UNION {UNION {{[uri |-> u, line |-> l, name |-> n] : n \in Declares(open[u], l)} : l \in DOMAIN open[u].items} : u \in DOMAIN open}
Named(open, name) == {p \in Places(open) : p.name = name}
IsFunction(open, p) == open[p.uri].items[p.line].kind \in {"fn", "impl"}
\* An answer that is right for the documents as they were when it was asked for.
Right(q) ==
    LET word == IF q.place = "past" THEN "" ELSE q.open[q.uri].items[q.line].name
        here == {p \in Places(q.open) : p.uri = q.uri}
        oneOf(found) == IF found = {} THEN q.answer = {NoPlace} ELSE \E p \in found : q.answer = {p}
    IN  CASE q.what = "definition" -> oneOf(Named(q.open, word))
          [] q.what = "signature" -> oneOf({p \in Named(q.open, word) : IsFunction(q.open, p)})
          [] q.what = "hover" -> oneOf({p \in here : p.line = q.line})
          [] q.what = "outline" -> q.answer = here
          [] q.what = "completion" -> q.answer = IF word = "" THEN Places(q.open) ELSE Named(q.open, word)
          [] OTHER -> q.answer = {}
\* Every answer names what the editor's documents declared when the question was
\* sent, though they may have changed, been closed or been broken since; once
\* nothing is under way the errors shown are those of the texts on screen and of
\* no closed document; and only a position inside a character stops the server.
EditorSees ==
    /\ \A i \in DOMAIN ed.toClient : ed.toClient[i].m = "response" => Right(ed.toClient[i])
    /\ ed.server = "running" /\ ed.toServer = <<>> /\ ed.toClient = <<>> =>
          \A u \in Uris : ed.shown[u] = IF u \in DOMAIN ed.open THEN ParseAndExtract(ed.open[u]).errors ELSE {}
    /\ ed.server = "panicked" => ed.split
=============================================================================

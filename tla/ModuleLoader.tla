---------------------------- MODULE ModuleLoader ----------------------------
(***************************************************************************)
(* Loading of imported modules (crates/doo_driver/src/loader.rs,           *)
(* resolve_imports, and merge_imports of crates/doo_analysis/src/          *)
(* loader.rs): the requests of the main file, the standard modules it      *)
(* names, then the project's modules with a stack of pending ones, each    *)
(* with the chain of modules that led to it, then the standard modules     *)
(* those named.  A name says itself whether it is public (its first        *)
(* letter is upper case).                                                  *)
(***************************************************************************)
EXTENDS Naturals, Sequences, FiniteSets, SequencesExt

CONSTANTS Files,      \* the project's modules
          Main,       \* the main file, which may itself be imported
          StdItems,   \* the items of the standard module
          ItemsOf,    \* the items of each file, a function to sequences
          Projects    \* [imports, std]: for each file the local modules it imports,
                      \* in order, and the names it asks of the standard module

SourceFiles == Files \cup {Main}
\* An item stands in one place: in the standard module or in one of the project's files.
ASSUME ProjectFiles ==
    /\ \A p \in Projects : p.imports \in [SourceFiles -> Seq(SourceFiles)]
    /\ \A f \in SourceFiles : \A k \in DOMAIN ItemsOf[f] : ItemsOf[f][k].at = f
    /\ \A it \in StdItems : it.at \notin SourceFiles

VARIABLES ld  \* [prog, phase, pending, visited, names, items, errs, nested, order]

\* kind: "fn", "type", "const", "policy"; assoc: the type a method belongs to; at: its file.
Item(at, n, kind, pub, assoc) == [at |-> at, n |-> n, kind |-> kind, pub |-> pub, assoc |-> assoc]
TopLevel == "none"
All == "*"

\* A name asked of the standard module: missing, private, or there.
CheckRequests(asked) ==
    IF All \in asked THEN {}
    ELSE {<<"missing", n>> : n \in asked \ {it.n : it \in StdItems}}
         \cup {<<"private", it.n>> : it \in {x \in StdItems : x.n \in asked /\ ~x.pub /\ x.kind # "const"}}

\* Methods come with their type, whether they are public or not.  The types are
\* those of this module and those of everything imported before.
TypeNames(set) == {it.n : it \in {x \in set : x.kind = "type"}}
WantedStdNoMethods(it, asked, types) ==
    (it.n \in asked \/ it.pub) /\ (All \in asked \/ it.n \in asked)
WantedStd(it, asked, types) ==
    \/ /\ it.kind = "fn"
       /\ it.n \in asked \/ it.pub \/ it.assoc \in types
       /\ All \in asked \/ it.n \in asked \/ it.assoc \in types
    \/ it.kind = "const" /\ it.pub /\ (All \in asked \/ it.n \in asked)
    \/ it.kind = "policy"
    \/ it.kind \notin {"fn", "const", "policy"} /\ (All \in asked \/ it.n \in asked)

\* Of the items wanted, those whose name is not taken yet; where a module has two of
\* one name (the program is refused later), one of them.
Key(it) == IF it.kind = "fn" THEN <<"fn", it.assoc, it.n>> ELSE <<"name", it.n>>
Take(l, wanted) ==
    LET new == {Key(it) : it \in wanted} \ l.names
    IN  [l EXCEPT !.names = @ \cup new, !.items = @ \cup {CHOOSE it \in wanted : Key(it) = k : k \in new}]
ImportStd(l, asked) ==
    LET types == TypeNames({x \in StdItems : All \in asked \/ x.n \in asked}) \cup TypeNames(l.items)
    IN  Take(l, {it \in StdItems : WantedStd(it, asked, types)})

\* A project module gives what is public, and the methods of its public types.
ImportLocal(l, f) ==
    LET set == {ItemsOf[f][k] : k \in DOMAIN ItemsOf[f]}
        types == TypeNames({x \in set : x.pub})
    IN  Take(l, {it \in set : it.kind = "policy" \/ it.pub \/ (it.kind = "fn" /\ it.assoc \in types)})

LoaderStart(p) ==
         [prog |-> p, phase |-> "std", pending |-> <<>>, visited |-> {}, names |-> {},
          items |-> {}, errs |-> {}, nested |-> {}, order |-> <<>>]
LoaderInit == \E p \in Projects : ld = LoaderStart(p)

\* The standard module, if the main file imports it, then the pending stack.
ResolveStdImports ==
    /\ ld.phase = "std"
    /\ LET asked == ld.prog.std[Main]
           l == [ld EXCEPT !.phase = "local",
                           !.pending = [k \in DOMAIN ld.prog.imports[Main] |->
                                           [f |-> ld.prog.imports[Main][k], chain |-> <<>>]]]
       IN  ld' = IF asked = {} THEN l
                 ELSE ImportStd([l EXCEPT !.errs = @ \cup CheckRequests(asked)], asked)

InChain(f, chain) == \E k \in DOMAIN chain : chain[k] = f
\* One import of a module that was just read: a module of the chain is a cycle,
\* an unvisited one goes on the stack.
NestedImportNotVisited(l, chain, t) ==
    IF t \in l.visited THEN [l EXCEPT !.errs = @ \cup {<<"cycle", Last(chain), t>>}]
    ELSE [l EXCEPT !.pending = Append(@, [f |-> t, chain |-> chain])]
NestedImport(l, chain, t) ==
    IF InChain(t, chain) THEN [l EXCEPT !.errs = @ \cup {<<"cycle", Last(chain), t>>}]
    ELSE IF t \notin l.visited THEN [l EXCEPT !.pending = Append(@, [f |-> t, chain |-> chain])]
    ELSE l
NestedImports(l, chain, ts) ==
    LET Seen[k \in 0..Len(ts)] == IF k = 0 THEN l ELSE NestedImport(Seen[k - 1], chain, ts[k])
    IN  Seen[Len(ts)]
ReadModule(l, top) ==
    LET read == [l EXCEPT !.pending = Front(@), !.visited = @ \cup {top.f},
                          !.order = Append(@, top.f), !.nested = @ \cup l.prog.std[top.f]]
    IN  ImportLocal(NestedImports(read, Append(top.chain, top.f), l.prog.imports[top.f]), top.f)
LoadModuleAgain ==
    /\ ld.phase = "local" /\ ld.pending # <<>>
    /\ ld' = ReadModule(ld, Last(ld.pending))
LoadModule ==
    /\ ld.phase = "local" /\ ld.pending # <<>>
    /\ LET top == Last(ld.pending)
       IN  ld' = IF top.f \in ld.visited THEN [ld EXCEPT !.pending = Front(@)] ELSE ReadModule(ld, top)

\* What the loaded modules asked of the standard module: not checked for names.
ResolveNestedStdImports ==
    /\ ld.phase = "local" /\ ld.pending = <<>>
    /\ ld' = LET l == [ld EXCEPT !.phase = "merge"]
             IN  IF ld.nested = {} THEN l ELSE ImportStd(l, ld.nested)

\* The items go before those of the main file, unless it has the name itself.
MergeImportsAll ==
    ld.phase = "merge" /\ ld' = [ld EXCEPT !.phase = "done"]
MergeImports ==
    /\ ld.phase = "merge"
    /\ ld' = [ld EXCEPT !.phase = "done",
                        !.items = {it \in @ : \/ it.kind \notin {"fn", "type"}
                                              \/ it.n \notin {ItemsOf[Main][k].n : k \in DOMAIN ItemsOf[Main]}}]

LoaderNext == ResolveStdImports \/ LoadModule \/ ResolveNestedStdImports \/ MergeImports
LoaderSpec == LoaderInit /\ [][LoaderNext]_ld
-----------------------------------------------------------------------------
\* The reference: the files reached from some, the least set of files with them and
\* the imports of its files.
ImportedIn(imports, f) == {imports[f][k] : k \in DOMAIN imports[f]}
ClosedFor(imports, S) == \A f \in S : ImportedIn(imports, f) \subseteq S
ReachedFrom(imports, start) ==
    {f \in SourceFiles : \A S \in SUBSET SourceFiles : start \subseteq S /\ ClosedFor(imports, S) => f \in S}
ImportedBy(f) == ImportedIn(ld.prog.imports, f)
Closure(start) == ReachedFrom(ld.prog.imports, start)

(* A cycle is reported exactly when a module reached from the main file     *)
(* imports itself through others: the chain each pending module carries is  *)
(* enough, although a module is looked at only once.                        *)
CycleReported ==
    ld.phase = "merge" =>
        ((\E e \in ld.errs : e[1] = "cycle")
            <=> \E f \in Closure(ImportedBy(Main)) : f \in Closure(ImportedBy(f)))

(* Every module the program reaches is loaded, and only once: its public    *)
(* items are there and its file is read once.                               *)
LoadedOnce ==
    ld.phase = "merge" =>
        /\ \A f \in Closure(ImportedBy(Main)) : \E k \in DOMAIN ld.order : ld.order[k] = f
        /\ \A j, k \in DOMAIN ld.order : ld.order[j] = ld.order[k] => j = k

(* No two items of the merged program are the same function of the same     *)
(* type, or the same type: neither among the imports nor with the main      *)
(* file's own.                                                              *)
NamesUnique ==
    ld.phase = "done" =>
        /\ \A x, y \in ld.items : Key(x) = Key(y) => x = y
        /\ \A x \in ld.items, k \in DOMAIN ItemsOf[Main] :
               x.kind \in {"fn", "type"} => x.n # ItemsOf[Main][k].n

(* A type never comes without its methods: what the type's module or the    *)
(* standard module defines on it is merged with it, unless the name is      *)
(* taken by the main file.                                                  *)
MethodsFollowTypes ==
    ld.phase = "merge" =>
        \A ty \in ld.items, it \in StdItems :
            ty \in StdItems /\ ty.kind = "type" /\ it.kind = "fn" /\ it.assoc = ty.n =>
                Key(it) \in ld.names

\* Loading a program: a cyclic import is an error, no file is loaded twice, no
\* name is merged twice and a type brings its methods along.
LoadSound == CycleReported /\ LoadedOnce /\ NamesUnique /\ MethodsFollowTypes
=============================================================================

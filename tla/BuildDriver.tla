---------------------------- MODULE BuildDriver ----------------------------
(* `doo run`, `doo check` and `doo clean`: finding the program, the phases of *)
(* the compiler, linking, and the executable kept in .doo-cache for the next  *)
(* run (doo_driver/src/lib.rs, compile.rs, incremental.rs).  Users edit and   *)
(* remove files and start several runs at once.                               *)
EXTENDS Integers, Sequences, FiniteSets, FiniteSetsExt

CONSTANTS Entries,   \* entry points under one run root
          Uses,      \* the files each entry point is compiled from
          Texts,     \* contents of a file: [v, bad], bad the defects in it
          Runners,   \* runs that may be under way at once
          Layouts,   \* directory trees `doo run` is started in
          SearchDepth, \* how deep candidates are looked for (4 in the code)
          MaxOps     \* bound on what users do

VARIABLE bd

Sources == UNION {Uses[e] : e \in Entries}
Gone == [v |-> 0, bad |-> {}]
NoExe == [code |-> <<>>, lib |-> 0, comp |-> 0, at |-> 0]
IdleRun == [step |-> "idle", entry |-> "", seen |-> <<>>, changed |-> FALSE, temp |-> NoExe, cached |-> FALSE, stale |-> FALSE] 

-----------------------------------------------------------------------------
(* Finding main.doo.  A directory is the sequence of its names; a layout says *)
(* which directories there are, which hold main.doo and what DOO_ENTRY names. *)
Skipped == {"target", "node_modules", ".git"}
TryFindMainIn(l, d) ==
    IF d \in l.mains THEN {d} ELSE IF Append(d, "src") \in l.mains THEN {Append(d, "src")} ELSE {}
PathsTo(d) == {SubSeq(d, 1, n) : n \in 0 .. Len(d)}
FindProjectUp(l) ==
    LET up == {d \in PathsTo(l.cwd) : TryFindMainIn(l, d) # {}}
    IN  IF up = {} THEN {} ELSE TryFindMainIn(l, CHOOSE d \in up : \A e \in up : Len(e) <= Len(d))
\* Breadth first below the start, hidden and build directories left out.
DiscoverMainDooCandidates(l, start) ==
    {d \in l.mains : /\ start \in PathsTo(d)
                     /\ LET rel == SubSeq(d, Len(start) + 1, Len(d))
                        IN  /\ \A i \in DOMAIN rel : rel[i] \notin Skipped
                            /\ \/ Len(rel) <= SearchDepth
                               \/ Len(rel) = SearchDepth + 1 /\ rel[Len(rel)] = "src"}
\* run_command: one candidate is taken; of several the one nearest to the start.
SelectCandidate(l) ==
    LET c == DiscoverMainDooCandidates(l, l.input)
    IN  IF l.entryVar \/ c = {} THEN l.input
        ELSE CHOOSE d \in c : \A e \in c : Len(d) < Len(e) \/ (Len(d) = Len(e) /\ l.rank[d] <= l.rank[e])
ResolveInputPath(l, input) ==
    LET root == IF input \in l.dirs THEN input ELSE l.cwd
        c == DiscoverMainDooCandidates(l, root)
    IN  CASE input \in l.dirs /\ TryFindMainIn(l, input) # {} -> TryFindMainIn(l, input)
          [] FindProjectUp(l) # {} -> FindProjectUp(l)
          [] Cardinality(c) = 1 -> c
          [] Cardinality(c) > 1 /\ l.entryVar -> TryFindMainIn(l, l.entry)
          [] OTHER -> {}
\* The program `doo run` compiles: a directory, or none and an error.
Located(l) == LET p == SelectCandidate(l) IN IF p \in l.mains THEN {p} ELSE ResolveInputPath(l, p)

-----------------------------------------------------------------------------
(* compile_project.  What is wrong with a program is the union of what is     *)
(* wrong in its files.                                                        *)
Analyses == {"import", "type", "scope", "ownership", "borrow", "flow", "match", "visibility", "decorator"}
Defects(code) == UNION {code[f].bad : f \in DOMAIN code}
NoSuchInput(code) == \E f \in DOMAIN code : code[f] = Gone

\* A fatal syntax error stops; one the parser recovered from is only shown.
ParsePhase(d) == IF "fatal_syntax" \in d THEN "failed" ELSE "go"
\* Every analysis runs and reports; warnings do not stop.
AnalysisPhaseFirstOnly(d) == IF "type" \in d THEN "failed" ELSE "go"
AnalysisPhase(d) == IF d \cap Analyses # {} THEN "failed" ELSE "go"
MirPhase(d) == IF d \cap {"query", "invalid_mir", "no_main"} # {} THEN "failed" ELSE "go"
CodegenPhase(d) == IF "verify" \in d THEN "failed" ELSE "go"
CompileToObject(d) == IF "object" \in d THEN "failed" ELSE "go"
\* The libraries of the functions used, core and json always, the runtime with
\* async code, http or process; one that is not found fails the link.
FfiLibs(d) == {"core", "json"} \cup {l \in {"http", "db", "process"} : l \in d}
              \cup (IF d \cap {"async", "http", "process"} # {} THEN {"runtime"} ELSE {})
FindFfiLibrary(lib, found) == lib \in found
LinkObjectFile(d, found) == IF \A l \in FfiLibs(d) : FindFfiLibrary(l, found) THEN "go" ELSE "failed"

\* What is wrong without stopping the compiler, and everything that can be wrong.
Harmless == {"recovered_syntax", "warning", "async", "http", "db", "process"}
AllDefects == Harmless \cup Analyses \cup {"fatal_syntax", "query", "invalid_mir", "no_main", "verify", "object"}
SoundCode(code) == ~NoSuchInput(code) /\ Defects(code) \subseteq Harmless

CompileProject(code, checkOnly, found) ==
    LET d == Defects(code)
    IN  CASE NoSuchInput(code) -> "failed"
          [] ParsePhase(d) = "failed" \/ AnalysisPhase(d) = "failed" -> "failed"
          [] checkOnly -> "checked"
          [] MirPhase(d) = "failed" \/ CodegenPhase(d) = "failed" \/ CompileToObject(d) = "failed" -> "failed"
          [] LinkObjectFile(d, found) = "failed" -> "failed"
          [] OTHER -> "exe"

-----------------------------------------------------------------------------
(* The cache: manifest.json with a hash of every source under the run root    *)
(* and of the compiler, and one executable for each entry point.              *)
NoLayout == [dirs |-> {}]
BuildStart(l) ==
    [src |-> [f \in Sources |-> CHOOSE t \in Texts : t.v = 1], lib |-> [v |-> 1, at |-> 0], found |-> {"core", "json", "http", "db", "process", "runtime"},
     comp |-> 1, now |-> 1, dir |-> FALSE, man |-> [hash |-> <<>>, comp |-> 0], exe |-> [e \in Entries |-> NoExe],
     run |-> [r \in Runners |-> IdleRun], causes |-> {}, ops |-> 0, located |-> [l |-> l, at |-> {}, done |-> FALSE], check |-> "none"]
BuildInit == \E l \in Layouts \cup {NoLayout} : bd = BuildStart(l)

Locate == /\ ~bd.located.done /\ bd.located.l # NoLayout
          /\ bd' = [bd EXCEPT !.located.at = Located(bd.located.l), !.located.done = TRUE]

Program(e, s) == [f \in Uses[e] |-> s[f]]
DiscoverDooSources(s) == {f \in Sources : s[f] # Gone}
HashOf(s) == [f \in DiscoverDooSources(s) |-> s[f].v]
\* load: the manifest of another compiler counts as none.
LoadManifest(s) == IF s.man.comp = s.comp THEN s.man.hash ELSE <<>>
NeedsRebuild(prev, f, h) == f \notin DOMAIN prev \/ prev[f] # h
HasChanges(s) ==
    LET prev == LoadManifest(s) IN s.man.comp # s.comp \/ \E f \in DiscoverDooSources(s.src) : NeedsRebuild(prev, f, s.src[f].v)

Busy == {r \in Runners : bd.run[r].step # "idle"}
Building(s) == \E r \in Runners : s.run[r].step \in {"decide", "compile", "keep", "save"}
UserOp == bd.ops < MaxOps /\ bd.located.l = NoLayout
Because(s, c, why) == IF c THEN [s EXCEPT !.causes = @ \cup {why}] ELSE s

\* Start of a run: the manifest is loaded and every source hashed.
BeginRun(r, e) ==
    /\ UserOp /\ bd.run[r].step = "idle" /\ \A q \in Runners : q < r => q \in Busy
    /\ bd' = [bd EXCEPT !.ops = @ + 1,
                 !.run[r] = [IdleRun EXCEPT !.step = "decide", !.entry = e, !.seen = bd.src, !.changed = HasChanges(bd)]]

FfiLibsStaleNever(s, e) == FALSE
FfiLibsStale(s, e) == s.lib.at > s.exe[e].at
IsStale(s, x, e, seen) == x.code # Program(e, seen) \/ x.lib # s.lib.v \/ x.comp # s.comp
\* Nothing changed and an executable is there: copy it; a failed copy compiles.
TryCache(r, copied) ==
    LET me == bd.run[r]  x == bd.exe[me.entry]
        use == /\ ~me.changed /\ ~FfiLibsStale(bd, me.entry) /\ x # NoExe
               /\ DiscoverDooSources(me.seen) # {} /\ copied
    IN  /\ me.step = "decide"
        /\ bd' = IF use THEN [bd EXCEPT !.run[r] = [me EXCEPT !.step = "spawn", !.temp = x, !.cached = TRUE, !.stale = IsStale(bd, x, me.entry, me.seen)]]
                 ELSE [bd EXCEPT !.run[r].step = "compile"]
Compile1(r) ==
    LET me == bd.run[r]  code == Program(me.entry, bd.src)
    IN  /\ me.step = "compile"
        /\ bd' = IF CompileProject(code, FALSE, bd.found) = "exe"
                 THEN [bd EXCEPT !.run[r] = [me EXCEPT !.step = "keep", !.temp = [code |-> code, lib |-> bd.lib.v, comp |-> bd.comp, at |-> 0]]]
                 ELSE [bd EXCEPT !.run[r] = IdleRun]
\* The copy into the cache fails without the directory, which only save() makes;
\* its result, like that of save(), is ignored.
KeepExe(r, copied) ==
    LET me == bd.run[r]
        s == [bd EXCEPT !.run[r].step = "save", !.now = @ + 1]
    IN  /\ me.step = "keep"
        /\ bd' = IF bd.dir /\ copied THEN [s EXCEPT !.exe[me.entry] = [me.temp EXCEPT !.at = bd.now]]
                 ELSE Because(s, bd.exe[me.entry] # NoExe, "failed_copy")
SaveManifest(r) ==
    LET me == bd.run[r]
    IN  /\ me.step = "save"
        /\ bd' = Because([bd EXCEPT !.run[r].step = "spawn", !.dir = TRUE, !.man = [hash |-> HashOf(me.seen), comp |-> bd.comp]],
                         \E e \in Entries \ {me.entry} : bd.exe[e] # NoExe, "shared_manifest")
\* The program runs and ends, does not start, or is interrupted (which leaves its
\* temporary copy behind); the next run starts from nothing.
SpawnAndWait(r) ==
    /\ bd.run[r].step = "spawn"
    /\ bd' = [bd EXCEPT !.run[r] = IdleRun]
CheckCommand(e) ==
    /\ UserOp /\ Busy = {}
    /\ bd' = [bd EXCEPT !.ops = @ + 1, !.check = IF CompileProject(Program(e, bd.src), TRUE, {}) = "checked" THEN "no_errors" ELSE "errors"]
CleanCommand ==
    /\ UserOp
    /\ bd' = Because([bd EXCEPT !.ops = @ + 1, !.dir = FALSE, !.man = [hash |-> <<>>, comp |-> 0], !.exe = [e \in Entries |-> NoExe]],
                     Building(bd), "changed_during_build")

Edit(f, t) ==
    /\ UserOp /\ bd.src[f] # t
    /\ bd' = Because(Because([bd EXCEPT !.ops = @ + 1, !.src[f] = t], Building(bd), "changed_during_build"), t = Gone, "removed_file")
RebuildLib ==
    /\ UserOp
    /\ bd' = Because([bd EXCEPT !.ops = @ + 1, !.lib = [v |-> @.v + 1, at |-> bd.now], !.now = @ + 1], Building(bd), "changed_during_build")
UpgradeCompiler ==
    /\ UserOp
    /\ bd' = Because([bd EXCEPT !.ops = @ + 1, !.comp = @ + 1], Building(bd), "changed_during_build")

BuildNext ==
    \/ Locate
    \/ \E r \in Runners : \/ \E e \in Entries : BeginRun(r, e)
                          \/ \E ok \in BOOLEAN : TryCache(r, ok) \/ KeepExe(r, ok)
                          \/ Compile1(r) \/ SaveManifest(r) \/ SpawnAndWait(r)
    \/ \E e \in Entries : CheckCommand(e)
    \/ \E f \in Sources, t \in Texts \cup {Gone} : Edit(f, t)
    \/ CleanCommand \/ RebuildLib \/ UpgradeCompiler
BuildSpec == BuildInit /\ [][BuildNext]_bd

\* Different texts have different hashes (of 64 bits), a removed file is none of
\* them, and a directory tree holds a finite number of programs.
ASSUME BuildInputs ==
    /\ \A s, t \in Texts : s.v = t.v => s = t
    /\ Gone \notin Texts /\ \E t \in Texts : t.v = 1
    /\ \A t \in Texts : t.bad \subseteq AllDefects
    /\ \A l \in Layouts : /\ IsFiniteSet(l.mains) /\ l.mains \subseteq Seq(STRING)
                           /\ \A d \in l.mains : l.rank[d] \in Nat

-----------------------------------------------------------------------------
\* A build taken from the cache is what compiling would have given: the sources as
\* they were hashed, this compiler and these libraries, also with runs that overlap.
\* What can break it is named: a change in the middle of a build, two entry points
\* that share manifest.json, a removed file (only files that exist are compared) and
\* a copy into the cache that failed while the manifest was saved.
CachedIsFresh == \A r \in Runners : bd.run[r].stale => bd.causes # {}

\* A program is started only if its files are there and no phase found an error in
\* them; a recovered syntax error and a warning let it start.
StartsOnlySound ==
    \A r \in Runners : bd.run[r].step = "spawn" => SoundCode(bd.run[r].temp.code)

\* The program that is run is one of the project: with no main.doo in the directory
\* given, the one nearest to it below, or the innermost one around the working
\* directory.
EntryIsNearest ==
    bd.located.done => LET l == bd.located.l  c == DiscoverMainDooCandidates(l, l.input) IN
        /\ bd.located.at \subseteq l.mains /\ Cardinality(bd.located.at) <= 1
        /\ ~l.entryVar /\ c # {} => /\ bd.located.at # {}
                                    /\ \A d \in bd.located.at, e \in c : Len(d) <= Len(e)

\* `doo run` and `doo check`: what is run is the program the user asked for, as it
\* is, and free of errors.
RunsWhatIsThere == CachedIsFresh /\ StartsOnlySound /\ EntryIsNearest
=============================================================================

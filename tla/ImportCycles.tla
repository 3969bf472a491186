---------------------------- MODULE ImportCycles ----------------------------
(***************************************************************************)
(* Circular import detection (CircularImportDetector in crates/            *)
(* doo_analysis/src/semantic/resolve.rs): a depth-first search over the    *)
(* import graph, one call of dfs_detect per frame of the path.  Modules    *)
(* are numbers, so that the sorted order of their names is the order of    *)
(* the numbers.                                                            *)
(***************************************************************************)
EXTENDS Naturals, Sequences, FiniteSets, SequencesExt

CONSTANTS Mods,     \* the modules of the program, a set of numbers
          Graphs    \* the import graphs, functions from Mods to sets of modules

VARIABLES ic  \* [g, todo, visited, path, rest, cycle, done]: the graph, the
              \* modules detect_cycles has still to start from, the visited set,
              \* the path with the imports each frame has still to look at, and
              \* the error

\* The k-th in order has k - 1 before it.
Sorted(set) == [k \in 1..Cardinality(set) |-> CHOOSE md \in set : Cardinality({x \in set : x < md}) = k - 1]
InStack == {ic.path[k] : k \in DOMAIN ic.path}

\* detect_cycles starts from every module, detect_cycle_from from one.
CyclesStart(g, starts) ==
             [g |-> g, todo |-> starts, from |-> {starts[k] : k \in DOMAIN starts},
              visited |-> {}, path |-> <<>>, rest |-> <<>>, cycle |-> <<>>, done |-> FALSE]
CyclesInit == \E g \in Graphs, starts \in {Sorted(Mods)} \cup {<<s>> : s \in Mods} : ic = CyclesStart(g, starts)

\* A call of dfs_detect: the module goes on the path with its imports sorted.
EnterModule(c, md) ==
    [c EXCEPT !.visited = @ \cup {md}, !.path = Append(@, md),
              !.rest = Append(@, Sorted(c.g[md]))]

DetectCycles ==
    /\ ~ic.done /\ ic.path = <<>>
    /\ ic' = IF ic.todo = <<>> THEN [ic EXCEPT !.done = TRUE]
             ELSE LET c == [ic EXCEPT !.todo = Tail(@)]
                  IN  IF Head(ic.todo) \in ic.visited THEN c ELSE EnterModule(c, Head(ic.todo))

\* The part of the path from the target on, closed by the target.
CycleFrom(t) ==
    SubSeq(ic.path, Min({k \in DOMAIN ic.path : ic.path[k] = t}), Len(ic.path)) \o <<t>>

\* The next import of the last frame.
LookAtImportAnyVisited ==
    /\ ~ic.done /\ ic.path # <<>> /\ Last(ic.rest) # <<>>
    /\ LET t == Head(Last(ic.rest))
           c == [ic EXCEPT !.rest[Len(ic.rest)] = Tail(@)]
       IN  ic' = IF t \notin ic.visited THEN EnterModule(c, t)
                 ELSE [c EXCEPT !.done = TRUE, !.cycle = <<t, t>>]
LookAtImport ==
    /\ ~ic.done /\ ic.path # <<>> /\ Last(ic.rest) # <<>>
    /\ LET t == Head(Last(ic.rest))
           c == [ic EXCEPT !.rest[Len(ic.rest)] = Tail(@)]
       IN  ic' = CASE t \notin ic.visited -> EnterModule(c, t)
                   [] t \in InStack -> [c EXCEPT !.done = TRUE, !.cycle = CycleFrom(t)]
                   [] OTHER -> c

\* The end of a call: the module leaves the path, and stays visited.
LeaveModuleUnvisit ==
    /\ ~ic.done /\ ic.path # <<>> /\ Last(ic.rest) = <<>>
    /\ ic' = [ic EXCEPT !.path = <<>>, !.rest = <<>>]
LeaveModule ==
    /\ ~ic.done /\ ic.path # <<>> /\ Last(ic.rest) = <<>>
    /\ ic' = [ic EXCEPT !.path = Front(@), !.rest = Front(@)]

CyclesNext == DetectCycles \/ LookAtImport \/ LeaveModule
CyclesSpec == CyclesInit /\ [][CyclesNext]_ic

\* Finitely many modules, which import each other.
ASSUME ImportGraphs ==
    /\ Mods \subseteq Nat /\ IsFiniteSet(Mods)
    /\ \A g \in Graphs : g \in [Mods -> SUBSET Mods]
-----------------------------------------------------------------------------
\* The reference: the modules reached by one or more imports are those in every
\* set that holds the imports of md and, with a module, the imports of that.
ClosedUnder(g, set) == \A md \in set : g[md] \subseteq set
ImportedFrom(g, md) == {t \in Mods : \A set \in SUBSET Mods : g[md] \subseteq set /\ ClosedUnder(g, set) => t \in set}
ImportsOf(md) == ImportedFrom(ic.g, md)
SearchedFrom(g, from) == from \cup UNION {ImportedFrom(g, md) : md \in from}
Searched == SearchedFrom(ic.g, ic.from)

(* The search ends without an error exactly when no module it can reach     *)
(* imports itself, directly or through others: an accepted program can be   *)
(* compiled module by module, and a diamond is not taken for a cycle.       *)
NoErrorMeansAcyclic ==
    ic.done => (ic.cycle = <<>> <=> \A md \in Searched : md \notin ImportsOf(md))

(* The error names a real cycle: it ends where it starts, every module on   *)
(* it imports the next, and none is named twice.                            *)
ReportedCycleIsReal ==
    ic.cycle # <<>> =>
        /\ Len(ic.cycle) >= 2 /\ ic.cycle[1] = Last(ic.cycle)
        /\ \A k \in 1..(Len(ic.cycle) - 1) : ic.cycle[k + 1] \in ic.g[ic.cycle[k]]
        /\ \A j, k \in 1..(Len(ic.cycle) - 1) : ic.cycle[j] = ic.cycle[k] => j = k

\* The search over the import graph reports a cycle if and only if there is one,
\* and the reported path is one.
CyclesFound == NoErrorMeansAcyclic /\ ReportedCycleIsReal
=============================================================================

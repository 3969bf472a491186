--------------------------- MODULE DriverProofs ---------------------------
(***************************************************************************)
(* Proofs about what the driver does around the compiler, for every value  *)
(* of the constants.  The search for import cycles (ImportCycles) reports  *)
(* a real one exactly if there is one.  doo run and its cache              *)
(* (BuildDriver) run the program as it is.  The module loader              *)
(* (ModuleLoader) loads every module that is reachable once, in whatever   *)
(* order its stack takes them, reports a cycle exactly if there is one in  *)
(* what it followed, and merges items of one name once with their methods. *)
(* And the language server (LanguageServer) answers for the documents as   *)
(* they were when it was asked.                                            *)
(***************************************************************************)
EXTENDS ImportCycles, BuildDriver, ModuleLoader, FiniteSetTheorems, Inductions, LanguageServer

\* Import cycles.

\* The elements of a sequence that grows or shrinks at an end.
LEMMA RangeAppend ==
    ASSUME NEW T, NEW s \in Seq(T), NEW x \in T
    PROVE  /\ Append(s, x) \in Seq(T) /\ Len(Append(s, x)) = Len(s) + 1 /\ Range(Append(s, x)) = Range(s) \cup {x}
           /\ Append(s, x)[Len(s) + 1] = x /\ \A k \in 1..Len(s) : Append(s, x)[k] = s[k]
<1> DEFINE a == Append(s, x)
<1>1. /\ a \in Seq(T) /\ Len(a) = Len(s) + 1 /\ a[Len(s) + 1] = x /\ \A k \in 1..Len(s) : a[k] = s[k]
  OBVIOUS
<1>2. DOMAIN a = 1..(Len(s) + 1) /\ DOMAIN s = 1..Len(s) /\ Len(s) \in Nat
  BY <1>1
<1> HIDE DEF a
<1>3. \A k \in 1..(Len(s) + 1) : k = Len(s) + 1 \/ k \in 1..Len(s)
  BY <1>2
<1>4. Len(s) + 1 \in 1..(Len(s) + 1) /\ \A k \in 1..Len(s) : k \in 1..(Len(s) + 1)
  BY <1>2
<1>5. {a[k] : k \in DOMAIN a} = {s[k] : k \in DOMAIN s} \cup {x}
  BY <1>1, <1>2, <1>3, <1>4
<1> QED BY <1>1, <1>5 DEF Range, a
\* Without the first.
LEMMA RangeTail ==
    ASSUME NEW T, NEW s \in Seq(T), s # <<>>
    PROVE  Head(s) \in T /\ Tail(s) \in Seq(T) /\ Range(s) = {Head(s)} \cup Range(Tail(s))
<1> DEFINE a == Tail(s)
<1>1. /\ a \in Seq(T) /\ Len(a) = Len(s) - 1 /\ \A k \in 1..(Len(s) - 1) : a[k] = s[k + 1]
      /\ Head(s) = s[1] /\ Len(s) \in Nat /\ Len(s) >= 1 /\ Head(s) \in T
  OBVIOUS
<1>2. DOMAIN a = 1..(Len(s) - 1) /\ DOMAIN s = 1..Len(s)
  BY <1>1
<1> HIDE DEF a
<1>3. \A k \in 1..Len(s) : k = 1 \/ (k - 1 \in 1..(Len(s) - 1) /\ (k - 1) + 1 = k)
  BY <1>1
<1>4. 1 \in 1..Len(s) /\ \A k \in 1..(Len(s) - 1) : k + 1 \in 1..Len(s)
  BY <1>1
<1>5. \A k \in DOMAIN s : s[k] \in {Head(s)} \cup {a[j] : j \in DOMAIN a}
  <2> SUFFICES ASSUME NEW k \in 1..Len(s), k # 1 PROVE \E j \in DOMAIN a : s[k] = a[j]
    BY <1>1, <1>2
  <2>1. k - 1 \in DOMAIN a /\ a[k - 1] = s[k]
    BY <1>1, <1>2, <1>3
  <2> QED BY <2>1
<1>6. {s[k] : k \in DOMAIN s} = {Head(s)} \cup {a[j] : j \in DOMAIN a}
  BY <1>1, <1>2, <1>4, <1>5, SMTT(30)
<1> QED BY <1>1, <1>6 DEF Range, a
\* Without the last.
LEMMA RangeFront ==
    ASSUME NEW T, NEW s \in Seq(T), s # <<>>
    PROVE  /\ Front(s) \in Seq(T) /\ Len(Front(s)) = Len(s) - 1 /\ \A k \in 1..(Len(s) - 1) : Front(s)[k] = s[k]
           /\ Range(s) = Range(Front(s)) \cup {s[Len(s)]} /\ Len(s) \in Nat /\ Len(s) >= 1
<1> DEFINE a == Front(s)
<1>0. Len(s) \in Nat /\ Len(s) >= 1
  OBVIOUS
<1>1. /\ a \in Seq(T) /\ Len(a) = Len(s) - 1 /\ \A k \in 1..(Len(s) - 1) : a[k] = s[k]
  BY <1>0 DEF Front
<1>2. DOMAIN a = 1..(Len(s) - 1) /\ DOMAIN s = 1..Len(s)
  BY <1>1
<1> HIDE DEF a
<1>3. \A k \in 1..Len(s) : k = Len(s) \/ k \in 1..(Len(s) - 1)
  BY <1>0
<1>4. Len(s) \in 1..Len(s) /\ \A k \in 1..(Len(s) - 1) : k \in 1..Len(s)
  BY <1>0
<1>6. {s[k] : k \in DOMAIN s} = {a[j] : j \in DOMAIN a} \cup {s[Len(s)]}
  BY <1>1, <1>2, <1>3, <1>4
<1> QED BY <1>0, <1>1, <1>6 DEF Range, a

\* Sorting a set gives a sequence of exactly its elements.
LEMMA SortedIs ==
    ASSUME NEW S \in SUBSET Nat, IsFiniteSet(S)
    PROVE  Sorted(S) \in Seq(S) /\ Range(Sorted(S)) = S
<1> DEFINE n == Cardinality(S)
           below(m) == {x \in S : x < m}
           rank == [m \in S |-> Cardinality(below(m))]
<1>1. n \in Nat
  BY FS_CardinalityType
<1>2. \A m \in S : IsFiniteSet(below(m)) /\ Cardinality(below(m)) \in Nat
  <2> SUFFICES ASSUME NEW m \in S PROVE IsFiniteSet(below(m)) /\ Cardinality(below(m)) \in Nat
    OBVIOUS
  <2>1. below(m) \in SUBSET S
    OBVIOUS
  <2>2. IsFiniteSet(below(m))
    BY <2>1, FS_Subset
  <2> QED BY <2>2, FS_CardinalityType
<1>3. \A m \in S : Cardinality(below(m)) < n
  <2> SUFFICES ASSUME NEW m \in S PROVE Cardinality(below(m)) < n
    OBVIOUS
  <2> DEFINE B == below(m)
  <2>1. B \in SUBSET S /\ B # S /\ Cardinality(B) \in Nat
    BY <1>2
  <2> HIDE DEF B
  <2>2. Cardinality(B) <= n /\ (n = Cardinality(B) => S = B)
    BY <2>1, FS_Subset
  <2>3. Cardinality(B) < n
    BY <1>1, <2>1, <2>2
  <2> QED BY <2>3 DEF B
<1>4. \A m, p \in S : m < p => Cardinality(below(m)) < Cardinality(below(p))
  <2> SUFFICES ASSUME NEW m \in S, NEW p \in S, m < p PROVE Cardinality(below(m)) < Cardinality(below(p))
    OBVIOUS
  <2> DEFINE B == below(m)
             C == below(p)
  <2>0. \A x \in S : x \in Nat
    OBVIOUS
  <2>b. \A x \in S : x < m => x < p
    BY <2>0
  <2>c. ~(m < m)
    BY <2>0
  <2>a. B \in SUBSET C /\ m \in C /\ m \notin B
    BY <2>b, <2>c
  <2>1. B \in SUBSET C /\ m \in C /\ m \notin B /\ IsFiniteSet(C) /\ Cardinality(B) \in Nat /\ Cardinality(C) \in Nat
    BY <1>2, <2>a
  <2> HIDE DEF B, C
  <2>2. Cardinality(B) <= Cardinality(C) /\ (Cardinality(C) = Cardinality(B) => C = B)
    BY <2>1, FS_Subset
  <2>3. Cardinality(B) < Cardinality(C)
    BY <2>1, <2>2
  <2> QED BY <2>3 DEF B, C
<1>5. rank \in [S -> 0..(n - 1)]
  BY <1>1, <1>2, <1>3
<1>6. \A m, p \in S : rank[m] = rank[p] => m = p
  <2> SUFFICES ASSUME NEW m \in S, NEW p \in S, rank[m] = rank[p] PROVE m = p
    OBVIOUS
  <2>1. m \in Nat /\ p \in Nat /\ ~(m < p) /\ ~(p < m)
    BY <1>2, <1>4
  <2> QED BY <2>1
<1>7. \A m \in S : rank[m] = Cardinality({x \in S : x < m})
  OBVIOUS
<1> HIDE DEF rank, n
<1>8. \A k \in 0..(n - 1) : \E m \in S : rank[m] = k
  <2> DEFINE T == 0..(n - 1)
  <2>1. IsFiniteSet(T) /\ Cardinality(T) = n
    BY <1>1, FS_Interval
  <2>2. rank \in Injection(S, T)
    BY <1>5, <1>6 DEF Injection, IsInjective
  <2> HIDE DEF T
  <2>3. rank \in Surjection(S, T)
    BY <2>1, <2>2, FS_Injection DEF n
  <2>4. \A k \in T : \E m \in S : rank[m] = k
    BY <2>3 DEF Surjection
  <2> QED BY <2>4 DEF T
<1> DEFINE s == Sorted(S)
<1>9. s = [k \in 1..n |-> CHOOSE m \in S : Cardinality({x \in S : x < m}) = k - 1]
  BY DEF Sorted, n
<1>10. \A k \in 1..n : s[k] \in S /\ rank[s[k]] = k - 1
  <2> SUFFICES ASSUME NEW k \in 1..n PROVE s[k] \in S /\ rank[s[k]] = k - 1
    OBVIOUS
  <2>1. k - 1 \in 0..(n - 1)
    BY <1>1
  <2>2. PICK m \in S : Cardinality({x \in S : x < m}) = k - 1
    BY <1>7, <1>8, <2>1
  <2>3. s[k] = CHOOSE q \in S : Cardinality({x \in S : x < q}) = k - 1
    BY <1>9
  <2>4. s[k] \in S /\ Cardinality({x \in S : x < s[k]}) = k - 1
    BY <2>2, <2>3
  <2> QED BY <1>7, <2>4
<1>11. s \in [1..n -> S]
  <2>1. DOMAIN s = 1..n /\ s = [k \in 1..n |-> s[k]]
    BY <1>9
  <2> HIDE DEF s
  <2> QED BY <1>10, <2>1
<1> HIDE DEF s
<1>12. s \in Seq(S) /\ DOMAIN s = 1..n
  BY <1>1, <1>11
<1>13. \A m \in S : \E k \in 1..n : s[k] = m
  <2> SUFFICES ASSUME NEW m \in S PROVE \E k \in 1..n : s[k] = m
    OBVIOUS
  <2>1. rank[m] \in 0..(n - 1)
    BY <1>5
  <2>2. rank[m] + 1 \in 1..n /\ (rank[m] + 1) - 1 = rank[m]
    BY <1>1, <2>1
  <2>3. s[rank[m] + 1] = m
    BY <1>6, <1>10, <2>2
  <2> QED BY <2>2, <2>3
<1> QED BY <1>10, <1>12, <1>13 DEF Range, s

\* What is reached by imports: the least set that is closed under them.
LEMMA ReachedIs ==
    ASSUME NEW g \in [Mods -> SUBSET Mods], NEW md \in Mods
    PROVE  /\ g[md] \subseteq ImportedFrom(g, md) /\ ImportedFrom(g, md) \subseteq Mods
           /\ ClosedUnder(g, ImportedFrom(g, md))
           /\ \A S \in SUBSET Mods : g[md] \subseteq S /\ ClosedUnder(g, S) => ImportedFrom(g, md) \subseteq S
<1>1. g[md] \subseteq ImportedFrom(g, md) /\ ImportedFrom(g, md) \subseteq Mods
  BY DEF ImportedFrom
<1>2. ClosedUnder(g, ImportedFrom(g, md))
  <2> SUFFICES ASSUME NEW x \in ImportedFrom(g, md), NEW t \in g[x], NEW S \in SUBSET Mods, g[md] \subseteq S, ClosedUnder(g, S)
               PROVE  t \in S
    BY <1>1 DEF ClosedUnder, ImportedFrom
  <2>1. x \in S
    BY DEF ImportedFrom
  <2> QED BY <2>1 DEF ClosedUnder
<1> QED BY <1>1, <1>2 DEF ImportedFrom

\* The modules searched are the least closed set with the starts.
LEMMA SearchedIs ==
    ASSUME NEW g \in [Mods -> SUBSET Mods], NEW from \in SUBSET Mods
    PROVE  /\ from \subseteq SearchedFrom(g, from) /\ SearchedFrom(g, from) \subseteq Mods
           /\ ClosedUnder(g, SearchedFrom(g, from))
           /\ \A S \in SUBSET Mods : from \subseteq S /\ ClosedUnder(g, S) => SearchedFrom(g, from) \subseteq S
<1>1. from \subseteq SearchedFrom(g, from) /\ SearchedFrom(g, from) \subseteq Mods
  BY ReachedIs DEF SearchedFrom
<1>2. \A x \in SearchedFrom(g, from) : g[x] \subseteq SearchedFrom(g, from)
  <2> SUFFICES ASSUME NEW x \in SearchedFrom(g, from) PROVE g[x] \subseteq SearchedFrom(g, from)
    OBVIOUS
  <2>1. CASE x \in from
    BY <2>1, ReachedIs DEF SearchedFrom
  <2>2. CASE \E md \in from : x \in ImportedFrom(g, md)
    BY <2>2, ReachedIs DEF SearchedFrom, ClosedUnder
  <2> QED BY <2>1, <2>2 DEF SearchedFrom
<1>3. ASSUME NEW S \in SUBSET Mods, from \subseteq S, ClosedUnder(g, S) PROVE SearchedFrom(g, from) \subseteq S
  <2>1. \A md \in from : ImportedFrom(g, md) \subseteq S
    BY <1>3, ReachedIs DEF ClosedUnder
  <2> QED BY <1>3, <2>1 DEF SearchedFrom
<1> QED BY <1>1, <1>2, <1>3 DEF ClosedUnder

\* The search under way: the modules that are finished import only finished ones and
\* no cycle goes through them; every module of the path imports the next and is on
\* it once; and what a frame does not look at any more is finished, or is the next
\* frame, or is in X.
IcFields == {"g", "todo", "from", "visited", "path", "rest", "cycle", "done"}
CyclesShape(c) ==
    /\ c = [f \in IcFields |-> c[f]]
    /\ c.g \in [Mods -> SUBSET Mods] /\ c.todo \in Seq(Mods) /\ c.from \in SUBSET Mods /\ c.visited \in SUBSET Mods
    /\ c.path \in Seq(Mods) /\ c.rest \in Seq(Seq(Mods)) /\ Len(c.rest) = Len(c.path) /\ c.done \in BOOLEAN
Finished(c) == c.visited \ Range(c.path)
PathOK(c) ==
    /\ Range(c.path) \subseteq c.visited
    /\ \A i, j \in 1..Len(c.path) : c.path[i] = c.path[j] => i = j
    /\ \A k \in 1..(Len(c.path) - 1) : c.path[k + 1] \in c.g[c.path[k]]
FrameOK(c, X, k) ==
    /\ Range(c.rest[k]) \subseteq c.g[c.path[k]]
    /\ \A t \in c.g[c.path[k]] : \/ t \in Range(c.rest[k]) \/ t \in Finished(c)
                                 \/ k < Len(c.path) /\ t = c.path[k + 1]
                                 \/ k = Len(c.path) /\ t \in X
RestOK(c, X) == \A k \in 1..Len(c.path) : FrameOK(c, X, k)
FinishedOK(c) == \A md \in Finished(c) : c.g[md] \subseteq Finished(c) /\ md \notin ImportedFrom(c.g, md)
StartsOK(c, X) ==
    /\ Range(c.todo) \subseteq c.from /\ c.from \subseteq c.visited \cup Range(c.todo) \cup X
    /\ c.visited \subseteq SearchedFrom(c.g, c.from)
SearchOK(c, X) == PathOK(c) /\ RestOK(c, X) /\ FinishedOK(c) /\ StartsOK(c, X)
\* The error: a cycle, and one there is.
CycleOK(c) ==
    /\ Len(c.cycle) >= 2 /\ c.cycle[1] = Last(c.cycle)
    /\ \A k \in 1..(Len(c.cycle) - 1) : c.cycle[k + 1] \in c.g[c.cycle[k]]
    /\ \A j, k \in 1..(Len(c.cycle) - 1) : c.cycle[j] = c.cycle[k] => j = k
    /\ \E md \in SearchedFrom(c.g, c.from) : md \in ImportedFrom(c.g, md)
CyclesOK(c) ==
    /\ CyclesShape(c)
    /\ c.cycle = <<>> => SearchOK(c, {}) /\ (c.done => c.path = <<>> /\ c.todo = <<>>)
    /\ c.cycle # <<>> => c.done /\ CycleOK(c)
CyclesInv == CyclesOK(ic)

\* At the start nothing is visited.
LEMMA CyclesStarts == CyclesInit => CyclesInv
<1> SUFFICES ASSUME NEW g \in Graphs, NEW st \in {Sorted(Mods)} \cup {<<s>> : s \in Mods}, ic = CyclesStart(g, st)
             PROVE  CyclesOK(ic)
  BY DEF CyclesInit, CyclesInv
<1>1. st \in Seq(Mods) /\ g \in [Mods -> SUBSET Mods]
  <2>1. Sorted(Mods) \in Seq(Mods)
    BY ImportGraphs, SortedIs
  <2>2. \A s \in Mods : <<s>> \in Seq(Mods)
    OBVIOUS
  <2> QED BY <2>1, <2>2, ImportGraphs
<1>2. Range(st) \subseteq Mods /\ Range(st) = {st[k] : k \in DOMAIN st}
  BY <1>1 DEF Range
<1>3. /\ ic = [f \in IcFields |-> ic[f]] /\ ic.g = g /\ ic.todo = st /\ ic.from = Range(st) /\ ic.visited = {}
      /\ ic.path = <<>> /\ ic.rest = <<>> /\ ic.cycle = <<>> /\ ic.done = FALSE
  BY <1>2 DEF CyclesStart, IcFields
<1>e. <<>> \in Seq(Mods) /\ <<>> \in Seq(Seq(Mods)) /\ Len(<<>>) = 0 /\ DOMAIN <<>> = {} /\ 1..0 = {} /\ 1..(0 - 1) = {}
  OBVIOUS
<1>4. CyclesShape(ic)
  BY <1>1, <1>2, <1>3, <1>e DEF CyclesShape
<1>5. PathOK(ic) /\ RestOK(ic, {}) /\ FinishedOK(ic)
  <2>1. Range(ic.path) = {} /\ Len(ic.path) = 0
    BY <1>3, <1>e DEF Range
  <2> QED BY <1>3, <1>e, <2>1 DEF PathOK, RestOK, FinishedOK, Finished
<1>6. StartsOK(ic, {})
  BY <1>3 DEF StartsOK
<1> QED BY <1>3, <1>4, <1>5, <1>6 DEF CyclesOK, SearchOK

\* A call of dfs_detect for a module that was not visited.
LEMMA EnterOK ==
    ASSUME NEW c, CyclesShape(c), c.cycle = <<>>, ~c.done, NEW md \in Mods, md \notin c.visited, SearchOK(c, {md}),
           md \in SearchedFrom(c.g, c.from), c.path # <<>> => md \in c.g[c.path[Len(c.path)]]
    PROVE  CyclesOK(EnterModule(c, md))
<1> DEFINE e == EnterModule(c, md)
           q == Sorted(c.g[md])
           L == Len(c.path)
<1>1. q \in Seq(Mods) /\ Range(q) = c.g[md]
  <2> DEFINE S == c.g[md]
  <2>0. c.g[md] \in SUBSET Mods
    BY DEF CyclesShape
  <2>1. S \in SUBSET Mods /\ S \in SUBSET Nat
    BY <2>0, ImportGraphs
  <2>2. IsFiniteSet(S)
    BY <2>1, ImportGraphs, FS_Subset
  <2> HIDE DEF S
  <2>3. Sorted(S) \in Seq(S) /\ Range(Sorted(S)) = S
    BY <2>1, <2>2, SortedIs
  <2>4. Sorted(S) \in Seq(Mods)
    <3> DEFINE z == Sorted(S)
    <3>1. z \in Seq(S) /\ S \subseteq Mods
      BY <2>1, <2>3
    <3> HIDE DEF z
    <3>2. \A i \in 1..Len(z) : z[i] \in Mods
      BY <3>1
    <3>3. z \in Seq(Mods)
      BY <3>1, <3>2
    <3> QED BY <3>3 DEF z
  <2> QED BY <2>3, <2>4 DEF S
<1> HIDE DEF q
<1>2. /\ e = [f \in IcFields |-> e[f]] /\ e.g = c.g /\ e.todo = c.todo /\ e.from = c.from /\ e.visited = c.visited \cup {md}
      /\ e.path = Append(c.path, md) /\ e.rest = Append(c.rest, q) /\ e.cycle = c.cycle /\ e.done = c.done
  BY DEF EnterModule, CyclesShape, IcFields, q
<1> HIDE DEF e
<1>3. /\ c.path \in Seq(Mods) /\ c.rest \in Seq(Seq(Mods)) /\ Len(c.rest) = L /\ L \in Nat
  BY DEF CyclesShape
<1>4. /\ e.path \in Seq(Mods) /\ Len(e.path) = L + 1 /\ Range(e.path) = Range(c.path) \cup {md}
      /\ e.path[L + 1] = md /\ \A k \in 1..L : e.path[k] = c.path[k]
  <2> DEFINE s == c.path
  <2>1. s \in Seq(Mods)
    BY <1>3
  <2> HIDE DEF s
  <2>2. /\ Append(s, md) \in Seq(Mods) /\ Len(Append(s, md)) = Len(s) + 1 /\ Range(Append(s, md)) = Range(s) \cup {md}
        /\ Append(s, md)[Len(s) + 1] = md /\ \A k \in 1..Len(s) : Append(s, md)[k] = s[k]
    BY <2>1, RangeAppend
  <2> QED BY <1>2, <2>2 DEF s
<1>5. /\ e.rest \in Seq(Seq(Mods)) /\ Len(e.rest) = L + 1 /\ e.rest[L + 1] = q /\ \A k \in 1..L : e.rest[k] = c.rest[k]
  <2> DEFINE s == c.rest
             T == Seq(Mods)
  <2>1. s \in Seq(T) /\ q \in T /\ Len(s) = L
    BY <1>1, <1>3
  <2> HIDE DEF s, T
  <2>2. /\ Append(s, q) \in Seq(T) /\ Len(Append(s, q)) = Len(s) + 1
        /\ Append(s, q)[Len(s) + 1] = q /\ \A k \in 1..Len(s) : Append(s, q)[k] = s[k]
    BY <2>1, RangeAppend
  <2> QED BY <1>2, <2>1, <2>2 DEF s, T
<1>6. CyclesShape(e)
  BY <1>2, <1>4, <1>5 DEF CyclesShape
<1>7. Range(c.path) \subseteq c.visited
  BY DEF SearchOK, PathOK
<1>8. Finished(e) = Finished(c)
  BY <1>2, <1>4, <1>7 DEF Finished
<1>9. \A k \in 1..(L + 1) : k = L + 1 \/ k \in 1..L
  BY <1>3
<1>10. \A k \in 1..L : c.path[k] # md
  BY <1>3, <1>7 DEF Range
<1>11. PathOK(e)
  <2>1. \A i, j \in 1..Len(e.path) : e.path[i] = e.path[j] => i = j
    BY <1>3, <1>4, <1>9, <1>10 DEF SearchOK, PathOK
  <2>2. ASSUME NEW k \in 1..(Len(e.path) - 1) PROVE e.path[k + 1] \in e.g[e.path[k]]
    <3>1. k \in 1..L /\ (k = L \/ (k \in 1..(L - 1) /\ k + 1 \in 1..L))
      BY <1>3, <1>4
    <3>2. CASE k = L
      <4>1. c.path # <<>>
        BY <1>3, <3>1
      <4> QED BY <1>2, <1>4, <3>1, <3>2, <4>1
    <3>3. CASE k \in 1..(L - 1) /\ k + 1 \in 1..L
      BY <1>2, <1>4, <3>1, <3>3 DEF SearchOK, PathOK
    <3> QED BY <3>1, <3>2, <3>3
  <2>3. Range(e.path) \subseteq e.visited
    BY <1>2, <1>4, <1>7
  <2> QED BY <2>1, <2>2, <2>3 DEF PathOK
<1>12. RestOK(e, {})
  <2> SUFFICES ASSUME NEW k \in 1..(L + 1) PROVE FrameOK(e, {}, k)
    BY <1>4 DEF RestOK
  <2>1. CASE k = L + 1
    <3>1. e.rest[k] = q /\ e.path[k] = md
      BY <1>4, <1>5, <2>1
    <3>2. e.g[e.path[k]] = c.g[md] /\ Range(e.rest[k]) = Range(q)
      BY <1>2, <3>1
    <3> QED BY <1>1, <3>2 DEF FrameOK
  <2>2. CASE k \in 1..L
    <3>1. FrameOK(c, {md}, k)
      BY <2>2 DEF SearchOK, RestOK
    <3>2. k < L + 1 /\ (k = L => e.path[k + 1] = md) /\ (k < L => e.path[k + 1] = c.path[k + 1])
      <4>1. k < L + 1 /\ (k < L => k + 1 \in 1..L) /\ (k = L => k + 1 = L + 1)
        BY <1>3, <2>2
      <4> QED BY <1>4, <4>1
    <3> QED BY <1>2, <1>4, <1>5, <1>8, <2>2, <3>1, <3>2 DEF FrameOK
  <2> QED BY <1>9, <2>1, <2>2
<1>13. FinishedOK(e)
  BY <1>2, <1>8 DEF SearchOK, FinishedOK
<1>14. StartsOK(e, {})
  BY <1>2 DEF SearchOK, StartsOK
<1> QED BY <1>2, <1>6, <1>11, <1>12, <1>13, <1>14 DEF CyclesOK, SearchOK, e

\* detect_cycles goes to the next module to start from.
LEMMA DetectOK ==
    ASSUME CyclesOK(ic), DetectCycles
    PROVE  CyclesOK(ic')
<1>1. /\ ~ic.done /\ ic.path = <<>> /\ CyclesShape(ic) /\ ic.cycle = <<>> /\ SearchOK(ic, {})
  BY DEF DetectCycles, CyclesOK
<1>2. CASE ic.todo = <<>>
  <2>1. /\ ic' = [f \in IcFields |-> ic'[f]] /\ ic'.g = ic.g /\ ic'.todo = ic.todo /\ ic'.from = ic.from /\ ic'.visited = ic.visited
        /\ ic'.path = ic.path /\ ic'.rest = ic.rest /\ ic'.cycle = ic.cycle /\ ic'.done = TRUE
    BY <1>1, <1>2 DEF DetectCycles, CyclesShape, IcFields
  <2>2. CyclesShape(ic')
    BY <1>1, <2>1 DEF CyclesShape
  <2>3. SearchOK(ic', {})
    BY <1>1, <2>1 DEF SearchOK, PathOK, RestOK, FrameOK, FinishedOK, StartsOK, Finished
  <2> QED BY <1>1, <1>2, <2>1, <2>2, <2>3 DEF CyclesOK
<1>3. CASE ic.todo # <<>>
  <2> DEFINE c == [ic EXCEPT !.todo = Tail(@)]
             h == Head(ic.todo)
  <2>1. /\ c = [f \in IcFields |-> c[f]] /\ c.g = ic.g /\ c.todo = Tail(ic.todo) /\ c.from = ic.from /\ c.visited = ic.visited
        /\ c.path = ic.path /\ c.rest = ic.rest /\ c.cycle = ic.cycle /\ c.done = ic.done
    BY <1>1 DEF CyclesShape, IcFields
  <2>2. ic' = IF h \in ic.visited THEN c ELSE EnterModule(c, h)
    BY <1>3 DEF DetectCycles
  <2>3. h \in Mods /\ Tail(ic.todo) \in Seq(Mods) /\ Range(ic.todo) = {h} \cup Range(Tail(ic.todo))
    <3> DEFINE s == ic.todo
    <3>1. s \in Seq(Mods) /\ s # <<>>
      BY <1>1, <1>3 DEF CyclesShape
    <3> HIDE DEF s
    <3>2. Head(s) \in Mods /\ Tail(s) \in Seq(Mods) /\ Range(s) = {Head(s)} \cup Range(Tail(s))
      BY <3>1, RangeTail
    <3> QED BY <3>2 DEF s
  <2> HIDE DEF c, h
  <2>4. CyclesShape(c)
    BY <1>1, <2>1, <2>3 DEF CyclesShape
  <2>5. PathOK(c) /\ FinishedOK(c)
    BY <1>1, <2>1 DEF SearchOK, PathOK, FinishedOK, Finished
  <2>6. \A X : RestOK(c, X)
    BY <1>1, <2>1 DEF RestOK
  <2>7. h \in ic.from /\ Range(c.todo) \subseteq c.from /\ c.from \subseteq c.visited \cup Range(c.todo) \cup {h}
        /\ c.visited \subseteq SearchedFrom(c.g, c.from)
    BY <1>1, <2>1, <2>3 DEF SearchOK, StartsOK
  <2>8. CASE h \in ic.visited
    <3>1. StartsOK(c, {})
      BY <2>1, <2>7, <2>8 DEF StartsOK
    <3>2. ic' = c /\ SearchOK(c, {})
      BY <2>2, <2>5, <2>6, <2>8, <3>1 DEF SearchOK
    <3> QED BY <1>1, <2>1, <2>4, <3>2 DEF CyclesOK
  <2>9. CASE h \notin ic.visited
    <3>1. StartsOK(c, {h})
      BY <2>7 DEF StartsOK
    <3>2. SearchOK(c, {h})
      BY <2>5, <2>6, <3>1 DEF SearchOK
    <3>3. h \in SearchedFrom(c.g, c.from)
      BY <2>1, <2>4, <2>7, SearchedIs DEF CyclesShape
    <3>4. ic' = EnterModule(c, h) /\ c.path = <<>> /\ c.cycle = <<>> /\ ~c.done /\ h \notin c.visited
      BY <1>1, <2>1, <2>2, <2>9
    <3> QED BY <2>3, <2>4, <3>2, <3>3, <3>4, EnterOK
  <2> QED BY <2>8, <2>9
<1> QED BY <1>2, <1>3

\* The end of a call: the module and all it imports are finished.
LEMMA LeaveOK ==
    ASSUME CyclesOK(ic), LeaveModule
    PROVE  CyclesOK(ic')
<1> DEFINE L == Len(ic.path)
           v == ic.path[L]
<1>1. /\ ~ic.done /\ ic.path # <<>> /\ ic.rest[Len(ic.rest)] = <<>> /\ CyclesShape(ic) /\ ic.cycle = <<>> /\ SearchOK(ic, {})
  BY DEF LeaveModule, CyclesOK, Last
<1>2. /\ ic' = [f \in IcFields |-> ic'[f]] /\ ic'.g = ic.g /\ ic'.todo = ic.todo /\ ic'.from = ic.from /\ ic'.visited = ic.visited
      /\ ic'.path = Front(ic.path) /\ ic'.rest = Front(ic.rest) /\ ic'.cycle = ic.cycle /\ ic'.done = ic.done
  BY <1>1 DEF LeaveModule, CyclesShape, IcFields
<1>3. ic.path \in Seq(Mods) /\ ic.rest \in Seq(Seq(Mods)) /\ Len(ic.rest) = L
  BY <1>1 DEF CyclesShape
<1>4. /\ ic'.path \in Seq(Mods) /\ Len(ic'.path) = L - 1 /\ \A k \in 1..(L - 1) : ic'.path[k] = ic.path[k]
      /\ Range(ic.path) = Range(ic'.path) \cup {v} /\ L \in Nat /\ L >= 1
  <2> DEFINE s == ic.path
  <2>1. s \in Seq(Mods) /\ s # <<>>
    BY <1>1, <1>3
  <2> HIDE DEF s
  <2>2. /\ Front(s) \in Seq(Mods) /\ Len(Front(s)) = Len(s) - 1 /\ \A k \in 1..(Len(s) - 1) : Front(s)[k] = s[k]
        /\ Range(s) = Range(Front(s)) \cup {s[Len(s)]} /\ Len(s) \in Nat /\ Len(s) >= 1
    BY <2>1, RangeFront
  <2> QED BY <1>2, <2>2 DEF s
<1>5. ic'.rest \in Seq(Seq(Mods)) /\ Len(ic'.rest) = L - 1 /\ \A k \in 1..(L - 1) : ic'.rest[k] = ic.rest[k]
  <2> DEFINE s == ic.rest
             T == Seq(Mods)
  <2>0. Len(s) >= 1 /\ Len(s) = L /\ s \in Seq(T)
    BY <1>3, <1>4
  <2>1. s \in Seq(T) /\ s # <<>>
    BY <2>0
  <2> HIDE DEF s, T
  <2>2. Front(s) \in Seq(T) /\ Len(Front(s)) = Len(s) - 1 /\ \A k \in 1..(Len(s) - 1) : Front(s)[k] = s[k]
    BY <2>1, RangeFront
  <2> QED BY <1>2, <2>0, <2>2 DEF s, T
<1>6. CyclesShape(ic')
  BY <1>1, <1>2, <1>4, <1>5 DEF CyclesShape
<1>7. \A i, j \in 1..L : ic.path[i] = ic.path[j] => i = j
  BY <1>1 DEF SearchOK, PathOK
<1>8. v \notin Range(ic'.path)
  <2> SUFFICES ASSUME NEW k \in 1..(L - 1), ic'.path[k] = v PROVE FALSE
    BY <1>4 DEF Range
  <2>1. k \in 1..L /\ L \in 1..L /\ k # L
    BY <1>4
  <2> QED BY <1>4, <1>7, <2>1
<1>9. v \in ic.visited /\ v \in Range(ic.path) /\ Range(ic'.path) \subseteq ic.visited /\ v \in Mods
  BY <1>1, <1>4 DEF SearchOK, PathOK, CyclesShape
<1> HIDE DEF v
<1>10. Finished(ic') = Finished(ic) \cup {v}
  BY <1>2, <1>4, <1>8, <1>9 DEF Finished
<1>11. ic.g[v] \subseteq Finished(ic)
  <2>1. L \in 1..L /\ ~(L < L)
    BY <1>4
  <2>2. FrameOK(ic, {}, L)
    BY <1>1, <2>1 DEF SearchOK, RestOK
  <2>3. Range(ic.rest[L]) = {}
    BY <1>1, <1>3 DEF Range
  <2> QED BY <2>1, <2>2, <2>3 DEF FrameOK, v
<1>12. v \notin ImportedFrom(ic.g, v)
  <2>1. ClosedUnder(ic.g, Finished(ic)) /\ Finished(ic) \in SUBSET Mods /\ ic.g \in [Mods -> SUBSET Mods]
    BY <1>1 DEF SearchOK, FinishedOK, ClosedUnder, Finished, CyclesShape
  <2>2. ImportedFrom(ic.g, v) \subseteq Finished(ic)
    BY <1>9, <1>11, <2>1, ReachedIs
  <2> QED BY <1>9, <2>2 DEF Finished
<1>13. FinishedOK(ic')
  BY <1>1, <1>2, <1>10, <1>11, <1>12 DEF SearchOK, FinishedOK
<1>14. PathOK(ic')
  <2>1. \A k \in 1..(L - 1) : k \in 1..L
    BY <1>4
  <2>2. \A i, j \in 1..Len(ic'.path) : ic'.path[i] = ic'.path[j] => i = j
    BY <1>4, <1>7, <2>1
  <2>3. \A k \in 1..((L - 1) - 1) : k \in 1..(L - 1) /\ k + 1 \in 1..(L - 1)
    BY <1>4
  <2>4. \A k \in 1..(Len(ic'.path) - 1) : ic'.path[k + 1] \in ic'.g[ic'.path[k]]
    BY <1>1, <1>2, <1>4, <2>3 DEF SearchOK, PathOK
  <2> QED BY <1>2, <1>9, <2>2, <2>4 DEF PathOK
<1>15. RestOK(ic', {})
  <2> SUFFICES ASSUME NEW k \in 1..(L - 1) PROVE FrameOK(ic', {}, k)
    BY <1>4 DEF RestOK
  <2>1. k \in 1..L /\ k # L /\ (k + 1 = L \/ (k < L - 1 /\ k + 1 \in 1..(L - 1)))
    BY <1>4
  <2>2. FrameOK(ic, {}, k)
    BY <1>1, <2>1 DEF SearchOK, RestOK
  <2>3. k + 1 = L => ic.path[k + 1] \in Finished(ic')
    BY <1>10 DEF v
  <2>4. ~(k + 1 = L) => k < Len(ic'.path) /\ ic'.path[k + 1] = ic.path[k + 1]
    BY <1>4, <2>1
  <2> QED BY <1>2, <1>4, <1>5, <1>10, <2>1, <2>2, <2>3, <2>4 DEF FrameOK
<1>16. StartsOK(ic', {})
  BY <1>1, <1>2 DEF SearchOK, StartsOK
<1> QED BY <1>1, <1>2, <1>6, <1>13, <1>14, <1>15, <1>16 DEF CyclesOK, SearchOK

\* Along the path everything is imported by what comes before it.
LEMMA PathImports ==
    ASSUME NEW g \in [Mods -> SUBSET Mods], NEW p \in Seq(Mods), NEW i \in 1..Len(p), NEW t, t = p[i], t \in g[p[Len(p)]],
           \A k \in 1..(Len(p) - 1) : p[k + 1] \in g[p[k]]
    PROVE  t \in ImportedFrom(g, t)
<1> DEFINE R == ImportedFrom(g, t)
           n == Len(p) - i
           S == {m \in Nat : m = 0 \/ p[i + m] \in R}
<1>0. Len(p) \in Nat /\ n \in Nat /\ t \in Mods
  OBVIOUS
<1>1. g[t] \subseteq R /\ R \subseteq Mods /\ ClosedUnder(g, R)
  BY <1>0, ReachedIs
<1> HIDE DEF R
<1>2. ASSUME NEW m \in 1..n, m - 1 \in S PROVE m \in S
  <2>1. i + (m - 1) \in 1..(Len(p) - 1) /\ (i + (m - 1)) + 1 = i + m /\ m \in Nat
    BY <1>0
  <2>2. p[i + m] \in g[p[i + (m - 1)]]
    BY <2>1
  <2>3. CASE m - 1 = 0
    <3>1. i + (m - 1) = i
      BY <2>3
    <3> QED BY <1>1, <2>1, <2>2, <3>1
  <2>4. CASE p[i + (m - 1)] \in R
    BY <1>1, <2>1, <2>2, <2>4 DEF ClosedUnder
  <2> QED BY <1>2, <2>3, <2>4
<1>3. n \in S
  <2>1. 0 \in S
    OBVIOUS
  <2>2. \A m \in 1..n : m - 1 \in S => m \in S
    BY <1>2
  <2> HIDE DEF S, n
  <2>3. \A m \in 0..n : m \in S
    BY <1>0, <2>1, <2>2, UpTo
  <2> QED BY <1>0, <2>3
<1>4. i + n = Len(p)
  BY <1>0
<1>5. CASE n = 0
  <2>1. p[Len(p)] = t
    BY <1>4, <1>5
  <2> QED BY <1>1, <2>1 DEF R
<1>6. CASE p[Len(p)] \in R
  BY <1>1, <1>6 DEF ClosedUnder, R
<1> QED BY <1>3, <1>4, <1>5, <1>6

\* The part of the path from the target on is a cycle.
LEMMA ReportIs ==
    ASSUME CyclesShape(ic), PathOK(ic), NEW t, t \in InStack, t \in ic.g[ic.path[Len(ic.path)]]
    PROVE  LET y == CycleFrom(t)
           IN  /\ y # <<>> /\ Len(y) >= 2 /\ y[1] = Last(y)
               /\ \A k \in 1..(Len(y) - 1) : y[k + 1] \in ic.g[y[k]]
               /\ \A j, k \in 1..(Len(y) - 1) : y[j] = y[k] => j = k
               /\ t \in ImportedFrom(ic.g, t)
<1> DEFINE p == ic.path
           L == Len(p)
           I == {k \in DOMAIN p : p[k] = t}
           i == Min(I)
           y == CycleFrom(t)
           n == L - i + 1
<1>1. p \in Seq(Mods) /\ L \in Nat /\ DOMAIN p = 1..L
  BY DEF CyclesShape
<1>2. I \in SUBSET Nat /\ I # {}
  BY <1>1 DEF InStack
<1>3. i \in I
  <2>1. \E m \in I : \A k \in I : m <= k
    <3> HIDE DEF I
    <3> QED BY <1>2, Least
  <2>2. i = CHOOSE x \in I : \A k \in I : x =< k
    BY DEF Min
  <2> QED BY <2>1, <2>2
<1>4. i \in 1..L /\ p[i] = t
  BY <1>1, <1>3
<1>5. y = SubSeq(p, i, L) \o <<t>>
  BY DEF CycleFrom
<1> HIDE DEF i, I
<1>6. t \in Mods /\ n \in Nat /\ n >= 1
  BY <1>1, <1>4
<1>7. y \in Seq(Mods) /\ Len(y) = n + 1 /\ y[n + 1] = t /\ \A k \in 1..n : y[k] = p[i + k - 1]
  <2> DEFINE s == SubSeq(p, i, L)
  <2>1. s \in Seq(Mods) /\ Len(s) = n /\ \A k \in 1..n : s[k] = p[i + k - 1]
    BY <1>1, <1>4
  <2>2. y = s \o <<t>>
    BY <1>5
  <2> HIDE DEF s, y, n
  <2>3. /\ \A u \in Seq(Mods) : /\ u \o <<t>> \in Seq(Mods) /\ Len(u \o <<t>>) = Len(u) + 1 /\ (u \o <<t>>)[Len(u) + 1] = t
                                /\ \A k \in 1..Len(u) : (u \o <<t>>)[k] = u[k]
    BY <1>6
  <2> QED BY <2>1, <2>2, <2>3
<1> HIDE DEF y, p
<1>8. Len(y) >= 2 /\ Len(y) - 1 = n /\ y # <<>>
  <2>1. Len(y) = n + 1 /\ n \in Nat /\ n >= 1
    BY <1>6, <1>7
  <2> HIDE DEF n
  <2> QED BY <2>1
<1>9. y[1] = t /\ Last(y) = t
  <2>1. 1 \in 1..n /\ i + 1 - 1 = i
    BY <1>1, <1>4
  <2> QED BY <1>4, <1>7, <2>1 DEF Last
<1>10. ASSUME NEW k \in 1..n PROVE y[k + 1] \in ic.g[y[k]]
  <2>1. CASE k = n
    <3>1. y[k + 1] = t /\ i + k - 1 = L
      BY <1>1, <1>4, <1>7, <2>1
    <3> QED BY <1>7, <3>1 DEF p
  <2>2. CASE k # n
    <3>1. k + 1 \in 1..n /\ i + k - 1 \in 1..(L - 1) /\ i + (k + 1) - 1 = (i + k - 1) + 1
      BY <1>1, <1>4, <2>2
    <3>2. p[(i + k - 1) + 1] \in ic.g[p[i + k - 1]]
      BY <3>1 DEF PathOK, p
    <3> QED BY <1>7, <3>1, <3>2
  <2> QED BY <2>1, <2>2
<1>11. ASSUME NEW j \in 1..n, NEW k \in 1..n, y[j] = y[k] PROVE j = k
  <2>1. i + j - 1 \in 1..L /\ i + k - 1 \in 1..L
    BY <1>1, <1>4
  <2>2. p[i + j - 1] = p[i + k - 1]
    BY <1>7, <1>11
  <2>3. i + j - 1 = i + k - 1
    BY <2>1, <2>2 DEF PathOK, p
  <2> QED BY <1>4, <2>3
<1>12. t \in ImportedFrom(ic.g, t)
  <2>1. ic.g \in [Mods -> SUBSET Mods] /\ t \in ic.g[p[Len(p)]]
    BY DEF CyclesShape, p
  <2>2. \A k \in 1..(Len(p) - 1) : p[k + 1] \in ic.g[p[k]]
    BY DEF PathOK, p
  <2>3. i \in 1..Len(p) /\ p \in Seq(Mods) /\ t = p[i]
    BY <1>1, <1>4
  <2> QED BY <2>1, <2>2, <2>3, PathImports
<1> HIDE DEF n
<1>13. /\ \A k \in 1..(Len(y) - 1) : y[k + 1] \in ic.g[y[k]]
       /\ \A j, k \in 1..(Len(y) - 1) : y[j] = y[k] => j = k
  BY <1>8, <1>10, <1>11
<1> QED BY <1>8, <1>9, <1>12, <1>13 DEF y

\* The next import of the last frame.
LEMMA LookOK ==
    ASSUME CyclesOK(ic), LookAtImport
    PROVE  CyclesOK(ic')
<1> DEFINE L == Len(ic.path)
           t == Head(Last(ic.rest))
           c == [ic EXCEPT !.rest[Len(ic.rest)] = Tail(@)]
<1>1. /\ ~ic.done /\ ic.path # <<>> /\ Last(ic.rest) # <<>> /\ CyclesShape(ic) /\ ic.cycle = <<>> /\ SearchOK(ic, {})
  BY DEF LookAtImport, CyclesOK
<1>2. /\ ic.path \in Seq(Mods) /\ L \in Nat /\ L >= 1 /\ ic.rest \in Seq(Seq(Mods)) /\ Len(ic.rest) = L /\ Last(ic.rest) = ic.rest[L]
  <2>1. ic.path \in Seq(Mods) /\ ic.rest \in Seq(Seq(Mods)) /\ Len(ic.rest) = L
    BY <1>1 DEF CyclesShape
  <2>2. \A s \in Seq(Mods) : s # <<>> => Len(s) \in Nat /\ Len(s) >= 1
    OBVIOUS
  <2> QED BY <1>1, <2>1, <2>2 DEF Last
<1>3. t \in Mods /\ Tail(ic.rest[L]) \in Seq(Mods) /\ Range(ic.rest[L]) = {t} \cup Range(Tail(ic.rest[L]))
  <2> DEFINE s == ic.rest[L]
  <2>1. s \in Seq(Mods) /\ s # <<>>
    BY <1>1, <1>2
  <2>2. t = Head(s)
    BY <1>2
  <2> HIDE DEF s, t
  <2>3. Head(s) \in Mods /\ Tail(s) \in Seq(Mods) /\ Range(s) = {Head(s)} \cup Range(Tail(s))
    BY <2>1, RangeTail
  <2> QED BY <2>2, <2>3 DEF s
<1>4. /\ c = [f \in IcFields |-> c[f]] /\ c.g = ic.g /\ c.todo = ic.todo /\ c.from = ic.from /\ c.visited = ic.visited
      /\ c.path = ic.path /\ c.rest = [ic.rest EXCEPT ![L] = Tail(ic.rest[L])] /\ c.cycle = ic.cycle /\ c.done = ic.done
  BY <1>1, <1>2 DEF CyclesShape, IcFields
<1>r. /\ c.rest \in Seq(Seq(Mods)) /\ Len(c.rest) = L /\ c.rest[L] = Tail(ic.rest[L])
      /\ \A k \in 1..L : k # L => c.rest[k] = ic.rest[k]
  <2> DEFINE T == Seq(Mods)
             s == ic.rest
             x == Tail(ic.rest[L])
             u == [s EXCEPT ![L] = x]
  <2>1. s \in Seq(T) /\ x \in T /\ Len(s) = L /\ L \in 1..Len(s) /\ c.rest = u
    BY <1>2, <1>3, <1>4
  <2> HIDE DEF T, s, x, c, L
  <2>2. u \in Seq(T) /\ Len(u) = Len(s) /\ u[L] = x /\ \A k \in 1..Len(s) : k # L => u[k] = s[k]
    BY <2>1
  <2> QED BY <2>1, <2>2 DEF T, s, x
<1>5. CASE t \in InStack
  <2>1. t \in ic.visited
    BY <1>1, <1>5 DEF InStack, SearchOK, PathOK, Range
  <2>2. ic' = [c EXCEPT !.done = TRUE, !.cycle = CycleFrom(t)]
    BY <1>5, <2>1 DEF LookAtImport
  <2>3. L \in 1..L
    BY <1>2
  <2>4. t \in ic.g[ic.path[L]]
    BY <1>1, <1>3, <2>3 DEF SearchOK, RestOK, FrameOK
  <2> DEFINE y == CycleFrom(t)
  <2>5. /\ y # <<>> /\ Len(y) >= 2 /\ y[1] = Last(y)
        /\ \A k \in 1..(Len(y) - 1) : y[k + 1] \in ic.g[y[k]]
        /\ \A j, k \in 1..(Len(y) - 1) : y[j] = y[k] => j = k
        /\ t \in ImportedFrom(ic.g, t)
    BY <1>1, <1>5, <2>4, ReportIs DEF SearchOK
  <2>6. t \in SearchedFrom(ic.g, ic.from)
    BY <1>1, <2>1 DEF SearchOK, StartsOK
  <2> HIDE DEF c, t, y
  <2>7. /\ ic' = [f \in IcFields |-> ic'[f]] /\ ic'.g = ic.g /\ ic'.todo = ic.todo /\ ic'.from = ic.from /\ ic'.visited = ic.visited
        /\ ic'.path = ic.path /\ ic'.rest = c.rest /\ ic'.cycle = y /\ ic'.done = TRUE
    BY <1>4, <2>2 DEF IcFields, y
  <2>8. c.rest \in Seq(Seq(Mods)) /\ Len(c.rest) = L
    BY <1>r
  <2>9. CyclesShape(ic')
    BY <1>1, <2>7, <2>8 DEF CyclesShape
  <2>10. CycleOK(ic')
    BY <2>5, <2>6, <2>7 DEF CycleOK
  <2> QED BY <2>5, <2>7, <2>9, <2>10 DEF CyclesOK
<1>6. CASE t \notin InStack
  <2>1. ic' = IF t \notin ic.visited THEN EnterModule(c, t) ELSE c
    BY <1>6 DEF LookAtImport
  <2> HIDE DEF c, t
  <2>2. /\ c.rest \in Seq(Seq(Mods)) /\ Len(c.rest) = L /\ c.rest[L] = Tail(ic.rest[L])
        /\ \A k \in 1..L : k # L => c.rest[k] = ic.rest[k]
    BY <1>r
  <2>3. CyclesShape(c)
    BY <1>1, <1>4, <2>2 DEF CyclesShape
  <2>4. PathOK(c) /\ FinishedOK(c) /\ Finished(c) = Finished(ic) /\ \A X : StartsOK(c, X)
    <3>1. \A X : StartsOK(ic, {}) => StartsOK(c, X)
      BY <1>4 DEF StartsOK
    <3> QED BY <1>1, <1>4, <3>1 DEF SearchOK, PathOK, FinishedOK, Finished
  <2>5. RestOK(c, {t})
    <3> SUFFICES ASSUME NEW k \in 1..L PROVE FrameOK(c, {t}, k)
      BY <1>4 DEF RestOK
    <3>1. FrameOK(ic, {}, k)
      BY <1>1 DEF SearchOK, RestOK
    <3>2. CASE k = L
      BY <1>3, <1>4, <2>2, <2>4, <3>1, <3>2 DEF FrameOK
    <3>3. CASE k # L
      BY <1>4, <2>2, <2>4, <3>1, <3>3 DEF FrameOK
    <3> QED BY <3>2, <3>3
  <2>6. t \in ic.g[ic.path[L]]
    <3>1. L \in 1..L
      BY <1>2
    <3> QED BY <1>1, <1>3, <3>1 DEF SearchOK, RestOK, FrameOK
  <2>7. CASE t \notin ic.visited
    <3>1. ic.path[L] \in ic.visited
      <4>1. L \in DOMAIN ic.path
        BY <1>2
      <4> QED BY <1>1, <4>1 DEF SearchOK, PathOK, Range
    <3>2. t \in SearchedFrom(ic.g, ic.from)
      <4>1. ic.g \in [Mods -> SUBSET Mods] /\ ic.from \in SUBSET Mods /\ ic.visited \subseteq SearchedFrom(ic.g, ic.from)
        BY <1>1 DEF CyclesShape, SearchOK, StartsOK
      <4> QED BY <2>6, <3>1, <4>1, SearchedIs DEF ClosedUnder
    <3>3. SearchOK(c, {t})
      BY <2>4, <2>5 DEF SearchOK
    <3> QED BY <1>1, <1>3, <1>4, <2>1, <2>3, <2>6, <2>7, <3>2, <3>3, EnterOK
  <2>8. CASE t \in ic.visited
    <3>1. t \in Finished(c)
      BY <1>4, <1>6, <2>8 DEF Finished, InStack, Range
    <3>2. RestOK(c, {})
      BY <2>5, <3>1 DEF RestOK, FrameOK
    <3>3. SearchOK(c, {})
      BY <2>4, <3>2 DEF SearchOK
    <3> QED BY <1>1, <1>4, <2>1, <2>3, <2>8, <3>3 DEF CyclesOK
  <2> QED BY <2>7, <2>8
<1> QED BY <1>5, <1>6

\* Every step keeps the invariant.
LEMMA CyclesStep == CyclesInv /\ [CyclesNext]_ic => CyclesInv'
<1> SUFFICES ASSUME CyclesOK(ic), CyclesNext \/ ic' = ic PROVE CyclesOK(ic')
  BY DEF CyclesInv
<1>1. CASE DetectCycles
  BY <1>1, DetectOK
<1>2. CASE LookAtImport
  BY <1>2, LookOK
<1>3. CASE LeaveModule
  BY <1>3, LeaveOK
<1>4. CASE ic' = ic
  BY <1>4
<1> QED BY <1>1, <1>2, <1>3, <1>4 DEF CyclesNext

\* For every program: the search reports a cycle if and only if the modules it can
\* reach have one, and what it reports is one.
THEOREM CyclesAreFound == CyclesSpec => []CyclesFound
<1>1. CyclesInv => CyclesFound
  <2> SUFFICES ASSUME CyclesOK(ic) PROVE CyclesFound
    BY DEF CyclesInv
  <2>1. ReportedCycleIsReal
    BY DEF CyclesOK, CycleOK, ReportedCycleIsReal
  <2>2. CASE ic.cycle # <<>>
    <3>1. \E md \in Searched : md \in ImportsOf(md)
      BY <2>2 DEF CyclesOK, CycleOK, Searched, ImportsOf
    <3> QED BY <2>1, <2>2, <3>1 DEF CyclesFound, NoErrorMeansAcyclic
  <2>3. CASE ic.cycle = <<>> /\ ic.done
    <3>1. CyclesShape(ic) /\ SearchOK(ic, {}) /\ ic.path = <<>> /\ ic.todo = <<>>
      BY <2>3 DEF CyclesOK
    <3>2. Range(ic.path) = {} /\ Range(ic.todo) = {}
      BY <3>1 DEF Range
    <3>3. Finished(ic) = ic.visited /\ ic.from \subseteq ic.visited
      BY <3>1, <3>2 DEF Finished, SearchOK, StartsOK
    <3>4. ClosedUnder(ic.g, ic.visited) /\ \A md \in ic.visited : md \notin ImportedFrom(ic.g, md)
      BY <3>1, <3>3 DEF SearchOK, FinishedOK, ClosedUnder
    <3>5. Searched \subseteq ic.visited
      <4> DEFINE S == ic.visited
                 g == ic.g
                 from == ic.from
      <4>1. S \in SUBSET Mods /\ g \in [Mods -> SUBSET Mods] /\ from \in SUBSET Mods /\ from \subseteq S /\ ClosedUnder(g, S)
        BY <3>1, <3>3, <3>4 DEF CyclesShape
      <4> HIDE DEF S, g, from
      <4>2. SearchedFrom(g, from) \subseteq S
        BY <4>1, SearchedIs
      <4> QED BY <4>2 DEF Searched, S, g, from
    <3> QED BY <2>1, <2>3, <3>4, <3>5 DEF CyclesFound, NoErrorMeansAcyclic, ImportsOf
  <2>4. CASE ~ic.done
    BY <2>1, <2>4 DEF CyclesFound, NoErrorMeansAcyclic
  <2> QED BY <2>2, <2>3, <2>4
<1> QED BY <1>1, CyclesStarts, CyclesStep, PTL DEF CyclesSpec

-----------------------------------------------------------------------------
\* doo run and its cache.

\* What the fields hold, whatever the user does.
BuildFields == {"src", "lib", "found", "comp", "now", "dir", "man", "exe", "run", "causes", "ops", "located", "check"}
RunFields == {"step", "entry", "seen", "changed", "temp", "cached", "stale"}
ExeFields == {"code", "lib", "comp", "at"}
BuildSteps == {"decide", "compile", "keep", "save"}
IsExe(x) == x = [f \in ExeFields |-> x[f]]
RunShape(x) == /\ x = [f \in RunFields |-> x[f]] /\ IsExe(x.temp)
               /\ x.step # "idle" => x.entry \in Entries
BuildShape(s) ==
    /\ s = [f \in BuildFields |-> s[f]]
    /\ s.src \in [Sources -> Texts \cup {Gone}]
    /\ s.run = [r \in Runners |-> s.run[r]] /\ \A r \in Runners : RunShape(s.run[r])
    /\ s.exe = [e \in Entries |-> s.exe[e]] /\ \A e \in Entries : IsExe(s.exe[e])
\* Time goes on.
BuildClock(s) ==
    /\ s.now \in Nat /\ s.lib.at \in Nat /\ s.lib.at < s.now
    /\ \A e \in Entries : s.exe[e].at \in Nat /\ s.exe[e].at < s.now
\* Only code without errors gets as far as an executable.
RunSound(x) == x.step \in {"keep", "save", "spawn"} => SoundCode(x.temp.code)
ExeSound(x) == x # NoExe => SoundCode(x.code)
ExesSound(s) == (\A e \in Entries : ExeSound(s.exe[e])) /\ \A r \in Runners : RunSound(s.run[r])

\* While none of the causes has come up: no file is gone, a build under way saw the
\* files as they are, and what it has compiled is what they say;
ManifestAgrees(s) == s.man.comp = s.comp /\ \A f \in Sources : f \in DOMAIN s.man.hash /\ s.man.hash[f] = s.src[f].v
IsCurrent(s, x, e) == x.code = Program(e, s.src) /\ x.comp = s.comp
RunCurrent(s, x) ==
    /\ x.step \in BuildSteps => x.seen = s.src
    /\ x.step = "decide" /\ ~x.changed => ManifestAgrees(s)
    /\ x.step = "keep" => IsCurrent(s, x.temp, x.entry) /\ x.temp.lib = s.lib.v
    /\ x.step = "save" /\ s.exe[x.entry] # NoExe => IsCurrent(s, s.exe[x.entry], x.entry)
    /\ ~x.stale
BuildsCurrent(s) == s.src \in [Sources -> Texts] /\ \A r \in Runners : RunCurrent(s, s.run[r])
\* an executable in the cache is what the manifest describes, or one whose manifest
\* is about to be saved; and its age tells whether its libraries are the current ones.
Described(s, e) ==
    /\ s.exe[e].comp = s.man.comp
    /\ \E t \in [Sources -> Texts] : s.man.hash = HashOf(t) /\ s.exe[e].code = Program(e, t)
InHand(s, e) == \E r \in Runners : s.run[r].step = "save" /\ s.run[r].entry = e
LibKnown(s, x) == s.lib.at <= x.at => x.lib = s.lib.v
CacheDescribed(s) ==
    \A e \in Entries : s.exe[e] # NoExe => (Described(s, e) \/ InHand(s, e)) /\ LibKnown(s, s.exe[e])
BuildOK(s) ==
    /\ BuildShape(s) /\ BuildClock(s) /\ ExesSound(s)
    /\ s.causes = {} => BuildsCurrent(s) /\ CacheDescribed(s)

\* A run that is over.
LEMMA IdleIs ==
    /\ RunShape(IdleRun) /\ RunSound(IdleRun) /\ IsExe(NoExe) /\ NoExe.at = 0
    /\ \A s : RunCurrent(s, IdleRun)
<1>1. /\ IdleRun.step = "idle" /\ IdleRun.stale = FALSE /\ IdleRun.temp = NoExe
      /\ IdleRun = [f \in RunFields |-> IdleRun[f]]
  BY DEF IdleRun, RunFields
<1>2. IsExe(NoExe) /\ NoExe.at = 0
  BY DEF NoExe, IsExe, ExeFields
<1> QED BY <1>1, <1>2 DEF RunShape, RunSound, RunCurrent, BuildSteps

\* A cause is noted, and nothing else is changed.
LEMMA BecauseIs ==
    ASSUME NEW s, s = [f \in BuildFields |-> s[f]], NEW c \in BOOLEAN, NEW why, NEW b, b = Because(s, c, why)
    PROVE  /\ b = [f \in BuildFields |-> b[f]]
           /\ b.src = s.src /\ b.lib = s.lib /\ b.comp = s.comp /\ b.now = s.now /\ b.man = s.man
           /\ b.exe = s.exe /\ b.run = s.run /\ b.located = s.located
           /\ b.causes = {} => s.causes = {} /\ ~c
  BY DEF Because, BuildFields

\* A step of one run that leaves the files and the cache alone.
LEMMA RunOnly ==
    ASSUME NEW s, NEW t, NEW r \in Runners, NEW x, BuildOK(s),
           t = [f \in BuildFields |-> t[f]], t.run = [s.run EXCEPT ![r] = x],
           t.src = s.src, t.lib = s.lib, t.comp = s.comp, t.now = s.now, t.man = s.man, t.exe = s.exe, t.causes = s.causes,
           RunShape(x), RunSound(x), s.causes = {} => RunCurrent(s, x), s.run[r].step # "save"
    PROVE  BuildOK(t)
<1>1. t.run = [q \in Runners |-> t.run[q]] /\ \A q \in Runners : t.run[q] = IF q = r THEN x ELSE s.run[q]
  BY DEF BuildOK, BuildShape
<1>2. BuildShape(t)
  BY <1>1 DEF BuildOK, BuildShape
<1>3. BuildClock(t)
  BY DEF BuildOK, BuildClock
<1>4. ExesSound(t)
  BY <1>1 DEF BuildOK, ExesSound
<1>5. ASSUME t.causes = {} PROVE BuildsCurrent(t)
  <2>1. BuildsCurrent(s) /\ RunCurrent(s, x)
    BY <1>5 DEF BuildOK
  <2>2. \A q \in Runners : RunCurrent(s, t.run[q])
    BY <1>1, <2>1 DEF BuildsCurrent
  <2>3. \A y : RunCurrent(s, y) => RunCurrent(t, y)
    BY DEF RunCurrent, ManifestAgrees, IsCurrent
  <2> QED BY <2>1, <2>2, <2>3 DEF BuildsCurrent
<1>6. ASSUME t.causes = {} PROVE CacheDescribed(t)
  <2>1. CacheDescribed(s)
    BY <1>6 DEF BuildOK
  <2>2. \A e \in Entries : (Described(s, e) => Described(t, e)) /\ (InHand(s, e) => InHand(t, e))
    BY <1>1 DEF Described, InHand
  <2> QED BY <2>1, <2>2 DEF CacheDescribed, LibKnown
<1> QED BY <1>2, <1>3, <1>4, <1>5, <1>6 DEF BuildOK

\* A change by the user while nothing is being built.
LEMMA UserChange ==
    ASSUME NEW s, NEW t, BuildOK(s), t = [f \in BuildFields |-> t[f]],
           t.run = s.run, t.man = s.man, t.exe = s.exe, t.now \in Nat, s.now <= t.now,
           t.src \in [Sources -> Texts \cup {Gone}], t.lib.at \in Nat, t.lib.at < t.now,
           t.lib = s.lib \/ s.now <= t.lib.at,
           t.causes = {} => s.causes = {} /\ ~Building(s) /\ t.src \in [Sources -> Texts]
    PROVE  BuildOK(t)
<1>1. BuildShape(t)
  BY DEF BuildOK, BuildShape
<1>2. BuildClock(t)
  BY DEF BuildOK, BuildClock
<1>3. ExesSound(t)
  BY DEF BuildOK, ExesSound
<1>4. ASSUME t.causes = {} PROVE BuildsCurrent(t) /\ CacheDescribed(t)
  <2>1. BuildsCurrent(s) /\ CacheDescribed(s) /\ ~Building(s) /\ t.src \in [Sources -> Texts]
    BY <1>4 DEF BuildOK
  <2>2. \A r \in Runners : s.run[r].step \notin BuildSteps /\ s.run[r].step \notin {"decide", "keep", "save"}
    BY <2>1 DEF Building, BuildSteps
  <2>3. BuildsCurrent(t)
    BY <2>1, <2>2 DEF BuildsCurrent, RunCurrent
  <2>4. \A e \in Entries : s.exe[e] # NoExe => Described(t, e)
    BY <2>1, <2>2 DEF CacheDescribed, InHand, Described
  <2>5. \A e \in Entries : s.exe[e] # NoExe => LibKnown(t, t.exe[e])
    <3> SUFFICES ASSUME NEW e \in Entries, s.exe[e] # NoExe PROVE LibKnown(t, t.exe[e])
      OBVIOUS
    <3>1. s.exe[e].at \in Nat /\ s.exe[e].at < s.now /\ s.now \in Nat /\ LibKnown(s, s.exe[e])
      BY <2>1 DEF BuildOK, BuildClock, CacheDescribed
    <3> QED BY <3>1 DEF LibKnown
  <2> QED BY <2>3, <2>4, <2>5 DEF CacheDescribed
<1> QED BY <1>1, <1>2, <1>3, <1>4 DEF BuildOK

\* What the user does to the files, the libraries and the compiler.
LEMMA EditOK ==
    ASSUME BuildOK(bd), NEW f \in Sources, NEW t \in Texts \cup {Gone}, Edit(f, t)
    PROVE  BuildOK(bd') /\ bd'.located = bd.located
<1> DEFINE a == [bd EXCEPT !.ops = @ + 1, !.src[f] = t]
           b == Because(a, Building(bd), "changed_during_build")
<1>1. /\ a = [g \in BuildFields |-> a[g]] /\ a.src = [bd.src EXCEPT ![f] = t] /\ a.lib = bd.lib /\ a.comp = bd.comp /\ a.now = bd.now
      /\ a.man = bd.man /\ a.exe = bd.exe /\ a.run = bd.run /\ a.located = bd.located /\ a.causes = bd.causes
  BY DEF BuildOK, BuildShape, BuildFields
<1>2. Building(bd) \in BOOLEAN /\ (t = Gone) \in BOOLEAN
  BY DEF Building
<1>3. bd' = Because(b, t = Gone, "removed_file")
  BY DEF Edit
<1>0. b = Because(a, Building(bd), "changed_during_build")
  OBVIOUS
<1> HIDE DEF a, b
<1>4. /\ b = [g \in BuildFields |-> b[g]]
      /\ b.src = a.src /\ b.lib = a.lib /\ b.comp = a.comp /\ b.now = a.now /\ b.man = a.man
      /\ b.exe = a.exe /\ b.run = a.run /\ b.located = a.located
      /\ b.causes = {} => a.causes = {} /\ ~Building(bd)
  BY <1>0, <1>1, <1>2, BecauseIs
<1>5. /\ bd' = [g \in BuildFields |-> bd'[g]]
      /\ bd'.src = b.src /\ bd'.lib = b.lib /\ bd'.comp = b.comp /\ bd'.now = b.now /\ bd'.man = b.man
      /\ bd'.exe = b.exe /\ bd'.run = b.run /\ bd'.located = b.located
      /\ bd'.causes = {} => b.causes = {} /\ t # Gone
  <2> DEFINE c == t = Gone
  <2>1. bd' = Because(b, c, "removed_file") /\ c \in BOOLEAN
    BY <1>3
  <2> HIDE DEF c
  <2>2. /\ bd' = [g \in BuildFields |-> bd'[g]]
        /\ bd'.src = b.src /\ bd'.lib = b.lib /\ bd'.comp = b.comp /\ bd'.now = b.now /\ bd'.man = b.man
        /\ bd'.exe = b.exe /\ bd'.run = b.run /\ bd'.located = b.located
        /\ bd'.causes = {} => b.causes = {} /\ ~c
    BY <1>4, <2>1, BecauseIs
  <2> QED BY <2>2 DEF c
<1>6. bd.src \in [Sources -> Texts \cup {Gone}] /\ (bd.causes = {} => bd.src \in [Sources -> Texts])
  BY DEF BuildOK, BuildShape, BuildsCurrent
<1>7. bd'.src \in [Sources -> Texts \cup {Gone}] /\ (bd'.causes = {} => bd'.src \in [Sources -> Texts])
  BY <1>1, <1>4, <1>5, <1>6
<1>8. bd.now \in Nat /\ bd.lib.at \in Nat /\ bd.lib.at < bd.now
  BY DEF BuildOK, BuildClock
<1> QED BY <1>1, <1>4, <1>5, <1>7, <1>8, UserChange

\* The libraries are built anew: later than every executable in the cache.
LEMMA RebuildLibOK ==
    ASSUME BuildOK(bd), RebuildLib
    PROVE  BuildOK(bd') /\ bd'.located = bd.located
<1> DEFINE a == [bd EXCEPT !.ops = @ + 1, !.lib = [v |-> @.v + 1, at |-> bd.now], !.now = @ + 1]
<1>1. /\ a = [g \in BuildFields |-> a[g]] /\ a.src = bd.src /\ a.lib.at = bd.now /\ a.comp = bd.comp /\ a.now = bd.now + 1
      /\ a.man = bd.man /\ a.exe = bd.exe /\ a.run = bd.run /\ a.located = bd.located /\ a.causes = bd.causes
  BY DEF BuildOK, BuildShape, BuildFields
<1>2. Building(bd) \in BOOLEAN
  BY DEF Building
<1>3. bd' = Because(a, Building(bd), "changed_during_build")
  BY DEF RebuildLib
<1> HIDE DEF a
<1>4. /\ bd' = [g \in BuildFields |-> bd'[g]]
      /\ bd'.src = a.src /\ bd'.lib = a.lib /\ bd'.comp = a.comp /\ bd'.now = a.now /\ bd'.man = a.man
      /\ bd'.exe = a.exe /\ bd'.run = a.run /\ bd'.located = a.located
      /\ bd'.causes = {} => a.causes = {} /\ ~Building(bd)
  BY <1>1, <1>2, <1>3, BecauseIs
<1>5. /\ bd.src \in [Sources -> Texts \cup {Gone}] /\ (bd.causes = {} => bd.src \in [Sources -> Texts])
      /\ bd.now \in Nat
  BY DEF BuildOK, BuildShape, BuildsCurrent, BuildClock
<1>6. bd'.now \in Nat /\ bd.now <= bd'.now /\ bd'.lib.at \in Nat /\ bd'.lib.at < bd'.now /\ bd.now <= bd'.lib.at
  BY <1>1, <1>4, <1>5
<1> QED BY <1>1, <1>4, <1>5, <1>6, UserChange

\* Another compiler.
LEMMA UpgradeOK ==
    ASSUME BuildOK(bd), UpgradeCompiler
    PROVE  BuildOK(bd') /\ bd'.located = bd.located
<1> DEFINE a == [bd EXCEPT !.ops = @ + 1, !.comp = @ + 1]
<1>1. /\ a = [g \in BuildFields |-> a[g]] /\ a.src = bd.src /\ a.lib = bd.lib /\ a.now = bd.now
      /\ a.man = bd.man /\ a.exe = bd.exe /\ a.run = bd.run /\ a.located = bd.located /\ a.causes = bd.causes
  BY DEF BuildOK, BuildShape, BuildFields
<1>2. Building(bd) \in BOOLEAN
  BY DEF Building
<1>3. bd' = Because(a, Building(bd), "changed_during_build")
  BY DEF UpgradeCompiler
<1> HIDE DEF a
<1>4. /\ bd' = [g \in BuildFields |-> bd'[g]]
      /\ bd'.src = a.src /\ bd'.lib = a.lib /\ bd'.comp = a.comp /\ bd'.now = a.now /\ bd'.man = a.man
      /\ bd'.exe = a.exe /\ bd'.run = a.run /\ bd'.located = a.located
      /\ bd'.causes = {} => a.causes = {} /\ ~Building(bd)
  BY <1>1, <1>2, <1>3, BecauseIs
<1>5. /\ bd.src \in [Sources -> Texts \cup {Gone}] /\ (bd.causes = {} => bd.src \in [Sources -> Texts])
      /\ bd.now \in Nat /\ bd.lib.at \in Nat /\ bd.lib.at < bd.now
  BY DEF BuildOK, BuildShape, BuildsCurrent, BuildClock
<1> QED BY <1>1, <1>4, <1>5, UserChange

\* The cache is emptied.
LEMMA CleanOK ==
    ASSUME BuildOK(bd), CleanCommand
    PROVE  BuildOK(bd') /\ bd'.located = bd.located
<1> DEFINE a == [bd EXCEPT !.ops = @ + 1, !.dir = FALSE, !.man = [hash |-> <<>>, comp |-> 0], !.exe = [e \in Entries |-> NoExe]]
<1>1. /\ a = [g \in BuildFields |-> a[g]] /\ a.src = bd.src /\ a.lib = bd.lib /\ a.now = bd.now
      /\ a.exe = [e \in Entries |-> NoExe] /\ a.run = bd.run /\ a.located = bd.located /\ a.causes = bd.causes
  BY DEF BuildOK, BuildShape, BuildFields
<1>2. Building(bd) \in BOOLEAN
  BY DEF Building
<1>3. bd' = Because(a, Building(bd), "changed_during_build")
  BY DEF CleanCommand
<1> HIDE DEF a
<1>4. /\ bd' = [g \in BuildFields |-> bd'[g]]
      /\ bd'.src = a.src /\ bd'.lib = a.lib /\ bd'.comp = a.comp /\ bd'.now = a.now /\ bd'.man = a.man
      /\ bd'.exe = a.exe /\ bd'.run = a.run /\ bd'.located = a.located
      /\ bd'.causes = {} => a.causes = {} /\ ~Building(bd)
  BY <1>1, <1>2, <1>3, BecauseIs
<1>5. BuildShape(bd')
  BY <1>1, <1>4, IdleIs, SMTT(30) DEF BuildOK, BuildShape
<1>6. BuildClock(bd')
  BY <1>1, <1>4, IdleIs DEF BuildOK, BuildClock
<1>7. ExesSound(bd')
  BY <1>1, <1>4 DEF BuildOK, ExesSound, ExeSound
<1>8. ASSUME bd'.causes = {} PROVE BuildsCurrent(bd') /\ CacheDescribed(bd')
  <2>1. BuildsCurrent(bd) /\ ~Building(bd)
    BY <1>1, <1>4, <1>8 DEF BuildOK
  <2>2. \A r \in Runners : bd.run[r].step \notin BuildSteps /\ bd.run[r].step \notin {"decide", "keep", "save"}
    BY <2>1 DEF Building, BuildSteps
  <2>3. BuildsCurrent(bd')
    BY <1>1, <1>4, <2>1, <2>2 DEF BuildsCurrent, RunCurrent
  <2> QED BY <1>1, <1>4, <2>3 DEF CacheDescribed
<1> QED BY <1>1, <1>4, <1>5, <1>6, <1>7, <1>8 DEF BuildOK

\* Steps that touch none of this.
LEMMA SameOK ==
    ASSUME NEW s, NEW t, BuildOK(s), t = [f \in BuildFields |-> t[f]],
           t.src = s.src, t.lib = s.lib, t.comp = s.comp, t.now = s.now, t.man = s.man, t.exe = s.exe,
           t.run = s.run, t.causes = s.causes
    PROVE  BuildOK(t)
<1>1. BuildShape(t) /\ BuildClock(t) /\ ExesSound(t)
  BY DEF BuildOK, BuildShape, BuildClock, ExesSound
<1>2. \A x : RunCurrent(s, x) => RunCurrent(t, x)
  BY DEF RunCurrent, ManifestAgrees, IsCurrent
<1>3. BuildsCurrent(s) => BuildsCurrent(t)
  BY <1>2 DEF BuildsCurrent
<1>4. CacheDescribed(s) => CacheDescribed(t)
  BY SMTT(30) DEF CacheDescribed, Described, InHand, LibKnown
<1> QED BY <1>1, <1>3, <1>4 DEF BuildOK

\* doo check, and finding the program.
LEMMA CheckOK ==
    ASSUME BuildOK(bd), NEW e \in Entries, CheckCommand(e)
    PROVE  BuildOK(bd') /\ bd'.located = bd.located
<1>1. /\ bd' = [g \in BuildFields |-> bd'[g]] /\ bd'.src = bd.src /\ bd'.lib = bd.lib /\ bd'.comp = bd.comp /\ bd'.now = bd.now
      /\ bd'.man = bd.man /\ bd'.exe = bd.exe /\ bd'.run = bd.run /\ bd'.located = bd.located /\ bd'.causes = bd.causes
  BY DEF BuildOK, BuildShape, BuildFields, CheckCommand
<1> QED BY <1>1, SameOK

\* Finding the program fills in where it is.
LEMMA LocateOK ==
    ASSUME BuildOK(bd), Locate
    PROVE  /\ BuildOK(bd')
           /\ bd'.located = [bd.located EXCEPT !.at = Located(bd.located.l), !.done = TRUE]
<1>1. /\ bd' = [g \in BuildFields |-> bd'[g]] /\ bd'.src = bd.src /\ bd'.lib = bd.lib /\ bd'.comp = bd.comp /\ bd'.now = bd.now
      /\ bd'.man = bd.man /\ bd'.exe = bd.exe /\ bd'.run = bd.run /\ bd'.causes = bd.causes
      /\ bd'.located = [bd.located EXCEPT !.at = Located(bd.located.l), !.done = TRUE]
  BY DEF BuildOK, BuildShape, BuildFields, Locate
<1> QED BY <1>1, SameOK

\* A run starts: what it hashed is what is there, and it sees no change only if the
\* manifest agrees with it.
LEMMA BeginOK ==
    ASSUME BuildOK(bd), NEW r \in Runners, NEW e \in Entries, BeginRun(r, e)
    PROVE  BuildOK(bd') /\ bd'.located = bd.located
<1> DEFINE x == [IdleRun EXCEPT !.step = "decide", !.entry = e, !.seen = bd.src, !.changed = HasChanges(bd)]
<1>1. /\ bd' = [g \in BuildFields |-> bd'[g]] /\ bd'.src = bd.src /\ bd'.lib = bd.lib /\ bd'.comp = bd.comp /\ bd'.now = bd.now
      /\ bd'.man = bd.man /\ bd'.exe = bd.exe /\ bd'.run = [bd.run EXCEPT ![r] = x] /\ bd'.located = bd.located /\ bd'.causes = bd.causes
  BY DEF BuildOK, BuildShape, BuildFields, BeginRun
<1>2. /\ x = [f \in RunFields |-> x[f]] /\ x.step = "decide" /\ x.entry = e /\ x.seen = bd.src /\ x.changed = HasChanges(bd)
      /\ x.temp = NoExe /\ x.stale = FALSE
  BY DEF IdleRun, RunFields
<1>3. bd.run[r].step = "idle"
  BY DEF BeginRun
<1> HIDE DEF x
<1>4. RunShape(x) /\ RunSound(x)
  BY <1>2, IdleIs DEF RunShape, RunSound
<1>5. ASSUME bd.causes = {} PROVE RunCurrent(bd, x)
  <2>1. bd.src \in [Sources -> Texts]
    BY <1>5 DEF BuildOK, BuildsCurrent
  <2>2. DiscoverDooSources(bd.src) = Sources
    BY <2>1, BuildInputs DEF DiscoverDooSources
  <2>3. ~HasChanges(bd) => ManifestAgrees(bd)
    BY <2>2 DEF HasChanges, NeedsRebuild, LoadManifest, ManifestAgrees
  <2> QED BY <1>2, <2>3 DEF RunCurrent
<1> QED BY <1>1, <1>3, <1>4, <1>5, RunOnly

\* The program has ended, or did not start.
LEMMA SpawnOK ==
    ASSUME BuildOK(bd), NEW r \in Runners, SpawnAndWait(r)
    PROVE  BuildOK(bd') /\ bd'.located = bd.located
<1>1. /\ bd' = [g \in BuildFields |-> bd'[g]] /\ bd'.src = bd.src /\ bd'.lib = bd.lib /\ bd'.comp = bd.comp /\ bd'.now = bd.now
      /\ bd'.man = bd.man /\ bd'.exe = bd.exe /\ bd'.run = [bd.run EXCEPT ![r] = IdleRun] /\ bd'.located = bd.located /\ bd'.causes = bd.causes
  BY DEF BuildOK, BuildShape, BuildFields, SpawnAndWait
<1>2. bd.run[r].step # "save"
  BY DEF SpawnAndWait
<1> QED BY <1>1, <1>2, IdleIs, RunOnly

\* The manifest agrees with the files: an executable it describes was made from them.
LEMMA AgreedIsCurrent ==
    ASSUME NEW s, BuildOK(s), s.causes = {}, ManifestAgrees(s), NEW e \in Entries, s.exe[e] # NoExe
    PROVE  IsCurrent(s, s.exe[e], e)
<1>1. BuildsCurrent(s) /\ CacheDescribed(s)
  BY DEF BuildOK
<1>2. CASE InHand(s, e)
  <2>1. PICK r \in Runners : s.run[r].step = "save" /\ s.run[r].entry = e
    BY <1>2 DEF InHand
  <2> QED BY <1>1, <2>1 DEF BuildsCurrent, RunCurrent
<1>3. CASE Described(s, e)
  <2>1. PICK t \in [Sources -> Texts] : s.man.hash = HashOf(t) /\ s.exe[e].code = Program(e, t)
    BY <1>3 DEF Described
  <2>2. DiscoverDooSources(t) = Sources
    BY <2>1, BuildInputs DEF DiscoverDooSources
  <2>3. \A f \in Sources : s.man.hash[f] = t[f].v
    BY <2>1, <2>2 DEF HashOf
  <2>4. s.src \in [Sources -> Texts]
    BY <1>1 DEF BuildsCurrent
  <2>5. \A f \in Sources : t[f] = s.src[f]
    BY <2>3, <2>4, BuildInputs DEF ManifestAgrees
  <2>6. t = s.src
    BY <2>1, <2>4, <2>5
  <2> QED BY <1>3, <2>1, <2>6 DEF Described, ManifestAgrees, IsCurrent
<1> QED BY <1>1, <1>2, <1>3 DEF CacheDescribed

\* The cached executable is taken, or not.
LEMMA TryCacheOK ==
    ASSUME BuildOK(bd), NEW r \in Runners, NEW ok \in BOOLEAN, TryCache(r, ok)
    PROVE  BuildOK(bd') /\ bd'.located = bd.located
<1> DEFINE me == bd.run[r]
           x == bd.exe[me.entry]
           st == IsStale(bd, x, me.entry, me.seen)
           hit == [me EXCEPT !.step = "spawn", !.temp = x, !.cached = TRUE, !.stale = st]
           miss == [me EXCEPT !.step = "compile"]
           use == /\ ~me.changed /\ ~FfiLibsStale(bd, me.entry) /\ x # NoExe
                  /\ DiscoverDooSources(me.seen) # {} /\ ok
<1>1. me.step = "decide" /\ me = [f \in RunFields |-> me[f]] /\ me.entry \in Entries /\ IsExe(me.temp) /\ IsExe(x)
  BY DEF TryCache, BuildOK, BuildShape, RunShape
<1>2. CASE use
  <2>1. /\ bd' = [g \in BuildFields |-> bd'[g]] /\ bd'.src = bd.src /\ bd'.lib = bd.lib /\ bd'.comp = bd.comp /\ bd'.now = bd.now
        /\ bd'.man = bd.man /\ bd'.exe = bd.exe /\ bd'.run = [bd.run EXCEPT ![r] = hit] /\ bd'.located = bd.located /\ bd'.causes = bd.causes
    <3>1. bd' = [bd EXCEPT !.run[r] = hit]
      BY <1>2 DEF TryCache
    <3> HIDE DEF hit
    <3> QED BY <3>1 DEF BuildOK, BuildShape, BuildFields
  <2>2. /\ hit = [f \in RunFields |-> hit[f]] /\ hit.step = "spawn" /\ hit.entry = me.entry /\ hit.temp = x
        /\ hit.stale = st
    BY <1>1 DEF RunFields
  <2>3. SoundCode(x.code)
    BY <1>1, <1>2 DEF BuildOK, ExesSound, ExeSound
  <2>4. ASSUME bd.causes = {} PROVE ~st
    <3>1. RunCurrent(bd, me) /\ CacheDescribed(bd)
      BY <2>4 DEF BuildOK, BuildsCurrent
    <3>2. ManifestAgrees(bd) /\ me.seen = bd.src
      BY <1>1, <1>2, <3>1 DEF RunCurrent, BuildSteps
    <3>3. IsCurrent(bd, x, me.entry)
      BY <1>1, <1>2, <2>4, <3>2, AgreedIsCurrent
    <3>4. bd.lib.at \in Nat /\ x.at \in Nat
      BY <1>1 DEF BuildOK, BuildClock
    <3>5. x.lib = bd.lib.v
      <4>1. ~(bd.lib.at > x.at) /\ x # NoExe
        BY <1>2 DEF FfiLibsStale
      <4>2. bd.lib.at <= x.at => x.lib = bd.lib.v
        BY <1>1, <3>1, <4>1 DEF CacheDescribed, LibKnown
      <4> HIDE DEF x
      <4> QED BY <3>4, <4>1, <4>2
    <3> QED BY <3>2, <3>3, <3>5 DEF IsStale, IsCurrent
  <2> HIDE DEF hit, x, st
  <2>5. RunShape(hit) /\ RunSound(hit)
    BY <1>1, <2>2, <2>3 DEF RunShape, RunSound
  <2>6. bd.causes = {} => RunCurrent(bd, hit)
    BY <2>2, <2>4 DEF RunCurrent, BuildSteps
  <2> QED BY <1>1, <2>1, <2>5, <2>6, RunOnly
<1>3. CASE ~use
  <2>1. /\ bd' = [g \in BuildFields |-> bd'[g]] /\ bd'.src = bd.src /\ bd'.lib = bd.lib /\ bd'.comp = bd.comp /\ bd'.now = bd.now
        /\ bd'.man = bd.man /\ bd'.exe = bd.exe /\ bd'.run = [bd.run EXCEPT ![r] = miss] /\ bd'.located = bd.located /\ bd'.causes = bd.causes
    <3>1. bd' = [bd EXCEPT !.run[r].step = "compile"]
      BY <1>3 DEF TryCache
    <3> QED BY <3>1 DEF BuildOK, BuildShape, BuildFields
  <2>2. /\ miss = [f \in RunFields |-> miss[f]] /\ miss.step = "compile" /\ miss.entry = me.entry /\ miss.temp = me.temp
        /\ miss.stale = me.stale /\ miss.seen = me.seen
    BY <1>1 DEF RunFields
  <2>3. bd.causes = {} => RunCurrent(bd, me)
    BY DEF BuildOK, BuildsCurrent
  <2> HIDE DEF miss
  <2>5. RunShape(miss) /\ RunSound(miss)
    BY <1>1, <2>2 DEF RunShape, RunSound
  <2>6. bd.causes = {} => RunCurrent(bd, miss)
    BY <1>1, <2>2, <2>3 DEF RunCurrent, BuildSteps
  <2> QED BY <1>1, <2>1, <2>5, <2>6, RunOnly
<1> QED BY <1>2, <1>3

\* An executable comes out of the compiler only without an error.
LEMMA CompiledIsSound ==
    ASSUME NEW code, NEW found, Defects(code) \subseteq AllDefects, CompileProject(code, FALSE, found) = "exe"
    PROVE  SoundCode(code)
<1> DEFINE d == Defects(code)
<1>1. /\ ~NoSuchInput(code) /\ ParsePhase(d) # "failed" /\ AnalysisPhase(d) # "failed"
      /\ MirPhase(d) # "failed" /\ CodegenPhase(d) # "failed" /\ CompileToObject(d) # "failed"
  BY DEF CompileProject
<1> HIDE DEF d
<1>2. /\ "fatal_syntax" \notin d /\ d \cap Analyses = {} /\ d \cap {"query", "invalid_mir", "no_main"} = {}
      /\ "verify" \notin d /\ "object" \notin d
  BY <1>1 DEF ParsePhase, AnalysisPhase, MirPhase, CodegenPhase, CompileToObject
<1>3. d \subseteq AllDefects
  BY DEF d
<1>4. d \subseteq Harmless
  BY <1>2, <1>3 DEF AllDefects
<1> QED BY <1>1, <1>4 DEF SoundCode, d

\* The files of an entry point have no other defects than those.
LEMMA ProgramDefects ==
    ASSUME NEW e \in Entries, NEW s \in [Sources -> Texts \cup {Gone}]
    PROVE  Defects(Program(e, s)) \subseteq AllDefects
<1>1. Uses[e] \subseteq Sources
  BY DEF Sources
<1>2. \A t \in Texts \cup {Gone} : t.bad \subseteq AllDefects
  BY BuildInputs DEF Gone
<1>3. DOMAIN Program(e, s) = Uses[e] /\ \A f \in Uses[e] : Program(e, s)[f] = s[f]
  BY DEF Program
<1>4. \A f \in Uses[e] : Program(e, s)[f].bad \subseteq AllDefects
  BY <1>1, <1>2, <1>3
<1> QED BY <1>3, <1>4 DEF Defects

\* The program is compiled, from the files as they are now.
LEMMA CompileOK ==
    ASSUME BuildOK(bd), NEW r \in Runners, Compile1(r)
    PROVE  BuildOK(bd') /\ bd'.located = bd.located
<1> DEFINE me == bd.run[r]
           code == Program(me.entry, bd.src)
           y == [code |-> code, lib |-> bd.lib.v, comp |-> bd.comp, at |-> 0]
           x == [me EXCEPT !.step = "keep", !.temp = y]
           z == IF CompileProject(code, FALSE, bd.found) = "exe" THEN x ELSE IdleRun
<1>1. me.step = "compile" /\ me = [f \in RunFields |-> me[f]] /\ me.entry \in Entries
  BY DEF Compile1, BuildOK, BuildShape, RunShape
<1>2. IsExe(y) /\ y.code = code /\ y.lib = bd.lib.v /\ y.comp = bd.comp
  BY DEF IsExe, ExeFields
<1>3. /\ x = [f \in RunFields |-> x[f]] /\ x.step = "keep" /\ x.entry = me.entry /\ x.seen = me.seen
      /\ x.temp = y /\ x.stale = me.stale
  <2> HIDE DEF y
  <2> QED BY <1>1 DEF RunFields
<1>4. bd' = [bd EXCEPT !.run[r] = z]
  BY DEF Compile1
<1>5. bd.src \in [Sources -> Texts \cup {Gone}]
  BY DEF BuildOK, BuildShape
<1>6. CompileProject(code, FALSE, bd.found) = "exe" => SoundCode(code)
  BY <1>1, <1>5, CompiledIsSound, ProgramDefects
<1>7. bd.causes = {} => RunCurrent(bd, me)
  BY DEF BuildOK, BuildsCurrent
<1> HIDE DEF y, x
<1>8. CompileProject(code, FALSE, bd.found) = "exe" => RunShape(x) /\ RunSound(x)
  BY <1>1, <1>2, <1>3, <1>6 DEF RunShape, RunSound
<1>9. bd.causes = {} => RunCurrent(bd, x)
  BY <1>1, <1>2, <1>3, <1>7 DEF RunCurrent, BuildSteps, IsCurrent
<1>10. RunShape(z) /\ RunSound(z) /\ (bd.causes = {} => RunCurrent(bd, z))
  BY <1>8, <1>9, IdleIs
<1> HIDE DEF z
<1>11. /\ bd' = [g \in BuildFields |-> bd'[g]] /\ bd'.src = bd.src /\ bd'.lib = bd.lib /\ bd'.comp = bd.comp /\ bd'.now = bd.now
       /\ bd'.man = bd.man /\ bd'.exe = bd.exe /\ bd'.run = [bd.run EXCEPT ![r] = z] /\ bd'.located = bd.located /\ bd'.causes = bd.causes
  BY <1>4 DEF BuildOK, BuildShape, BuildFields
<1> QED BY <1>1, <1>10, <1>11, RunOnly

\* What copying the executable into the cache changes, whether it went well or not.
KeptStep(s, t, r, x, y) ==
    /\ s.run[r].step = "keep" /\ t = [f \in BuildFields |-> t[f]] /\ t.run = [s.run EXCEPT ![r] = x]
    /\ x = [f \in RunFields |-> x[f]] /\ x.step = "save" /\ x.entry = s.run[r].entry /\ x.seen = s.run[r].seen
    /\ x.temp = s.run[r].temp /\ x.stale = s.run[r].stale
    /\ t.src = s.src /\ t.lib = s.lib /\ t.comp = s.comp /\ t.now = s.now + 1 /\ t.man = s.man
    /\ t.exe = [e \in Entries |-> t.exe[e]]
    /\ \A e \in Entries : e # x.entry => t.exe[e] = s.exe[e]
    /\ IsExe(y) /\ y.code = x.temp.code /\ y.lib = x.temp.lib /\ y.comp = x.temp.comp /\ y.at = s.now
    /\ t.causes = {} => s.causes = {}
    /\ t.exe[x.entry] = y \/ (t.exe[x.entry] = s.exe[x.entry] /\ (t.causes = {} => s.exe[x.entry] = NoExe))

\* The executable is copied into the cache, or could not be.
LEMMA Kept ==
    ASSUME NEW s, NEW t, NEW r \in Runners, NEW x, NEW y, BuildOK(s), KeptStep(s, t, r, x, y)
    PROVE  BuildOK(t)
<1> USE DEF KeptStep
<1>1. t.run = [q \in Runners |-> t.run[q]] /\ \A q \in Runners : t.run[q] = IF q = r THEN x ELSE s.run[q]
  BY DEF BuildOK, BuildShape
<1>2. RunShape(s.run[r]) /\ RunSound(s.run[r]) /\ x.entry \in Entries /\ SoundCode(x.temp.code)
  BY DEF BuildOK, BuildShape, RunShape, ExesSound, RunSound
<1>3. RunShape(x) /\ RunSound(x)
  BY <1>2 DEF RunShape, RunSound
<1>4. BuildShape(t)
  <2>1. \A e \in Entries : IsExe(t.exe[e])
    BY DEF BuildOK, BuildShape
  <2> QED BY <1>1, <1>3, <2>1 DEF BuildOK, BuildShape
<1>5. BuildClock(t)
  <2>1. s.now \in Nat /\ s.lib.at \in Nat /\ s.lib.at < s.now /\ \A e \in Entries : s.exe[e].at \in Nat /\ s.exe[e].at < s.now
    BY DEF BuildOK, BuildClock
  <2>2. t.now = s.now + 1 /\ t.lib = s.lib
    OBVIOUS
  <2>3. \A e \in Entries : t.exe[e].at = s.now \/ t.exe[e].at = s.exe[e].at
    OBVIOUS
  <2> HIDE DEF KeptStep
  <2> QED BY <2>1, <2>2, <2>3 DEF BuildClock
<1>6. ExesSound(t)
  <2>1. \A e \in Entries : ExeSound(t.exe[e])
    BY SMTT(40), <1>2 DEF BuildOK, ExesSound, ExeSound
  <2> QED BY <1>1, <1>3, <2>1 DEF BuildOK, ExesSound
<1>7. ASSUME t.causes = {} PROVE BuildsCurrent(t) /\ CacheDescribed(t)
  <2>1. BuildsCurrent(s) /\ CacheDescribed(s)
    BY <1>7 DEF BuildOK
  <2>2. IsCurrent(s, s.run[r].temp, x.entry) /\ s.run[r].temp.lib = s.lib.v /\ x.seen = s.src /\ ~x.stale
    BY <2>1 DEF BuildsCurrent, RunCurrent, BuildSteps
  <2>3. t.exe[x.entry] # NoExe => IsCurrent(t, t.exe[x.entry], x.entry) /\ LibKnown(t, t.exe[x.entry])
    <3>1. IsCurrent(t, y, x.entry)
      BY ZenonT(60), <2>2 DEF IsCurrent
    <3>2. LibKnown(t, y)
      BY ZenonT(60), <2>2 DEF LibKnown
    <3>3. t.exe[x.entry] = y \/ t.exe[x.entry] = NoExe
      BY <1>7
    <3> QED BY ZenonT(60), <3>1, <3>2, <3>3
  <2>4. RunCurrent(t, x)
    BY <2>2, <2>3 DEF RunCurrent
  <2>5. \A q \in Runners : q # r => RunCurrent(t, s.run[q])
    <3> SUFFICES ASSUME NEW q \in Runners, q # r PROVE RunCurrent(t, s.run[q])
      OBVIOUS
    <3>1. RunCurrent(s, s.run[q]) /\ (s.run[q].step = "save" => s.run[q].entry \in Entries)
      BY <2>1 DEF BuildsCurrent, BuildOK, BuildShape, RunShape
    <3>2. s.run[q].step = "save" /\ t.exe[s.run[q].entry] # NoExe => IsCurrent(t, t.exe[s.run[q].entry], s.run[q].entry)
      BY <2>3, <3>1 DEF RunCurrent, IsCurrent
    <3> QED BY <3>1, <3>2 DEF RunCurrent, ManifestAgrees, IsCurrent
  <2>6. BuildsCurrent(t)
    BY <1>1, <2>1, <2>4, <2>5 DEF BuildsCurrent
  <2>7. InHand(t, x.entry)
    BY <1>1 DEF InHand
  <2>8. \A e \in Entries : (e # x.entry /\ Described(s, e) => Described(t, e)) /\ (InHand(s, e) => InHand(t, e))
    <3> SUFFICES ASSUME NEW e \in Entries
                 PROVE  (e # x.entry /\ Described(s, e) => Described(t, e)) /\ (InHand(s, e) => InHand(t, e))
      OBVIOUS
    <3>1. ASSUME e # x.entry, Described(s, e) PROVE Described(t, e)
      <4>1. t.exe[e] = s.exe[e]
        BY <3>1
      <4> QED BY ZenonT(60), <3>1, <4>1 DEF Described
    <3>2. ASSUME InHand(s, e) PROVE InHand(t, e)
      <4>1. PICK q \in Runners : s.run[q].step = "save" /\ s.run[q].entry = e
        BY <3>2 DEF InHand
      <4>2. q # r
        BY <4>1
      <4>3. t.run[q] = s.run[q]
        BY <1>1, <4>2
      <4> QED BY ZenonT(60), <4>1, <4>3 DEF InHand
    <3> QED BY <3>1, <3>2
  <2>9. ASSUME NEW e \in Entries, t.exe[e] # NoExe
        PROVE  (Described(t, e) \/ InHand(t, e)) /\ LibKnown(t, t.exe[e])
    <3>1. CASE e = x.entry
      BY <2>3, <2>7, <2>9, <3>1
    <3>2. CASE e # x.entry
      <4>1. t.exe[e] = s.exe[e] /\ t.lib = s.lib
        BY <3>2
      <4>2. (Described(s, e) \/ InHand(s, e)) /\ LibKnown(s, s.exe[e])
        BY ZenonT(60), <2>1, <2>9, <4>1 DEF CacheDescribed
      <4>3. LibKnown(t, t.exe[e])
        BY ZenonT(60), <4>1, <4>2 DEF LibKnown
      <4> QED BY <2>8, <3>2, <4>2, <4>3
    <3> QED BY <3>1, <3>2
  <2> QED BY <2>6, <2>9 DEF CacheDescribed
<1> QED BY <1>4, <1>5, <1>6, <1>7 DEF BuildOK

\* Whichever it was, the invariant stays.
LEMMA KeepOK ==
    ASSUME BuildOK(bd), NEW r \in Runners, NEW ok \in BOOLEAN, KeepExe(r, ok)
    PROVE  BuildOK(bd') /\ bd'.located = bd.located
<1> DEFINE me == bd.run[r]
           x == [me EXCEPT !.step = "save"]
           y == [me.temp EXCEPT !.at = bd.now]
           s == [bd EXCEPT !.run[r].step = "save", !.now = @ + 1]
<1>1. me.step = "keep" /\ me = [f \in RunFields |-> me[f]] /\ me.entry \in Entries /\ IsExe(me.temp)
  BY DEF KeepExe, BuildOK, BuildShape, RunShape
<1>2. /\ x = [f \in RunFields |-> x[f]] /\ x.step = "save" /\ x.entry = me.entry /\ x.seen = me.seen
      /\ x.temp = me.temp /\ x.stale = me.stale
  BY <1>1 DEF RunFields
<1>3. IsExe(y) /\ y.code = me.temp.code /\ y.lib = me.temp.lib /\ y.comp = me.temp.comp /\ y.at = bd.now
  BY <1>1 DEF IsExe, ExeFields
<1>4. /\ s = [g \in BuildFields |-> s[g]] /\ s.src = bd.src /\ s.lib = bd.lib /\ s.comp = bd.comp /\ s.now = bd.now + 1
      /\ s.man = bd.man /\ s.exe = bd.exe /\ s.run = [bd.run EXCEPT ![r] = x] /\ s.located = bd.located /\ s.causes = bd.causes
  BY DEF BuildOK, BuildShape, BuildFields
<1>5. bd.exe = [e \in Entries |-> bd.exe[e]]
  BY DEF BuildOK, BuildShape
<1>6. CASE bd.dir /\ ok
  <2>1. bd' = [s EXCEPT !.exe[me.entry] = y]
    BY <1>6 DEF KeepExe
  <2> HIDE DEF s, x, y
  <2>2. /\ bd' = [g \in BuildFields |-> bd'[g]] /\ bd'.src = bd.src /\ bd'.lib = bd.lib /\ bd'.comp = bd.comp /\ bd'.now = bd.now + 1
        /\ bd'.man = bd.man /\ bd'.exe = [bd.exe EXCEPT ![me.entry] = y] /\ bd'.run = [bd.run EXCEPT ![r] = x]
        /\ bd'.located = bd.located /\ bd'.causes = bd.causes
    BY <1>4, <2>1 DEF BuildFields
  <2>3. /\ bd'.exe = [e \in Entries |-> bd'.exe[e]] /\ \A e \in Entries : e # x.entry => bd'.exe[e] = bd.exe[e]
        /\ bd'.exe[x.entry] = y
    BY <1>1, <1>2, <1>5, <2>2
  <2>4. bd'.exe[x.entry] = y \/ (bd'.exe[x.entry] = bd.exe[x.entry] /\ (bd'.causes = {} => bd.exe[x.entry] = NoExe))
    BY <2>3
  <2>5. bd'.causes = {} => bd.causes = {}
    BY <2>2
  <2>6. BuildOK(bd')
    <3>1. KeptStep(bd, bd', r, x, y)
      BY ZenonT(60), <1>1, <1>2, <1>3, <2>2, <2>3, <2>4, <2>5 DEF KeptStep
    <3> QED BY <3>1, Kept
  <2> QED BY <2>2, <2>6
<1>7. CASE ~(bd.dir /\ ok)
  <2> DEFINE c == bd.exe[me.entry] # NoExe
  <2>1. bd' = Because(s, c, "failed_copy") /\ c \in BOOLEAN
    BY <1>7 DEF KeepExe
  <2> HIDE DEF s, x, y, c
  <2>2. /\ bd' = [g \in BuildFields |-> bd'[g]] /\ bd'.src = s.src /\ bd'.lib = s.lib /\ bd'.comp = s.comp /\ bd'.now = s.now
        /\ bd'.man = s.man /\ bd'.exe = s.exe /\ bd'.run = s.run /\ bd'.located = s.located
        /\ bd'.causes = {} => s.causes = {} /\ ~c
    BY <1>4, <2>1, BecauseIs
  <2>3. /\ bd'.exe = [e \in Entries |-> bd'.exe[e]] /\ \A e \in Entries : e # x.entry => bd'.exe[e] = bd.exe[e]
        /\ bd'.exe[x.entry] = bd.exe[x.entry] /\ (bd'.causes = {} => bd.exe[x.entry] = NoExe)
    BY <1>2, <1>4, <1>5, <2>2 DEF c
  <2>4. /\ bd'.src = bd.src /\ bd'.lib = bd.lib /\ bd'.comp = bd.comp /\ bd'.now = bd.now + 1 /\ bd'.man = bd.man
        /\ bd'.run = [bd.run EXCEPT ![r] = x] /\ bd'.located = bd.located /\ (bd'.causes = {} => bd.causes = {})
    BY <1>4, <2>2
  <2>5. bd' = [g \in BuildFields |-> bd'[g]]
    BY <2>2
  <2>6. bd'.exe[x.entry] = y \/ (bd'.exe[x.entry] = bd.exe[x.entry] /\ (bd'.causes = {} => bd.exe[x.entry] = NoExe))
    BY <2>3
  <2>7. BuildOK(bd')
    <3>1. KeptStep(bd, bd', r, x, y)
      BY ZenonT(60), <1>1, <1>2, <1>3, <2>3, <2>4, <2>5, <2>6 DEF KeptStep
    <3> QED BY <3>1, Kept
  <2> QED BY <2>4, <2>7
<1> QED BY <1>6, <1>7

\* The manifest is saved: it describes the one executable there is.
LEMMA SaveOK ==
    ASSUME BuildOK(bd), NEW r \in Runners, SaveManifest(r)
    PROVE  BuildOK(bd') /\ bd'.located = bd.located
<1> DEFINE me == bd.run[r]
           m == [hash |-> HashOf(me.seen), comp |-> bd.comp]
           x == [me EXCEPT !.step = "spawn"]
           s == [bd EXCEPT !.run[r].step = "spawn", !.dir = TRUE, !.man = m]
           c == \E e \in Entries \ {me.entry} : bd.exe[e] # NoExe
<1>1. me.step = "save" /\ me = [f \in RunFields |-> me[f]] /\ RunShape(me) /\ RunSound(me) /\ me.entry \in Entries
  BY DEF SaveManifest, BuildOK, BuildShape, RunShape, ExesSound
<1>2. x = [f \in RunFields |-> x[f]] /\ x.step = "spawn" /\ x.entry = me.entry /\ x.temp = me.temp /\ x.stale = me.stale
  BY <1>1 DEF RunFields
<1>3. m.hash = HashOf(me.seen) /\ m.comp = bd.comp
  OBVIOUS
<1>4. /\ s = [g \in BuildFields |-> s[g]] /\ s.src = bd.src /\ s.lib = bd.lib /\ s.comp = bd.comp /\ s.now = bd.now
      /\ s.man = m /\ s.exe = bd.exe /\ s.run = [bd.run EXCEPT ![r] = x] /\ s.located = bd.located /\ s.causes = bd.causes
  <2> HIDE DEF m
  <2> QED BY DEF BuildOK, BuildShape, BuildFields
<1>5. bd' = Because(s, c, "shared_manifest") /\ c \in BOOLEAN
  BY DEF SaveManifest
<1> HIDE DEF s, x, m, c
<1>6. /\ bd' = [g \in BuildFields |-> bd'[g]] /\ bd'.src = s.src /\ bd'.lib = s.lib /\ bd'.comp = s.comp /\ bd'.now = s.now
      /\ bd'.man = s.man /\ bd'.exe = s.exe /\ bd'.run = s.run /\ bd'.located = s.located
      /\ bd'.causes = {} => s.causes = {} /\ ~c
  BY <1>4, <1>5, BecauseIs
<1>7. bd'.run = [q \in Runners |-> bd'.run[q]] /\ \A q \in Runners : bd'.run[q] = IF q = r THEN x ELSE bd.run[q]
  BY <1>4, <1>6 DEF BuildOK, BuildShape
<1>8. RunShape(x) /\ RunSound(x)
  BY <1>1, <1>2 DEF RunShape, RunSound
<1>9. BuildShape(bd')
  BY <1>4, <1>6, <1>7, <1>8 DEF BuildOK, BuildShape
<1>10. BuildClock(bd')
  BY <1>4, <1>6 DEF BuildOK, BuildClock
<1>11. ExesSound(bd')
  BY <1>4, <1>6, <1>7, <1>8 DEF BuildOK, ExesSound
<1>12. ASSUME bd'.causes = {} PROVE BuildsCurrent(bd') /\ CacheDescribed(bd')
  <2>1. BuildsCurrent(bd) /\ CacheDescribed(bd) /\ ~c
    BY <1>4, <1>6, <1>12 DEF BuildOK
  <2>2. RunCurrent(bd, me) /\ me.seen = bd.src /\ ~me.stale
    BY <1>1, <2>1 DEF BuildsCurrent, RunCurrent, BuildSteps
  <2>3. bd.src \in [Sources -> Texts]
    BY <2>1 DEF BuildsCurrent
  <2>4. DiscoverDooSources(bd.src) = Sources
    BY <2>3, BuildInputs DEF DiscoverDooSources
  <2>5. ManifestAgrees(bd')
    <3>1. DOMAIN HashOf(bd.src) = Sources /\ \A f \in Sources : HashOf(bd.src)[f] = bd.src[f].v
      BY <2>4 DEF HashOf
    <3> QED BY <1>3, <1>4, <1>6, <2>2, <3>1 DEF ManifestAgrees
  <2>6. RunCurrent(bd', x)
    BY <1>2, <2>2 DEF RunCurrent, BuildSteps
  <2>7. \A q \in Runners : RunCurrent(bd', bd.run[q])
    <3> SUFFICES ASSUME NEW q \in Runners PROVE RunCurrent(bd', bd.run[q])
      OBVIOUS
    <3>1. RunCurrent(bd, bd.run[q])
      BY <2>1 DEF BuildsCurrent
    <3> QED BY <1>4, <1>6, <2>5, <3>1 DEF RunCurrent, IsCurrent
  <2>8. BuildsCurrent(bd')
    BY <1>4, <1>6, <1>7, <2>3, <2>6, <2>7 DEF BuildsCurrent
  <2>9. \A e \in Entries : bd.exe[e] # NoExe => e = me.entry
    BY <2>1 DEF c
  <2>10. bd.exe[me.entry] # NoExe => Described(bd', me.entry)
    <3>1. bd.exe[me.entry] # NoExe => IsCurrent(bd, bd.exe[me.entry], me.entry)
      BY <1>1, <2>2 DEF RunCurrent
    <3> QED BY ZenonT(60), <1>3, <1>4, <1>6, <2>2, <2>3, <3>1 DEF Described, IsCurrent
  <2>11. \A e \in Entries : bd.exe[e] # NoExe => LibKnown(bd', bd'.exe[e])
    BY <1>4, <1>6, <2>1 DEF CacheDescribed, LibKnown
  <2> QED BY <1>4, <1>6, <2>8, <2>9, <2>10, <2>11 DEF CacheDescribed
<1> QED BY <1>4, <1>6, <1>9, <1>10, <1>11, <1>12 DEF BuildOK
-----------------------------------------------------------------------------
\* What is found is one of the programs of the tree, or nothing.
OneOf(l, at) == at \subseteq l.mains /\ Cardinality(at) <= 1

\* Counting up to one.
LEMMA OneOrNone == /\ Cardinality({}) = 0 /\ \A x : Cardinality({x}) = 1
  BY FS_EmptySet, FS_Singleton

\* A directory tried gives its own program or none.
LEMMA TryFindOne == \A l, d : OneOf(l, TryFindMainIn(l, d))
<1>1. \A l, x : x \in l.mains => OneOf(l, {x})
  <2>1. \A x : Cardinality({x}) <= 1
    BY OneOrNone
  <2> QED BY <2>1, Zenon DEF OneOf
<1>2. \A l : OneOf(l, {})
  <2>1. Cardinality({}) <= 1
    BY OneOrNone
  <2> QED BY <2>1 DEF OneOf
<1> SUFFICES ASSUME NEW l, NEW d PROVE OneOf(l, TryFindMainIn(l, d))
  OBVIOUS
<1> DEFINE e == Append(d, "src")
<1>3. TryFindMainIn(l, d) = IF d \in l.mains THEN {d} ELSE IF e \in l.mains THEN {e} ELSE {}
  BY DEF TryFindMainIn
<1> HIDE DEF e
<1> QED BY <1>1, <1>2, <1>3

\* A path given on the command line leads to one program or to none.
LEMMA ResolvedOne ==
    ASSUME NEW l, NEW d
    PROVE  OneOf(l, ResolveInputPath(l, d))
<1> DEFINE root == IF d \in l.dirs THEN d ELSE l.cwd
           c == DiscoverMainDooCandidates(l, root)
<1>1. OneOf(l, FindProjectUp(l))
  BY TryFindOne, OneOrNone DEF FindProjectUp, OneOf
<1>2. c \subseteq l.mains
  BY DEF DiscoverMainDooCandidates
<1>3. OneOf(l, {})
  BY OneOrNone DEF OneOf
<1>4. Cardinality(c) = 1 => OneOf(l, c)
  BY <1>2 DEF OneOf
<1> HIDE DEF c
<1>5. ResolveInputPath(l, d) \in {TryFindMainIn(l, d), FindProjectUp(l), TryFindMainIn(l, l.entry), {}}
      \/ (Cardinality(c) = 1 /\ ResolveInputPath(l, d) = c)
  BY DEF ResolveInputPath, c
<1> QED BY <1>1, <1>3, <1>4, <1>5, TryFindOne

\* Of several candidates there is a nearest one, the first by name of those.
LEMMA NearestExists ==
    ASSUME NEW l \in Layouts, NEW c \in SUBSET l.mains, c # {}
    PROVE  \E d \in c : \A e \in c : Len(d) < Len(e) \/ (Len(d) = Len(e) /\ l.rank[d] <= l.rank[e])
<1>1. \A d \in c : Len(d) \in Nat /\ l.rank[d] \in Nat
  BY BuildInputs
<1> DEFINE T == {Len(d) : d \in c}
<1>2. PICK n \in T : \A k \in T : n <= k
  <2>1. T \in SUBSET Nat /\ T # {}
    BY <1>1
  <2> HIDE DEF T
  <2> QED BY <2>1, Least
<1> DEFINE near == {d \in c : Len(d) = n}
           R == {l.rank[d] : d \in near}
<1>3. PICK k \in R : \A j \in R : k <= j
  <2>1. R \in SUBSET Nat /\ R # {}
    BY <1>1, <1>2
  <2> HIDE DEF R
  <2> QED BY <2>1, Least
<1>4. PICK d \in near : l.rank[d] = k
  BY <1>3
<1>5. ASSUME NEW e \in c PROVE Len(d) < Len(e) \/ (Len(d) = Len(e) /\ l.rank[d] <= l.rank[e])
  <2>1. Len(d) = n /\ n <= Len(e) /\ Len(e) \in Nat /\ n \in Nat
    BY <1>1, <1>2, <1>4
  <2>2. Len(e) = n => l.rank[d] <= l.rank[e]
    BY <1>3, <1>4
  <2> QED BY <2>1, <2>2
<1> QED BY <1>4, <1>5

\* The candidate selected is that one.
LEMMA SelectedIs ==
    ASSUME NEW l \in Layouts, ~l.entryVar, DiscoverMainDooCandidates(l, l.input) # {}
    PROVE  /\ SelectCandidate(l) \in DiscoverMainDooCandidates(l, l.input)
           /\ \A e \in DiscoverMainDooCandidates(l, l.input) : Len(SelectCandidate(l)) <= Len(e)
<1> DEFINE c == DiscoverMainDooCandidates(l, l.input)
<1>1. c \subseteq l.mains
  BY DEF DiscoverMainDooCandidates
<1>2. c # {} /\ SelectCandidate(l) = CHOOSE d \in c : \A e \in c : Len(d) < Len(e) \/ (Len(d) = Len(e) /\ l.rank[d] <= l.rank[e])
  BY DEF SelectCandidate
<1> HIDE DEF c
<1>3. /\ SelectCandidate(l) \in c
      /\ \A e \in c : \/ Len(SelectCandidate(l)) < Len(e)
                      \/ Len(SelectCandidate(l)) = Len(e) /\ l.rank[SelectCandidate(l)] <= l.rank[e]
  BY <1>1, <1>2, NearestExists
<1>4. \A d \in c : Len(d) \in Nat
  BY <1>1, BuildInputs
<1> QED BY <1>3, <1>4 DEF c

\* Hence the program found is one of the tree and, if it was looked for below, the nearest.
LEMMA LocatedRight ==
    ASSUME NEW l \in Layouts
    PROVE  /\ OneOf(l, Located(l))
           /\ ~l.entryVar /\ DiscoverMainDooCandidates(l, l.input) # {} =>
                 /\ Located(l) # {}
                 /\ \A d \in Located(l), e \in DiscoverMainDooCandidates(l, l.input) : Len(d) <= Len(e)
<1> DEFINE p == SelectCandidate(l)
<1>1. Located(l) = IF p \in l.mains THEN {p} ELSE ResolveInputPath(l, p)
  BY DEF Located
<1>2. DiscoverMainDooCandidates(l, l.input) \subseteq l.mains
  BY DEF DiscoverMainDooCandidates
<1>3. /\ ~l.entryVar /\ DiscoverMainDooCandidates(l, l.input) # {} =>
            p \in l.mains /\ \A e \in DiscoverMainDooCandidates(l, l.input) : Len(p) <= Len(e)
  BY <1>2, SelectedIs
<1> HIDE DEF p
<1>4. OneOf(l, Located(l))
  <2>1. p \in l.mains => OneOf(l, {p})
    BY OneOrNone DEF OneOf
  <2> QED BY <1>1, <2>1, ResolvedOne
<1> QED BY <1>1, <1>3, <1>4

\* What was located, for which tree.
WhereOK(w) == /\ w = [f \in {"l", "at", "done"} |-> w[f]] /\ w.l \in Layouts \cup {NoLayout}
              /\ w.done => w.l \in Layouts /\ w.at = Located(w.l)
BuildInv == BuildOK(bd) /\ WhereOK(bd.located)

\* At the start nothing is cached and nothing runs.
LEMMA BuildStarts == BuildInit => BuildInv
<1> SUFFICES ASSUME NEW l \in Layouts \cup {NoLayout}, bd = BuildStart(l) PROVE BuildInv
  BY DEF BuildInit
<1> DEFINE t1 == CHOOSE t \in Texts : t.v = 1
           src == [f \in Sources |-> t1]
           w == [l |-> l, at |-> {}, done |-> FALSE]
<1>1. t1 \in Texts
  BY BuildInputs
<1> HIDE DEF t1
<1>2. src \in [Sources -> Texts]
  BY <1>1
<1>3. WhereOK(w)
  BY DEF WhereOK
<1>4. bd.src = src /\ bd.located = w
  BY DEF BuildStart, t1
<1> HIDE DEF src, w
<1>5. /\ bd = [g \in BuildFields |-> bd[g]] /\ bd.run = [r \in Runners |-> IdleRun] /\ bd.exe = [e \in Entries |-> NoExe]
      /\ bd.now = 1 /\ bd.lib.at = 0
  BY DEF BuildStart, BuildFields
<1>6. BuildShape(bd) /\ BuildClock(bd) /\ ExesSound(bd)
  BY <1>2, <1>4, <1>5, IdleIs DEF BuildShape, BuildClock, ExesSound, ExeSound
<1>7. BuildsCurrent(bd) /\ CacheDescribed(bd)
  BY <1>2, <1>4, <1>5, IdleIs DEF BuildsCurrent, CacheDescribed
<1> QED BY <1>3, <1>4, <1>6, <1>7 DEF BuildInv, BuildOK

\* Every step keeps the invariant.
LEMMA BuildStep == BuildInv /\ [BuildNext]_bd => BuildInv'
<1> SUFFICES ASSUME BuildInv, BuildNext \/ bd' = bd PROVE BuildOK(bd') /\ WhereOK(bd'.located)
  BY DEF BuildInv
<1>0. BuildOK(bd) /\ WhereOK(bd.located)
  BY DEF BuildInv
<1>1. CASE Locate
  <2>1. BuildOK(bd') /\ bd'.located = [bd.located EXCEPT !.at = Located(bd.located.l), !.done = TRUE] /\ bd.located.l # NoLayout
    BY <1>0, <1>1, LocateOK DEF Locate
  <2> QED BY <1>0, <2>1 DEF WhereOK
<1>2. CASE \E r \in Runners : \E e \in Entries : BeginRun(r, e)
  BY <1>0, <1>2, BeginOK
<1>3. CASE \E r \in Runners : \E ok \in BOOLEAN : TryCache(r, ok) \/ KeepExe(r, ok)
  BY <1>0, <1>3, TryCacheOK, KeepOK
<1>4. CASE \E r \in Runners : Compile1(r) \/ SaveManifest(r) \/ SpawnAndWait(r)
  BY <1>0, <1>4, CompileOK, SaveOK, SpawnOK
<1>5. CASE \E e \in Entries : CheckCommand(e)
  BY <1>0, <1>5, CheckOK
<1>6. CASE \E f \in Sources, t \in Texts \cup {Gone} : Edit(f, t)
  BY <1>0, <1>6, EditOK
<1>7. CASE CleanCommand \/ RebuildLib \/ UpgradeCompiler
  BY <1>0, <1>7, CleanOK, RebuildLibOK, UpgradeOK
<1>8. CASE bd' = bd
  BY <1>0, <1>8
<1> QED BY <1>1, <1>2, <1>3, <1>4, <1>5, <1>6, <1>7, <1>8 DEF BuildNext

\* RunsWhatIsThere for any number of files, texts, entry points and runs that overlap:
\* a cached program that is run is the current one unless one of the named causes came
\* up, and no program with an error is started.
THEOREM BuildRunsWhatIsThere == BuildSpec => []RunsWhatIsThere
<1>1. BuildInv => RunsWhatIsThere
  <2> SUFFICES ASSUME BuildInv PROVE RunsWhatIsThere
    OBVIOUS
  <2>1. BuildOK(bd) /\ WhereOK(bd.located)
    BY DEF BuildInv
  <2>2. CachedIsFresh
    BY <2>1 DEF CachedIsFresh, BuildOK, BuildsCurrent, RunCurrent
  <2>3. StartsOnlySound
    BY <2>1 DEF StartsOnlySound, BuildOK, ExesSound, RunSound
  <2>4. EntryIsNearest
    BY <2>1, LocatedRight DEF EntryIsNearest, WhereOK, OneOf
  <2> QED BY <2>2, <2>3, <2>4 DEF RunsWhatIsThere
<1> QED BY <1>1, BuildStarts, BuildStep, PTL DEF BuildSpec

-----------------------------------------------------------------------------
\* The module loader.

\* The loader's states, and what an entry of the stack means: its file is imported
\* by the last module of its chain (by the main file, if that is empty), every module
\* of a chain imports the next, and the chains grow from the bottom to the top, each
\* the beginning of the next.
StackEntries == [f : SourceFiles, chain : Seq(SourceFiles)]
LoaderPhases == {"std", "local", "merge", "done"}
LoaderShape(d) ==
    /\ d \in [prog : Projects, phase : LoaderPhases, pending : Seq(StackEntries), visited : SUBSET SourceFiles, names : {d.names},
              items : {d.items}, errs : {d.errs}, nested : {d.nested}, order : Seq(SourceFiles)]
Cut(C, n) == [k \in 1..n |-> C[k]]
ImportsAt(d, C, j) == ImportedIn(d.prog.imports, IF j = 0 THEN Main ELSE C[j])
ChainOK(d, C) ==
    /\ Range(C) \subseteq d.visited
    /\ \A i, j \in 1..Len(C) : C[i] = C[j] => i = j
    /\ \A j \in 1..Len(C) : C[j] \in ImportsAt(d, C, j - 1)
EntryOK(d, C, e) ==
    /\ Len(e.chain) <= Len(C) /\ e.chain = Cut(C, Len(e.chain))
    /\ e.f \in ImportsAt(d, C, Len(e.chain)) /\ e.f \notin Range(e.chain)
PendingOK(d, C) ==
    /\ \A k \in 1..Len(d.pending) : EntryOK(d, C, d.pending[k])
    /\ \A i, j \in 1..Len(d.pending) : i <= j => Len(d.pending[i].chain) <= Len(d.pending[j].chain)
\* As long as no cycle was met: a module off the chain imports only such modules and
\* is on no cycle; what a module of the chain imports is off it, or next, or pending.
NoCycle(d) == \A e \in d.errs : e[1] # "cycle"
Off(d, C) == d.visited \ Range(C)
OffOK(d, C) ==
    \A v \in Off(d, C) : /\ ImportedIn(d.prog.imports, v) \subseteq Off(d, C)
                         /\ v \notin ReachedFrom(d.prog.imports, ImportedIn(d.prog.imports, v))
LevelOK(d, C, j) ==
    \A t \in ImportsAt(d, C, j) :
        \/ t \in Off(d, C)
        \/ j < Len(C) /\ t = C[j + 1]
        \/ \E k \in 1..Len(d.pending) : d.pending[k].f = t /\ Len(d.pending[k].chain) = j
ChainsOK(d, C) ==
    /\ C \in Seq(SourceFiles) /\ ChainOK(d, C) /\ PendingOK(d, C)
    /\ NoCycle(d) => OffOK(d, C) /\ \A j \in 0..Len(C) : LevelOK(d, C, j)
TopChain(d) == IF d.pending = <<>> THEN <<>> ELSE Last(d.pending).chain
\* What is loaded is imported, what is imported is loaded or pending, and a cycle that
\* was reported is there.
Wanted(d) == ReachedFrom(d.prog.imports, ImportedIn(d.prog.imports, Main))
Met(d) == d.visited \cup {d.pending[k].f : k \in 1..Len(d.pending)}
LoadedOK(d) ==
    /\ d.visited \subseteq Wanted(d)
    /\ ImportedIn(d.prog.imports, Main) \subseteq Met(d)
    /\ \A v \in d.visited : ImportedIn(d.prog.imports, v) \subseteq Met(d)
    /\ Range(d.order) = d.visited
    /\ \A j, k \in 1..Len(d.order) : d.order[j] = d.order[k] => j = k
    /\ ~NoCycle(d) => \E f \in Wanted(d) : f \in ReachedFrom(d.prog.imports, ImportedIn(d.prog.imports, f))

\* What is reached by imports: the least set that is closed under them.
LEMMA ReachIs ==
    ASSUME NEW g \in [SourceFiles -> Seq(SourceFiles)], NEW from \in SUBSET SourceFiles
    PROVE  /\ from \subseteq ReachedFrom(g, from) /\ ReachedFrom(g, from) \subseteq SourceFiles
           /\ ClosedFor(g, ReachedFrom(g, from))
           /\ \A S \in SUBSET SourceFiles : from \subseteq S /\ ClosedFor(g, S) => ReachedFrom(g, from) \subseteq S
           /\ \A f \in SourceFiles : ImportedIn(g, f) \subseteq SourceFiles
<1>1. from \subseteq ReachedFrom(g, from) /\ ReachedFrom(g, from) \subseteq SourceFiles
  BY DEF ReachedFrom
<1>2. \A f \in SourceFiles : ImportedIn(g, f) \subseteq SourceFiles
  BY DEF ImportedIn
<1>3. ClosedFor(g, ReachedFrom(g, from))
  <2> SUFFICES ASSUME NEW x \in ReachedFrom(g, from), NEW t \in ImportedIn(g, x),
                      NEW S \in SUBSET SourceFiles, from \subseteq S, ClosedFor(g, S)
               PROVE  t \in S
    BY <1>1, <1>2 DEF ClosedFor, ReachedFrom
  <2>1. x \in S
    BY DEF ReachedFrom
  <2> QED BY <2>1 DEF ClosedFor
<1> QED BY <1>1, <1>2, <1>3 DEF ReachedFrom

\* The beginning of a chain.
LEMMA CutIs ==
    ASSUME NEW C \in Seq(SourceFiles), NEW n \in 0..Len(C)
    PROVE  /\ Cut(C, n) \in Seq(SourceFiles) /\ Len(Cut(C, n)) = n /\ n \in Nat /\ Len(C) \in Nat
           /\ \A k \in 1..n : Cut(C, n)[k] = C[k]
           /\ Range(Cut(C, n)) = {C[k] : k \in 1..n}
           /\ \A m \in 0..n : Cut(Cut(C, n), m) = Cut(C, m)
           /\ n = Len(C) => Cut(C, n) = C
<1>0. Len(C) \in Nat /\ n \in Nat /\ \A k \in 1..n : C[k] \in SourceFiles
  OBVIOUS
<1>1. Cut(C, n) \in [1..n -> SourceFiles]
  BY <1>0 DEF Cut
<1>2. Cut(C, n) \in Seq(SourceFiles) /\ Len(Cut(C, n)) = n /\ DOMAIN Cut(C, n) = 1..n
  BY <1>0, <1>1
<1>3. \A k \in 1..n : Cut(C, n)[k] = C[k]
  BY DEF Cut
<1>4. Range(Cut(C, n)) = {C[k] : k \in 1..n}
  BY <1>2, <1>3 DEF Range
<1>5. ASSUME NEW m \in 0..n PROVE Cut(Cut(C, n), m) = Cut(C, m)
  <2>1. \A k \in 1..m : k \in 1..n
    BY <1>0
  <2> QED BY <1>3, <2>1 DEF Cut
<1>6. n = Len(C) => Cut(C, n) = C
  BY DEF Cut
<1> QED BY <1>0, <1>2, <1>3, <1>4, <1>5, <1>6

\* The stack alone decides how far the chain is needed: a last module of the chain no
\* entry hangs on is done with.
LEMMA Unwind1 ==
    ASSUME NEW d, LoaderShape(d), NEW C, ChainsOK(d, C), Len(C) >= 1,
           \A k \in 1..Len(d.pending) : Len(d.pending[k].chain) <= Len(C) - 1
    PROVE  ChainsOK(d, Cut(C, Len(C) - 1))
<1> DEFINE L == Len(C)
           D == Cut(C, L - 1)
           w == C[L]
           g == d.prog.imports
<1>1. C \in Seq(SourceFiles) /\ L \in Nat /\ L - 1 \in 0..L /\ L \in 1..L /\ L - 1 \in Nat
  BY DEF ChainsOK
<1>2. /\ D \in Seq(SourceFiles) /\ Len(D) = L - 1 /\ \A k \in 1..(L - 1) : D[k] = C[k]
      /\ Range(D) = {C[k] : k \in 1..(L - 1)} /\ \A m \in 0..(L - 1) : Cut(D, m) = Cut(C, m)
  BY <1>1, CutIs
<1>3. ChainOK(d, C) /\ PendingOK(d, C) /\ Range(C) = {C[k] : k \in 1..L}
  BY <1>1 DEF ChainsOK, Range
<1>4. Range(C) = Range(D) \cup {w} /\ w \notin Range(D)
  <2>1. \A k \in 1..L : k = L \/ k \in 1..(L - 1)
    BY <1>1
  <2>2. \A k \in 1..(L - 1) : k \in 1..L /\ k # L
    BY <1>1
  <2>3. \A k \in 1..(L - 1) : C[k] # w
    BY <1>1, <1>3, <2>2 DEF ChainOK
  <2> QED BY <1>1, <1>2, <1>3, <2>1, <2>2, <2>3
<1>5. \A j \in 0..(L - 1) : ImportsAt(d, D, j) = ImportsAt(d, C, j)
  <2>1. \A j \in 0..(L - 1) : j = 0 \/ j \in 1..(L - 1)
    BY <1>1
  <2> QED BY <1>2, <2>1 DEF ImportsAt
<1> HIDE DEF D, w
<1>6. ChainOK(d, D)
  <2>1. Range(D) \subseteq d.visited
    BY <1>3, <1>4 DEF ChainOK
  <2>2. \A k \in 1..(L - 1) : k \in 1..L /\ k - 1 \in 0..(L - 1)
    BY <1>1
  <2>3. \A i, j \in 1..(L - 1) : D[i] = D[j] => i = j
    BY <1>2, <1>3, <2>2 DEF ChainOK
  <2>4. \A j \in 1..(L - 1) : D[j] \in ImportsAt(d, D, j - 1)
    BY <1>2, <1>3, <1>5, <2>2 DEF ChainOK
  <2> QED BY <1>2, <2>1, <2>3, <2>4 DEF ChainOK
<1>7. PendingOK(d, D)
  <2> SUFFICES ASSUME NEW k \in 1..Len(d.pending) PROVE EntryOK(d, D, d.pending[k])
    BY <1>3 DEF PendingOK
  <2> DEFINE e == d.pending[k]
  <2>1. EntryOK(d, C, e) /\ Len(e.chain) <= L - 1
    BY <1>3 DEF PendingOK
  <2>2. Len(e.chain) \in Nat
    <3>1. e \in StackEntries
      BY DEF LoaderShape
    <3> QED BY <3>1 DEF StackEntries
  <2>3. Len(e.chain) \in 0..(L - 1)
    BY <1>1, <2>1, <2>2
  <2> HIDE DEF e
  <2>4. Cut(D, Len(e.chain)) = Cut(C, Len(e.chain)) /\ ImportsAt(d, D, Len(e.chain)) = ImportsAt(d, C, Len(e.chain))
    BY <1>2, <1>5, <2>3
  <2>5. EntryOK(d, D, e)
    BY <1>2, <2>1, <2>4 DEF EntryOK
  <2> QED BY <2>5 DEF e
<1>8. ASSUME NoCycle(d) PROVE OffOK(d, D) /\ \A j \in 0..(L - 1) : LevelOK(d, D, j)
  <2>1. OffOK(d, C) /\ \A j \in 0..L : LevelOK(d, C, j)
    BY <1>8 DEF ChainsOK
  <2>2. Off(d, D) = Off(d, C) \cup {w} /\ w \notin Off(d, C)
    BY <1>3, <1>4 DEF Off, ChainOK
  <2>3. ImportedIn(g, w) \subseteq Off(d, C)
    <3>1. LevelOK(d, C, L)
      BY <1>1, <2>1
    <3>2. ImportsAt(d, C, L) = ImportedIn(g, w) /\ ~(L < L) /\ \A k \in 1..Len(d.pending) : Len(d.pending[k].chain) # L
      <4>1. L # 0
        BY <1>1
      <4>2. \A k \in 1..Len(d.pending) : Len(d.pending[k].chain) <= L - 1 /\ d.pending[k] \in StackEntries
        BY DEF LoaderShape
      <4>3. \A k \in 1..Len(d.pending) : Len(d.pending[k].chain) \in Nat
        BY <4>2 DEF StackEntries
      <4>4. \A k \in 1..Len(d.pending) : Len(d.pending[k].chain) # L
        BY <1>1, <4>2, <4>3
      <4> QED BY <1>1, <4>1, <4>4 DEF ImportsAt, w
    <3> QED BY <3>1, <3>2 DEF LevelOK
  <2>4. w \notin ReachedFrom(g, ImportedIn(g, w))
    <3>1. g \in [SourceFiles -> Seq(SourceFiles)] /\ Off(d, C) \in SUBSET SourceFiles
      BY ProjectFiles DEF LoaderShape, Off
    <3>2. ClosedFor(g, Off(d, C))
      BY <2>1 DEF OffOK, ClosedFor
    <3>3. ReachedFrom(g, ImportedIn(g, w)) \subseteq Off(d, C)
      <4> DEFINE S == Off(d, C)
                 u == ImportedIn(g, w)
      <4>1. S \in SUBSET SourceFiles /\ u \subseteq S /\ u \in SUBSET SourceFiles /\ ClosedFor(g, S)
        BY <2>3, <3>1, <3>2
      <4> HIDE DEF S, u, g
      <4>2. ReachedFrom(g, u) \subseteq S
        BY <3>1, <4>1, ReachIs
      <4> QED BY <4>2 DEF S, u
    <3> QED BY <2>2, <3>3
  <2>5. OffOK(d, D)
    BY <2>1, <2>2, <2>3, <2>4 DEF OffOK
  <2>6. ASSUME NEW j \in 0..(L - 1) PROVE LevelOK(d, D, j)
    <3>1. LevelOK(d, C, j) /\ j \in Nat
      BY <1>1, <2>1
    <3>2. j < L => (j < L - 1 /\ D[j + 1] = C[j + 1]) \/ C[j + 1] = w
      <4>1. CASE j = L - 1
        BY <1>1, <4>1 DEF w
      <4>2. CASE j # L - 1
        <5>1. j < L - 1 /\ j + 1 \in 1..(L - 1)
          BY <1>1, <4>2
        <5> QED BY <1>2, <5>1
      <4> QED BY <4>1, <4>2
    <3>3. ImportsAt(d, D, j) = ImportsAt(d, C, j)
      BY <1>5
    <3> QED BY <1>2, <2>2, <3>1, <3>2, <3>3 DEF LevelOK
  <2> QED BY <2>5, <2>6
<1> QED BY <1>2, <1>6, <1>7, <1>8 DEF ChainsOK, D

\* Down to where an entry hangs.
LEMMA Unwind ==
    ASSUME NEW d, LoaderShape(d), NEW C, ChainsOK(d, C), NEW n \in 0..Len(C),
           \A k \in 1..Len(d.pending) : Len(d.pending[k].chain) <= n
    PROVE  ChainsOK(d, Cut(C, n))
<1> DEFINE L == Len(C)
           S == {i \in 0..(L - n) : ChainsOK(d, Cut(C, L - i))}
<1>1. C \in Seq(SourceFiles) /\ L \in Nat /\ n \in Nat /\ L - n \in Nat
  BY DEF ChainsOK
<1>2. 0 \in S
  <2>1. Cut(C, L) = C /\ L - 0 = L /\ 0 \in 0..(L - n)
    <3>1. L \in 0..L
      BY <1>1
    <3> QED BY <1>1, <3>1, CutIs
  <2> QED BY <2>1
<1>3. ASSUME NEW i \in 1..(L - n), i - 1 \in S PROVE i \in S
  <2> DEFINE m == L - (i - 1)
             B == Cut(C, m)
  <2>1. ChainsOK(d, B)
    BY <1>3
  <2>2. m \in 0..L /\ m >= 1 /\ m - 1 = L - i /\ n <= m - 1 /\ m - 1 \in 0..m /\ i \in 0..(L - n) /\ m \in Nat
    BY <1>1
  <2>3. Len(B) = m /\ Cut(B, m - 1) = Cut(C, m - 1)
    BY <1>1, <2>2, CutIs
  <2>4. \A k \in 1..Len(d.pending) : Len(d.pending[k].chain) <= m - 1
    <3>1. \A k \in 1..Len(d.pending) : d.pending[k] \in StackEntries
      BY DEF LoaderShape
    <3>2. \A k \in 1..Len(d.pending) : Len(d.pending[k].chain) \in Nat /\ Len(d.pending[k].chain) <= n
      BY <3>1 DEF StackEntries
    <3> HIDE DEF m
    <3> QED BY <1>1, <2>2, <3>2
  <2> HIDE DEF m, B
  <2>5. ChainsOK(d, Cut(B, m - 1))
    <3>1. Len(B) >= 1 /\ \A k \in 1..Len(d.pending) : Len(d.pending[k].chain) <= Len(B) - 1
      BY <2>2, <2>3, <2>4
    <3> QED BY <2>1, <2>3, <3>1, Unwind1
  <2> QED BY <2>2, <2>3, <2>5
<1> HIDE DEF S
<1>4. L - n \in S
  <2>1. L - n \in 0..(L - n)
    BY <1>1
  <2> HIDE DEF L
  <2>2. \A i \in 0..(L - n) : i \in S
    BY <1>1, <1>2, <1>3, UpTo
  <2> QED BY <2>1, <2>2
<1>5. L - (L - n) = n
  BY <1>1
<1> QED BY <1>4, <1>5 DEF S

\* In particular to the chain of the entry on top.
LEMMA Settles ==
    ASSUME NEW d, LoaderShape(d), NEW C, ChainsOK(d, C)
    PROVE  ChainsOK(d, TopChain(d))
<1> DEFINE P == d.pending
           L == Len(C)
           N == Len(P)
<1>1. P \in Seq(StackEntries) /\ N \in Nat /\ C \in Seq(SourceFiles) /\ L \in Nat /\ PendingOK(d, C)
  BY DEF LoaderShape, ChainsOK
<1>2. CASE P = <<>>
  <2>1. TopChain(d) = <<>> /\ Len(P) = 0 /\ 0 \in 0..L /\ 1..0 = {}
    BY <1>1, <1>2 DEF TopChain
  <2>2. Cut(C, 0) = <<>>
    <3>1. Cut(C, 0) \in Seq(SourceFiles) /\ Len(Cut(C, 0)) = 0
      BY <1>1, <2>1, CutIs
    <3> QED BY <3>1
  <2>3. ChainsOK(d, Cut(C, 0))
    <3>1. \A k \in 1..Len(d.pending) : Len(d.pending[k].chain) <= 0
      BY <2>1
    <3> HIDE DEF P
    <3> QED BY <2>1, <3>1, Unwind
  <2> QED BY <2>1, <2>2, <2>3
<1>3. CASE P # <<>>
  <2> DEFINE e == P[N]
             n == Len(e.chain)
  <2>1. N >= 1 /\ N \in 1..N /\ Last(P) = e /\ e \in StackEntries /\ \A k \in 1..N : k <= N
    BY <1>1, <1>3 DEF Last
  <2>2. EntryOK(d, C, e) /\ \A k \in 1..N : Len(P[k].chain) <= n
    BY <1>1, <2>1 DEF PendingOK
  <2>3. n \in 0..L /\ TopChain(d) = Cut(C, n)
    BY <1>1, <1>3, <2>1, <2>2 DEF EntryOK, TopChain, StackEntries
  <2>4. \A k \in 1..Len(d.pending) : Len(d.pending[k].chain) <= n
    BY <2>2
  <2> HIDE DEF n, e, P
  <2>5. ChainsOK(d, Cut(C, n))
    BY <2>3, <2>4, Unwind
  <2> QED BY <2>3, <2>5
<1> QED BY <1>2, <1>3

\* The imports of a module that was read, one after the other.
LEMMA NestedTurns ==
    ASSUME NEW l, LoaderShape(l), NEW chain \in Seq(SourceFiles), NEW ts \in Seq(SourceFiles)
    PROVE  \E D : /\ NestedImports(l, chain, ts) = D[Len(ts)] /\ D[0] = l
                  /\ \A i \in 1..Len(ts) : D[i] = NestedImport(D[i - 1], chain, ts[i])
<1> DEFINE n == Len(ts)
           E == l.errs \cup {<<"cycle", Last(chain), t>> : t \in SourceFiles}
           S == [prog : {l.prog}, phase : {l.phase}, pending : Seq(StackEntries), visited : {l.visited}, names : {l.names},
                 items : {l.items}, errs : SUBSET E, nested : {l.nested}, order : {l.order}]
           Turn(i, s) == NestedImport(s, chain, ts[i])
           body == [x \in (1..n) \X S |-> Turn(x[1], x[2])]
           G(g) == [i \in 0..n |-> IF i = 0 THEN l ELSE NestedImport(g[i - 1], chain, ts[i])]
           K == CHOOSE g : g = G(g)
<1>1. n \in Nat /\ \A i \in 1..n : ts[i] \in SourceFiles
  OBVIOUS
<1>2. \A t \in SourceFiles : \A s \in S : NestedImport(s, chain, t) \in S
  <2> SUFFICES ASSUME NEW t \in SourceFiles, NEW s \in S PROVE NestedImport(s, chain, t) \in S
    OBVIOUS
  <2> DEFINE x == <<"cycle", Last(chain), t>>
             e == [f |-> t, chain |-> chain]
  <2>1. x \in E /\ e \in StackEntries
    BY DEF StackEntries
  <2>2. NestedImport(s, chain, t) \in {[s EXCEPT !.errs = @ \cup {x}], [s EXCEPT !.pending = Append(@, e)], s}
    BY DEF NestedImport
  <2> HIDE DEF x, e, E
  <2>3. s.errs \cup {x} \in SUBSET E /\ Append(s.pending, e) \in Seq(StackEntries)
    BY <2>1
  <2>4. [s EXCEPT !.errs = @ \cup {x}] \in S
    BY <2>3
  <2>5. [s EXCEPT !.pending = Append(@, e)] \in S
    BY <2>3
  <2> HIDE DEF S
  <2> QED BY <2>2, <2>4, <2>5
<1>3. l \in S
  BY DEF LoaderShape
<1> HIDE DEF E, S
<1>4. \A i \in 1..n : \A s \in S : Turn(i, s) \in S /\ body[<<i, s>>] = Turn(i, s)
  BY <1>1, <1>2
<1>5. LoopBody(n, S, body)
  <2>1. \A x \in (1..n) \X S : x[1] \in 1..n /\ x[2] \in S /\ body[x] = Turn(x[1], x[2])
    OBVIOUS
  <2>2. \A i \in 1..n : \A s \in S : Turn(i, s) \in S
    BY <1>4
  <2>3. \A x \in (1..n) \X S : body[x] \in S
    <3> HIDE DEF body, Turn
    <3> QED BY <2>1, <2>2
  <2> HIDE DEF Turn
  <2> QED BY <2>3 DEF LoopBody
<1> HIDE DEF body, Turn, n
<1>6. PICK g : LoopStates(n, S, l, body, g)
  BY <1>1, <1>3, <1>5, LoopRuns
<1>7. g = G(g)
  <2>1. g \in [0..n -> S] /\ g[0] = l /\ \A i \in 1..n : g[i] = body[<<i, g[i - 1]>>]
    BY <1>6 DEF LoopStates
  <2>2. \A i \in 1..n : i - 1 \in 0..n /\ g[i - 1] \in S
    BY <1>1, <2>1
  <2>3. \A i \in 1..n : g[i] = NestedImport(g[i - 1], chain, ts[i])
    BY <1>4, <2>1, <2>2 DEF Turn
  <2>4. \A i \in 0..n : i = 0 \/ i \in 1..n
    BY <1>1
  <2>5. \A i \in 0..n : g[i] = IF i = 0 THEN l ELSE NestedImport(g[i - 1], chain, ts[i])
    BY <2>1, <2>3, <2>4
  <2> QED BY <2>1, <2>5
<1>8. K = G(K)
  BY <1>7
<1>9. NestedImports(l, chain, ts) = K[n]
  BY DEF NestedImports, n
<1> HIDE DEF K
<1>10. K[0] = l /\ \A i \in 1..n : K[i] = NestedImport(K[i - 1], chain, ts[i])
  <2>1. 0 \in 0..n /\ \A i \in 1..n : i \in 0..n /\ i # 0
    BY <1>1
  <2>2. \A i \in 0..n : K[i] = IF i = 0 THEN l ELSE NestedImport(K[i - 1], chain, ts[i])
    BY <1>8
  <2> QED BY <2>1, <2>2
<1> QED BY <1>9, <1>10 DEF n

\* What they add after a number of turns: entries with the chain for files that are
\* neither on it nor visited, and an error for every file on it.
SameLoad(l, r) ==
    /\ LoaderShape(r) /\ r.prog = l.prog /\ r.phase = l.phase /\ r.visited = l.visited /\ r.names = l.names
    /\ r.items = l.items /\ r.nested = l.nested /\ r.order = l.order
Grown(l, chain, ts, r) ==
    /\ Len(r.pending) >= Len(l.pending)
    /\ \A k \in 1..Len(l.pending) : r.pending[k] = l.pending[k]
    /\ \A k \in (Len(l.pending) + 1)..Len(r.pending) :
          r.pending[k].chain = chain /\ r.pending[k].f \in Range(ts) \ (l.visited \cup Range(chain))
    /\ l.errs \subseteq r.errs
    /\ \A e \in r.errs \ l.errs : \E t \in Range(ts) \cap Range(chain) : e = <<"cycle", Last(chain), t>>
Dealt(l, chain, r, t) ==
    \/ t \in Range(chain) /\ <<"cycle", Last(chain), t>> \in r.errs
    \/ t \in l.visited \ Range(chain)
    \/ \E k \in (Len(l.pending) + 1)..Len(r.pending) : r.pending[k].f = t

\* One turn.
LEMMA NestedOne ==
    ASSUME NEW l, LoaderShape(l), NEW chain \in Seq(SourceFiles), NEW ts \in Seq(SourceFiles), NEW t \in Range(ts),
           NEW r, SameLoad(l, r), Grown(l, chain, ts, r)
    PROVE  LET q == NestedImport(r, chain, t)
           IN  /\ SameLoad(l, q) /\ Grown(l, chain, ts, q) /\ Dealt(l, chain, q, t)
               /\ \A u : Dealt(l, chain, r, u) => Dealt(l, chain, q, u)
<1> DEFINE q == NestedImport(r, chain, t)
           n == Len(l.pending)
           m == Len(r.pending)
           P == r.pending
<1>1. InChain(t, chain) <=> t \in Range(chain)
  BY DEF InChain, Range
<1>2. t \in SourceFiles /\ n \in Nat /\ m \in Nat /\ m >= n /\ P \in Seq(StackEntries) /\ r.visited = l.visited
  BY DEF Range, LoaderShape, SameLoad, Grown
<1>3. CASE t \in Range(chain)
  <2> DEFINE x == <<"cycle", Last(chain), t>>
  <2>1. q = [r EXCEPT !.errs = @ \cup {x}]
    BY <1>1, <1>3 DEF NestedImport
  <2> HIDE DEF x, q
  <2>2. /\ LoaderShape(q) /\ q.prog = r.prog /\ q.phase = r.phase /\ q.visited = r.visited /\ q.names = r.names
        /\ q.items = r.items /\ q.nested = r.nested /\ q.order = r.order /\ q.pending = r.pending /\ q.errs = r.errs \cup {x}
    BY <2>1 DEF LoaderShape, SameLoad
  <2>3. SameLoad(l, q)
    BY <2>2 DEF SameLoad
  <2>4. Grown(l, chain, ts, q)
    <3>1. \A e \in q.errs \ l.errs : e \in r.errs \ l.errs \/ e = x
      BY <2>2
    <3>2. \A e \in q.errs \ l.errs : \E u \in Range(ts) \cap Range(chain) : e = <<"cycle", Last(chain), u>>
      BY <1>3, <3>1 DEF Grown, x
    <3> QED BY <2>2, <3>2 DEF Grown
  <2> QED BY <1>3, <2>2, <2>3, <2>4 DEF Dealt, x, q
<1>4. CASE t \notin Range(chain) /\ t \notin r.visited
  <2> DEFINE e == [f |-> t, chain |-> chain]
             Q == Append(P, e)
  <2>1. q = [r EXCEPT !.pending = Q]
    BY <1>1, <1>4 DEF NestedImport
  <2>2. e \in StackEntries /\ e.f = t /\ e.chain = chain
    BY <1>2 DEF StackEntries
  <2> HIDE DEF e, P
  <2>3. Q \in Seq(StackEntries) /\ Len(Q) = Len(P) + 1 /\ Q[Len(P) + 1] = e /\ \A k \in 1..Len(P) : Q[k] = P[k]
    BY <1>2, <2>2
  <2> HIDE DEF Q, q
  <2>4. /\ LoaderShape(q) /\ q.prog = r.prog /\ q.phase = r.phase /\ q.visited = r.visited /\ q.names = r.names
        /\ q.items = r.items /\ q.nested = r.nested /\ q.order = r.order /\ q.errs = r.errs /\ q.pending = Q
    BY <2>1, <2>3 DEF LoaderShape, SameLoad
  <2>5. SameLoad(l, q)
    BY <2>4 DEF SameLoad
  <2>6. \A k \in (n + 1)..(m + 1) : k = m + 1 \/ k \in (n + 1)..m
    BY <1>2
  <2>7. m + 1 \in (n + 1)..(m + 1) /\ (\A k \in (n + 1)..m : k \in 1..m /\ k \in (n + 1)..(m + 1)) /\ \A k \in 1..n : k \in 1..m
    BY <1>2
  <2>8. Len(q.pending) = m + 1 /\ q.pending[m + 1] = e /\ \A k \in 1..m : q.pending[k] = r.pending[k]
    BY <2>3, <2>4 DEF P
  <2>9. /\ \A k \in 1..n : r.pending[k] = l.pending[k]
        /\ \A k \in (n + 1)..m : r.pending[k].chain = chain /\ r.pending[k].f \in Range(ts) \ (l.visited \cup Range(chain))
    BY DEF Grown
  <2>10. t \in Range(ts) \ (l.visited \cup Range(chain))
    BY <1>2, <1>4
  <2>11. Grown(l, chain, ts, q)
    <3>1. \A k \in (n + 1)..(m + 1) : q.pending[k].chain = chain /\ q.pending[k].f \in Range(ts) \ (l.visited \cup Range(chain))
      BY <2>2, <2>6, <2>7, <2>8, <2>9, <2>10
    <3>2. \A k \in 1..n : q.pending[k] = l.pending[k]
      BY <2>7, <2>8, <2>9
    <3>3. m + 1 >= n
      BY <1>2
    <3> QED BY <2>4, <2>8, <3>1, <3>2, <3>3 DEF Grown
  <2>12. Dealt(l, chain, q, t)
    BY <2>2, <2>7, <2>8 DEF Dealt
  <2>13. ASSUME NEW u, Dealt(l, chain, r, u) PROVE Dealt(l, chain, q, u)
    <3>1. CASE \E k \in (n + 1)..m : r.pending[k].f = u
      BY <2>7, <2>8, <3>1 DEF Dealt
    <3>2. CASE ~(\E k \in (n + 1)..m : r.pending[k].f = u)
      BY <2>4, <2>13, <3>2 DEF Dealt
    <3> QED BY <3>1, <3>2
  <2> QED BY <2>5, <2>11, <2>12, <2>13 DEF q
<1>5. CASE t \notin Range(chain) /\ t \in r.visited
  <2>1. q = r
    BY <1>1, <1>5 DEF NestedImport
  <2>2. Dealt(l, chain, q, t)
    BY <1>2, <1>5 DEF Dealt
  <2> QED BY <2>1, <2>2
<1> QED BY <1>3, <1>4, <1>5

\* All of them.
LEMMA NestedAll ==
    ASSUME NEW l, LoaderShape(l), NEW chain \in Seq(SourceFiles), NEW ts \in Seq(SourceFiles)
    PROVE  LET r == NestedImports(l, chain, ts)
           IN  SameLoad(l, r) /\ Grown(l, chain, ts, r) /\ \A t \in Range(ts) : Dealt(l, chain, r, t)
<1> DEFINE n == Len(ts)
           r == NestedImports(l, chain, ts)
<1>1. n \in Nat /\ DOMAIN ts = 1..n /\ Range(ts) = {ts[i] : i \in 1..n}
  BY DEF Range
<1>2. PICK D : /\ r = D[n] /\ D[0] = l /\ \A i \in 1..n : D[i] = NestedImport(D[i - 1], chain, ts[i])
  BY NestedTurns
<1> HIDE DEF r
<1> DEFINE S == {i \in 0..n : SameLoad(l, D[i]) /\ Grown(l, chain, ts, D[i]) /\ \A j \in 1..i : Dealt(l, chain, D[i], ts[j])}
<1>3. 0 \in S
  <2>1. Len(l.pending) \in Nat
    BY DEF LoaderShape
  <2>2. SameLoad(l, l) /\ Grown(l, chain, ts, l)
    BY <2>1 DEF SameLoad, Grown
  <2>3. 0 \in 0..n /\ 1..0 = {}
    BY <1>1
  <2> QED BY <1>2, <2>2, <2>3
<1>4. ASSUME NEW i \in 1..n, i - 1 \in S PROVE i \in S
  <2> DEFINE p == D[i - 1]
             q == D[i]
  <2>1. SameLoad(l, p) /\ Grown(l, chain, ts, p) /\ \A j \in 1..(i - 1) : Dealt(l, chain, p, ts[j])
    BY <1>4
  <2>2. q = NestedImport(p, chain, ts[i]) /\ ts[i] \in Range(ts)
    BY <1>1, <1>2
  <2> HIDE DEF p, q
  <2>3. SameLoad(l, q) /\ Grown(l, chain, ts, q) /\ Dealt(l, chain, q, ts[i]) /\ \A u : Dealt(l, chain, p, u) => Dealt(l, chain, q, u)
    BY <2>1, <2>2, NestedOne
  <2>4. i \in 0..n /\ \A j \in 1..i : j = i \/ j \in 1..(i - 1)
    BY <1>1
  <2>5. \A j \in 1..i : Dealt(l, chain, q, ts[j])
    BY <2>1, <2>3, <2>4
  <2> QED BY <2>3, <2>4, <2>5 DEF q
<1> HIDE DEF S, n
<1>5. n \in S
  <2>1. n \in 0..n
    BY <1>1
  <2>2. \A i \in 0..n : i \in S
    BY <1>1, <1>3, <1>4, UpTo
  <2> QED BY <2>1, <2>2
<1>6. SameLoad(l, r) /\ Grown(l, chain, ts, r) /\ \A j \in 1..n : Dealt(l, chain, r, ts[j])
  BY <1>2, <1>5 DEF S
<1> QED BY <1>1, <1>6 DEF r

\* The first of a chain reaches the last.
LEMMA ChainReaches ==
    ASSUME NEW g \in [SourceFiles -> Seq(SourceFiles)], NEW C \in Seq(SourceFiles), NEW i \in 1..Len(C), NEW t \in ImportedIn(g, C[Len(C)]),
           \A j \in 1..(Len(C) - 1) : C[j + 1] \in ImportedIn(g, C[j])
    PROVE  t \in ReachedFrom(g, ImportedIn(g, C[i]))
<1> DEFINE n == Len(C)
           u == ImportedIn(g, C[i])
           R == ReachedFrom(g, u)
           S == {m \in 0..(n - i) : ImportedIn(g, C[i + m]) \subseteq R}
<1>1. n \in Nat /\ i \in 1..n /\ i \in Nat /\ n - i \in Nat /\ n - i \in 0..(n - i) /\ i + (n - i) = n /\ C[i] \in SourceFiles
  OBVIOUS
<1>2. u \subseteq R /\ \A x \in R : ImportedIn(g, x) \subseteq R
  <2>1. u \in SUBSET SourceFiles
    BY <1>1, ReachIs
  <2> HIDE DEF u
  <2> QED BY <2>1, ReachIs DEF ClosedFor
<1> HIDE DEF R, n
<1>3. 0 \in S
  BY <1>1, <1>2
<1>4. ASSUME NEW m \in 1..(n - i), m - 1 \in S PROVE m \in S
  <2>1. i + (m - 1) \in 1..(n - 1) /\ (i + (m - 1)) + 1 = i + m /\ m \in 0..(n - i)
    BY <1>1
  <2>2. C[i + m] \in ImportedIn(g, C[i + (m - 1)])
    BY <2>1 DEF n
  <2> QED BY <1>2, <1>4, <2>1, <2>2
<1> HIDE DEF S
<1>5. \A m \in 0..(n - i) : m \in S
  <2> DEFINE k == n - i
  <2>1. k \in Nat
    BY <1>1
  <2> HIDE DEF k
  <2> QED BY <2>1, <1>3, <1>4, UpTo DEF k
<1> QED BY <1>1, <1>5 DEF S, n, R

\* The chains depend on the stack, the modules visited and whether a cycle was met.
LEMMA Alike ==
    ASSUME NEW d, NEW r, r.prog = d.prog, r.pending = d.pending, r.visited = d.visited, r.order = d.order, NoCycle(r) <=> NoCycle(d)
    PROVE  /\ TopChain(r) = TopChain(d) /\ LoadedOK(r) = LoadedOK(d)
           /\ \A C : ChainsOK(d, C) => ChainsOK(r, C)
<1>1. TopChain(r) = TopChain(d)
  BY DEF TopChain
<1>2. Met(r) = Met(d) /\ Wanted(r) = Wanted(d)
  BY DEF Met, Wanted
<1>3. LoadedOK(r) = LoadedOK(d)
  BY <1>2 DEF LoadedOK
<1>4. ASSUME NEW C, ChainsOK(d, C) PROVE ChainsOK(r, C)
  <2>1. \A j : ImportsAt(r, C, j) = ImportsAt(d, C, j)
    BY DEF ImportsAt
  <2>2. ChainOK(r, C)
    BY <1>4, <2>1 DEF ChainsOK, ChainOK
  <2>3. PendingOK(r, C)
    BY <1>4, <2>1 DEF ChainsOK, PendingOK, EntryOK
  <2>4. Off(r, C) = Off(d, C)
    BY DEF Off
  <2>5. ASSUME NoCycle(d) PROVE OffOK(r, C) /\ \A j \in 0..Len(C) : LevelOK(r, C, j)
    <3>1. OffOK(d, C) /\ \A j \in 0..Len(C) : LevelOK(d, C, j)
      BY <1>4, <2>5 DEF ChainsOK
    <3> QED BY <3>1, <2>1, <2>4 DEF OffOK, LevelOK
  <2> QED BY <1>4, <2>2, <2>3, <2>5 DEF ChainsOK
<1> QED BY <1>1, <1>3, <1>4

\* The entry on top: the chain there is.
LEMMA TopIs ==
    ASSUME NEW l, LoaderShape(l), ChainsOK(l, TopChain(l)), l.pending # <<>>
    PROVE  LET P == l.pending
               N == Len(P)
               top == Last(P)
               C == TopChain(l)
           IN  /\ P \in Seq(StackEntries) /\ N \in Nat /\ N >= 1 /\ top = P[N] /\ top \in StackEntries /\ C = top.chain
               /\ C \in Seq(SourceFiles) /\ Len(C) \in Nat /\ top.f \in SourceFiles
               /\ top.f \in ImportsAt(l, C, Len(C)) /\ top.f \notin Range(C)
               /\ \A k \in 1..(N - 1) : EntryOK(l, C, P[k]) /\ Len(P[k].chain) \in 0..Len(C)
               /\ Front(P) \in Seq(StackEntries) /\ Len(Front(P)) = N - 1 /\ \A k \in 1..(N - 1) : Front(P)[k] = P[k]
<1> DEFINE P == l.pending
           N == Len(P)
           top == Last(P)
           C == TopChain(l)
<1>1. P \in Seq(StackEntries) /\ P # <<>>
  BY DEF LoaderShape
<1>2. Front(P) \in Seq(StackEntries) /\ Len(Front(P)) = N - 1 /\ (\A k \in 1..(N - 1) : Front(P)[k] = P[k]) /\ N \in Nat /\ N >= 1
  <2> DEFINE Q == P
  <2>1. Q \in Seq(StackEntries) /\ Q # <<>>
    BY <1>1
  <2> HIDE DEF Q
  <2>2. Front(Q) \in Seq(StackEntries) /\ Len(Front(Q)) = Len(Q) - 1 /\ (\A k \in 1..(Len(Q) - 1) : Front(Q)[k] = Q[k]) /\ Len(Q) \in Nat /\ Len(Q) >= 1
    BY <2>1, RangeFront
  <2> QED BY <2>2 DEF Q
<1>3. top = P[N] /\ top \in StackEntries /\ C = top.chain /\ N \in 1..N
  BY <1>1, <1>2 DEF Last, TopChain
<1>4. C \in Seq(SourceFiles) /\ Len(C) \in Nat /\ top.f \in SourceFiles
  BY <1>3 DEF StackEntries
<1>5. PendingOK(l, C)
  BY DEF ChainsOK
<1>6. EntryOK(l, C, top) /\ top.f \in ImportsAt(l, C, Len(C)) /\ top.f \notin Range(C)
  BY <1>3, <1>5 DEF PendingOK, EntryOK
<1>7. ASSUME NEW k \in 1..(N - 1) PROVE EntryOK(l, C, P[k]) /\ Len(P[k].chain) \in 0..Len(C)
  <2>1. k \in 1..N /\ P[k] \in StackEntries
    BY <1>1, <1>2
  <2>2. EntryOK(l, C, P[k]) /\ Len(P[k].chain) \in Nat
    BY <1>5, <2>1 DEF PendingOK, StackEntries
  <2> QED BY <1>4, <2>2 DEF EntryOK
<1> QED BY <1>1, <1>2, <1>3, <1>4, <1>6, <1>7

\* A module that was visited meanwhile is dropped.
LEMMA PopVisited ==
    ASSUME NEW l, LoaderShape(l), ChainsOK(l, TopChain(l)), LoadedOK(l), l.pending # <<>>, Last(l.pending).f \in l.visited
    PROVE  LET r == [l EXCEPT !.pending = Front(@)]
           IN  /\ LoaderShape(r) /\ r.names = l.names /\ r.items = l.items /\ r.phase = l.phase
               /\ ChainsOK(r, TopChain(l)) /\ LoadedOK(r)
<1> DEFINE P == l.pending
           N == Len(P)
           f == Last(P).f
           C == TopChain(l)
           r == [l EXCEPT !.pending = Front(@)]
           L == Len(C)
<1>1. /\ P \in Seq(StackEntries) /\ N \in Nat /\ N >= 1 /\ Last(P) = P[N] /\ C = P[N].chain
      /\ C \in Seq(SourceFiles) /\ L \in Nat /\ f \in SourceFiles /\ f = P[N].f /\ f \notin Range(C)
      /\ \A k \in 1..(N - 1) : EntryOK(l, C, P[k])
      /\ Front(P) \in Seq(StackEntries) /\ Len(Front(P)) = N - 1 /\ \A k \in 1..(N - 1) : Front(P)[k] = P[k]
  BY TopIs
<1>2. /\ LoaderShape(r) /\ r.prog = l.prog /\ r.visited = l.visited /\ r.errs = l.errs /\ r.order = l.order /\ r.pending = Front(P)
      /\ r.names = l.names /\ r.items = l.items /\ r.phase = l.phase
  BY <1>1 DEF LoaderShape
<1>a. f \in l.visited
  OBVIOUS
<1> HIDE DEF r, f, C
<1>3. Len(r.pending) = N - 1 /\ \A k \in 1..(N - 1) : r.pending[k] = P[k] /\ k \in 1..N
  BY <1>1, <1>2
<1>4. \A k \in 1..N : k = N \/ k \in 1..(N - 1)
  BY <1>1
<1>5. \A j : ImportsAt(r, C, j) = ImportsAt(l, C, j)
  BY <1>2 DEF ImportsAt
<1>6. ChainsOK(l, C)
  BY DEF C
<1>7. ChainOK(r, C)
  BY <1>2, <1>5, <1>6 DEF ChainsOK, ChainOK
<1>8. PendingOK(r, C)
  <2>1. PendingOK(l, C)
    BY <1>6 DEF ChainsOK
  <2>2. \A k \in 1..(N - 1) : EntryOK(r, C, r.pending[k])
    BY <1>1, <1>3, <1>5 DEF EntryOK
  <2>3. \A i, j \in 1..(N - 1) : i <= j => Len(r.pending[i].chain) <= Len(r.pending[j].chain)
    BY <1>3, <2>1 DEF PendingOK
  <2> QED BY <1>3, <2>2, <2>3 DEF PendingOK
<1>9. Off(r, C) = Off(l, C) /\ f \in Off(l, C)
  BY <1>1, <1>2, <1>a DEF Off
<1>10. ASSUME NoCycle(r) PROVE OffOK(r, C) /\ \A j \in 0..L : LevelOK(r, C, j)
  <2>1. OffOK(l, C) /\ \A j \in 0..L : LevelOK(l, C, j)
    BY <1>2, <1>6, <1>10 DEF ChainsOK, NoCycle
  <2>2. OffOK(r, C)
    BY <1>2, <1>9, <2>1 DEF OffOK
  <2>3. ASSUME NEW j \in 0..L, NEW t \in ImportsAt(r, C, j)
        PROVE  \/ t \in Off(r, C)
               \/ j < L /\ t = C[j + 1]
               \/ \E k \in 1..(N - 1) : r.pending[k].f = t /\ Len(r.pending[k].chain) = j
    <3>1. \/ t \in Off(l, C)
          \/ j < L /\ t = C[j + 1]
          \/ \E k \in 1..N : P[k].f = t /\ Len(P[k].chain) = j
      BY <1>5, <2>1, <2>3 DEF LevelOK
    <3>2. (\E k \in 1..N : P[k].f = t /\ Len(P[k].chain) = j)
             => t = f \/ \E k \in 1..(N - 1) : P[k].f = t /\ Len(P[k].chain) = j
      BY <1>1, <1>4
    <3> QED BY <1>3, <1>9, <3>1, <3>2
  <2> QED BY <1>3, <2>2, <2>3 DEF LevelOK
<1>11. ChainsOK(r, C)
  BY <1>1, <1>7, <1>8, <1>10 DEF ChainsOK
<1>12. LoadedOK(r)
  <2>1. Met(l) \subseteq Met(r) /\ Wanted(r) = Wanted(l)
    <3>1. \A k \in 1..N : P[k].f \in l.visited \/ \E m \in 1..(N - 1) : P[k].f = r.pending[m].f
      BY <1>1, <1>a, <1>3, <1>4
    <3>2. \A m \in 1..(N - 1) : r.pending[m].f \in Met(r)
      BY <1>3 DEF Met
    <3>3. l.visited \subseteq Met(r)
      BY <1>2 DEF Met
    <3>4. Met(l) = l.visited \cup {P[k].f : k \in 1..N}
      BY DEF Met
    <3>5. Met(l) \subseteq Met(r)
      BY <3>1, <3>2, <3>3, <3>4
    <3> QED BY <1>2, <3>5 DEF Wanted
  <2>2. NoCycle(r) = NoCycle(l)
    BY <1>2 DEF NoCycle
  <2> QED BY <1>2, <2>1, <2>2 DEF LoadedOK
<1> QED BY <1>2, <1>11, <1>12 DEF r, C

\* What stands in a sequence stands at one of its places.
LEMMA ElementsAt ==
    ASSUME NEW S, NEW s \in Seq(S)
    PROVE  /\ Len(s) \in Nat /\ \A k \in 1..Len(s) : s[k] \in Range(s)
           /\ \A x \in Range(s) : \E k \in 1..Len(s) : x = s[k]
  BY DEF Range

\* The places of a stack of which all but the top one are kept: kept ones and new ones.
LEMMA Spans ==
    ASSUME NEW n \in Nat, n >= 1, NEW k \in Nat, k >= n - 1
    PROVE  /\ \A i \in 1..k : i \in 1..(n - 1) \/ i \in n..k
           /\ \A i \in 1..(n - 1) : i \in 1..k /\ i \in 1..n
           /\ \A i \in n..k : i \in 1..k
           /\ \A i \in 1..n : i = n \/ i \in 1..(n - 1)
           /\ (n - 1) + 1 = n
OBVIOUS

\* A module that is read: what its imports brought hangs on the chain with it.
LEMMA PopRead ==
    ASSUME NEW l, LoaderShape(l), ChainsOK(l, TopChain(l)), LoadedOK(l), l.pending # <<>>,
           NEW f, f = Last(l.pending).f, f \notin l.visited, NEW C, C = Append(TopChain(l), f),
           NEW m, m.pending = Front(l.pending), m.visited = l.visited \cup {f}, m.errs = l.errs,
           NEW r, LoaderShape(r), r.prog = l.prog, r.visited = l.visited \cup {f}, r.order = Append(l.order, f),
           Grown(m, C, l.prog.imports[f], r), \A t \in Range(l.prog.imports[f]) : Dealt(m, C, r, t)
    PROVE  ChainsOK(r, C) /\ LoadedOK(r)
<1> DEFINE P == l.pending
           N == Len(P)
           B == TopChain(l)
           L == Len(B)
           g == l.prog.imports
           Q == r.pending
           M == Len(Q)
<1>1. /\ P \in Seq(StackEntries) /\ N \in Nat /\ N >= 1 /\ f = P[N].f /\ B = P[N].chain
      /\ B \in Seq(SourceFiles) /\ L \in Nat /\ f \in SourceFiles /\ f \in ImportsAt(l, B, L) /\ f \notin Range(B)
      /\ \A k \in 1..(N - 1) : EntryOK(l, B, P[k]) /\ Len(P[k].chain) \in 0..L
      /\ Front(P) \in Seq(StackEntries) /\ Len(Front(P)) = N - 1 /\ \A k \in 1..(N - 1) : Front(P)[k] = P[k]
  BY TopIs
<1>L. L \in Nat
  BY <1>1
<1>N. N \in Nat /\ N >= 1 /\ L \in Nat
  BY <1>1
<1>Y. B \in Seq(SourceFiles) /\ L \in Nat /\ f \in SourceFiles
  BY <1>1
<1>T. f = P[N].f /\ B = P[N].chain /\ f \in ImportsAt(l, B, L) /\ f \notin Range(B)
  BY <1>1
<1>E. \A k \in 1..(N - 1) : EntryOK(l, B, P[k]) /\ Len(P[k].chain) \in 0..L
  BY <1>1
<1>Q. Len(Front(P)) = N - 1 /\ \A k \in 1..(N - 1) : Front(P)[k] = P[k]
  BY <1>1
<1>2. m.pending = Front(P) /\ m.visited = l.visited \cup {f} /\ m.errs = l.errs
  OBVIOUS
<1>3. /\ C \in Seq(SourceFiles) /\ Len(C) = L + 1 /\ Range(C) = Range(B) \cup {f} /\ C[L + 1] = f /\ \A k \in 1..L : C[k] = B[k]
  <2> DEFINE s == B
             x == f
  <2>1. s \in Seq(SourceFiles) /\ x \in SourceFiles
    BY <1>Y
  <2> HIDE DEF s, x
  <2>2. /\ Append(s, x) \in Seq(SourceFiles) /\ Len(Append(s, x)) = Len(s) + 1 /\ Range(Append(s, x)) = Range(s) \cup {x}
        /\ Append(s, x)[Len(s) + 1] = x /\ \A k \in 1..Len(s) : Append(s, x)[k] = s[k]
    BY <2>1, RangeAppend
  <2> QED BY <2>2 DEF s, x
<1>4. g \in [SourceFiles -> Seq(SourceFiles)] /\ Range(g[f]) = ImportedIn(g, f) /\ r.prog.imports = g
  BY ProjectFiles DEF LoaderShape, Range, ImportedIn
<1>5. Grown(m, C, g[f], r) /\ \A t \in ImportedIn(g, f) : Dealt(m, C, r, t)
  BY <1>4
<1>6. f \notin l.visited /\ r.visited = l.visited \cup {f} /\ r.order = Append(l.order, f) /\ r.prog = l.prog
  OBVIOUS
<1>7. ChainsOK(l, B) /\ LoadedOK(l)
  OBVIOUS
<1> HIDE DEF B, g
<1>8. /\ M \in Nat /\ M >= N - 1 /\ Q \in Seq(StackEntries)
      /\ \A k \in 1..(N - 1) : Q[k] = P[k]
      /\ \A k \in N..M : Q[k].chain = C /\ Q[k].f \in ImportedIn(g, f) /\ Q[k].f \notin r.visited /\ Q[k].f \notin Range(C)
      /\ l.errs \subseteq r.errs
      /\ \A e \in r.errs \ l.errs : \E t \in ImportedIn(g, f) \cap Range(C) : e = <<"cycle", Last(C), t>>
  <2>1. Q \in Seq(StackEntries) /\ M \in Nat
    BY DEF LoaderShape
  <2>2. Len(m.pending) = N - 1 /\ (N - 1) + 1 = N /\ \A k \in 1..(N - 1) : m.pending[k] = P[k]
    BY <1>N, <1>2, <1>Q
  <2>3. M >= N - 1 /\ (\A k \in 1..(N - 1) : Q[k] = P[k]) /\ l.errs \subseteq r.errs
    BY <1>2, <1>5, <2>2 DEF Grown
  <2>4. \A k \in N..M : Q[k].chain = C /\ Q[k].f \in Range(g[f]) \ (m.visited \cup Range(C))
    BY <1>5, <2>2 DEF Grown
  <2>5. \A e \in r.errs \ l.errs : \E t \in Range(g[f]) \cap Range(C) : e = <<"cycle", Last(C), t>>
    BY <1>2, <1>5 DEF Grown
  <2>6. \A k \in N..M : Q[k].chain = C /\ Q[k].f \in ImportedIn(g, f) /\ Q[k].f \notin r.visited /\ Q[k].f \notin Range(C)
    <3>1. Range(g[f]) = ImportedIn(g, f) /\ m.visited = r.visited
      BY <1>2, <1>4, <1>6
    <3> QED BY <2>4, <3>1
  <2>7. \A e \in r.errs \ l.errs : \E t \in ImportedIn(g, f) \cap Range(C) : e = <<"cycle", Last(C), t>>
    <3>1. Range(g[f]) = ImportedIn(g, f)
      BY <1>4
    <3> QED BY <2>5, <3>1
  <2> QED BY ZenonT(60), <2>1, <2>3, <2>6, <2>7
<1>M. M \in Nat /\ M >= N - 1
  BY <1>8
<1>9. ASSUME NEW t \in ImportedIn(g, f)
      PROVE  \/ t \in Range(C) /\ <<"cycle", Last(C), t>> \in r.errs
             \/ t \in r.visited \ Range(C)
             \/ \E k \in N..M : Q[k].f = t
  <2>1. Dealt(m, C, r, t) /\ m.visited = r.visited
    BY ZenonT(60), <1>2, <1>5, <1>6
  <2>2. Len(m.pending) = N - 1
    BY ZenonT(60), <1>2, <1>Q
  <2>3. (N - 1) + 1 = N
    BY ZenonT(60), <1>N, <1>M, Spans
  <2> QED BY <2>1, <2>2, <2>3 DEF Dealt
<1>10. \A k \in 1..M : k \in 1..(N - 1) \/ k \in N..M
  BY ZenonT(60), <1>N, <1>M, Spans
<1>11. (\A k \in 1..(N - 1) : k \in 1..M /\ k \in 1..N) /\ (\A k \in N..M : k \in 1..M) /\ \A k \in 1..N : k = N \/ k \in 1..(N - 1)
  BY ZenonT(60), <1>N, <1>M, Spans
<1>12. (\A j \in 0..L : ImportsAt(r, C, j) = ImportsAt(l, B, j)) /\ ImportsAt(r, C, L + 1) = ImportedIn(g, f)
  <2>1. (\A j \in 0..L : j = 0 \/ j \in 1..L) /\ L + 1 # 0
    BY <1>N
  <2>2. \A j \in 0..L : ImportsAt(r, C, j) = ImportsAt(l, B, j)
    BY <1>3, <1>6, <2>1 DEF ImportsAt
  <2> QED BY <1>3, <1>4, <2>1, <2>2 DEF ImportsAt
<1>13. ChainOK(r, C)
  <2>1. ChainOK(l, B)
    BY <1>7 DEF ChainsOK
  <2>2. Range(C) \subseteq r.visited
    BY <1>3, <1>6, <2>1 DEF ChainOK
  <2>3. \A k \in 1..(L + 1) : k = L + 1 \/ k \in 1..L
    BY <1>N
  <2>4. ASSUME NEW k \in 1..L PROVE B[k] # f
    <3>1. B[k] \in Range(B)
      BY ZenonT(60), <1>Y, ElementsAt
    <3> QED BY ZenonT(60), <1>T, <3>1
  <2>5. ASSUME NEW i \in 1..(L + 1), NEW j \in 1..(L + 1), C[i] = C[j] PROVE i = j
    <3>1. CASE i \in 1..L /\ j \in 1..L
      BY <1>3, <2>1, <2>5, <3>1 DEF ChainOK
    <3>2. CASE i = L + 1 \/ j = L + 1
      BY <1>3, <2>3, <2>4, <2>5, <3>2
    <3> QED BY <2>3, <3>1, <3>2
  <2>6. ASSUME NEW j \in 1..(L + 1) PROVE C[j] \in ImportsAt(r, C, j - 1)
    <3>1. CASE j = L + 1
      <4>1. j - 1 = L /\ L \in 0..L
        BY <1>N, <3>1
      <4>2. C[j] \in ImportsAt(l, B, L)
        BY ZenonT(60), <1>3, <1>T, <3>1
      <4>3. ImportsAt(r, C, j - 1) = ImportsAt(l, B, L)
        BY ZenonT(60), <1>12, <4>1
      <4> QED BY ZenonT(60), <4>2, <4>3
    <3>2. CASE j # L + 1
      <4>1. j \in 1..L /\ j - 1 \in 0..L
        BY <1>L, <3>2
      <4> QED BY <1>3, <1>12, <2>1, <4>1 DEF ChainOK
    <3> QED BY <3>1, <3>2
  <2>7. Len(C) = L + 1
    BY <1>3
  <2>8. \A i, j \in 1..Len(C) : C[i] = C[j] => i = j
    BY <2>5, <2>7
  <2>9. \A j \in 1..Len(C) : C[j] \in ImportsAt(r, C, j - 1)
    BY <2>6, <2>7
  <2> QED BY ZenonT(60), <2>2, <2>8, <2>9 DEF ChainOK
<1>14. PendingOK(r, C)
  <2>1. ASSUME NEW k \in 1..(N - 1) PROVE EntryOK(r, C, Q[k]) /\ Len(Q[k].chain) \in 0..L
    <3> DEFINE e == P[k]
               n == Len(e.chain)
    <3>1. EntryOK(l, B, e) /\ n \in 0..L /\ Q[k] = e
      BY <1>E, <1>8
    <3> HIDE DEF e
    <3>2. n <= L + 1 /\ (\A i \in 1..n : i \in 1..L) /\ ImportsAt(r, C, n) = ImportsAt(l, B, n)
      BY <1>L, <1>12, <3>1
    <3>3. Cut(C, n) = Cut(B, n)
      BY <1>3, <3>2 DEF Cut
    <3> QED BY <1>3, <3>1, <3>2, <3>3 DEF EntryOK
  <2>2. ASSUME NEW k \in N..M PROVE EntryOK(r, C, Q[k]) /\ Len(Q[k].chain) = L + 1
    <3>1. Cut(C, L + 1) = C
      <4>1. L + 1 \in 0..Len(C)
        BY <1>L, <1>3
      <4> QED BY <1>3, <4>1, CutIs
    <3>2. Len(C) <= Len(C)
      BY <1>N, <1>3
    <3> QED BY ZenonT(60), <1>3, <1>8, <1>12, <3>1, <3>2 DEF EntryOK
  <2>3. ASSUME NEW i \in 1..M, NEW j \in 1..M, i <= j PROVE Len(Q[i].chain) <= Len(Q[j].chain)
    <3>1. CASE i \in 1..(N - 1) /\ j \in 1..(N - 1)
      <4>1. PendingOK(l, B) /\ i \in 1..N /\ j \in 1..N /\ Q[i] = P[i] /\ Q[j] = P[j]
        BY <1>7, <1>8, <1>11, <3>1 DEF ChainsOK
      <4> QED BY <2>3, <4>1 DEF PendingOK
    <3>2. CASE j \in N..M
      <4>1. Len(Q[j].chain) = L + 1
        BY <2>2, <3>2
      <4>2. Len(Q[i].chain) \in 0..L \/ Len(Q[i].chain) = L + 1
        BY <1>10, <2>1, <2>2
      <4> QED BY <1>L, <4>1, <4>2
    <3>3. ~(i \in N..M /\ j \in 1..(N - 1))
      BY <1>N, <2>3
    <3> QED BY <1>10, <3>1, <3>2, <3>3
  <2> QED BY <1>10, <2>1, <2>2, <2>3 DEF PendingOK
<1>15. ASSUME NoCycle(r) PROVE OffOK(r, C) /\ \A j \in 0..(L + 1) : LevelOK(r, C, j)
  <2>1. NoCycle(l)
    BY <1>8, <1>15 DEF NoCycle
  <2>2. OffOK(l, B) /\ \A j \in 0..L : LevelOK(l, B, j)
    BY <1>7, <2>1 DEF ChainsOK
  <2>3. Off(r, C) = Off(l, B)
    BY <1>3, <1>6 DEF Off
  <2>4. OffOK(r, C)
    BY <1>6, <2>2, <2>3 DEF OffOK
  <2>5. ASSUME NEW j \in 0..L PROVE LevelOK(r, C, j)
    <3> SUFFICES ASSUME NEW t \in ImportsAt(l, B, j)
                 PROVE  \/ t \in Off(l, B)
                        \/ j < L + 1 /\ t = C[j + 1]
                        \/ \E k \in 1..M : Q[k].f = t /\ Len(Q[k].chain) = j
      BY <1>3, <1>12, <2>3 DEF LevelOK
    <3>1. \/ t \in Off(l, B)
          \/ j < L /\ t = B[j + 1]
          \/ \E k \in 1..N : P[k].f = t /\ Len(P[k].chain) = j
      BY <2>2 DEF LevelOK
    <3>2. j < L => j < L + 1 /\ C[j + 1] = B[j + 1]
      <4>1. j < L => j < L + 1 /\ j + 1 \in 1..L
        BY <1>N
      <4> QED BY <1>3, <4>1
    <3>3. CASE P[N].f = t /\ Len(P[N].chain) = j
      <4>1. t = f /\ j = L /\ j < L + 1 /\ C[j + 1] = f
        BY <1>T, <1>L, <1>3, <3>3
      <4> QED BY <4>1
    <3>4. CASE \E k \in 1..(N - 1) : P[k].f = t /\ Len(P[k].chain) = j
      BY <1>8, <1>11, <3>4
    <3>5. (\E k \in 1..N : P[k].f = t /\ Len(P[k].chain) = j)
             => \/ P[N].f = t /\ Len(P[N].chain) = j
                \/ \E k \in 1..(N - 1) : P[k].f = t /\ Len(P[k].chain) = j
      BY <1>11
    <3> QED BY <3>1, <3>2, <3>3, <3>4, <3>5
  <2>6. LevelOK(r, C, L + 1)
    <3> SUFFICES ASSUME NEW t \in ImportedIn(g, f)
                 PROVE  t \in Off(r, C) \/ \E k \in 1..M : Q[k].f = t /\ Len(Q[k].chain) = L + 1
      BY <1>12 DEF LevelOK
    <3>1. ~(t \in Range(C) /\ <<"cycle", Last(C), t>> \in r.errs)
      BY <1>15 DEF NoCycle
    <3>2. CASE t \in r.visited \ Range(C)
      BY <3>2 DEF Off
    <3>3. CASE \E k \in N..M : Q[k].f = t
      BY ZenonT(60), <1>3, <1>8, <1>11, <3>3
    <3> QED BY <1>9, <3>1, <3>2, <3>3
  <2>7. \A j \in 0..(L + 1) : j = L + 1 \/ j \in 0..L
    BY <1>L
  <2> QED BY <2>4, <2>5, <2>6, <2>7
<1>16. ChainsOK(r, C)
  BY <1>3, <1>13, <1>14, <1>15 DEF ChainsOK
<1>17. Wanted(r) = Wanted(l) /\ f \in Wanted(l) /\ Wanted(l) \subseteq SourceFiles /\ ClosedFor(g, Wanted(l))
  <2> DEFINE u == ImportedIn(g, Main)
  <2>1. Main \in SourceFiles
    BY DEF SourceFiles
  <2>2. u \in SUBSET SourceFiles
    BY <1>4, <2>1, ReachIs
  <2>3. Wanted(l) = ReachedFrom(g, u) /\ Wanted(r) = ReachedFrom(g, u)
    BY <1>4 DEF Wanted, g
  <2> HIDE DEF u
  <2>4. u \subseteq ReachedFrom(g, u) /\ ReachedFrom(g, u) \subseteq SourceFiles /\ ClosedFor(g, ReachedFrom(g, u))
    BY <1>4, <2>2, ReachIs
  <2>5. CASE L = 0
    <3>1. f \in u
      BY <1>T, <2>5 DEF ImportsAt, u, g
    <3> QED BY <2>3, <2>4, <3>1
  <2>6. CASE L # 0
    <3>1. L \in 1..L /\ L \in DOMAIN B
      BY <1>Y, <2>6
    <3>2. B[L] \in Range(B)
      BY <3>1 DEF Range
    <3>3. B[L] \in l.visited
      BY <1>7, <3>2 DEF ChainsOK, ChainOK
    <3>4. B[L] \in Wanted(l)
      BY <1>7, <3>3 DEF LoadedOK
    <3>5. f \in ImportedIn(g, B[L])
      BY <1>T, <2>6 DEF ImportsAt, g
    <3> QED BY <2>3, <2>4, <3>4, <3>5 DEF ClosedFor
  <2> QED BY <2>3, <2>4, <2>5, <2>6
<1>18. Met(l) \subseteq Met(r) /\ ImportedIn(g, f) \subseteq Met(r)
  <2>1. r.visited \subseteq Met(r) /\ \A k \in 1..M : Q[k].f \in Met(r)
    BY DEF Met
  <2>2. \A k \in 1..N : P[k].f \in Met(r)
    BY <1>T, <1>6, <1>8, <1>11, <2>1
  <2>3. Met(l) = l.visited \cup {P[k].f : k \in 1..N}
    BY DEF Met
  <2>4. Met(l) \subseteq Met(r)
    BY <1>6, <2>1, <2>2, <2>3
  <2>5. Range(C) \subseteq r.visited
    BY <1>13 DEF ChainOK
  <2>6. ASSUME NEW t \in ImportedIn(g, f) PROVE t \in Met(r)
    <3>1. CASE t \in Range(C) \/ t \in r.visited \ Range(C)
      BY <2>1, <2>5, <3>1
    <3>2. CASE \E k \in N..M : Q[k].f = t
      <4>1. PICK k \in N..M : Q[k].f = t
        BY <3>2
      <4>2. k \in 1..M
        BY <1>11
      <4> QED BY ZenonT(60), <2>1, <4>1, <4>2
    <3> QED BY <1>9, <3>1, <3>2
  <2> QED BY <2>4, <2>6
<1>19. Range(r.order) = r.visited /\ \A j, k \in 1..Len(r.order) : r.order[j] = r.order[k] => j = k
  <2> DEFINE s == l.order
             q == r.order
             n == Len(s)
  <2>1. s \in Seq(SourceFiles) /\ Range(s) = l.visited /\ \A j, k \in 1..n : s[j] = s[k] => j = k
    BY <1>7 DEF LoaderShape, LoadedOK
  <2>2. q = Append(s, f)
    BY <1>6
  <2> HIDE DEF s, q
  <2>3. /\ n \in Nat /\ Len(q) = n + 1 /\ Range(q) = Range(s) \cup {f} /\ q[n + 1] = f /\ \A k \in 1..n : q[k] = s[k]
    BY <1>Y, <2>1, <2>2, RangeAppend
  <2>4. \A k \in 1..n : s[k] # f
    <3>1. \A k \in 1..n : s[k] \in Range(s)
      BY ZenonT(60), <2>1, ElementsAt
    <3> QED BY <1>6, <2>1, <3>1
  <2>5. \A k \in 1..(n + 1) : k = n + 1 \/ k \in 1..n
    BY <2>3
  <2>6. ASSUME NEW j \in 1..(n + 1), NEW k \in 1..(n + 1), q[j] = q[k] PROVE j = k
    <3>1. CASE j \in 1..n /\ k \in 1..n
      BY <2>1, <2>3, <2>6, <3>1
    <3>2. CASE j = n + 1 \/ k = n + 1
      BY <2>3, <2>4, <2>5, <2>6, <3>2
    <3> QED BY <2>5, <3>1, <3>2
  <2>7. Range(q) = r.visited
    BY <1>6, <2>1, <2>3
  <2> QED BY <2>3, <2>6, <2>7 DEF q
<1>20. ASSUME ~NoCycle(r) PROVE \E x \in Wanted(r) : x \in ReachedFrom(g, ImportedIn(g, x))
  <2>1. CASE ~NoCycle(l)
    BY <1>7, <1>17, <2>1 DEF LoadedOK, g
  <2>2. CASE NoCycle(l)
    <3>1. PICK t \in ImportedIn(g, f) : t \in Range(C)
      BY <1>8, <1>20, <2>2 DEF NoCycle
    <3>2. PICK i \in 1..(L + 1) : t = C[i]
      <4>1. Len(C) = L + 1 /\ C \in Seq(SourceFiles)
        BY <1>3
      <4>2. \E i \in 1..Len(C) : t = C[i]
        BY ZenonT(60), <3>1, <4>1, ElementsAt
      <4> QED BY <4>1, <4>2
    <3>3. \A j \in 1..L : C[j + 1] \in ImportedIn(g, C[j])
      <4>1. \A j \in 1..L : j + 1 \in 1..(L + 1) /\ (j + 1) - 1 = j /\ j # 0
        BY <1>L
      <4>2. Len(C) = L + 1 /\ r.prog.imports = g
        BY <1>3, <1>4
      <4>3. \A j \in 1..(L + 1) : C[j] \in ImportsAt(r, C, j - 1)
        BY ZenonT(60), <1>13, <4>2 DEF ChainOK
      <4>4. \A j \in 1..L : ImportsAt(r, C, j) = ImportedIn(g, C[j])
        BY ZenonT(60), <4>1, <4>2 DEF ImportsAt
      <4> SUFFICES ASSUME NEW j \in 1..L PROVE C[j + 1] \in ImportedIn(g, C[j])
        OBVIOUS
      <4>5. C[j + 1] \in ImportsAt(r, C, (j + 1) - 1)
        BY ZenonT(60), <4>1, <4>3
      <4>6. (j + 1) - 1 = j /\ ImportsAt(r, C, j) = ImportedIn(g, C[j])
        BY ZenonT(60), <4>1, <4>4
      <4> QED BY ZenonT(60), <4>5, <4>6
    <3>4. t \in ReachedFrom(g, ImportedIn(g, C[i]))
      <4>1. i \in 1..Len(C) /\ t \in ImportedIn(g, C[Len(C)]) /\ Len(C) - 1 = L
        <5>1. Len(C) = L + 1 /\ C[L + 1] = f
          BY <1>3
        <5>2. (L + 1) - 1 = L
          BY <1>L
        <5> QED BY ZenonT(60), <3>1, <5>1, <5>2
      <4>2. \A j \in 1..(Len(C) - 1) : C[j + 1] \in ImportedIn(g, C[j])
        BY <3>3, <4>1
      <4> QED BY <1>3, <1>4, <4>1, <4>2, ChainReaches
    <3>5. t \in Wanted(r)
      BY <1>17, <3>1 DEF ClosedFor
    <3> QED BY <3>2, <3>4, <3>5
  <2> QED BY <2>1, <2>2
<1>21. LoadedOK(r)
  <2>1. r.visited \subseteq Wanted(r)
    BY <1>6, <1>7, <1>17 DEF LoadedOK
  <2>2. ImportedIn(g, Main) \subseteq Met(r)
    BY <1>7, <1>18 DEF LoadedOK, g
  <2>3. \A v \in r.visited : ImportedIn(g, v) \subseteq Met(r)
    BY <1>6, <1>7, <1>18 DEF LoadedOK, g
  <2> QED BY <1>4, <1>19, <1>20, <2>1, <2>2, <2>3 DEF LoadedOK
<1> QED BY <1>16, <1>21

\* The items: each has its name taken, no two have the same, and the methods the
\* standard module defines on a type of its that came in have theirs taken too.
ItemsKeyed(d) == \A x \in d.items : Key(x) \in d.names /\ \A y \in d.items : Key(x) = Key(y) => x = y
MethodsCame(d) ==
    \A ty \in d.items, it \in StdItems :
        ty \in StdItems /\ ty.kind = "type" /\ it.kind = "fn" /\ it.assoc = ty.n => Key(it) \in d.names
ItemsOK(d) == ItemsKeyed(d) /\ MethodsCame(d)
\* What importing items leaves alone.
KeptItems(l, r) ==
    /\ LoaderShape(r) /\ r.prog = l.prog /\ r.phase = l.phase /\ r.visited = l.visited /\ r.pending = l.pending
    /\ r.errs = l.errs /\ r.order = l.order

\* Taking items in.
LEMMA TakeIs ==
    ASSUME NEW l, LoaderShape(l), ItemsKeyed(l), NEW wanted
    PROVE  LET r == Take(l, wanted)
           IN  /\ KeptItems(l, r) /\ ItemsKeyed(r) /\ r.names = l.names \cup {Key(it) : it \in wanted}
               /\ \A x \in r.items : x \in l.items \/ x \in wanted
<1> DEFINE r == Take(l, wanted)
           new == {Key(it) : it \in wanted} \ l.names
           Pick(k) == CHOOSE it \in wanted : Key(it) = k
           got == {Pick(k) : k \in new}
<1>1. r = [l EXCEPT !.names = @ \cup new, !.items = @ \cup got]
  BY DEF Take
<1>2. \A k \in new : Pick(k) \in wanted /\ Key(Pick(k)) = k
  OBVIOUS
<1>3. new \subseteq {Key(it) : it \in wanted} /\ l.names \cup new = l.names \cup {Key(it) : it \in wanted} /\ \A k \in new : k \notin l.names
  OBVIOUS
<1> HIDE DEF r, new, Pick
<1>4. /\ LoaderShape(r) /\ r.prog = l.prog /\ r.phase = l.phase /\ r.visited = l.visited /\ r.pending = l.pending
      /\ r.errs = l.errs /\ r.order = l.order /\ r.names = l.names \cup new /\ r.items = l.items \cup got
  <2> HIDE DEF got
  <2> QED BY <1>1 DEF LoaderShape
<1>5. \A x \in got : x \in wanted /\ Key(x) \in new /\ x = Pick(Key(x))
  BY <1>2
<1> HIDE DEF got
<1>6. ItemsKeyed(r)
  <2>1. \A x \in r.items : x \in l.items \/ x \in got
    BY <1>4
  <2>2. \A x \in r.items : Key(x) \in r.names
    BY <1>4, <1>5, <2>1 DEF ItemsKeyed
  <2>3. ASSUME NEW x \in r.items, NEW y \in r.items, Key(x) = Key(y) PROVE x = y
    <3>1. CASE x \in l.items /\ y \in l.items
      BY <2>3, <3>1 DEF ItemsKeyed
    <3>2. CASE x \in got /\ y \in got
      BY <1>5, <2>3, <3>2
    <3>3. \A u \in l.items : \A v \in got : Key(u) # Key(v)
      BY <1>3, <1>5 DEF ItemsKeyed
    <3> QED BY <2>1, <2>3, <3>1, <3>2, <3>3
  <2> QED BY <2>2, <2>3 DEF ItemsKeyed
<1> QED BY <1>3, <1>4, <1>5, <1>6 DEF KeptItems, r

\* From the standard module and from a module of the project.
LEMMA StdIs ==
    ASSUME NEW l, LoaderShape(l), ItemsOK(l), NEW asked
    PROVE  KeptItems(l, ImportStd(l, asked)) /\ ItemsOK(ImportStd(l, asked))
<1> DEFINE types == TypeNames({x \in StdItems : All \in asked \/ x.n \in asked}) \cup TypeNames(l.items)
           wanted == {it \in StdItems : WantedStd(it, asked, types)}
           r == Take(l, wanted)
<1>1. ImportStd(l, asked) = r
  BY DEF ImportStd
<1>2. \A ty \in StdItems : ty.kind = "type" /\ (All \in asked \/ ty.n \in asked) => ty.n \in types
  BY DEF TypeNames
<1>3. \A it \in wanted : it \in StdItems /\ WantedStd(it, asked, types)
  OBVIOUS
<1>4. \A it \in StdItems : WantedStd(it, asked, types) => it \in wanted
  OBVIOUS
<1> HIDE DEF types, wanted
<1>5. /\ KeptItems(l, r) /\ ItemsKeyed(r) /\ r.names = l.names \cup {Key(it) : it \in wanted}
      /\ \A x \in r.items : x \in l.items \/ x \in wanted
  BY TakeIs DEF ItemsOK
<1> HIDE DEF r
<1>6. ASSUME NEW ty \in r.items, NEW it \in StdItems, ty \in StdItems, ty.kind = "type", it.kind = "fn", it.assoc = ty.n
      PROVE  Key(it) \in r.names
  <2>1. CASE ty \in l.items
    BY <1>5, <1>6, <2>1 DEF ItemsOK, MethodsCame
  <2>2. CASE ty \in wanted
    <3>1. All \in asked \/ ty.n \in asked
      BY <1>3, <1>6, <2>2 DEF WantedStd
    <3>2. it.assoc \in types
      BY <1>2, <1>6, <3>1
    <3>3. WantedStd(it, asked, types)
      BY <1>6, <3>2 DEF WantedStd
    <3>4. it \in wanted
      BY <1>4, <3>3
    <3> QED BY <1>5, <3>4
  <2> QED BY <1>5, <2>1, <2>2
<1>7. MethodsCame(r)
  BY <1>6 DEF MethodsCame
<1> QED BY <1>1, <1>5, <1>7 DEF ItemsOK

\* Merging the items of a file of the project: every one of a free name comes.
LEMMA LocalIs ==
    ASSUME NEW l, LoaderShape(l), ItemsOK(l), NEW f \in SourceFiles
    PROVE  KeptItems(l, ImportLocal(l, f)) /\ ItemsOK(ImportLocal(l, f))
<1> DEFINE set == {ItemsOf[f][k] : k \in DOMAIN ItemsOf[f]}
           types == TypeNames({x \in set : x.pub})
           wanted == {it \in set : it.kind = "policy" \/ it.pub \/ (it.kind = "fn" /\ it.assoc \in types)}
           r == Take(l, wanted)
<1>1. ImportLocal(l, f) = r
  BY DEF ImportLocal
<1>2. \A x \in wanted : x \notin StdItems
  BY ProjectFiles
<1> HIDE DEF wanted
<1>3. /\ KeptItems(l, r) /\ ItemsKeyed(r) /\ r.names = l.names \cup {Key(it) : it \in wanted}
      /\ \A x \in r.items : x \in l.items \/ x \in wanted
  BY TakeIs DEF ItemsOK
<1> HIDE DEF r
<1>4. MethodsCame(r)
  BY <1>2, <1>3 DEF ItemsOK, MethodsCame
<1> QED BY <1>1, <1>3, <1>4 DEF ItemsOK

\* The loader's invariant.
LoaderOK(d) ==
    /\ LoaderShape(d) /\ ItemsOK(d)
    /\ d.phase = "std" => d.visited = {} /\ d.order = <<>> /\ d.errs = {} /\ d.pending = <<>>
    /\ d.phase # "std" => ChainsOK(d, TopChain(d)) /\ LoadedOK(d)
    /\ d.phase \in {"merge", "done"} => d.pending = <<>>
    /\ d.phase = "done" => \A x \in d.items, k \in DOMAIN ItemsOf[Main] : x.kind \in {"fn", "type"} => x.n # ItemsOf[Main][k].n
LoaderInv == LoaderOK(ld)

\* At the start.
LEMMA LoaderStarts == LoaderInit => LoaderInv
<1> SUFFICES ASSUME NEW p \in Projects, ld = LoaderStart(p) PROVE LoaderOK(ld)
  BY DEF LoaderInit, LoaderInv
<1>1. /\ ld.prog = p /\ ld.phase = "std" /\ ld.pending = <<>> /\ ld.visited = {} /\ ld.names = {} /\ ld.items = {}
      /\ ld.errs = {} /\ ld.nested = {} /\ ld.order = <<>>
  BY DEF LoaderStart
<1>2. LoaderShape(ld)
  BY DEF LoaderStart, LoaderShape, LoaderPhases
<1>3. ItemsOK(ld)
  BY <1>1 DEF ItemsOK, ItemsKeyed, MethodsCame
<1> QED BY <1>1, <1>2, <1>3 DEF LoaderOK

\* The stack after the main file: its imports, with an empty chain.
LEMMA StackStarts ==
    ASSUME NEW l, LoaderShape(l), l.visited = {}, l.order = <<>>, NoCycle(l),
           l.pending = [k \in DOMAIN l.prog.imports[Main] |-> [f |-> l.prog.imports[Main][k], chain |-> <<>>]]
    PROVE  ChainsOK(l, TopChain(l)) /\ LoadedOK(l)
<1> DEFINE ts == l.prog.imports[Main]
           P == l.pending
           n == Len(ts)
<1>1. Main \in SourceFiles /\ l.prog.imports \in [SourceFiles -> Seq(SourceFiles)]
  BY ProjectFiles DEF SourceFiles, LoaderShape
<1>2. ts \in Seq(SourceFiles)
  BY <1>1
<1> HIDE DEF ts
<1>3. n \in Nat /\ DOMAIN ts = 1..n /\ \A k \in 1..n : ts[k] \in SourceFiles
  BY <1>2
<1>4. P \in Seq(StackEntries) /\ Len(P) = n /\ \A k \in 1..n : P[k].f = ts[k] /\ P[k].chain = <<>>
  <2>1. P = [k \in 1..n |-> [f |-> ts[k], chain |-> <<>>]]
    BY <1>3 DEF ts
  <2>2. P \in Seq(StackEntries)
    BY DEF LoaderShape
  <2> HIDE DEF P
  <2>3. DOMAIN P = 1..n /\ \A k \in 1..n : P[k].f = ts[k] /\ P[k].chain = <<>>
    BY <2>1
  <2>4. Len(P) = n
    BY <1>3, <2>2, <2>3
  <2> QED BY <2>2, <2>3, <2>4
<1>5. <<>> \in Seq(SourceFiles) /\ Len(<<>>) = 0 /\ 1..0 = {} /\ DOMAIN <<>> = {} /\ Range(<<>>) = {}
  BY DEF Range
<1>6. Cut(<<>>, 0) = <<>>
  <2>1. 0 \in 0..Len(<<>>)
    BY <1>5
  <2> QED BY <1>5, <2>1, CutIs
<1>7. ImportsAt(l, <<>>, 0) = {ts[k] : k \in 1..n} /\ ImportedIn(l.prog.imports, Main) = {ts[k] : k \in 1..n}
  BY <1>3 DEF ImportsAt, ImportedIn, ts
<1>8. TopChain(l) = <<>>
  <2>1. CASE P = <<>>
    BY <2>1 DEF TopChain
  <2>2. CASE P # <<>>
    <3> DEFINE q == P
    <3>1. q \in Seq(StackEntries) /\ q # <<>> /\ Len(q) = n
      BY <1>4, <2>2
    <3> HIDE DEF q
    <3>2. n \in 1..n /\ Last(q) = q[n]
      BY <3>1 DEF Last
    <3>3. TopChain(l) = q[n].chain
      BY <3>2, <2>2 DEF TopChain, q
    <3> QED BY <1>4, <3>2, <3>3 DEF q
  <2> QED BY <2>1, <2>2
<1> HIDE DEF P
<1>9. ChainOK(l, <<>>)
  BY <1>5 DEF ChainOK
<1>10. PendingOK(l, <<>>)
  <2>1. Len(l.pending) = n /\ \A k \in 1..n : l.pending[k].f = ts[k] /\ l.pending[k].chain = <<>>
    BY <1>4 DEF P
  <2> DEFINE e == <<>>
             u == {ts[k] : k \in 1..n}
  <2>2. Len(e) = 0 /\ Cut(e, 0) = e /\ ImportsAt(l, e, 0) = u /\ Range(e) = {} /\ 0 <= 0 /\ \A k \in 1..n : l.pending[k].chain = e
    <3>1. Len(e) = 0 /\ Range(e) = {}
      BY <1>5
    <3>2. Cut(e, 0) = e
      BY <1>6
    <3>3. ImportsAt(l, e, 0) = u
      BY <1>7
    <3>4. 0 <= 0
      OBVIOUS
    <3>5. \A k \in 1..n : l.pending[k].chain = e
      BY <2>1
    <3> QED BY ZenonT(60), <3>1, <3>2, <3>3, <3>4, <3>5
  <2>3. \A k \in 1..n : ts[k] \in u
    OBVIOUS
  <2> HIDE DEF e, u
  <2>4. \A k \in 1..n : EntryOK(l, e, l.pending[k]) /\ Len(l.pending[k].chain) = 0
    BY <2>1, <2>2, <2>3 DEF EntryOK
  <2>5. PendingOK(l, e)
    BY <2>1, <2>2, <2>4 DEF PendingOK
  <2> QED BY <2>5 DEF e
<1>11. OffOK(l, <<>>)
  BY DEF OffOK, Off
<1>12. \A j \in 0..Len(<<>>) : LevelOK(l, <<>>, j)
  <2>1. \A j \in 0..Len(<<>>) : j = 0
    BY <1>5
  <2>2. LevelOK(l, <<>>, 0)
    BY <1>4, <1>5, <1>7 DEF LevelOK, P
  <2> QED BY <2>1, <2>2
<1>13. ChainsOK(l, <<>>)
  BY <1>5, <1>9, <1>10, <1>11, <1>12 DEF ChainsOK
<1>14. LoadedOK(l)
  <2>0. Len(l.pending) = n /\ \A k \in 1..n : l.pending[k].f = ts[k]
    BY <1>4 DEF P
  <2>a. Met(l) = {l.pending[k].f : k \in 1..n}
    BY <2>0 DEF Met
  <2>b. {l.pending[k].f : k \in 1..n} = {ts[k] : k \in 1..n}
    <3>1. \A k \in 1..n : l.pending[k].f \in {ts[j] : j \in 1..n}
      BY <2>0
    <3>2. \A k \in 1..n : ts[k] \in {l.pending[j].f : j \in 1..n}
      BY <2>0
    <3> QED BY ZenonT(60), <3>1, <3>2
  <2>1. Met(l) = {ts[k] : k \in 1..n}
    BY <2>a, <2>b
  <2> QED BY <1>5, <1>7, <2>1 DEF LoadedOK
<1> QED BY <1>8, <1>13, <1>14

\* Every step keeps the invariant.
LEMMA LoaderStep == LoaderInv /\ [LoaderNext]_ld => LoaderInv'
<1> SUFFICES ASSUME LoaderOK(ld), LoaderNext \/ ld' = ld PROVE LoaderOK(ld')
  BY DEF LoaderInv
<1>0. LoaderShape(ld) /\ ItemsOK(ld)
  BY DEF LoaderOK
<1>1. CASE ResolveStdImports
  <2> DEFINE asked == ld.prog.std[Main]
             ts == ld.prog.imports[Main]
             P == [k \in DOMAIN ts |-> [f |-> ts[k], chain |-> <<>>]]
             l == [ld EXCEPT !.phase = "local", !.pending = P]
             c == CheckRequests(asked)
             m == [l EXCEPT !.errs = @ \cup c]
  <2>1. ld' = IF asked = {} THEN l ELSE ImportStd(m, asked)
    BY <1>1 DEF ResolveStdImports
  <2>2. ld.visited = {} /\ ld.order = <<>> /\ ld.errs = {}
    BY <1>1 DEF ResolveStdImports, LoaderOK
  <2>3. P \in Seq(StackEntries)
    <3>1. Main \in SourceFiles /\ ld.prog.imports \in [SourceFiles -> Seq(SourceFiles)]
      BY <1>0, ProjectFiles DEF SourceFiles, LoaderShape
    <3>2. ts \in Seq(SourceFiles)
      BY <3>1
    <3> HIDE DEF ts
    <3>3. DOMAIN ts = 1..Len(ts) /\ Len(ts) \in Nat /\ (\A k \in 1..Len(ts) : ts[k] \in SourceFiles) /\ <<>> \in Seq(SourceFiles)
      BY <3>2
    <3>4. P \in [1..Len(ts) -> StackEntries]
      BY <3>3 DEF StackEntries
    <3> HIDE DEF P
    <3> QED BY <3>3, <3>4
  <2>4. \A e \in c : e[1] # "cycle"
    BY DEF CheckRequests
  <2> HIDE DEF P, c, asked
  <2>5. /\ LoaderShape(l) /\ l.prog = ld.prog /\ l.phase = "local" /\ l.visited = {} /\ l.order = <<>> /\ l.errs = {}
        /\ l.pending = P /\ l.names = ld.names /\ l.items = ld.items
    BY <1>0, <2>2, <2>3 DEF LoaderShape, LoaderPhases
  <2> HIDE DEF l
  <2>6. /\ LoaderShape(m) /\ m.prog = ld.prog /\ m.phase = "local" /\ m.visited = {} /\ m.order = <<>> /\ m.errs = c
        /\ m.pending = P /\ m.names = ld.names /\ m.items = ld.items
    BY <2>5 DEF LoaderShape
  <2> HIDE DEF m
  <2>7. ItemsOK(l) /\ ItemsOK(m)
    BY <1>0, <2>5, <2>6 DEF ItemsOK, ItemsKeyed, MethodsCame
  <2>8. ASSUME NEW r, LoaderShape(r), ItemsOK(r), r.prog = ld.prog, r.phase = "local", r.visited = {}, r.order = <<>>,
               r.pending = P, NoCycle(r)
        PROVE  LoaderOK(r)
    <3>1. ChainsOK(r, TopChain(r)) /\ LoadedOK(r)
      BY <2>8, StackStarts DEF P
    <3> QED BY <2>8, <3>1 DEF LoaderOK
  <2>9. CASE asked = {}
    <3>1. NoCycle(l)
      BY <2>5 DEF NoCycle
    <3> QED BY <2>1, <2>5, <2>7, <2>8, <2>9, <3>1
  <2>10. CASE asked # {}
    <3> DEFINE r == ImportStd(m, asked)
    <3>1. KeptItems(m, r) /\ ItemsOK(r)
      BY <2>6, <2>7, StdIs
    <3>2. ld' = r
      BY <2>1, <2>10
    <3> HIDE DEF r
    <3>3. /\ LoaderShape(r) /\ r.prog = ld.prog /\ r.phase = "local" /\ r.visited = {} /\ r.order = <<>> /\ r.errs = c /\ r.pending = P
      BY <2>6, <3>1 DEF KeptItems
    <3>4. NoCycle(r)
      BY <2>4, <3>3 DEF NoCycle
    <3> QED BY <2>8, <3>1, <3>2, <3>3, <3>4
  <2> QED BY <2>9, <2>10
<1>2. CASE LoadModule
  <2> DEFINE top == Last(ld.pending)
             f == top.f
             C == Append(TopChain(ld), f)
  <2>1. ld.phase = "local" /\ ld.pending # <<>> /\ ChainsOK(ld, TopChain(ld)) /\ LoadedOK(ld)
    BY <1>2 DEF LoadModule, LoaderOK
  <2>2. ASSUME NEW r, LoaderShape(r), ItemsOK(r), r.phase = "local", LoadedOK(r), NEW B, ChainsOK(r, B)
        PROVE  LoaderOK(r)
    <3>1. ChainsOK(r, TopChain(r))
      BY <2>2, Settles
    <3> QED BY <2>2, <3>1 DEF LoaderOK
  <2>3. CASE f \in ld.visited
    <3> DEFINE r == [ld EXCEPT !.pending = Front(@)]
    <3>1. /\ LoaderShape(r) /\ r.names = ld.names /\ r.items = ld.items /\ r.phase = ld.phase
          /\ ChainsOK(r, TopChain(ld)) /\ LoadedOK(r)
      BY <1>0, <2>1, <2>3, PopVisited
    <3>2. ld' = r
      BY <1>2, <2>3 DEF LoadModule
    <3> HIDE DEF r
    <3>3. ItemsOK(r)
      BY <1>0, <3>1 DEF ItemsOK, ItemsKeyed, MethodsCame
    <3> QED BY <2>1, <2>2, <3>1, <3>2, <3>3
  <2>4. CASE f \notin ld.visited
    <3> DEFINE ts == ld.prog.imports[f]
               l == [ld EXCEPT !.pending = Front(@), !.visited = @ \cup {f}, !.order = Append(@, f), !.nested = @ \cup ld.prog.std[f]]
               q == NestedImports(l, C, ts)
               r == ImportLocal(q, f)
    <3>1. ld' = r /\ C \in Seq(SourceFiles) /\ ts \in Seq(SourceFiles) /\ f \in SourceFiles
      <4>1. ld' = ReadModule(ld, top)
        BY <1>2, <2>4 DEF LoadModule
      <4>2. TopChain(ld) = top.chain /\ f \in SourceFiles /\ TopChain(ld) \in Seq(SourceFiles)
        BY <1>0, <2>1, TopIs
      <4>3. ld' = r
        BY <4>1, <4>2 DEF ReadModule
      <4>4. ld.prog.imports \in [SourceFiles -> Seq(SourceFiles)]
        BY <1>0, ProjectFiles DEF LoaderShape
      <4>5. ts \in Seq(SourceFiles)
        BY <4>2, <4>4
      <4>6. C \in Seq(SourceFiles)
        BY <4>2
      <4> QED BY <4>2, <4>3, <4>5, <4>6
    <3>2. Front(ld.pending) \in Seq(StackEntries)
      BY <1>0, <2>1, TopIs
    <3> DEFINE fr == Front(ld.pending)
               nx == ld.nested \cup ld.prog.std[f]
    <3>3. l = [ld EXCEPT !.pending = fr, !.visited = @ \cup {f}, !.order = Append(@, f), !.nested = nx]
      OBVIOUS
    <3>5. ld.order \in Seq(SourceFiles) /\ Append(ld.order, f) \in Seq(SourceFiles)
      BY <1>0, <3>1 DEF LoaderShape
    <3> HIDE DEF l, fr, nx, f, C, top
    <3>6. /\ LoaderShape(l) /\ l.prog = ld.prog /\ l.phase = ld.phase /\ l.visited = ld.visited \cup {f} /\ l.names = ld.names
          /\ l.items = ld.items /\ l.order = Append(ld.order, f) /\ l.pending = fr /\ l.errs = ld.errs
      BY <1>0, <3>1, <3>2, <3>3, <3>5 DEF LoaderShape, fr
    <3>8. SameLoad(l, q) /\ Grown(l, C, ts, q) /\ \A t \in Range(ts) : Dealt(l, C, q, t)
      BY <3>1, <3>6, NestedAll
    <3> HIDE DEF q
    <3>10. /\ LoaderShape(q) /\ q.prog = ld.prog /\ q.visited = ld.visited \cup {f} /\ q.order = Append(ld.order, f)
           /\ q.names = ld.names /\ q.items = ld.items /\ q.phase = ld.phase
      BY <3>6, <3>8 DEF SameLoad
    <3>11. ChainsOK(q, C) /\ LoadedOK(q)
      <4>1. f = Last(ld.pending).f /\ f \notin ld.visited /\ C = Append(TopChain(ld), f)
        BY <2>4 DEF f, top, C
      <4>2. l.pending = Front(ld.pending) /\ ts = ld.prog.imports[f]
        BY <3>6 DEF fr
      <4>3. Grown(l, C, ld.prog.imports[f], q) /\ \A t \in Range(ld.prog.imports[f]) : Dealt(l, C, q, t)
        BY <3>8, <4>2
      <4>4. ChainsOK(ld, TopChain(ld)) /\ LoadedOK(ld) /\ LoaderShape(ld) /\ ld.pending # <<>>
        BY <1>0, <2>1
      <4> HIDE DEF ts
      <4> QED BY <3>6, <3>10, <4>1, <4>2, <4>3, <4>4, PopRead
    <3>12. ItemsOK(q)
      BY <1>0, <3>10 DEF ItemsOK, ItemsKeyed, MethodsCame
    <3>13. KeptItems(q, r) /\ ItemsOK(r)
      BY <3>1, <3>10, <3>12, LocalIs
    <3> HIDE DEF r
    <3>14. ChainsOK(r, C) /\ LoadedOK(r) /\ LoaderShape(r) /\ r.phase = "local"
      <4>1. r.prog = q.prog /\ r.pending = q.pending /\ r.visited = q.visited /\ r.order = q.order /\ (NoCycle(r) <=> NoCycle(q))
        BY <3>13 DEF KeptItems, NoCycle
      <4>2. ChainsOK(r, C) /\ LoadedOK(r)
        BY <3>11, <4>1, Alike
      <4> QED BY <2>1, <3>10, <3>13, <4>2 DEF KeptItems
    <3> QED BY <2>2, <3>1, <3>13, <3>14
  <2> QED BY <2>3, <2>4
<1>3. CASE ResolveNestedStdImports
  <2> DEFINE l == [ld EXCEPT !.phase = "merge"]
  <2>1. ld.phase = "local" /\ ld.pending = <<>> /\ ChainsOK(ld, TopChain(ld)) /\ LoadedOK(ld)
    BY <1>3 DEF ResolveNestedStdImports, LoaderOK
  <2>2. ld' = IF ld.nested = {} THEN l ELSE ImportStd(l, ld.nested)
    BY <1>3 DEF ResolveNestedStdImports
  <2>3. /\ LoaderShape(l) /\ l.prog = ld.prog /\ l.phase = "merge" /\ l.visited = ld.visited /\ l.order = ld.order /\ l.errs = ld.errs
        /\ l.pending = ld.pending /\ l.names = ld.names /\ l.items = ld.items
    BY <1>0 DEF LoaderShape, LoaderPhases
  <2> HIDE DEF l
  <2>4. ItemsOK(l)
    BY <1>0, <2>3 DEF ItemsOK, ItemsKeyed, MethodsCame
  <2>5. ASSUME NEW r, LoaderShape(r), ItemsOK(r), r.prog = ld.prog, r.phase = "merge", r.visited = ld.visited,
               r.order = ld.order, r.pending = ld.pending, r.errs = ld.errs
        PROVE  LoaderOK(r)
    <3>1. NoCycle(r) <=> NoCycle(ld)
      BY <2>5 DEF NoCycle
    <3>2. ChainsOK(r, TopChain(r)) /\ LoadedOK(r)
      BY <2>1, <2>5, <3>1, Alike
    <3> QED BY <2>1, <2>5, <3>2 DEF LoaderOK
  <2>6. CASE ld.nested = {}
    BY <2>2, <2>3, <2>4, <2>5, <2>6
  <2>7. CASE ld.nested # {}
    <3> DEFINE r == ImportStd(l, ld.nested)
    <3>1. KeptItems(l, r) /\ ItemsOK(r)
      BY <2>3, <2>4, StdIs
    <3>2. ld' = r
      BY <2>2, <2>7
    <3> HIDE DEF r
    <3>3. /\ LoaderShape(r) /\ r.prog = ld.prog /\ r.phase = "merge" /\ r.visited = ld.visited /\ r.order = ld.order
          /\ r.errs = ld.errs /\ r.pending = ld.pending
      BY <2>3, <3>1 DEF KeptItems
    <3> QED BY <2>5, <3>1, <3>2, <3>3
  <2> QED BY <2>6, <2>7
<1>4. CASE MergeImports
  <2> DEFINE own == {ItemsOf[Main][k].n : k \in DOMAIN ItemsOf[Main]}
             kept == {it \in ld.items : it.kind \notin {"fn", "type"} \/ it.n \notin own}
  <2>1. ld.phase = "merge" /\ ld' = [ld EXCEPT !.phase = "done", !.items = kept]
    BY <1>4 DEF MergeImports
  <2>2. kept \subseteq ld.items /\ \A x \in kept, k \in DOMAIN ItemsOf[Main] : x.kind \in {"fn", "type"} => x.n # ItemsOf[Main][k].n
    OBVIOUS
  <2> HIDE DEF kept
  <2>3. /\ LoaderShape(ld') /\ ld'.prog = ld.prog /\ ld'.phase = "done" /\ ld'.visited = ld.visited /\ ld'.order = ld.order
        /\ ld'.errs = ld.errs /\ ld'.pending = ld.pending /\ ld'.names = ld.names /\ ld'.items = kept
    BY <1>0, <2>1 DEF LoaderShape, LoaderPhases
  <2>4. ItemsOK(ld')
    BY <1>0, <2>2, <2>3 DEF ItemsOK, ItemsKeyed, MethodsCame
  <2>5. ChainsOK(ld', TopChain(ld')) /\ LoadedOK(ld')
    <3>1. ChainsOK(ld, TopChain(ld)) /\ LoadedOK(ld)
      BY <2>1 DEF LoaderOK
    <3>2. NoCycle(ld') <=> NoCycle(ld)
      BY <2>3 DEF NoCycle
    <3> DEFINE r == ld'
    <3>3. r.prog = ld.prog /\ r.pending = ld.pending /\ r.visited = ld.visited /\ r.order = ld.order /\ (NoCycle(r) <=> NoCycle(ld))
      BY <2>3, <3>2
    <3> HIDE DEF r
    <3>4. ChainsOK(r, TopChain(r)) /\ LoadedOK(r)
      BY <3>1, <3>3, Alike
    <3> QED BY <3>4 DEF r
  <2>6. ld'.pending = <<>>
    BY <2>1, <2>3 DEF LoaderOK
  <2> QED BY <2>2, <2>3, <2>4, <2>5, <2>6 DEF LoaderOK
<1>5. CASE ld' = ld
  BY <1>5
<1> QED BY <1>1, <1>2, <1>3, <1>4, <1>5 DEF LoaderNext

\* LoadSound for every project, of any number of files and with any items: a cycle of
\* imports is reported exactly if there is one, every file that is reached is read once,
\* no name comes in twice, and a type of the standard module brings its methods.
THEOREM LoadingIsSound == LoaderSpec => []LoadSound
<1>1. LoaderInv => LoadSound
  <2> SUFFICES ASSUME LoaderOK(ld) PROVE LoadSound
    BY DEF LoaderInv
  <2> DEFINE g == ld.prog.imports
             W == Closure(ImportedBy(Main))
  <2>1. W = Wanted(ld) /\ Closure(ImportedBy(Main)) = W /\ \A f : Closure(ImportedBy(f)) = ReachedFrom(g, ImportedIn(g, f))
    BY DEF Wanted, Closure, ImportedBy
  <2>2. ASSUME ld.phase = "merge"
        PROVE  /\ Wanted(ld) = ld.visited /\ LoadedOK(ld)
               /\ NoCycle(ld) => \A f \in ld.visited : f \notin ReachedFrom(g, ImportedIn(g, f))
    <3>1. LoaderShape(ld) /\ ld.pending = <<>> /\ ChainsOK(ld, <<>>) /\ LoadedOK(ld)
      BY <2>2 DEF LoaderOK, TopChain
    <3>2. Met(ld) = ld.visited
      <4>1. 1..Len(ld.pending) = {}
        BY <3>1
      <4> QED BY <4>1 DEF Met
    <3>3. Off(ld, <<>>) = ld.visited
      <4>1. Range(<<>>) = {}
        BY DEF Range
      <4> QED BY <4>1 DEF Off
    <3>4. NoCycle(ld) => \A f \in ld.visited : f \notin ReachedFrom(g, ImportedIn(g, f))
      BY <3>1, <3>3 DEF ChainsOK, OffOK
    <3>5. Wanted(ld) \subseteq ld.visited
      <4> DEFINE u == ImportedIn(g, Main)
                 S == ld.visited
      <4>1. g \in [SourceFiles -> Seq(SourceFiles)] /\ Main \in SourceFiles
        BY <3>1, ProjectFiles DEF LoaderShape, SourceFiles
      <4>2. u \in SUBSET SourceFiles
        BY <4>1, ReachIs
      <4>3. S \in SUBSET SourceFiles /\ u \subseteq S /\ ClosedFor(g, S)
        BY <3>1, <3>2 DEF LoaderShape, LoadedOK, ClosedFor
      <4> HIDE DEF u, S, g
      <4>4. ReachedFrom(g, u) \subseteq S
        BY <4>1, <4>2, <4>3, ReachIs
      <4> QED BY <4>4 DEF u, S, g, Wanted
    <3> QED BY <3>1, <3>4, <3>5 DEF LoadedOK
  <2> HIDE DEF W, g
  <2>3. CycleReported
    <3> SUFFICES ASSUME ld.phase = "merge"
                 PROVE  (\E e \in ld.errs : e[1] = "cycle") <=> \E f \in W : f \in ReachedFrom(g, ImportedIn(g, f))
      BY <2>1 DEF CycleReported
    <3>1. (\E e \in ld.errs : e[1] = "cycle") <=> ~NoCycle(ld)
      BY DEF NoCycle
    <3>2. ~NoCycle(ld) => \E f \in W : f \in ReachedFrom(g, ImportedIn(g, f))
      BY <2>1, <2>2 DEF LoadedOK, g
    <3> QED BY <2>1, <2>2, <3>1, <3>2
  <2>4. LoadedOnce
    <3> SUFFICES ASSUME ld.phase = "merge"
                 PROVE  /\ \A f \in W : \E k \in DOMAIN ld.order : ld.order[k] = f
                        /\ \A j, k \in DOMAIN ld.order : ld.order[j] = ld.order[k] => j = k
      BY <2>1 DEF LoadedOnce
    <3>1. Range(ld.order) = ld.visited /\ \A j, k \in 1..Len(ld.order) : ld.order[j] = ld.order[k] => j = k
      BY <2>2 DEF LoadedOK
    <3>2. DOMAIN ld.order = 1..Len(ld.order)
      BY DEF LoaderOK, LoaderShape
    <3> QED BY <2>1, <2>2, <3>1, <3>2 DEF Range
  <2>5. NamesUnique
    BY DEF LoaderOK, ItemsOK, ItemsKeyed, NamesUnique
  <2>6. MethodsFollowTypes
    BY DEF LoaderOK, ItemsOK, MethodsCame, MethodsFollowTypes
  <2> QED BY <2>3, <2>4, <2>5, <2>6 DEF LoadSound
<1> QED BY <1>1, LoaderStarts, LoaderStep, PTL DEF LoaderSpec

-----------------------------------------------------------------------------
\* The language server.

\* What two sequences hold one after the other.
LEMMA JoinIs ==
    ASSUME NEW T, NEW a \in Seq(T), NEW b \in Seq(T)
    PROVE  a \o b \in Seq(T) /\ \A x : x \in Range(a \o b) <=> x \in Range(a) \/ x \in Range(b)
<1> DEFINE c == a \o b
           n == Len(a)
           m == Len(b)
<1>1. /\ c \in Seq(T) /\ n \in Nat /\ m \in Nat /\ Len(c) = n + m
      /\ (\A k \in 1..n : c[k] = a[k]) /\ \A k \in 1..m : c[n + k] = b[k]
  OBVIOUS
<1>2. DOMAIN a = 1..n /\ DOMAIN b = 1..m /\ DOMAIN c = 1..(n + m)
  BY <1>1
<1> HIDE DEF c, n, m
<1>3. \A k \in 1..(n + m) : k \in 1..n \/ (k - n \in 1..m /\ n + (k - n) = k)
  BY <1>1
<1>4. (\A k \in 1..n : k \in 1..(n + m)) /\ \A k \in 1..m : n + k \in 1..(n + m)
  BY <1>1
<1>5. ASSUME NEW x \in Range(c) PROVE x \in Range(a) \/ x \in Range(b)
  <2>1. PICK k \in 1..(n + m) : x = c[k]
    BY <1>2 DEF Range
  <2>2. CASE k \in 1..n
    BY <1>1, <1>2, <2>1, <2>2 DEF Range
  <2>3. CASE k - n \in 1..m /\ n + (k - n) = k
    <3>1. x = b[k - n]
      BY <1>1, <2>1, <2>3
    <3> QED BY <1>2, <2>3, <3>1 DEF Range
  <2> QED BY <1>3, <2>2, <2>3
<1>6. ASSUME NEW x \in Range(a) PROVE x \in Range(c)
  <2>1. PICK k \in 1..n : x = a[k]
    BY <1>2 DEF Range
  <2> QED BY <1>1, <1>2, <1>4, <2>1 DEF Range
<1>7. ASSUME NEW x \in Range(b) PROVE x \in Range(c)
  <2>1. PICK k \in 1..m : x = b[k]
    BY <1>2 DEF Range
  <2>2. x = c[n + k] /\ n + k \in 1..(n + m)
    BY <1>1, <1>4, <2>1
  <2> QED BY <1>2, <2>2 DEF Range
<1> QED BY <1>1, <1>5, <1>6, <1>7 DEF c

\* A sequence, whatever its elements are, that grows at its end.
IsSeq(s) == s \in Seq(Range(s))
\* What it holds then.
LEMMA SeqGrows ==
    ASSUME NEW s, IsSeq(s), NEW x
    PROVE  /\ IsSeq(Append(s, x)) /\ Len(s) \in Nat /\ Len(Append(s, x)) = Len(s) + 1
           /\ Append(s, x)[Len(s) + 1] = x /\ \A k \in 1..Len(s) : Append(s, x)[k] = s[k]
<1> DEFINE T == Range(s) \cup {x}
<1>1. s \in Seq(T) /\ x \in T
  BY DEF IsSeq
<1>2. T = Range(s) \cup {x} /\ Len(s) \in Nat
  BY <1>1
<1> HIDE DEF T
<1>3. /\ Append(s, x) \in Seq(T) /\ Len(Append(s, x)) = Len(s) + 1 /\ Range(Append(s, x)) = Range(s) \cup {x}
      /\ Append(s, x)[Len(s) + 1] = x /\ \A k \in 1..Len(s) : Append(s, x)[k] = s[k]
  BY <1>1, RangeAppend
<1> QED BY <1>2, <1>3 DEF IsSeq

\* One that loses its first element.
LEMMA SeqShrinks ==
    ASSUME NEW s, IsSeq(s), s # <<>>
    PROVE  /\ IsSeq(Tail(s)) /\ Len(s) \in Nat /\ Len(s) >= 1 /\ Len(Tail(s)) = Len(s) - 1
           /\ Head(s) = s[1] /\ \A k \in 1..(Len(s) - 1) : Tail(s)[k] = s[k + 1]
<1> DEFINE T == Range(s)
           a == Tail(s)
<1>1. s \in Seq(T)
  BY DEF IsSeq
<1> HIDE DEF T
<1>2. /\ a \in Seq(T) /\ Len(s) \in Nat /\ Len(s) >= 1 /\ Len(a) = Len(s) - 1
      /\ Head(s) = s[1] /\ \A k \in 1..(Len(s) - 1) : a[k] = s[k + 1]
  BY <1>1
<1>3. a \in Seq(Range(a))
  <2> HIDE DEF a
  <2>1. Len(a) \in Nat /\ DOMAIN a = 1..Len(a)
    BY <1>2
  <2>2. \A k \in 1..Len(a) : a[k] \in Range(a)
    BY <2>1 DEF Range
  <2> QED BY <1>2, <2>1, <2>2
<1> QED BY <1>2, <1>3 DEF IsSeq

\* What a sequence of sequences holds.
LEMMA FlattenIs ==
    ASSUME NEW T, NEW ss \in Seq(Seq(T))
    PROVE  FlattenSeq(ss) \in Seq(T) /\ \A x : x \in Range(FlattenSeq(ss)) <=> \E i \in 1..Len(ss) : x \in Range(ss[i])
<1> DEFINE n == Len(ss)
           Body(f) == [i \in 1..n |-> IF i = 1 THEN ss[i] ELSE f[i - 1] \o ss[i]]
           F == CHOOSE f : f = Body(f)
<1>1. n \in Nat /\ DOMAIN ss = 1..n /\ \A i \in 1..n : ss[i] \in Seq(T)
  OBVIOUS
<1>2. CASE n = 0
  <2>1. FlattenSeq(ss) = ss /\ ss = <<>>
    BY <1>2 DEF FlattenSeq
  <2>2. Range(<<>>) = {} /\ <<>> \in Seq(T)
    BY DEF Range
  <2> QED BY <1>2, <2>1, <2>2
<1>3. CASE n # 0
  <2>1. FlattenSeq(ss) = F[n]
    BY <1>3 DEF FlattenSeq
  <2>2. \E f : f = Body(f)
    <3> DEFINE step == [x \in (1..n) \X Seq(T) |-> x[2] \o ss[x[1]]]
    <3>1. LoopBody(n, Seq(T), step) /\ <<>> \in Seq(T)
      BY <1>1 DEF LoopBody
    <3>2. \A i \in 1..n : \A t \in Seq(T) : step[<<i, t>>] = t \o ss[i]
      OBVIOUS
    <3> HIDE DEF step
    <3>3. PICK g : LoopStates(n, Seq(T), <<>>, step, g)
      BY <1>1, <3>1, LoopRuns
    <3>4. g \in [0..n -> Seq(T)] /\ g[0] = <<>> /\ \A i \in 1..n : g[i] = step[<<i, g[i - 1]>>]
      BY <3>3 DEF LoopStates
    <3>5. \A i \in 1..n : i - 1 \in 0..n /\ (i # 1 => i - 1 \in 1..n) /\ (i = 1 => i - 1 = 0)
      BY <1>1
    <3>6. \A i \in 1..n : g[i] = g[i - 1] \o ss[i]
      BY <3>2, <3>4, <3>5
    <3> DEFINE f == [i \in 1..n |-> g[i]]
    <3>7. \A i \in 1..n : f[i] = IF i = 1 THEN ss[i] ELSE f[i - 1] \o ss[i]
      <4> SUFFICES ASSUME NEW i \in 1..n PROVE f[i] = IF i = 1 THEN ss[i] ELSE f[i - 1] \o ss[i]
        OBVIOUS
      <4>1. CASE i = 1
        <5>1. g[i] = <<>> \o ss[i]
          BY <3>4, <3>5, <3>6, <4>1
        <5>2. <<>> \o ss[i] = ss[i]
          BY <1>1
        <5> QED BY <4>1, <5>1, <5>2
      <4>2. CASE i # 1
        BY <3>5, <3>6, <4>2
      <4> QED BY <4>1, <4>2
    <3>8. f = Body(f)
      BY <3>7
    <3> HIDE DEF f, Body
    <3> QED BY <3>8
  <2>3. F = Body(F)
    <3> HIDE DEF Body
    <3> QED BY <2>2
  <2> HIDE DEF F
  <2>4. \A i \in 1..n : F[i] = IF i = 1 THEN ss[i] ELSE F[i - 1] \o ss[i]
    BY <2>3
  <2> HIDE DEF Body, n
  <2> DEFINE S == {i \in 0..n : i = 0 \/ (F[i] \in Seq(T) /\ \A x : x \in Range(F[i]) <=> \E j \in 1..i : x \in Range(ss[j]))}
  <2>5. 0 \in S
    BY <1>1
  <2>6. ASSUME NEW i \in 1..n, i - 1 \in S PROVE i \in S
    <3>1. i \in 0..n /\ ss[i] \in Seq(T)
      BY <1>1
    <3>2. CASE i = 1
      <4>1. F[i] = ss[i] /\ \A j \in 1..i : j = i
        BY <2>4, <3>2
      <4> QED BY <3>1, <3>2, <4>1
    <3>3. CASE i # 1
      <4>1. F[i] = F[i - 1] \o ss[i] /\ i - 1 # 0
        <5>1. i - 1 # 0
          BY <3>1, <3>3
        <5> QED BY <2>4, <3>3, <5>1
      <4>2. F[i - 1] \in Seq(T) /\ \A x : x \in Range(F[i - 1]) <=> \E j \in 1..(i - 1) : x \in Range(ss[j])
        BY <2>6, <4>1
      <4>3. F[i] \in Seq(T) /\ \A x : x \in Range(F[i]) <=> x \in Range(F[i - 1]) \/ x \in Range(ss[i])
        <5> DEFINE a == F[i - 1]
                   b == ss[i]
        <5>1. a \in Seq(T) /\ b \in Seq(T) /\ F[i] = a \o b
          BY <3>1, <4>1, <4>2
        <5> HIDE DEF a, b
        <5>2. a \o b \in Seq(T) /\ \A x : x \in Range(a \o b) <=> x \in Range(a) \/ x \in Range(b)
          BY <5>1, JoinIs
        <5> QED BY <5>1, <5>2 DEF a, b
      <4>4. \A j \in 1..i : j = i \/ j \in 1..(i - 1)
        BY <1>1
      <4>5. i \in 1..i /\ \A j \in 1..(i - 1) : j \in 1..i
        BY <1>1
      <4> QED BY <3>1, <4>2, <4>3, <4>4, <4>5
    <3> QED BY <3>2, <3>3
  <2> HIDE DEF S
  <2>7. n \in S
    <3>1. n \in Nat
      BY <1>1
    <3>2. \A i \in 0..n : i \in S
      BY <2>5, <2>6, <3>1, UpTo
    <3> QED BY <3>1, <3>2
  <2> QED BY <1>3, <2>1, <2>7 DEF S, n
<1> QED BY <1>2, <1>3

\* The names of a list, as symbols of a line.
LEMMA MembersAre ==
    ASSUME NEW ms, IsSeq(ms), NEW kind, NEW line, NEW s, s = [i \in DOMAIN ms |-> SymbolDef(kind, ms[i], line)]
    PROVE  IsSeq(s) /\ \A x : x \in Range(s) <=> \E n \in Range(ms) : x = SymbolDef(kind, n, line)
<1>1. ms \in Seq(Range(ms)) /\ Len(ms) \in Nat
  BY DEF IsSeq
<1>2. DOMAIN ms = 1..Len(ms)
  BY <1>1
<1>3. DOMAIN s = 1..Len(ms) /\ \A i \in 1..Len(ms) : s[i] = SymbolDef(kind, ms[i], line)
  <2> HIDE DEF SymbolDef
  <2> QED BY <1>2 DEF SymbolDef
<1>4. \A i \in 1..Len(ms) : s[i] \in Range(s)
  BY <1>3 DEF Range
<1>5. s = [i \in 1..Len(ms) |-> s[i]]
  BY <1>2
<1>6. s \in Seq(Range(s))
  BY <1>1, <1>4, <1>5
<1>7. ASSUME NEW x \in Range(s) PROVE \E n \in Range(ms) : x = SymbolDef(kind, n, line)
  BY <1>2, <1>3 DEF Range
<1>8. ASSUME NEW n \in Range(ms) PROVE SymbolDef(kind, n, line) \in Range(s)
  BY <1>2, <1>3 DEF Range
<1> QED BY <1>6, <1>7, <1>8 DEF IsSeq

\* A sequence of some elements is one of more.
LEMMA SeqWidens ==
    ASSUME NEW s, IsSeq(s), NEW T, \A x \in Range(s) : x \in T
    PROVE  s \in Seq(T)
<1>1. s \in Seq(Range(s)) /\ Len(s) \in Nat
  BY DEF IsSeq
<1>2. DOMAIN s = 1..Len(s)
  BY <1>1
<1>3. \A i \in 1..Len(s) : s[i] \in T
  BY <1>2 DEF Range
<1> QED BY <1>1, <1>2, <1>3

\* A symbol x of a line of a text, as the text declares it.
Fits(text, line, x) ==
    /\ x.line = line /\ x.name \in Declares(text, line) /\ x.kind \in SymbolKinds
    /\ (x.kind = "fn") = (text.items[line].kind \in {"fn", "impl"})
SymbolsFit(text, syms) ==
    /\ IsSeq(syms)
    /\ \A x \in Range(syms) : \E line \in DOMAIN text.items : Fits(text, line, x)
    /\ \A line \in DOMAIN text.items : \A n \in Declares(text, line) : \E x \in Range(syms) : x.name = n /\ Fits(text, line, x)
LineFits(text, line, syms) ==
    /\ IsSeq(syms)
    /\ \A x \in Range(syms) : Fits(text, line, x)
    /\ \A n \in Declares(text, line) : \E x \in Range(syms) : x.name = n

\* What extract_symbols_from_item makes of an item.
LEMMA ItemSymbols ==
    ASSUME NEW text \in Buffers, ~text.fatal, NEW line \in DOMAIN text.items
    PROVE  LineFits(text, line, ExtractSymbols(text.items[line], line))
<1> DEFINE item == text.items[line]
           ms == item.members
           out == ExtractSymbols(item, line)
<1>1. item.kind \in ItemKinds /\ IsSeq(ms) /\ (item.kind \in {"fn", "const", "static", "import"} => ms = <<>>)
  BY BufferTexts DEF IsSeq
<1>2. /\ item.kind \in {"statement", "policy", "interface"} => Declares(text, line) = {}
      /\ item.kind = "impl" => Declares(text, line) = {MethodName(item.name, m) : m \in Range(ms)}
      /\ item.kind \notin {"statement", "policy", "interface", "impl"} => Declares(text, line) = {item.name} \cup Range(ms)
  BY DEF Declares
<1>3. /\ item.kind \in {"fn", "const", "static", "import"} => out = <<SymbolDef(item.kind, item.name, line)>>
      /\ item.kind = "struct" => out = <<SymbolDef("struct", item.name, line)>> \o [i \in DOMAIN ms |-> SymbolDef("field", ms[i], line)]
      /\ item.kind = "enum" => out = <<SymbolDef("enum", item.name, line)>> \o [i \in DOMAIN ms |-> SymbolDef("variant", ms[i], line)]
      /\ item.kind = "impl" => out = [i \in DOMAIN ms |-> SymbolDef("fn", MethodName(item.name, ms[i]), line)]
      /\ item.kind \in {"statement", "policy", "interface"} => out = <<>>
  <2> HIDE DEF SymbolDef
  <2> QED BY DEF ExtractSymbols
<1>4. \A kind, name : LET x == SymbolDef(kind, name, line) IN x.kind = kind /\ x.name = name /\ x.line = line
  BY DEF SymbolDef
<1>5. \A kind, name : LET x == SymbolDef(kind, name, line) IN
         name \in Declares(text, line) /\ kind \in SymbolKinds /\ (kind = "fn") = (item.kind \in {"fn", "impl"}) => Fits(text, line, x)
  <2> HIDE DEF SymbolDef
  <2> QED BY <1>4 DEF Fits
<1> HIDE DEF item, ms, out
<1>6. \A x : IsSeq(<<x>>) /\ Range(<<x>>) = {x}
  BY DEF IsSeq, Range
<1>7. CASE item.kind \in {"fn", "const", "static", "import"}
  <2> DEFINE x == SymbolDef(item.kind, item.name, line)
  <2>1. out = <<x>> /\ IsSeq(<<x>>) /\ Range(<<x>>) = {x} /\ x.name = item.name
    BY <1>3, <1>4, <1>6, <1>7
  <2>2. ms = <<>> /\ Range(<<>>) = {}
    BY <1>1, <1>7 DEF Range
  <2>3. Declares(text, line) = {item.name}
    BY <1>2, <1>7, <2>2
  <2>4. item.kind \in SymbolKinds /\ (item.kind = "fn") = (item.kind \in {"fn", "impl"})
    BY <1>7 DEF SymbolKinds
  <2>5. Fits(text, line, x)
    BY <1>5, <2>3, <2>4
  <2> HIDE DEF x
  <2> QED BY <2>1, <2>3, <2>5 DEF LineFits, out, item
<1>8. ASSUME NEW kind \in {"struct", "enum"}, NEW member \in {"field", "variant"}, item.kind = kind,
             out = <<SymbolDef(kind, item.name, line)>> \o [i \in DOMAIN ms |-> SymbolDef(member, ms[i], line)]
      PROVE  LineFits(text, line, out)
  <2> DEFINE x == SymbolDef(kind, item.name, line)
             s == [i \in DOMAIN ms |-> SymbolDef(member, ms[i], line)]
             T == {x} \cup Range(s)
  <2>1. IsSeq(s) /\ \A y : y \in Range(s) <=> \E n \in Range(ms) : y = SymbolDef(member, n, line)
    BY <1>1, MembersAre
  <2>2. IsSeq(<<x>>) /\ Range(<<x>>) = {x} /\ x.name = item.name
    BY <1>4, <1>6
  <2>3. Declares(text, line) = {item.name} \cup Range(ms)
    BY <1>2, <1>8
  <2>4. kind \in SymbolKinds /\ (kind = "fn") = (item.kind \in {"fn", "impl"})
    BY <1>8 DEF SymbolKinds
  <2>5. member \in SymbolKinds /\ (member = "fn") = (item.kind \in {"fn", "impl"})
    BY <1>8 DEF SymbolKinds
  <2>6. Fits(text, line, x)
    BY <1>5, <2>3, <2>4
  <2>7. \A n \in Range(ms) : Fits(text, line, SymbolDef(member, n, line))
    BY <1>5, <2>3, <2>5
  <2>8. out = <<x>> \o s /\ T = {x} \cup Range(s)
    BY <1>8
  <2>9. \A n \in Range(ms) : SymbolDef(member, n, line) \in Range(s) /\ SymbolDef(member, n, line).name = n
    BY <1>4, <2>1
  <2> HIDE DEF x, s, T
  <2>10. <<x>> \in Seq(T) /\ s \in Seq(T)
    BY <2>1, <2>2, <2>8, SeqWidens
  <2>11. out \in Seq(T) /\ \A y : y \in Range(out) <=> y \in Range(<<x>>) \/ y \in Range(s)
    BY <2>8, <2>10, JoinIs
  <2>12. Range(out) = T
    BY <2>2, <2>8, <2>11
  <2>13. IsSeq(out)
    BY <2>11, <2>12 DEF IsSeq
  <2>14. \A y \in Range(out) : Fits(text, line, y)
    BY <2>1, <2>2, <2>6, <2>7, <2>11
  <2>15. \A n \in Declares(text, line) : \E y \in Range(out) : y.name = n
    BY <2>2, <2>3, <2>9, <2>11
  <2> QED BY <2>13, <2>14, <2>15 DEF LineFits
<1>9. CASE item.kind = "impl"
  <2> DEFINE names == [i \in DOMAIN ms |-> MethodName(item.name, ms[i])]
             s == [i \in DOMAIN names |-> SymbolDef("fn", names[i], line)]
  <2>1. ms \in Seq(Range(ms)) /\ Len(ms) \in Nat
    BY <1>1 DEF IsSeq
  <2>2. DOMAIN ms = 1..Len(ms) /\ DOMAIN names = 1..Len(ms) /\ \A i \in 1..Len(ms) : names[i] = MethodName(item.name, ms[i])
    BY <2>1
  <2>3. s = out
    BY <1>3, <1>9, <2>2
  <2>4. \A n : n \in Range(names) <=> \E m \in Range(ms) : n = MethodName(item.name, m)
    <3> HIDE DEF names
    <3> QED BY <2>2 DEF Range
  <2>5. names \in Seq(Range(names))
    <3>1. names = [i \in 1..Len(ms) |-> names[i]]
      BY <2>2
    <3> HIDE DEF names
    <3>2. \A i \in 1..Len(ms) : names[i] \in Range(names)
      BY <2>2 DEF Range
    <3> QED BY <2>1, <3>1, <3>2
  <2>6. Declares(text, line) = {MethodName(item.name, m) : m \in Range(ms)}
    BY <1>2, <1>9
  <2>7. \A n : n \in Declares(text, line) <=> n \in Range(names)
    BY <2>4, <2>6
  <2> HIDE DEF names
  <2>8. IsSeq(names)
    BY <2>5 DEF IsSeq
  <2>9. IsSeq(s) /\ \A x : x \in Range(s) <=> \E n \in Range(names) : x = SymbolDef("fn", n, line)
    BY <2>8, MembersAre
  <2> HIDE DEF s
  <2>10. "fn" \in SymbolKinds /\ ("fn" = "fn") = (item.kind \in {"fn", "impl"})
    BY <1>9 DEF SymbolKinds
  <2>11. \A n \in Range(names) : Fits(text, line, SymbolDef("fn", n, line)) /\ SymbolDef("fn", n, line).name = n
    BY <1>4, <1>5, <2>7, <2>10
  <2>12. \A x \in Range(s) : Fits(text, line, x)
    BY <2>9, <2>11
  <2>13. \A n \in Declares(text, line) : \E x \in Range(s) : x.name = n
    BY <2>7, <2>9, <2>11
  <2>14. LineFits(text, line, s)
    BY <2>9, <2>12, <2>13 DEF LineFits
  <2> QED BY <2>3, <2>14 DEF out, item
<1>10. CASE item.kind \in {"statement", "policy", "interface"}
  <2>1. out = <<>> /\ Declares(text, line) = {}
    BY <1>2, <1>3, <1>10
  <2>2. IsSeq(<<>>) /\ Range(<<>>) = {}
    BY DEF IsSeq, Range
  <2>3. LineFits(text, line, <<>>)
    BY <2>1, <2>2 DEF LineFits
  <2> QED BY <2>1, <2>3 DEF out, item
<1>11. CASE item.kind = "struct"
  <2>1. LineFits(text, line, out)
    BY <1>3, <1>8, <1>11
  <2> QED BY <2>1 DEF out, item
<1>12. CASE item.kind = "enum"
  <2>1. LineFits(text, line, out)
    BY <1>3, <1>8, <1>12
  <2> QED BY <2>1 DEF out, item
<1> QED BY <1>1, <1>7, <1>9, <1>10, <1>11, <1>12 DEF ItemKinds

\* What parse_and_extract keeps of a text.
LEMMA SymbolsAre ==
    ASSUME NEW text \in Buffers
    PROVE  SymbolsFit(text, ParseAndExtract(text).symbols)
<1> DEFINE L == DOMAIN text.items
           n == Len(text.items)
           ss == [l \in L |-> ExtractSymbols(text.items[l], l)]
           T == UNION {Range(ss[l]) : l \in L}
<1>1. text.items \in Seq(Range(text.items)) /\ text.fatal \in BOOLEAN
  BY BufferTexts
<1>2. n \in Nat /\ L = 1..n
  BY <1>1
<1>3. CASE text.fatal
  <2>1. ParseAndExtract(text).symbols = <<>> /\ \A line \in L : Declares(text, line) = {}
    BY <1>3 DEF ParseAndExtract, Declares
  <2>2. IsSeq(<<>>) /\ Range(<<>>) = {}
    BY DEF IsSeq, Range
  <2> QED BY <2>1, <2>2 DEF SymbolsFit
<1>4. CASE ~text.fatal
  <2> HIDE DEF ss
  <2>1. ParseAndExtract(text).symbols = FlattenSeq(ss)
    BY <1>4 DEF ParseAndExtract, ss
  <2>2. DOMAIN ss = L /\ \A l \in L : ss[l] = ExtractSymbols(text.items[l], l)
    BY DEF ss
  <2>3. ss = [l \in L |-> ss[l]]
    BY DEF ss
  <2>4. \A l \in L : LineFits(text, l, ss[l])
    BY <1>4, <2>2, ItemSymbols
  <2>5. \A l \in L : IsSeq(ss[l]) /\ \A x \in Range(ss[l]) : x \in T
    BY <2>4 DEF LineFits
  <2> HIDE DEF L, n, T
  <2>6. \A l \in L : ss[l] \in Seq(T)
    BY <2>5, SeqWidens
  <2>7. ss \in Seq(Seq(T)) /\ Len(ss) = n
    BY <1>2, <2>3, <2>6
  <2> DEFINE out == FlattenSeq(ss)
  <2>8. out \in Seq(T) /\ \A x : x \in Range(out) <=> \E i \in 1..Len(ss) : x \in Range(ss[i])
    BY <2>7, FlattenIs
  <2> HIDE DEF out
  <2>9. \A x : x \in Range(out) <=> \E l \in L : x \in Range(ss[l])
    BY <1>2, <2>7, <2>8
  <2>10. IsSeq(out)
    <3>1. Len(out) \in Nat /\ DOMAIN out = 1..Len(out) /\ out = [i \in 1..Len(out) |-> out[i]]
      BY <2>8
    <3>2. \A i \in 1..Len(out) : out[i] \in Range(out)
      BY <3>1 DEF Range
    <3>3. out \in Seq(Range(out))
      BY <3>1, <3>2
    <3> QED BY <3>3 DEF IsSeq
  <2>11. ASSUME NEW x \in Range(out) PROVE \E line \in L : Fits(text, line, x)
    BY <2>4, <2>9 DEF LineFits
  <2>12. ASSUME NEW line \in L, NEW m \in Declares(text, line) PROVE \E x \in Range(out) : x.name = m /\ Fits(text, line, x)
    BY <2>4, <2>9 DEF LineFits
  <2> QED BY <2>1, <2>10, <2>11, <2>12 DEF SymbolsFit, out, L
<1> QED BY <1>1, <1>3, <1>4

\* The documents of an editor, and what the server keeps of them.
Held(open) == open = [u \in DOMAIN open |-> open[u]] /\ DOMAIN open \subseteq Uris /\ \A u \in DOMAIN open : open[u] \in Buffers
DocsOf(open) == [u \in DOMAIN open |-> ParseAndExtract(open[u])]
\* The server's documents, one by one.
LEMMA DocsAre ==
    ASSUME NEW open, Held(open)
    PROVE  /\ DOMAIN DocsOf(open) = DOMAIN open
           /\ \A u \in DOMAIN open : /\ DocsOf(open)[u] = ParseAndExtract(open[u]) /\ DocsOf(open)[u].text = open[u]
                                     /\ SymbolsFit(open[u], DocsOf(open)[u].symbols)
<1>1. DOMAIN DocsOf(open) = DOMAIN open /\ \A u \in DOMAIN open : DocsOf(open)[u] = ParseAndExtract(open[u])
  <2> HIDE DEF ParseAndExtract
  <2> QED BY DEF DocsOf
<1>2. \A text : ParseAndExtract(text).text = text
  BY DEF ParseAndExtract
<1>3. \A u \in DOMAIN open : SymbolsFit(open[u], ParseAndExtract(open[u]).symbols)
  BY SymbolsAre DEF Held
<1> QED BY <1>1, <1>2, <1>3

\* The first of some symbols is one of them.
LEMMA FirstAtIs ==
    ASSUME NEW syms, IsSeq(syms), NEW at, at \subseteq DOMAIN syms
    PROVE  /\ at = {} => FirstAt(syms, at).line = 0
           /\ at # {} => \E i \in at : FirstAt(syms, at) = syms[i]
<1>1. at = {} => FirstAt(syms, at).line = 0
  BY DEF FirstAt, SymbolDef
<1>2. ASSUME at # {} PROVE \E i \in at : FirstAt(syms, at) = syms[i]
  <2>1. syms \in Seq(Range(syms)) /\ Len(syms) \in Nat
    BY DEF IsSeq
  <2>2. at \in SUBSET Nat
    BY <2>1
  <2>3. \E i \in at : \A j \in at : i <= j
    BY <1>2, <2>2, Least
  <2> DEFINE i == CHOOSE i \in at : \A j \in at : i <= j
  <2>4. i \in at
    BY <2>3
  <2>5. FirstAt(syms, at) = syms[i]
    BY <1>2 DEF FirstAt
  <2> HIDE DEF i
  <2> QED BY <2>4, <2>5
<1> QED BY <1>1, <1>2

\* What a search of one document for a name finds.
Suits(text, line, word, kinds) ==
    word \in Declares(text, line) /\ (kinds = SymbolKinds \/ text.items[line].kind \in {"fn", "impl"})
HitOf(syms, word, kinds) == FirstAt(syms, {i \in DOMAIN syms : syms[i].name = word /\ syms[i].kind \in kinds})
\* The symbol found, if any, is of a line that suits; if none is found, none does.
LEMMA HitIs ==
    ASSUME NEW text, NEW syms, SymbolsFit(text, syms), NEW word, NEW kinds \in {SymbolKinds, {"fn"}}, NEW h,
           h = HitOf(syms, word, kinds), 0 \notin DOMAIN text.items
    PROVE  /\ h.line = 0 => \A line \in DOMAIN text.items : ~Suits(text, line, word, kinds)
           /\ h.line # 0 => h.line \in DOMAIN text.items /\ Suits(text, h.line, word, kinds)
<1> DEFINE at == {i \in DOMAIN syms : syms[i].name = word /\ syms[i].kind \in kinds}
<1>1. IsSeq(syms) /\ at \subseteq DOMAIN syms /\ h = FirstAt(syms, at)
  BY DEF SymbolsFit, HitOf
<1>2. ASSUME NEW i \in at PROVE \E line \in DOMAIN text.items : syms[i].line = line /\ Suits(text, line, word, kinds)
  <2>1. syms[i] \in Range(syms) /\ syms[i].name = word /\ syms[i].kind \in kinds
    BY DEF Range
  <2>2. PICK line \in DOMAIN text.items : Fits(text, line, syms[i])
    BY <2>1 DEF SymbolsFit
  <2>3. syms[i].line = line /\ word \in Declares(text, line) /\ ((syms[i].kind = "fn") = (text.items[line].kind \in {"fn", "impl"}))
    BY <2>1, <2>2 DEF Fits
  <2>4. kinds # SymbolKinds => text.items[line].kind \in {"fn", "impl"}
    BY <2>1, <2>3
  <2> QED BY <2>3, <2>4 DEF Suits
<1>3. ASSUME NEW line \in DOMAIN text.items, Suits(text, line, word, kinds) PROVE at # {}
  <2>1. word \in Declares(text, line) /\ (kinds = SymbolKinds \/ text.items[line].kind \in {"fn", "impl"})
    BY <1>3 DEF Suits
  <2>2. PICK x \in Range(syms) : x.name = word /\ Fits(text, line, x)
    BY <2>1 DEF SymbolsFit
  <2>3. x.kind \in SymbolKinds /\ ((x.kind = "fn") = (text.items[line].kind \in {"fn", "impl"}))
    BY <2>2 DEF Fits
  <2>4. x.kind \in kinds
    BY <2>1, <2>3
  <2>5. PICK i \in DOMAIN syms : syms[i] = x
    BY <2>2 DEF Range
  <2> QED BY <2>2, <2>4, <2>5
<1> HIDE DEF at
<1>4. at = {} => h.line = 0
  BY <1>1, FirstAtIs
<1>5. at # {} => \E i \in at : h = syms[i]
  BY <1>1, FirstAtIs
<1>6. at # {} => \E line \in DOMAIN text.items : h.line = line /\ Suits(text, line, word, kinds)
  BY <1>2, <1>5
<1> QED BY <1>3, <1>4, <1>6

\* Where the documents declare something.
Declared(open, u, l, n) == u \in DOMAIN open /\ l \in DOMAIN open[u].items /\ n \in Declares(open[u], l)
PlaceOf(u, l, n) == [uri |-> u, line |-> l, name |-> n]
\* The places of the documents, one by one.
LEMMA PlacesAre ==
    ASSUME NEW open, NEW p
    PROVE  p \in Places(open) <=> \E u, l, n : Declared(open, u, l, n) /\ p = PlaceOf(u, l, n)
<1> DEFINE Line(u, l) == {[uri |-> u, line |-> l, name |-> n] : n \in Declares(open[u], l)}
           Doc(u) == UNION {Line(u, l) : l \in DOMAIN open[u].items}
<1>1. Places(open) = UNION {Doc(u) : u \in DOMAIN open}
  BY DEF Places
<1>2. \A u, l : p \in Line(u, l) <=> \E n \in Declares(open[u], l) : p = PlaceOf(u, l, n)
  BY DEF PlaceOf
<1> HIDE DEF Line
<1>3. \A u : p \in Doc(u) <=> \E l \in DOMAIN open[u].items : p \in Line(u, l)
  OBVIOUS
<1> HIDE DEF Doc
<1>4. p \in Places(open) <=> \E u \in DOMAIN open : p \in Doc(u)
  BY <1>1
<1> QED BY <1>2, <1>3, <1>4 DEF Declared

\* find_definition and signature_help: NoPlace when nothing suits, else a place that does.
LEMMA FoundIs ==
    ASSUME NEW open, Held(open), NEW word, NEW kinds \in {SymbolKinds, {"fn"}}, NEW d \in Found(DocsOf(open), word, kinds)
    PROVE  \/ d = NoPlace /\ \A u, l : u \in DOMAIN open /\ l \in DOMAIN open[u].items => ~Suits(open[u], l, word, kinds)
           \/ \E u, l : u \in DOMAIN open /\ l \in DOMAIN open[u].items /\ Suits(open[u], l, word, kinds) /\ d = PlaceOf(u, l, word)
<1> DEFINE docs == DocsOf(open)
           hit(u) == HitOf(docs[u].symbols, word, kinds)
           in == {u \in DOMAIN docs : hit(u).line # 0}
<1>1. DOMAIN docs = DOMAIN open /\ \A u \in DOMAIN open : SymbolsFit(open[u], docs[u].symbols)
  BY DocsAre
<1>2. \A u \in DOMAIN open : open[u] \in Buffers
  BY DEF Held
<1>3. d \in IF word = "" \/ in = {} THEN {NoPlace} ELSE {[uri |-> u, line |-> hit(u).line, name |-> word] : u \in in}
  BY DEF Found, HitOf
<1> HIDE DEF docs
<1>4. ASSUME NEW u \in DOMAIN open
      PROVE  /\ hit(u).line = 0 => \A line \in DOMAIN open[u].items : ~Suits(open[u], line, word, kinds)
             /\ hit(u).line # 0 => hit(u).line \in DOMAIN open[u].items /\ Suits(open[u], hit(u).line, word, kinds)
  <2> DEFINE text == open[u]
             syms == docs[u].symbols
  <2>1. text \in Buffers /\ SymbolsFit(text, syms)
    BY <1>1, <1>2
  <2>2. 0 \notin DOMAIN text.items
    <3>1. text.items \in Seq(Range(text.items))
      BY <2>1, BufferTexts
    <3> HIDE DEF text
    <3> QED BY <3>1
  <2>3. hit(u) = HitOf(syms, word, kinds)
    OBVIOUS
  <2> HIDE DEF text, syms, hit
  <2>4. /\ hit(u).line = 0 => \A line \in DOMAIN text.items : ~Suits(text, line, word, kinds)
        /\ hit(u).line # 0 => hit(u).line \in DOMAIN text.items /\ Suits(text, hit(u).line, word, kinds)
    BY <2>1, <2>2, <2>3, HitIs
  <2> QED BY <2>4 DEF text
<1> HIDE DEF hit
<1>5. CASE word = ""
  <2>1. \A u \in DOMAIN open : \A l \in DOMAIN open[u].items : "" \notin Declares(open[u], l)
    BY <1>2, BufferTexts
  <2>2. \A u, l : u \in DOMAIN open /\ l \in DOMAIN open[u].items => ~Suits(open[u], l, word, kinds)
    BY <1>5, <2>1 DEF Suits
  <2> QED BY <1>3, <1>5, <2>2
<1>6. CASE word # "" /\ in = {}
  BY <1>1, <1>3, <1>4, <1>6
<1>7. CASE word # "" /\ in # {}
  <2>1. PICK u \in in : d = [uri |-> u, line |-> hit(u).line, name |-> word]
    BY <1>3, <1>7
  <2>2. u \in DOMAIN open /\ hit(u).line # 0
    BY <1>1, <2>1
  <2>3. d = PlaceOf(u, hit(u).line, word)
    BY <2>1 DEF PlaceOf
  <2> QED BY <1>4, <2>2, <2>3
<1> QED BY <1>5, <1>6, <1>7

\* The search for any symbol, or for a function: a place of the documents, if there is one.
LEMMA SearchIs ==
    ASSUME NEW open, Held(open), NEW word, NEW kinds \in {SymbolKinds, {"fn"}}, NEW d \in Found(DocsOf(open), word, kinds), NEW W,
           \A p : p \in W <=> p \in Named(open, word) /\ (kinds = SymbolKinds \/ IsFunction(open, p))
    PROVE  IF W = {} THEN d = NoPlace ELSE d \in W
<1>1. ASSUME NEW p PROVE p \in W <=> \E u, l : u \in DOMAIN open /\ l \in DOMAIN open[u].items /\ Suits(open[u], l, word, kinds) /\ p = PlaceOf(u, l, word)
  <2>1. \A u, l, n : PlaceOf(u, l, n).uri = u /\ PlaceOf(u, l, n).line = l /\ PlaceOf(u, l, n).name = n
    BY DEF PlaceOf
  <2>2. p \in Places(open) <=> \E u, l, n : Declared(open, u, l, n) /\ p = PlaceOf(u, l, n)
    BY PlacesAre
  <2>3. p \in Named(open, word) <=> \E u, l : Declared(open, u, l, word) /\ p = PlaceOf(u, l, word)
    BY <2>1, <2>2 DEF Named
  <2>4. \A u, l : p = PlaceOf(u, l, word) => (IsFunction(open, p) <=> open[u].items[l].kind \in {"fn", "impl"})
    BY <2>1 DEF IsFunction
  <2> QED BY <2>3, <2>4 DEF Suits, Declared
<1>2. \/ d = NoPlace /\ \A u, l : u \in DOMAIN open /\ l \in DOMAIN open[u].items => ~Suits(open[u], l, word, kinds)
      \/ \E u, l : u \in DOMAIN open /\ l \in DOMAIN open[u].items /\ Suits(open[u], l, word, kinds) /\ d = PlaceOf(u, l, word)
  BY FoundIs
<1>3. CASE d = NoPlace /\ \A u, l : u \in DOMAIN open /\ l \in DOMAIN open[u].items => ~Suits(open[u], l, word, kinds)
  <2>1. W = {}
    BY <1>1, <1>3
  <2> QED BY <1>3, <2>1
<1>4. CASE \E u, l : u \in DOMAIN open /\ l \in DOMAIN open[u].items /\ Suits(open[u], l, word, kinds) /\ d = PlaceOf(u, l, word)
  <2>1. d \in W
    BY <1>1, <1>4
  <2> QED BY <2>1
<1> QED BY <1>2, <1>3, <1>4

\* The symbol of a line, the symbols of a document and the completions.
LEMMA HoverIs ==
    ASSUME NEW open, Held(open), NEW u \in DOMAIN open, NEW line \in DOMAIN open[u].items, NEW W,
           \A p : p \in W <=> \E n \in Declares(open[u], line) : p = PlaceOf(u, line, n)
    PROVE  IF W = {} THEN FindSymbolAt(DocsOf(open), u, line) = NoPlace ELSE FindSymbolAt(DocsOf(open), u, line) \in W
<1> DEFINE text == open[u]
           docs == DocsOf(open)
           syms == docs[u].symbols
           at == {i \in DOMAIN syms : syms[i].line = line}
           s == FirstAt(syms, at)
<1>1. DOMAIN docs = DOMAIN open /\ SymbolsFit(text, syms)
  BY DocsAre
<1>2. 0 \notin DOMAIN text.items
  <2>1. text.items \in Seq(Range(text.items))
    BY BufferTexts DEF Held
  <2> HIDE DEF text
  <2> QED BY <2>1
<1>3. FindSymbolAt(docs, u, line) = IF s.line = 0 THEN NoPlace ELSE PlaceOf(u, line, s.name)
  BY <1>1 DEF FindSymbolAt, PlaceOf
<1>4. at \subseteq DOMAIN syms
  OBVIOUS
<1>5. ASSUME NEW i \in at PROVE syms[i].line = line /\ syms[i].name \in Declares(text, line)
  <2>1. syms[i] \in Range(syms) /\ syms[i].line = line
    BY DEF Range
  <2>2. PICK l \in DOMAIN text.items : Fits(text, l, syms[i])
    BY <1>1, <2>1 DEF SymbolsFit
  <2> QED BY <2>1, <2>2 DEF Fits
<1>6. ASSUME NEW n \in Declares(text, line) PROVE at # {}
  <2>1. PICK x \in Range(syms) : Fits(text, line, x)
    BY <1>1 DEF SymbolsFit
  <2>2. PICK i \in DOMAIN syms : syms[i] = x
    BY <2>1 DEF Range
  <2>3. syms[i].line = line
    BY <2>1, <2>2 DEF Fits
  <2> QED BY <2>3
<1> HIDE DEF docs, syms, at
<1>7. (at = {} => s.line = 0) /\ (at # {} => \E i \in at : s = syms[i])
  <2>1. IsSeq(syms)
    BY <1>1 DEF SymbolsFit
  <2> QED BY <1>4, <2>1, FirstAtIs
<1> HIDE DEF s, text
<1>8. CASE at = {}
  <2>1. W = {}
    BY <1>6, <1>8 DEF text
  <2> QED BY <1>3, <1>7, <1>8, <2>1 DEF docs
<1>9. CASE at # {}
  <2>1. s.line = line /\ s.name \in Declares(text, line)
    BY <1>5, <1>7, <1>9
  <2>2. line # 0
    BY <1>2 DEF text
  <2>3. FindSymbolAt(docs, u, line) = PlaceOf(u, line, s.name)
    BY <1>3, <2>1, <2>2
  <2>4. PlaceOf(u, line, s.name) \in W
    BY <2>1 DEF text
  <2> QED BY <2>3, <2>4 DEF docs
<1> QED BY <1>8, <1>9

\* The symbols of a document are its places; the completions, those of all documents.
LEMMA OutlineIs ==
    ASSUME NEW open, Held(open), NEW u \in DOMAIN open, NEW p
    PROVE  (\E s \in Range(DocsOf(open)[u].symbols) : p = PlaceOf(u, s.line, s.name)) <=> \E l, n : Declared(open, u, l, n) /\ p = PlaceOf(u, l, n)
<1> DEFINE syms == DocsOf(open)[u].symbols
<1>1. SymbolsFit(open[u], syms)
  BY DocsAre
<1> HIDE DEF syms
<1>2. ASSUME NEW s \in Range(syms) PROVE Declared(open, u, s.line, s.name)
  BY <1>1 DEF SymbolsFit, Fits, Declared
<1>3. ASSUME NEW l, NEW n, Declared(open, u, l, n) PROVE \E s \in Range(syms) : s.line = l /\ s.name = n
  <2>1. l \in DOMAIN open[u].items /\ n \in Declares(open[u], l)
    BY <1>3 DEF Declared
  <2> QED BY <1>1, <2>1 DEF SymbolsFit, Fits
<1> HIDE DEF PlaceOf
<1>4. (\E s \in Range(syms) : p = PlaceOf(u, s.line, s.name)) <=> \E l, n : Declared(open, u, l, n) /\ p = PlaceOf(u, l, n)
  BY <1>2, <1>3
<1> QED BY <1>4 DEF syms
\* The completions are the places of all documents, or those of a name.
LEMMA CompletionIs ==
    ASSUME NEW open, Held(open), NEW prefix
    PROVE  Completions(DocsOf(open), prefix) = IF prefix = "" THEN Places(open) ELSE Named(open, prefix)
<1> DEFINE docs == DocsOf(open)
           Of(u) == {[uri |-> u, line |-> s.line, name |-> s.name] : s \in {x \in Range(docs[u].symbols) : prefix \in {"", x.name}}}
<1>1. DOMAIN docs = DOMAIN open
  BY DocsAre
<1>2. Completions(docs, prefix) = UNION {Of(u) : u \in DOMAIN docs}
  BY DEF Completions, SymbolsWithPrefix
<1>3. \A u, l, n : PlaceOf(u, l, n).uri = u /\ PlaceOf(u, l, n).line = l /\ PlaceOf(u, l, n).name = n
  BY DEF PlaceOf
<1>4. ASSUME NEW p, NEW u \in DOMAIN open
      PROVE  p \in Of(u) <=> \E l, n : Declared(open, u, l, n) /\ p = PlaceOf(u, l, n) /\ (prefix = "" \/ prefix = n)
  <2>1. p \in Of(u) <=> \E s \in Range(docs[u].symbols) : p = PlaceOf(u, s.line, s.name) /\ (prefix = "" \/ prefix = s.name)
    BY DEF PlaceOf
  <2>2. (\E s \in Range(docs[u].symbols) : p = PlaceOf(u, s.line, s.name)) <=> \E l, n : Declared(open, u, l, n) /\ p = PlaceOf(u, l, n)
    BY OutlineIs
  <2>3. \A l, n : p = PlaceOf(u, l, n) => p.name = n
    BY <1>3
  <2> DEFINE R == Range(docs[u].symbols)
  <2> HIDE DEF Of, docs, PlaceOf, R
  <2>4. ASSUME p \in Of(u) PROVE \E l, n : Declared(open, u, l, n) /\ p = PlaceOf(u, l, n) /\ (prefix = "" \/ prefix = n)
    <3>1. PICK s \in R : p = PlaceOf(u, s.line, s.name) /\ (prefix = "" \/ prefix = s.name)
      BY <2>1, <2>4 DEF R
    <3>2. p.name = s.name /\ (prefix = "" \/ prefix = p.name)
      BY <2>3, <3>1
    <3>3. PICK l, n : Declared(open, u, l, n) /\ p = PlaceOf(u, l, n)
      BY <2>2, <3>1 DEF R
    <3>4. p.name = n
      BY <2>3, <3>3
    <3> QED BY <3>2, <3>3, <3>4
  <2>5. ASSUME NEW l, NEW n, Declared(open, u, l, n), p = PlaceOf(u, l, n), prefix = "" \/ prefix = n PROVE p \in Of(u)
    <3>1. PICK s \in R : p = PlaceOf(u, s.line, s.name)
      BY <2>2, <2>5 DEF R
    <3>2. p.name = s.name /\ p.name = n
      BY <2>3, <2>5, <3>1
    <3>3. prefix = "" \/ prefix = s.name
      BY <2>5, <3>2
    <3> QED BY <2>1, <3>1, <3>3 DEF R
  <2> QED BY <2>4, <2>5
<1> HIDE DEF Of, docs
<1>5. ASSUME NEW p PROVE p \in Completions(docs, prefix) <=> \E u, l, n : Declared(open, u, l, n) /\ p = PlaceOf(u, l, n) /\ (prefix = "" \/ prefix = n)
  <2>1. p \in Completions(docs, prefix) <=> \E u \in DOMAIN open : p \in Of(u)
    BY <1>1, <1>2
  <2>2. \A u, l, n : Declared(open, u, l, n) => u \in DOMAIN open
    BY DEF Declared
  <2> QED BY <1>4, <2>1, <2>2
<1>6. ASSUME NEW p PROVE p \in Places(open) <=> \E u, l, n : Declared(open, u, l, n) /\ p = PlaceOf(u, l, n)
  BY PlacesAre
<1>7. \A p : p \in Named(open, prefix) <=> p \in Places(open) /\ p.name = prefix
  BY DEF Named
<1>8. prefix = "" => Completions(docs, prefix) = Places(open)
  BY <1>5, <1>6
<1>9. \A p : p \in Named(open, prefix) <=> \E u, l, n : Declared(open, u, l, n) /\ p = PlaceOf(u, l, n) /\ prefix = n
  BY <1>3, <1>6, <1>7
<1>10. prefix # "" => Completions(docs, prefix) = Named(open, prefix)
  BY <1>5, <1>9
<1> QED BY <1>8, <1>10 DEF docs

\* Every answer to a question is right for the documents it was asked about.
Asked(q, what, uri, line, place, open) == q.what = what /\ q.uri = uri /\ q.line = line /\ q.place = place /\ q.open = open
\* An answer of any handler is right.
LEMMA AnswersRight ==
    ASSUME NEW open, Held(open), NEW what \in Kinds, NEW uri \in DOMAIN open, NEW line \in DOMAIN open[uri].items, NEW place,
           NEW q, Asked(q, what, uri, line, place, open), NEW answer \in HandleRequest(DocsOf(open), q),
           NEW r, Asked(r, what, uri, line, place, open), r.answer = answer
    PROVE  Right(r)
<1> DEFINE docs == DocsOf(open)
           word == IF place = "past" THEN "" ELSE open[uri].items[line].name
           here == {p \in Places(open) : p.uri = uri}
           OnlyOf(W) == IF W = {} THEN answer = {NoPlace} ELSE \E p \in W : answer = {p}
<1>1. q.what = what /\ q.uri = uri /\ q.line = line /\ q.place = place /\ r.what = what /\ r.uri = uri /\ r.line = line /\ r.place = place /\ r.open = open
  BY DEF Asked
<1>2. Right(r) = CASE what = "definition" -> OnlyOf(Named(open, word))
                   [] what = "signature" -> OnlyOf({p \in Named(open, word) : IsFunction(open, p)})
                   [] what = "hover" -> OnlyOf({p \in here : p.line = line})
                   [] what = "outline" -> answer = here
                   [] what = "completion" -> answer = IF word = "" THEN Places(open) ELSE Named(open, word)
                   [] OTHER -> answer = {}
  BY <1>1 DEF Right
<1>3. DOMAIN docs = DOMAIN open /\ docs[uri].text = open[uri]
  BY DocsAre
<1>4. WordAtPosition(docs, q) = word
  BY <1>1, <1>3 DEF WordAtPosition, HasLine, ItemAt
<1> HIDE DEF docs, word
<1>5. CASE what = "definition"
  <2>1. answer \in HandleGotoDefinition(docs, q)
    BY <1>1, <1>5 DEF HandleRequest, docs
  <2>2. PICK d \in Found(docs, word, SymbolKinds) : answer = {d}
    BY <1>4, <2>1 DEF HandleGotoDefinition, FindDefinition
  <2> DEFINE W == Named(open, word)
  <2> HIDE DEF W
  <2>3. \A p : p \in W <=> p \in Named(open, word) /\ (SymbolKinds = SymbolKinds \/ IsFunction(open, p))
    BY DEF W
  <2>4. IF W = {} THEN d = NoPlace ELSE d \in W
    BY <2>2, <2>3, SearchIs DEF docs
  <2>5. OnlyOf(W)
    BY <2>2, <2>4
  <2> QED BY <1>2, <1>5, <2>5 DEF W
<1>6. CASE what = "signature"
  <2>1. answer \in HandleSignatureHelp(docs, q)
    BY <1>1, <1>6 DEF HandleRequest, docs
  <2>2. PICK d \in Found(docs, word, {"fn"}) : answer = {d}
    BY <1>4, <2>1 DEF HandleSignatureHelp, FindSignature
  <2> DEFINE W == {p \in Named(open, word) : IsFunction(open, p)}
  <2>3. {"fn"} # SymbolKinds
    BY DEF SymbolKinds
  <2>4. \A p : p \in W <=> p \in Named(open, word) /\ ({"fn"} = SymbolKinds \/ IsFunction(open, p))
    BY <2>3
  <2> HIDE DEF W
  <2>5. IF W = {} THEN d = NoPlace ELSE d \in W
    BY <2>2, <2>4, SearchIs DEF docs
  <2>6. OnlyOf(W)
    BY <2>2, <2>5
  <2> QED BY <1>2, <1>6, <2>6 DEF W
<1>7. CASE what = "hover"
  <2>1. answer = {FindSymbolAt(docs, uri, line)}
    BY <1>1, <1>7 DEF HandleRequest, HandleHover, docs
  <2> DEFINE W == {p \in here : p.line = line}
             d == FindSymbolAt(docs, uri, line)
  <2>2. ASSUME NEW p PROVE p \in W <=> \E n \in Declares(open[uri], line) : p = PlaceOf(uri, line, n)
    <3>1. p \in Places(open) <=> \E u, l, n : Declared(open, u, l, n) /\ p = PlaceOf(u, l, n)
      BY PlacesAre
    <3>2. \A u, l, n : PlaceOf(u, l, n).uri = u /\ PlaceOf(u, l, n).line = l
      BY DEF PlaceOf
    <3>3. \A n : n \in Declares(open[uri], line) <=> Declared(open, uri, line, n)
      BY DEF Declared
    <3>4. p \in W <=> p \in Places(open) /\ p.uri = uri /\ p.line = line
      OBVIOUS
    <3> HIDE DEF W, PlaceOf
    <3>5. p \in W <=> \E n : Declared(open, uri, line, n) /\ p = PlaceOf(uri, line, n)
      BY <3>1, <3>2, <3>4
    <3> QED BY <3>3, <3>5
  <2> HIDE DEF W
  <2>3. IF W = {} THEN d = NoPlace ELSE d \in W
    BY <2>2, HoverIs DEF docs
  <2> HIDE DEF d
  <2>4. OnlyOf(W)
    BY <2>1, <2>3 DEF d
  <2> QED BY <1>2, <1>7, <2>4 DEF W
<1>8. CASE what = "outline"
  <2>1. answer = DocumentSymbols(docs, uri)
    BY <1>1, <1>8 DEF HandleRequest, HandleDocumentSymbols, docs
  <2>2. answer = {[uri |-> uri, line |-> s.line, name |-> s.name] : s \in Range(docs[uri].symbols)}
    BY <1>3, <2>1 DEF DocumentSymbols
  <2>3. ASSUME NEW p PROVE p \in answer <=> p \in here
    <3>1. p \in answer <=> \E s \in Range(docs[uri].symbols) : p = PlaceOf(uri, s.line, s.name)
      BY <2>2 DEF PlaceOf
    <3>2. (\E s \in Range(docs[uri].symbols) : p = PlaceOf(uri, s.line, s.name)) <=> \E l, n : Declared(open, uri, l, n) /\ p = PlaceOf(uri, l, n)
      BY OutlineIs DEF docs
    <3>3. p \in Places(open) <=> \E u, l, n : Declared(open, u, l, n) /\ p = PlaceOf(u, l, n)
      BY PlacesAre
    <3>4. \A u, l, n : PlaceOf(u, l, n).uri = u
      BY DEF PlaceOf
    <3>5. p \in here <=> p \in Places(open) /\ p.uri = uri
      OBVIOUS
    <3> HIDE DEF here, PlaceOf
    <3>6. p \in here <=> \E l, n : Declared(open, uri, l, n) /\ p = PlaceOf(uri, l, n)
      BY <3>3, <3>4, <3>5
    <3> QED BY <3>1, <3>2, <3>6
  <2> HIDE DEF here
  <2>4. answer \subseteq here /\ here \subseteq answer
    BY <2>3
  <2>5. answer = here
    BY <2>4
  <2> QED BY <1>2, <1>8, <2>5 DEF here
<1>9. CASE what = "completion"
  <2>1. answer = Completions(docs, word)
    BY <1>1, <1>4, <1>9 DEF HandleRequest, HandleCompletion, docs
  <2>2. answer = IF word = "" THEN Places(open) ELSE Named(open, word)
    BY <2>1, CompletionIs DEF docs
  <2> QED BY <1>2, <1>9, <2>2
<1> QED BY <1>5, <1>6, <1>7, <1>8, <1>9 DEF Kinds

\* What a message to the server does to the documents, from a to b, when it is sent
\* and again when it is handled.
Put(open, uri, text) == [u \in DOMAIN open \cup {uri} |-> IF u = uri THEN text ELSE open[u]]
Without(open, uri) == [u \in DOMAIN open \ {uri} |-> open[u]]
IsAsked(m, open) ==
    \E what \in Kinds, uri \in DOMAIN open, place \in {"word", "past", "split"} : \E line \in DOMAIN open[uri].items :
        (place = "split" => open[uri].items[line].wide) /\ m = Question(what, uri, line, place, open)
Effect(m, a, b) ==
    \/ \E uri \in Uris, text \in Buffers : m \in {TextMsg("didOpen", uri, text), TextMsg("didChange", uri, text)} /\ b = Put(a, uri, text)
    \/ \E uri \in DOMAIN a : m = Msg("didClose", uri) /\ b = Without(a, uri)
    \/ IsAsked(m, a) /\ b = a
    \/ m = Msg("shutdown", "") /\ b = a
Replay(s, a, b) == \E O : O[0] = a /\ O[Len(s)] = b /\ \A i \in 1..Len(s) : Effect(s[i], O[i - 1], O[i])

\* The documents stay documents, and the server's follow them.
LEMMA EffectHolds ==
    ASSUME NEW m, NEW a, Held(a), NEW b, Effect(m, a, b)
    PROVE  Held(b)
<1>1. \A uri \in Uris, text \in Buffers : Held(Put(a, uri, text))
  BY DEF Held, Put
<1>2. \A uri \in DOMAIN a : Held(Without(a, uri))
  BY DEF Held, Without
<1> QED BY <1>1, <1>2 DEF Effect
\* Opening, changing and closing on the server's side.
LEMMA DocsFollow ==
    ASSUME NEW a, Held(a), NEW uri
    PROVE  /\ \A text : UpdateDocument(DocsOf(a), uri, text) = DocsOf(Put(a, uri, text))
           /\ RemoveDocument(DocsOf(a), uri) = DocsOf(Without(a, uri))
<1>1. ASSUME NEW text PROVE UpdateDocument(DocsOf(a), uri, text) = DocsOf(Put(a, uri, text))
  <2> DEFINE p == Put(a, uri, text)
             d == DocsOf(a)
  <2> HIDE DEF ParseAndExtract
  <2>1. DOMAIN p = DOMAIN a \cup {uri} /\ \A u \in DOMAIN p : p[u] = IF u = uri THEN text ELSE a[u]
    BY DEF Put
  <2>2. DOMAIN d = DOMAIN a /\ \A u \in DOMAIN a : d[u] = ParseAndExtract(a[u])
    BY DEF DocsOf
  <2> HIDE DEF p, d
  <2>3. \A u \in DOMAIN p : ParseAndExtract(p[u]) = IF u = uri THEN ParseAndExtract(text) ELSE d[u]
    BY <2>1, <2>2
  <2>4. DocsOf(p) = [u \in DOMAIN d \cup {uri} |-> IF u = uri THEN ParseAndExtract(text) ELSE d[u]]
    BY <2>1, <2>2, <2>3 DEF DocsOf
  <2> QED BY <2>4 DEF UpdateDocument, p, d
<1>2. RemoveDocument(DocsOf(a), uri) = DocsOf(Without(a, uri))
  <2> DEFINE p == Without(a, uri)
             d == DocsOf(a)
  <2> HIDE DEF ParseAndExtract
  <2>1. DOMAIN p = DOMAIN a \ {uri} /\ \A u \in DOMAIN p : p[u] = a[u]
    BY DEF Without
  <2>2. DOMAIN d = DOMAIN a /\ \A u \in DOMAIN a : d[u] = ParseAndExtract(a[u])
    BY DEF DocsOf
  <2> HIDE DEF p, d
  <2>3. \A u \in DOMAIN p : ParseAndExtract(p[u]) = d[u]
    BY <2>1, <2>2
  <2>4. DocsOf(p) = [u \in DOMAIN d \ {uri} |-> d[u]]
    BY <2>1, <2>2, <2>3 DEF DocsOf
  <2> QED BY <2>4 DEF RemoveDocument, p, d
<1> QED BY <1>1, <1>2

\* A replay of no message, of one more, and of all but the first.
LEMMA ReplayNone ==
    ASSUME NEW a, NEW b
    PROVE  Replay(<<>>, a, b) <=> a = b
<1>1. Len(<<>>) = 0 /\ 1..0 = {}
  OBVIOUS
<1>2. ASSUME a = b PROVE Replay(<<>>, a, b)
  <2> DEFINE O == [i \in {0} |-> a]
  <2>1. O[0] = a
    OBVIOUS
  <2> HIDE DEF O
  <2> QED BY <1>1, <1>2, <2>1 DEF Replay
<1> QED BY <1>1, <1>2 DEF Replay
\* One more message.
LEMMA ReplayAppend ==
    ASSUME NEW s, IsSeq(s), NEW m, NEW a, NEW b, NEW c, Replay(s, a, b), Effect(m, b, c)
    PROVE  Replay(Append(s, m), a, c)
<1> DEFINE n == Len(s)
           t == Append(s, m)
<1>1. n \in Nat /\ Len(t) = n + 1 /\ t[n + 1] = m /\ \A k \in 1..n : t[k] = s[k]
  BY SeqGrows
<1>2. PICK O : O[0] = a /\ O[n] = b /\ \A i \in 1..n : Effect(s[i], O[i - 1], O[i])
  BY DEF Replay
<1> DEFINE P == [i \in 0..(n + 1) |-> IF i = n + 1 THEN c ELSE O[i]]
<1> HIDE DEF n, t
<1>3. P[0] = a /\ P[n + 1] = c /\ P[n] = b /\ \A i \in 1..n : P[i] = O[i] /\ P[i - 1] = O[i - 1]
  BY <1>1, <1>2
<1> HIDE DEF P
<1>4. \A i \in 1..n : Effect(t[i], P[i - 1], P[i])
  BY <1>1, <1>2, <1>3
<1>5. (n + 1) - 1 = n
  BY <1>1
<1>6. Effect(t[n + 1], P[(n + 1) - 1], P[n + 1])
  BY <1>1, <1>3, <1>5
<1>7. \A i \in 1..(n + 1) : i \in 1..n \/ i = n + 1
  BY <1>1
<1>8. \A i \in 1..(n + 1) : Effect(t[i], P[i - 1], P[i])
  BY <1>4, <1>6, <1>7
<1> QED BY <1>1, <1>3, <1>8 DEF Replay, t
\* All messages but the first.
LEMMA ReplayTail ==
    ASSUME NEW s, IsSeq(s), s # <<>>, NEW a, NEW b, Replay(s, a, b)
    PROVE  \E c : Effect(Head(s), a, c) /\ Replay(Tail(s), c, b)
<1> DEFINE n == Len(s)
           t == Tail(s)
<1>1. n \in Nat /\ n >= 1 /\ Len(t) = n - 1 /\ Head(s) = s[1] /\ \A k \in 1..(n - 1) : t[k] = s[k + 1]
  BY SeqShrinks
<1>2. PICK O : O[0] = a /\ O[n] = b /\ \A i \in 1..n : Effect(s[i], O[i - 1], O[i])
  BY DEF Replay
<1> DEFINE P == [i \in 0..(n - 1) |-> O[i + 1]]
<1> HIDE DEF n, t
<1>3. 1 \in 1..n /\ 1 - 1 = 0
  BY <1>1
<1>4. Effect(Head(s), a, O[1])
  BY <1>1, <1>2, <1>3
<1>5. P[0] = O[1] /\ P[n - 1] = b
  BY <1>1, <1>2
<1>6. ASSUME NEW i \in 1..(n - 1) PROVE Effect(t[i], P[i - 1], P[i])
  <2>1. i + 1 \in 1..n /\ (i + 1) - 1 = i /\ t[i] = s[i + 1]
    BY <1>1
  <2>2. P[i] = O[i + 1] /\ P[i - 1] = O[i]
    BY <1>1
  <2> QED BY <1>2, <2>1, <2>2
<1> HIDE DEF P
<1>7. Replay(t, O[1], b)
  BY <1>1, <1>5, <1>6 DEF Replay
<1> QED BY <1>4, <1>7 DEF t

\* The errors the editor will show of a document when it has received all of s, d being
\* what it shows now.
IsPublish(m, u) == m.m = "publish" /\ m.uri = u
Shows(s, d, u, e) ==
    \/ d = e /\ \A i \in 1..Len(s) : ~IsPublish(s[i], u)
    \/ \E i \in 1..Len(s) : IsPublish(s[i], u) /\ s[i].answer = e /\ \A j \in (i + 1)..Len(s) : ~IsPublish(s[j], u)
\* One more message to the editor.
LEMMA ShowsAppend ==
    ASSUME NEW s, IsSeq(s), NEW d, NEW u, NEW e, Shows(s, d, u, e), NEW m, NEW f,
           IF IsPublish(m, u) THEN f = m.answer ELSE f = e
    PROVE  Shows(Append(s, m), d, u, f)
<1> DEFINE n == Len(s)
           t == Append(s, m)
<1>1. n \in Nat /\ Len(t) = n + 1 /\ t[n + 1] = m /\ \A k \in 1..n : t[k] = s[k]
  BY SeqGrows
<1>2. (\A i \in 1..(n + 1) : i \in 1..n \/ i = n + 1) /\ n + 1 \in 1..(n + 1) /\ (\A i \in 1..n : i \in 1..(n + 1)) /\ ((n + 1) + 1)..(n + 1) = {}
  BY <1>1
<1>3. \A i \in 1..n : (\A j \in (i + 1)..(n + 1) : j \in (i + 1)..n \/ j = n + 1) /\ \A j \in (i + 1)..n : j \in 1..n
  BY <1>1
<1>4. \/ d = e /\ \A i \in 1..n : ~IsPublish(s[i], u)
      \/ \E i \in 1..n : IsPublish(s[i], u) /\ s[i].answer = e /\ \A j \in (i + 1)..n : ~IsPublish(s[j], u)
  BY DEF Shows
<1> HIDE DEF n, t
<1>5. CASE IsPublish(m, u)
  <2>1. IsPublish(t[n + 1], u) /\ t[n + 1].answer = f
    BY <1>1, <1>5
  <2> QED BY <1>1, <1>2, <2>1 DEF Shows, t
<1>6. CASE ~IsPublish(m, u)
  <2>1. CASE d = e /\ \A i \in 1..n : ~IsPublish(s[i], u)
    <3>1. \A i \in 1..(n + 1) : ~IsPublish(t[i], u)
      BY <1>1, <1>2, <1>6, <2>1
    <3> QED BY <1>1, <1>6, <2>1, <3>1 DEF Shows, t
  <2>2. ASSUME NEW i \in 1..n, IsPublish(s[i], u), s[i].answer = e, \A j \in (i + 1)..n : ~IsPublish(s[j], u)
        PROVE  Shows(t, d, u, f)
    <3>1. t[i] = s[i] /\ i \in 1..(n + 1)
      BY <1>1, <1>2
    <3>2. \A j \in (i + 1)..(n + 1) : ~IsPublish(t[j], u)
      BY <1>1, <1>3, <1>6, <2>2
    <3> QED BY <1>1, <1>6, <2>2, <3>1, <3>2 DEF Shows
  <2> QED BY <1>4, <2>1, <2>2 DEF t
<1> QED BY <1>5, <1>6
\* The editor received the first.
LEMMA ShowsTail ==
    ASSUME NEW s, IsSeq(s), s # <<>>, NEW d, NEW u, NEW e, Shows(s, d, u, e), NEW g,
           IF IsPublish(Head(s), u) THEN g = Head(s).answer ELSE g = d
    PROVE  Shows(Tail(s), g, u, e)
<1> DEFINE n == Len(s)
           t == Tail(s)
<1>1. n \in Nat /\ n >= 1 /\ Len(t) = n - 1 /\ Head(s) = s[1] /\ \A k \in 1..(n - 1) : t[k] = s[k + 1]
  BY SeqShrinks
<1>2. \/ d = e /\ \A i \in 1..n : ~IsPublish(s[i], u)
      \/ \E i \in 1..n : IsPublish(s[i], u) /\ s[i].answer = e /\ \A j \in (i + 1)..n : ~IsPublish(s[j], u)
  BY DEF Shows
<1> HIDE DEF n, t
<1>3. 1 \in 1..n /\ \A k \in 1..(n - 1) : k + 1 \in 1..n
  BY <1>1
<1>4. CASE d = e /\ \A i \in 1..n : ~IsPublish(s[i], u)
  <2>1. g = e
    BY <1>1, <1>3, <1>4
  <2>2. \A k \in 1..(n - 1) : ~IsPublish(t[k], u)
    BY <1>1, <1>3, <1>4
  <2> QED BY <1>1, <2>1, <2>2 DEF Shows, t
<1>5. ASSUME NEW i \in 1..n, IsPublish(s[i], u), s[i].answer = e, \A j \in (i + 1)..n : ~IsPublish(s[j], u)
      PROVE  Shows(t, g, u, e)
  <2>1. CASE i = 1
    <3>1. g = e
      BY <1>1, <1>5, <2>1
    <3>2. \A k \in 1..(n - 1) : k + 1 \in (i + 1)..n
      BY <1>1, <2>1
    <3>3. \A k \in 1..(n - 1) : ~IsPublish(t[k], u)
      BY <1>1, <1>5, <3>2
    <3> QED BY <1>1, <3>1, <3>3 DEF Shows
  <2>2. CASE i # 1
    <3>1. i - 1 \in 1..(n - 1) /\ (i - 1) + 1 = i
      BY <1>1, <2>2
    <3>2. t[i - 1] = s[i]
      BY <1>1, <3>1
    <3>3. \A j \in ((i - 1) + 1)..(n - 1) : j \in 1..(n - 1) /\ j + 1 \in (i + 1)..n
      BY <1>1
    <3>4. \A j \in ((i - 1) + 1)..(n - 1) : ~IsPublish(t[j], u)
      BY <1>1, <1>5, <3>3
    <3> QED BY <1>1, <1>5, <3>1, <3>2, <3>4 DEF Shows
  <2> QED BY <2>1, <2>2
<1> QED BY <1>2, <1>4, <1>5 DEF t

\* The fields of the messages.
MsgFields == {"m", "uri", "text", "what", "line", "place", "open", "answer"}
\* A plain message.
LEMMA MsgIs ==
    ASSUME NEW m, NEW uri, NEW x, x = Msg(m, uri)
    PROVE  DOMAIN x = MsgFields /\ x.m = m /\ x.uri = uri
BY DEF Msg, MsgFields
\* One with a text.
LEMMA TextMsgIs ==
    ASSUME NEW m, NEW uri, NEW text, NEW x, x = TextMsg(m, uri, text)
    PROVE  x.m = m /\ x.uri = uri /\ x.text = text
<1> DEFINE y == Msg(m, uri)
<1>1. DOMAIN y = MsgFields /\ y.m = m /\ y.uri = uri
  BY MsgIs
<1>2. x = [y EXCEPT !.text = text]
  BY DEF TextMsg
<1> HIDE DEF y
<1> QED BY <1>1, <1>2 DEF MsgFields
\* A question.
LEMMA QuestionIs ==
    ASSUME NEW what, NEW uri, NEW line, NEW place, NEW open, NEW x, x = Question(what, uri, line, place, open)
    PROVE  DOMAIN x = MsgFields /\ x.m = "request" /\ Asked(x, what, uri, line, place, open)
<1> DEFINE y == Msg("request", uri)
<1>1. DOMAIN y = MsgFields /\ y.m = "request" /\ y.uri = uri
  BY MsgIs
<1>2. x = [y EXCEPT !.what = what, !.line = line, !.place = place, !.open = open]
  BY DEF Question
<1> HIDE DEF y
<1>3. DOMAIN x = MsgFields /\ x.m = "request" /\ x.uri = uri
  BY <1>1, <1>2 DEF MsgFields
<1>4. x.what = what /\ x.line = line /\ x.place = place /\ x.open = open
  BY <1>1, <1>2 DEF MsgFields
<1> QED BY <1>3, <1>4 DEF Asked
\* An answer to it.
LEMMA ResponseIs ==
    ASSUME NEW what, NEW uri, NEW line, NEW place, NEW open, NEW q, q = Question(what, uri, line, place, open),
           NEW answer, NEW x, x = Response(q, answer)
    PROVE  x.m = "response" /\ x.answer = answer /\ Asked(x, what, uri, line, place, open)
<1>1. DOMAIN q = MsgFields /\ Asked(q, what, uri, line, place, open)
  BY QuestionIs
<1>2. x = [q EXCEPT !.m = "response", !.answer = answer]
  BY DEF Response
<1>3. x.m = "response" /\ x.answer = answer
  BY <1>1, <1>2 DEF MsgFields
<1>4. x.what = q.what /\ x.uri = q.uri /\ x.line = q.line /\ x.place = q.place /\ x.open = q.open
  BY <1>1, <1>2 DEF MsgFields
<1> QED BY <1>1, <1>3, <1>4 DEF Asked
\* A publication of errors.
LEMMA PublishIs ==
    ASSUME NEW uri, NEW errors, NEW x, x = Publish(uri, errors)
    PROVE  x.m = "publish" /\ x.uri = uri /\ x.answer = errors
<1> DEFINE y == Msg("publish", uri)
<1>1. DOMAIN y = MsgFields /\ y.m = "publish" /\ y.uri = uri
  BY MsgIs
<1>2. x = [y EXCEPT !.answer = errors]
  BY DEF Publish
<1> HIDE DEF y
<1> QED BY <1>1, <1>2 DEF MsgFields
\* The answer to shutdown is right: it is empty.
LEMMA ByeIs ==
    ASSUME NEW q, q = Msg("shutdown", ""), NEW x, x = [q EXCEPT !.m = "response"]
    PROVE  x.m = "response" /\ Right(x)
<1>1. DOMAIN q = MsgFields /\ q.what = "" /\ q.answer = {}
  BY DEF Msg, MsgFields
<1>2. x.m = "response" /\ x.what = "" /\ x.answer = {}
  BY <1>1 DEF MsgFields
<1> QED BY <1>2 DEF Right

\* The invariant: the messages to the server lead from the documents it knows to those
\* on screen; the errors it knows of are the last published, or shown; and the answers
\* under way are right.
EdFields == {"open", "sent", "toServer", "toClient", "shown", "docs", "server", "split"}
RightSoFar(s) == \A i \in 1..Len(s) : s[i].m = "response" => Right(s[i])
Follows(e) == \E a : Held(a) /\ e.docs = DocsOf(a) /\ Replay(e.toServer, a, e.open)
EdOK(e) ==
    /\ DOMAIN e = EdFields /\ IsSeq(e.toServer) /\ IsSeq(e.toClient) /\ Held(e.open) /\ DOMAIN e.shown = Uris
    /\ Follows(e)
    /\ \A u \in Uris : Shows(e.toClient, e.shown[u], u, DiagnosticsForDocument(e.docs, u))
    /\ RightSoFar(e.toClient)
    /\ e.server = "panicked" => e.split

\* The editor sends a message.
Sends(e, m, open, f) ==
    /\ DOMAIN f = EdFields /\ f.open = open /\ f.toServer = Append(e.toServer, m) /\ f.toClient = e.toClient
    /\ f.shown = e.shown /\ f.docs = e.docs /\ f.server = e.server /\ f.split = e.split
\* Sending keeps the invariant.
LEMMA SendKeeps ==
    ASSUME NEW e, EdOK(e), NEW m, NEW open, Effect(m, e.open, open), NEW f, Sends(e, m, open, f)
    PROVE  EdOK(f)
<1>1. /\ DOMAIN f = EdFields /\ f.open = open /\ f.toServer = Append(e.toServer, m) /\ f.toClient = e.toClient
      /\ f.shown = e.shown /\ f.docs = e.docs /\ f.server = e.server /\ f.split = e.split
  BY DEF Sends
<1>2. IsSeq(e.toServer) /\ Held(e.open)
  BY DEF EdOK
<1>3. PICK a : Held(a) /\ e.docs = DocsOf(a) /\ Replay(e.toServer, a, e.open)
  BY DEF EdOK, Follows
<1>4. Replay(f.toServer, a, open)
  BY <1>1, <1>2, <1>3, ReplayAppend
<1>5. Follows(f)
  BY <1>1, <1>3, <1>4 DEF Follows
<1>6. IsSeq(f.toServer) /\ Held(open)
  BY <1>1, <1>2, SeqGrows, EffectHolds
<1>7. IsSeq(f.toClient) /\ DOMAIN f.shown = Uris
  BY <1>1 DEF EdOK
<1>8. \A u \in Uris : Shows(f.toClient, f.shown[u], u, DiagnosticsForDocument(f.docs, u))
  BY <1>1 DEF EdOK
<1>9. RightSoFar(f.toClient) /\ (f.server = "panicked" => f.split)
  BY <1>1 DEF EdOK
<1> QED BY <1>1, <1>5, <1>6, <1>7, <1>8, <1>9 DEF EdOK

\* The server handles a message, with an answer or a publication m, or with none.
Handles(e, docs, f) ==
    DOMAIN f = EdFields /\ f.open = e.open /\ f.toServer = Tail(e.toServer) /\ f.shown = e.shown /\ f.docs = docs
\* The first message takes the documents the server knows one step on.
LEMMA HeadIs ==
    ASSUME NEW e, EdOK(e), e.toServer # <<>>
    PROVE  \E a, c : /\ Held(a) /\ Held(c) /\ e.docs = DocsOf(a) /\ Effect(Head(e.toServer), a, c)
                     /\ Replay(Tail(e.toServer), c, e.open)
<1>1. PICK a : Held(a) /\ e.docs = DocsOf(a) /\ Replay(e.toServer, a, e.open)
  BY DEF EdOK, Follows
<1>2. IsSeq(e.toServer)
  BY DEF EdOK
<1>3. PICK c : Effect(Head(e.toServer), a, c) /\ Replay(Tail(e.toServer), c, e.open)
  BY <1>1, <1>2, ReplayTail
<1>4. Held(c)
  BY <1>1, <1>3, EffectHolds
<1> QED BY <1>1, <1>3, <1>4
\* Handling it keeps the invariant.
LEMMA HandleKeeps ==
    ASSUME NEW e, EdOK(e), e.toServer # <<>>, NEW c, Held(c), Replay(Tail(e.toServer), c, e.open),
           NEW f, Handles(e, DocsOf(c), f), f.server = "panicked" => f.split, NEW m,
           \/ f.toClient = Append(e.toClient, m) /\ m.m = "response" /\ Right(m) /\ f.docs = e.docs
           \/ f.toClient = Append(e.toClient, m) /\ m.m = "publish" /\
                 \A u \in Uris : DiagnosticsForDocument(f.docs, u) = IF u = m.uri THEN m.answer ELSE DiagnosticsForDocument(e.docs, u)
           \/ f.toClient = e.toClient /\ f.docs = e.docs
    PROVE  EdOK(f)
<1>1. DOMAIN f = EdFields /\ f.open = e.open /\ f.toServer = Tail(e.toServer) /\ f.shown = e.shown /\ f.docs = DocsOf(c)
  BY DEF Handles
<1>2. IsSeq(e.toServer) /\ IsSeq(e.toClient) /\ Held(e.open) /\ DOMAIN e.shown = Uris
  BY DEF EdOK
<1>3. Follows(f) /\ IsSeq(f.toServer) /\ Held(f.open) /\ DOMAIN f.shown = Uris
  <2>1. Follows(f)
    BY <1>1 DEF Follows
  <2>2. IsSeq(f.toServer)
    BY <1>1, <1>2, SeqShrinks
  <2> QED BY <1>1, <1>2, <2>1, <2>2
<1>4. (\A u \in Uris : Shows(e.toClient, e.shown[u], u, DiagnosticsForDocument(e.docs, u))) /\ RightSoFar(e.toClient)
  BY DEF EdOK
<1>5. CASE f.toClient = e.toClient /\ f.docs = e.docs
  <2>1. \A u \in Uris : Shows(f.toClient, f.shown[u], u, DiagnosticsForDocument(f.docs, u))
    BY <1>1, <1>4, <1>5
  <2>2. RightSoFar(f.toClient) /\ IsSeq(f.toClient)
    BY <1>2, <1>4, <1>5
  <2> QED BY <1>1, <1>3, <2>1, <2>2 DEF EdOK
<1>6. ASSUME f.toClient = Append(e.toClient, m), m.m = "response" => Right(m),
             \A u \in Uris : IF IsPublish(m, u) THEN DiagnosticsForDocument(f.docs, u) = m.answer
                                                ELSE DiagnosticsForDocument(f.docs, u) = DiagnosticsForDocument(e.docs, u)
      PROVE  EdOK(f)
  <2>1. ASSUME NEW u \in Uris PROVE Shows(f.toClient, f.shown[u], u, DiagnosticsForDocument(f.docs, u))
    <3>1. Shows(e.toClient, f.shown[u], u, DiagnosticsForDocument(e.docs, u))
      BY <1>1, <1>4
    <3> DEFINE x == DiagnosticsForDocument(f.docs, u)
    <3>2. IF IsPublish(m, u) THEN x = m.answer ELSE x = DiagnosticsForDocument(e.docs, u)
      BY <1>6
    <3> HIDE DEF x
    <3>3. Shows(Append(e.toClient, m), f.shown[u], u, x)
      BY <1>2, <3>1, <3>2, ShowsAppend
    <3> QED BY <1>6, <3>3 DEF x
  <2> DEFINE n == Len(e.toClient)
             t == f.toClient
  <2>2. IsSeq(t) /\ n \in Nat /\ Len(t) = n + 1 /\ t[n + 1] = m /\ \A k \in 1..n : t[k] = e.toClient[k]
    BY <1>2, <1>6, SeqGrows
  <2>3. \A i \in 1..n : e.toClient[i].m = "response" => Right(e.toClient[i])
    BY <1>4 DEF RightSoFar
  <2> HIDE DEF n, t
  <2>4. \A i \in 1..(n + 1) : i \in 1..n \/ i = n + 1
    BY <2>2
  <2>5. RightSoFar(t)
    BY <1>6, <2>2, <2>3, <2>4 DEF RightSoFar
  <2> QED BY <1>1, <1>3, <2>1, <2>2, <2>5 DEF EdOK, t
<1>7. CASE f.toClient = Append(e.toClient, m) /\ m.m = "response" /\ Right(m) /\ f.docs = e.docs
  <2>1. \A u \in Uris : ~IsPublish(m, u)
    BY <1>7 DEF IsPublish
  <2>2. \A u \in Uris : IF IsPublish(m, u) THEN DiagnosticsForDocument(f.docs, u) = m.answer
                                           ELSE DiagnosticsForDocument(f.docs, u) = DiagnosticsForDocument(e.docs, u)
    BY <1>7, <2>1
  <2> QED BY <1>6, <1>7, <2>2
<1>8. CASE /\ f.toClient = Append(e.toClient, m) /\ m.m = "publish"
           /\ \A u \in Uris : DiagnosticsForDocument(f.docs, u) = IF u = m.uri THEN m.answer ELSE DiagnosticsForDocument(e.docs, u)
  <2>1. \A u \in Uris : IsPublish(m, u) <=> u = m.uri
    BY <1>8 DEF IsPublish
  <2>2. \A u \in Uris : IF IsPublish(m, u) THEN DiagnosticsForDocument(f.docs, u) = m.answer
                                           ELSE DiagnosticsForDocument(f.docs, u) = DiagnosticsForDocument(e.docs, u)
    BY <1>8, <2>1
  <2> QED BY <1>6, <1>8, <2>2
<1> QED BY <1>5, <1>7, <1>8

\* Every step keeps the invariant.
LEMMA EditorSends ==
    ASSUME EdOK(ed), NEW uri \in Uris, NEW text \in Buffers, EditorOpens(uri, text) \/ EditorChanges(uri, text) \/ EditorCloses(uri)
    PROVE  EdOK(ed')
<1>1. DOMAIN ed = EdFields
  BY DEF EdOK
<1>2. ASSUME NEW m, NEW open, ed' = [ed EXCEPT !.sent = @ + 1, !.open = open, !.toServer = Append(@, m)], Effect(m, ed.open, open)
      PROVE  EdOK(ed')
  <2>1. DOMAIN ed' = EdFields /\ ed'.open = open /\ ed'.toServer = Append(ed.toServer, m) /\ ed'.toClient = ed.toClient
    BY <1>1, <1>2 DEF EdFields
  <2>2. ed'.shown = ed.shown /\ ed'.docs = ed.docs /\ ed'.server = ed.server /\ ed'.split = ed.split
    BY <1>1, <1>2 DEF EdFields
  <2>3. Sends(ed, m, open, ed')
    BY <2>1, <2>2 DEF Sends
  <2> QED BY <1>2, <2>3, SendKeeps
<1>3. ASSUME NEW m \in {"didOpen", "didChange"}, ed' = [ed EXCEPT !.sent = @ + 1, !.open = Opened(uri, text), !.toServer = Append(@, TextMsg(m, uri, text))]
      PROVE  EdOK(ed')
  <2>1. Opened(uri, text) = Put(ed.open, uri, text)
    BY DEF Opened, Put
  <2>2. Effect(TextMsg(m, uri, text), ed.open, Opened(uri, text))
    <3> DEFINE x == TextMsg(m, uri, text)
    <3>1. x \in {TextMsg("didOpen", uri, text), TextMsg("didChange", uri, text)}
      BY <1>3
    <3> HIDE DEF x
    <3>2. Effect(x, ed.open, Opened(uri, text))
      BY <2>1, <3>1 DEF Effect
    <3> QED BY <3>2 DEF x
  <2> QED BY <1>2, <1>3, <2>2
<1>4. CASE EditorOpens(uri, text)
  <2>1. ed' = [ed EXCEPT !.sent = @ + 1, !.open = Opened(uri, text), !.toServer = Append(@, TextMsg("didOpen", uri, text))]
    BY <1>4 DEF EditorOpens
  <2> QED BY <1>3, <2>1
<1>5. CASE EditorChanges(uri, text)
  <2>1. ed' = [ed EXCEPT !.sent = @ + 1, !.open = Opened(uri, text), !.toServer = Append(@, TextMsg("didChange", uri, text))]
    BY <1>5 DEF EditorChanges
  <2> QED BY <1>3, <2>1
<1>6. CASE EditorCloses(uri)
  <2> DEFINE open == Without(ed.open, uri)
  <2>1. uri \in DOMAIN ed.open /\ ed' = [ed EXCEPT !.sent = @ + 1, !.open = open, !.toServer = Append(@, Msg("didClose", uri))]
    BY <1>1, <1>6 DEF EditorCloses, Without, EdFields
  <2>2. Effect(Msg("didClose", uri), ed.open, open)
    BY <2>1 DEF Effect
  <2> HIDE DEF open
  <2> QED BY <1>2, <2>1, <2>2
<1> QED BY <1>4, <1>5, <1>6
\* The editor asks or says goodbye.
LEMMA EditorPosts ==
    ASSUME EdOK(ed), NEW m, Send(m), Effect(m, ed.open, ed.open)
    PROVE  EdOK(ed')
<1>1. DOMAIN ed = EdFields
  BY DEF EdOK
<1>2. ed' = [ed EXCEPT !.sent = @ + 1, !.toServer = Append(@, m)]
  BY DEF Send
<1>3. DOMAIN ed' = EdFields /\ ed'.open = ed.open /\ ed'.toServer = Append(ed.toServer, m) /\ ed'.toClient = ed.toClient
  BY <1>1, <1>2 DEF EdFields
<1>4. ed'.shown = ed.shown /\ ed'.docs = ed.docs /\ ed'.server = ed.server /\ ed'.split = ed.split
  BY <1>1, <1>2 DEF EdFields
<1>5. Sends(ed, m, ed.open, ed')
  BY <1>3, <1>4 DEF Sends
<1> QED BY <1>5, SendKeeps
\* The editor receives.
LEMMA EditorGets ==
    ASSUME EdOK(ed), EditorReceives
    PROVE  EdOK(ed')
<1> DEFINE m == Head(ed.toClient)
<1>1. DOMAIN ed = EdFields /\ DOMAIN ed.shown = Uris /\ IsSeq(ed.toClient) /\ ed.toClient # <<>>
  BY DEF EdOK, EditorReceives
<1>2. ed' = [ed EXCEPT !.toClient = Tail(@), !.shown = IF m.m = "publish" THEN [@ EXCEPT ![m.uri] = m.answer] ELSE @]
  BY DEF EditorReceives
<1> HIDE DEF m
<1>3. DOMAIN ed' = EdFields /\ ed'.toClient = Tail(ed.toClient) /\ ed'.shown = IF m.m = "publish" THEN [ed.shown EXCEPT ![m.uri] = m.answer] ELSE ed.shown
  BY <1>1, <1>2 DEF EdFields
<1>4. ed'.open = ed.open /\ ed'.toServer = ed.toServer /\ ed'.docs = ed.docs /\ ed'.server = ed.server /\ ed'.split = ed.split
  BY <1>1, <1>2 DEF EdFields
<1>5. DOMAIN ed'.shown = Uris /\ \A u \in Uris : IF IsPublish(m, u) THEN ed'.shown[u] = m.answer ELSE ed'.shown[u] = ed.shown[u]
  BY <1>1, <1>3 DEF IsPublish
<1>6. ASSUME NEW u \in Uris PROVE Shows(ed'.toClient, ed'.shown[u], u, DiagnosticsForDocument(ed'.docs, u))
  <2> DEFINE g == ed'.shown[u]
             x == DiagnosticsForDocument(ed.docs, u)
  <2>1. Shows(ed.toClient, ed.shown[u], u, x)
    BY DEF EdOK
  <2>2. IF IsPublish(m, u) THEN g = m.answer ELSE g = ed.shown[u]
    BY <1>5
  <2> HIDE DEF g, x
  <2>3. Shows(Tail(ed.toClient), g, u, x)
    BY <1>1, <2>1, <2>2, ShowsTail DEF m
  <2> QED BY <1>3, <1>4, <2>3 DEF g, x
<1>7. IsSeq(ed'.toClient) /\ RightSoFar(ed'.toClient)
  <2> DEFINE n == Len(ed.toClient)
             t == Tail(ed.toClient)
  <2>1. IsSeq(t) /\ n \in Nat /\ Len(t) = n - 1 /\ \A k \in 1..(n - 1) : t[k] = ed.toClient[k + 1]
    BY <1>1, SeqShrinks
  <2>2. \A i \in 1..n : ed.toClient[i].m = "response" => Right(ed.toClient[i])
    BY DEF EdOK, RightSoFar
  <2> HIDE DEF n, t
  <2>3. \A k \in 1..(n - 1) : k + 1 \in 1..n
    BY <2>1
  <2>4. RightSoFar(t)
    BY <2>1, <2>2, <2>3 DEF RightSoFar
  <2> QED BY <1>3, <2>1, <2>4 DEF t
<1>8. Follows(ed')
  BY <1>4 DEF EdOK, Follows
<1>9. IsSeq(ed'.toServer) /\ Held(ed'.open) /\ (ed'.server = "panicked" => ed'.split)
  BY <1>4 DEF EdOK
<1> QED BY <1>3, <1>5, <1>6, <1>7, <1>8, <1>9 DEF EdOK

\* What the kind of a message says of its effect.
LEMMA EffectIs ==
    ASSUME NEW m, NEW a, NEW b, Effect(m, a, b)
    PROVE  /\ m.m \in {"didOpen", "didChange"} => b = Put(a, m.uri, m.text) /\ m.uri \in Uris
           /\ m.m = "didClose" => b = Without(a, m.uri) /\ m.uri \in DOMAIN a
           /\ m.m = "request" => b = a /\ IsAsked(m, a)
           /\ m.m = "shutdown" => b = a /\ m = Msg("shutdown", "")
<1>2. CASE \E uri \in Uris, text \in Buffers : m \in {TextMsg("didOpen", uri, text), TextMsg("didChange", uri, text)} /\ b = Put(a, uri, text)
  <2>1. PICK uri \in Uris, text \in Buffers : m \in {TextMsg("didOpen", uri, text), TextMsg("didChange", uri, text)} /\ b = Put(a, uri, text)
    BY <1>2
  <2>2. m.m \in {"didOpen", "didChange"} /\ m.uri = uri /\ m.text = text
    BY <2>1, TextMsgIs
  <2> QED BY <2>1, <2>2
<1>3. CASE \E uri \in DOMAIN a : m = Msg("didClose", uri) /\ b = Without(a, uri)
  <2>1. PICK uri \in DOMAIN a : m = Msg("didClose", uri) /\ b = Without(a, uri)
    BY <1>3
  <2>2. m.m = "didClose" /\ m.uri = uri
    BY <2>1, MsgIs
  <2> QED BY <2>1, <2>2
<1>4. CASE IsAsked(m, a) /\ b = a
  <2>1. m.m = "request"
    BY <1>4, QuestionIs DEF IsAsked
  <2> QED BY <1>4, <2>1
<1>5. CASE m = Msg("shutdown", "") /\ b = a
  <2>1. m.m = "shutdown"
    BY <1>5, MsgIs
  <2> QED BY <1>5, <2>1
<1> QED BY <1>2, <1>3, <1>4, <1>5 DEF Effect

\* The server's steps.
LEMMA OpenOrChangeKeeps ==
    ASSUME EdOK(ed), HandleDidOpenOrChange
    PROVE  EdOK(ed')
<1> DEFINE m == Head(ed.toServer)
           docs == UpdateDocument(ed.docs, m.uri, m.text)
           p == PublishFor(docs, m.uri)
<1>1. DOMAIN ed = EdFields /\ ed.toServer # <<>> /\ m.m \in {"didOpen", "didChange"} /\ (ed.server = "panicked" => ed.split)
  BY DEF EdOK, HandleDidOpenOrChange, Serving
<1>2. ed' = [ed EXCEPT !.toServer = Tail(@), !.docs = docs, !.toClient = Append(@, p)]
  BY DEF HandleDidOpenOrChange
<1>3. PICK a, c : Held(a) /\ Held(c) /\ ed.docs = DocsOf(a) /\ Effect(m, a, c) /\ Replay(Tail(ed.toServer), c, ed.open)
  BY <1>1, HeadIs
<1>4. c = Put(a, m.uri, m.text)
  BY <1>1, <1>3, EffectIs
<1>5. docs = DocsOf(c)
  BY <1>3, <1>4, DocsFollow
<1>6. p.m = "publish" /\ p.uri = m.uri /\ p.answer = DiagnosticsForDocument(docs, m.uri)
  BY PublishIs DEF PublishFor
<1>7. \A u : DiagnosticsForDocument(docs, u) = IF u = m.uri THEN DiagnosticsForDocument(docs, m.uri) ELSE DiagnosticsForDocument(ed.docs, u)
  BY DEF DiagnosticsForDocument, UpdateDocument
<1> HIDE DEF m, docs, p
<1>8. DOMAIN ed' = EdFields /\ ed'.open = ed.open /\ ed'.toServer = Tail(ed.toServer) /\ ed'.shown = ed.shown /\ ed'.docs = docs
  BY <1>1, <1>2 DEF EdFields
<1>9. ed'.toClient = Append(ed.toClient, p) /\ ed'.server = ed.server /\ ed'.split = ed.split
  BY <1>1, <1>2 DEF EdFields
<1>10. Handles(ed, DocsOf(c), ed')
  BY <1>5, <1>8 DEF Handles
<1>11. \A u \in Uris : DiagnosticsForDocument(ed'.docs, u) = IF u = p.uri THEN p.answer ELSE DiagnosticsForDocument(ed.docs, u)
  BY <1>6, <1>7, <1>8
<1>12. ed'.server = "panicked" => ed'.split
  BY <1>1, <1>9
<1> QED BY <1>1, <1>3, <1>6, <1>9, <1>10, <1>11, <1>12, HandleKeeps
\* didClose: the errors of the document go.
LEMMA CloseKeeps ==
    ASSUME EdOK(ed), HandleDidClose
    PROVE  EdOK(ed')
<1> DEFINE m == Head(ed.toServer)
           docs == RemoveDocument(ed.docs, m.uri)
           p == Publish(m.uri, {})
<1>1. DOMAIN ed = EdFields /\ ed.toServer # <<>> /\ m.m = "didClose" /\ (ed.server = "panicked" => ed.split)
  BY DEF EdOK, HandleDidClose, Serving
<1>2. ed' = [ed EXCEPT !.toServer = Tail(@), !.docs = RemoveDocument(@, m.uri), !.toClient = Append(@, p)]
  BY DEF HandleDidClose
<1>3. PICK a, c : Held(a) /\ Held(c) /\ ed.docs = DocsOf(a) /\ Effect(m, a, c) /\ Replay(Tail(ed.toServer), c, ed.open)
  BY <1>1, HeadIs
<1>4. c = Without(a, m.uri)
  BY <1>1, <1>3, EffectIs
<1>5. docs = DocsOf(c)
  BY <1>3, <1>4, DocsFollow
<1>6. p.m = "publish" /\ p.uri = m.uri /\ p.answer = {}
  BY PublishIs
<1>7. \A u : DiagnosticsForDocument(docs, u) = IF u = m.uri THEN {} ELSE DiagnosticsForDocument(ed.docs, u)
  BY DEF DiagnosticsForDocument, RemoveDocument
<1> HIDE DEF m, p
<1>8. DOMAIN ed' = EdFields /\ ed'.open = ed.open /\ ed'.toServer = Tail(ed.toServer) /\ ed'.shown = ed.shown /\ ed'.docs = docs
  BY <1>1, <1>2 DEF EdFields
<1>9. ed'.toClient = Append(ed.toClient, p) /\ ed'.server = ed.server /\ ed'.split = ed.split
  BY <1>1, <1>2 DEF EdFields
<1> HIDE DEF docs
<1>10. Handles(ed, DocsOf(c), ed')
  BY <1>5, <1>8 DEF Handles
<1>11. \A u \in Uris : DiagnosticsForDocument(ed'.docs, u) = IF u = p.uri THEN p.answer ELSE DiagnosticsForDocument(ed.docs, u)
  BY <1>6, <1>7, <1>8
<1>12. ed'.server = "panicked" => ed'.split
  BY <1>1, <1>9
<1> QED BY <1>1, <1>3, <1>6, <1>9, <1>10, <1>11, <1>12, HandleKeeps
\* A request: an answer, or a panic inside a character.
LEMMA RequestKeeps ==
    ASSUME EdOK(ed), HandleRequestMessage
    PROVE  EdOK(ed')
<1> DEFINE q == Head(ed.toServer)
<1>1. DOMAIN ed = EdFields /\ ed.toServer # <<>> /\ q.m = "request" /\ (ed.server = "panicked" => ed.split)
  BY DEF EdOK, HandleRequestMessage, Serving
<1>2. \/ Panics(ed.docs, q) /\ ed' = [ed EXCEPT !.toServer = Tail(@), !.server = "panicked", !.split = q.place = "split"]
      \/ \E answer \in HandleRequest(ed.docs, q) : ed' = [ed EXCEPT !.toServer = Tail(@), !.toClient = Append(@, Response(q, answer))]
  BY DEF HandleRequestMessage
<1>3. PICK a, c : Held(a) /\ Held(c) /\ ed.docs = DocsOf(a) /\ Effect(q, a, c) /\ Replay(Tail(ed.toServer), c, ed.open)
  BY <1>1, HeadIs
<1>4. c = a /\ IsAsked(q, a)
  BY <1>1, <1>3, EffectIs
<1> HIDE DEF q
<1>5. ASSUME Panics(ed.docs, q), ed' = [ed EXCEPT !.toServer = Tail(@), !.server = "panicked", !.split = q.place = "split"]
      PROVE  EdOK(ed')
  <2>1. q.place = "split"
    BY <1>5 DEF Panics
  <2>2. DOMAIN ed' = EdFields /\ ed'.open = ed.open /\ ed'.toServer = Tail(ed.toServer) /\ ed'.shown = ed.shown /\ ed'.docs = ed.docs
    BY <1>1, <1>5 DEF EdFields
  <2>3. ed'.toClient = ed.toClient /\ ed'.split = (q.place = "split")
    BY <1>1, <1>5 DEF EdFields
  <2>4. Handles(ed, DocsOf(c), ed')
    BY <1>3, <1>4, <2>2 DEF Handles
  <2>5. ed'.split
    BY <2>1, <2>3
  <2> QED BY <1>1, <1>3, <2>2, <2>3, <2>4, <2>5, HandleKeeps
<1>6. ASSUME NEW answer \in HandleRequest(ed.docs, q), ed' = [ed EXCEPT !.toServer = Tail(@), !.toClient = Append(@, Response(q, answer))]
      PROVE  EdOK(ed')
  <2> DEFINE r == Response(q, answer)
  <2>0. PICK what \in Kinds, uri \in DOMAIN a, place \in {"word", "past", "split"} :
           \E line \in DOMAIN a[uri].items : q = Question(what, uri, line, place, a)
    BY <1>4 DEF IsAsked
  <2>1. PICK line \in DOMAIN a[uri].items : q = Question(what, uri, line, place, a)
    BY <2>0
  <2>2. Asked(q, what, uri, line, place, a)
    BY <2>1, QuestionIs
  <2>3. r.m = "response" /\ r.answer = answer /\ Asked(r, what, uri, line, place, a)
    BY <2>1, ResponseIs
  <2> HIDE DEF r
  <2>4. answer \in HandleRequest(DocsOf(a), q)
    BY <1>3, <1>6
  <2>5. Right(r)
    BY <1>3, <2>2, <2>3, <2>4, AnswersRight
  <2>6. DOMAIN ed' = EdFields /\ ed'.open = ed.open /\ ed'.toServer = Tail(ed.toServer) /\ ed'.shown = ed.shown /\ ed'.docs = ed.docs
    BY <1>1, <1>6 DEF EdFields
  <2>7. ed'.toClient = Append(ed.toClient, r) /\ ed'.server = ed.server /\ ed'.split = ed.split
    BY <1>1, <1>6 DEF EdFields, r
  <2>8. Handles(ed, DocsOf(c), ed')
    BY <1>3, <1>4, <2>6 DEF Handles
  <2>9. ed'.server = "panicked" => ed'.split
    BY <1>1, <2>7
  <2> QED BY <1>1, <1>3, <2>3, <2>5, <2>6, <2>7, <2>8, <2>9, HandleKeeps
<1> QED BY <1>2, <1>5, <1>6
\* shutdown.
LEMMA ShutdownKeeps ==
    ASSUME EdOK(ed), HandleShutdown
    PROVE  EdOK(ed')
<1> DEFINE q == Head(ed.toServer)
           r == [q EXCEPT !.m = "response"]
<1>1. DOMAIN ed = EdFields /\ ed.toServer # <<>> /\ q.m = "shutdown"
  BY DEF EdOK, HandleShutdown, Serving
<1>2. ed' = [ed EXCEPT !.toServer = Tail(@), !.server = "stopped", !.toClient = Append(@, r)]
  BY DEF HandleShutdown
<1>3. PICK a, c : Held(a) /\ Held(c) /\ ed.docs = DocsOf(a) /\ Effect(q, a, c) /\ Replay(Tail(ed.toServer), c, ed.open)
  BY <1>1, HeadIs
<1>4. c = a /\ q = Msg("shutdown", "")
  BY <1>1, <1>3, EffectIs
<1>5. r.m = "response" /\ Right(r)
  <2> HIDE DEF q
  <2>1. q = Msg("shutdown", "") /\ r = [q EXCEPT !.m = "response"]
    BY <1>4
  <2> HIDE DEF r
  <2> QED BY <2>1, ByeIs
<1> HIDE DEF q, r
<1>6. DOMAIN ed' = EdFields /\ ed'.open = ed.open /\ ed'.toServer = Tail(ed.toServer) /\ ed'.shown = ed.shown /\ ed'.docs = ed.docs
  BY <1>1, <1>2 DEF EdFields
<1>7. ed'.toClient = Append(ed.toClient, r) /\ ed'.server = "stopped"
  BY <1>1, <1>2 DEF EdFields
<1>8. Handles(ed, DocsOf(c), ed')
  BY <1>3, <1>4, <1>6 DEF Handles
<1>9. ed'.server = "panicked" => ed'.split
  BY <1>7
<1> QED BY <1>1, <1>3, <1>5, <1>6, <1>7, <1>8, <1>9, HandleKeeps

\* The invariant at the start.
LEMMA EditorStarts ==
    ASSUME LspInit
    PROVE  EdOK(ed)
<1>1. ed = ServerStart
  BY DEF LspInit
<1>2. ed.open = <<>> /\ ed.toServer = <<>> /\ ed.toClient = <<>> /\ ed.docs = <<>>
  BY <1>1 DEF ServerStart, ServerStateNew
<1>3. DOMAIN ed = EdFields /\ ed.shown = [u \in Uris |-> {}] /\ ed.server = "running"
  BY <1>1 DEF ServerStart, EdFields
<1>4. IsSeq(<<>>) /\ Held(<<>>) /\ DocsOf(<<>>) = <<>> /\ Len(<<>>) = 0 /\ DOMAIN <<>> = {}
  <2>1. DOMAIN <<>> = {} /\ Len(<<>>) = 0
    OBVIOUS
  <2>2. \A f : DOMAIN f = {} /\ f = [u \in DOMAIN f |-> f[u]] => f = <<>>
    OBVIOUS
  <2>3. <<>> = [u \in DOMAIN <<>> |-> <<>>[u]]
    OBVIOUS
  <2>4. Held(<<>>)
    BY <2>1, <2>3 DEF Held
  <2>5. DocsOf(<<>>) = <<>>
    <3> DEFINE d == DocsOf(<<>>)
    <3>1. DOMAIN d = {} /\ d = [u \in DOMAIN d |-> d[u]]
      BY <2>1 DEF DocsOf
    <3> HIDE DEF d
    <3>2. d = <<>>
      BY <2>2, <3>1
    <3> QED BY <3>2 DEF d
  <2>6. IsSeq(<<>>)
    BY DEF IsSeq
  <2> QED BY <2>1, <2>4, <2>5, <2>6
<1>5. Follows(ed)
  <2>1. Replay(<<>>, <<>>, <<>>)
    BY ReplayNone
  <2> QED BY <1>2, <1>4, <2>1 DEF Follows
<1>6. \A u \in Uris : Shows(ed.toClient, ed.shown[u], u, DiagnosticsForDocument(ed.docs, u))
  <2>1. \A u \in Uris : ed.shown[u] = {} /\ DiagnosticsForDocument(ed.docs, u) = {}
    BY <1>2, <1>3, <1>4 DEF DiagnosticsForDocument
  <2>2. ASSUME NEW u \in Uris PROVE Shows(<<>>, ed.shown[u], u, DiagnosticsForDocument(ed.docs, u))
    <3> DEFINE x == ed.shown[u]
               y == DiagnosticsForDocument(ed.docs, u)
    <3>1. x = y
      BY <2>1
    <3>2. Len(<<>>) = 0 /\ 1..0 = {}
      OBVIOUS
    <3> HIDE DEF x, y
    <3>3. Shows(<<>>, x, u, y)
      BY <3>1, <3>2 DEF Shows
    <3> QED BY <3>3 DEF x, y
  <2> QED BY <1>2, <2>2
<1>7. RightSoFar(ed.toClient)
  BY <1>2, <1>4 DEF RightSoFar
<1>8. DOMAIN ed.shown = Uris /\ (ed.server = "panicked" => ed.split)
  BY <1>3
<1>9. IsSeq(ed.toServer) /\ IsSeq(ed.toClient) /\ Held(ed.open)
  BY <1>2, <1>4
<1> QED BY <1>3, <1>5, <1>6, <1>7, <1>8, <1>9 DEF EdOK
\* And after every step.
LEMMA EditorKeeps ==
    ASSUME EdOK(ed), [LspNext]_ed
    PROVE  EdOK(ed')
<1>1. ASSUME NEW uri \in Uris, NEW text \in Buffers, EditorOpens(uri, text) \/ EditorChanges(uri, text) PROVE EdOK(ed')
  BY <1>1, EditorSends
<1>2. ASSUME NEW uri \in Uris, EditorCloses(uri) PROVE EdOK(ed')
  <2>1. uri \in DOMAIN ed.open /\ Held(ed.open)
    BY <1>2 DEF EditorCloses, EdOK
  <2>2. PICK text \in Buffers : text = ed.open[uri]
    BY <2>1 DEF Held
  <2> QED BY <1>2, <2>2, EditorSends
<1>3. ASSUME NEW what \in Kinds, NEW uri \in DOMAIN ed.open, NEW place \in {"word", "past", "split"}, NEW line \in DOMAIN ed.open[uri].items,
             EditorAsks(what, uri, line, place)
      PROVE  EdOK(ed')
  <2> DEFINE m == Question(what, uri, line, place, ed.open)
  <2>1. Send(m) /\ (place = "split" => ed.open[uri].items[line].wide)
    BY <1>3 DEF EditorAsks
  <2> HIDE DEF m
  <2>2. IsAsked(m, ed.open)
    BY <2>1 DEF IsAsked, m
  <2>3. Effect(m, ed.open, ed.open)
    BY <2>2 DEF Effect
  <2> QED BY <2>1, <2>3, EditorPosts
<1>4. ASSUME EditorShutsDown PROVE EdOK(ed')
  <2> DEFINE m == Msg("shutdown", "")
  <2>1. Send(m)
    BY <1>4 DEF EditorShutsDown
  <2>2. Effect(m, ed.open, ed.open)
    BY DEF Effect
  <2> HIDE DEF m
  <2> QED BY <2>1, <2>2, EditorPosts
<1>5. ASSUME ed' = ed PROVE EdOK(ed')
  BY <1>5
<1>6. (EditorReceives => EdOK(ed')) /\ (HandleDidOpenOrChange => EdOK(ed')) /\ (HandleDidClose => EdOK(ed'))
      /\ (HandleRequestMessage => EdOK(ed')) /\ (HandleShutdown => EdOK(ed'))
  BY EditorGets, OpenOrChangeKeeps, CloseKeeps, RequestKeeps, ShutdownKeeps
<1> QED BY <1>1, <1>2, <1>3, <1>4, <1>5, <1>6 DEF LspNext

\* What the invariant says of the screen once nothing is under way.
LEMMA EditorShows ==
    ASSUME EdOK(ed)
    PROVE  EditorSees
<1>1. \A i \in DOMAIN ed.toClient : ed.toClient[i].m = "response" => Right(ed.toClient[i])
  <2>1. IsSeq(ed.toClient) /\ RightSoFar(ed.toClient)
    BY DEF EdOK
  <2>2. DOMAIN ed.toClient = 1..Len(ed.toClient)
    BY <2>1 DEF IsSeq
  <2> QED BY <2>1, <2>2 DEF RightSoFar
<1>2. ASSUME ed.toServer = <<>>, ed.toClient = <<>>, NEW u \in Uris
      PROVE  ed.shown[u] = IF u \in DOMAIN ed.open THEN ParseAndExtract(ed.open[u]).errors ELSE {}
  <2>1. PICK a : Held(a) /\ ed.docs = DocsOf(a) /\ Replay(ed.toServer, a, ed.open)
    BY DEF EdOK, Follows
  <2>2. a = ed.open
    BY <1>2, <2>1, ReplayNone
  <2>3. DOMAIN ed.docs = DOMAIN ed.open /\ \A v \in DOMAIN ed.open : ed.docs[v] = ParseAndExtract(ed.open[v])
    BY <2>1, <2>2, DocsAre
  <2>4. Shows(<<>>, ed.shown[u], u, DiagnosticsForDocument(ed.docs, u))
    BY <1>2 DEF EdOK
  <2>5. Len(<<>>) = 0 /\ 1..0 = {}
    OBVIOUS
  <2>6. ed.shown[u] = DiagnosticsForDocument(ed.docs, u)
    BY <2>4, <2>5 DEF Shows
  <2> QED BY <2>3, <2>6 DEF DiagnosticsForDocument
<1>3. ed.server = "panicked" => ed.split
  BY DEF EdOK
<1> QED BY <1>1, <1>2, <1>3 DEF EditorSees

\* Whatever the editor sends while earlier messages are under way: every answer is right
\* for the documents as they were when it was asked for, the errors on screen are those
\* of the texts on screen once nothing is under way, and only a position inside a
\* character stops the server (doo_lsp, main_loop and its handlers).
THEOREM EditorIsRight == LspSpec => []EditorSees
<1>1. LspInit => EdOK(ed)
  BY EditorStarts
<1>2. EdOK(ed) /\ [LspNext]_ed => EdOK(ed)'
  BY EditorKeeps
<1>3. EdOK(ed) => EditorSees
  BY EditorShows
<1> QED BY <1>1, <1>2, <1>3, PTL DEF LspSpec
=============================================================================

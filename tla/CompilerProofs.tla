-------------------------- MODULE CompilerProofs --------------------------
(***************************************************************************)
(* Proofs about the compiler, for every value of the constants.  The code  *)
(* it emits for the methods of maps and arrays keeps the promises of       *)
(* MapSpec and ArraySpec: for the map this needs that the pairs in use are *)
(* at the front of the block with each key once; for the array that the    *)
(* header is in range, and what every emitted loop has done after a number *)
(* of its turns.  The borrow checker (BorrowCheck) reports the conflicts   *)
(* there are, no more and no fewer, a match that is accepted leaves no     *)
(* value out (MatchCheck), and a program whose types are accepted does not *)
(* get stuck (TypeSound).                                                  *)
(***************************************************************************)
EXTENDS MapMemory, ArrayMemory, BorrowCheck, MatchCheck, TypeSound, FiniteSetTheorems, Inductions

\* Maps.

\* The pairs in use are stored at the front of the block, each key once.
MapTypeOK ==
    /\ mv = [f \in {"len", "pairs", "out", "op"} |-> mv[f]]
    /\ mv.len \in Nat /\ mv.pairs \in Seq(Keys \X Vals) /\ mv.len <= Len(mv.pairs)
KeysOnce == \A i, j \in 1..mv.len : mv.pairs[i][1] = mv.pairs[j][1] => i = j
MapInv == MapTypeOK /\ KeysOnce

\* m is where the loop that starts at i ends, in a block with n pairs: at the first key k.
Ends1(p, n, k, i, m) ==
    /\ m \in i..(n + 1) /\ (m > n \/ p[m][1] = k)
    /\ \A j \in i..(m - 1) : p[j][1] # k

\* There is such an index.
LEMMA FirstExists ==
    ASSUME NEW p, NEW n \in Nat, NEW k, NEW i \in 1..(n + 1)
    PROVE  \E m : Ends1(p, n, k, i, m)
<1> DEFINE T == {m \in i..(n + 1) : m > n \/ p[m][1] = k}
<1>1. T \in SUBSET Nat /\ n + 1 \in T
  OBVIOUS
<1>2. PICK m \in T : \A j \in T : m <= j
  BY <1>1, Least
<1>3. \A j \in i..(m - 1) : p[j][1] # k
  BY <1>2
<1> QED
  BY <1>2, <1>3 DEF Ends1

\* The scan of get, has, set and remove ends at the first pair with the key, or behind
\* the last pair.
LEMMA ScanIs ==
    ASSUME NEW k, mv.len \in Nat
    PROVE  Ends1(mv.pairs, mv.len, k, 1, Scan(k))
<1> DEFINE p == mv.pairs
           n == mv.len
           First(i) == CHOOSE m : Ends1(p, n, k, i, m)
           Body(g) == [i \in 1..(n + 1) |-> IF i > n \/ p[i][1] = k THEN i ELSE g[i + 1]]
           G == [i \in 1..(n + 1) |-> First(i)]
           L == CHOOSE g : g = Body(g)
<1>0. n \in Nat
  OBVIOUS
<1>1. Scan(k) = L[1]
  BY DEF Scan
<1> HIDE DEF p, n
<1>2. \A i \in 1..(n + 1) : Ends1(p, n, k, i, First(i))
  BY <1>0, FirstExists
<1>3. \A i \in 1..(n + 1) : \A m1, m2 : Ends1(p, n, k, i, m1) /\ Ends1(p, n, k, i, m2) => m1 = m2
  <2> SUFFICES ASSUME NEW i \in 1..(n + 1), NEW m1, NEW m2,
                      Ends1(p, n, k, i, m1), Ends1(p, n, k, i, m2)
               PROVE  m1 = m2
    OBVIOUS
  <2>1. m1 \in Int /\ m2 \in Int /\ ~(m1 < m2) /\ ~(m2 < m1)
    BY <1>0 DEF Ends1
  <2> QED BY <2>1
<1> HIDE DEF First
<1>4. \A i \in 1..(n + 1) : First(i) = IF i > n \/ p[i][1] = k THEN i ELSE First(i + 1)
  <2> SUFFICES ASSUME NEW i \in 1..(n + 1)
               PROVE  First(i) = IF i > n \/ p[i][1] = k THEN i ELSE First(i + 1)
    OBVIOUS
  <2>1. CASE i > n \/ p[i][1] = k
    <3>1. Ends1(p, n, k, i, i)
      BY <1>0, <2>1 DEF Ends1
    <3> QED BY <1>2, <1>3, <2>1, <3>1
  <2>2. CASE ~(i > n \/ p[i][1] = k)
    <3>1. i + 1 \in 1..(n + 1)
      BY <1>0, <2>2
    <3>2. Ends1(p, n, k, i + 1, First(i + 1))
      BY <1>2, <3>1
    <3>3. Ends1(p, n, k, i, First(i + 1))
      BY <1>0, <2>2, <3>2 DEF Ends1
    <3> QED BY <1>2, <1>3, <2>2, <3>3
  <2> QED BY <2>1, <2>2
<1>5. G = Body(G)
  BY <1>0, <1>4
<1> HIDE DEF G
<1>6. L = Body(L)
  BY <1>5
<1> HIDE DEF L
<1> DEFINE S == {d \in Nat : d < First(1) => L[First(1) - d] = First(1)}
<1>7. First(1) \in 1..(n + 1) /\ Ends1(p, n, k, 1, First(1))
  BY <1>0, <1>2 DEF Ends1
<1>8. 0 \in S
  <2>1. L[First(1)] = First(1)
    BY <1>0, <1>6, <1>7 DEF Ends1
  <2> QED BY <1>7, <2>1
<1>9. \A d \in Nat : d \in S => d + 1 \in S
  <2> SUFFICES ASSUME NEW d \in Nat, d \in S, d + 1 < First(1)
               PROVE  L[First(1) - (d + 1)] = First(1)
    OBVIOUS
  <2> DEFINE i == First(1) - (d + 1)
  <2>1. i \in 1..(n + 1) /\ i <= n /\ i \in 1..(First(1) - 1) /\ i + 1 = First(1) - d
    BY <1>0, <1>7
  <2>2. p[i][1] # k
    BY <1>7, <2>1 DEF Ends1
  <2>3. L[i] = L[i + 1]
    BY <1>0, <1>6, <2>1, <2>2
  <2> QED BY <1>7, <2>1, <2>3
<1> HIDE DEF S
<1>10. \A d \in Nat : d \in S
  BY <1>8, <1>9, Induct
<1>11. First(1) - 1 \in S /\ First(1) - 1 \in Nat
  BY <1>7, <1>10
<1>12. L[1] = First(1)
  BY <1>7, <1>11 DEF S
<1> QED
  BY <1>1, <1>7, <1>12 DEF p, n

\* Keys of a block are distinct.
Distinct(m) == \A i, j \in 1..m.len : m.pairs[i][1] = m.pairs[j][1] => i = j

\* In a block with distinct keys every pair is a value of the function.
LEMMA FunctionIs ==
    ASSUME NEW m, m.len \in Nat, Distinct(m)
    PROVE  /\ DOMAIN AsFunction(m) = {m.pairs[i][1] : i \in 1..m.len}
           /\ AsFunction(m) = [k \in DOMAIN AsFunction(m) |-> AsFunction(m)[k]]
           /\ \A i \in 1..m.len : AsFunction(m)[m.pairs[i][1]] = m.pairs[i][2]
<1>1. DOMAIN AsFunction(m) = {m.pairs[i][1] : i \in 1..m.len}
  BY DEF AsFunction
<1>2. AsFunction(m) = [k \in DOMAIN AsFunction(m) |-> AsFunction(m)[k]]
  BY DEF AsFunction
<1>3. ASSUME NEW i \in 1..m.len PROVE AsFunction(m)[m.pairs[i][1]] = m.pairs[i][2]
  <2> DEFINE k == m.pairs[i][1]
             c == CHOOSE x \in 1..m.len : m.pairs[x][1] = k /\ \A j \in 1..(x - 1) : m.pairs[j][1] # k
  <2>1. i \in 1..m.len /\ m.pairs[i][1] = k /\ \A j \in 1..(i - 1) : m.pairs[j][1] # k
    BY DEF Distinct
  <2>2. c \in 1..m.len /\ m.pairs[c][1] = k
    BY <2>1
  <2>3. c = i
    BY <2>2 DEF Distinct
  <2>4. AsFunction(m)[k] = m.pairs[c][2]
    BY <1>1 DEF AsFunction
  <2> QED BY <2>3, <2>4
<1> QED BY <1>1, <1>2, <1>3

\* A literal is a map.
LEMMA MapInitOK == MapInit => MapInv /\ MapAbs!MInit
<1> SUFFICES ASSUME MapInit PROVE MapInv /\ MapAbs!MInit
  OBVIOUS
<1>1. PICK n \in 0..2 : \E p \in [1..n -> Keys \X Vals] :
         mv = MapStart(p) /\ \A i, j \in DOMAIN p : p[i][1] = p[j][1] => i = j
  BY DEF MapInit
<1>1a. PICK p \in [1..n -> Keys \X Vals] :
         mv = MapStart(p) /\ \A i, j \in DOMAIN p : p[i][1] = p[j][1] => i = j
  BY <1>1
<1>2. p \in Seq(Keys \X Vals) /\ Len(p) = n
  OBVIOUS
<1>3. MapInv /\ mv.len = n /\ mv.pairs = p /\ mv.out = <<>> /\ mv.op = <<>>
  BY <1>1a, <1>2 DEF MapStart, MapInv, MapTypeOK, KeysOnce
<1> DEFINE K == {p[i][1] : i \in 1..n}
           f == AsFunction(mv)
<1>4. Distinct(mv)
  BY <1>3 DEF Distinct, MapInv, KeysOnce
<1>5. DOMAIN f = K /\ f = [k \in K |-> f[k]] /\ \A i \in 1..n : f[p[i][1]] = p[i][2]
  <2>1. mv.len \in Nat
    BY <1>3
  <2>2. /\ DOMAIN f = {mv.pairs[i][1] : i \in 1..mv.len} /\ f = [k \in DOMAIN f |-> f[k]]
        /\ \A i \in 1..mv.len : f[mv.pairs[i][1]] = mv.pairs[i][2]
    BY <1>4, <2>1, FunctionIs
  <2> QED BY <1>3, <2>2
<1> HIDE DEF f
<1>6. K \in SUBSET Keys /\ f \in [K -> Vals]
  BY <1>1a, <1>5
<1>7. EmitKeys = [i \in 1..n |-> p[i][1]]
  BY <1>3 DEF EmitKeys
<1>8. EmitKeys \in Seq(K) /\ \A i, j \in DOMAIN EmitKeys : EmitKeys[i] = EmitKeys[j] => i = j
  BY <1>1a, <1>7
<1>9. {EmitKeys[i] : i \in DOMAIN EmitKeys} = K
  BY <1>7
<1> HIDE DEF K
<1> QED
  BY <1>3, <1>5, <1>6, <1>8, <1>9 DEF MapAbs!MInit, MapAbs!IsInjective, MapAbs!Range, f

\* A function with these values is the one.
LEMMA FunctionUnique ==
    ASSUME NEW m, m.len \in Nat, Distinct(m), NEW g,
           g = [k \in {m.pairs[i][1] : i \in 1..m.len} |-> g[k]],
           \A i \in 1..m.len : g[m.pairs[i][1]] = m.pairs[i][2]
    PROVE  AsFunction(m) = g
<1> DEFINE f == AsFunction(m)
           D == {m.pairs[i][1] : i \in 1..m.len}
<1>1. f = [k \in D |-> f[k]] /\ \A i \in 1..m.len : f[m.pairs[i][1]] = m.pairs[i][2]
  BY FunctionIs
<1>2. \A k \in D : f[k] = g[k]
  BY <1>1
<1> HIDE DEF f, D
<1> QED BY <1>1, <1>2 DEF f, D

\* What a lookup finds.
LEMMA LookupIs ==
    ASSUME MapInv, NEW k
    PROVE  /\ Scan(k) \in 1..(mv.len + 1)
           /\ k \in DOMAIN AsFunction(mv) <=> Scan(k) <= mv.len
           /\ Scan(k) <= mv.len => mv.pairs[Scan(k)][1] = k /\ mv.pairs[Scan(k)][2] = AsFunction(mv)[k]
<1>1. mv.len \in Nat /\ Distinct(mv)
  BY DEF MapInv, MapTypeOK, KeysOnce, Distinct
<1>2. Ends1(mv.pairs, mv.len, k, 1, Scan(k))
  BY <1>1, ScanIs
<1>3. /\ DOMAIN AsFunction(mv) = {mv.pairs[i][1] : i \in 1..mv.len}
      /\ \A i \in 1..mv.len : AsFunction(mv)[mv.pairs[i][1]] = mv.pairs[i][2]
  BY <1>1, FunctionIs
<1> QED
  BY <1>1, <1>2, <1>3 DEF Ends1

\* What a call that leaves the block alone leaves alone.
LEMMA SameBlock ==
    ASSUME MapInv, mv' = [f \in {"len", "pairs", "out", "op"} |-> mv'[f]],
           mv'.len = mv.len, mv'.pairs = mv.pairs
    PROVE  MapInv' /\ AsFunction(mv') = AsFunction(mv) /\ EmitKeys' = EmitKeys
<1>1. MapInv'
  BY DEF MapInv, MapTypeOK, KeysOnce
<1>2. AsFunction(mv') = AsFunction(mv)
  BY DEF AsFunction
<1> QED BY <1>1, <1>2 DEF EmitKeys

\* get, has and list change nothing and answer what the function holds.
LEMMA ReadsAreReads ==
    ASSUME MapInv, NEW k \in Keys, MapGet(k) \/ MapHas(k)
    PROVE  MapInv' /\ (MapAbs!MGet(k) \/ MapAbs!MHas(k))
<1>1. /\ mv' = [f \in {"len", "pairs", "out", "op"} |-> mv'[f]] /\ mv'.len = mv.len /\ mv'.pairs = mv.pairs
      /\ \/ /\ mv'.op = <<"get", k>>
            /\ mv'.out = <<IF Scan(k) <= mv.len THEN mv.pairs[Scan(k)][2] ELSE Default>>
         \/ mv'.op = <<"has", k>> /\ mv'.out = <<IF Scan(k) <= mv.len THEN 1 ELSE 0>>
  BY DEF MapGet, MapHas, MapInv, MapTypeOK
<1>2. MapInv' /\ AsFunction(mv') = AsFunction(mv) /\ EmitKeys' = EmitKeys
  BY <1>1, SameBlock
<1> QED
  BY <1>1, <1>2, LookupIs DEF MapAbs!MGet, MapAbs!MHas

\* So does a listing.
LEMMA ListIsList ==
    ASSUME MapInv, EmitList
    PROVE  MapInv' /\ MapAbs!MList
<1>1. /\ mv' = [f \in {"len", "pairs", "out", "op"} |-> mv'[f]] /\ mv'.len = mv.len /\ mv'.pairs = mv.pairs
      /\ mv'.op = <<"list">> /\ mv'.out = EmitKeys \o EmitValues
  BY DEF EmitList, MapInv, MapTypeOK
<1>2. MapInv' /\ AsFunction(mv') = AsFunction(mv) /\ EmitKeys' = EmitKeys
  BY <1>1, SameBlock
<1>3. mv.len \in Nat /\ Distinct(mv)
  BY DEF MapInv, MapTypeOK, KeysOnce, Distinct
<1>4. \A i \in 1..mv.len : AsFunction(mv)[mv.pairs[i][1]] = mv.pairs[i][2]
  BY <1>3, FunctionIs
<1>5. EmitValues = [i \in DOMAIN EmitKeys |-> AsFunction(mv)[EmitKeys[i]]]
  BY <1>3, <1>4 DEF EmitValues, EmitKeys
<1> QED
  BY <1>1, <1>2, <1>5 DEF MapAbs!MList

\* Clearing resets the length; what is left behind it is no key.
LEMMA ClearIsClear ==
    ASSUME MapInv, EmitMapClear
    PROVE  MapInv' /\ MapAbs!MClear
<1>1. /\ mv' = [f \in {"len", "pairs", "out", "op"} |-> mv'[f]] /\ mv'.len = 0 /\ mv'.pairs = mv.pairs
      /\ mv'.op = <<"clear">> /\ mv'.out = mv.out
  BY DEF EmitMapClear, MapInv, MapTypeOK
<1>2. MapInv'
  BY <1>1 DEF MapInv, MapTypeOK, KeysOnce
<1>3. EmitKeys' = <<>>
  BY <1>1 DEF EmitKeys
<1>4. AsFunction(mv') = [x \in {} |-> AsFunction(mv)[x]]
  BY <1>1 DEF AsFunction
<1> QED
  BY <1>1, <1>2, <1>3, <1>4 DEF MapAbs!MClear, MapAbs!Restrict

\* Storing under a key that is there replaces its value; under a new key it adds a pair
\* behind the others.
LEMMA SetIsPut ==
    ASSUME MapInv, NEW k \in Keys, NEW v \in Vals, MapSet(k, v)
    PROVE  MapInv' /\ MapAbs!MPut(k, v)
<1> DEFINE F == AsFunction(mv)
           G == [x \in DOMAIN F \cup {k} |-> IF x = k THEN v ELSE F[x]]
<1>1. mv.len \in Nat /\ Distinct(mv) /\ mv.pairs \in Seq(Keys \X Vals) /\ mv.len <= Len(mv.pairs)
  BY DEF MapInv, MapTypeOK, KeysOnce, Distinct
<1>2. /\ DOMAIN F = {mv.pairs[i][1] : i \in 1..mv.len} /\ F = [x \in DOMAIN F |-> F[x]]
      /\ \A i \in 1..mv.len : F[mv.pairs[i][1]] = mv.pairs[i][2]
  BY <1>1, FunctionIs
<1>3. /\ Scan(k) \in 1..(mv.len + 1)
      /\ k \in DOMAIN F <=> Scan(k) <= mv.len
      /\ Scan(k) <= mv.len => mv.pairs[Scan(k)][1] = k
  BY LookupIs
<1> HIDE DEF F
<1>4. CASE Scan(k) <= mv.len
  <2> DEFINE s == Scan(k)
             q == [mv.pairs EXCEPT ![s] = <<k, v>>]
  <2>1. /\ mv' = [f \in {"len", "pairs", "out", "op"} |-> mv'[f]] /\ mv'.len = mv.len /\ mv'.pairs = q
        /\ mv'.op = <<"set", k, v>> /\ mv'.out = mv.out
    BY <1>4 DEF MapSet, MapInv, MapTypeOK
  <2>2. s \in 1..mv.len /\ mv.pairs[s][1] = k
    BY <1>1, <1>3, <1>4
  <2> HIDE DEF s
  <2>3. q \in Seq(Keys \X Vals) /\ Len(q) = Len(mv.pairs) /\ q[s] = <<k, v>>
        /\ \A i \in 1..mv.len : i # s => q[i] = mv.pairs[i]
    BY <1>1, <2>2
  <2> HIDE DEF q
  <2>4. \A i \in 1..mv.len : q[i][1] = mv.pairs[i][1] /\ q[i][2] = IF i = s THEN v ELSE mv.pairs[i][2]
    BY <2>2, <2>3
  <2>5. MapInv' /\ Distinct(mv')
    BY <1>1, <2>1, <2>3, <2>4 DEF MapInv, MapTypeOK, KeysOnce, Distinct
  <2>6. {q[i][1] : i \in 1..mv.len} = DOMAIN F \cup {k}
    BY <1>2, <2>2, <2>4
  <2>7. \A i \in 1..mv.len : G[q[i][1]] = q[i][2]
    BY <1>1, <1>2, <2>2, <2>4 DEF Distinct
  <2>8. AsFunction(mv') = G
    <3>1. G = [x \in {mv'.pairs[i][1] : i \in 1..mv'.len} |-> G[x]]
      BY <2>1, <2>6
    <3>2. mv'.len \in Nat /\ \A i \in 1..mv'.len : G[mv'.pairs[i][1]] = mv'.pairs[i][2]
      BY <1>1, <2>1, <2>7
    <3> HIDE DEF G
    <3> QED BY <2>5, <3>1, <3>2, FunctionUnique
  <2>9. EmitKeys' = EmitKeys
    BY <2>1, <2>4 DEF EmitKeys
  <2> QED
    BY <1>3, <1>4, <2>1, <2>5, <2>8, <2>9 DEF MapAbs!MPut, F
<1>5. CASE ~(Scan(k) <= mv.len)
  <2> DEFINE q == Append(SubSeq(mv.pairs, 1, mv.len), <<k, v>>)
  <2>1. /\ mv' = [f \in {"len", "pairs", "out", "op"} |-> mv'[f]] /\ mv'.len = mv.len + 1 /\ mv'.pairs = q
        /\ mv'.op = <<"set", k, v>> /\ mv'.out = mv.out
    BY <1>5 DEF MapSet, MapInv, MapTypeOK
  <2>3. q \in Seq(Keys \X Vals) /\ Len(q) = mv.len + 1 /\ q[mv.len + 1] = <<k, v>>
        /\ \A i \in 1..mv.len : q[i] = mv.pairs[i]
    BY <1>1
  <2> HIDE DEF q
  <2>4. k \notin DOMAIN F
    BY <1>3, <1>5
  <2>n. \A i \in 1..mv.len : mv.pairs[i][1] # k
    BY <1>2, <2>4
  <2>i. \A i \in 1..(mv.len + 1) : i \in 1..mv.len \/ i = mv.len + 1
    BY <1>1
  <2>o. \A i \in 1..(mv.len + 1) : /\ q[i][1] = IF i = mv.len + 1 THEN k ELSE mv.pairs[i][1]
                                   /\ q[i][2] = IF i = mv.len + 1 THEN v ELSE mv.pairs[i][2]
    BY <2>3, <2>i
  <2>5. MapInv' /\ Distinct(mv')
    <3>1. \A i, j \in 1..(mv.len + 1) : q[i][1] = q[j][1] => i = j
      BY <1>1, <2>n, <2>i, <2>o DEF Distinct
    <3> QED BY <1>1, <2>1, <2>3, <3>1 DEF MapInv, MapTypeOK, KeysOnce, Distinct
  <2>6. {q[i][1] : i \in 1..(mv.len + 1)} = DOMAIN F \cup {k}
    <3>1. \A i \in 1..(mv.len + 1) : q[i][1] \in DOMAIN F \cup {k}
      BY <1>2, <2>i, <2>o
    <3>2. mv.len + 1 \in 1..(mv.len + 1) /\ \A i \in 1..mv.len : i \in 1..(mv.len + 1) /\ i # mv.len + 1
      BY <1>1
    <3>3. \A x \in DOMAIN F \cup {k} : \E i \in 1..(mv.len + 1) : q[i][1] = x
      BY <1>2, <2>o, <3>2
    <3> QED BY <3>1, <3>3
  <2>7. \A i \in 1..(mv.len + 1) : G[q[i][1]] = q[i][2]
    BY <1>2, <2>i, <2>n, <2>o
  <2>8. AsFunction(mv') = G
    <3>1. G = [x \in {mv'.pairs[i][1] : i \in 1..mv'.len} |-> G[x]]
      BY <2>1, <2>6
    <3>2. mv'.len \in Nat /\ \A i \in 1..mv'.len : G[mv'.pairs[i][1]] = mv'.pairs[i][2]
      <4>1. mv.len + 1 \in Nat
        BY <1>1
      <4> HIDE DEF G
      <4> QED BY <2>1, <2>7, <4>1
    <3> HIDE DEF G
    <3> QED BY <2>5, <3>1, <3>2, FunctionUnique
  <2>9. EmitKeys' = Append(EmitKeys, k)
    BY <1>1, <2>1, <2>3 DEF EmitKeys
  <2> QED
    BY <2>1, <2>4, <2>5, <2>8, <2>9 DEF MapAbs!MPut, F
<1> QED BY <1>4, <1>5

\* A removal takes out the pair with the key and keeps the order of the others.
LEMMA RemoveIsRemove ==
    ASSUME MapInv, NEW k \in Keys, EmitRemove(k)
    PROVE  MapInv' /\ MapAbs!MRemove(k)
<1> DEFINE F == AsFunction(mv)
           G == [x \in DOMAIN F \ {k} |-> F[x]]
<1>1. mv.len \in Nat /\ Distinct(mv) /\ mv.pairs \in Seq(Keys \X Vals) /\ mv.len <= Len(mv.pairs)
  BY DEF MapInv, MapTypeOK, KeysOnce, Distinct
<1>2. /\ DOMAIN F = {mv.pairs[i][1] : i \in 1..mv.len} /\ F = [x \in DOMAIN F |-> F[x]]
      /\ \A i \in 1..mv.len : F[mv.pairs[i][1]] = mv.pairs[i][2]
  BY <1>1, FunctionIs
<1>3. /\ Scan(k) \in 1..(mv.len + 1)
      /\ k \in DOMAIN F <=> Scan(k) <= mv.len
      /\ Scan(k) <= mv.len => mv.pairs[Scan(k)][1] = k
  BY LookupIs
<1> HIDE DEF F
<1>4. CASE Scan(k) > mv.len
  <2>1. /\ mv' = [f \in {"len", "pairs", "out", "op"} |-> mv'[f]] /\ mv'.len = mv.len /\ mv'.pairs = mv.pairs
        /\ mv'.op = <<"remove", k>> /\ mv'.out = mv.out
    BY <1>4 DEF EmitRemove, MapInv, MapTypeOK
  <2>2. MapInv' /\ AsFunction(mv') = F /\ EmitKeys' = EmitKeys
    BY <2>1, SameBlock DEF F
  <2>3. k \notin DOMAIN F
    BY <1>1, <1>3, <1>4
  <2>4. F = G
    BY <1>2, <2>3
  <2> QED
    BY <2>1, <2>2, <2>3, <2>4 DEF MapAbs!MRemove, MapAbs!Restrict, F
<1>5. CASE ~(Scan(k) > mv.len)
  <2> DEFINE s == Scan(k)
             q == [i \in 1..(mv.len - 1) |-> mv.pairs[KeepIndex(i, s)]]
  <2>1. /\ mv' = [f \in {"len", "pairs", "out", "op"} |-> mv'[f]] /\ mv'.len = mv.len - 1 /\ mv'.pairs = q
        /\ mv'.op = <<"remove", k>> /\ mv'.out = mv.out
    BY <1>5 DEF EmitRemove, ShrinkAndCopyBack, CopyToStack, MapInv, MapTypeOK
  <2>2. s \in 1..mv.len /\ mv.pairs[s][1] = k
    BY <1>1, <1>3, <1>5
  <2> HIDE DEF s
  <2>3. \A i \in 1..(mv.len - 1) : KeepIndex(i, s) \in 1..mv.len /\ KeepIndex(i, s) # s
                                   /\ KeepIndex(i, s) = IF i < s THEN i ELSE i + 1
    BY <1>1, <2>2 DEF KeepIndex
  <2>4. \A j \in 1..mv.len : j # s => \E i \in 1..(mv.len - 1) : KeepIndex(i, s) = j
    <3> SUFFICES ASSUME NEW j \in 1..mv.len, j # s
                 PROVE  \E i \in 1..(mv.len - 1) : KeepIndex(i, s) = j
      OBVIOUS
    <3>1. CASE j < s
      <4>1. j \in 1..(mv.len - 1) /\ KeepIndex(j, s) = j
        BY <1>1, <2>2, <2>3, <3>1
      <4> QED BY <4>1
    <3>2. CASE j > s
      <4>1. j - 1 \in 1..(mv.len - 1) /\ KeepIndex(j - 1, s) = j
        BY <1>1, <2>2, <2>3, <3>2
      <4> QED BY <4>1
    <3> QED BY <1>1, <2>2, <3>1, <3>2
  <2>5. \A i, j \in 1..(mv.len - 1) : KeepIndex(i, s) = KeepIndex(j, s) => i = j
    BY <1>1, <2>2 DEF KeepIndex
  <2>6. q \in Seq(Keys \X Vals) /\ Len(q) = mv.len - 1 /\ mv.len - 1 \in Nat
        /\ \A i \in 1..(mv.len - 1) : q[i] = mv.pairs[KeepIndex(i, s)]
    <3>1. mv.len - 1 \in Nat
      BY <1>1, <2>2
    <3>2. \A i \in 1..(mv.len - 1) : mv.pairs[KeepIndex(i, s)] \in Keys \X Vals
      BY <1>1, <2>3
    <3>3. q \in [1..(mv.len - 1) -> Keys \X Vals]
      BY <3>2
    <3> QED BY <3>1, <3>3
  <2> HIDE DEF q
  <2>7. MapInv' /\ Distinct(mv')
    BY <1>1, <2>1, <2>3, <2>5, <2>6 DEF MapInv, MapTypeOK, KeysOnce, Distinct
  <2>8. {q[i][1] : i \in 1..(mv.len - 1)} = DOMAIN F \ {k}
    <3>1. ASSUME NEW i \in 1..(mv.len - 1) PROVE q[i][1] \in DOMAIN F \ {k}
      BY <1>1, <1>2, <2>2, <2>3, <2>6 DEF Distinct
    <3>2. ASSUME NEW x \in DOMAIN F \ {k} PROVE \E i \in 1..(mv.len - 1) : q[i][1] = x
      <4>1. PICK j \in 1..mv.len : mv.pairs[j][1] = x
        BY <1>2
      <4>2. j # s
        BY <2>2, <4>1
      <4> QED BY <2>4, <2>6, <4>1, <4>2
    <3> QED BY <3>1, <3>2
  <2>9. \A i \in 1..(mv.len - 1) : G[q[i][1]] = q[i][2]
    <3> SUFFICES ASSUME NEW i \in 1..(mv.len - 1) PROVE G[q[i][1]] = q[i][2]
      OBVIOUS
    <3>1. q[i][1] \in DOMAIN F \ {k}
      BY <2>8
    <3> QED BY <1>2, <2>3, <2>6, <3>1
  <2>10. AsFunction(mv') = G
    <3>1. G = [x \in {mv'.pairs[i][1] : i \in 1..mv'.len} |-> G[x]]
      BY <2>1, <2>8
    <3>2. mv'.len \in Nat /\ \A i \in 1..mv'.len : G[mv'.pairs[i][1]] = mv'.pairs[i][2]
      BY <2>1, <2>6, <2>9
    <3> HIDE DEF G
    <3> QED BY <2>7, <3>1, <3>2, FunctionUnique
  <2>11. EmitKeys' = MapAbs!RemoveAt(EmitKeys, s)
    <3> DEFINE e == EmitKeys
               a == SubSeq(e, 1, s - 1)
               b == SubSeq(e, s + 1, Len(e))
               r == a \o b
    <3>1. e \in Seq(Keys) /\ Len(e) = mv.len /\ \A i \in 1..mv.len : e[i] = mv.pairs[i][1]
      BY SMTT(40), <1>1 DEF EmitKeys
    <3>2. EmitKeys' = [i \in 1..(mv.len - 1) |-> q[i][1]]
      BY <2>1 DEF EmitKeys
    <3> HIDE DEF e
    <3>a. a \in Seq(Keys) /\ Len(a) = s - 1 /\ \A i \in 1..(s - 1) : a[i] = e[i]
      BY <1>1, <2>2, <3>1
    <3>b. b \in Seq(Keys) /\ Len(b) = mv.len - s /\ \A i \in 1..(mv.len - s) : b[i] = e[s + i]
      BY <1>1, <2>2, <3>1
    <3> HIDE DEF a, b
    <3>3. r \in Seq(Keys) /\ Len(r) = mv.len - 1
      <4>1. r \in Seq(Keys) /\ Len(r) = Len(a) + Len(b)
        BY <3>a, <3>b
      <4> HIDE DEF r
      <4> QED BY <1>1, <2>2, <3>a, <3>b, <4>1
    <3>4. \A i \in 1..(mv.len - 1) : r[i] = IF i < s THEN e[i] ELSE e[i + 1]
      <4> SUFFICES ASSUME NEW i \in 1..(mv.len - 1) PROVE r[i] = IF i < s THEN e[i] ELSE e[i + 1]
        OBVIOUS
      <4>1. CASE i < s
        BY <1>1, <2>2, <3>a, <3>b, <4>1
      <4>2. CASE ~(i < s)
        <5>1. i - (s - 1) \in 1..(mv.len - s) /\ s + (i - (s - 1)) = i + 1
          BY <1>1, <2>2, <4>2
        <5>2. r[i] = b[i - (s - 1)]
          <6>1. i \in 1..(Len(a) + Len(b)) /\ ~(i <= Len(a)) /\ i - Len(a) = i - (s - 1)
            BY <1>1, <2>2, <3>a, <3>b, <4>2
          <6> QED BY <3>a, <3>b, <6>1
        <5> QED BY <3>b, <4>2, <5>1, <5>2
      <4> QED BY <4>1, <4>2
    <3> HIDE DEF r
    <3>5. \A i \in 1..(mv.len - 1) : r[i] = q[i][1]
      BY <1>1, <2>2, <2>3, <2>6, <3>1, <3>4
    <3>6. r = [i \in 1..(mv.len - 1) |-> r[i]]
      BY <3>3
    <3>7. EmitKeys' = r
      BY <3>2, <3>5, <3>6
    <3> QED BY <3>7 DEF MapAbs!RemoveAt, r, a, b, e
  <2>12. s \in DOMAIN EmitKeys /\ EmitKeys[s] = k /\ k \in DOMAIN F
    BY <1>1, <1>2, <2>2 DEF EmitKeys
  <2> QED
    BY <2>1, <2>7, <2>10, <2>11, <2>12 DEF MapAbs!MRemove, MapAbs!Restrict, F
<1> QED BY <1>4, <1>5

\* The map kept as a block of pairs implements a function with keys in insertion order,
\* for any keys and values (instructions/maps.rs, builtins/map.rs).
THEOREM MapRefines == MapMemorySpec => MapIsFunction
<1>1. MapInit => MapInv /\ MapAbs!MInit
  BY MapInitOK
<1>2. MapInv /\ [MapNext]_mv => MapInv' /\ [MapAbs!MNext]_(MapAbs!mvars)
  <2> SUFFICES ASSUME MapInv, [MapNext]_mv PROVE MapInv' /\ [MapAbs!MNext]_(MapAbs!mvars)
    OBVIOUS
  <2>1. ASSUME NEW k \in Keys, MapGet(k) \/ MapHas(k) PROVE MapInv' /\ MapAbs!MNext
    BY <2>1, ReadsAreReads DEF MapAbs!MNext
  <2>2. ASSUME NEW k \in Keys, EmitRemove(k) PROVE MapInv' /\ MapAbs!MNext
    BY <2>2, RemoveIsRemove DEF MapAbs!MNext
  <2>3. ASSUME NEW k \in Keys, NEW v \in Vals, MapSet(k, v) PROVE MapInv' /\ MapAbs!MNext
    BY <2>3, SetIsPut DEF MapAbs!MNext
  <2>4. CASE EmitList BY <2>4, ListIsList DEF MapAbs!MNext
  <2>5. CASE EmitMapClear BY <2>5, ClearIsClear DEF MapAbs!MNext
  <2>6. CASE UNCHANGED mv
    BY <2>6 DEF MapInv, MapTypeOK, KeysOnce, MapAbs!mvars, EmitKeys, AsFunction
  <2> QED BY <2>1, <2>2, <2>3, <2>4, <2>5, <2>6 DEF MapNext
<1> QED
  BY <1>1, <1>2, PTL DEF MapMemorySpec, MapIsFunction, MapAbs!MSpec

-----------------------------------------------------------------------------
\* Arrays.

\* A block: the header is in range and every slot holds a word.
ArrFields == {"len", "cap", "mem", "out", "st", "op"}
ArrOK(a) == /\ a = [f \in ArrFields |-> a[f]]
            /\ a.len \in Nat /\ a.cap \in Nat /\ a.len <= a.cap /\ a.len <= MaxLen /\ a.cap <= 2 * MaxLen
            /\ a.mem \in [0..(a.cap - 1) -> Int]
ArrInv == ArrOK(av)
\* The sequence in the block a.
Elems(a) == [k \in 1..a.len |-> a.mem[k - 1]]

\* The mapped sequence, before and after a step.
LEMMA ContentsIs ==
    ASSUME ArrOK(av)
    PROVE  /\ Contents = Elems(av) /\ Contents \in Seq(Int) /\ Len(Contents) = av.len
           /\ DOMAIN Contents = 1..av.len /\ \A k \in 1..av.len : Contents[k] = av.mem[k - 1]
<1>1. av.len \in Nat /\ \A k \in 1..av.len : k - 1 \in 0..(av.cap - 1)
  BY DEF ArrOK
<1>2. Contents = Elems(av)
  BY <1>1 DEF Contents, InBlock, Elems
<1>3. \A k \in 1..av.len : av.mem[k - 1] \in Int
  BY <1>1 DEF ArrOK
<1> QED BY <1>1, <1>2, <1>3 DEF Elems

\* The same after the step.
LEMMA ContentsNext ==
    ASSUME ArrOK(av')
    PROVE  Contents' = Elems(av')
  BY DEF Contents, InBlock, Elems, ArrOK

\* Lengths fit into 32 bits.
LEMMA FitsIs == \A n \in 0..MaxLen : Trunc32(n) = n
<1>1. \A n, m \in Nat : n < m => n % m = n
  OBVIOUS
<1> QED BY <1>1, ArraySizes DEF Trunc32

\* What a call does.
LEMMA DoesIs ==
    ASSUME NEW a, NEW o, a = [f \in ArrFields |-> a[f]], Does(o, a)
    PROVE  /\ av.st = "ok" /\ av' = [f \in ArrFields |-> av'[f]]
           /\ av'.len = a.len /\ av'.cap = a.cap /\ av'.mem = a.mem
           /\ av'.out = a.out /\ av'.st = a.st /\ av'.op = o
  BY DEF Does, Running, ArrFields

\* A call that only answers.
LEMMA Answers ==
    ASSUME ArrOK(av), NEW o, NEW r, NEW s, Does(o, [av EXCEPT !.out = r, !.st = s])
    PROVE  /\ av.st = "ok" /\ ArrOK(av') /\ Contents' = Contents
           /\ av'.out = r /\ av'.st = s /\ av'.op = o
<1> DEFINE a == [av EXCEPT !.out = r, !.st = s]
<1>1. /\ a = [f \in ArrFields |-> a[f]] /\ a.len = av.len /\ a.cap = av.cap /\ a.mem = av.mem
      /\ a.out = r /\ a.st = s
  BY DEF ArrOK, ArrFields
<1> HIDE DEF a
<1>2. /\ av.st = "ok" /\ av' = [f \in ArrFields |-> av'[f]]
      /\ av'.len = a.len /\ av'.cap = a.cap /\ av'.mem = a.mem
      /\ av'.out = a.out /\ av'.st = a.st /\ av'.op = o
  BY <1>1, DoesIs DEF a
<1>3. ArrOK(av')
  BY <1>1, <1>2 DEF ArrOK
<1>4. Elems(av') = Elems(av)
  BY <1>1, <1>2 DEF Elems
<1> QED BY <1>1, <1>2, <1>3, <1>4, ContentsIs, ContentsNext

\* A call that writes to the block m and to the length n.
LEMMA Writes ==
    ASSUME ArrOK(av), NEW o, NEW m \in [0..(av.cap - 1) -> Int], NEW n \in 0..av.len,
           Does(o, [av EXCEPT !.mem = m, !.len = n])
    PROVE  /\ av.st = "ok" /\ ArrOK(av') /\ Contents' = [k \in 1..n |-> m[k - 1]]
           /\ av'.out = av.out /\ av'.st = av.st /\ av'.op = o
<1> DEFINE a == [av EXCEPT !.mem = m, !.len = n]
<1>1. /\ a = [f \in ArrFields |-> a[f]] /\ a.len = n /\ a.cap = av.cap /\ a.mem = m
      /\ a.out = av.out /\ a.st = av.st
  BY DEF ArrOK, ArrFields
<1> HIDE DEF a
<1>2. /\ av.st = "ok" /\ av' = [f \in ArrFields |-> av'[f]]
      /\ av'.len = a.len /\ av'.cap = a.cap /\ av'.mem = a.mem
      /\ av'.out = a.out /\ av'.st = a.st /\ av'.op = o
  BY <1>1, DoesIs DEF a
<1>3. ArrOK(av')
  <2>1. n \in Nat /\ n <= av.cap /\ n <= MaxLen /\ av.cap \in Nat
    BY ArraySizes DEF ArrOK
  <2> QED BY <1>1, <1>2, <2>1 DEF ArrOK
<1>4. Elems(av') = [k \in 1..n |-> m[k - 1]]
  BY <1>1, <1>2 DEF Elems
<1> QED BY <1>1, <1>2, <1>3, <1>4, ContentsNext

\* Growing keeps the elements and makes room.
LEMMA GrownIs ==
    ASSUME ArrOK(av), NEW n \in av.len..MaxLen
    PROVE  LET r == ReallocArrayCapacity(n)
           IN  /\ ArrOK(r) /\ r.len = n /\ r.out = av.out /\ r.st = av.st
               /\ \A i \in 0..(av.len - 1) : r.mem[i] = av.mem[i]
<1> DEFINE r == ReallocArrayCapacity(n)
<1>1. CASE n > av.cap
  <2> DEFINE c == CalculateNewCapacity(av.cap, n)
             m == [i \in 0..(c - 1) |-> IF InBlock(i) THEN av.mem[i] ELSE Junk]
  <2>1. c \in Nat /\ c >= n /\ c >= av.cap /\ c <= 2 * MaxLen
    BY <1>1, ArraySizes DEF CalculateNewCapacity, ArrOK
  <2> HIDE DEF c
  <2>2. m \in [0..(c - 1) -> Int] /\ \A i \in 0..(av.len - 1) : m[i] = av.mem[i]
    <3>1. \A i \in 0..(av.cap - 1) : av.mem[i] \in Int
      BY DEF ArrOK
    <3>2. \A i \in 0..(av.len - 1) : i \in 0..(c - 1) /\ i \in 0..(av.cap - 1)
      BY <2>1 DEF ArrOK
    <3>3. Junk \in Int
      BY DEF Junk
    <3>4. \A i \in 0..(c - 1) : (IF InBlock(i) THEN av.mem[i] ELSE Junk) \in Int
      BY <3>1, <3>3 DEF InBlock
    <3> QED BY <3>2, <3>4 DEF InBlock
  <2>3. r = [av EXCEPT !.cap = c, !.len = n, !.mem = m]
    BY <1>1 DEF ReallocArrayCapacity, c
  <2> HIDE DEF m, r
  <2>4. /\ r = [f \in ArrFields |-> r[f]] /\ r.len = n /\ r.cap = c /\ r.mem = m
        /\ r.out = av.out /\ r.st = av.st
    BY <2>3 DEF ArrOK, ArrFields
  <2>5. n \in Nat /\ n <= MaxLen
    BY ArraySizes DEF ArrOK
  <2>6. ArrOK(r)
    BY <2>1, <2>2, <2>4, <2>5 DEF ArrOK
  <2> QED BY <2>2, <2>4, <2>6 DEF r
<1>2. CASE ~(n > av.cap)
  <2>1. r = [av EXCEPT !.len = n]
    BY <1>2 DEF ReallocArrayCapacity
  <2> HIDE DEF r
  <2>2. /\ r = [f \in ArrFields |-> r[f]] /\ r.len = n /\ r.cap = av.cap /\ r.mem = av.mem
        /\ r.out = av.out /\ r.st = av.st
    BY <2>1 DEF ArrOK, ArrFields
  <2>5. n \in Nat /\ n <= MaxLen /\ n <= av.cap /\ av.cap \in Nat
    BY <1>2, ArraySizes DEF ArrOK
  <2>6. ArrOK(r)
    BY <2>2, <2>5 DEF ArrOK
  <2> QED BY <2>2, <2>6 DEF r
<1> QED BY <1>1, <1>2

\* A push appends.
LEMMA PushIsPush ==
    ASSUME ArrOK(av), NEW v \in Values, ArrayPush(v)
    PROVE  ArrOK(av') /\ av.st = "ok" /\ Abs!APush(v)
<1> DEFINE n == av.len
           r == ReallocArrayCapacity(n + 1)
           m == [r.mem EXCEPT ![n] = v]
           s == [r EXCEPT !.mem = m]
<1>1. n \in Nat /\ n + 1 \in n..MaxLen /\ Trunc32(n + 1) = n + 1
  BY FitsIs, ArraySizes DEF ArrayPush, ArrOK
<1>2. /\ ArrOK(r) /\ r.len = n + 1 /\ r.out = av.out /\ r.st = av.st
      /\ \A i \in 0..(n - 1) : r.mem[i] = av.mem[i]
  BY <1>1, GrownIs
<1>3. Does(<<"push", v>>, Store(r, n, v))
  BY <1>1 DEF ArrayPush
<1> HIDE DEF r
<1>4. n \in 0..(r.cap - 1) /\ v \in Int
  BY <1>1, <1>2, ArraySizes DEF ArrOK
<1>5. Store(r, n, v) = s
  BY <1>2, <1>4 DEF Store, ArrOK
<1>6. m \in [0..(r.cap - 1) -> Int] /\ m[n] = v /\ \A i \in 0..(n - 1) : m[i] = av.mem[i]
  <2>1. r.mem \in [0..(r.cap - 1) -> Int]
    BY <1>2 DEF ArrOK
  <2>2. \A i \in 0..(n - 1) : i \in 0..(r.cap - 1) /\ i # n
    BY <1>1, <1>2, <1>4 DEF ArrOK
  <2> QED BY <1>2, <1>4, <2>1, <2>2
<1> HIDE DEF m
<1>7. /\ s = [f \in ArrFields |-> s[f]] /\ s.len = n + 1 /\ s.cap = r.cap /\ s.mem = m
      /\ s.out = av.out /\ s.st = av.st
  BY <1>2 DEF ArrOK, ArrFields
<1> HIDE DEF s
<1>8. /\ av.st = "ok" /\ av' = [f \in ArrFields |-> av'[f]]
      /\ av'.len = s.len /\ av'.cap = s.cap /\ av'.mem = s.mem
      /\ av'.out = s.out /\ av'.st = s.st /\ av'.op = <<"push", v>>
  BY <1>3, <1>5, <1>7, DoesIs
<1>9. ArrOK(av')
  BY <1>2, <1>6, <1>7, <1>8 DEF ArrOK
<1>10. Contents' = [k \in 1..(n + 1) |-> m[k - 1]]
  BY <1>7, <1>8, <1>9, ContentsNext DEF Elems
<1>11. /\ Contents \in Seq(Int) /\ Len(Contents) = n /\ \A k \in 1..n : Contents[k] = av.mem[k - 1]
  BY ContentsIs
<1>12. Contents' = Append(Contents, v)
  <2> DEFINE t == Append(Contents, v)
  <2>1. t = [k \in 1..(n + 1) |-> IF k = n + 1 THEN v ELSE Contents[k]]
    <3>1. t \in Seq(Int) /\ Len(t) = n + 1 /\ t[n + 1] = v /\ \A k \in 1..n : t[k] = Contents[k]
      BY <1>4, <1>11
    <3>3. \A k \in 1..(n + 1) : k = n + 1 \/ (k # n + 1 /\ k \in 1..n)
      BY <1>1
    <3> HIDE DEF t
    <3>2. t = [k \in 1..(n + 1) |-> t[k]]
      BY <3>1
    <3>4. \A k \in 1..(n + 1) : t[k] = IF k = n + 1 THEN v ELSE Contents[k]
      BY <3>1, <3>3
    <3> QED BY <3>2, <3>4
  <2>2. \A k \in 1..(n + 1) : m[k - 1] = IF k = n + 1 THEN v ELSE Contents[k]
    <3> SUFFICES ASSUME NEW k \in 1..(n + 1) PROVE m[k - 1] = IF k = n + 1 THEN v ELSE Contents[k]
      OBVIOUS
    <3>1. CASE k = n + 1 BY <1>1, <1>6, <3>1
    <3>2. CASE k # n + 1
      <4>1. k - 1 \in 0..(n - 1) /\ k \in 1..n
        BY <1>1, <3>2
      <4> QED BY <1>6, <1>11, <3>2, <4>1
    <3> QED BY <3>1, <3>2
  <2> QED BY <1>10, <2>1, <2>2
<1> QED
  BY <1>7, <1>8, <1>9, <1>12 DEF Abs!APush, Abs!Becomes

\* Extending by itself doubles the sequence.
LEMMA ExtendIsExtend ==
    ASSUME ArrOK(av), ArrayExtend
    PROVE  ArrOK(av') /\ av.st = "ok" /\ Abs!AExtend
<1> DEFINE n == av.len
           r == ReallocArrayCapacity(2 * n)
           m == [i \in DOMAIN r.mem |-> IF i \in n..(2 * n - 1) THEN av.mem[i - n] ELSE r.mem[i]]
           s == [r EXCEPT !.mem = m]
<1>1. n \in Nat /\ 2 * n \in n..MaxLen /\ Trunc32(2 * n) = 2 * n
  BY FitsIs, ArraySizes DEF ArrayExtend, ArrOK
<1>2. /\ ArrOK(r) /\ r.len = 2 * n /\ r.out = av.out /\ r.st = av.st
      /\ \A i \in 0..(n - 1) : r.mem[i] = av.mem[i]
  BY <1>1, GrownIs
<1>3. Does(<<"extend">>, s)
  BY <1>1 DEF ArrayExtend
<1> HIDE DEF r
<1>6. /\ m \in [0..(r.cap - 1) -> Int]
      /\ \A i \in 0..(2 * n - 1) : m[i] = IF i < n THEN av.mem[i] ELSE av.mem[i - n]
  <2>1. r.mem \in [0..(r.cap - 1) -> Int] /\ DOMAIN r.mem = 0..(r.cap - 1) /\ r.cap \in Nat /\ 2 * n <= r.cap
    BY <1>2 DEF ArrOK
  <2>2. \A i \in n..(2 * n - 1) : av.mem[i - n] \in Int
    <3> SUFFICES ASSUME NEW i \in n..(2 * n - 1) PROVE av.mem[i - n] \in Int
      OBVIOUS
    <3>1. i - n \in 0..(av.cap - 1)
      BY SMTT(40), <1>1 DEF ArrOK
    <3> QED BY <3>1 DEF ArrOK
  <2>3. m \in [0..(r.cap - 1) -> Int]
    BY <2>1, <2>2
  <2>4. \A i \in 0..(2 * n - 1) : /\ i \in 0..(r.cap - 1)
                                  /\ i < n => i \in 0..(n - 1) /\ i \notin n..(2 * n - 1)
                                  /\ ~(i < n) => i \in n..(2 * n - 1)
    BY <1>1, <2>1
  <2>5. \A i \in 0..(2 * n - 1) : m[i] = IF i < n THEN av.mem[i] ELSE av.mem[i - n]
    BY <1>2, <2>1, <2>4
  <2> QED BY <2>3, <2>5
<1> HIDE DEF m
<1>7. /\ s = [f \in ArrFields |-> s[f]] /\ s.len = 2 * n /\ s.cap = r.cap /\ s.mem = m
      /\ s.out = av.out /\ s.st = av.st
  BY <1>2 DEF ArrOK, ArrFields
<1> HIDE DEF s
<1>8. /\ av.st = "ok" /\ av' = [f \in ArrFields |-> av'[f]]
      /\ av'.len = s.len /\ av'.cap = s.cap /\ av'.mem = s.mem
      /\ av'.out = s.out /\ av'.st = s.st /\ av'.op = <<"extend">>
  BY <1>3, <1>7, DoesIs
<1>9. ArrOK(av')
  BY <1>2, <1>6, <1>7, <1>8 DEF ArrOK
<1>10. Contents' = [k \in 1..(2 * n) |-> m[k - 1]]
  BY <1>7, <1>8, <1>9, ContentsNext DEF Elems
<1>11. /\ Contents \in Seq(Int) /\ Len(Contents) = n /\ \A k \in 1..n : Contents[k] = av.mem[k - 1]
  BY ContentsIs
<1>12. Contents' = Contents \o Contents
  <2> DEFINE t == Contents \o Contents
  <2>0. \A u \in Seq(Int) : u \o u \in Seq(Int) /\ Len(u \o u) = Len(u) + Len(u)
    OBVIOUS
  <2>1. t \in Seq(Int) /\ Len(t) = 2 * n
    <3>1. t \in Seq(Int) /\ Len(t) = Len(Contents) + Len(Contents)
      BY <1>11, <2>0
    <3> HIDE DEF t
    <3> QED BY <1>1, <1>11, <3>1
  <2>2. \A k \in 1..(2 * n) : t[k] = m[k - 1]
    <3> SUFFICES ASSUME NEW k \in 1..(2 * n) PROVE t[k] = m[k - 1]
      OBVIOUS
    <3>0. k - 1 \in 0..(2 * n - 1)
      BY <1>1
    <3>1. CASE k <= n
      <4>1. k \in 1..n /\ k - 1 < n
        BY <1>1, <3>1
      <4>2. t[k] = Contents[k]
        BY <1>11, <4>1
      <4> QED BY <1>6, <1>11, <3>0, <4>1, <4>2
    <3>2. CASE ~(k <= n)
      <4>1. k - n \in 1..n /\ ~(k - 1 < n) /\ (k - n) - 1 = (k - 1) - n
        BY <1>1, <3>2
      <4>2. t[k] = Contents[k - n]
        BY <1>11, <3>2
      <4> QED BY <1>6, <1>11, <3>0, <4>1, <4>2
    <3> QED BY <3>1, <3>2
  <2> HIDE DEF t
  <2>3. t = [k \in 1..(2 * n) |-> t[k]]
    BY <2>1
  <2>4. Contents' = t
    BY <1>10, <2>2, <2>3
  <2> QED BY <2>4 DEF t
<1> QED
  BY <1>7, <1>8, <1>9, <1>12 DEF Abs!AExtend, Abs!Becomes

\* A block is changed by writing its own values.
LEMMA SelfUpdate ==
    ASSUME ArrOK(av)
    PROVE  /\ \A r : [av EXCEPT !.out = r] = [av EXCEPT !.out = r, !.st = av.st]
           /\ \A s : [av EXCEPT !.st = s] = [av EXCEPT !.out = av.out, !.st = s]
           /\ \A m : [av EXCEPT !.mem = m] = [av EXCEPT !.mem = m, !.len = av.len]
           /\ \A n : [av EXCEPT !.len = n] = [av EXCEPT !.mem = av.mem, !.len = n]
  BY DEF ArrOK, ArrFields

\* Stopping the program leaves the sequence.
LEMMA StopIs ==
    ASSUME ArrOK(av), NEW o, NEW s, Does(o, [av EXCEPT !.st = s])
    PROVE  ArrOK(av') /\ av.st = "ok" /\ av'.op = o /\ Abs!Stop(s)
<1>1. Does(o, [av EXCEPT !.out = av.out, !.st = s])
  BY SelfUpdate
<1> DEFINE r == av.out
<1> HIDE DEF r
<1>2. Does(o, [av EXCEPT !.out = r, !.st = s])
  BY <1>1 DEF r
<1>3. /\ av.st = "ok" /\ ArrOK(av') /\ Contents' = Contents
      /\ av'.out = r /\ av'.st = s /\ av'.op = o
  BY <1>2, Answers
<1> QED BY <1>3 DEF Abs!Stop, r

\* A read returns.
LEMMA ReturnsIs ==
    ASSUME ArrOK(av), NEW o, NEW r, Does(o, [av EXCEPT !.out = r])
    PROVE  ArrOK(av') /\ av.st = "ok" /\ av'.op = o /\ Abs!Returns(r)
<1> DEFINE s == av.st
<1>1. Does(o, [av EXCEPT !.out = r, !.st = s])
  BY SelfUpdate
<1> HIDE DEF s
<1>3. /\ av.st = "ok" /\ ArrOK(av') /\ Contents' = Contents
      /\ av'.out = r /\ av'.st = s /\ av'.op = o
  BY <1>1, Answers
<1> QED BY <1>3 DEF Abs!Returns, s

\* A call that rewrites the elements makes the sequence the rewritten one.
LEMMA BecomesIs ==
    ASSUME ArrOK(av), NEW o, NEW m \in [0..(av.cap - 1) -> Int], NEW t,
           Does(o, [av EXCEPT !.mem = m]),
           t = [k \in 1..av.len |-> m[k - 1]]
    PROVE  ArrOK(av') /\ av.st = "ok" /\ av'.op = o /\ Abs!Becomes(t)
<1> DEFINE n == av.len
<1>1. Does(o, [av EXCEPT !.mem = m, !.len = n]) /\ n \in 0..av.len
  <2>1. n \in 0..av.len
    BY DEF ArrOK
  <2> QED BY SelfUpdate, <2>1
<1> HIDE DEF n
<1>3. /\ av.st = "ok" /\ ArrOK(av') /\ Contents' = [k \in 1..n |-> m[k - 1]]
      /\ av'.out = av.out /\ av'.st = av.st /\ av'.op = o
  BY <1>1, Writes
<1> QED BY <1>3 DEF Abs!Becomes, n

\* pop, first and last, and clear.
LEMMA EndsAreEnds ==
    ASSUME ArrOK(av), EmitPop \/ EmitFirstLast \/ EmitClear
    PROVE  ArrOK(av') /\ av.st = "ok" /\ (Abs!APop \/ Abs!AEnds \/ Abs!AClear)
<1> DEFINE n == av.len
<1>1. /\ Contents \in Seq(Int) /\ Len(Contents) = n /\ n \in Nat
      /\ \A k \in 1..n : Contents[k] = av.mem[k - 1]
  BY ContentsIs DEF ArrOK
<1>2. n = 0 <=> Contents = <<>>
  BY <1>1
<1>3. CASE n = 0 /\ (EmitPop \/ EmitFirstLast)
  <2>1. CASE EmitPop
    <3>1. Does(<<"pop">>, [av EXCEPT !.st = "pop"])
      BY <1>3, <2>1 DEF EmitPop, Undefined
    <3>2. ArrOK(av') /\ av.st = "ok" /\ av'.op = <<"pop">> /\ Abs!Stop("pop")
      BY <3>1, StopIs
    <3> QED BY <1>2, <1>3, <3>2 DEF Abs!APop
  <2>2. CASE EmitFirstLast
    <3>1. Does(<<"ends">>, [av EXCEPT !.st = "ends"])
      BY <1>3, <2>2 DEF EmitFirstLast, Undefined
    <3>2. ArrOK(av') /\ av.st = "ok" /\ av'.op = <<"ends">> /\ Abs!Stop("ends")
      BY <3>1, StopIs
    <3> QED BY <1>2, <1>3, <3>2 DEF Abs!AEnds
  <2> QED BY <1>3, <2>1, <2>2
<1>4. CASE n # 0 /\ EmitPop
  <2> DEFINE r == <<av.mem[n - 1]>>
             a == [av EXCEPT !.out = r, !.len = n - 1]
  <2>1. n - 1 \in 0..MaxLen /\ n - 1 \in Nat
    BY <1>1, <1>4, ArraySizes DEF ArrOK
  <2>2. Does(<<"pop">>, a)
    BY <1>4, <2>1, FitsIs DEF EmitPop
  <2>3. r = <<Contents[n]>>
    BY <1>1, <1>4
  <2> HIDE DEF r
  <2>4. /\ a = [f \in ArrFields |-> a[f]] /\ a.len = n - 1 /\ a.cap = av.cap /\ a.mem = av.mem
        /\ a.out = r /\ a.st = av.st
    BY DEF ArrOK, ArrFields
  <2> HIDE DEF a
  <2>5. /\ av.st = "ok" /\ av' = [f \in ArrFields |-> av'[f]]
        /\ av'.len = a.len /\ av'.cap = a.cap /\ av'.mem = a.mem
        /\ av'.out = a.out /\ av'.st = a.st /\ av'.op = <<"pop">>
    BY <2>2, <2>4, DoesIs
  <2>6. ArrOK(av')
    <3>1. n - 1 <= av.cap /\ n - 1 <= MaxLen
      BY <1>1, ArraySizes DEF ArrOK
    <3> QED BY <2>1, <2>4, <2>5, <3>1 DEF ArrOK
  <2>7. Contents' = [k \in 1..(n - 1) |-> av.mem[k - 1]]
    BY <2>4, <2>5, <2>6, ContentsNext DEF Elems
  <2>8. Contents' = SubSeq(Contents, 1, n - 1)
    <3> DEFINE t == SubSeq(Contents, 1, n - 1)
    <3>1. t \in Seq(Int) /\ Len(t) = n - 1 /\ \A k \in 1..(n - 1) : t[k] = Contents[k]
      BY <1>1, <2>1
    <3> HIDE DEF t
    <3>2. t = [k \in 1..(n - 1) |-> t[k]]
      BY <3>1
    <3>3. \A k \in 1..(n - 1) : k \in 1..n
      BY <1>1
    <3>4. \A k \in 1..(n - 1) : t[k] = av.mem[k - 1]
      BY <1>1, <3>1, <3>3
    <3>5. Contents' = t
      BY <2>7, <3>2, <3>4
    <3> QED BY <3>5 DEF t
  <2> QED
    BY <1>1, <1>2, <1>4, <2>3, <2>4, <2>5, <2>6, <2>8 DEF Abs!APop, Abs!Front, Abs!Last
<1>5. CASE n # 0 /\ EmitFirstLast
  <2> DEFINE r == <<av.mem[0], av.mem[n - 1]>>
  <2>1. Does(<<"ends">>, [av EXCEPT !.out = r])
    BY <1>5 DEF EmitFirstLast
  <2>2. r = <<Contents[1], Contents[n]>>
    <3>1. 1 \in 1..n /\ n \in 1..n
      BY <1>1, <1>5
    <3>2. Contents[1] = av.mem[1 - 1] /\ Contents[n] = av.mem[n - 1]
      BY <1>1, <3>1
    <3> QED BY <3>2
  <2> HIDE DEF r
  <2>3. ArrOK(av') /\ av.st = "ok" /\ av'.op = <<"ends">> /\ Abs!Returns(r)
    BY <2>1, ReturnsIs
  <2>4. r = <<Head(Contents), Abs!Last(Contents)>>
    BY <1>1, <1>2, <1>5, <2>2 DEF Abs!Last
  <2> QED BY <1>2, <1>5, <2>3, <2>4 DEF Abs!AEnds
<1>6. CASE EmitClear
  <2>1. Does(<<"clear">>, [av EXCEPT !.mem = av.mem, !.len = 0])
    BY <1>6, SelfUpdate DEF EmitClear
  <2> DEFINE m == av.mem
  <2>2. m \in [0..(av.cap - 1) -> Int] /\ 0 \in 0..av.len
    <3>1. av.len \in Nat
      BY DEF ArrOK
    <3>2. m \in [0..(av.cap - 1) -> Int]
      BY DEF ArrOK
    <3> QED BY <3>1, <3>2
  <2> HIDE DEF m
  <2>3. /\ av.st = "ok" /\ ArrOK(av') /\ Contents' = [k \in 1..0 |-> m[k - 1]]
        /\ av'.out = av.out /\ av'.st = av.st /\ av'.op = <<"clear">>
    BY <2>1, <2>2, Writes DEF m
  <2>4. Contents' = <<>>
    BY <2>3
  <2> QED BY <2>3, <2>4 DEF Abs!AClear, Abs!Becomes
<1> QED BY <1>3, <1>4, <1>5, <1>6

\* An index is checked by its low 32 bits.
LEMMA CheckIs ==
    ASSUME ArrOK(av), NEW i \in -1..TwoTo32
    PROVE  /\ i \in 0..(av.len - 1) => BoundsCheck(i) /\ InBlock(i)
           /\ i \notin 0..(av.len - 1) =>
                 IF i < TwoTo32 THEN ~BoundsCheck(i) ELSE ~InBlock(i)
<1>1. av.len \in 0..MaxLen /\ av.len \in Nat /\ Trunc32(av.len) = av.len /\ av.cap \in Nat
  BY FitsIs, ArraySizes DEF ArrOK
<1>2. \A x \in Nat : \A m \in Nat \ {0} : x < m => x % m = x
  OBVIOUS
<1>3. \A m \in Nat \ {0} : (-1) % m = m - 1
  OBVIOUS
<1>4. CASE i \in 0..(TwoTo32 - 1)
  <2>1. i % TwoTo32 = i
    BY <1>2, <1>4, ArraySizes
  <2>2. BoundsCheck(i) <=> i < av.len
    BY <1>1, <2>1 DEF BoundsCheck, Trunc32
  <2>3. i \in 0..(av.len - 1) => InBlock(i)
    BY <1>1 DEF InBlock, ArrOK
  <2> QED BY <1>1, <1>4, <2>2, <2>3, ArraySizes
<1>5. CASE i = -1
  <2>1. i % TwoTo32 = TwoTo32 - 1
    BY <1>3, <1>5, ArraySizes
  <2>2. BoundsCheck(i) <=> TwoTo32 - 1 < av.len
    BY <1>1, <2>1 DEF BoundsCheck, Trunc32
  <2>3. ~BoundsCheck(i)
    BY <1>1, <2>2, ArraySizes
  <2> QED BY <1>1, <1>5, <2>3, ArraySizes
<1>6. CASE i = TwoTo32
  BY <1>1, <1>6, ArraySizes DEF InBlock, ArrOK
<1> QED BY <1>4, <1>5, <1>6, ArraySizes

\* Reading and writing an element.
LEMMA AccessIs ==
    ASSUME ArrOK(av), NEW i \in -1..TwoTo32, NEW o, NEW a, Does(o, Access(i, a))
    PROVE  /\ i \in 0..(av.len - 1) => Does(o, a)
           /\ i \notin 0..(av.len - 1) => ArrOK(av') /\ av.st = "ok" /\ av'.op = o /\ Abs!Outside(i)
<1>1. CASE i \in 0..(av.len - 1)
  BY <1>1, CheckIs DEF Access
<1>2. CASE i \notin 0..(av.len - 1)
  <2>1. \/ Access(i, a) = [av EXCEPT !.st = "aborted"]
        \/ ~(i < TwoTo32) /\ Access(i, a) = [av EXCEPT !.st = "wide"]
    BY <1>2, CheckIs DEF Access, Undefined
  <2>2. CASE Access(i, a) = [av EXCEPT !.st = "aborted"]
    <3>1. ArrOK(av') /\ av.st = "ok" /\ av'.op = o /\ Abs!Stop("aborted")
      BY <2>2, StopIs
    <3> QED BY <1>2, <3>1 DEF Abs!Outside
  <2>3. CASE ~(i < TwoTo32) /\ Access(i, a) = [av EXCEPT !.st = "wide"]
    <3>1. ArrOK(av') /\ av.st = "ok" /\ av'.op = o /\ Abs!Stop("wide")
      BY <2>3, StopIs
    <3> QED BY <1>2, <2>3, <3>1 DEF Abs!Outside
  <2> QED BY <2>1, <2>2, <2>3
<1> QED BY <1>1, <1>2

\* get and set.
LEMMA GetSetIs ==
    ASSUME ArrOK(av), NEW i \in -1..TwoTo32
    PROVE  /\ ArrayGet(i) => ArrOK(av') /\ av.st = "ok" /\ Abs!AGet(i)
           /\ \A v \in Values : ArraySet(i, v) => ArrOK(av') /\ av.st = "ok" /\ Abs!ASet(i, v)
<1> DEFINE n == av.len
<1>0. /\ Contents \in Seq(Int) /\ Len(Contents) = n /\ n \in Nat /\ DOMAIN Contents = 1..n
      /\ \A k \in 1..n : Contents[k] = av.mem[k - 1]
  BY ContentsIs DEF ArrOK
<1>i. i \in Int
  BY ArraySizes
<1>1. ASSUME ArrayGet(i) PROVE ArrOK(av') /\ av.st = "ok" /\ Abs!AGet(i)
  <2> DEFINE r == <<av.mem[i]>>
             a == [av EXCEPT !.out = r]
  <2>1. Does(<<"get", i>>, Access(i, a))
    BY <1>1 DEF ArrayGet
  <2>2. CASE i \in 0..(n - 1)
    <3>1. Does(<<"get", i>>, a)
      BY <2>1, <2>2, AccessIs
    <3>2. i + 1 \in 1..n /\ (i + 1) - 1 = i
      BY <1>0, <2>2
    <3>3. r = <<Contents[i + 1]>>
      BY <1>0, <3>2
    <3> HIDE DEF r
    <3>4. ArrOK(av') /\ av.st = "ok" /\ av'.op = <<"get", i>> /\ Abs!Returns(r)
      BY <3>1, ReturnsIs
    <3> QED BY <1>0, <2>2, <3>3, <3>4 DEF Abs!AGet
  <2>3. CASE i \notin 0..(n - 1)
    <3> HIDE DEF a
    <3>1. ArrOK(av') /\ av.st = "ok" /\ av'.op = <<"get", i>> /\ Abs!Outside(i)
      BY <2>1, <2>3, AccessIs
    <3> QED BY <1>0, <2>3, <3>1 DEF Abs!AGet
  <2> QED BY <2>2, <2>3
<1>2. ASSUME NEW v \in Values, ArraySet(i, v) PROVE ArrOK(av') /\ av.st = "ok" /\ Abs!ASet(i, v)
  <2> DEFINE m == [av.mem EXCEPT ![i] = v]
             a == [av EXCEPT !.mem = m]
  <2>1. Does(<<"set", i, v>>, Access(i, a))
    BY <1>2 DEF ArraySet
  <2>2. CASE i \in 0..(n - 1)
    <3> DEFINE t == [Contents EXCEPT ![i + 1] = v]
    <3>1. Does(<<"set", i, v>>, a)
      BY <2>1, <2>2, AccessIs
    <3>2. m \in [0..(av.cap - 1) -> Int] /\ \A k \in 0..(n - 1) : m[k] = IF k = i THEN v ELSE av.mem[k]
      <4>1. av.mem \in [0..(av.cap - 1) -> Int] /\ v \in Int /\ \A k \in 0..(n - 1) : k \in 0..(av.cap - 1)
        <5>1. av.mem \in [0..(av.cap - 1) -> Int] /\ n \in Nat /\ av.cap \in Nat /\ n <= av.cap
          BY DEF ArrOK
        <5>2. v \in Int
          BY ArraySizes
        <5> QED BY <5>1, <5>2
      <4> QED BY <4>1
    <3> HIDE DEF m
    <3>3. t = [k \in 1..n |-> IF k = i + 1 THEN v ELSE Contents[k]]
      BY <1>0
    <3>4. \A k \in 1..n : k - 1 \in 0..(n - 1) /\ (k - 1 = i <=> k = i + 1)
      BY <1>0, <1>i
    <3>5. t = [k \in 1..n |-> m[k - 1]]
      BY <1>0, <3>2, <3>3, <3>4
    <3> HIDE DEF t
    <3>6. ArrOK(av') /\ av.st = "ok" /\ av'.op = <<"set", i, v>> /\ Abs!Becomes(t)
      BY <3>1, <3>2, <3>5, BecomesIs
    <3> QED BY <1>0, <2>2, <3>6 DEF Abs!ASet, t
  <2>3. CASE i \notin 0..(n - 1)
    <3> HIDE DEF a
    <3>1. ArrOK(av') /\ av.st = "ok" /\ av'.op = <<"set", i, v>> /\ Abs!Outside(i)
      BY <2>1, <2>3, AccessIs
    <3> QED BY <1>0, <2>3, <3>1 DEF Abs!ASet
  <2> QED BY <2>2, <2>3
<1> QED BY <1>1, <1>2

\* slice.
LEMMA SliceIsSlice ==
    ASSUME ArrOK(av), NEW a \in -1..MaxLen, NEW b \in -1..MaxLen, EmitSlice(a, b)
    PROVE  ArrOK(av') /\ av.st = "ok" /\ Abs!ASlice(a, b)
<1> DEFINE n == av.len
<1>0. /\ Contents \in Seq(Int) /\ Len(Contents) = n /\ n \in Nat /\ DOMAIN Contents = 1..n
      /\ \A k \in 1..n : Contents[k] = av.mem[k - 1]
  BY ContentsIs DEF ArrOK
<1>i. a \in Int /\ b \in Int /\ n <= MaxLen
  BY ArraySizes DEF ArrOK
<1> DEFINE Good == a = b \/ (0 <= a /\ a < b /\ b <= n)
<1>1. Good <=> ~(b < a \/ ~(\A i \in a..(b - 1) : i \in 0..(n - 1)))
  <2>1. ASSUME a < b, \A i \in a..(b - 1) : i \in 0..(n - 1) PROVE 0 <= a /\ b <= n
    <3>1. a \in a..(b - 1) /\ b - 1 \in a..(b - 1)
      BY <1>i, <2>1
    <3>2. a \in 0..(n - 1) /\ b - 1 \in 0..(n - 1)
      BY <2>1, <3>1
    <3> QED BY <1>0, <1>i, <3>2
  <2>2. ASSUME 0 <= a, b <= n PROVE \A i \in a..(b - 1) : i \in 0..(n - 1)
    BY <1>0, <1>i, <2>2
  <2>3. a = b => \A i \in a..(b - 1) : i \in 0..(n - 1)
    BY <1>i
  <2> QED BY <1>i, <2>1, <2>2, <2>3
<1>2. CASE ~Good
  <2>1. Does(<<"slice", a, b>>, [av EXCEPT !.st = "slice"])
    BY <1>1, <1>2 DEF EmitSlice, Undefined
  <2>2. ArrOK(av') /\ av.st = "ok" /\ av'.op = <<"slice", a, b>> /\ Abs!Stop("slice")
    BY <2>1, StopIs
  <2> QED BY <1>0, <1>2, <2>2 DEF Abs!ASlice
<1>3. CASE Good
  <2> DEFINE r == [k \in 1..(b - a) |-> av.mem[a + k - 1]]
             t == SubSeq(Contents, a + 1, b)
  <2>1. b - a \in 0..MaxLen
    BY <1>i, <1>0, <1>3, ArraySizes
  <2>2. Trunc32(b - a) = b - a
    BY <2>1, FitsIs
  <2>3. Does(<<"slice", a, b>>, [av EXCEPT !.out = r])
    BY <1>1, <1>3, <2>2 DEF EmitSlice
  <2>4. r = t
    <3>1. CASE a = b
      <4>1. r = <<>>
        BY <1>i, <3>1
      <4>2. t = <<>>
        BY <1>0, <1>i, <3>1
      <4> QED BY <4>1, <4>2
    <3>2. CASE 0 <= a /\ a < b /\ b <= n
      <4>1. t \in Seq(Int) /\ Len(t) = b - a /\ \A k \in 1..(b - a) : t[k] = Contents[a + k]
        BY <1>0, <1>i, <3>2
      <4> HIDE DEF t
      <4>2. t = [k \in 1..(b - a) |-> t[k]]
        BY <4>1
      <4>3. \A k \in 1..(b - a) : a + k \in 1..n /\ (a + k) - 1 = a + k - 1
        BY <1>0, <1>i, <3>2
      <4>4. \A k \in 1..(b - a) : t[k] = av.mem[a + k - 1]
        BY <1>0, <4>1, <4>3
      <4> QED BY <4>2, <4>4
    <3> QED BY <1>3, <3>1, <3>2
  <2> HIDE DEF r, t
  <2>5. ArrOK(av') /\ av.st = "ok" /\ av'.op = <<"slice", a, b>> /\ Abs!Returns(r)
    BY <2>3, ReturnsIs
  <2> QED BY <1>0, <1>3, <2>4, <2>5 DEF Abs!ASlice, t
<1> QED BY <1>2, <1>3

\* The scan from i over n elements stops at m.
StopsAt(mem, n, v, i, m) ==
    /\ m \in i..n /\ (m = n \/ mem[m] = v)
    /\ \A j \in i..(m - 1) : mem[j] # v

\* contains and indexOf find the first element that is equal.
LEMMA FindIsFind ==
    ASSUME ArrOK(av), NEW v \in Values, EmitIndexOf(v)
    PROVE  ArrOK(av') /\ av.st = "ok" /\ Abs!AFind(v)
<1> DEFINE n == av.len
           mem == av.mem
           First(i) == CHOOSE m : StopsAt(mem, n, v, i, m)
           Body(g) == [i \in 0..n |-> IF i = n THEN -1 ELSE IF mem[i] = v THEN i ELSE g[i + 1]]
           G == [i \in 0..n |-> IF First(i) = n THEN -1 ELSE First(i)]
           L == CHOOSE g : g = Body(g)
<1>0. /\ Contents \in Seq(Int) /\ Len(Contents) = n /\ n \in Nat /\ DOMAIN Contents = 1..n
      /\ \A k \in 1..n : Contents[k] = mem[k - 1]
  BY ContentsIs DEF ArrOK
<1>1. Does(<<"find", v>>, [av EXCEPT !.out = <<L[0]>>])
  BY DEF EmitIndexOf
<1> HIDE DEF mem, n
<1>2. \A i \in 0..n : StopsAt(mem, n, v, i, First(i))
  <2> SUFFICES ASSUME NEW i \in 0..n PROVE \E m : StopsAt(mem, n, v, i, m)
    OBVIOUS
  <2> DEFINE T == {m \in i..n : m = n \/ mem[m] = v}
  <2>1. T \in SUBSET Nat /\ n \in T
    BY <1>0
  <2>2. PICK m \in T : \A j \in T : m <= j
    BY <2>1, Least
  <2>3. \A j \in i..(m - 1) : mem[j] # v
    BY <1>0, <2>2
  <2> QED BY <2>2, <2>3 DEF StopsAt
<1>3. \A i \in 0..n : \A m1, m2 : StopsAt(mem, n, v, i, m1) /\ StopsAt(mem, n, v, i, m2) => m1 = m2
  <2> SUFFICES ASSUME NEW i \in 0..n, NEW m1, NEW m2,
                      StopsAt(mem, n, v, i, m1), StopsAt(mem, n, v, i, m2)
               PROVE  m1 = m2
    OBVIOUS
  <2>1. m1 \in Int /\ m2 \in Int /\ ~(m1 < m2) /\ ~(m2 < m1)
    BY <1>0 DEF StopsAt
  <2> QED BY <2>1
<1> HIDE DEF First
<1>4. \A i \in 0..n : First(i) = IF i = n \/ mem[i] = v THEN i ELSE First(i + 1)
  <2> SUFFICES ASSUME NEW i \in 0..n
               PROVE  First(i) = IF i = n \/ mem[i] = v THEN i ELSE First(i + 1)
    OBVIOUS
  <2>1. CASE i = n \/ mem[i] = v
    <3>1. StopsAt(mem, n, v, i, i)
      BY <1>0, <2>1 DEF StopsAt
    <3> QED BY <1>2, <1>3, <2>1, <3>1
  <2>2. CASE ~(i = n \/ mem[i] = v)
    <3>1. i + 1 \in 0..n
      BY <1>0, <2>2
    <3>2. StopsAt(mem, n, v, i + 1, First(i + 1))
      BY <1>2, <3>1
    <3>3. StopsAt(mem, n, v, i, First(i + 1))
      BY <1>0, <2>2, <3>2 DEF StopsAt
    <3> QED BY <1>2, <1>3, <2>2, <3>3
  <2> QED BY <2>1, <2>2
<1>5. G = Body(G)
  <2> SUFFICES ASSUME NEW i \in 0..n PROVE G[i] = Body(G)[i]
    OBVIOUS
  <2>1. i # n => i + 1 \in 0..n
    BY <1>0
  <2> QED BY <1>0, <1>4, <2>1
<1>6. L = Body(L)
  BY <1>5
<1> HIDE DEF L
<1>7. L[0] = G[0]
  <2> DEFINE S == {i \in 0..n : L[i] = G[i]}
  <2>g. \A i \in 0..n : G[i] = IF i = n THEN -1 ELSE IF mem[i] = v THEN i ELSE G[i + 1]
    BY <1>5
  <2>l. \A i \in 0..n : L[i] = IF i = n THEN -1 ELSE IF mem[i] = v THEN i ELSE L[i + 1]
    BY <1>6
  <2> HIDE DEF G
  <2>1. n \in S
    <3>1. n \in 0..n
      BY <1>0
    <3>2. G[n] = -1 /\ L[n] = -1
      BY <3>1, <2>g, <2>l
    <3> QED BY <3>1, <3>2
  <2>2. ASSUME NEW i \in 1..n, i \in S PROVE i - 1 \in S
    <3>1. i - 1 \in 0..n /\ (i - 1) + 1 = i /\ i - 1 # n
      BY <1>0
    <3>2. L[i] = G[i]
      BY <2>2
    <3> QED BY <2>g, <2>l, <3>1, <3>2
  <2>3. 0 \in S
    <3> HIDE DEF S
    <3> QED BY <1>0, <2>1, <2>2, DownTo
  <2> QED BY <2>3
<1> DEFINE f == First(0)
           R == IF Abs!Contains(Contents, v)
                  THEN (CHOOSE k \in DOMAIN Contents : Contents[k] = v /\ \A j \in 1..(k - 1) : Contents[j] # v) - 1
                  ELSE -1
<1>8. f \in 0..n /\ StopsAt(mem, n, v, 0, f) /\ L[0] = IF f = n THEN -1 ELSE f
  BY <1>0, <1>2, <1>7 DEF StopsAt
<1> HIDE DEF f
<1>9. L[0] = R
  <2>1. CASE f = n
    <3>1. \A k \in 1..n : Contents[k] # v
      <4> SUFFICES ASSUME NEW k \in 1..n PROVE Contents[k] # v
        OBVIOUS
      <4>1. k - 1 \in 0..(f - 1)
        BY <1>0, <2>1
      <4> QED BY <1>0, <1>8, <4>1 DEF StopsAt
    <3> QED BY <1>0, <1>8, <2>1, <3>1 DEF Abs!Contains
  <2>2. CASE f # n
    <3> DEFINE Q(k) == Contents[k] = v /\ \A j \in 1..(k - 1) : Contents[j] # v
               c == CHOOSE k \in DOMAIN Contents : Q(k)
    <3>1. f + 1 \in 1..n /\ (f + 1) - 1 = f /\ mem[f] = v
      BY <1>0, <1>8, <2>2 DEF StopsAt
    <3>2. \A j \in 1..f : j \in 1..n /\ j - 1 \in 0..(f - 1)
      BY <1>0, <1>8
    <3>3. Q(f + 1)
      BY <1>0, <1>8, <3>1, <3>2 DEF StopsAt
    <3>4. c \in 1..n /\ Q(c)
      BY <1>0, <3>1, <3>3
    <3> HIDE DEF c
    <3>5. ~(c < f + 1) /\ ~(f + 1 < c)
      BY <1>0, <1>8, <3>1, <3>3, <3>4
    <3>6. c = f + 1
      BY <1>0, <1>8, <3>4, <3>5
    <3>7. Abs!Contains(Contents, v)
      BY <1>0, <3>1, <3>3 DEF Abs!Contains
    <3>8. R = c - 1
      BY <3>7 DEF c
    <3> HIDE DEF R
    <3> QED BY <1>0, <1>8, <2>2, <3>6, <3>8
  <2> QED BY <2>1, <2>2
<1> DEFINE r == <<L[0]>>
<1>10. r = <<R>>
  BY <1>9
<1> HIDE DEF r, R
<1>11. ArrOK(av') /\ av.st = "ok" /\ av'.op = <<"find", v>> /\ Abs!Returns(r)
  BY <1>1, ReturnsIs DEF r
<1> QED BY <1>10, <1>11 DEF Abs!AFind, R

\* The sequence t lists the elements below v among the first i, in their order: h says where.
Picks(mem, v, i, t, m, h) ==
    /\ m \in 0..i /\ h \in [1..m -> 1..i] /\ \A x, y \in 1..m : x < y => h[x] < h[y]
    /\ {h[x] : x \in 1..m} = {x \in 1..i : mem[x - 1] < v}
    /\ t = [x \in 1..m |-> mem[h[x] - 1]]

\* One more element.
LEMMA PicksStep ==
    ASSUME NEW n \in Nat, NEW mem \in [0..(n - 1) -> Int], NEW v \in Int, NEW i \in 1..n, NEW t, NEW m, NEW h,
           Picks(mem, v, i - 1, t, m, h)
    PROVE  \E m2, h2 : Picks(mem, v, i, IF mem[i - 1] < v THEN Append(t, mem[i - 1]) ELSE t, m2, h2)
<1>0. m \in Nat /\ m <= i - 1 /\ h \in [1..m -> 1..(i - 1)] /\ i - 1 \in 0..(n - 1)
  BY DEF Picks
<1>1. CASE mem[i - 1] < v
  <2> DEFINE g == [x \in 1..(m + 1) |-> IF x = m + 1 THEN i ELSE h[x]]
             u == Append(t, mem[i - 1])
  <2>0. \A x \in 1..(m + 1) : x = m + 1 \/ (x # m + 1 /\ x \in 1..m)
    BY <1>0
  <2>a. /\ m + 1 \in 1..(m + 1) /\ g[m + 1] = i
        /\ \A x \in 1..m : x \in 1..(m + 1) /\ x # m + 1 /\ g[x] = h[x] /\ h[x] \in 1..(i - 1)
    BY <1>0
  <2>1. m + 1 \in 0..i /\ g \in [1..(m + 1) -> 1..i]
    BY <1>0
  <2> HIDE DEF g
  <2>2. \A x, y \in 1..(m + 1) : x < y => g[x] < g[y]
    <3> SUFFICES ASSUME NEW x \in 1..(m + 1), NEW y \in 1..(m + 1), x < y PROVE g[x] < g[y]
      OBVIOUS
    <3>1. x \in 1..m
      BY <1>0
    <3>2. CASE y = m + 1
      BY <2>a, <3>1, <3>2, SMTT(30)
    <3>3. CASE y # m + 1
      BY <2>0, <2>a, <3>1, <3>3 DEF Picks
    <3> QED BY <3>2, <3>3
  <2>3. {g[x] : x \in 1..(m + 1)} = {x \in 1..i : mem[x - 1] < v}
    <3>1. \A x \in 1..(m + 1) : g[x] \in 1..i /\ mem[g[x] - 1] < v
      <4>1. \A x \in 1..m : h[x] \in {y \in 1..(i - 1) : mem[y - 1] < v}
        BY DEF Picks
      <4>2. \A x \in 1..m : g[x] \in 1..i /\ mem[g[x] - 1] < v
        BY <2>a, <4>1
      <4>3. g[m + 1] \in 1..i /\ mem[g[m + 1] - 1] < v
        BY <1>1, <2>a
      <4> QED BY <2>0, <4>2, <4>3
    <3>2. ASSUME NEW y \in 1..i, mem[y - 1] < v PROVE \E x \in 1..(m + 1) : g[x] = y
      <4>1. CASE y = i
        BY <2>a, <4>1
      <4>2. CASE y # i
        <5>1. y \in {x \in 1..(i - 1) : mem[x - 1] < v}
          BY <3>2, <4>2
        <5>2. PICK x \in 1..m : h[x] = y
          BY <5>1 DEF Picks
        <5> QED BY <2>a, <5>2
      <4> QED BY <4>1, <4>2
    <3> QED BY <3>1, <3>2
  <2>4. u = [x \in 1..(m + 1) |-> mem[g[x] - 1]]
    <3>1. \A x \in 1..m : h[x] - 1 \in 0..(n - 1)
      BY <1>0, <2>a
    <3>2. \A x \in 1..m : mem[h[x] - 1] \in Int
      BY <3>1
    <3>3. t \in Seq(Int) /\ Len(t) = m /\ \A x \in 1..m : t[x] = mem[h[x] - 1]
      BY <1>0, <3>2 DEF Picks
    <3>4. mem[i - 1] \in Int
      BY <1>0
    <3>5. u \in Seq(Int) /\ Len(u) = m + 1 /\ u[m + 1] = mem[i - 1] /\ \A x \in 1..m : u[x] = t[x]
      BY <3>3, <3>4
    <3> HIDE DEF u
    <3>6. u = [x \in 1..(m + 1) |-> u[x]]
      BY <3>5
    <3>7. \A x \in 1..(m + 1) : u[x] = mem[g[x] - 1]
      BY <2>0, <2>a, <3>3, <3>5
    <3> QED BY <3>6, <3>7
  <2> HIDE DEF u
  <2>5. Picks(mem, v, i, u, m + 1, g)
    BY <2>1, <2>2, <2>3, <2>4 DEF Picks
  <2> QED BY <1>1, <2>5 DEF u
<1>2. CASE ~(mem[i - 1] < v)
  <2>1. {x \in 1..i : mem[x - 1] < v} = {x \in 1..(i - 1) : mem[x - 1] < v}
    <3>1. \A x \in 1..i : x = i \/ x \in 1..(i - 1)
      OBVIOUS
    <3>2. \A x \in 1..(i - 1) : x \in 1..i
      OBVIOUS
    <3> QED BY <1>2, <3>1, <3>2
  <2>2. m \in 0..i /\ h \in [1..m -> 1..i]
    BY <1>0
  <2>3. Picks(mem, v, i, t, m, h)
    BY <2>1, <2>2 DEF Picks
  <2> QED BY <1>2, <2>3
<1> QED BY <1>1, <1>2

\* filter.
LEMMA FilterIsFilter ==
    ASSUME ArrOK(av), NEW v \in Values, EmitFilter(v)
    PROVE  ArrOK(av') /\ av.st = "ok" /\ Abs!AFilter(v)
<1> DEFINE n == av.len
           mem == [i \in 0..(n - 1) |-> av.mem[i]]
           Next1(i, t) == IF av.mem[i - 1] < v THEN Append(t, av.mem[i - 1]) ELSE t
           Body(g) == [i \in 0..n |-> IF i = 0 THEN <<>> ELSE Next1(i, g[i - 1])]
           L == CHOOSE g : g = Body(g)
<1>0. /\ Contents \in Seq(Int) /\ Len(Contents) = n /\ n \in Nat /\ DOMAIN Contents = 1..n
      /\ \A k \in 1..n : Contents[k] = av.mem[k - 1]
  BY ContentsIs DEF ArrOK
<1>v. v \in Int
  BY ArraySizes
<1>m. \A i \in 1..n : av.mem[i - 1] \in Int
  <2>1. \A i \in 1..n : i - 1 \in 0..(av.cap - 1)
    BY DEF ArrOK
  <2> QED BY <2>1 DEF ArrOK
<1>1. Does(<<"filter", v>>, [av EXCEPT !.out = L[n]])
  BY DEF EmitFilter
<1>2. \E g : g = Body(g)
  <2> DEFINE step == [x \in (1..n) \X Seq(Int) |-> Next1(x[1], x[2])]
  <2>1. LoopBody(n, Seq(Int), step) /\ <<>> \in Seq(Int)
    BY <1>m DEF LoopBody
  <2>2. \A i \in 1..n : \A t \in Seq(Int) : step[<<i, t>>] = Next1(i, t)
    OBVIOUS
  <2> HIDE DEF step
  <2>b. PICK g : LoopStates(n, Seq(Int), <<>>, step, g)
    BY <1>0, <2>1, LoopRuns
  <2>3. g \in [0..n -> Seq(Int)] /\ g[0] = <<>> /\ \A i \in 1..n : g[i] = step[<<i, g[i - 1]>>]
    BY <2>b DEF LoopStates
  <2> HIDE DEF Next1
  <2>4. \A i \in 0..n : i = 0 \/ (i # 0 /\ i \in 1..n /\ i - 1 \in 0..n)
    BY <1>0
  <2>5. \A i \in 0..n : g[i] = IF i = 0 THEN <<>> ELSE Next1(i, g[i - 1])
    BY ZenonT(60), <2>2, <2>3, <2>4
  <2>6. g = Body(g)
    BY <2>3, <2>5
  <2> HIDE DEF Body
  <2> QED BY <2>6
<1>3. L = Body(L)
  BY <1>2
<1> HIDE DEF L
<1> DEFINE S == {i \in 0..n : \E m, h : Picks(mem, v, i, L[i], m, h)}
<1>4. mem \in [0..(n - 1) -> Int] /\ \A i \in 1..n : mem[i - 1] = av.mem[i - 1] /\ i - 1 \in 0..(n - 1)
  <2>1. \A i \in 0..(n - 1) : i + 1 \in 1..n /\ (i + 1) - 1 = i
    BY <1>0
  <2>2. \A i \in 0..(n - 1) : av.mem[i] \in Int
    BY <1>m, <2>1
  <2>3. \A i \in 1..n : i - 1 \in 0..(n - 1)
    BY <1>0
  <2> QED BY <2>2, <2>3
<1>5. 0 \in S
  <2>1. L[0] = <<>>
    BY <1>0, <1>3
  <2> DEFINE h == [x \in 1..0 |-> 1]
  <2>2. {h[x] : x \in 1..0} = {} /\ {x \in 1..0 : mem[x - 1] < v} = {}
    OBVIOUS
  <2>3. h \in [1..0 -> 1..0] /\ 0 \in 0..0 /\ <<>> = [x \in 1..0 |-> mem[h[x] - 1]]
    OBVIOUS
  <2>4. \A x, y \in 1..0 : x < y => h[x] < h[y]
    OBVIOUS
  <2> HIDE DEF h, mem
  <2>5. Picks(mem, v, 0, <<>>, 0, h)
    BY <2>2, <2>3, <2>4 DEF Picks
  <2> QED BY <1>0, <2>1, <2>5
<1>6. ASSUME NEW i \in 1..n, i - 1 \in S PROVE i \in S
  <2>1. PICK m, h : Picks(mem, v, i - 1, L[i - 1], m, h)
    BY <1>6
  <2>2. L[i] = Next1(i, L[i - 1])
    <3> HIDE DEF Next1
    <3>1. i \in 0..n /\ i # 0
      BY <1>0
    <3> QED BY <1>3, <3>1
  <2>3. L[i] = IF mem[i - 1] < v THEN Append(L[i - 1], mem[i - 1]) ELSE L[i - 1]
    BY <1>4, <2>2
  <2> HIDE DEF mem
  <2>4. \E m2, h2 : Picks(mem, v, i, L[i], m2, h2)
    <3> DEFINE t == L[i - 1]
    <3>1. Picks(mem, v, i - 1, t, m, h) /\ mem \in [0..(n - 1) -> Int] /\ n \in Nat
      BY <1>0, <1>4, <2>1
    <3> HIDE DEF t, n
    <3>2. \E m2, h2 : Picks(mem, v, i, IF mem[i - 1] < v THEN Append(t, mem[i - 1]) ELSE t, m2, h2)
      BY <1>v, <3>1, PicksStep
    <3> QED BY <2>3, <3>2 DEF t
  <2> QED BY <1>0, <2>4
<1>7. n \in S
  <2> HIDE DEF S, n
  <2>1. \A i \in 1..n : i - 1 \in S => i \in S
    BY <1>6
  <2>2. \A i \in 0..n : i \in S
    BY <1>0, <1>5, <2>1, UpTo
  <2> QED BY <1>0, <2>2
<1>8. PICK m, h : Picks(mem, v, n, L[n], m, h)
  BY <1>7
<1> DEFINE r == L[n]
<1>9. /\ m \in 0..n /\ h \in [1..m -> 1..n] /\ \A x, y \in 1..m : x < y => h[x] < h[y]
      /\ {h[x] : x \in 1..m} = {x \in 1..n : Contents[x] < v}
      /\ r = [x \in 1..m |-> Contents[h[x]]]
  <2>1. \A x \in 1..n : Contents[x] = mem[x - 1]
    BY <1>0, <1>4
  <2> HIDE DEF mem
  <2>2. m \in 0..n /\ h \in [1..m -> 1..n] /\ \A x, y \in 1..m : x < y => h[x] < h[y]
    BY ZenonT(60), <1>8 DEF Picks
  <2>3. {h[x] : x \in 1..m} = {x \in 1..n : mem[x - 1] < v}
    BY ZenonT(60), <1>8 DEF Picks
  <2>4. r = [x \in 1..m |-> mem[h[x] - 1]]
    BY ZenonT(60), <1>8 DEF Picks
  <2>5. {x \in 1..n : mem[x - 1] < v} = {x \in 1..n : Contents[x] < v}
    BY <2>1
  <2>6. \A x \in 1..m : mem[h[x] - 1] = Contents[h[x]]
    <3>1. \A x \in 1..m : h[x] \in 1..n
      BY ZenonT(60), <2>2
    <3> QED BY ZenonT(60), <2>1, <3>1
  <2>7. r = [x \in 1..m |-> Contents[h[x]]]
    BY <2>4, <2>6
  <2>8. {h[x] : x \in 1..m} = {x \in 1..n : Contents[x] < v}
    BY ZenonT(60), <2>3, <2>5
  <2> QED BY ZenonT(60), <2>2, <2>7, <2>8
<1> HIDE DEF r
<1>10. ArrOK(av') /\ av.st = "ok" /\ av'.op = <<"filter", v>> /\ Abs!Returns(r)
  BY <1>1, ReturnsIs DEF r
<1> QED BY <1>0, <1>9, <1>10 DEF Abs!AFilter, Abs!Range

\* reverse: i swaps from both ends.
LEMMA ReverseIsReverse ==
    ASSUME ArrOK(av), EmitReverse
    PROVE  ArrOK(av') /\ av.st = "ok" /\ Abs!AReverse
<1> DEFINE n == av.len
           w == n \div 2
           c == av.cap
           mem == av.mem
           Done(i) == [x \in 0..(c - 1) |-> IF x < i \/ (n - i <= x /\ x < n) THEN mem[n - 1 - x] ELSE mem[x]]
           Body(g) == [i \in 0..w |-> IF i = 0 THEN mem ELSE Swap(g[i - 1], i - 1, n - i)]
           G == [i \in 0..w |-> Done(i)]
           L == CHOOSE g : g = Body(g)
<1>0. /\ Contents \in Seq(Int) /\ Len(Contents) = n /\ n \in Nat /\ DOMAIN Contents = 1..n
      /\ \A k \in 1..n : Contents[k] = mem[k - 1]
  BY ContentsIs DEF ArrOK
<1>1. Does(<<"reverse">>, [av EXCEPT !.mem = L[w]])
  BY DEF EmitReverse
<1>c. c \in Nat /\ n <= c /\ mem \in [0..(c - 1) -> Int]
  BY DEF ArrOK
<1>w. w \in Nat /\ 2 * w <= n /\ n <= 2 * w + 1
  <2>1. \A x \in Nat : x \div 2 \in Nat /\ 2 * (x \div 2) <= x /\ x <= 2 * (x \div 2) + 1
    OBVIOUS
  <2> QED BY <1>0, <2>1
<1> DEFINE t == [k \in 1..n |-> Done(w)[k - 1]]
<1> HIDE DEF w, n, c, mem
<1>2. Done(0) = mem
  <2>1. \A x \in 0..(c - 1) : ~(x < 0 \/ (n - 0 <= x /\ x < n))
    BY <1>0, <1>c
  <2> QED BY <1>c, <2>1
<1>3. ASSUME NEW i \in 1..w PROVE Done(i) = Swap(Done(i - 1), i - 1, n - i)
  <2> DEFINE d == Done(i - 1)
             e == [d EXCEPT ![i - 1] = d[n - i], ![n - i] = d[i - 1]]
  <2>1. /\ i - 1 \in 0..(c - 1) /\ n - i \in 0..(c - 1) /\ i - 1 < n - i
        /\ n - 1 - (i - 1) = n - i /\ n - 1 - (n - i) = i - 1
    BY <1>0, <1>c, <1>w
  <2>2. d[n - i] = mem[n - i] /\ d[i - 1] = mem[i - 1]
    BY <1>0, <1>c, <1>w, <2>1
  <2>3. ASSUME NEW x \in 0..(c - 1) PROVE Done(i)[x] = e[x]
    <3>1. CASE x = i - 1
      BY <1>0, <1>c, <1>w, <2>1, <2>2, <3>1
    <3>2. CASE x = n - i
      BY <1>0, <1>c, <1>w, <2>1, <2>2, <3>2
    <3>3. CASE x # i - 1 /\ x # n - i
      <4>1. (x < i \/ (n - i <= x /\ x < n)) <=> (x < i - 1 \/ (n - (i - 1) <= x /\ x < n))
        BY <1>0, <1>c, <1>w, <3>3
      <4>2. e[x] = d[x]
        BY <2>1, <3>3
      <4> QED BY <4>1, <4>2
    <3> QED BY <3>1, <3>2, <3>3
  <2>4. Done(i) = e
    BY <2>3
  <2> QED BY <2>4 DEF Swap
<1> HIDE DEF Done
<1>4. \A i \in 0..w : i = 0 \/ (i # 0 /\ i \in 1..w /\ i - 1 \in 0..w)
  BY <1>w
<1>5. G = Body(G)
  BY <1>2, <1>3, <1>4
<1>6. L = Body(L)
  BY <1>5
<1> HIDE DEF L
<1>7. L[w] = Done(w)
  <2>0. 0 \in 0..w /\ w \in 0..w
    BY <1>w
  <2>1. L[0] = mem /\ G[0] = mem
    BY <1>2, <1>6, <2>0
  <2>2. \A i \in 1..w : i # 0 /\ i \in 0..w /\ i - 1 \in 0..w
    BY <1>w
  <2>3. \A i \in 1..w : L[i] = Swap(L[i - 1], i - 1, n - i) /\ G[i] = Swap(G[i - 1], i - 1, n - i)
    BY <1>3, <1>6, <2>2
  <2>5. G[w] = Done(w)
    BY <2>0
  <2> HIDE DEF G
  <2>4. \A i \in 0..w : L[i] = G[i]
    BY <1>w, <2>1, <2>3, Together
  <2> QED BY <2>0, <2>4, <2>5
<1>8. Done(w) \in [0..(c - 1) -> Int]
  <2>1. \A x \in 0..(c - 1) : x < w \/ (n - w <= x /\ x < n) => n - 1 - x \in 0..(c - 1)
    BY <1>0, <1>c, <1>w
  <2> QED BY <1>c, <2>1 DEF Done
<1>9. t = Abs!Reverse(Contents)
  <2>1. ASSUME NEW k \in 1..n PROVE t[k] = Contents[(n - k) + 1]
    <3>1. k - 1 \in 0..(c - 1) /\ (n - k) + 1 \in 1..n /\ ((n - k) + 1) - 1 = n - 1 - (k - 1)
      BY <1>0, <1>c
    <3>2. Contents[(n - k) + 1] = mem[n - 1 - (k - 1)]
      BY <1>0, <3>1
    <3>3. k - 1 < w \/ (n - w <= k - 1 /\ k - 1 < n) \/ n - 1 - (k - 1) = k - 1
      BY <1>0, <1>w
    <3>4. Done(w)[k - 1] = mem[n - 1 - (k - 1)]
      BY <3>1, <3>3 DEF Done
    <3> QED BY <3>2, <3>4
  <2> QED BY <1>0, <2>1 DEF Abs!Reverse
<1> DEFINE m == Done(w)
<1>10. m \in [0..(av.cap - 1) -> Int] /\ Does(<<"reverse">>, [av EXCEPT !.mem = m]) /\ t = [k \in 1..av.len |-> m[k - 1]]
  BY <1>1, <1>7, <1>8 DEF n, c
<1> HIDE DEF m, t
<1>11. ArrOK(av') /\ av.st = "ok" /\ av'.op = <<"reverse">> /\ Abs!Becomes(t)
  BY <1>10, BecomesIs
<1> QED BY <1>9, <1>11 DEF Abs!AReverse

-----------------------------------------------------------------------------
(* The bubble sort.                                                        *)

Words(c) == [0..(c - 1) -> Int]
\* One comparison of a pass: the pair that ends at j.
Bubble(a, j) == IF a[j - 2] > a[j - 1] THEN Swap(a, j - 2, j - 1) ELSE a
\* The first n words of b are those of a in another order.
ShuffleBy(a, b, n, p) ==
    /\ p \in [1..n -> 1..n] /\ \A i, j \in 1..n : p[i] = p[j] => i = j
    /\ \A k \in 1..n : \E i \in 1..n : p[i] = k
    /\ \A i \in 1..n : b[i - 1] = a[p[i] - 1]
Shuffled(a, b, n) == \E p : ShuffleBy(a, b, n, p)
\* The last k of n words are in their place.
Top(a, n, k) == \A x, y \in 0..(n - 1) : y >= n - k /\ x <= y => a[x] <= a[y]
\* The last of the first e words is the greatest of them.
Leads(a, e) == \A x \in 0..(e - 1) : a[x] <= a[e - 1]
Least2(j, e) == IF j < e THEN j ELSE e

\* What is swapped in a pass.
LEMMA SwapIs ==
    ASSUME NEW c \in Nat, NEW a \in Words(c), NEW i \in 0..(c - 1), NEW j \in 0..(c - 1), i # j
    PROVE  /\ Swap(a, i, j) \in Words(c) /\ Swap(a, i, j)[i] = a[j] /\ Swap(a, i, j)[j] = a[i]
           /\ \A x \in 0..(c - 1) : x # i /\ x # j => Swap(a, i, j)[x] = a[x]
  BY DEF Swap, Words

\* Nothing moved.
LEMMA ShuffleNone ==
    ASSUME NEW n \in Nat, NEW a
    PROVE  Shuffled(a, a, n)
<1> DEFINE p == [i \in 1..n |-> i]
<1>1. ShuffleBy(a, a, n, p)
  BY DEF ShuffleBy
<1> QED BY <1>1 DEF Shuffled

\* Two words are swapped.
LEMMA ShuffleSwap ==
    ASSUME NEW c \in Nat, NEW n \in 0..c, NEW a \in Words(c), NEW i \in 0..(n - 1), NEW j \in 0..(n - 1), i # j
    PROVE  Shuffled(a, Swap(a, i, j), n)
<1> DEFINE p == [k \in 1..n |-> IF k = i + 1 THEN j + 1 ELSE IF k = j + 1 THEN i + 1 ELSE k]
           b == Swap(a, i, j)
<1>1. /\ i \in 0..(c - 1) /\ j \in 0..(c - 1) /\ i + 1 \in 1..n /\ j + 1 \in 1..n
      /\ i + 1 - 1 = i /\ j + 1 - 1 = j /\ i + 1 # j + 1
  OBVIOUS
<1>2. /\ b[i] = a[j] /\ b[j] = a[i] /\ \A x \in 0..(c - 1) : x # i /\ x # j => b[x] = a[x]
  BY <1>1, SwapIs
<1> HIDE DEF b
<1>3. p \in [1..n -> 1..n] /\ \A x, y \in 1..n : p[x] = p[y] => x = y
  BY <1>1
<1>4. \A k \in 1..n : p[p[k]] = k /\ p[k] \in 1..n
  BY <1>1
<1>5. ASSUME NEW k \in 1..n PROVE b[k - 1] = a[p[k] - 1]
  <2>1. CASE k = i + 1 BY <1>1, <1>2, <2>1
  <2>2. CASE k = j + 1 BY <1>1, <1>2, <2>2
  <2>3. CASE k # i + 1 /\ k # j + 1
    <3>1. k - 1 \in 0..(c - 1) /\ k - 1 # i /\ k - 1 # j
      BY <2>3
    <3> QED BY <1>2, <2>3, <3>1
  <2> QED BY <2>1, <2>2, <2>3
<1> HIDE DEF p
<1>6. ShuffleBy(a, b, n, p)
  BY <1>3, <1>4, <1>5 DEF ShuffleBy
<1> QED BY <1>6 DEF Shuffled, b

\* One order after another.
LEMMA ShuffleTwice ==
    ASSUME NEW n \in Nat, NEW a, NEW b, NEW d, Shuffled(a, b, n), Shuffled(b, d, n)
    PROVE  Shuffled(a, d, n)
<1>1. PICK p : ShuffleBy(a, b, n, p)
  BY DEF Shuffled
<1>2. PICK q : ShuffleBy(b, d, n, q)
  BY DEF Shuffled
<1> DEFINE r == [i \in 1..n |-> p[q[i]]]
<1>3. p \in [1..n -> 1..n] /\ q \in [1..n -> 1..n]
  BY <1>1, <1>2 DEF ShuffleBy
<1>4. r \in [1..n -> 1..n] /\ \A i, j \in 1..n : r[i] = r[j] => i = j
  BY ZenonT(60), <1>1, <1>2, <1>3 DEF ShuffleBy
<1>5. \A i \in 1..n : d[i - 1] = a[r[i] - 1]
  BY <1>1, <1>2, <1>3 DEF ShuffleBy
<1>6. ASSUME NEW k \in 1..n PROVE \E i \in 1..n : r[i] = k
  <2>1. PICK j \in 1..n : p[j] = k
    BY <1>1 DEF ShuffleBy
  <2>2. PICK i \in 1..n : q[i] = j
    BY <1>2 DEF ShuffleBy
  <2> QED BY <2>1, <2>2
<1> HIDE DEF r
<1>7. ShuffleBy(a, d, n, r)
  BY <1>4, <1>5, <1>6 DEF ShuffleBy
<1> QED BY <1>7 DEF Shuffled

\* A comparison keeps the words behind in place and carries the greatest one along.
LEMMA BubbleStep ==
    ASSUME NEW c \in Nat, NEW n \in 0..c, NEW a \in Words(c), NEW k \in 0..(n - 1), NEW j \in 2..n,
           Top(a, n, k), Leads(a, Least2(j - 1, n - k))
    PROVE  /\ Bubble(a, j) \in Words(c) /\ Shuffled(a, Bubble(a, j), n)
           /\ Top(Bubble(a, j), n, k) /\ Leads(Bubble(a, j), Least2(j, n - k))
<1>0. /\ j - 2 \in 0..(n - 1) /\ j - 1 \in 0..(n - 1) /\ j - 2 \in 0..(c - 1) /\ j - 1 \in 0..(c - 1)
      /\ j - 2 # j - 1 /\ n \in Nat /\ n <= c
  OBVIOUS
<1>a. \A x \in 0..(n - 1) : a[x] \in Int /\ x \in 0..(c - 1)
  BY DEF Words
<1>1. CASE ~(a[j - 2] > a[j - 1])
  <2>1. Bubble(a, j) = a
    BY <1>1 DEF Bubble
  <2>2. a[j - 2] <= a[j - 1]
    BY <1>0, <1>1, <1>a
  <2>3. CASE j < n - k
    <3>1. Least2(j - 1, n - k) = j - 1 /\ Least2(j, n - k) = j
      BY <2>3 DEF Least2
    <3>2. \A x \in 0..(j - 2) : a[x] <= a[j - 2] /\ a[x] \in Int
      BY <1>0, <1>a, <3>1 DEF Leads
    <3>3. ASSUME NEW x \in 0..(j - 1) PROVE a[x] <= a[j - 1]
      <4>1. CASE x = j - 1 BY <1>0, <1>a, <4>1
      <4>2. CASE x # j - 1
        <5>1. x \in 0..(j - 2) BY <4>2
        <5> QED BY <1>0, <1>a, <2>2, <3>2, <5>1
      <4> QED BY <4>1, <4>2
    <3> QED BY <1>0, <2>1, <3>1, <3>3, ShuffleNone DEF Leads
  <2>4. CASE ~(j < n - k)
    <3>1. Least2(j, n - k) = n - k
      BY <2>4 DEF Least2
    <3>2. CASE j - 1 < n - k
      <4>1. n - k = j /\ Least2(j - 1, n - k) = j - 1
        BY <2>4, <3>2 DEF Least2
      <4>2. \A x \in 0..(j - 2) : a[x] <= a[j - 2] /\ a[x] \in Int
        BY <1>0, <1>a, <4>1 DEF Leads
      <4>3. ASSUME NEW x \in 0..(j - 1) PROVE a[x] <= a[j - 1]
        <5>1. CASE x = j - 1 BY <1>0, <1>a, <5>1
        <5>2. CASE x # j - 1
          <6>1. x \in 0..(j - 2) BY <5>2
          <6> QED BY <1>0, <1>a, <2>2, <4>2, <6>1
        <5> QED BY <5>1, <5>2
      <4> QED BY <1>0, <2>1, <3>1, <4>1, <4>3, ShuffleNone DEF Leads
    <3>3. CASE ~(j - 1 < n - k)
      <4>1. Least2(j - 1, n - k) = n - k
        BY <3>3 DEF Least2
      <4> QED BY <1>0, <2>1, <3>1, <4>1, ShuffleNone
    <3> QED BY <3>2, <3>3
  <2> QED BY <2>3, <2>4
<1>2. CASE a[j - 2] > a[j - 1]
  <2> DEFINE b == Swap(a, j - 2, j - 1)
  <2>1. Bubble(a, j) = b
    BY <1>2 DEF Bubble
  <2>2. j - 1 < n - k
    <3> SUFFICES ASSUME ~(j - 1 < n - k) PROVE FALSE
      OBVIOUS
    <3>1. a[j - 2] <= a[j - 1]
      BY <1>0 DEF Top
    <3> QED BY <1>0, <1>2, <1>a, <3>1
  <2>3. Least2(j - 1, n - k) = j - 1 /\ Least2(j, n - k) = j
    BY <2>2 DEF Least2
  <2>4. /\ b \in Words(c) /\ b[j - 2] = a[j - 1] /\ b[j - 1] = a[j - 2]
        /\ \A x \in 0..(c - 1) : x # j - 2 /\ x # j - 1 => b[x] = a[x]
    BY <1>0, SwapIs
  <2>5. Shuffled(a, b, n)
    BY <1>0, ShuffleSwap
  <2> HIDE DEF b
  <2>6. \A x \in 0..(j - 2) : a[x] <= a[j - 2] /\ x \in 0..(n - 1)
    BY <1>0, <2>3 DEF Leads
  <2>7. ASSUME NEW x \in 0..(j - 1) PROVE b[x] <= b[j - 1]
    <3>1. CASE x = j - 1 BY <1>0, <1>a, <2>4, <3>1
    <3>2. CASE x = j - 2 BY <1>0, <1>2, <1>a, <2>4, <3>2
    <3>3. CASE x # j - 1 /\ x # j - 2
      <4>1. x \in 0..(j - 2) BY <3>3
      <4> QED BY <1>a, <2>4, <2>6, <3>3, <4>1
    <3> QED BY <3>1, <3>2, <3>3
  <2>8. ASSUME NEW x \in 0..(n - 1), NEW y \in 0..(n - 1), y >= n - k, x <= y PROVE b[x] <= b[y]
    <3>1. y # j - 1 /\ y # j - 2 /\ j - 1 <= y /\ j - 2 <= y /\ b[y] = a[y]
      BY <1>a, <2>2, <2>4, <2>8
    <3>2. CASE x = j - 1
      BY <1>0, <2>4, <2>8, <3>1, <3>2 DEF Top
    <3>3. CASE x = j - 2
      BY <1>0, <2>4, <2>8, <3>1, <3>3 DEF Top
    <3>4. CASE x # j - 1 /\ x # j - 2
      BY <1>a, <2>4, <2>8, <3>1, <3>4 DEF Top
    <3> QED BY <3>2, <3>3, <3>4
  <2> QED BY <2>1, <2>3, <2>4, <2>5, <2>7, <2>8 DEF Leads, Top
<1> QED BY <1>1, <1>2

\* The states a pass over the n words of a goes through.
PassStates(a, c, n, L) ==
    /\ L[0] = a /\ (n >= 1 => L[1] = a) /\ \A j \in 2..n : L[j] = Bubble(L[j - 1], j)
    /\ \A j \in 0..n : L[j] \in Words(c)

\* A pass runs.
LEMMA PassRuns ==
    ASSUME NEW c \in Nat, NEW n \in 0..c, NEW a \in Words(c)
    PROVE  \E L : InnerPass(a, n) = L[n] /\ PassStates(a, c, n, L)
<1> DEFINE Body(g) == [j \in 0..n |-> IF j <= 1 THEN a ELSE Bubble(g[j - 1], j)]
           L == CHOOSE g : g = Body(g)
           step == [x \in (1..n) \X Words(c) |-> IF x[1] <= 1 THEN a ELSE Bubble(x[2], x[1])]
<1>0. InnerPass(a, n) = L[n]
  BY DEF InnerPass, Bubble
<1>1. ASSUME NEW j \in 2..n, NEW b \in Words(c) PROVE Bubble(b, j) \in Words(c)
  <2>1. j - 2 \in 0..(c - 1) /\ j - 1 \in 0..(c - 1) /\ j - 2 # j - 1
    OBVIOUS
  <2> QED BY <2>1, SwapIs DEF Bubble
<1>2. LoopBody(n, Words(c), step)
  <2>1. \A j \in 1..n : ~(j <= 1) => j \in 2..n
    OBVIOUS
  <2> HIDE DEF Bubble
  <2>2. ASSUME NEW x \in (1..n) \X Words(c) PROVE (IF x[1] <= 1 THEN a ELSE Bubble(x[2], x[1])) \in Words(c)
    BY <1>1, <2>1
  <2> QED BY <2>2 DEF LoopBody
<1>3. \A j \in 1..n : \A b \in Words(c) : step[<<j, b>>] = IF j <= 1 THEN a ELSE Bubble(b, j)
  OBVIOUS
<1> HIDE DEF step
<1>4. PICK g : LoopStates(n, Words(c), a, step, g)
  BY <1>2, LoopRuns
<1>5. g \in [0..n -> Words(c)] /\ g[0] = a /\ \A j \in 1..n : g[j] = step[<<j, g[j - 1]>>]
  BY <1>4 DEF LoopStates
<1>6. \A j \in 0..n : j = 0 \/ (j \in 1..n /\ j - 1 \in 0..n)
  OBVIOUS
<1>7. \A j \in 0..n : g[j] = IF j <= 1 THEN a ELSE Bubble(g[j - 1], j)
  <2>1. g[0] = a /\ 0 <= 1
    BY <1>5
  <2>2. \A j \in 1..n : j - 1 \in 0..n
    OBVIOUS
  <2> HIDE DEF Bubble
  <2>3. \A j \in 1..n : g[j] = IF j <= 1 THEN a ELSE Bubble(g[j - 1], j)
    <3> SUFFICES ASSUME NEW j \in 1..n PROVE g[j] = IF j <= 1 THEN a ELSE Bubble(g[j - 1], j)
      OBVIOUS
    <3>1. g[j - 1] \in Words(c) /\ g[j] = step[<<j, g[j - 1]>>]
      BY <1>5, <2>2
    <3> QED BY <1>3, <3>1
  <2> QED BY <1>6, <2>1, <2>3
<1>8. g = Body(g)
  BY <1>5, <1>7
<1>9. L = Body(L)
  <2> HIDE DEF Body
  <2> QED BY <1>8
<1> HIDE DEF L
<1>10. \A j \in 0..n : L[j] = IF j <= 1 THEN a ELSE Bubble(L[j - 1], j)
  BY <1>9
<1>11. L[0] = a /\ (n >= 1 => L[1] = a) /\ \A j \in 2..n : L[j] = Bubble(L[j - 1], j)
  BY <1>10
<1> DEFINE S == {j \in 0..n : L[j] \in Words(c)}
<1>12. 0 \in S
  BY <1>11
<1>13. ASSUME NEW j \in 1..n, j - 1 \in S PROVE j \in S
  <2>1. CASE j = 1 BY <1>11, <2>1
  <2>2. CASE j # 1
    <3>1. j \in 2..n
      BY <2>2
    <3> QED BY <1>1, <1>11, <1>13, <3>1
  <2> QED BY <2>1, <2>2
<1>14. \A j \in 0..n : j \in S
  <2> HIDE DEF S
  <2> QED BY <1>12, <1>13, UpTo
<1> QED BY <1>0, <1>11, <1>14 DEF PassStates

\* After a pass one more word is in its place.
LEMMA PassIs ==
    ASSUME NEW c \in Nat, NEW n \in 0..c, NEW a \in Words(c), NEW k \in 0..(n - 1), Top(a, n, k)
    PROVE  LET b == InnerPass(a, n) IN b \in Words(c) /\ Shuffled(a, b, n) /\ Top(b, n, k + 1)
<1>1. PICK L : InnerPass(a, n) = L[n] /\ PassStates(a, c, n, L)
  BY PassRuns
<1> DEFINE Good(j) == L[j] \in Words(c) /\ Shuffled(a, L[j], n) /\ Top(L[j], n, k) /\ Leads(L[j], Least2(j, n - k))
           S == {j \in 0..n : Good(j)}
<1>n. n \in Nat /\ n >= 1
  OBVIOUS
<1>2. Good(0) /\ Good(1)
  <2>1. L[0] = a /\ L[1] = a
    BY <1>1, <1>n DEF PassStates
  <2>2. Least2(0, n - k) = 0 /\ Least2(1, n - k) = 1
    BY DEF Least2
  <2>3. Leads(a, 0)
    BY DEF Leads
  <2>4. Leads(a, 1)
    <3>1. a[0] \in Int
      BY DEF Words
    <3>2. \A x \in 0..(1 - 1) : x = 0
      OBVIOUS
    <3> QED BY <3>1, <3>2 DEF Leads
  <2> QED BY <1>n, <2>1, <2>2, <2>3, <2>4, ShuffleNone
<1>3. ASSUME NEW j \in 1..n, j - 1 \in S PROVE j \in S
  <2>1. CASE j = 1 BY <1>2, <2>1
  <2>2. CASE j # 1
    <3> DEFINE d == L[j - 1]
    <3>1. j \in 2..n
      BY <2>2
    <3>2. d \in Words(c) /\ Shuffled(a, d, n) /\ Top(d, n, k) /\ Leads(d, Least2(j - 1, n - k))
      BY <1>3
    <3>3. L[j] = Bubble(d, j)
      BY <1>1, <3>1 DEF PassStates
    <3> HIDE DEF d
    <3>4. /\ Bubble(d, j) \in Words(c) /\ Shuffled(d, Bubble(d, j), n)
          /\ Top(Bubble(d, j), n, k) /\ Leads(Bubble(d, j), Least2(j, n - k))
      BY <3>1, <3>2, BubbleStep
    <3>5. Shuffled(a, Bubble(d, j), n)
      BY <1>n, <3>2, <3>4, ShuffleTwice
    <3> QED BY <3>3, <3>4, <3>5
  <2> QED BY <2>1, <2>2
<1>4. 0 \in S
  BY <1>2
<1>5. n \in S
  <2> HIDE DEF S
  <2> QED BY <1>3, <1>4, <1>n, UpTo
<1> DEFINE b == L[n]
<1>6. b \in Words(c) /\ Shuffled(a, b, n) /\ Top(b, n, k) /\ Leads(b, n - k)
  <2>1. Least2(n, n - k) = n - k
    BY DEF Least2
  <2> QED BY <1>5, <2>1
<1> HIDE DEF b
<1>7. Top(b, n, k + 1)
  <2> SUFFICES ASSUME NEW x \in 0..(n - 1), NEW y \in 0..(n - 1), y >= n - (k + 1), x <= y PROVE b[x] <= b[y]
    BY DEF Top
  <2>1. CASE y >= n - k
    BY <1>6, <2>1 DEF Top
  <2>2. CASE ~(y >= n - k)
    <3>1. y = (n - k) - 1 /\ x \in 0..((n - k) - 1)
      BY <2>2
    <3> QED BY <1>6, <3>1 DEF Leads
  <2> QED BY <2>1, <2>2
<1> QED BY <1>1, <1>6, <1>7 DEF b

\* Every word is moved, to a place of its own.
LEMMA ShuffledAll ==
    ASSUME NEW n, NEW a, NEW b, NEW p, ShuffleBy(a, b, n, p)
    PROVE  {p[i] : i \in 1..n} = 1..n /\ \A i, j \in 1..n : p[i] = p[j] => i = j
<1> DEFINE N == 1..n
<1>1. /\ p \in [N -> N] /\ \A i, j \in N : p[i] = p[j] => i = j
      /\ \A k \in N : \E i \in N : p[i] = k
  BY DEF ShuffleBy
<1> HIDE DEF N
<1>2. {p[i] : i \in N} = N
  BY <1>1
<1> QED BY <1>1, <1>2 DEF N

\* sort.
LEMMA SortIsSort ==
    ASSUME ArrOK(av), EmitSort
    PROVE  ArrOK(av') /\ av.st = "ok" /\ Abs!ASort
<1> DEFINE n == av.len
           c == av.cap
           mem == av.mem
           Body(g) == [i \in 0..n |-> IF i = 0 THEN mem ELSE InnerPass(g[i - 1], n)]
           L == CHOOSE g : g = Body(g)
           step == [x \in (1..n) \X Words(c) |-> InnerPass(x[2], n)]
<1>0. /\ Contents \in Seq(Int) /\ Len(Contents) = n /\ n \in Nat /\ DOMAIN Contents = 1..n
      /\ \A k \in 1..n : Contents[k] = mem[k - 1]
  BY ContentsIs DEF ArrOK
<1>1. Does(<<"sort">>, [av EXCEPT !.mem = L[n]])
  BY DEF EmitSort
<1>c. c \in Nat /\ n \in 0..c /\ mem \in Words(c)
  BY SMTT(40) DEF ArrOK, Words
<1>2. ASSUME NEW a \in Words(c) PROVE InnerPass(a, n) \in Words(c)
  <2> HIDE DEF n, c
  <2>1. PICK M : InnerPass(a, n) = M[n] /\ PassStates(a, c, n, M)
    BY <1>c, PassRuns
  <2>2. n \in 0..n
    BY <1>0
  <2> QED BY <2>1, <2>2 DEF PassStates
<1> HIDE DEF n, c, mem
<1>3. LoopBody(n, Words(c), step)
  BY <1>2 DEF LoopBody
<1>4. \A j \in 1..n : \A b \in Words(c) : step[<<j, b>>] = InnerPass(b, n)
  OBVIOUS
<1> HIDE DEF step
<1>5. PICK g : LoopStates(n, Words(c), mem, step, g)
  BY <1>0, <1>3, <1>c, LoopRuns
<1>6. g \in [0..n -> Words(c)] /\ g[0] = mem /\ \A j \in 1..n : g[j] = step[<<j, g[j - 1]>>]
  BY <1>5 DEF LoopStates
<1>7. \A j \in 0..n : j = 0 \/ (j # 0 /\ j \in 1..n /\ j - 1 \in 0..n)
  BY <1>0
<1>8. \A j \in 0..n : g[j] = IF j = 0 THEN mem ELSE InnerPass(g[j - 1], n)
  BY <1>4, <1>6, <1>7
<1>9. g = Body(g)
  BY <1>6, <1>8
<1>10. L = Body(L)
  <2> HIDE DEF Body
  <2> QED BY <1>9
<1> HIDE DEF L
<1>11. \A i \in 0..n : L[i] = IF i = 0 THEN mem ELSE InnerPass(L[i - 1], n)
  BY <1>10
<1> DEFINE S == {i \in 0..n : L[i] \in Words(c) /\ Shuffled(mem, L[i], n) /\ Top(L[i], n, i)}
<1>12. 0 \in S
  <2>1. Top(mem, n, 0)
    BY <1>0 DEF Top
  <2>2. 0 \in 0..n /\ L[0] = mem
    BY <1>0, <1>11
  <2> QED BY <1>0, <1>c, <2>1, <2>2, ShuffleNone
<1>13. ASSUME NEW i \in 1..n, i - 1 \in S PROVE i \in S
  <2> DEFINE a == L[i - 1]
             b == InnerPass(a, n)
             k == i - 1
  <2>1. a \in Words(c) /\ Shuffled(mem, a, n) /\ Top(a, n, k) /\ k \in 0..(n - 1) /\ k + 1 = i
    BY <1>0, <1>13
  <2>2. L[i] = b /\ i \in 0..n
    BY <1>0, <1>11
  <2> HIDE DEF a, k
  <2>3. b \in Words(c) /\ Shuffled(a, b, n) /\ Top(b, n, k + 1)
    BY <1>c, <2>1, PassIs
  <2> HIDE DEF b
  <2>4. Shuffled(mem, b, n)
    BY <1>0, <2>1, <2>3, ShuffleTwice
  <2> QED BY <2>1, <2>2, <2>3, <2>4
<1>14. n \in S
  <2> HIDE DEF S
  <2>1. n \in Nat
    BY <1>0
  <2>2. \A i \in 1..n : i - 1 \in S => i \in S
    BY <1>13
  <2>3. \A i \in 0..n : i \in S
    BY <1>12, <2>1, <2>2, UpTo
  <2> QED BY <2>1, <2>3
<1> DEFINE m == L[n]
           t == [i \in 1..n |-> m[i - 1]]
<1>15. m \in Words(c) /\ Shuffled(mem, m, n) /\ Top(m, n, n)
  BY <1>14
<1> HIDE DEF m
<1>16. PICK p : ShuffleBy(mem, m, n, p)
  BY <1>15 DEF Shuffled
<1>17. p \in [1..n -> 1..n] /\ \A i \in 1..n : t[i] = Contents[p[i]]
  BY ZenonT(60), <1>0, <1>16 DEF ShuffleBy
<1>18. t = [i \in 1..n |-> Contents[p[i]]]
  BY <1>17
<1>19. \A i, j \in 1..n : i < j => Contents[p[i]] <= Contents[p[j]]
  <2> SUFFICES ASSUME NEW i \in 1..n, NEW j \in 1..n, i < j PROVE t[i] <= t[j]
    BY <1>17
  <2>1. i - 1 \in 0..(n - 1) /\ j - 1 \in 0..(n - 1) /\ i - 1 <= j - 1 /\ j - 1 >= n - n
    BY <1>0
  <2> QED BY <1>15, <2>1 DEF Top
<1>20. {p[i] : i \in 1..n} = 1..n /\ \A i, j \in 1..n : p[i] = p[j] => i = j
  BY <1>16, ShuffledAll
<1>21. m \in [0..(av.cap - 1) -> Int] /\ Does(<<"sort">>, [av EXCEPT !.mem = m]) /\ t = [k \in 1..av.len |-> m[k - 1]]
  BY <1>1, <1>15 DEF n, c, m, Words
<1> HIDE DEF t
<1>22. ArrOK(av') /\ av.st = "ok" /\ av'.op = <<"sort">> /\ Abs!Becomes(t)
  BY <1>21, BecomesIs
<1>23. p \in [DOMAIN Contents -> DOMAIN Contents] /\ Abs!IsInjective(p) /\ Abs!Range(p) = DOMAIN Contents
  BY <1>0, <1>17, <1>20 DEF Abs!IsInjective, Abs!Range
<1>24. \A i, j \in DOMAIN Contents : i < j => Contents[p[i]] <= Contents[p[j]]
  BY <1>0, <1>19
<1>25. t = [i \in DOMAIN Contents |-> Contents[p[i]]]
  BY <1>0, <1>18
<1>26. Abs!Becomes([i \in DOMAIN Contents |-> Contents[p[i]]])
  BY <1>22, <1>25
<1> QED
  BY <1>22, <1>23, <1>24, <1>26 DEF Abs!ASort

\* The block of memory with its header, through every growth and every loop of the
\* emitted code, implements a sequence: for any values and any length below half of
\* what 32 bits count (instructions/arrays.rs, builtins/array.rs).
THEOREM ArrayRefines == ArraySpecification => ArrayIsSequence
<1>1. ArrayInit => ArrInv /\ Abs!AInit
  <2> SUFFICES ASSUME ArrayInit PROVE ArrOK(av) /\ Abs!AInit
    BY DEF ArrInv
  <2>1. /\ av = [f \in ArrFields |-> av[f]] /\ av.len = 0 /\ av.cap = 0 /\ av.mem = <<>>
        /\ av.out = <<>> /\ av.st = "ok" /\ av.op = <<>>
    BY DEF ArrayInit, ArrFields
  <2>2. <<>> \in [0..(0 - 1) -> Int]
    OBVIOUS
  <2>3. ArrOK(av)
    <3>1. 0 <= 2 * MaxLen /\ 0 <= MaxLen
      BY ArraySizes
    <3>2. av.mem \in [0..(av.cap - 1) -> Int]
      BY <2>1, <2>2
    <3>3. av.len \in Nat /\ av.cap \in Nat /\ av.len <= av.cap /\ av.len <= MaxLen /\ av.cap <= 2 * MaxLen
      BY <2>1, <3>1
    <3> QED BY <2>1, <3>2, <3>3 DEF ArrOK
  <2>4. Contents = <<>>
    BY <2>1, <2>3, ContentsIs
  <2> QED BY <2>1, <2>3, <2>4 DEF Abs!AInit
<1>2. ArrInv /\ [ArrayNext]_av => ArrInv' /\ [Abs!ANext]_<<Contents, av.out, av.st, av.op>>
  <2> SUFFICES ASSUME ArrOK(av), [ArrayNext]_av
               PROVE  ArrOK(av') /\ [Abs!ANext]_<<Contents, av.out, av.st, av.op>>
    BY DEF ArrInv
  <2>1. ASSUME NEW v \in Values, ArrayPush(v) \/ EmitIndexOf(v) \/ EmitFilter(v)
        PROVE  ArrOK(av') /\ Abs!ANext
    BY <2>1, PushIsPush, FindIsFind, FilterIsFilter DEF Abs!ANext
  <2>2. ASSUME NEW i \in -1..TwoTo32, ArrayGet(i) \/ \E v \in Values : ArraySet(i, v)
        PROVE  ArrOK(av') /\ Abs!ANext
    BY <2>2, GetSetIs DEF Abs!ANext
  <2>3. ASSUME NEW a \in -1..MaxLen, NEW b \in -1..MaxLen, EmitSlice(a, b)
        PROVE  ArrOK(av') /\ Abs!ANext
    BY <2>3, SliceIsSlice DEF Abs!ANext
  <2>4. CASE ArrayExtend \/ EmitReverse \/ EmitSort
    BY <2>4, ExtendIsExtend, ReverseIsReverse, SortIsSort DEF Abs!ANext
  <2>5. CASE EmitPop \/ EmitFirstLast \/ EmitClear
    BY <2>5, EndsAreEnds DEF Abs!ANext
  <2>6. CASE UNCHANGED av
    BY <2>6 DEF ArrOK, Contents, InBlock
  <2> QED BY <2>1, <2>2, <2>3, <2>4, <2>5, <2>6 DEF ArrayNext
<1> QED
  BY <1>1, <1>2, PTL DEF ArraySpecification, ArrayIsSequence, Abs!ASpec

-----------------------------------------------------------------------------
\* Borrows.

\* What the walk meets, a borrow, and a borrow as the reference sees it: kind and depth.
Met == [e : {"use", "mut", "cond", "open", "close", "bind"}, v : BVars]
Borrow == [mut : BOOLEAN, depth : Nat]
KindOf(b) == IF b.mut THEN "mut" ELSE "use"
Held(bs) == {<<KindOf(bs[i]), bs[i].depth>> : i \in DOMAIN bs}

\* Appending adds one to a sequence and keeps the rest.
LEMMA Appended ==
    ASSUME NEW S, NEW s \in Seq(S), NEW x \in S
    PROVE  /\ Append(s, x) \in Seq(S) /\ Len(s) \in Nat /\ Len(Append(s, x)) = Len(s) + 1
           /\ Append(s, x)[Len(s) + 1] = x
           /\ \A i \in 1..Len(s) : Append(s, x)[i] = s[i] /\ s[i] \in S
           /\ DOMAIN s = 1..Len(s) /\ DOMAIN Append(s, x) = 1..(Len(s) + 1)
OBVIOUS

\* A borrow recorded is held with the others.
LEMMA HeldAppended ==
    ASSUME NEW bs \in Seq(Borrow), NEW b \in Borrow
    PROVE  Held(Append(bs, b)) = Held(bs) \cup {<<KindOf(b), b.depth>>}
<1> DEFINE n == Len(bs)
           t == Append(bs, b)
<1>1. /\ DOMAIN bs = 1..n /\ DOMAIN t = 1..(n + 1) /\ t[n + 1] = b /\ \A i \in 1..n : t[i] = bs[i]
      /\ n \in Nat
  BY Appended
<1>2. (n + 1) \in 1..(n + 1) /\ (\A i \in 1..n : i \in 1..(n + 1)) /\ \A i \in 1..(n + 1) : i = n + 1 \/ i \in 1..n
  BY <1>1
<1> HIDE DEF n, t
<1>3. Held(t) \subseteq Held(bs) \cup {<<KindOf(b), b.depth>>}
  BY <1>1, <1>2 DEF Held
<1>4. Held(bs) \subseteq Held(t) /\ <<KindOf(b), b.depth>> \in Held(t)
  BY <1>1, <1>2 DEF Held
<1> QED BY <1>3, <1>4 DEF t

\* retain keeps the borrows of the scopes outside, and no others.
LEMMA OutsideIs ==
    ASSUME NEW bs \in Seq(Borrow), NEW d \in Int
    PROVE  /\ Outside(bs, d) \in Seq(Borrow) /\ Len(Outside(bs, d)) <= Len(bs)
           /\ Held(Outside(bs, d)) = {p \in Held(bs) : p[2] < d}
<1> DEFINE n == Len(bs)
           T == Seq(Borrow)
           Step(i, s) == IF bs[i].depth < d THEN Append(s, bs[i]) ELSE s
           body == [x \in (1..n) \X T |-> Step(x[1], x[2])]
           G(g) == [i \in 0..n |-> IF i = 0 THEN <<>> ELSE IF bs[i].depth < d THEN Append(g[i - 1], bs[i]) ELSE g[i - 1]]
           K == CHOOSE g : g = G(g)
<1>1. n \in Nat /\ DOMAIN bs = 1..n /\ \A i \in 1..n : bs[i] \in Borrow
  OBVIOUS
<1>2. \A i \in 1..n : \A s \in T : Step(i, s) \in T /\ body[<<i, s>>] = Step(i, s)
  BY <1>1
<1>3. LoopBody(n, T, body) /\ <<>> \in T
  BY <1>2 DEF LoopBody
<1> HIDE DEF body, T, Step, n
<1>4. PICK g : LoopStates(n, T, <<>>, body, g)
  BY <1>1, <1>3, LoopRuns
<1>5. g = G(g)
  <2>1. /\ g \in [0..n -> T] /\ g[0] = <<>> /\ \A i \in 1..n : g[i] = body[<<i, g[i - 1]>>]
    BY <1>4 DEF LoopStates
  <2>2. \A i \in 1..n : i - 1 \in 0..n /\ g[i - 1] \in T
    BY <1>1, <2>1
  <2>3. \A i \in 1..n : g[i] = IF bs[i].depth < d THEN Append(g[i - 1], bs[i]) ELSE g[i - 1]
    BY <1>2, <2>1, <2>2 DEF Step
  <2>4. \A i \in 0..n : i = 0 \/ i \in 1..n
    BY <1>1
  <2>5. \A i \in 0..n : g[i] = IF i = 0 THEN <<>> ELSE IF bs[i].depth < d THEN Append(g[i - 1], bs[i]) ELSE g[i - 1]
    BY <2>1, <2>3, <2>4
  <2> QED BY <2>1, <2>5
<1>6. K = G(K)
  BY <1>5
<1>7. Outside(bs, d) = K[n]
  BY DEF Outside, n
<1> HIDE DEF K
<1>8. K[0] = <<>> /\ \A i \in 1..n : K[i] = IF bs[i].depth < d THEN Append(K[i - 1], bs[i]) ELSE K[i - 1]
  <2>1. 0 \in 0..n /\ \A i \in 1..n : i \in 0..n /\ i # 0
    BY <1>1
  <2> QED BY <1>6, <2>1
<1> DEFINE Upto(i) == {p \in {<<KindOf(bs[j]), bs[j].depth>> : j \in 1..i} : p[2] < d}
           S == {i \in 0..n : K[i] \in T /\ Len(K[i]) <= i /\ Held(K[i]) = Upto(i)}
<1>9. 0 \in S
  <2>1. K[0] \in T /\ Len(K[0]) = 0 /\ Held(K[0]) = {} /\ 1..0 = {} /\ 0 \in 0..n
    BY <1>1, <1>3, <1>8 DEF Held
  <2>2. Upto(0) = {}
    BY <2>1
  <2> QED BY <2>1, <2>2
<1>10. ASSUME NEW i \in 1..n, i - 1 \in S PROVE i \in S
  <2> DEFINE s == K[i - 1]
             q == <<KindOf(bs[i]), bs[i].depth>>
  <2>1. s \in T /\ Len(s) <= i - 1 /\ Held(s) = Upto(i - 1) /\ K[i] = IF bs[i].depth < d THEN Append(s, bs[i]) ELSE s
    BY <1>8, <1>10
  <2>2. bs[i] \in Borrow /\ i \in 0..n /\ i \in 1..i /\ (\A j \in 1..i : j = i \/ j \in 1..(i - 1)) /\ (\A j \in 1..(i - 1) : j \in 1..i)
    BY <1>1
  <2>3. q[2] = bs[i].depth
    OBVIOUS
  <2>4. \A p : p \in Upto(i) <=> p \in Upto(i - 1) \/ (p = q /\ q[2] < d)
    BY <2>2
  <2> HIDE DEF s, q, Upto
  <2>5. CASE bs[i].depth < d
    <3>1. K[i] = Append(s, bs[i])
      BY <2>1, <2>5
    <3>2. K[i] \in T /\ Len(K[i]) <= i /\ Held(K[i]) = Held(s) \cup {q}
      BY <2>1, <2>2, <3>1, HeldAppended, Appended DEF T, q
    <3>3. Upto(i) = Upto(i - 1) \cup {q}
      BY <2>3, <2>4, <2>5
    <3> QED BY <2>1, <2>2, <3>2, <3>3
  <2>6. CASE ~(bs[i].depth < d)
    <3>1. Upto(i) = Upto(i - 1) /\ K[i] = s
      BY <2>1, <2>3, <2>4, <2>6
    <3>2. Len(s) \in Nat
      BY <2>1 DEF T
    <3> QED BY <2>1, <2>2, <3>1, <3>2
  <2> QED BY <2>5, <2>6
<1> HIDE DEF S
<1>11. n \in S
  BY <1>1, <1>9, <1>10, UpTo
<1>12. Upto(n) = {p \in Held(bs) : p[2] < d}
  BY <1>1 DEF Held
<1> QED BY <1>7, <1>11, <1>12 DEF S, T, n

\* The depth moves by at most one.
LEMMA OpensIs == \A e : Opens(e) \in Int /\ (e = "open" => Opens(e) = 1) /\ (e = "close" => Opens(e) = -1)
                                         /\ (e \notin {"open", "close"} => Opens(e) = 0)
BY DEF Opens

\* The depth after each position exists and is what its definition says.
LEMMA DepthIs ==
    ASSUME NEW h \in Seq(Met)
    PROVE  /\ DepthIn(h) \in [0..Len(h) -> Int] /\ DepthIn(h)[0] = 0
           /\ \A i \in 1..Len(h) : DepthIn(h)[i] = DepthIn(h)[i - 1] + Opens(h[i].e)
<1> DEFINE n == Len(h)
           Step(i, s) == s + Opens(h[i].e)
           body == [x \in (1..n) \X Int |-> Step(x[1], x[2])]
           G(g) == [i \in 0..n |-> IF i = 0 THEN 0 ELSE g[i - 1] + Opens(h[i].e)]
           K == CHOOSE g : g = G(g)
<1>1. n \in Nat
  OBVIOUS
<1>2. \A i \in 1..n : \A s \in Int : Step(i, s) \in Int /\ body[<<i, s>>] = Step(i, s)
  BY <1>1, OpensIs
<1>3. LoopBody(n, Int, body) /\ 0 \in Int
  <2>1. \A x \in (1..n) \X Int : x[1] \in 1..n /\ x[2] \in Int /\ body[x] = Step(x[1], x[2])
    OBVIOUS
  <2>2. \A x \in (1..n) \X Int : body[x] \in Int
    <3>1. \A i \in 1..n : \A s \in Int : Step(i, s) \in Int
      BY <1>2
    <3> HIDE DEF body, Step
    <3> QED BY <2>1, <3>1
  <2> HIDE DEF Step
  <2> QED BY <2>2 DEF LoopBody
<1> HIDE DEF body, Step, n
<1>4. PICK g : LoopStates(n, Int, 0, body, g)
  BY <1>1, <1>3, LoopRuns
<1>5. g = G(g)
  <2>1. /\ g \in [0..n -> Int] /\ g[0] = 0 /\ \A i \in 1..n : g[i] = body[<<i, g[i - 1]>>]
    BY <1>4 DEF LoopStates
  <2>2. \A i \in 1..n : i - 1 \in 0..n /\ g[i - 1] \in Int
    BY <1>1, <2>1
  <2>3. \A i \in 1..n : g[i] = g[i - 1] + Opens(h[i].e)
    BY <1>2, <2>1, <2>2 DEF Step
  <2>4. \A i \in 0..n : i = 0 \/ i \in 1..n
    BY <1>1
  <2>5. \A i \in 0..n : g[i] = IF i = 0 THEN 0 ELSE g[i - 1] + Opens(h[i].e)
    BY <2>1, <2>3, <2>4
  <2> QED BY <2>1, <2>5
<1>6. K = G(K)
  BY <1>5
<1>7. DepthIn(h) = K
  BY DEF DepthIn, n
<1> HIDE DEF K
<1>8. DOMAIN K = 0..n /\ K[0] = 0 /\ \A i \in 1..n : K[i] = K[i - 1] + Opens(h[i].e)
  <2>1. 0 \in 0..n /\ \A i \in 1..n : i \in 0..n /\ i # 0
    BY <1>1
  <2>2. \A i \in 0..n : K[i] = IF i = 0 THEN 0 ELSE K[i - 1] + Opens(h[i].e)
    BY <1>6
  <2>3. DOMAIN K = 0..n
    BY <1>6
  <2> QED BY <2>1, <2>2, <2>3
<1> DEFINE S == {i \in 0..n : K[i] \in Int}
<1>9. 0 \in S
  BY <1>1, <1>8
<1>10. ASSUME NEW i \in 1..n, i - 1 \in S PROVE i \in S
  BY <1>1, <1>8, <1>10, OpensIs
<1> HIDE DEF S
<1>11. \A i \in 0..n : i \in S
  BY <1>1, <1>9, <1>10, UpTo
<1>12. \A i \in 0..n : K[i] \in Int
  BY <1>11 DEF S
<1>13. K = [i \in 0..n |-> K[i]]
  BY <1>6, <1>8
<1>14. K \in [0..n -> Int]
  BY <1>12, <1>13
<1> QED BY <1>7, <1>8, <1>14 DEF n

\* What comes later does not change the depth before it.
LEMMA DepthKept ==
    ASSUME NEW h \in Seq(Met), NEW x \in Met
    PROVE  /\ \A i \in 0..Len(h) : DepthIn(Append(h, x))[i] = DepthIn(h)[i] /\ DepthIn(h)[i] \in Int
           /\ DepthIn(Append(h, x))[Len(h) + 1] = DepthIn(h)[Len(h)] + Opens(x.e)
<1> DEFINE t == Append(h, x)
           n == Len(h)
           f == DepthIn(t)
           g == DepthIn(h)
<1>1. t \in Seq(Met) /\ Len(t) = n + 1 /\ n \in Nat /\ t[n + 1] = x /\ \A i \in 1..n : t[i] = h[i]
  BY Appended
<1>2. g \in [0..n -> Int] /\ g[0] = 0 /\ \A i \in 1..n : g[i] = g[i - 1] + Opens(h[i].e)
  BY DepthIs
<1>3. f[0] = 0 /\ \A i \in 1..(n + 1) : f[i] = f[i - 1] + Opens(t[i].e)
  BY <1>1, DepthIs
<1> HIDE DEF t, n, f, g
<1>4. \A i \in 1..n : i \in 1..(n + 1)
  BY <1>1
<1>5. \A i \in 1..n : f[i] = f[i - 1] + Opens(h[i].e)
  BY <1>1, <1>3, <1>4
<1>6. \A i \in 1..n : f[i - 1] = g[i - 1] => f[i] = g[i]
  BY <1>2, <1>5
<1>7. f[0] = g[0]
  BY <1>2, <1>3
<1>8. \A i \in 0..n : f[i] = g[i]
  <2>1. n \in Nat
    BY <1>1
  <2> QED BY ZenonT(60), <2>1, <1>6, <1>7, Together
<1>9. (n + 1) \in 1..(n + 1) /\ (n + 1) - 1 = n /\ n \in 0..n
  BY <1>1
<1>10. f[n + 1] = g[n] + Opens(x.e)
  BY <1>1, <1>3, <1>8, <1>9
<1>11. \A i \in 0..n : g[i] \in Int
  BY <1>2
<1> QED BY <1>8, <1>10, <1>11 DEF t, n, f, g

\* The loop of ConflictsIn, with the positions it has found.
Seen(h, f) == /\ f[0] = {}
              /\ \A i \in 1..Len(h) : f[i] =
                    IF h[i].e \in {"use", "cond", "mut"} /\ \E j \in (1..(i - 1)) \ f[i - 1] : Clash(h, j, i)
                    THEN f[i - 1] \cup {i} ELSE f[i - 1]

\* It can be run, and finds positions of the walk only.
LEMMA ConflictsAre ==
    ASSUME NEW h \in Seq(Met)
    PROVE  \E f : Seen(h, f) /\ ConflictsIn(h) = f[Len(h)] /\ \A i \in 0..Len(h) : f[i] \subseteq 1..i
<1> DEFINE n == Len(h)
           T == SUBSET Nat
           Step(i, s) == IF h[i].e \in {"use", "cond", "mut"} /\ \E j \in (1..(i - 1)) \ s : Clash(h, j, i)
                         THEN s \cup {i} ELSE s
           body == [x \in (1..n) \X T |-> Step(x[1], x[2])]
           G(g) == [i \in 0..n |-> IF i = 0 THEN {}
                        ELSE IF h[i].e \in {"use", "cond", "mut"} /\ \E j \in (1..(i - 1)) \ g[i - 1] : Clash(h, j, i)
                        THEN g[i - 1] \cup {i} ELSE g[i - 1]]
           K == CHOOSE g : g = G(g)
<1>1. n \in Nat
  OBVIOUS
<1>2. \A i \in 1..n : \A s \in T : Step(i, s) \in T /\ body[<<i, s>>] = Step(i, s)
  <2>1. \A i \in 1..n : i \in Nat
    BY <1>1
  <2>2. \A i \in 1..n : \A s \in T : Step(i, s) \in T
    BY <2>1
  <2>3. \A i \in 1..n : \A s \in T : <<i, s>> \in (1..n) \X T /\ <<i, s>>[1] = i /\ <<i, s>>[2] = s
    OBVIOUS
  <2> HIDE DEF Step, T
  <2> QED BY <2>2, <2>3
<1>3. LoopBody(n, T, body) /\ {} \in T
  <2>1. {} \in T
    OBVIOUS
  <2>2. \A x \in (1..n) \X T : body[x] \in T
    <3>1. \A x \in (1..n) \X T : x[1] \in 1..n /\ x[2] \in T /\ body[x] = Step(x[1], x[2])
      OBVIOUS
    <3>2. \A i \in 1..n : \A s \in T : Step(i, s) \in T
      BY <1>2
    <3> HIDE DEF body, T, Step
    <3> QED BY <3>1, <3>2
  <2> HIDE DEF T, Step
  <2> QED BY <2>1, <2>2 DEF LoopBody
<1> HIDE DEF body, T, Step, n
<1>4. PICK g : LoopStates(n, T, {}, body, g)
  BY <1>1, <1>3, LoopRuns
<1>5. g = G(g)
  <2>1. /\ g \in [0..n -> T] /\ g[0] = {} /\ \A i \in 1..n : g[i] = body[<<i, g[i - 1]>>]
    BY <1>4 DEF LoopStates
  <2>2. \A i \in 1..n : i - 1 \in 0..n /\ g[i - 1] \in T
    BY <1>1, <2>1
  <2>3. \A i \in 1..n : g[i] = Step(i, g[i - 1])
    BY <1>2, <2>1, <2>2
  <2>4. \A i \in 0..n : i = 0 \/ i \in 1..n
    BY <1>1
  <2>5. \A i \in 0..n : g[i] = IF i = 0 THEN {} ELSE Step(i, g[i - 1])
    BY <2>1, <2>3, <2>4
  <2> QED BY <2>1, <2>5 DEF Step
<1>6. K = G(K)
  BY <1>5
<1>7. ConflictsIn(h) = K[n]
  BY DEF ConflictsIn, n
<1> HIDE DEF K
<1>8. K[0] = {} /\ \A i \in 1..n : K[i] = Step(i, K[i - 1])
  <2>1. 0 \in 0..n /\ \A i \in 1..n : i \in 0..n /\ i # 0
    BY <1>1
  <2>2. K = [i \in 0..n |-> IF i = 0 THEN {} ELSE Step(i, K[i - 1])]
    BY <1>6 DEF Step
  <2> QED BY <2>1, <2>2
<1>9. Seen(h, K)
  BY <1>8 DEF Seen, Step, n
<1> DEFINE S == {i \in 0..n : K[i] \subseteq 1..i}
<1>10. 0 \in S
  BY <1>1, <1>8
<1>11. ASSUME NEW i \in 1..n, i - 1 \in S PROVE i \in S
  <2>1. K[i] \subseteq K[i - 1] \cup {i} /\ K[i - 1] \subseteq 1..(i - 1) /\ i \in 0..n
    <3>1. K[i] = Step(i, K[i - 1]) /\ i \in 0..n
      BY <1>1, <1>8
    <3>2. K[i - 1] \subseteq 1..(i - 1)
      BY <1>11
    <3>3. Step(i, K[i - 1]) \subseteq K[i - 1] \cup {i}
      BY Zenon DEF Step
    <3> QED BY <3>1, <3>2, <3>3
  <2>2. K[i] \subseteq 1..i
    BY <2>1
  <2> QED BY <2>1, <2>2
<1> HIDE DEF S
<1>12. \A i \in 0..n : i \in S
  BY <1>1, <1>10, <1>11, UpTo
<1>13. \A i \in 0..n : K[i] \subseteq 1..i
  BY <1>12 DEF S
<1> QED BY <1>7, <1>9, <1>13 DEF n

\* The borrow met at j is in force at the end of h, for a mention of v.
Live(h, j, v) == /\ h[j].e \in {"use", "mut"} /\ h[j].v = v
                 /\ \A k \in (j + 1)..Len(h) : ~(h[k].e = "bind" /\ h[k].v = v)
                 /\ \A k \in j..Len(h) : DepthIn(h)[k] >= DepthIn(h)[j]
\* The borrows of v in force that did not conflict.
Recorded(h, v) == {<<h[j].e, DepthIn(h)[j]>> : j \in {j \in (1..Len(h)) \ ConflictsIn(h) : Live(h, j, v)}}

\* Whether two positions clash does not depend on what comes after them.
LEMMA ClashKept ==
    ASSUME NEW h \in Seq(Met), NEW x \in Met, NEW i \in 1..Len(h), NEW j \in 1..(i - 1)
    PROVE  Clash(Append(h, x), j, i) <=> Clash(h, j, i)
<1> DEFINE t == Append(h, x)
           n == Len(h)
           f == DepthIn(t)
           g == DepthIn(h)
<1>1. n \in Nat /\ \A k \in 1..n : t[k] = h[k]
  BY Appended
<1>2. \A k \in 0..n : f[k] = g[k]
  BY DepthKept
<1>3. i \in 1..n /\ j \in 1..n /\ j \in 0..n /\ (\A k \in (j + 1)..(i - 1) : k \in 1..n) /\ \A k \in j..(i - 1) : k \in 0..n
  BY <1>1
<1> HIDE DEF t, n, f, g
<1>4. t[i] = h[i] /\ t[j] = h[j] /\ f[j] = g[j]
  BY <1>1, <1>2, <1>3
<1>5. (\A k \in (j + 1)..(i - 1) : t[k] = h[k]) /\ \A k \in j..(i - 1) : f[k] = g[k]
  BY <1>1, <1>2, <1>3
<1>6. InForce(t, j, i) <=> InForce(h, j, i)
  BY <1>4, <1>5 DEF InForce, f, g
<1> QED BY <1>4, <1>6 DEF Clash, t

\* The last position clashes with a borrow that is live before it.
LEMMA ClashIsLive ==
    ASSUME NEW h \in Seq(Met), NEW x \in Met, NEW j \in 1..Len(h)
    PROVE  Clash(Append(h, x), j, Len(h) + 1) <=> Live(h, j, x.v) /\ "mut" \in {x.e, h[j].e}
<1> DEFINE t == Append(h, x)
           n == Len(h)
           f == DepthIn(t)
           g == DepthIn(h)
<1>1. n \in Nat /\ (\A k \in 1..n : t[k] = h[k]) /\ t[n + 1] = x
  BY Appended
<1>2. \A k \in 0..n : f[k] = g[k]
  BY DepthKept
<1>3. (n + 1) - 1 = n /\ j \in 0..n /\ j \in 1..n /\ (\A k \in (j + 1)..n : k \in 1..n) /\ \A k \in j..n : k \in 0..n
  BY <1>1
<1> HIDE DEF t, n, f, g
<1>4. t[n + 1] = x /\ t[j] = h[j] /\ f[j] = g[j]
  BY <1>1, <1>2, <1>3
<1>5. (\A k \in (j + 1)..n : t[k] = h[k]) /\ \A k \in j..n : f[k] = g[k]
  BY <1>1, <1>2, <1>3
<1>6. InForce(t, j, n + 1) <=> /\ h[j].v = x.v
                               /\ \A k \in (j + 1)..n : ~(h[k].e = "bind" /\ h[k].v = x.v)
                               /\ \A k \in j..n : g[k] >= g[j]
  BY <1>3, <1>4, <1>5 DEF InForce, f
<1>7. Clash(t, j, n + 1) <=> h[j].e \in {"use", "mut"} /\ "mut" \in {x.e, h[j].e} /\ InForce(t, j, n + 1)
  BY <1>4 DEF Clash
<1>8. Live(h, j, x.v) <=> /\ h[j].e \in {"use", "mut"} /\ h[j].v = x.v
                          /\ \A k \in (j + 1)..n : ~(h[k].e = "bind" /\ h[k].v = x.v)
                          /\ \A k \in j..n : g[k] >= g[j]
  BY DEF Live, g, n
<1> QED BY <1>6, <1>7, <1>8 DEF t, n

\* Whether meeting x is an error: it asks for a borrow that one in force excludes.
Errs(h, x) == /\ x.e \in {"use", "cond", "mut"}
              /\ \E p \in Recorded(h, x.v) : "mut" \in {x.e, p[1]}

\* What is met next adds at most its own position to the conflicts.
LEMMA ConflictsGrow ==
    ASSUME NEW h \in Seq(Met), NEW x \in Met
    PROVE  /\ ConflictsIn(h) \subseteq 1..Len(h)
           /\ ConflictsIn(Append(h, x)) =
                 IF Errs(h, x) THEN ConflictsIn(h) \cup {Len(h) + 1} ELSE ConflictsIn(h)
<1> DEFINE t == Append(h, x)
           n == Len(h)
<1>1. t \in Seq(Met) /\ Len(t) = n + 1 /\ n \in Nat /\ t[n + 1] = x /\ \A i \in 1..n : t[i] = h[i]
  BY Appended
<1>2. PICK f : Seen(h, f) /\ ConflictsIn(h) = f[n] /\ \A i \in 0..n : f[i] \subseteq 1..i
  BY ConflictsAre
<1>3. PICK g : Seen(t, g) /\ ConflictsIn(t) = g[n + 1]
  BY <1>1, ConflictsAre
<1>4. \A i \in 1..n : \A j \in 1..(i - 1) : Clash(t, j, i) <=> Clash(h, j, i)
  BY ClashKept
<1>5. \A j \in 1..n : Clash(t, j, n + 1) <=> Live(h, j, x.v) /\ "mut" \in {x.e, h[j].e}
  BY ClashIsLive
<1> HIDE DEF t, n
<1>6. g[0] = f[0]
  BY <1>2, <1>3 DEF Seen
<1>7. ASSUME NEW i \in 1..n, g[i - 1] = f[i - 1] PROVE g[i] = f[i]
  <2> DEFINE A == h[i].e \in {"use", "cond", "mut"} /\ \E j \in (1..(i - 1)) \ f[i - 1] : Clash(h, j, i)
             B == h[i].e \in {"use", "cond", "mut"} /\ \E j \in (1..(i - 1)) \ f[i - 1] : Clash(t, j, i)
  <2>1. f[i] = IF A THEN f[i - 1] \cup {i} ELSE f[i - 1]
    BY <1>2 DEF Seen, n
  <2>2. i \in 1..Len(t) /\ t[i] = h[i]
    BY <1>1
  <2>3. g[i] = IF B THEN f[i - 1] \cup {i} ELSE f[i - 1]
    BY <1>3, <1>7, <2>2 DEF Seen
  <2>4. A <=> B
    BY <1>4
  <2> HIDE DEF A, B
  <2> QED BY <2>1, <2>3, <2>4
<1>8. g[n] = f[n]
  <2>1. n \in Nat /\ n \in 0..n
    BY <1>1
  <2> QED BY ZenonT(60), <2>1, <1>6, <1>7, Together
<1> DEFINE C == ConflictsIn(h)
           E == x.e \in {"use", "cond", "mut"} /\ \E j \in (1..n) \ C : Clash(t, j, n + 1)
<1>9. ConflictsIn(t) = IF E THEN C \cup {n + 1} ELSE C
  <2>1. (n + 1) - 1 = n /\ n + 1 \in 1..Len(t) /\ t[n + 1] = x
    BY <1>1
  <2> QED BY <1>2, <1>3, <1>8, <2>1 DEF Seen
<1>10. E <=> Errs(h, x)
  <2>1. E <=> x.e \in {"use", "cond", "mut"} /\ \E j \in (1..n) \ C : Live(h, j, x.v) /\ "mut" \in {x.e, h[j].e}
    BY <1>5
  <2>2. \A p : p \in Recorded(h, x.v) <=> \E j \in (1..n) \ C : Live(h, j, x.v) /\ p = <<h[j].e, DepthIn(h)[j]>>
    BY Zenon DEF Recorded, n
  <2>3. \A j : <<h[j].e, DepthIn(h)[j]>>[1] = h[j].e
    OBVIOUS
  <2> HIDE DEF E, C
  <2>4. (\E j \in (1..n) \ C : Live(h, j, x.v) /\ "mut" \in {x.e, h[j].e}) <=> \E p \in Recorded(h, x.v) : "mut" \in {x.e, p[1]}
    <3>1. ASSUME NEW j \in (1..n) \ C, Live(h, j, x.v), "mut" \in {x.e, h[j].e} PROVE \E p \in Recorded(h, x.v) : "mut" \in {x.e, p[1]}
      <4> DEFINE p == <<h[j].e, DepthIn(h)[j]>>
      <4>1. p \in Recorded(h, x.v) /\ p[1] = h[j].e
        BY <2>2, <2>3, <3>1
      <4> HIDE DEF p
      <4> QED BY <3>1, <4>1
    <3>2. ASSUME NEW p \in Recorded(h, x.v), "mut" \in {x.e, p[1]} PROVE \E j \in (1..n) \ C : Live(h, j, x.v) /\ "mut" \in {x.e, h[j].e}
      <4>1. PICK j \in (1..n) \ C : Live(h, j, x.v) /\ p = <<h[j].e, DepthIn(h)[j]>>
        BY <2>2
      <4>2. p[1] = h[j].e
        BY <2>3, <4>1
      <4> QED BY <3>2, <4>1, <4>2
    <3> QED BY <3>1, <3>2
  <2> QED BY <2>1, <2>4 DEF Errs
<1>11. C \subseteq 1..n
  BY <1>1, <1>2
<1> HIDE DEF E
<1> QED BY <1>9, <1>10, <1>11 DEF t, n

\* A borrow stays live unless its variable is bound or its scope ends; what is met is live.
LEMMA LiveGrows ==
    ASSUME NEW h \in Seq(Met), NEW x \in Met, NEW v
    PROVE  LET t == Append(h, x)
               n == Len(h)
           IN  /\ \A j \in 1..n : Live(t, j, v) <=> /\ Live(h, j, v) /\ ~(x.e = "bind" /\ x.v = v)
                                                    /\ DepthIn(h)[j] <= DepthIn(t)[n + 1]
               /\ Live(t, n + 1, v) <=> x.e \in {"use", "mut"} /\ x.v = v
<1> DEFINE t == Append(h, x)
           n == Len(h)
           f == DepthIn(t)
           g == DepthIn(h)
<1>1. t \in Seq(Met) /\ Len(t) = n + 1 /\ n \in Nat /\ t[n + 1] = x /\ \A i \in 1..n : t[i] = h[i]
  BY Appended
<1>2. (\A k \in 0..n : f[k] = g[k]) /\ \A k \in 0..(n + 1) : f[k] \in Int
  BY <1>1, DepthKept, DepthIs
<1>3. \A j \in 1..n : Live(h, j, v) <=> /\ h[j].e \in {"use", "mut"} /\ h[j].v = v
                                        /\ \A k \in (j + 1)..n : ~(h[k].e = "bind" /\ h[k].v = v)
                                        /\ \A k \in j..n : g[k] >= g[j]
  BY DEF Live
<1>4. \A j \in 1..(n + 1) : Live(t, j, v) <=> /\ t[j].e \in {"use", "mut"} /\ t[j].v = v
                                              /\ \A k \in (j + 1)..(n + 1) : ~(t[k].e = "bind" /\ t[k].v = v)
                                              /\ \A k \in j..(n + 1) : f[k] >= f[j]
  BY <1>1 DEF Live
<1> HIDE DEF t, n, f, g
<1>5. ASSUME NEW j \in 1..n
      PROVE  Live(t, j, v) <=> Live(h, j, v) /\ ~(x.e = "bind" /\ x.v = v) /\ g[j] <= f[n + 1]
  <2>1. j \in 1..(n + 1) /\ j \in 0..n /\ j \in 0..(n + 1) /\ n + 1 \in 0..(n + 1) /\ n + 1 \in (j + 1)..(n + 1) /\ n + 1 \in j..(n + 1)
    BY <1>1
  <2>2. (\A k \in (j + 1)..(n + 1) : k = n + 1 \/ (k \in (j + 1)..n /\ k \in 1..n)) /\ \A k \in (j + 1)..n : k \in (j + 1)..(n + 1) /\ k \in 1..n
    BY <1>1
  <2>3. (\A k \in j..(n + 1) : k = n + 1 \/ (k \in j..n /\ k \in 0..n)) /\ \A k \in j..n : k \in j..(n + 1) /\ k \in 0..n
    BY <1>1
  <2>4. (\A k \in (j + 1)..(n + 1) : ~(t[k].e = "bind" /\ t[k].v = v))
          <=> (\A k \in (j + 1)..n : ~(h[k].e = "bind" /\ h[k].v = v)) /\ ~(x.e = "bind" /\ x.v = v)
    BY <1>1, <2>1, <2>2
  <2>5. (\A k \in j..(n + 1) : f[k] >= f[j]) <=> (\A k \in j..n : g[k] >= g[j]) /\ f[n + 1] >= g[j]
    BY <1>2, <2>1, <2>3
  <2>6. t[j] = h[j] /\ (f[n + 1] >= g[j] <=> g[j] <= f[n + 1])
    BY <1>1, <1>2, <2>1
  <2> QED BY <1>3, <1>4, <2>1, <2>4, <2>5, <2>6
<1>6. Live(t, n + 1, v) <=> x.e \in {"use", "mut"} /\ x.v = v
  <2>1. n + 1 \in 1..(n + 1) /\ ((n + 1) + 1)..(n + 1) = {} /\ (\A k \in (n + 1)..(n + 1) : k = n + 1) /\ n + 1 \in 0..(n + 1)
    BY <1>1
  <2>2. \A k \in (n + 1)..(n + 1) : f[k] >= f[n + 1]
    BY <1>2, <2>1
  <2> QED BY <1>1, <1>4, <2>1, <2>2
<1> QED BY <1>5, <1>6 DEF t, n, f, g

\* The borrows recorded after one more thing is met.
LEMMA RecordedGrows ==
    ASSUME NEW h \in Seq(Met), NEW x \in Met, NEW v
    PROVE  LET t == Append(h, x)
               d == DepthIn(t)[Len(h) + 1]
           IN  Recorded(t, v) = {p \in Recorded(h, v) : ~(x.e = "bind" /\ x.v = v) /\ p[2] <= d}
                                \cup (IF x.e \in {"use", "mut"} /\ x.v = v /\ ~Errs(h, x) THEN {<<x.e, d>>} ELSE {})
<1> DEFINE t == Append(h, x)
           n == Len(h)
           f == DepthIn(t)
           g == DepthIn(h)
           C == ConflictsIn(h)
           D == ConflictsIn(t)
           Stays == ~(x.e = "bind" /\ x.v = v)
           New == x.e \in {"use", "mut"} /\ x.v = v
           R == Recorded(h, v)
<1>1. t \in Seq(Met) /\ Len(t) = n + 1 /\ n \in Nat /\ t[n + 1] = x /\ \A i \in 1..n : t[i] = h[i]
  BY Appended
<1>2. \A k \in 0..n : f[k] = g[k]
  BY DepthKept
<1>3. C \subseteq 1..n /\ D = IF Errs(h, x) THEN C \cup {n + 1} ELSE C
  BY ConflictsGrow
<1>4. (\A j \in 1..n : Live(t, j, v) <=> Live(h, j, v) /\ Stays /\ g[j] <= f[n + 1]) /\ (Live(t, n + 1, v) <=> New)
  BY LiveGrows
<1>5. \A p : p \in R <=> \E j \in (1..n) \ C : Live(h, j, v) /\ p = <<h[j].e, g[j]>>
  BY Zenon DEF Recorded
<1>6. \A p : p \in Recorded(t, v) <=> \E j \in (1..(n + 1)) \ D : Live(t, j, v) /\ p = <<t[j].e, f[j]>>
  BY <1>1, Zenon DEF Recorded
<1> HIDE DEF t, n, f, g, C, D, Stays, New, R
<1>7. (\A j \in 1..(n + 1) : j = n + 1 \/ j \in 1..n) /\ (\A j \in 1..n : j \in 1..(n + 1) /\ j # n + 1 /\ j \in 0..n) /\ n + 1 \in 1..(n + 1) /\ n + 1 \notin 1..n
  BY <1>1
<1>8. (\A j \in 1..n : j \in D <=> j \in C) /\ (n + 1 \in D <=> Errs(h, x))
  BY <1>3, <1>7
<1>9. \A j \in 1..n : t[j] = h[j] /\ f[j] = g[j] /\ <<h[j].e, g[j]>>[2] = g[j]
  BY <1>1, <1>2, <1>7
<1>10. ASSUME NEW p
       PROVE  p \in Recorded(t, v) <=> \/ p \in R /\ Stays /\ p[2] <= f[n + 1]
                                       \/ New /\ ~Errs(h, x) /\ p = <<x.e, f[n + 1]>>
  <2>1. ASSUME p \in Recorded(t, v)
        PROVE  \/ p \in R /\ Stays /\ p[2] <= f[n + 1]
               \/ New /\ ~Errs(h, x) /\ p = <<x.e, f[n + 1]>>
    <3>1. PICK j \in (1..(n + 1)) \ D : Live(t, j, v) /\ p = <<t[j].e, f[j]>>
      BY <1>6, <2>1
    <3>2. CASE j = n + 1
      BY <1>1, <1>4, <1>8, <3>1, <3>2
    <3>3. CASE j \in 1..n
      <4>1. j \in (1..n) \ C /\ Live(h, j, v) /\ Stays /\ g[j] <= f[n + 1] /\ p = <<h[j].e, g[j]>> /\ p[2] = g[j]
        BY <1>4, <1>8, <1>9, <3>1, <3>3
      <4> QED BY <1>5, <4>1
    <3> QED BY <1>7, <3>1, <3>2, <3>3
  <2>2. ASSUME p \in R, Stays, p[2] <= f[n + 1] PROVE p \in Recorded(t, v)
    <3>1. PICK j \in (1..n) \ C : Live(h, j, v) /\ p = <<h[j].e, g[j]>>
      BY <1>5, <2>2
    <3>2. p[2] = g[j] /\ j \in 1..n
      BY <1>9, <3>1
    <3>3. Live(t, j, v) /\ j \in (1..(n + 1)) \ D /\ p = <<t[j].e, f[j]>>
      BY <1>4, <1>7, <1>8, <1>9, <2>2, <3>1, <3>2
    <3> QED BY <1>6, <3>3
  <2>3. ASSUME New, ~Errs(h, x), p = <<x.e, f[n + 1]>> PROVE p \in Recorded(t, v)
    <3>1. Live(t, n + 1, v) /\ n + 1 \in (1..(n + 1)) \ D /\ p = <<t[n + 1].e, f[n + 1]>>
      BY <1>1, <1>4, <1>7, <1>8, <2>3
    <3> QED BY <1>6, <3>1
  <2> QED BY <2>1, <2>2, <2>3
<1>11. Recorded(t, v) = {p \in R : Stays /\ p[2] <= f[n + 1]}
                        \cup (IF New /\ ~Errs(h, x) THEN {<<x.e, f[n + 1]>>} ELSE {})
  BY <1>10
<1> QED BY <1>11 DEF t, n, f, Stays, New, R

\* A mutable borrow has no other beside it.
Alone(bs) == (\E i \in DOMAIN bs : bs[i].mut) => Len(bs) = 1

\* What the walk keeps: its errors are the conflicts so far, and the borrows of a
\* variable are those in force, each of a scope that is still open.
Walks == [active : [BVars -> Seq(Borrow)], depth : Nat, rejected : SUBSET Nat, hist : Seq(Met)]
BorrowOK(s) ==
    /\ s \in Walks
    /\ s.rejected = ConflictsIn(s.hist)
    /\ s.depth = DepthIn(s.hist)[Len(s.hist)]
    /\ \A v \in BVars : /\ Held(s.active[v]) = Recorded(s.hist, v)
                        /\ \A p \in Held(s.active[v]) : p[2] <= s.depth
                        /\ Alone(s.active[v])

\* Whether meeting x is an error, from the borrows the walk holds.
Denied(s, x) == /\ x.e \in {"use", "cond", "mut"}
                /\ \E p \in Held(s.active[x.v]) : "mut" \in {x.e, p[1]}

\* The borrows of v once x is met and the scope depth is d.
HeldAfter(s, x, v, d) ==
    {p \in Held(s.active[v]) : ~(x.e = "bind" /\ x.v = v) /\ p[2] <= d}
    \cup (IF x.e \in {"use", "mut"} /\ x.v = v /\ ~Denied(s, x) THEN {<<x.e, d>>} ELSE {})

\* A step that does that keeps the invariant.
LEMMA MeetOK ==
    ASSUME NEW s, NEW t, NEW x \in Met, BorrowOK(s), t \in Walks,
           t.hist = Append(s.hist, x), t.depth = s.depth + Opens(x.e),
           t.rejected = IF Denied(s, x) THEN s.rejected \cup {Len(t.hist)} ELSE s.rejected,
           \A v \in BVars : Held(t.active[v]) = HeldAfter(s, x, v, t.depth) /\ Alone(t.active[v])
    PROVE  BorrowOK(t)
<1> DEFINE h == s.hist
           g == t.hist
           n == Len(h)
           d == t.depth
<1>1. h \in Seq(Met) /\ g = Append(h, x) /\ Len(g) = n + 1 /\ n \in Nat /\ d \in Nat /\ x.v \in BVars
  BY Appended DEF BorrowOK, Walks, Met
<1>2. DepthIn(g)[n + 1] = d
  BY <1>1, DepthKept DEF BorrowOK
<1>3. Denied(s, x) <=> Errs(h, x)
  BY <1>1 DEF BorrowOK, Denied, Errs
<1>4. t.rejected = ConflictsIn(g)
  BY <1>1, <1>3, ConflictsGrow DEF BorrowOK
<1>5. ASSUME NEW v \in BVars PROVE Held(t.active[v]) = Recorded(g, v) /\ \A p \in Held(t.active[v]) : p[2] <= d
  <2>1. Held(s.active[v]) = Recorded(h, v)
    BY DEF BorrowOK
  <2>2. Recorded(g, v) = {p \in Recorded(h, v) : ~(x.e = "bind" /\ x.v = v) /\ p[2] <= d}
                         \cup (IF x.e \in {"use", "mut"} /\ x.v = v /\ ~Errs(h, x) THEN {<<x.e, d>>} ELSE {})
    BY <1>1, <1>2, RecordedGrows
  <2>3. Held(t.active[v]) = Recorded(g, v)
    BY <1>3, <2>1, <2>2 DEF HeldAfter
  <2>4. <<x.e, d>>[2] = d /\ d <= d
    BY <1>1
  <2>5. \A p \in Recorded(g, v) : p[2] <= d
    BY <2>2, <2>4
  <2> QED BY <2>3, <2>5
<1> QED BY <1>1, <1>2, <1>4, <1>5 DEF BorrowOK

\* What the checks of the code see in the borrows of a variable.
LEMMA HeldKinds ==
    ASSUME NEW bs \in Seq(Borrow)
    PROVE  /\ (\E i \in DOMAIN bs : bs[i].mut) <=> \E p \in Held(bs) : p[1] = "mut"
           /\ bs # <<>> <=> \E p \in Held(bs) : TRUE
           /\ Len(bs) = 0 => Held(bs) = {}
<1>1. \A p : p \in Held(bs) <=> \E i \in DOMAIN bs : p = <<KindOf(bs[i]), bs[i].depth>>
  BY DEF Held
<1>2. \A i \in DOMAIN bs : <<KindOf(bs[i]), bs[i].depth>>[1] = KindOf(bs[i]) /\ (KindOf(bs[i]) = "mut" <=> bs[i].mut)
  BY DEF KindOf
<1>3. (\E i \in DOMAIN bs : bs[i].mut) <=> \E p \in Held(bs) : p[1] = "mut"
  <2>1. ASSUME NEW i \in DOMAIN bs, bs[i].mut PROVE \E p \in Held(bs) : p[1] = "mut"
    BY <1>1, <1>2, <2>1
  <2>2. ASSUME NEW p \in Held(bs), p[1] = "mut" PROVE \E i \in DOMAIN bs : bs[i].mut
    BY <1>1, <1>2, <2>2
  <2> QED BY <2>1, <2>2
<1>4. (bs # <<>> <=> \E i \in DOMAIN bs : TRUE) /\ (Len(bs) = 0 => DOMAIN bs = {})
  OBVIOUS
<1> QED BY <1>1, <1>3, <1>4

\* A scope that stays or opens ends no borrow.
LEMMA NoneEnds ==
    ASSUME NEW s, BorrowOK(s), NEW v \in BVars, NEW d \in Int, s.depth <= d
    PROVE  {p \in Held(s.active[v]) : p[2] <= d} = Held(s.active[v])
<1>1. \A p \in Held(s.active[v]) : p[2] <= d
  <2>1. \A p \in Held(s.active[v]) : p[2] <= s.depth /\ p[2] \in Nat
    <3>1. s.active[v] \in Seq(Borrow)
      BY DEF BorrowOK, Walks
    <3>2. \A bs \in Seq(Borrow) : \A i \in DOMAIN bs : bs[i].depth \in Nat
      <4>1. \A bs \in Seq(Borrow) : \A i \in DOMAIN bs : bs[i] \in Borrow
        OBVIOUS
      <4> QED BY <4>1 DEF Borrow
    <3>3. \A i \in DOMAIN s.active[v] : s.active[v][i].depth \in Nat
      BY <3>1, <3>2
    <3> QED BY <3>3 DEF BorrowOK, Held
  <2>2. s.depth \in Nat
    BY DEF BorrowOK, Walks
  <2> QED BY <2>1, <2>2
<1> QED BY <1>1

\* Noting what is met changes nothing else.
LEMMA SawIs ==
    ASSUME NEW s \in Walks, NEW x \in Met
    PROVE  LET c == Saw(s, x.e, x.v)
           IN  /\ c \in Walks /\ c.hist = Append(s.hist, x) /\ Len(c.hist) \in Nat
               /\ c.active = s.active /\ c.depth = s.depth /\ c.rejected = s.rejected
<1>1. [e |-> x.e, v |-> x.v] = x /\ s.hist \in Seq(Met)
  BY DEF Met, Walks
<1>2. Append(s.hist, x) \in Seq(Met) /\ Len(Append(s.hist, x)) \in Nat
  BY <1>1, Appended
<1> DEFINE g == Append(s.hist, x)
<1>3. Saw(s, x.e, x.v) = [s EXCEPT !.hist = g]
  BY <1>1 DEF Saw
<1> HIDE DEF g
<1> QED BY <1>2, <1>3 DEF Walks, g

\* Recording a borrow.
LEMMA AddIs ==
    ASSUME NEW c \in Walks, NEW v \in BVars, NEW m \in BOOLEAN
    PROVE  LET t == AddBorrow(c, v, m)
               b == [mut |-> m, depth |-> c.depth]
           IN  /\ t \in Walks /\ t.hist = c.hist /\ t.depth = c.depth /\ t.rejected = c.rejected
               /\ b \in Borrow /\ t.active[v] = Append(c.active[v], b)
               /\ \A w \in BVars : w # v => t.active[w] = c.active[w]
<1> DEFINE b == [mut |-> m, depth |-> c.depth]
           bs == Append(c.active[v], b)
           a == [c.active EXCEPT ![v] = bs]
<1>1. b \in Borrow /\ c.active \in [BVars -> Seq(Borrow)]
  BY DEF Borrow, Walks
<1>2. bs \in Seq(Borrow)
  BY <1>1, Appended
<1>3. AddBorrow(c, v, m) = [c EXCEPT !.active = a]
  BY DEF AddBorrow
<1> HIDE DEF b, bs
<1>4. a \in [BVars -> Seq(Borrow)] /\ a[v] = bs /\ \A w \in BVars : w # v => a[w] = c.active[w]
  BY <1>1, <1>2
<1> HIDE DEF a
<1> QED BY <1>1, <1>3, <1>4 DEF Walks, b, bs

\* Reporting an error.
LEMMA RejectIs ==
    ASSUME NEW c \in Walks
    PROVE  LET t == Reject(c)
           IN  /\ t \in Walks /\ t.hist = c.hist /\ t.depth = c.depth /\ t.active = c.active
               /\ t.rejected = c.rejected \cup {Len(c.hist)}
<1>1. Len(c.hist) \in Nat /\ c.rejected \in SUBSET Nat
  BY DEF Walks
<1>2. c.rejected \cup {Len(c.hist)} \in SUBSET Nat
  BY <1>1
<1> QED BY <1>2 DEF Walks, Reject

\* One more borrow keeps a mutable one alone if it is shared and there is no mutable
\* one, or if it is the only one.
LEMMA AloneAppended ==
    ASSUME NEW bs \in Seq(Borrow), NEW b \in Borrow,
           bs = <<>> \/ (~b.mut /\ ~\E i \in DOMAIN bs : bs[i].mut)
    PROVE  Alone(Append(bs, b))
<1> DEFINE t == Append(bs, b)
           n == Len(bs)
<1>1. /\ DOMAIN bs = 1..n /\ DOMAIN t = 1..(n + 1) /\ t[n + 1] = b /\ \A i \in 1..n : t[i] = bs[i]
      /\ n \in Nat /\ Len(t) = n + 1 /\ (bs = <<>> => n = 0)
  BY Appended
<1> HIDE DEF t, n
<1>2. CASE bs = <<>>
  BY <1>1, <1>2 DEF Alone, t
<1>3. CASE ~b.mut /\ ~\E i \in DOMAIN bs : bs[i].mut
  <2>1. \A i \in 1..(n + 1) : i = n + 1 \/ i \in 1..n
    BY <1>1
  <2>2. ~\E i \in DOMAIN t : t[i].mut
    BY <1>1, <1>3, <2>1
  <2> QED BY <2>2 DEF Alone, t
<1> QED BY <1>2, <1>3

\* A borrow that is granted, or refused, where x is met.
LEMMA BorrowStepOK ==
    ASSUME NEW s, BorrowOK(s), NEW x \in Met, x.e \in {"use", "mut"}, NEW t,
           LET c == Saw(s, x.e, x.v)
           IN  \/ Denied(s, x) /\ t = Reject(c)
               \/ ~Denied(s, x) /\ t = AddBorrow(c, x.v, x.e = "mut")
    PROVE  BorrowOK(t)
<1> DEFINE c == Saw(s, x.e, x.v)
           v == x.v
           m == x.e = "mut"
           b == [mut |-> m, depth |-> s.depth]
<1>1. s \in Walks /\ v \in BVars /\ m \in BOOLEAN /\ x.e \notin {"open", "close", "bind"}
  BY DEF BorrowOK, Met
<1>2. c \in Walks /\ c.hist = Append(s.hist, x) /\ c.active = s.active /\ c.depth = s.depth /\ c.rejected = s.rejected
  BY <1>1, SawIs
<1>3. (Denied(s, x) => t = Reject(c)) /\ (~Denied(s, x) => t = AddBorrow(c, v, m))
  BY Zenon
<1>4. s.depth \in Nat /\ Opens(x.e) = 0 /\ s.depth + Opens(x.e) = s.depth
  BY <1>1, OpensIs DEF Walks
<1>5. \A w \in BVars : s.active[w] \in Seq(Borrow) /\ Alone(s.active[w]) /\ {p \in Held(s.active[w]) : p[2] <= s.depth} = Held(s.active[w])
  BY <1>1, <1>4, NoneEnds DEF BorrowOK, Walks
<1>6. \A w \in BVars : HeldAfter(s, x, w, s.depth) =
            Held(s.active[w]) \cup (IF w = v /\ ~Denied(s, x) THEN {<<x.e, s.depth>>} ELSE {})
  BY <1>1, <1>5 DEF HeldAfter
<1> HIDE DEF c
<1>7. CASE Denied(s, x)
  <2>1. t \in Walks /\ t.hist = Append(s.hist, x) /\ t.depth = s.depth /\ t.active = s.active /\ t.rejected = s.rejected \cup {Len(t.hist)}
    BY <1>2, <1>3, <1>7, RejectIs
  <2>2. \A w \in BVars : Held(t.active[w]) = HeldAfter(s, x, w, t.depth) /\ Alone(t.active[w])
    BY <1>5, <1>6, <1>7, <2>1
  <2> QED BY <1>4, <1>7, <2>1, <2>2, MeetOK
<1>8. CASE ~Denied(s, x)
  <2>1. t \in Walks /\ t.hist = Append(s.hist, x) /\ t.depth = s.depth /\ t.rejected = s.rejected
        /\ b \in Borrow /\ t.active[v] = Append(s.active[v], b) /\ \A w \in BVars : w # v => t.active[w] = s.active[w]
    <3>1. t = AddBorrow(c, v, m) /\ b = [mut |-> m, depth |-> c.depth]
      BY <1>2, <1>3, <1>8
    <3> HIDE DEF m, v, b
    <3>2. t \in Walks /\ t.hist = c.hist /\ t.depth = c.depth /\ t.rejected = c.rejected
          /\ b \in Borrow /\ t.active[v] = Append(c.active[v], b) /\ \A w \in BVars : w # v => t.active[w] = c.active[w]
      BY <1>1, <1>2, <3>1, AddIs
    <3> QED BY <1>2, <3>2
  <2>2. b.depth = s.depth /\ KindOf(b) = x.e /\ (b.mut <=> x.e = "mut")
    BY <1>1 DEF KindOf
  <2> HIDE DEF b, m
  <2>3. Held(t.active[v]) = Held(s.active[v]) \cup {<<x.e, s.depth>>}
    BY <1>1, <1>5, <2>1, <2>2, HeldAppended
  <2>4. Alone(t.active[v])
    <3>1. ~\E p \in Held(s.active[v]) : "mut" \in {x.e, p[1]}
      BY <1>8 DEF Denied
    <3>2. s.active[v] = <<>> \/ (x.e # "mut" /\ ~\E i \in DOMAIN s.active[v] : s.active[v][i].mut)
      <4>1. s.active[v] \in Seq(Borrow)
        BY <1>1, <1>5
      <4> QED BY <3>1, <4>1, HeldKinds
    <3> QED BY <1>1, <1>5, <2>1, <2>2, <3>2, AloneAppended
  <2>5. \A w \in BVars : Held(t.active[w]) = HeldAfter(s, x, w, t.depth) /\ Alone(t.active[w])
    BY <1>5, <1>6, <1>8, <2>1, <2>3, <2>4
  <2> QED BY <1>4, <1>8, <2>1, <2>5, MeetOK
<1> QED BY <1>7, <1>8

\* What the checks ask is whether the borrow is denied.
LEMMA AskedIs ==
    ASSUME NEW s, BorrowOK(s), NEW v \in BVars, NEW c, c.active = s.active
    PROVE  /\ \A e \in {"use", "cond"} : (\E i \in DOMAIN c.active[v] : c.active[v][i].mut) <=> Denied(s, [e |-> e, v |-> v])
           /\ c.active[v] # <<>> <=> Denied(s, [e |-> "mut", v |-> v])
<1>1. s.active[v] \in Seq(Borrow)
  BY DEF BorrowOK, Walks
<1>2. \A e \in {"use", "cond"} : \A k : "mut" \in {e, k} <=> k = "mut"
  OBVIOUS
<1>3. \A e \in {"use", "cond"} : Denied(s, [e |-> e, v |-> v]) <=> \E p \in Held(s.active[v]) : p[1] = "mut"
  BY <1>2 DEF Denied
<1>4. Denied(s, [e |-> "mut", v |-> v]) <=> \E p \in Held(s.active[v]) : TRUE
  BY DEF Denied
<1> QED BY <1>1, <1>3, <1>4, HeldKinds

\* A mention of a variable.
LEMMA UseOK ==
    ASSUME NEW s, BorrowOK(s), NEW v \in BVars
    PROVE  BorrowOK(TryImmutableBorrow(Saw(s, "use", v), v))
<1> DEFINE c == Saw(s, "use", v)
           x == [e |-> "use", v |-> v]
           t == TryImmutableBorrow(c, v)
<1>1. x \in Met /\ x.e = "use" /\ x.v = v /\ s \in Walks
  BY DEF Met, BorrowOK
<1>2. c = Saw(s, x.e, x.v) /\ c.active = s.active
  BY <1>1, SawIs
<1>3. (\E i \in DOMAIN c.active[v] : c.active[v][i].mut) <=> Denied(s, x)
  <2>1. \A e \in {"use", "cond"} : (\E i \in DOMAIN c.active[v] : c.active[v][i].mut) <=> Denied(s, [e |-> e, v |-> v])
    BY ZenonT(60), <1>2, AskedIs
  <2> QED BY ZenonT(60), <2>1
<1>4. (Denied(s, x) => t = Reject(c)) /\ (~Denied(s, x) => t = AddBorrow(c, v, FALSE))
  BY <1>3 DEF TryImmutableBorrow
<1>5. (x.e = "mut") = FALSE
  OBVIOUS
<1> HIDE DEF x, t, c
<1>6. \/ Denied(s, x) /\ t = Reject(Saw(s, x.e, x.v))
      \/ ~Denied(s, x) /\ t = AddBorrow(Saw(s, x.e, x.v), x.v, x.e = "mut")
  BY <1>1, <1>2, <1>4, <1>5
<1>7. BorrowOK(t)
  BY <1>1, <1>6, BorrowStepOK
<1> QED BY <1>7 DEF t, c

\* A mutable borrow.
LEMMA MutOK ==
    ASSUME NEW s, BorrowOK(s), NEW v \in BVars
    PROVE  BorrowOK(TryMutableBorrow(Saw(s, "mut", v), v))
<1> DEFINE c == Saw(s, "mut", v)
           x == [e |-> "mut", v |-> v]
           t == TryMutableBorrow(c, v)
<1>1. x \in Met /\ x.e = "mut" /\ x.v = v /\ s \in Walks
  BY DEF Met, BorrowOK
<1>2. c = Saw(s, x.e, x.v) /\ c.active = s.active
  BY <1>1, SawIs
<1>3. c.active[v] # <<>> <=> Denied(s, x)
  BY <1>2, AskedIs
<1>4. (Denied(s, x) => t = Reject(c)) /\ (~Denied(s, x) => t = AddBorrow(c, v, TRUE))
  BY <1>3 DEF TryMutableBorrow
<1>5. (x.e = "mut") = TRUE
  OBVIOUS
<1> HIDE DEF x, t, c
<1>6. \/ Denied(s, x) /\ t = Reject(Saw(s, x.e, x.v))
      \/ ~Denied(s, x) /\ t = AddBorrow(Saw(s, x.e, x.v), x.v, x.e = "mut")
  BY <1>1, <1>2, <1>4, <1>5
<1>7. BorrowOK(t)
  BY <1>1, <1>6, BorrowStepOK
<1> QED BY <1>7 DEF t, c

\* The end of a scope.
LEMMA ExitIs ==
    ASSUME NEW c \in Walks, c.depth > 0
    PROVE  LET t == ExitBorrowScope(c)
           IN  /\ t \in Walks /\ t.hist = c.hist /\ t.depth = c.depth - 1 /\ t.rejected = c.rejected
               /\ \A v \in BVars : t.active[v] = Outside(c.active[v], c.depth)
<1> DEFINE a == [v \in BVars |-> Outside(c.active[v], c.depth)]
<1>1. c.depth \in Int /\ c.depth - 1 \in Nat /\ \A v \in BVars : c.active[v] \in Seq(Borrow)
  BY DEF Walks
<1>2. \A v \in BVars : Outside(c.active[v], c.depth) \in Seq(Borrow)
  BY <1>1, OutsideIs
<1>3. a \in [BVars -> Seq(Borrow)] /\ \A v \in BVars : a[v] = Outside(c.active[v], c.depth)
  BY <1>2
<1>4. ExitBorrowScope(c) = [c EXCEPT !.active = a, !.depth = c.depth - 1]
  BY DEF ExitBorrowScope, Walks
<1> HIDE DEF a
<1> QED BY <1>1, <1>3, <1>4 DEF Walks

\* A mutable borrow that is kept was alone and stays so.
LEMMA AloneOutside ==
    ASSUME NEW bs \in Seq(Borrow), NEW d \in Int, Alone(bs)
    PROVE  Alone(Outside(bs, d))
<1> DEFINE t == Outside(bs, d)
<1>1. t \in Seq(Borrow) /\ Len(t) <= Len(bs) /\ Held(t) = {p \in Held(bs) : p[2] < d}
  BY OutsideIs
<1> HIDE DEF t
<1>2. SUFFICES ASSUME \E i \in DOMAIN t : t[i].mut PROVE Len(t) = 1
  BY DEF Alone, t
<1>3. \E p \in Held(t) : p[1] = "mut"
  BY <1>1, <1>2, HeldKinds
<1>4. \E p \in Held(bs) : p[1] = "mut"
  BY <1>1, <1>3
<1>5. Len(bs) = 1
  BY <1>4, HeldKinds DEF Alone
<1>6. Len(t) \in Nat /\ Len(t) # 0
  BY <1>1, <1>2
<1> QED BY <1>1, <1>5, <1>6

\* The depths of the borrows of a variable are numbers.
LEMMA HeldDepths ==
    ASSUME NEW bs \in Seq(Borrow), NEW p \in Held(bs)
    PROVE  p[2] \in Nat
<1>1. \A i \in DOMAIN bs : bs[i] \in Borrow
  OBVIOUS
<1>2. \A i \in DOMAIN bs : bs[i].depth \in Nat
  BY <1>1 DEF Borrow
<1> QED BY <1>2 DEF Held

\* The start of a scope.
LEMMA EnterIs ==
    ASSUME NEW c \in Walks
    PROVE  LET t == EnterBorrowScope(c)
           IN  /\ t \in Walks /\ t.hist = c.hist /\ t.active = c.active
               /\ t.depth = c.depth + 1 /\ t.rejected = c.rejected
<1>1. c.depth + 1 \in Nat
  BY DEF Walks
<1>2. EnterBorrowScope(c) = [c EXCEPT !.depth = c.depth + 1]
  BY DEF EnterBorrowScope
<1> QED BY <1>1, <1>2 DEF Walks

\* A block opens.
LEMMA OpenOK ==
    ASSUME NEW s, BorrowOK(s), NEW v \in BVars
    PROVE  BorrowOK(EnterBorrowScope(Saw(s, "open", v)))
<1> DEFINE c == Saw(s, "open", v)
           x == [e |-> "open", v |-> v]
           t == EnterBorrowScope(c)
<1>1. x \in Met /\ x.e = "open" /\ x.v = v /\ s \in Walks /\ s.depth \in Nat
  BY DEF Met, BorrowOK, Walks
<1>2. c \in Walks /\ c.hist = Append(s.hist, x) /\ c.active = s.active /\ c.depth = s.depth /\ c.rejected = s.rejected
  BY <1>1, SawIs
<1> HIDE DEF c
<1>3. t \in Walks /\ t.hist = Append(s.hist, x) /\ t.active = s.active /\ t.depth = s.depth + 1 /\ t.rejected = s.rejected
  BY <1>1, <1>2, EnterIs
<1> HIDE DEF x, t
<1>4. ~Denied(s, x) /\ t.depth = s.depth + Opens(x.e) /\ t.depth \in Int /\ s.depth <= t.depth
  BY <1>1, <1>3, OpensIs DEF Denied
<1>5. ASSUME NEW w \in BVars PROVE Held(t.active[w]) = HeldAfter(s, x, w, t.depth) /\ Alone(t.active[w])
  <2>1. {p \in Held(s.active[w]) : p[2] <= t.depth} = Held(s.active[w]) /\ Alone(s.active[w])
    BY <1>4, NoneEnds DEF BorrowOK
  <2>2. HeldAfter(s, x, w, t.depth) = {p \in Held(s.active[w]) : p[2] <= t.depth}
    BY <1>1 DEF HeldAfter
  <2> QED BY <1>3, <2>1, <2>2
<1>6. BorrowOK(t)
  BY <1>1, <1>3, <1>4, <1>5, MeetOK
<1> QED BY <1>6 DEF t, c

\* A block closes.
LEMMA CloseOK ==
    ASSUME NEW s, BorrowOK(s), NEW v \in BVars, s.depth > 0
    PROVE  BorrowOK(ExitBorrowScope(Saw(s, "close", v)))
<1> DEFINE c == Saw(s, "close", v)
           x == [e |-> "close", v |-> v]
           t == ExitBorrowScope(c)
<1>1. x \in Met /\ x.e = "close" /\ x.v = v /\ s \in Walks /\ s.depth \in Nat
  BY DEF Met, BorrowOK, Walks
<1>2. c \in Walks /\ c.hist = Append(s.hist, x) /\ c.active = s.active /\ c.depth = s.depth /\ c.rejected = s.rejected
  BY <1>1, SawIs
<1> HIDE DEF c
<1>3. t \in Walks /\ t.hist = Append(s.hist, x) /\ t.depth = s.depth - 1 /\ t.rejected = s.rejected
      /\ \A w \in BVars : t.active[w] = Outside(s.active[w], s.depth)
  BY <1>1, <1>2, ExitIs
<1> HIDE DEF x, t
<1>4. ~Denied(s, x) /\ t.depth = s.depth + Opens(x.e)
  BY <1>1, <1>3, OpensIs DEF Denied
<1>5. ASSUME NEW w \in BVars PROVE Held(t.active[w]) = HeldAfter(s, x, w, t.depth) /\ Alone(t.active[w])
  <2> DEFINE bs == s.active[w]
  <2>1. bs \in Seq(Borrow) /\ Alone(bs)
    BY <1>1 DEF BorrowOK, Walks
  <2>2. HeldAfter(s, x, w, t.depth) = {p \in Held(bs) : p[2] <= t.depth}
    BY <1>1 DEF HeldAfter
  <2> HIDE DEF bs
  <2>3. \A p \in Held(bs) : p[2] < s.depth <=> p[2] <= t.depth
    BY <1>1, <1>3, <2>1, HeldDepths
  <2>4. s.depth \in Int /\ t.active[w] = Outside(bs, s.depth)
    BY <1>1, <1>3 DEF bs
  <2>5. Held(t.active[w]) = {p \in Held(bs) : p[2] < s.depth} /\ Alone(t.active[w])
    BY <2>1, <2>4, OutsideIs, AloneOutside
  <2> QED BY <2>2, <2>3, <2>5
<1>6. BorrowOK(t)
  BY <1>1, <1>3, <1>4, <1>5, MeetOK
<1> QED BY <1>6 DEF t, c

\* A variable is bound again.
LEMMA BindOK ==
    ASSUME NEW s, BorrowOK(s), NEW v \in BVars
    PROVE  BorrowOK(Saw(Forget(s, v), "bind", v))
<1> DEFINE c == Forget(s, v)
           x == [e |-> "bind", v |-> v]
           t == Saw(c, "bind", v)
           a == [s.active EXCEPT ![v] = <<>>]
<1>1. x \in Met /\ x.e = "bind" /\ x.v = v /\ s \in Walks /\ s.depth \in Nat /\ s.active \in [BVars -> Seq(Borrow)]
  BY DEF Met, BorrowOK, Walks
<1>2. c = [s EXCEPT !.active = a]
  BY DEF Forget
<1>3. a \in [BVars -> Seq(Borrow)] /\ a[v] = <<>> /\ \A w \in BVars : w # v => a[w] = s.active[w]
  BY <1>1
<1> HIDE DEF a, c
<1>4. c \in Walks /\ c.active = a /\ c.hist = s.hist /\ c.depth = s.depth /\ c.rejected = s.rejected
  BY <1>1, <1>2, <1>3 DEF Walks
<1>5. t \in Walks /\ t.hist = Append(s.hist, x) /\ t.active = a /\ t.depth = s.depth /\ t.rejected = s.rejected
  BY <1>1, <1>4, SawIs
<1> HIDE DEF x, t
<1>6. ~Denied(s, x) /\ t.depth = s.depth + Opens(x.e) /\ t.depth \in Int /\ s.depth <= t.depth
  BY <1>1, <1>5, OpensIs DEF Denied
<1>7. ASSUME NEW w \in BVars PROVE Held(t.active[w]) = HeldAfter(s, x, w, t.depth) /\ Alone(t.active[w])
  <2>1. CASE w = v
    <3>1. t.active[w] = <<>>
      BY <1>3, <1>5, <2>1
    <3>2. Held(t.active[w]) = {} /\ Alone(t.active[w])
      BY <3>1 DEF Held, Alone
    <3>3. HeldAfter(s, x, w, t.depth) = {}
      BY <1>1, <2>1 DEF HeldAfter
    <3> QED BY <3>2, <3>3
  <2>2. CASE w # v
    <3>1. {p \in Held(s.active[w]) : p[2] <= t.depth} = Held(s.active[w]) /\ Alone(s.active[w])
      BY <1>6, NoneEnds DEF BorrowOK
    <3>2. HeldAfter(s, x, w, t.depth) = {p \in Held(s.active[w]) : p[2] <= t.depth}
      BY <1>1, <2>2 DEF HeldAfter
    <3> QED BY <1>3, <1>5, <2>2, <3>1, <3>2
  <2> QED BY <2>1, <2>2
<1>8. BorrowOK(t)
  BY <1>1, <1>5, <1>6, <1>7, MeetOK
<1> QED BY <1>8 DEF t, c

\* A condition: its borrow, in a scope of its own, is gone after it.
LEMMA CondOK ==
    ASSUME NEW s, BorrowOK(s), NEW v \in BVars
    PROVE  BorrowOK(ExitBorrowScope(TryImmutableBorrow(EnterBorrowScope(Saw(s, "cond", v)), v)))
<1> DEFINE b == Saw(s, "cond", v)
           c == EnterBorrowScope(b)
           u == TryImmutableBorrow(c, v)
           x == [e |-> "cond", v |-> v]
           t == ExitBorrowScope(u)
           new == [mut |-> FALSE, depth |-> c.depth]
           mutable == \E i \in DOMAIN c.active[v] : c.active[v][i].mut
<1>1. x \in Met /\ x.e = "cond" /\ x.v = v /\ s \in Walks /\ s.depth \in Nat /\ \A w \in BVars : s.active[w] \in Seq(Borrow) /\ Alone(s.active[w])
  BY DEF Met, BorrowOK, Walks
<1>2. b \in Walks /\ b.hist = Append(s.hist, x) /\ b.active = s.active /\ b.depth = s.depth /\ b.rejected = s.rejected
  BY <1>1, SawIs
<1> HIDE DEF b
<1>3. c \in Walks /\ c.hist = Append(s.hist, x) /\ c.active = s.active /\ c.depth = s.depth + 1 /\ c.rejected = s.rejected
  BY <1>2, EnterIs
<1> HIDE DEF c
<1>4. mutable <=> Denied(s, x)
  BY <1>3, AskedIs
<1>5. (Denied(s, x) => u = Reject(c)) /\ (~Denied(s, x) => u = AddBorrow(c, v, FALSE))
  BY <1>4 DEF TryImmutableBorrow
<1> HIDE DEF u, x
<1>6. u \in Walks /\ u.hist = c.hist /\ u.depth = c.depth /\ (\A w \in BVars : w # v => u.active[w] = c.active[w])
      /\ (u.active[v] = c.active[v] \/ (~mutable /\ u.active[v] = Append(c.active[v], new)))
      /\ u.rejected = (IF Denied(s, x) THEN c.rejected \cup {Len(c.hist)} ELSE c.rejected) /\ new \in Borrow
  <2>1. new \in Borrow
    BY <1>3 DEF Borrow, Walks
  <2>2. CASE Denied(s, x)
    BY <1>3, <1>5, <2>1, <2>2, RejectIs
  <2>3. CASE ~Denied(s, x)
    <3>1. u = AddBorrow(c, v, FALSE) /\ FALSE \in BOOLEAN
      BY <1>5, <2>3
    <3>2. u \in Walks /\ u.hist = c.hist /\ u.depth = c.depth /\ u.rejected = c.rejected
          /\ u.active[v] = Append(c.active[v], new) /\ \A w \in BVars : w # v => u.active[w] = c.active[w]
      BY <1>3, <3>1, AddIs
    <3> HIDE DEF new, mutable
    <3> QED BY <1>4, <2>1, <2>3, <3>2
  <2> QED BY <2>2, <2>3
<1>7. u.depth > 0 /\ u.depth - 1 = s.depth /\ u.depth = s.depth + 1 /\ u.depth \in Int
  BY <1>1, <1>3, <1>6
<1>8. t \in Walks /\ t.hist = Append(s.hist, x) /\ t.depth = s.depth
      /\ t.rejected = (IF Denied(s, x) THEN s.rejected \cup {Len(t.hist)} ELSE s.rejected)
      /\ \A w \in BVars : t.active[w] = Outside(u.active[w], u.depth)
  BY <1>3, <1>6, <1>7, ExitIs
<1> HIDE DEF t
<1>9. ASSUME NEW w \in BVars PROVE Held(t.active[w]) = HeldAfter(s, x, w, t.depth) /\ Alone(t.active[w])
  <2> DEFINE bs == s.active[w]
             us == u.active[w]
  <2>1. bs \in Seq(Borrow) /\ Alone(bs) /\ c.active[w] = bs
    BY <1>1, <1>3
  <2>2. HeldAfter(s, x, w, t.depth) = {p \in Held(bs) : p[2] <= t.depth}
    BY <1>1 DEF HeldAfter
  <2>3. us = bs \/ (us = Append(bs, new) /\ ~\E i \in DOMAIN bs : bs[i].mut)
    BY <1>3, <1>6
  <2>4. new \in Borrow /\ ~new.mut /\ new.depth = u.depth
    BY <1>6
  <2>5. t.active[w] = Outside(us, u.depth)
    BY <1>8
  <2> HIDE DEF bs, us, new
  <2>6. us \in Seq(Borrow) /\ Alone(us) /\ (Held(us) = Held(bs) \/ Held(us) = Held(bs) \cup {<<KindOf(new), new.depth>>})
    <3>1. CASE us = bs
      BY <2>1, <3>1
    <3>2. CASE us = Append(bs, new) /\ ~\E i \in DOMAIN bs : bs[i].mut
      BY <2>1, <2>4, <3>2, Appended, AloneAppended, HeldAppended
    <3> QED BY <2>3, <3>1, <3>2
  <2>7. Held(t.active[w]) = {p \in Held(us) : p[2] < u.depth} /\ Alone(t.active[w])
    BY <1>7, <2>5, <2>6, OutsideIs, AloneOutside
  <2>8. \A p \in Held(bs) : p[2] < u.depth <=> p[2] <= t.depth
    BY <1>1, <1>7, <1>8, <2>1, HeldDepths
  <2>9. ~(<<KindOf(new), new.depth>>[2] < u.depth)
    BY <1>7, <2>4
  <2>10. {p \in Held(us) : p[2] < u.depth} = {p \in Held(bs) : p[2] <= t.depth}
    BY <2>6, <2>8, <2>9
  <2> QED BY <2>2, <2>7, <2>10
<1>10. t.depth = s.depth + Opens(x.e)
  BY <1>1, <1>8, OpensIs
<1>11. BorrowOK(t)
  BY <1>1, <1>8, <1>9, <1>10, MeetOK
<1> QED BY <1>11 DEF t, u, c, b

\* The walk starts with nothing met.
LEMMA BorrowStarts == BorrowInit => BorrowOK(bw)
<1> SUFFICES ASSUME BorrowInit PROVE BorrowOK(bw)
  OBVIOUS
<1> DEFINE h == bw.hist
<1>1. bw \in Walks /\ bw.hist = <<>> /\ bw.depth = 0 /\ bw.rejected = {} /\ \A v \in BVars : bw.active[v] = <<>>
  BY DEF BorrowInit, Walks
<1>2. h \in Seq(Met) /\ Len(h) = 0
  BY <1>1
<1> HIDE DEF h
<1>3. DepthIn(h)[Len(h)] = 0
  BY <1>2, DepthIs
<1>4. ConflictsIn(h) = {}
  <2>1. PICK f : Seen(h, f) /\ ConflictsIn(h) = f[Len(h)]
    BY <1>2, ConflictsAre
  <2> QED BY <1>2, <2>1 DEF Seen
<1>5. \A v : Recorded(h, v) = {}
  <2>1. 1..Len(h) = {}
    BY <1>2
  <2> QED BY <2>1 DEF Recorded
<1>6. \A v \in BVars : Held(bw.active[v]) = {} /\ Alone(bw.active[v])
  <2>1. Held(<<>>) = {} /\ Alone(<<>>)
    BY DEF Held, Alone
  <2> QED BY <1>1, <2>1
<1> QED BY <1>1, <1>3, <1>4, <1>5, <1>6 DEF BorrowOK, h

\* Every step of it keeps the invariant.
LEMMA BorrowSteps == BorrowOK(bw) /\ [BorrowNext]_bw => BorrowOK(bw')
<1> SUFFICES ASSUME BorrowOK(bw), [BorrowNext]_bw PROVE BorrowOK(bw')
  OBVIOUS
<1>1. CASE bw' = bw
  BY <1>1
<1>2. ASSUME NEW v \in BVars, CheckBorrows(v) PROVE BorrowOK(bw')
  BY <1>2, UseOK DEF CheckBorrows
<1>3. ASSUME NEW v \in BVars, CheckBorrowExpr(v) PROVE BorrowOK(bw')
  BY <1>3, MutOK DEF CheckBorrowExpr
<1>4. ASSUME NEW v \in BVars, CheckCondition(v) PROVE BorrowOK(bw')
  BY <1>4, CondOK DEF CheckCondition
<1>5. ASSUME NEW v \in BVars, OpenBlock(v) PROVE BorrowOK(bw')
  BY <1>5, OpenOK DEF OpenBlock
<1>6. ASSUME NEW v \in BVars, CloseBlock(v) PROVE BorrowOK(bw')
  BY <1>6, CloseOK DEF CloseBlock
<1>7. ASSUME NEW v \in BVars, NEW w \in BVars, CheckLet(v, w) PROVE BorrowOK(bw')
  <2> DEFINE c == TryImmutableBorrow(Saw(bw, "use", w), w)
  <2>1. bw' = Saw(Forget(c, v), "bind", v)
    BY <1>7 DEF CheckLet
  <2>2. BorrowOK(c)
    BY UseOK
  <2> HIDE DEF c
  <2> QED BY <2>1, <2>2, BindOK
<1> QED BY <1>1, <1>2, <1>3, <1>4, <1>5, <1>6, <1>7 DEF BorrowNext

\* BorrowsSound for every function: any variables, any nesting, any number of events.
\* The borrow checker reports exactly the borrows that conflict with one in force, also
\* after earlier errors, rebinding and the end of inner scopes, and what it records for
\* a variable is never a mutable borrow beside another.
THEOREM BorrowsAreSound == BorrowSpec => []BorrowsSound
<1>1. BorrowInit => BorrowOK(bw)
  BY BorrowStarts
<1>2. BorrowOK(bw) /\ [BorrowNext]_bw => BorrowOK(bw)'
  BY BorrowSteps
<1>3. BorrowOK(bw) => BorrowsSound
  BY DEF BorrowOK, BorrowsSound, ReportsConflicts, MutableIsAlone, Alone
<1> QED BY <1>1, <1>2, <1>3, PTL DEF BorrowSpec

-----------------------------------------------------------------------------
\* Matches.

\* The check at arm i: the patterns it has covered are those of the arms so far as
\* long as none is a wildcard; once one is, it says so, and errors are arms after it.
Arm == [p : STRING, guard : BOOLEAN]
Matching == [ty : MatchedTypes, arms : Seq(Arm), i : Nat, covered : SUBSET STRING, wild : BOOLEAN,
             errs : SUBSET Nat, done : BOOLEAN]
WildBefore(s, k) == \E j \in 1..(k - 1) : j \in DOMAIN s.arms /\ IsWild(s.arms[j].p)
Accepts(s) == \/ s.wild
              \/ EffectiveType(s.ty, s.arms) = "bool" /\ Bools \subseteq s.covered
              \/ EffectiveType(s.ty, s.arms) = "enum" /\ Variants \subseteq s.covered
MatchOK(s) ==
    /\ s \in Matching
    /\ s.i \in 1..(Len(s.arms) + 1)
    /\ s.wild <=> WildBefore(s, s.i)
    /\ \A c \in s.covered : \E j \in 1..(s.i - 1) : s.arms[j].p = c
    /\ ~s.wild => \A j \in 1..(s.i - 1) : s.arms[j].p \in s.covered \cup {"cond"}
    /\ \A k \in s.errs \ {Missing} : k \in DOMAIN s.arms /\ WildBefore(s, k)
    /\ IF s.done THEN s.i = Len(s.arms) + 1 /\ (Missing \in s.errs <=> ~Accepts(s)) ELSE Missing \notin s.errs

\* An arm that is looked at.
LEMMA ArmOK ==
    ASSUME NEW s, NEW t, MatchOK(s), s.i <= Len(s.arms),
           t = LET p == s.arms[s.i].p
               IN  IF s.wild THEN [s EXCEPT !.i = @ + 1, !.errs = @ \cup {s.i}]
                   ELSE [s EXCEPT !.i = @ + 1, !.wild = IsWild(p), !.covered = @ \cup ({p} \ {"cond"})]
    PROVE  MatchOK(t)
<1> DEFINE p == s.arms[s.i].p
           n == s.i
<1>1. s \in Matching /\ n \in DOMAIN s.arms /\ n \in Nat /\ n # 0 /\ p \in STRING /\ DOMAIN s.arms = 1..Len(s.arms) /\ Len(s.arms) \in Nat
  <2>1. s \in Matching /\ n \in Nat /\ n # 0 /\ s.arms \in Seq(Arm)
    BY DEF MatchOK, Matching
  <2>2. n \in DOMAIN s.arms /\ DOMAIN s.arms = 1..Len(s.arms) /\ Len(s.arms) \in Nat
    BY <2>1
  <2>3. s.arms[n] \in Arm
    BY <2>1, <2>2
  <2> QED BY <2>1, <2>2, <2>3 DEF Arm
<1>2. ~s.done
  BY <1>1 DEF MatchOK
<1>3. IsWild(p) \in BOOLEAN
  BY DEF IsWild
<1>4. t.ty = s.ty /\ t.arms = s.arms /\ t.i = n + 1 /\ t.done = s.done /\ t \in Matching
      /\ (s.wild => t.errs = s.errs \cup {n} /\ t.wild = s.wild /\ t.covered = s.covered)
      /\ (~s.wild => t.errs = s.errs /\ t.wild = IsWild(p) /\ t.covered = s.covered \cup ({p} \ {"cond"}))
  <2> HIDE DEF p, n
  <2>1. CASE s.wild
    <3>1. t = [s EXCEPT !.i = n + 1, !.errs = s.errs \cup {n}]
      BY <2>1 DEF n
    <3>2. n + 1 \in Nat /\ s.errs \cup {n} \in SUBSET Nat
      BY <1>1 DEF Matching
    <3> QED BY <1>1, <2>1, <3>1, <3>2 DEF Matching
  <2>2. CASE ~s.wild
    <3> DEFINE c == s.covered \cup ({p} \ {"cond"})
    <3>1. t = [s EXCEPT !.i = n + 1, !.wild = IsWild(p), !.covered = c]
      BY <2>2 DEF n, p
    <3>2. n + 1 \in Nat /\ c \in SUBSET STRING
      BY <1>1 DEF Matching
    <3> HIDE DEF c
    <3>3. t.ty = s.ty /\ t.arms = s.arms /\ t.i = n + 1 /\ t.done = s.done /\ t \in Matching /\ t.errs = s.errs /\ t.wild = IsWild(p) /\ t.covered = c
      BY <1>1, <1>3, <3>1, <3>2 DEF Matching
    <3> QED BY <2>2, <3>3 DEF c
  <2> QED BY <2>1, <2>2
<1> HIDE DEF p, n
<1>5. (n + 1) - 1 = n /\ n + 1 \in 1..(Len(s.arms) + 1) /\ n \in 1..n /\ (\A j \in 1..n : j = n \/ j \in 1..(n - 1)) /\ \A j \in 1..(n - 1) : j \in 1..n
  BY <1>1
<1>6. WildBefore(t, n + 1) <=> WildBefore(s, n) \/ IsWild(p)
  BY <1>1, <1>4, <1>5 DEF WildBefore, p, n
<1>7. t.wild <=> WildBefore(t, t.i)
  BY <1>4, <1>6, <1>3 DEF MatchOK, n
<1>8. \A c \in t.covered : \E j \in 1..(t.i - 1) : t.arms[j].p = c
  <2>1. \A c \in s.covered : \E j \in 1..(n - 1) : s.arms[j].p = c
    BY DEF MatchOK, n
  <2>2. \A c \in t.covered : c \in s.covered \/ c = p
    BY <1>4
  <2>3. s.arms[n].p = p
    BY DEF p, n
  <2> QED BY <1>4, <1>5, <2>1, <2>2, <2>3
<1>9. ~t.wild => \A j \in 1..(t.i - 1) : t.arms[j].p \in t.covered \cup {"cond"}
  <2>1. ~s.wild => \A j \in 1..(n - 1) : s.arms[j].p \in s.covered \cup {"cond"}
    BY DEF MatchOK, n
  <2>2. ~t.wild => ~s.wild
    BY <1>4
  <2>3. s.arms[n].p = p
    BY DEF p, n
  <2> QED BY <1>4, <1>5, <2>1, <2>2, <2>3
<1>10. \A k \in t.errs \ {Missing} : k \in DOMAIN t.arms /\ WildBefore(t, k)
  <2>1. \A k \in s.errs \ {Missing} : k \in DOMAIN s.arms /\ WildBefore(s, k)
    BY DEF MatchOK
  <2>2. \A k : WildBefore(t, k) <=> WildBefore(s, k)
    BY <1>4 DEF WildBefore
  <2>3. s.wild => WildBefore(s, n)
    BY DEF MatchOK, n
  <2>4. \A k \in t.errs : k \in s.errs \/ (s.wild /\ k = n)
    BY <1>4
  <2> QED BY <1>1, <1>4, <2>1, <2>2, <2>3, <2>4
<1>11. ~t.done /\ Missing \notin t.errs
  BY <1>1, <1>2, <1>4 DEF MatchOK, Missing
<1> QED BY <1>4, <1>5, <1>7, <1>8, <1>9, <1>10, <1>11 DEF MatchOK

\* The verdict.
LEMMA VerdictOK ==
    ASSUME NEW s, NEW t, MatchOK(s), s.i > Len(s.arms), ~s.done,
           t = [s EXCEPT !.done = TRUE, !.errs = IF Accepts(s) THEN @ ELSE @ \cup {Missing}]
    PROVE  MatchOK(t)
<1>1. s \in Matching /\ Len(s.arms) \in Nat /\ s.i = Len(s.arms) + 1 /\ Missing \in Nat
  BY DEF MatchOK, Matching, Missing
<1> DEFINE e == IF Accepts(s) THEN s.errs ELSE s.errs \cup {Missing}
<1>2. e \in SUBSET Nat
  BY <1>1 DEF Matching
<1>3. t = [s EXCEPT !.done = TRUE, !.errs = e]
  OBVIOUS
<1>4. (Missing \in e <=> ~Accepts(s)) /\ e \ {Missing} = s.errs \ {Missing}
  BY DEF MatchOK
<1> HIDE DEF e
<1>5. t.ty = s.ty /\ t.arms = s.arms /\ t.i = s.i /\ t.wild = s.wild /\ t.covered = s.covered /\ t.done = TRUE /\ t.errs = e /\ t \in Matching
  BY <1>1, <1>2, <1>3 DEF Matching
<1>6. (Accepts(t) <=> Accepts(s)) /\ \A k : WildBefore(t, k) <=> WildBefore(s, k)
  BY <1>5 DEF Accepts, WildBefore
<1>7. s.i \in 1..(Len(s.arms) + 1) /\ (s.wild <=> WildBefore(s, s.i))
      /\ (\A c \in s.covered : \E j \in 1..(s.i - 1) : s.arms[j].p = c)
      /\ (~s.wild => \A j \in 1..(s.i - 1) : s.arms[j].p \in s.covered \cup {"cond"})
      /\ (\A k \in s.errs \ {Missing} : k \in DOMAIN s.arms /\ WildBefore(s, k))
  BY DEF MatchOK
<1>8. \A k \in t.errs \ {Missing} : k \in DOMAIN t.arms /\ WildBefore(t, k)
  BY <1>4, <1>5, <1>6, <1>7
<1>9. t.wild <=> WildBefore(t, t.i)
  BY <1>5, <1>6, <1>7
<1>10. t.done /\ t.i = Len(t.arms) + 1 /\ (Missing \in t.errs <=> ~Accepts(t))
  BY <1>1, <1>4, <1>5, <1>6
<1>11. (\A c \in t.covered : \E j \in 1..(t.i - 1) : t.arms[j].p = c)
       /\ (~t.wild => \A j \in 1..(t.i - 1) : t.arms[j].p \in t.covered \cup {"cond"}) /\ t.i \in 1..(Len(t.arms) + 1)
  BY <1>5, <1>7
<1> QED BY <1>5, <1>8, <1>9, <1>10, <1>11 DEF MatchOK

\* What the invariant says of the verdict.
LEMMA VerdictIsRight == MatchOK(mx) => MatchSound
<1> SUFFICES ASSUME MatchOK(mx) PROVE MatchSound
  OBVIOUS
<1> DEFINE T == EffectiveType(mx.ty, mx.arms)
           n == Len(mx.arms)
           V == TheValues
<1>1. mx \in Matching /\ n \in Nat /\ DOMAIN mx.arms = 1..n
  BY DEF MatchOK, Matching
<1>2. T = "bool" => V = Bools
  BY DEF TheValues, ValuesOf
<1>3. T = "enum" => V = Variants
  BY DEF TheValues, ValuesOf
<1>4. \A k : WildBefore(mx, k) /\ ~Guarded => \E j \in 1..(k - 1) : j \in DOMAIN mx.arms /\ mx.arms[j].p = "_"
  BY DEF WildBefore, Guarded, IsWild
<1>5. mx.done => (n + 1) - 1 = n /\ mx.i = n + 1 /\ mx.i - 1 = n
  BY <1>1 DEF MatchOK
<1> HIDE DEF T, n, V
<1>6. AcceptedIsTotal
  <2> SUFFICES ASSUME mx.done, Missing \notin mx.errs, ~Guarded, NEW v \in V
               PROVE  \E i \in DOMAIN mx.arms : Taken(mx.arms[i], v)
    BY DEF AcceptedIsTotal, V
  <2>1. Accepts(mx)
    BY DEF MatchOK
  <2>2. CASE mx.wild
    <3>1. WildBefore(mx, mx.i)
      BY <2>2 DEF MatchOK
    <3>2. PICK j \in 1..(mx.i - 1) : j \in DOMAIN mx.arms /\ mx.arms[j].p = "_"
      BY <1>4, <3>1
    <3> QED BY <3>2 DEF Taken
  <2>3. CASE ~mx.wild
    <3>1. v \in mx.covered
      BY <1>2, <1>3, <2>1, <2>3 DEF Accepts, T
    <3>2. PICK j \in 1..(mx.i - 1) : mx.arms[j].p = v
      BY <3>1 DEF MatchOK
    <3>3. j \in DOMAIN mx.arms
      BY <1>1, <1>5, <3>2
    <3> QED BY <3>2, <3>3 DEF Taken
  <2> QED BY <2>2, <2>3
<1>7. UnreachableIsReal
  <2> SUFFICES ASSUME ~Guarded, NEW i \in mx.errs \ {Missing}, NEW v \in V
               PROVE  \E j \in 1..(i - 1) : Taken(mx.arms[j], v)
    BY DEF UnreachableIsReal, V
  <2>1. WildBefore(mx, i)
    BY DEF MatchOK
  <2>2. PICK j \in 1..(i - 1) : mx.arms[j].p = "_"
    BY <1>4, <2>1
  <2> QED BY <2>2 DEF Taken
<1>8. TotalIsAccepted
  <2> SUFFICES ASSUME mx.done, T \in {"bool", "enum"}, \A v \in V : \E i \in DOMAIN mx.arms : Taken(mx.arms[i], v)
               PROVE  Missing \notin mx.errs
    BY DEF TotalIsAccepted, V, T
  <2>1. SUFFICES ASSUME ~mx.wild PROVE Accepts(mx)
    BY DEF MatchOK, Accepts
  <2>2. \A j \in 1..n : mx.arms[j].p # "_"
    <3>1. ~WildBefore(mx, mx.i)
      BY <2>1 DEF MatchOK
    <3> QED BY <1>1, <1>5, <3>1 DEF WildBefore, IsWild
  <2>3. \A j \in 1..n : mx.arms[j].p \in mx.covered \cup {"cond"}
    BY <1>5, <2>1 DEF MatchOK
  <2>4. \A v \in V : v # "cond"
    BY <1>2, <1>3 DEF Bools, Variants
  <2>5. V \subseteq mx.covered
    BY <1>1, <2>2, <2>3, <2>4 DEF Taken
  <2> QED BY <1>2, <1>3, <2>5 DEF Accepts, T
<1> QED BY <1>6, <1>7, <1>8 DEF MatchSound

\* MatchSound for any list of arms.  A match that is accepted leaves no value out, one
\* over a bool or an enum that leaves none out is accepted, and an arm is called
\* unreachable only when every value is taken before it, guards and tuple patterns
\* apart.
THEOREM MatchesAreSound == MatchSpec => []MatchSound
<1>1. MatchInit => MatchOK(mx)
  <2> SUFFICES ASSUME NEW t \in MatchedTypes, NEW a \in Arms, mx = MatchStart(t, a) PROVE MatchOK(mx)
    BY DEF MatchInit
  <2>1. a \in Seq(Arm) /\ Len(a) \in Nat
    BY ArmsAreLists DEF Arm
  <2>2. mx.ty = t /\ mx.arms = a /\ mx.i = 1 /\ mx.covered = {} /\ mx.wild = FALSE /\ mx.errs = {} /\ mx.done = FALSE /\ mx \in Matching
    BY <2>1 DEF MatchStart, Matching
  <2>3. 1..(mx.i - 1) = {} /\ mx.i \in 1..(Len(a) + 1)
    BY <2>1, <2>2
  <2> QED BY <2>2, <2>3 DEF MatchOK, WildBefore
<1>2. MatchOK(mx) /\ [MatchNext]_mx => MatchOK(mx)'
  <2> SUFFICES ASSUME MatchOK(mx), [MatchNext]_mx PROVE MatchOK(mx')
    BY DEF MatchOK, WildBefore, Accepts
  <2>1. CASE mx' = mx
    BY <2>1
  <2>2. CASE ProcessArm
    BY <2>2, ArmOK DEF ProcessArm
  <2>3. CASE CheckMatchExhaustive
    <3>1. IsExhaustive(EffectiveType(mx.ty, mx.arms)) <=> Accepts(mx)
      BY DEF IsExhaustive, Accepts, CheckBoolExhaustive, CheckEnumExhaustive
    <3> QED BY <2>3, <3>1, VerdictOK DEF CheckMatchExhaustive
  <2> QED BY <2>1, <2>2, <2>3 DEF MatchNext
<1>3. MatchOK(mx) => MatchSound
  BY VerdictIsRight
<1> QED BY <1>1, <1>2, <1>3, PTL DEF MatchSpec

-----------------------------------------------------------------------------
\* Types.

\* Run-time tags, and the operators.
Tags == {INT, FLOAT, STR, BOOL, VOID, Stuck}
Ops == Arithmetic \cup Comparison \cup {Coalesce}

\* An operator on known types has a known type.
LEMMA InferIs ==
    ASSUME NEW op \in Ops, NEW l \in ValueTypes, NEW r \in ValueTypes
    PROVE  InferBinop(op, l, r) \in ValueTypes
BY DEF InferBinop, ValueTypes, Scalars, Ops, Arithmetic, Comparison, Coalesce, Unwrap, OptTypes, NoType, VOID, INT, FLOAT, STR, BOOL, OptInt, OptStr

\* An operator gives a value or is stuck.
LEMMA EmitIs ==
    ASSUME NEW op \in Ops, NEW l \in Tags, NEW r \in Tags
    PROVE  BinopTag(op, l, r) \in Tags
BY DEF BinopTag, Tags, Ops, Arithmetic, Comparison, Coalesce

\* A value that conforms to a type that is no optional has that type's tag.
LEMMA ConformsIs ==
    ASSUME NEW tag \in Tags \ {Stuck}, NEW t \in ValueTypes, Conforms(tag, t)
    PROVE  t \notin OptTypes => tag = t
BY DEF Conforms, ValueTypes, Scalars, OptTypes, NoType, VOID, INT, FLOAT, STR, BOOL, OptInt, OptStr

\* The rules of the checker and of lowering agree with what the code computes.
LEMMA BinSound ==
    ASSUME NEW op \in Ops, NEW l \in ValueTypes, NEW r \in ValueTypes, NEW x \in Tags \ {Stuck}, NEW y \in Tags \ {Stuck},
           Conforms(x, l), Conforms(y, r), ValidateBinop(op, l, r), ~Unsound(op, l, r)
    PROVE  BinopTag(op, x, y) # Stuck /\ Conforms(BinopTag(op, x, y), InferBinop(op, l, r))
<1>1. l # NoType /\ r # NoType /\ Stuck \notin {x, y}
  BY DEF ValueTypes, Scalars, OptTypes, NoType, VOID, INT, FLOAT, STR, BOOL, OptInt, OptStr
<1>2. (l \notin OptTypes => x = l) /\ (r \notin OptTypes => y = r)
  BY ConformsIs
<1>3. CASE op \in Arithmetic
  <2>1. op \notin Comparison /\ op # Coalesce
    BY <1>3 DEF Arithmetic, Comparison, Coalesce
  <2>0. op # "==" /\ op # "<"
    BY <2>1 DEF Comparison
  <2>2. BothNumeric(l, r) \/ (op = "+" /\ l = STR)
    BY <1>1, <2>1 DEF ValidateBinop
  <2>3. CASE BothNumeric(l, r)
    <3>1. x = l /\ y = r
      BY <1>2, <2>3 DEF BothNumeric, Numeric, OptTypes, INT, FLOAT, OptInt, OptStr
    <3>2. BinopTag(op, x, y) = IF FLOAT \in {l, r} THEN FLOAT ELSE INT
      BY <1>1, <1>3, <2>0, <2>1, <2>3, <3>1 DEF BinopTag
    <3>3. InferBinop(op, l, r) = IF FLOAT \in {l, r} THEN FLOAT ELSE INT
      BY <2>1, <2>3 DEF InferBinop, BothNumeric, Numeric, INT, FLOAT
    <3> QED BY <3>2, <3>3 DEF Conforms, INT, FLOAT, Stuck
  <2>4. CASE op = "+" /\ l = STR
    <3>1. x = STR
      BY <1>2, <2>4 DEF OptTypes, STR, OptInt, OptStr
    <3>2. BinopTag(op, x, y) = STR
      BY <1>1, <1>3, <2>0, <2>1, <2>4, <3>1 DEF BinopTag, BothNumeric, Numeric, STR, INT, FLOAT
    <3>3. r # FLOAT
      BY <2>4 DEF Unsound
    <3>4. InferBinop(op, l, r) = STR
      BY <2>1, <2>4, <3>3 DEF InferBinop, STR, INT, FLOAT
    <3> QED BY <3>2, <3>4 DEF Conforms, STR, Stuck
  <2> QED BY <2>2, <2>3, <2>4
<1>4. CASE op \in Comparison
  <2>1. op \notin Arithmetic /\ op # Coalesce /\ op \in {"==", "<"}
    BY <1>4 DEF Arithmetic, Comparison, Coalesce
  <2>2. l = r \/ BothNumeric(l, r)
    BY <1>1, <2>1 DEF ValidateBinop
  <2>3. Comparable(x, y)
    <3>1. CASE l \in OptTypes /\ l = r
      <4>1. \A u \in {x, y} : u \in {VOID, Unwrap(l)}
        BY <1>1, <3>1 DEF Conforms, OptTypes, Tags, VOID, INT, FLOAT, STR, BOOL, OptInt, OptStr, Stuck
      <4> QED BY <4>1 DEF Comparable
    <3>2. CASE ~(l \in OptTypes /\ l = r)
      BY <1>2, <2>2, <3>2 DEF Comparable, BothNumeric, Numeric, OptTypes, INT, FLOAT, OptInt, OptStr
    <3> QED BY <3>1, <3>2
  <2>4. op = "<" => STR \notin {x, y}
    <3>1. op = "<" => STR # Unwrap(l) /\ STR # Unwrap(r)
      BY DEF Unsound
    <3>2. \A t \in ValueTypes : \A u : Conforms(u, t) /\ u = STR => Unwrap(t) = STR
      BY DEF Conforms, ValueTypes, Scalars, Unwrap, OptTypes, NoType, VOID, INT, FLOAT, STR, BOOL, OptInt, OptStr
    <3> QED BY <3>1, <3>2
  <2>5. BinopTag(op, x, y) = BOOL
    BY <1>1, <2>1, <2>3, <2>4 DEF BinopTag, Comparison, Coalesce
  <2>6. InferBinop(op, l, r) = BOOL
    BY <1>4 DEF InferBinop
  <2> QED BY <2>5, <2>6 DEF Conforms, BOOL, Stuck
<1>5. CASE op = Coalesce
  <2>1. op \notin Arithmetic /\ op \notin Comparison /\ op # "==" /\ op # "<"
    BY <1>5 DEF Arithmetic, Comparison, Coalesce
  <2>2. BinopTag(op, x, y) = IF x = VOID THEN y ELSE x
    BY <1>1, <1>5, <2>1 DEF BinopTag
  <2>3. InferBinop(op, l, r) = Unwrap(IF l = VOID THEN r ELSE l)
    BY <1>1, <1>5, <2>1 DEF InferBinop
  <2>4. (l \in OptTypes => r = Unwrap(l)) /\ (l = VOID => r \notin OptTypes)
    BY <1>5 DEF Unsound
  <2>5. \A t : t \notin OptTypes => Unwrap(t) = t
    BY DEF Unwrap, OptTypes
  <2>6. CASE l = VOID
    BY <1>2, <2>2, <2>3, <2>4, <2>5, <2>6 DEF Conforms, OptTypes, VOID, OptInt, OptStr
  <2>7. CASE l # VOID /\ l \notin OptTypes
    BY <1>2, <2>2, <2>3, <2>5, <2>7 DEF Conforms
  <2>8. CASE l \in OptTypes
    <3>1. l # VOID /\ Unwrap(l) \notin OptTypes
      BY <2>8 DEF OptTypes, Unwrap, VOID, INT, STR, OptInt, OptStr
    <3>2. y = Unwrap(l)
      BY <1>2, <2>4, <2>8, <3>1
    <3>3. x = VOID \/ x = Unwrap(l)
      BY <2>8, <1>1 DEF Conforms, OptTypes, Tags, VOID, INT, FLOAT, STR, BOOL, OptInt, OptStr, Stuck
    <3> QED BY <2>2, <2>3, <3>1, <3>2, <3>3 DEF Conforms
  <2> QED BY <2>6, <2>7, <2>8
<1> QED BY <1>3, <1>4, <1>5 DEF Ops

\* A value of a type that may be used for another conforms to that one as well.
LEMMA CompatibleConforms ==
    ASSUME NEW t \in ValueTypes, NEW u \in ValueTypes, NEW x \in Tags \ {Stuck}, Conforms(x, t), IsCompatible(t, u)
    PROVE  Conforms(x, u)
<1>1. t # NoType /\ u # NoType
  BY DEF ValueTypes, Scalars, OptTypes, NoType, VOID, INT, FLOAT, STR, BOOL, OptInt, OptStr
<1>2. CASE t = u
  BY <1>2
<1>3. CASE u \in OptTypes /\ t \in {VOID, Unwrap(u)}
  <2>1. t \notin OptTypes
    BY <1>3 DEF OptTypes, Unwrap, VOID, INT, STR, OptInt, OptStr
  <2>2. x = t
    BY <2>1, ConformsIs
  <2> QED BY <1>3, <2>2 DEF Conforms
<1> QED BY <1>1, <1>2, <1>3 DEF IsCompatible

\* Why an accepted program may still go wrong.
Causes == {"shadow", "void"} \cup Ops
\* The states: scopes with their symbols, blocks with their values.
Sym == [v : TVars, t : ValueTypes]
Scope == [parent : Nat, syms : Seq(Sym)]
Frame == [TVars -> Tags \cup {NoType}]
TypeStates == [scopes : Seq(Scope), cur : Nat, vt : [TVars -> ValueTypes \cup {NoType}], env : Seq(Frame),
               reject : BOOLEAN, stuck : BOOLEAN, n : Nat, holes : SUBSET Causes]

\* A scope is younger than its parent, and has a name once.
Tree(c) == \A s \in 1..Len(c.scopes) : c.scopes[s].parent < s
NamedOnce(c) == \A s \in 1..Len(c.scopes) : \A i, j \in DOMAIN c.scopes[s].syms :
                    c.scopes[s].syms[i].v = c.scopes[s].syms[j].v => i = j
\* ch lists the scopes from the global one to the current one, one for each open block,
\* and each has the names that its block has values for.
Chain(c, ch) ==
    LET n == Len(c.env)
    IN  /\ n >= 1 /\ ch \in [1..n -> 1..Len(c.scopes)] /\ ch[1] = 1 /\ ch[n] = c.cur
        /\ c.scopes[1].parent = 0
        /\ \A i, j \in 1..n : i < j => ch[i] < ch[j]
        /\ \A i \in 2..n : c.scopes[ch[i]].parent = ch[i - 1]
        /\ \A i \in 1..n : \A v \in TVars : InScope(c, ch[i], v) <=> c.env[i][v] # NoType
\* A name with a value has a type.
Known(c) == \A i \in 1..Len(c.env) : \A v \in TVars : c.env[i][v] # NoType => c.vt[v] \in ValueTypes
\* Without one of the named causes: nothing is stuck, a name is visible once, has one
\* type, and its value is of that type.
Fits(c, ch, i, v) == /\ Conforms(c.env[i][v], c.vt[v]) /\ c.env[i][v] # Stuck
                     /\ \A k \in DOMAIN c.scopes[ch[i]].syms :
                           c.scopes[ch[i]].syms[k].v = v => c.scopes[ch[i]].syms[k].t = c.vt[v]
                     /\ \A j \in 1..Len(c.env) : j # i => c.env[j][v] = NoType
Clean(c, ch) == c.holes = {} =>
    ~c.stuck /\ \A i \in 1..Len(c.env) : \A v \in TVars : c.env[i][v] # NoType => Fits(c, ch, i, v)
Good(c, ch) == Tree(c) /\ NamedOnce(c) /\ Chain(c, ch) /\ Known(c) /\ Clean(c, ch)
TypedOK(c) == ~c.reject => c \in TypeStates /\ \E ch : Good(c, ch)

\* One element of a sequence is another one.
LEMMA Replaced ==
    ASSUME NEW T, NEW q \in Seq(T), NEW k \in 1..Len(q), NEW z \in T
    PROVE  /\ [q EXCEPT ![k] = z] \in Seq(T) /\ Len([q EXCEPT ![k] = z]) = Len(q) /\ [q EXCEPT ![k] = z][k] = z
           /\ \A i \in 1..Len(q) : i # k => [q EXCEPT ![k] = z][i] = q[i]
OBVIOUS

\* The innermost block with a value for the name.
LEMMA DownIs ==
    ASSUME NEW env \in Seq(Frame), NEW v \in TVars
    PROVE  \E D : /\ FrameOf(env, v) = D[Len(env)] /\ D[0] = 0
                  /\ \A i \in 1..Len(env) : D[i] = IF env[i][v] # NoType THEN i ELSE D[i - 1]
<1> DEFINE n == Len(env)
           Turn(i, s) == IF env[i][v] # NoType THEN i ELSE s
           body == [x \in (1..n) \X Nat |-> Turn(x[1], x[2])]
           G(g) == [i \in 0..n |-> IF i = 0 THEN 0 ELSE IF env[i][v] # NoType THEN i ELSE g[i - 1]]
           K == CHOOSE g : g = G(g)
<1>1. n \in Nat
  OBVIOUS
<1>2. \A i \in 1..n : \A s \in Nat : Turn(i, s) \in Nat /\ body[<<i, s>>] = Turn(i, s)
  BY <1>1
<1>3. LoopBody(n, Nat, body) /\ 0 \in Nat
  <2>1. \A x \in (1..n) \X Nat : x[1] \in 1..n /\ x[2] \in Nat /\ body[x] = Turn(x[1], x[2])
    OBVIOUS
  <2>2. \A i \in 1..n : \A s \in Nat : Turn(i, s) \in Nat
    BY <1>2
  <2>3. \A x \in (1..n) \X Nat : body[x] \in Nat
    <3> HIDE DEF body, Turn
    <3> QED BY <2>1, <2>2
  <2> HIDE DEF Turn
  <2> QED BY <2>3 DEF LoopBody
<1> HIDE DEF body, Turn, n
<1>4. PICK g : LoopStates(n, Nat, 0, body, g)
  BY <1>1, <1>3, LoopRuns
<1>5. g = G(g)
  <2>1. g \in [0..n -> Nat] /\ g[0] = 0 /\ \A i \in 1..n : g[i] = body[<<i, g[i - 1]>>]
    BY <1>4 DEF LoopStates
  <2>2. \A i \in 1..n : i - 1 \in 0..n /\ g[i - 1] \in Nat
    BY <1>1, <2>1
  <2>3. \A i \in 1..n : g[i] = IF env[i][v] # NoType THEN i ELSE g[i - 1]
    BY <1>2, <2>1, <2>2 DEF Turn
  <2>4. \A i \in 0..n : i = 0 \/ i \in 1..n
    BY <1>1
  <2>5. \A i \in 0..n : g[i] = IF i = 0 THEN 0 ELSE IF env[i][v] # NoType THEN i ELSE g[i - 1]
    BY <2>1, <2>3, <2>4
  <2> QED BY <2>1, <2>5
<1>6. K = G(K)
  BY <1>5
<1>7. FrameOf(env, v) = K[n]
  BY DEF FrameOf, n
<1> HIDE DEF K
<1>8. K[0] = 0 /\ \A i \in 1..n : K[i] = IF env[i][v] # NoType THEN i ELSE K[i - 1]
  <2>1. 0 \in 0..n /\ \A i \in 1..n : i \in 0..n /\ i # 0
    BY <1>1
  <2>2. \A i \in 0..n : K[i] = IF i = 0 THEN 0 ELSE IF env[i][v] # NoType THEN i ELSE K[i - 1]
    BY <1>6
  <2> QED BY <2>1, <2>2
<1> QED BY <1>7, <1>8 DEF n

\* FrameOf is a block with a value for the name, or 0 and there is none.
LEMMA FrameIs ==
    ASSUME NEW env \in Seq(Frame), NEW v \in TVars
    PROVE  LET f == FrameOf(env, v)
           IN  /\ f \in 0..Len(env)
               /\ f # 0 => env[f][v] # NoType
               /\ f = 0 => \A i \in 1..Len(env) : env[i][v] = NoType
<1> DEFINE n == Len(env)
<1>1. n \in Nat
  OBVIOUS
<1>2. PICK D : /\ FrameOf(env, v) = D[n] /\ D[0] = 0
               /\ \A i \in 1..n : D[i] = IF env[i][v] # NoType THEN i ELSE D[i - 1]
  BY DownIs
<1> HIDE DEF n
<1> DEFINE S == {i \in 0..n : /\ D[i] \in 0..i /\ (D[i] # 0 => env[D[i]][v] # NoType)
                              /\ (D[i] = 0 => \A j \in 1..i : env[j][v] = NoType)}
<1>3. 0 \in S
  BY <1>1, <1>2
<1>4. ASSUME NEW i \in 1..n, i - 1 \in S PROVE i \in S
  <2>1. /\ D[i - 1] \in 0..(i - 1) /\ (D[i - 1] # 0 => env[D[i - 1]][v] # NoType)
        /\ (D[i - 1] = 0 => \A j \in 1..(i - 1) : env[j][v] = NoType)
    BY <1>4
  <2>2. i \in 0..n /\ i \in 0..i /\ i # 0 /\ (\A j \in 1..i : j = i \/ j \in 1..(i - 1)) /\ \A d \in 0..(i - 1) : d \in 0..i
    BY <1>1
  <2>3. CASE env[i][v] # NoType
    <3>1. D[i] = i
      BY <1>2, <2>3
    <3> QED BY <2>2, <2>3, <3>1
  <2>4. CASE env[i][v] = NoType
    <3>1. D[i] = D[i - 1]
      BY <1>2, <2>4
    <3> QED BY <2>1, <2>2, <2>4, <3>1
  <2> QED BY <2>3, <2>4
<1> HIDE DEF S
<1>5. n \in S
  <2>1. n \in Nat
    BY <1>1
  <2>2. \A i \in 0..n : i \in S
    BY <2>1, <1>3, <1>4, UpTo
  <2> QED BY <2>1, <2>2
<1> QED BY <1>2, <1>5 DEF S, n

\* What Lookup computes, for every scope it may start from.
Upward(c, v, U) == U[0] = 0 /\ \A s \in 1..Len(c.scopes) : U[s] = IF InScope(c, s, v) THEN s ELSE U[c.scopes[s].parent]
\* The scope of a name, from any scope on, in a tree of scopes.
LEMMA UpIs ==
    ASSUME NEW c \in TypeStates, Tree(c), NEW v
    PROVE  \E U : Upward(c, v, U) /\ Lookup(c, v) = U[c.cur]
<1> DEFINE n == Len(c.scopes)
           T == [0..n -> Nat]
           Turn(i, f) == [f EXCEPT ![i] = IF InScope(c, i, v) THEN i ELSE f[c.scopes[i].parent]]
           body == [x \in (1..n) \X T |-> Turn(x[1], x[2])]
           zero == [k \in 0..n |-> 0]
           G(g) == [s \in 0..n |-> IF s = 0 THEN 0 ELSE IF InScope(c, s, v) THEN s ELSE g[c.scopes[s].parent]]
           K == CHOOSE g : g = G(g)
<1>1. n \in Nat /\ \A s \in 1..n : c.scopes[s].parent \in 0..(s - 1) /\ c.scopes[s].parent \in 0..n
  <2>1. c.scopes \in Seq(Scope)
    BY DEF TypeStates
  <2>2. n \in Nat /\ \A s \in 1..n : c.scopes[s] \in Scope
    BY <2>1
  <2>3. \A s \in 1..n : c.scopes[s].parent \in Nat
    BY <2>2 DEF Scope
  <2> QED BY <2>2, <2>3 DEF Tree
<1> HIDE DEF n
<1>2. \A i \in 1..n : \A f \in T : Turn(i, f) \in T /\ body[<<i, f>>] = Turn(i, f)
  <2>1. ASSUME NEW i \in 1..n, NEW f \in T PROVE Turn(i, f) \in T
    <3>1. i \in Nat /\ f[c.scopes[i].parent] \in Nat
      BY <1>1
    <3> QED BY <3>1
  <2>2. \A i \in 1..n : \A f \in T : <<i, f>> \in (1..n) \X T /\ <<i, f>>[1] = i /\ <<i, f>>[2] = f
    OBVIOUS
  <2> HIDE DEF T, Turn
  <2> QED BY <2>1, <2>2
<1>3. LoopBody(n, T, body) /\ zero \in T
  <2>1. \A x \in (1..n) \X T : x[1] \in 1..n /\ x[2] \in T /\ body[x] = Turn(x[1], x[2])
    OBVIOUS
  <2>2. \A i \in 1..n : \A f \in T : Turn(i, f) \in T
    BY <1>2
  <2>3. \A x \in (1..n) \X T : body[x] \in T
    <3> HIDE DEF body, Turn, T
    <3> QED BY <2>1, <2>2
  <2>4. zero \in T
    OBVIOUS
  <2> HIDE DEF Turn, T, zero
  <2> QED BY <2>3, <2>4 DEF LoopBody
<1> HIDE DEF body
<1>4. PICK g : LoopStates(n, T, zero, body, g)
  <2> HIDE DEF T, zero
  <2> QED BY <1>1, <1>3, LoopRuns
<1>5. g \in [0..n -> T] /\ g[0] = zero /\ \A i \in 1..n : g[i] = Turn(i, g[i - 1]) /\ g[i - 1] \in T /\ g[i] \in T
  <2>1. g \in [0..n -> T] /\ g[0] = zero /\ \A i \in 1..n : g[i] = body[<<i, g[i - 1]>>]
    BY <1>4 DEF LoopStates
  <2>2. \A i \in 1..n : i - 1 \in 0..n /\ i \in 0..n
    BY <1>1
  <2> HIDE DEF T, Turn, zero
  <2>3. \A i \in 1..n : g[i - 1] \in T /\ g[i] \in T
    BY <2>1, <2>2
  <2> QED BY <1>2, <2>1, <2>3
\* A turn changes its own place only, so what a place is given stays.
<1> DEFINE S == {i \in 0..n : \A k \in 0..i : g[i][k] = g[k][k]}
<1>6. 0 \in S
  BY <1>1
<1>7. ASSUME NEW i \in 1..n, i - 1 \in S PROVE i \in S
  <2>1. i \in 0..n /\ (\A k \in 0..i : k = i \/ k \in 0..(i - 1)) /\ (\A k \in 0..(i - 1) : k \in 0..n /\ k # i)
    BY <1>1
  <2>2. \A k \in 0..(i - 1) : g[i][k] = g[i - 1][k]
    <3>1. g[i] = Turn(i, g[i - 1]) /\ g[i - 1] \in T
      BY <1>5
    <3>2. \A f \in T : \A k \in 0..n : k # i => Turn(i, f)[k] = f[k]
      OBVIOUS
    <3> HIDE DEF T, Turn
    <3> QED BY <2>1, <3>1, <3>2
  <2>3. \A k \in 0..(i - 1) : g[i - 1][k] = g[k][k]
    BY <1>7
  <2> QED BY <2>1, <2>2, <2>3
<1> HIDE DEF S
<1>8. \A i \in 0..n : i \in S
  BY <1>1, <1>6, <1>7, UpTo
<1>9. \A i \in 0..n : \A k \in 0..i : g[i][k] = g[k][k]
  BY <1>8 DEF S
<1> DEFINE U == [s \in 0..n |-> g[s][s]]
<1>10. U = G(U)
  <2>1. U[0] = 0
    BY <1>1, <1>5
  <2>2. ASSUME NEW s \in 1..n PROVE U[s] = IF InScope(c, s, v) THEN s ELSE U[c.scopes[s].parent]
    <3>1. s \in 0..n /\ s - 1 \in 0..n /\ c.scopes[s].parent \in 0..(s - 1) /\ c.scopes[s].parent \in 0..n
      BY <1>1
    <3>2. g[s][s] = IF InScope(c, s, v) THEN s ELSE g[s - 1][c.scopes[s].parent]
      <4>1. g[s] = Turn(s, g[s - 1]) /\ g[s - 1] \in T
        BY <1>5
      <4>2. \A f \in T : Turn(s, f)[s] = IF InScope(c, s, v) THEN s ELSE f[c.scopes[s].parent]
        BY <3>1
      <4> HIDE DEF T, Turn
      <4> QED BY <4>1, <4>2
    <3>3. g[s - 1][c.scopes[s].parent] = U[c.scopes[s].parent] /\ U[s] = g[s][s]
      BY <1>9, <3>1
    <3> QED BY <3>2, <3>3
  <2>3. \A s \in 0..n : s = 0 \/ s \in 1..n
    BY <1>1
  <2> HIDE DEF U
  <2>4. \A s \in 0..n : U[s] = IF s = 0 THEN 0 ELSE IF InScope(c, s, v) THEN s ELSE U[c.scopes[s].parent]
    BY <2>1, <2>2, <2>3
  <2>5. U = [s \in 0..n |-> U[s]]
    BY DEF U
  <2> QED BY <2>4, <2>5
<1>11. K = G(K)
  BY <1>10
<1>12. Lookup(c, v) = K[c.cur]
  BY DEF Lookup, n
<1> HIDE DEF K
<1>13. K[0] = 0 /\ \A s \in 1..n : K[s] = IF InScope(c, s, v) THEN s ELSE K[c.scopes[s].parent]
  <2>1. 0 \in 0..n /\ \A s \in 1..n : s \in 0..n /\ s # 0
    BY <1>1
  <2>2. \A s \in 0..n : K[s] = IF s = 0 THEN 0 ELSE IF InScope(c, s, v) THEN s ELSE K[c.scopes[s].parent]
    BY <1>11
  <2> QED BY <2>1, <2>2
<1> QED BY <1>12, <1>13 DEF Upward, n

\* The scope the checker finds is the scope of the block that holds the value.
LEMMA ScopeIs ==
    ASSUME NEW c \in TypeStates, NEW ch, Tree(c), Chain(c, ch), NEW v \in TVars
    PROVE  LET f == FrameOf(c.env, v)
           IN  Lookup(c, v) = (IF f = 0 THEN 0 ELSE ch[f]) /\ (Lookup(c, v) # 0 <=> f # 0)
<1> DEFINE n == Len(c.env)
<1>1. c.env \in Seq(Frame) /\ n \in Nat /\ n >= 1 /\ ch \in [1..n -> 1..Len(c.scopes)]
  BY DEF TypeStates, Chain
<1>2. PICK U : Upward(c, v, U) /\ Lookup(c, v) = U[c.cur]
  BY UpIs
<1>3. PICK D : /\ FrameOf(c.env, v) = D[n] /\ D[0] = 0
               /\ \A i \in 1..n : D[i] = IF c.env[i][v] # NoType THEN i ELSE D[i - 1]
  BY <1>1, DownIs
<1>4. \A i \in 1..n : InScope(c, ch[i], v) <=> c.env[i][v] # NoType
  BY DEF Chain
<1>5. ch[1] = 1 /\ ch[n] = c.cur /\ c.scopes[1].parent = 0 /\ \A i \in 2..n : c.scopes[ch[i]].parent = ch[i - 1]
  BY DEF Chain
<1> HIDE DEF n
<1>6. \A i \in 1..n : ch[i] \in 1..Len(c.scopes) /\ U[ch[i]] = IF c.env[i][v] # NoType THEN ch[i] ELSE U[c.scopes[ch[i]].parent]
  BY <1>1, <1>2, <1>4 DEF Upward
<1> DEFINE S == {i \in 0..n : i = 0 \/ U[ch[i]] = (IF D[i] = 0 THEN 0 ELSE ch[D[i]])}
<1>7. 0 \in S
  BY <1>1
<1>8. ASSUME NEW i \in 1..n, i - 1 \in S PROVE i \in S
  <2>1. CASE c.env[i][v] # NoType
    <3>1. i # 0 /\ i \in 0..n
      BY <1>1
    <3>2. D[i] = i
      BY <1>3, <2>1
    <3>3. U[ch[i]] = ch[i]
      BY <1>6, <2>1
    <3> QED BY <3>1, <3>2, <3>3
  <2>2. CASE c.env[i][v] = NoType /\ i = 1
    <3>1. D[i] = 0 /\ U[ch[i]] = 0 /\ i \in 0..n
      BY <1>1, <1>2, <1>3, <1>5, <1>6, <2>2 DEF Upward
    <3> QED BY <3>1
  <2>3. CASE c.env[i][v] = NoType /\ i # 1
    <3>1. i \in 2..n /\ i - 1 # 0 /\ i \in 0..n
      BY <1>1, <2>3
    <3>2. D[i] = D[i - 1] /\ U[ch[i]] = U[ch[i - 1]]
      BY <1>3, <1>5, <1>6, <2>3, <3>1
    <3> QED BY <1>8, <3>1, <3>2
  <2> QED BY <2>1, <2>2, <2>3
<1> HIDE DEF S
<1>9. n \in S
  <2>1. n \in Nat
    BY <1>1
  <2>2. \A i \in 0..n : i \in S
    BY <2>1, <1>7, <1>8, UpTo
  <2> QED BY <2>1, <2>2
<1>10. Lookup(c, v) = IF D[n] = 0 THEN 0 ELSE ch[D[n]]
  <2>1. n # 0
    BY <1>1
  <2> QED BY <1>2, <1>5, <1>9, <2>1 DEF S
<1>11. D[n] \in 0..n
  BY <1>1, <1>3, FrameIs DEF n
<1>12. D[n] # 0 => ch[D[n]] # 0
  BY <1>1, <1>11
<1> QED BY <1>3, <1>10, <1>12

\* A name or literal the checker lets pass has a type, and a value, of that type.
LEMMA AtomIs ==
    ASSUME NEW c \in TypeStates, NEW ch, Good(c, ch), NEW x \in AtomsOver(TVars), x.k = "var" => Lookup(c, x.v) # 0
    PROVE  /\ SimpleType(c, x) \in ValueTypes /\ Tag(c.env, x) \in Tags
           /\ c.holes = {} => Tag(c.env, x) # Stuck /\ Conforms(Tag(c.env, x), SimpleType(c, x))
<1>1. CASE x \in {Lit(t) : t \in Scalars \cup {VOID}}
  <2>1. x.k = "lit" /\ x.t \in Scalars \cup {VOID}
    BY <1>1 DEF Lit
  <2>2. SimpleType(c, x) = x.t /\ Tag(c.env, x) = x.t
    BY <2>1 DEF SimpleType, Tag
  <2>3. x.t \in ValueTypes /\ x.t \in Tags /\ x.t # Stuck
    BY <2>1 DEF ValueTypes, Tags, Scalars, VOID, INT, FLOAT, STR, BOOL, Stuck
  <2> QED BY <2>2, <2>3 DEF Conforms
<1>2. CASE x \in {Var(v) : v \in TVars}
  <2>1. x.k = "var" /\ x.v \in TVars
    BY <1>2 DEF Var
  <2> DEFINE v == x.v
             f == FrameOf(c.env, v)
  <2>2. SimpleType(c, x) = c.vt[v] /\ Tag(c.env, x) = ValueOf(c.env, v)
    BY <2>1 DEF SimpleType, Tag
  <2>3. f # 0
    BY <2>1, ScopeIs DEF Good
  <2>4. f \in 1..Len(c.env) /\ c.env[f][v] # NoType
    <3>1. c.env \in Seq(Frame)
      BY DEF TypeStates
    <3> QED BY <2>1, <2>3, <3>1, FrameIs
  <2>5. Tag(c.env, x) = c.env[f][v]
    BY <2>2, <2>3 DEF ValueOf
  <2>6. c.env[f][v] \in Tags
    <3>1. c.env \in Seq(Frame)
      BY DEF TypeStates
    <3>2. c.env[f] \in Frame
      BY <2>4, <3>1
    <3> QED BY <2>1, <2>4, <3>2 DEF Frame
  <2>7. c.vt[v] \in ValueTypes
    BY <2>1, <2>4 DEF Good, Known
  <2>8. c.holes = {} => Fits(c, ch, f, v)
    BY <2>1, <2>4 DEF Good, Clean
  <2> QED BY <2>2, <2>5, <2>6, <2>7, <2>8 DEF Fits
<1> QED BY <1>1, <1>2 DEF AtomsOver

\* The three forms of an expression.
LEMMA ExprForms ==
    ASSUME NEW e \in ExprsOver(TVars)
    PROVE  \/ e \in AtomsOver(TVars) /\ e.k \in {"lit", "var"}
           \/ e.k = "cast" /\ e.a \in AtomsOver(TVars) /\ e.t \in Scalars
           \/ e.k = "bin" /\ e.a \in AtomsOver(TVars) /\ e.b \in AtomsOver(TVars) /\ e.op \in Ops
<1>1. CASE e \in AtomsOver(TVars)
  BY <1>1 DEF AtomsOver, Lit, Var
<1>2. CASE e \in {Cast(a, t) : a \in AtomsOver(TVars), t \in Scalars}
  <2>1. PICK a \in AtomsOver(TVars), t \in Scalars : e = Cast(a, t)
    BY <1>2
  <2> QED BY <2>1 DEF Cast
<1>3. CASE e \in {Bin(op, a, b) : op \in Ops, a, b \in AtomsOver(TVars)}
  <2>1. PICK op \in Ops, a \in AtomsOver(TVars), b \in AtomsOver(TVars) : e = Bin(op, a, b)
    BY <1>3
  <2> QED BY <2>1 DEF Bin
<1> QED BY <1>1, <1>2, <1>3 DEF ExprsOver, Ops

\* An expression the checker accepts has a type; where no operator is used whose type is
\* wrong it has a value, of that type.
LEMMA ExprIs ==
    ASSUME NEW c \in TypeStates, NEW ch, Good(c, ch), NEW e \in ExprsOver(TVars), CheckExpr(c, e)
    PROVE  /\ TypeOf(c, e) \in ValueTypes /\ RunProgram(c.env, e) \in Tags
           /\ c.holes = {} /\ HolesOf(c, e) = {} =>
                RunProgram(c.env, e) # Stuck /\ Conforms(RunProgram(c.env, e), TypeOf(c, e))
<1>1. CASE e \in AtomsOver(TVars) /\ e.k \in {"lit", "var"}
  <2>1. TypeOf(c, e) = SimpleType(c, e) /\ RunProgram(c.env, e) = Tag(c.env, e)
    BY <1>1 DEF TypeOf, RunProgram
  <2>2. e.k = "var" => Lookup(c, e.v) # 0
    BY <1>1 DEF CheckExpr, Atoms
  <2> QED BY <1>1, <2>1, <2>2, AtomIs
<1>2. CASE e.k = "cast" /\ e.a \in AtomsOver(TVars) /\ e.t \in Scalars
  <2>1. TypeOf(c, e) = e.t /\ RunProgram(c.env, e) = (IF Tag(c.env, e.a) = Stuck THEN Stuck ELSE e.t)
    BY <1>2 DEF TypeOf, RunProgram
  <2>2. e.a.k = "var" => Lookup(c, e.a.v) # 0
    BY <1>2 DEF CheckExpr, Atoms
  <2>3. c.holes = {} => Tag(c.env, e.a) # Stuck
    BY <1>2, <2>2, AtomIs
  <2>4. e.t \in ValueTypes /\ e.t \in Tags /\ e.t # Stuck /\ Stuck \in Tags
    BY <1>2 DEF ValueTypes, Tags, Scalars, VOID, INT, FLOAT, STR, BOOL, Stuck
  <2> QED BY <2>1, <2>3, <2>4 DEF Conforms
<1>3. CASE e.k = "bin" /\ e.a \in AtomsOver(TVars) /\ e.b \in AtomsOver(TVars) /\ e.op \in Ops
  <2> DEFINE l == SimpleType(c, e.a)
             r == SimpleType(c, e.b)
             x == Tag(c.env, e.a)
             y == Tag(c.env, e.b)
  <2>1. TypeOf(c, e) = InferBinop(e.op, l, r) /\ RunProgram(c.env, e) = BinopTag(e.op, x, y)
    BY <1>3 DEF TypeOf, RunProgram
  <2>2. (e.a.k = "var" => Lookup(c, e.a.v) # 0) /\ (e.b.k = "var" => Lookup(c, e.b.v) # 0)
    BY <1>3 DEF CheckExpr, Atoms
  <2>3. l \in ValueTypes /\ x \in Tags /\ (c.holes = {} => x # Stuck /\ Conforms(x, l))
    BY <1>3, <2>2, AtomIs
  <2>4. r \in ValueTypes /\ y \in Tags /\ (c.holes = {} => y # Stuck /\ Conforms(y, r))
    BY <1>3, <2>2, AtomIs
  <2>5. ValidateBinop(e.op, l, r)
    BY <1>3 DEF CheckExpr
  <2>6. HolesOf(c, e) = {} => ~Unsound(e.op, l, r)
    BY <1>3 DEF HolesOf
  <2> HIDE DEF l, r, x, y
  <2>7. InferBinop(e.op, l, r) \in ValueTypes /\ BinopTag(e.op, x, y) \in Tags
    BY <1>3, <2>3, <2>4, InferIs, EmitIs
  <2>8. ASSUME c.holes = {}, HolesOf(c, e) = {}
        PROVE  BinopTag(e.op, x, y) # Stuck /\ Conforms(BinopTag(e.op, x, y), InferBinop(e.op, l, r))
    BY <1>3, <2>3, <2>4, <2>5, <2>6, <2>8, BinSound
  <2> QED BY <2>1, <2>7, <2>8
<1> QED BY <1>1, <1>2, <1>3, ExprForms

\* The causes an expression adds are operators.
LEMMA HolesAre ==
    ASSUME NEW c, NEW e \in ExprsOver(TVars)
    PROVE  HolesOf(c, e) \in SUBSET Causes
<1>1. e.k = "bin" => e.op \in Ops
  BY ExprForms
<1>2. Ops \subseteq Causes
  BY DEF Causes
<1> QED BY <1>1, <1>2 DEF HolesOf

\* let.
LEMMA LetKeeps ==
    ASSUME NEW c \in TypeStates, NEW ch, Good(c, ch), NEW v \in TVars, NEW a \in Anns, NEW e \in Exprs,
           CheckExpr(c, e), IsCompatible(TypeOf(c, e), a), ~InScope(c, c.cur, v)
    PROVE  LetOf(c, v, a, e) \in TypeStates /\ Good(LetOf(c, v, a, e), ch)
<1> DEFINE d == LetOf(c, v, a, e)
           T == LetType(c, a, e)
           R == RunProgram(c.env, e)
           y == [v |-> v, t |-> T]
           n == Len(c.env)
           H == HolesOf(c, e)
           h == IF Lookup(c, v) # 0 THEN c.holes \cup {"shadow"} ELSE c.holes
           sc == [c.scopes EXCEPT ![c.cur].syms = Append(@, y)]
           en == [c.env EXCEPT ![n][v] = R]
<1>e. e \in ExprsOver(TVars) /\ a \in ValueTypes \cup {NoType}
  BY TypeInputs
<1>r. /\ TypeOf(c, e) \in ValueTypes /\ R \in Tags
      /\ c.holes = {} /\ H = {} => R # Stuck /\ Conforms(R, TypeOf(c, e))
  BY <1>e, ExprIs
<1>t. T \in ValueTypes /\ (c.holes = {} /\ H = {} => Conforms(R, T))
  <2>1. CASE a = NoType
    BY <1>r, <2>1 DEF LetType
  <2>2. CASE a # NoType
    <3>1. T = a /\ a \in ValueTypes
      BY <1>e, <2>2 DEF LetType
    <3> HIDE DEF R, T, H
    <3> QED BY <1>r, <3>1, CompatibleConforms
  <2> QED BY <2>1, <2>2
<1>h. H \in SUBSET Causes /\ h \in SUBSET Causes
  <2>1. H \in SUBSET Causes
    BY <1>e, HolesAre
  <2>2. c.holes \in SUBSET Causes
    BY DEF TypeStates
  <2>3. c.holes \cup {"shadow"} \in SUBSET Causes
    BY <2>2 DEF Causes
  <2>4. h \in {c.holes, c.holes \cup {"shadow"}}
    OBVIOUS
  <2> HIDE DEF h, H
  <2> QED BY <2>1, <2>2, <2>3, <2>4
<1>c. /\ c.scopes \in Seq(Scope) /\ c.env \in Seq(Frame) /\ n \in Nat /\ n >= 1 /\ c.cur \in 1..Len(c.scopes)
      /\ ch \in [1..n -> 1..Len(c.scopes)] /\ ch[n] = c.cur /\ c.n \in Nat
  <2>1. c.scopes \in Seq(Scope) /\ c.env \in Seq(Frame) /\ c.n \in Nat
    BY DEF TypeStates
  <2>2. n >= 1 /\ ch \in [1..n -> 1..Len(c.scopes)] /\ ch[n] = c.cur
    BY DEF Good, Chain
  <2> QED BY <2>1, <2>2
<1>d. /\ d = [scopes |-> sc, cur |-> c.cur, vt |-> [c.vt EXCEPT ![v] = T], env |-> en,
              reject |-> FALSE, stuck |-> (R = Stuck), n |-> c.n + 1, holes |-> h \cup H]
  <2> DEFINE b == [c EXCEPT !.vt[v] = T, !.scopes[c.cur].syms = Append(@, y), !.env[n][v] = R, !.holes = h]
  <2>1. b = [c EXCEPT !.vt = [c.vt EXCEPT ![v] = T], !.scopes = sc, !.env = en, !.holes = h]
    <3> HIDE DEF R, T, y, h, n
    <3> QED BY DEF TypeStates
  <2>2. d = Checked(c, b, CheckExpr(c, e) /\ IsCompatible(TypeOf(c, e), a) /\ ~InScope(c, c.cur, v), e)
    BY DEF LetOf
  <2>3. (CheckExpr(c, e) /\ IsCompatible(TypeOf(c, e), a) /\ ~InScope(c, c.cur, v)) = TRUE
    OBVIOUS
  <2> HIDE DEF b, d, R, H, h, T, sc, en
  <2>4. d = Checked(c, b, TRUE, e)
    BY <2>2, <2>3
  <2>5. d = [b EXCEPT !.n = @ + 1, !.reject = FALSE, !.stuck = (R = Stuck), !.holes = @ \cup H]
    BY <2>4 DEF Checked, R, H
  <2> QED BY <2>1, <2>5 DEF TypeStates
<1> HIDE DEF d, R, T, H, h
<1>s. /\ sc \in Seq(Scope) /\ Len(sc) = Len(c.scopes)
      /\ \A s \in 1..Len(sc) : sc[s].parent = c.scopes[s].parent
      /\ \A s \in 1..Len(sc) : s # c.cur => sc[s] = c.scopes[s]
      /\ sc[c.cur].syms = Append(c.scopes[c.cur].syms, y)
  <2>1. y \in Sym
    BY <1>t DEF Sym
  <2>2. c.scopes[c.cur] \in Scope
    BY <1>c
  <2>3. c.scopes[c.cur].syms \in Seq(Sym) /\ c.scopes[c.cur].parent \in Nat
    BY <2>2 DEF Scope
  <2> HIDE DEF y
  <2>4. Append(c.scopes[c.cur].syms, y) \in Seq(Sym)
    BY <2>1, <2>3
  <2> DEFINE z == [c.scopes[c.cur] EXCEPT !.syms = Append(@, y)]
  <2>5. z \in Scope /\ z.parent = c.scopes[c.cur].parent /\ z.syms = Append(c.scopes[c.cur].syms, y)
    BY <2>2, <2>4 DEF Scope
  <2>6. sc = [c.scopes EXCEPT ![c.cur] = z]
    OBVIOUS
  <2> HIDE DEF z, sc
  <2>7. /\ sc \in Seq(Scope) /\ Len(sc) = Len(c.scopes) /\ sc[c.cur] = z
        /\ \A s \in 1..Len(c.scopes) : s # c.cur => sc[s] = c.scopes[s]
    <3> DEFINE q == c.scopes
               k == c.cur
    <3>1. q \in Seq(Scope) /\ k \in 1..Len(q)
      BY <1>c
    <3>2. sc = [q EXCEPT ![k] = z]
      BY <2>6
    <3> HIDE DEF q, k
    <3>3. z \in Scope
      BY <2>5
    <3>4. /\ sc \in Seq(Scope) /\ Len(sc) = Len(q) /\ sc[k] = z /\ \A s \in 1..Len(q) : s # k => sc[s] = q[s]
      BY <3>1, <3>2, <3>3, Replaced
    <3> QED BY <3>4 DEF q, k
  <2>8. \A s \in 1..Len(sc) : sc[s].parent = c.scopes[s].parent
    <3> TAKE s \in 1..Len(sc)
    <3>1. CASE s = c.cur
      BY <2>5, <2>7, <3>1
    <3>2. CASE s # c.cur
      BY <2>7, <3>2
    <3> QED BY <3>1, <3>2
  <2> QED BY <2>5, <2>7, <2>8
<1>n. /\ en \in Seq(Frame) /\ Len(en) = n /\ (\A i \in 1..n : i # n => en[i] = c.env[i])
      /\ en[n][v] = R /\ \A w \in TVars : w # v => en[n][w] = c.env[n][w]
  <2>1. c.env[n] \in Frame
    BY <1>c
  <2> DEFINE z == [c.env[n] EXCEPT ![v] = R]
  <2>2. z \in Frame /\ z[v] = R /\ \A w \in TVars : w # v => z[w] = c.env[n][w]
    BY <1>r, <2>1 DEF Frame
  <2>3. en = [c.env EXCEPT ![n] = z]
    OBVIOUS
  <2> HIDE DEF z, en
  <2> QED BY <1>c, <2>2, <2>3
<1>f. /\ d.scopes = sc /\ d.cur = c.cur /\ d.env = en /\ d.holes = h \cup H /\ d.stuck = (R = Stuck)
      /\ d.vt[v] = T /\ (\A w \in TVars : w # v => d.vt[w] = c.vt[w])
  <2>1. c.vt \in [TVars -> ValueTypes \cup {NoType}]
    BY DEF TypeStates
  <2> HIDE DEF sc, en
  <2> QED BY <1>d, <2>1
<1>1. d \in TypeStates
  <2>1. c.vt \in [TVars -> ValueTypes \cup {NoType}]
    BY DEF TypeStates
  <2>2. [c.vt EXCEPT ![v] = T] \in [TVars -> ValueTypes \cup {NoType}]
    BY <1>t, <2>1
  <2>3. c.cur \in Nat /\ c.n + 1 \in Nat /\ h \cup H \in SUBSET Causes /\ (R = Stuck) \in BOOLEAN
    BY <1>c, <1>h
  <2> HIDE DEF sc, en
  <2> QED BY <1>d, <1>s, <1>n, <2>2, <2>3 DEF TypeStates
<1> HIDE DEF sc, en
<1>i. /\ \A s \in 1..Len(c.scopes) : \A w \in TVars :
            InScope(d, s, w) <=> InScope(c, s, w) \/ (s = c.cur /\ w = v)
      /\ \A k \in DOMAIN sc[c.cur].syms : \/ sc[c.cur].syms[k] = y /\ k = Len(c.scopes[c.cur].syms) + 1
                                          \/ k \in DOMAIN c.scopes[c.cur].syms /\ sc[c.cur].syms[k] = c.scopes[c.cur].syms[k]
  <2> DEFINE q == c.scopes[c.cur].syms
  <2>1. q \in Seq(Sym)
    <3>1. c.scopes[c.cur] \in Scope
      BY <1>c
    <3> QED BY <3>1 DEF Scope
  <2>2. /\ \A k \in DOMAIN q : k \in DOMAIN Append(q, y) /\ Append(q, y)[k] = q[k]
        /\ Len(q) + 1 \in DOMAIN Append(q, y) /\ Append(q, y)[Len(q) + 1] = y
        /\ \A k \in DOMAIN Append(q, y) : k = Len(q) + 1 \/ k \in DOMAIN q
    <3> HIDE DEF q, y
    <3> QED BY <2>1
  <2>3. y.v = v
    OBVIOUS
  <2> HIDE DEF q, y
  <2>4. sc[c.cur].syms = Append(q, y)
    BY <1>s DEF q
  <2>5. ASSUME NEW s \in 1..Len(c.scopes), NEW w \in TVars, s = c.cur
        PROVE  InScope(d, s, w) <=> InScope(c, s, w) \/ w = v
    <3>1. d.scopes[s].syms = Append(q, y) /\ c.scopes[s].syms = q
      BY <1>f, <2>4, <2>5 DEF q
    <3>2. (\E k \in DOMAIN Append(q, y) : Append(q, y)[k].v = w) <=> (\E k \in DOMAIN q : q[k].v = w) \/ w = v
      BY <2>2, <2>3
    <3> QED BY <3>1, <3>2 DEF InScope
  <2>6. ASSUME NEW s \in 1..Len(c.scopes), NEW w \in TVars, s # c.cur
        PROVE  InScope(d, s, w) <=> InScope(c, s, w)
    BY <1>f, <1>s, <2>6 DEF InScope
  <2> QED BY <2>2, <2>4, <2>5, <2>6 DEF q
<1>y. y.v = v /\ y.t = T
  OBVIOUS
<1> HIDE DEF y
<1>2. Tree(d)
  BY <1>f, <1>s DEF Good, Tree
<1>3. NamedOnce(d)
  <2>1. ASSUME NEW s \in 1..Len(sc), NEW i \in DOMAIN sc[s].syms, NEW j \in DOMAIN sc[s].syms,
               sc[s].syms[i].v = sc[s].syms[j].v
        PROVE  i = j
    <3>1. CASE s # c.cur
      BY <1>s, <2>1, <3>1 DEF Good, NamedOnce
    <3>2. CASE s = c.cur
      <4>1. \A k \in DOMAIN c.scopes[c.cur].syms : c.scopes[c.cur].syms[k].v # v
        BY DEF InScope
      <4>2. \A k, m \in DOMAIN c.scopes[c.cur].syms :
                c.scopes[c.cur].syms[k].v = c.scopes[c.cur].syms[m].v => k = m
        BY <1>c DEF Good, NamedOnce
      <4> QED BY <1>i, <1>y, <2>1, <3>2, <4>1, <4>2
    <3> QED BY <3>1, <3>2
  <2> QED BY <1>f, <2>1 DEF NamedOnce
<1>4. Chain(d, ch)
  <2>1. /\ n >= 1 /\ ch \in [1..n -> 1..Len(c.scopes)] /\ ch[1] = 1 /\ ch[n] = c.cur
        /\ c.scopes[1].parent = 0 /\ (\A i, j \in 1..n : i < j => ch[i] < ch[j])
        /\ (\A i \in 2..n : c.scopes[ch[i]].parent = ch[i - 1])
        /\ \A i \in 1..n : \A w \in TVars : InScope(c, ch[i], w) <=> c.env[i][w] # NoType
    BY DEF Good, Chain
  <2>2. \A i \in 1..n : ch[i] \in 1..Len(c.scopes) /\ (ch[i] = c.cur <=> i = n)
    <3>1. n \in 1..n /\ \A i \in 1..n : i # n => i < n
      BY <1>c
    <3>2. \A i \in 1..n : ch[i] \in 1..Len(c.scopes) /\ (i # n => ch[i] < ch[n])
      BY <2>1, <3>1
    <3>3. \A i \in 1..n : i # n => ch[i] # ch[n]
      BY <3>2
    <3> QED BY <2>1, <3>2, <3>3
  <2>3. R # NoType
    BY <1>r DEF Tags, NoType, VOID, INT, FLOAT, STR, BOOL, Stuck
  <2>4. ASSUME NEW i \in 1..n, NEW w \in TVars
        PROVE  InScope(d, ch[i], w) <=> d.env[i][w] # NoType
    <3>1. InScope(d, ch[i], w) <=> InScope(c, ch[i], w) \/ (i = n /\ w = v)
      BY <1>i, <2>2
    <3>2. d.env[i][w] # NoType <=> c.env[i][w] # NoType \/ (i = n /\ w = v)
      BY <1>f, <1>n, <2>3
    <3> QED BY <2>1, <3>1, <3>2
  <2>5. 1 \in 1..Len(c.scopes) /\ Len(d.scopes) = Len(c.scopes) /\ Len(d.env) = n
    BY <1>c, <1>f, <1>n, <1>s
  <2>6. d.scopes[1].parent = 0 /\ \A i \in 2..n : d.scopes[ch[i]].parent = ch[i - 1]
    <3>1. \A i \in 2..n : i \in 1..n
      BY <1>c
    <3> QED BY <1>f, <1>s, <2>1, <2>2, <2>5, <3>1
  <2> QED BY <1>f, <2>1, <2>4, <2>5, <2>6 DEF Chain
<1>5. Known(d)
  <2>1. ASSUME NEW i \in 1..n, NEW w \in TVars, d.env[i][w] # NoType PROVE d.vt[w] \in ValueTypes
    <3>1. CASE w = v
      BY <1>f, <1>t, <3>1
    <3>2. CASE w # v
      <4>1. d.env[i][w] = c.env[i][w] /\ d.vt[w] = c.vt[w]
        BY <1>f, <1>n, <3>2
      <4> QED BY <2>1, <4>1 DEF Good, Known
    <3> QED BY <3>1, <3>2
  <2> QED BY <1>f, <1>n, <2>1 DEF Known
<1>6. Clean(d, ch)
  <2> SUFFICES ASSUME d.holes = {}
               PROVE  ~d.stuck /\ \A i \in 1..Len(d.env) : \A w \in TVars : d.env[i][w] # NoType => Fits(d, ch, i, w)
    BY DEF Clean
  <2>1. c.holes = {} /\ Lookup(c, v) = 0 /\ H = {}
    BY <1>f DEF h
  <2>2. R # Stuck /\ Conforms(R, T)
    BY <1>r, <1>t, <2>1
  <2>3. \A i \in 1..n : c.env[i][v] = NoType
    <3>1. FrameOf(c.env, v) = 0
      BY <2>1, ScopeIs DEF Good
    <3> QED BY <1>c, <3>1, FrameIs
  <2>4. ASSUME NEW i \in 1..n, NEW w \in TVars, d.env[i][w] # NoType PROVE Fits(d, ch, i, w)
    <3>1. ch[i] \in 1..Len(c.scopes) /\ ch[n] = c.cur
      BY <1>c
    <3>2. CASE w = v
      <4>1. i = n
        BY <1>f, <1>n, <2>3, <2>4, <3>2
      <4>2. Conforms(d.env[i][w], d.vt[w]) /\ d.env[i][w] # Stuck
        BY <1>f, <1>n, <2>2, <3>2, <4>1
      <4>3. \A k \in DOMAIN d.scopes[ch[i]].syms : d.scopes[ch[i]].syms[k].v = w => d.scopes[ch[i]].syms[k].t = d.vt[w]
        <5>1. \A k \in DOMAIN c.scopes[c.cur].syms : c.scopes[c.cur].syms[k].v # v
          BY DEF InScope
        <5> QED BY <1>f, <1>i, <1>y, <3>1, <3>2, <4>1, <5>1
      <4>4. \A j \in 1..n : j # i => d.env[j][w] = NoType
        BY <1>f, <1>n, <2>3, <3>2, <4>1
      <4> QED BY <1>f, <1>n, <4>2, <4>3, <4>4 DEF Fits
    <3>3. CASE w # v
      <4>1. d.vt[w] = c.vt[w] /\ \A j \in 1..n : d.env[j][w] = c.env[j][w]
        BY <1>f, <1>n, <3>3
      <4>2. Fits(c, ch, i, w)
        BY <2>1, <2>4, <4>1 DEF Good, Clean
      <4>3. \A k \in DOMAIN d.scopes[ch[i]].syms : d.scopes[ch[i]].syms[k].v = w =>
                k \in DOMAIN c.scopes[ch[i]].syms /\ d.scopes[ch[i]].syms[k] = c.scopes[ch[i]].syms[k]
        <5>1. CASE ch[i] = c.cur
          BY <1>f, <1>i, <1>y, <3>3, <5>1
        <5>2. CASE ch[i] # c.cur
          BY <1>f, <1>s, <3>1, <5>2
        <5> QED BY <5>1, <5>2
      <4> QED BY <1>f, <1>n, <4>1, <4>2, <4>3 DEF Fits
    <3> QED BY <3>2, <3>3
  <2> QED BY <1>f, <1>n, <2>2, <2>4
<1> QED BY <1>1, <1>2, <1>3, <1>4, <1>5, <1>6 DEF Good, d

\* Assignment.
LEMMA AssignKeeps ==
    ASSUME NEW c \in TypeStates, NEW ch, Good(c, ch), NEW v \in TVars, NEW e \in Exprs,
           Lookup(c, v) # 0, CheckExpr(c, e),
           VOID \in {c.vt[v], TypeOf(c, e)} \/ IsCompatible(TypeOf(c, e), c.vt[v])
    PROVE  AssignOf(c, v, e) \in TypeStates /\ Good(AssignOf(c, v, e), ch)
<1> DEFINE d == AssignOf(c, v, e)
           f == FrameOf(c.env, v)
           R == RunProgram(c.env, e)
           n == Len(c.env)
           H == HolesOf(c, e)
           h == IF IsCompatible(TypeOf(c, e), c.vt[v]) THEN c.holes ELSE c.holes \cup {"void"}
           en == [c.env EXCEPT ![f][v] = R]
<1>e. e \in ExprsOver(TVars)
  BY TypeInputs
<1>r. /\ TypeOf(c, e) \in ValueTypes /\ R \in Tags
      /\ c.holes = {} /\ H = {} => R # Stuck /\ Conforms(R, TypeOf(c, e))
  BY <1>e, ExprIs
<1>h. H \in SUBSET Causes /\ h \in SUBSET Causes
  <2>1. H \in SUBSET Causes
    BY <1>e, HolesAre
  <2>2. c.holes \in SUBSET Causes
    BY DEF TypeStates
  <2>3. c.holes \cup {"void"} \in SUBSET Causes
    BY <2>2 DEF Causes
  <2>4. h \in {c.holes, c.holes \cup {"void"}}
    OBVIOUS
  <2> HIDE DEF h, H
  <2> QED BY <2>1, <2>2, <2>3, <2>4
<1>c. c.env \in Seq(Frame) /\ n \in Nat /\ c.n \in Nat
  BY DEF TypeStates
<1>v. f \in 1..n /\ c.env[f][v] # NoType
  <2>1. f # 0
    BY ScopeIs DEF Good
  <2> QED BY <1>c, <2>1, FrameIs
<1>t. c.vt[v] \in ValueTypes
  BY <1>v DEF Good, Known
<1>d. d = [c EXCEPT !.env = en, !.holes = h \cup H, !.n = @ + 1, !.reject = FALSE, !.stuck = (R = Stuck)]
  <2> HIDE DEF R, H, f
  <2> QED BY DEF AssignOf, Checked, TypeStates, R, H, f
<1> HIDE DEF d, R, H, h, f
<1>n. /\ en \in Seq(Frame) /\ Len(en) = n /\ (\A i \in 1..n : i # f => en[i] = c.env[i])
      /\ en[f][v] = R /\ \A w \in TVars : w # v => en[f][w] = c.env[f][w]
  <2>1. c.env[f] \in Frame
    BY <1>c, <1>v
  <2> DEFINE z == [c.env[f] EXCEPT ![v] = R]
  <2>2. z \in Frame /\ z[v] = R /\ \A w \in TVars : w # v => z[w] = c.env[f][w]
    BY <1>r, <2>1 DEF Frame
  <2>3. en = [c.env EXCEPT ![f] = z]
    OBVIOUS
  <2> HIDE DEF z, en
  <2> QED BY <1>c, <1>v, <2>2, <2>3
<1> HIDE DEF en
<1>f. /\ d.scopes = c.scopes /\ d.cur = c.cur /\ d.env = en /\ d.holes = h \cup H /\ d.stuck = (R = Stuck)
      /\ d.vt = c.vt
  BY <1>d DEF TypeStates
<1>1. d \in TypeStates
  <2>1. h \cup H \in SUBSET Causes /\ c.n + 1 \in Nat
    BY <1>c, <1>h
  <2> QED BY <1>d, <1>n, <2>1 DEF TypeStates
<1>2. Tree(d) /\ NamedOnce(d)
  BY <1>f DEF Good, Tree, NamedOnce
<1>3. \A i \in 1..n : \A w \in TVars : d.env[i][w] # NoType <=> c.env[i][w] # NoType
  <2>1. R # NoType
    BY <1>r DEF Tags, NoType, VOID, INT, FLOAT, STR, BOOL, Stuck
  <2> QED BY <1>f, <1>n, <1>v, <2>1
<1>4. Chain(d, ch)
  <2>1. /\ n >= 1 /\ ch \in [1..n -> 1..Len(c.scopes)] /\ ch[1] = 1 /\ ch[n] = c.cur
        /\ c.scopes[1].parent = 0 /\ (\A i, j \in 1..n : i < j => ch[i] < ch[j])
        /\ (\A i \in 2..n : c.scopes[ch[i]].parent = ch[i - 1])
        /\ \A i \in 1..n : \A w \in TVars : InScope(c, ch[i], w) <=> c.env[i][w] # NoType
    BY DEF Good, Chain
  <2>2. \A s, w : InScope(d, s, w) <=> InScope(c, s, w)
    BY <1>f DEF InScope
  <2>3. \A i \in 1..n : \A w \in TVars : InScope(d, ch[i], w) <=> d.env[i][w] # NoType
    BY <1>3, <2>1, <2>2
  <2>4. Len(d.env) = n
    BY <1>f, <1>n
  <2> QED BY <1>f, <2>1, <2>3, <2>4 DEF Chain
<1>5. Known(d)
  BY <1>3, <1>f, <1>n DEF Good, Known
<1>6. Clean(d, ch)
  <2> SUFFICES ASSUME d.holes = {}
               PROVE  ~d.stuck /\ \A i \in 1..Len(d.env) : \A w \in TVars : d.env[i][w] # NoType => Fits(d, ch, i, w)
    BY DEF Clean
  <2>1. c.holes = {} /\ IsCompatible(TypeOf(c, e), c.vt[v]) /\ H = {}
    BY <1>f DEF h
  <2>2. R # Stuck /\ Conforms(R, TypeOf(c, e))
    BY <1>r, <2>1
  <2>3. Conforms(R, c.vt[v])
    BY <1>r, <1>t, <2>1, <2>2, CompatibleConforms
  <2>4. ASSUME NEW i \in 1..n, NEW w \in TVars, d.env[i][w] # NoType PROVE Fits(d, ch, i, w)
    <3>1. Fits(c, ch, i, w)
      BY <1>3, <2>1, <2>4 DEF Good, Clean
    <3>2. \A j \in 1..n : j # i => d.env[j][w] = NoType
      BY <1>3, <3>1 DEF Fits
    <3>3. Conforms(d.env[i][w], c.vt[w]) /\ d.env[i][w] # Stuck
      <4>1. CASE i = f /\ w = v
        BY <1>f, <1>n, <2>2, <2>3, <4>1
      <4>2. CASE ~(i = f /\ w = v)
        <5>1. d.env[i][w] = c.env[i][w]
          BY <1>f, <1>n, <4>2
        <5> QED BY <3>1, <5>1 DEF Fits
      <4> QED BY <4>1, <4>2
    <3> QED BY <1>f, <1>n, <3>1, <3>2, <3>3 DEF Fits
  <2> QED BY <1>f, <1>n, <2>2, <2>4
<1> QED BY <1>1, <1>2, <1>4, <1>5, <1>6 DEF Good, d

\* A block begins.
LEMMA OpenKeeps ==
    ASSUME NEW c \in TypeStates, NEW ch, Good(c, ch),
           NEW d, d = [c EXCEPT !.n = @ + 1, !.cur = Len(c.scopes) + 1,
                                !.scopes = Append(@, NewScope(c.cur)),
                                !.env = Append(@, [v \in TVars |-> NoType])]
    PROVE  d \in TypeStates /\ \E new : Good(d, new)
<1> DEFINE n == Len(c.env)
           m == Len(c.scopes)
           x == NewScope(c.cur)
           y == [v \in TVars |-> NoType]
           new == [i \in 1..(n + 1) |-> IF i = n + 1 THEN m + 1 ELSE ch[i]]
<1>1. /\ c.scopes \in Seq(Scope) /\ c.env \in Seq(Frame) /\ n \in Nat /\ m \in Nat /\ c.n \in Nat /\ c.cur \in Nat
      /\ n >= 1 /\ ch \in [1..n -> 1..m] /\ ch[1] = 1 /\ ch[n] = c.cur
      /\ c.scopes[1].parent = 0 /\ (\A i, j \in 1..n : i < j => ch[i] < ch[j])
      /\ (\A i \in 2..n : c.scopes[ch[i]].parent = ch[i - 1])
      /\ \A i \in 1..n : \A w \in TVars : InScope(c, ch[i], w) <=> c.env[i][w] # NoType
  <2>1. c.scopes \in Seq(Scope) /\ c.env \in Seq(Frame) /\ c.n \in Nat /\ c.cur \in Nat
    BY DEF TypeStates
  <2>2. /\ n >= 1 /\ ch \in [1..n -> 1..m] /\ ch[1] = 1 /\ ch[n] = c.cur
        /\ c.scopes[1].parent = 0 /\ (\A i, j \in 1..n : i < j => ch[i] < ch[j])
        /\ (\A i \in 2..n : c.scopes[ch[i]].parent = ch[i - 1])
        /\ \A i \in 1..n : \A w \in TVars : InScope(c, ch[i], w) <=> c.env[i][w] # NoType
    BY DEF Good, Chain
  <2> QED BY <2>1, <2>2
<1>2. x \in Scope /\ x.parent = c.cur /\ x.syms = <<>>
  BY <1>1 DEF NewScope, Scope
<1>3. y \in Frame /\ \A w \in TVars : y[w] = NoType
  BY DEF Frame
<1>4. /\ d.scopes = Append(c.scopes, x) /\ d.env = Append(c.env, y) /\ d.cur = m + 1 /\ d.vt = c.vt
      /\ d.holes = c.holes /\ d.stuck = c.stuck /\ d.n = c.n + 1
      /\ d = [c EXCEPT !.n = c.n + 1, !.cur = m + 1, !.scopes = Append(c.scopes, x), !.env = Append(c.env, y)]
  <2> HIDE DEF x, y
  <2> QED BY DEF TypeStates, x, y
<1> HIDE DEF x, y
<1>5. /\ Append(c.scopes, x) \in Seq(Scope) /\ Len(d.scopes) = m + 1 /\ d.scopes[m + 1] = x
      /\ \A s \in 1..m : d.scopes[s] = c.scopes[s]
  BY <1>1, <1>2, <1>4
<1>6. /\ Append(c.env, y) \in Seq(Frame) /\ Len(d.env) = n + 1 /\ d.env[n + 1] = y
      /\ \A i \in 1..n : d.env[i] = c.env[i]
  BY <1>1, <1>3, <1>4
<1>7. d \in TypeStates
  <2>1. m + 1 \in Nat /\ c.n + 1 \in Nat
    BY <1>1
  <2> QED BY <1>4, <1>5, <1>6, <2>1 DEF TypeStates
<1>8. /\ new \in [1..(n + 1) -> 1..(m + 1)] /\ new[n + 1] = m + 1 /\ \A i \in 1..n : new[i] = ch[i] /\ ch[i] \in 1..m
  BY <1>1
<1>9. /\ \A s \in 1..(m + 1) : s = m + 1 \/ s \in 1..m
      /\ \A i \in 1..(n + 1) : i = n + 1 \/ i \in 1..n
      /\ 1 \in 1..n /\ 1 \in 1..m /\ n \in 1..n
  BY <1>1
<1> HIDE DEF new, m, n
<1>10. Tree(d)
  <2>1. c.cur < m + 1
    BY <1>1, <1>8, <1>9
  <2>2. \A s \in 1..m : c.scopes[s].parent < s
    BY DEF Good, Tree, m
  <2> QED BY <1>2, <1>5, <1>9, <2>1, <2>2 DEF Tree
<1>11. NamedOnce(d)
  <2>1. \A s \in 1..m : \A i, j \in DOMAIN c.scopes[s].syms :
             c.scopes[s].syms[i].v = c.scopes[s].syms[j].v => i = j
    BY DEF Good, NamedOnce, m
  <2>2. DOMAIN x.syms = {}
    BY <1>2
  <2> QED BY <1>5, <1>9, <2>1, <2>2 DEF NamedOnce
<1>12. Chain(d, new)
  <2>1. new[1] = 1 /\ new[n + 1] = d.cur /\ d.scopes[1].parent = 0 /\ n + 1 >= 1
    <3>1. new[1] = ch[1] /\ new[n + 1] = m + 1
      BY <1>8, <1>9
    <3>2. d.scopes[1] = c.scopes[1]
      BY <1>5, <1>9
    <3>3. n + 1 >= 1
      BY <1>1
    <3> QED BY <1>1, <1>4, <3>1, <3>2, <3>3
  <2>2. ASSUME NEW i \in 1..(n + 1), NEW j \in 1..(n + 1), i < j PROVE new[i] < new[j]
    <3>1. i \in 1..n
      BY <1>1, <2>2
    <3>2. new[i] = ch[i] /\ ch[i] \in 1..m
      BY <1>8, <3>1
    <3>3. CASE j = n + 1
      <4>1. new[j] = m + 1
        BY <1>8, <3>3
      <4>2. ch[i] < m + 1
        BY <1>1, <3>2
      <4> QED BY <3>2, <4>1, <4>2
    <3>4. CASE j \in 1..n
      <4>1. new[j] = ch[j]
        BY <1>8, <3>4
      <4>2. ch[i] < ch[j]
        BY <1>1, <2>2, <3>1, <3>4
      <4> QED BY <3>2, <4>1, <4>2
    <3> QED BY <1>9, <3>3, <3>4
  <2>3. ASSUME NEW i \in 2..(n + 1) PROVE d.scopes[new[i]].parent = new[i - 1]
    <3>1. CASE i = n + 1
      <4>1. i - 1 = n
        BY <1>1, <3>1
      <4> QED BY <1>1, <1>2, <1>5, <1>8, <1>9, <3>1, <4>1
    <3>2. CASE i # n + 1
      <4>1. i \in 2..n /\ i \in 1..n /\ i - 1 \in 1..n
        BY <1>1, <3>2
      <4>2. new[i] = ch[i] /\ ch[i] \in 1..m /\ new[i - 1] = ch[i - 1]
        BY <1>8, <4>1
      <4>3. d.scopes[ch[i]] = c.scopes[ch[i]] /\ c.scopes[ch[i]].parent = ch[i - 1]
        BY <1>1, <1>5, <4>1, <4>2
      <4> QED BY <4>2, <4>3
    <3> QED BY <3>1, <3>2
  <2>4. ASSUME NEW i \in 1..(n + 1), NEW w \in TVars PROVE InScope(d, new[i], w) <=> d.env[i][w] # NoType
    <3>1. CASE i = n + 1
      <4>1. ~InScope(d, new[i], w)
        <5>1. new[i] = m + 1
          BY <1>8, <3>1
        <5>2. d.scopes[new[i]] = x
          BY <1>5, <5>1
        <5>3. DOMAIN x.syms = {}
          BY <1>2
        <5> QED BY <5>2, <5>3 DEF InScope
      <4> QED BY <1>3, <1>6, <3>1, <4>1
    <3>2. CASE i \in 1..n
      <4>1. InScope(d, new[i], w) <=> InScope(c, ch[i], w)
        <5>1. new[i] = ch[i] /\ ch[i] \in 1..m
          BY <1>8, <3>2
        <5>2. d.scopes[new[i]] = c.scopes[ch[i]]
          BY <1>5, <5>1
        <5> QED BY <5>2 DEF InScope
      <4> QED BY <1>1, <1>6, <3>2, <4>1
    <3> QED BY <1>9, <3>1, <3>2
  <2> QED BY <1>5, <1>6, <1>8, <2>1, <2>2, <2>3, <2>4 DEF Chain
<1>13. Known(d)
  <2>1. \A i \in 1..n : \A w \in TVars : c.env[i][w] # NoType => c.vt[w] \in ValueTypes
    BY DEF Good, Known, n
  <2> QED BY <1>3, <1>4, <1>6, <1>9, <2>1 DEF Known
<1>14. Clean(d, new)
  <2> SUFFICES ASSUME d.holes = {}
               PROVE  ~d.stuck /\ \A i \in 1..Len(d.env) : \A w \in TVars : d.env[i][w] # NoType => Fits(d, new, i, w)
    BY DEF Clean
  <2>1. ~c.stuck /\ \A i \in 1..n : \A w \in TVars : c.env[i][w] # NoType => Fits(c, ch, i, w)
    BY <1>4 DEF Good, Clean, n
  <2>2. ASSUME NEW i \in 1..(n + 1), NEW w \in TVars, d.env[i][w] # NoType PROVE Fits(d, new, i, w)
    <3>1. i \in 1..n
      BY <1>3, <1>6, <1>9, <2>2
    <3>2. Fits(c, ch, i, w)
      BY <1>6, <2>1, <2>2, <3>1
    <3>3. \A j \in 1..(n + 1) : j # i => d.env[j][w] = NoType
      <4>1. \A j \in 1..n : j # i => c.env[j][w] = NoType
        BY <3>2 DEF Fits, n
      <4> QED BY <1>3, <1>6, <1>9, <4>1
    <3>4. d.env[i] = c.env[i] /\ d.scopes[new[i]] = c.scopes[ch[i]]
      BY <1>5, <1>6, <1>8, <3>1
    <3> QED BY <1>4, <1>6, <3>2, <3>3, <3>4 DEF Fits
  <2> QED BY <1>4, <1>6, <2>1, <2>2
<1> QED BY <1>7, <1>10, <1>11, <1>12, <1>13, <1>14 DEF Good

\* A block ends.
LEMMA CloseKeeps ==
    ASSUME NEW c \in TypeStates, NEW ch, Good(c, ch), c.scopes[c.cur].parent # 0,
           NEW d, d = [c EXCEPT !.n = @ + 1, !.cur = c.scopes[c.cur].parent, !.env = SubSeq(@, 1, Len(@) - 1)]
    PROVE  d \in TypeStates /\ \E new : Good(d, new)
<1> DEFINE n == Len(c.env)
           m == n - 1
           p == c.scopes[c.cur].parent
           new == [i \in 1..m |-> ch[i]]
<1>1. /\ c.scopes \in Seq(Scope) /\ c.env \in Seq(Frame) /\ n \in Nat /\ c.n \in Nat
      /\ n >= 1 /\ ch \in [1..n -> 1..Len(c.scopes)] /\ ch[1] = 1 /\ ch[n] = c.cur
      /\ c.scopes[1].parent = 0 /\ (\A i, j \in 1..n : i < j => ch[i] < ch[j])
      /\ (\A i \in 2..n : c.scopes[ch[i]].parent = ch[i - 1])
      /\ \A i \in 1..n : \A w \in TVars : InScope(c, ch[i], w) <=> c.env[i][w] # NoType
  <2>1. c.scopes \in Seq(Scope) /\ c.env \in Seq(Frame) /\ c.n \in Nat
    BY DEF TypeStates
  <2>2. /\ n >= 1 /\ ch \in [1..n -> 1..Len(c.scopes)] /\ ch[1] = 1 /\ ch[n] = c.cur
        /\ c.scopes[1].parent = 0 /\ (\A i, j \in 1..n : i < j => ch[i] < ch[j])
        /\ (\A i \in 2..n : c.scopes[ch[i]].parent = ch[i - 1])
        /\ \A i \in 1..n : \A w \in TVars : InScope(c, ch[i], w) <=> c.env[i][w] # NoType
    BY DEF Good, Chain
  <2> QED BY <2>1, <2>2
<1>2. n >= 2
  BY <1>1
<1>3. /\ m \in Nat /\ m >= 1 /\ \A i \in 1..m : i \in 1..n /\ new[i] = ch[i] /\ ch[i] \in 1..Len(c.scopes)
  BY <1>1, <1>2
<1>4. p = ch[m] /\ new[m] = p /\ m \in 1..m /\ 1 \in 1..m /\ p \in Nat
  <2>1. n \in 2..n /\ n - 1 = m /\ m \in 1..m /\ 1 \in 1..m
    BY <1>1, <1>2, <1>3
  <2>2. c.scopes[ch[n]].parent = ch[n - 1]
    BY <1>1, <2>1
  <2>3. p = ch[m]
    BY <1>1, <2>1, <2>2
  <2>4. new[m] = ch[m] /\ ch[m] \in 1..Len(c.scopes)
    BY <1>3, <2>1
  <2>5. \A i \in 1..Len(c.scopes) : i \in Nat
    OBVIOUS
  <2> QED BY <2>1, <2>3, <2>4, <2>5
<1>5. /\ SubSeq(c.env, 1, m) \in Seq(Frame) /\ Len(SubSeq(c.env, 1, m)) = m
      /\ \A i \in 1..m : SubSeq(c.env, 1, m)[i] = c.env[i]
  BY <1>1, <1>3
<1>6. /\ d.scopes = c.scopes /\ d.env = SubSeq(c.env, 1, m) /\ d.cur = p /\ d.vt = c.vt
      /\ d.holes = c.holes /\ d.stuck = c.stuck
      /\ d = [c EXCEPT !.n = c.n + 1, !.cur = p, !.env = SubSeq(c.env, 1, m)]
  BY DEF TypeStates
<1>7. new \in [1..m -> 1..Len(c.scopes)]
  BY <1>3
<1> HIDE DEF new, m, n, p
<1>8. d \in TypeStates
  <2>1. c.n + 1 \in Nat
    BY <1>1
  <2> QED BY <1>4, <1>5, <1>6, <2>1 DEF TypeStates
<1>9. Tree(d) /\ NamedOnce(d)
  BY <1>6 DEF Good, Tree, NamedOnce
<1>10. Chain(d, new)
  <2>1. \A i \in 2..m : i \in 2..n /\ i \in 1..m /\ i - 1 \in 1..m
    BY <1>1, <1>3 DEF m
  <2>2. \A i \in 2..m : d.scopes[new[i]].parent = new[i - 1]
    <3> TAKE i \in 2..m
    <3>1. i \in 2..n /\ new[i] = ch[i] /\ new[i - 1] = ch[i - 1]
      BY <1>3, <2>1
    <3>2. c.scopes[ch[i]].parent = ch[i - 1]
      BY <1>1, <3>1
    <3> QED BY <1>6, <3>1, <3>2
  <2>3. \A i \in 1..m : \A w \in TVars : InScope(d, new[i], w) <=> d.env[i][w] # NoType
    <3>1. \A s, w : InScope(d, s, w) <=> InScope(c, s, w)
      BY <1>6 DEF InScope
    <3>2. \A i \in 1..m : new[i] = ch[i] /\ d.env[i] = c.env[i] /\ i \in 1..n
      BY <1>3, <1>5, <1>6
    <3>3. \A i \in 1..n : \A w \in TVars : InScope(c, ch[i], w) <=> c.env[i][w] # NoType
      BY <1>1
    <3> QED BY <3>1, <3>2, <3>3
  <2>4. \A i, j \in 1..m : i < j => new[i] < new[j]
    BY <1>1, <1>3
  <2>5. new[1] = 1 /\ Len(d.env) = m
    BY <1>1, <1>3, <1>4, <1>5, <1>6
  <2> QED BY <1>1, <1>3, <1>4, <1>6, <1>7, <2>2, <2>3, <2>4, <2>5 DEF Chain
<1>11. Known(d)
  BY <1>3, <1>5, <1>6 DEF Good, Known, n
<1>12. Clean(d, new)
  <2> SUFFICES ASSUME d.holes = {}
               PROVE  ~d.stuck /\ \A i \in 1..Len(d.env) : \A w \in TVars : d.env[i][w] # NoType => Fits(d, new, i, w)
    BY DEF Clean
  <2>1. ~c.stuck /\ \A i \in 1..n : \A w \in TVars : c.env[i][w] # NoType => Fits(c, ch, i, w)
    BY <1>6 DEF Good, Clean, n
  <2>2. ASSUME NEW i \in 1..m, NEW w \in TVars, d.env[i][w] # NoType PROVE Fits(d, new, i, w)
    <3>1. Fits(c, ch, i, w)
      BY <1>3, <1>5, <1>6, <2>1, <2>2
    <3>2. \A j \in 1..m : j # i => d.env[j][w] = NoType
      <4>1. \A j \in 1..m : j \in 1..n /\ d.env[j] = c.env[j]
        BY <1>3, <1>5, <1>6
      <4>2. \A j \in 1..n : j # i => c.env[j][w] = NoType
        BY <3>1 DEF Fits, n
      <4> QED BY ZenonT(60), <4>1, <4>2
    <3>3. d.env[i] = c.env[i] /\ new[i] = ch[i] /\ Len(d.env) = m /\ d.scopes = c.scopes /\ d.vt = c.vt
      BY <1>3, <1>5, <1>6
    <3>4. Conforms(d.env[i][w], d.vt[w]) /\ d.env[i][w] # Stuck
      BY <3>1, <3>3 DEF Fits
    <3>5. \A k \in DOMAIN d.scopes[new[i]].syms :
              d.scopes[new[i]].syms[k].v = w => d.scopes[new[i]].syms[k].t = d.vt[w]
      BY <3>1, <3>3 DEF Fits
    <3>6. \A j \in 1..Len(d.env) : j # i => d.env[j][w] = NoType
      BY <3>2, <3>3
    <3> QED BY ZenonT(60), <3>4, <3>5, <3>6 DEF Fits
  <2> QED BY <1>5, <1>6, <2>1, <2>2
<1> QED BY <1>8, <1>9, <1>10, <1>11, <1>12 DEF Good

\* The start.
LEMMA TypedInit == TypeInit => TypedOK(ty)
<1> SUFFICES ASSUME TypeInit PROVE TypedOK(ty)
  OBVIOUS
<1> DEFINE ch == [i \in 1..1 |-> 1]
           x == NewScope(0)
           y == [v \in TVars |-> NoType]
<1>1. x \in Scope /\ x.parent = 0 /\ x.syms = <<>>
  BY DEF NewScope, Scope
<1>2. y \in Frame /\ (\A v \in TVars : y[v] = NoType) /\ y \in [TVars -> ValueTypes \cup {NoType}]
  BY DEF Frame
<1>3. ty = [scopes |-> <<x>>, cur |-> 1, vt |-> y, env |-> <<y>>, reject |-> FALSE, stuck |-> FALSE, n |-> 0, holes |-> {}]
  BY DEF TypeInit
<1> HIDE DEF x, y
<1>4. ty.scopes = <<x>> /\ ty.env = <<y>> /\ ty.cur = 1 /\ ty.stuck = FALSE
  BY <1>3
<1>5. <<x>> \in Seq(Scope) /\ <<y>> \in Seq(Frame) /\ Len(<<x>>) = 1 /\ Len(<<y>>) = 1 /\ <<x>>[1] = x /\ <<y>>[1] = y
  BY <1>1, <1>2
<1>6. ty \in TypeStates
  BY <1>2, <1>3, <1>5 DEF TypeStates
<1>7. \A i \in 1..1 : i = 1
  OBVIOUS
<1>8. Tree(ty) /\ NamedOnce(ty)
  BY <1>1, <1>4, <1>5, <1>7 DEF Tree, NamedOnce
<1>9. Chain(ty, ch)
  <2>1. ch \in [1..1 -> 1..1] /\ ch[1] = 1
    OBVIOUS
  <2>2. \A w \in TVars : ~InScope(ty, 1, w)
    BY <1>1, <1>4, <1>5 DEF InScope
  <2> HIDE DEF ch
  <2> QED BY <1>1, <1>2, <1>4, <1>5, <1>7, <2>1, <2>2 DEF Chain
<1>10. Known(ty) /\ Clean(ty, ch)
  BY <1>2, <1>4, <1>5, <1>7 DEF Known, Clean
<1> QED BY <1>6, <1>8, <1>9, <1>10 DEF Good, TypedOK

\* Each step.
LEMMA TypedNext == TypedOK(ty) /\ [TypeNext]_ty => TypedOK(ty')
<1> SUFFICES ASSUME TypedOK(ty), [TypeNext]_ty PROVE TypedOK(ty')
  OBVIOUS
<1>1. CASE UNCHANGED ty
  BY <1>1
<1>2. Going => ty \in TypeStates /\ \E ch : Good(ty, ch)
  BY DEF Going, TypedOK
<1>3. ASSUME NEW v \in TVars, NEW e \in Exprs, Assign(v, e) PROVE TypedOK(ty')
  <2>1. ty \in TypeStates /\ ty' = AssignOf(ty, v, e)
    BY <1>2, <1>3 DEF Assign
  <2>2. PICK ch : Good(ty, ch)
    BY <1>2, <1>3 DEF Assign
  <2> DEFINE ok == /\ Lookup(ty, v) # 0 /\ CheckExpr(ty, e)
                   /\ VOID \in {ty.vt[v], TypeOf(ty, e)} \/ IsCompatible(TypeOf(ty, e), ty.vt[v])
  <2>3. CASE ok
    <3>1. ty' \in TypeStates /\ Good(ty', ch)
      BY <2>1, <2>2, <2>3, AssignKeeps
    <3> QED BY <3>1 DEF TypedOK
  <2>4. CASE ~ok
    <3>1. ty' = Checked(ty, ty, FALSE, e)
      BY <2>1, <2>4 DEF AssignOf
    <3>2. ty'.reject = TRUE
      BY <2>1, <3>1 DEF Checked, TypeStates
    <3> QED BY <3>2 DEF TypedOK
  <2> QED BY <2>3, <2>4
<1>4. ASSUME NEW v \in TVars, NEW e \in Exprs, NEW a \in Anns, Let(v, a, e) PROVE TypedOK(ty')
  <2>1. ty \in TypeStates /\ ty' = LetOf(ty, v, a, e)
    BY <1>2, <1>4 DEF Let
  <2>2. PICK ch : Good(ty, ch)
    BY <1>2, <1>4 DEF Let
  <2> DEFINE ok == CheckExpr(ty, e) /\ IsCompatible(TypeOf(ty, e), a) /\ ~InScope(ty, ty.cur, v)
  <2>3. CASE ok
    <3>1. ty' \in TypeStates /\ Good(ty', ch)
      BY <2>1, <2>2, <2>3, LetKeeps
    <3> QED BY <3>1 DEF TypedOK
  <2>4. CASE ~ok
    <3>1. ty'.reject = TRUE
      BY <2>1, <2>4 DEF LetOf, Checked, TypeStates
    <3> QED BY <3>1 DEF TypedOK
  <2> QED BY <2>3, <2>4
<1>5. CASE EnterScope
  <2>1. ty \in TypeStates
    BY <1>2, <1>5 DEF EnterScope
  <2>2. PICK ch : Good(ty, ch)
    BY <1>2, <1>5 DEF EnterScope
  <2>3. ty' \in TypeStates /\ \E new : Good(ty', new)
    BY <1>5, <2>1, <2>2, OpenKeeps DEF EnterScope
  <2> QED BY <2>3 DEF TypedOK
<1>6. CASE ExitScope
  <2>1. ty \in TypeStates
    BY <1>2, <1>6 DEF ExitScope
  <2>2. PICK ch : Good(ty, ch)
    BY <1>2, <1>6 DEF ExitScope
  <2>3. ty' \in TypeStates /\ \E new : Good(ty', new)
    BY <1>6, <2>1, <2>2, CloseKeeps DEF ExitScope
  <2> QED BY <2>3 DEF TypedOK
<1> QED BY <1>1, <1>3, <1>4, <1>5, <1>6 DEF TypeNext

\* What the invariant says of the names that are visible.
LEMMA TypedSound == TypedOK(ty) => TypesSound
<1> SUFFICES ASSUME TypedOK(ty), ~ty.reject PROVE TypesSound
  BY DEF TypesSound, AcceptedRuns, ScopesFollowBlocks
<1>1. ty \in TypeStates /\ \E ch : Good(ty, ch)
  BY DEF TypedOK
<1>2. PICK ch : Good(ty, ch)
  BY <1>1
<1>3. ty.env \in Seq(Frame)
  BY <1>1 DEF TypeStates
<1>4. ASSUME NEW v \in TVars
      PROVE  /\ v \in InScopeVars <=> FrameOf(ty.env, v) # 0
             /\ v \in InScopeVars /\ ty.holes = {} =>
                   /\ SymOf(ty, Lookup(ty, v), v).t = ty.vt[v]
                   /\ Conforms(ValueOf(ty.env, v), SymOf(ty, Lookup(ty, v), v).t)
  <2> DEFINE f == FrameOf(ty.env, v)
  <2>1. Lookup(ty, v) = (IF f = 0 THEN 0 ELSE ch[f]) /\ (Lookup(ty, v) # 0 <=> f # 0)
    BY <1>1, <1>2, ScopeIs DEF Good
  <2>2. v \in InScopeVars <=> f # 0
    BY <2>1 DEF InScopeVars
  <2>3. ASSUME f # 0, ty.holes = {}
        PROVE  /\ SymOf(ty, Lookup(ty, v), v).t = ty.vt[v]
               /\ Conforms(ValueOf(ty.env, v), SymOf(ty, Lookup(ty, v), v).t)
    <3>1. f \in 1..Len(ty.env) /\ ty.env[f][v] # NoType
      BY <1>3, <2>3, FrameIs
    <3>2. Fits(ty, ch, f, v)
      BY <1>2, <2>3, <3>1 DEF Good, Clean
    <3>3. InScope(ty, ch[f], v)
      BY <1>2, <3>1 DEF Good, Chain
    <3>4. SymOf(ty, ch[f], v).t = ty.vt[v]
      <4> DEFINE q == ty.scopes[ch[f]].syms
                 k == CHOOSE i \in DOMAIN q : q[i].v = v
      <4>1. k \in DOMAIN q /\ q[k].v = v
        BY <3>3 DEF InScope
      <4>2. SymOf(ty, ch[f], v) = q[k]
        BY DEF SymOf
      <4> HIDE DEF k
      <4> QED BY <3>2, <4>1, <4>2 DEF Fits
    <3>5. ValueOf(ty.env, v) = ty.env[f][v] /\ Lookup(ty, v) = ch[f]
      BY <2>1, <2>3 DEF ValueOf
    <3> QED BY <3>2, <3>4, <3>5 DEF Fits
  <2> QED BY <2>2, <2>3
<1>5. ty.holes = {} => ~ty.stuck
  BY <1>2 DEF Good, Clean
<1>6. InScopeVars \subseteq TVars
  BY DEF InScopeVars
<1> QED BY <1>4, <1>5, <1>6 DEF TypesSound, AcceptedRuns, ScopesFollowBlocks

\* TypesSound for any variables, expressions and annotations, and programs of any length:
\* what the type checker accepts is never stuck and keeps every variable at its declared
\* type, unless one of the named causes came up, and its scopes are the open blocks.
THEOREM TypesAreSound == TypeSpec => []TypesSound
<1>1. TypeInit => TypedOK(ty)
  BY TypedInit
<1>2. TypedOK(ty) /\ [TypeNext]_ty => TypedOK(ty)'
  BY TypedNext
<1>3. TypedOK(ty) => TypesSound
  BY TypedSound
<1> QED BY <1>1, <1>2, <1>3, PTL DEF TypeSpec
=============================================================================

----------------------------- MODULE MapMemory ------------------------------
(***************************************************************************)
(* Maps as the emitted code keeps them (crates/doo_codegen:                *)
(* instructions/maps.rs, builtins/map.rs): a block of key/value pairs that *)
(* every operation scans from the front.  Removal copies the remaining     *)
(* pairs to the stack, shrinks the block and copies them back.             *)
(***************************************************************************)
EXTENDS Naturals, Sequences

CONSTANTS Keys, Vals, Default   \* Default: what get returns for a missing key

VARIABLES mv   \* [len, pairs, out, op]: header length, the pairs of the block,
               \* the result of the last read, the last call

\* A literal stores its entries in order; its keys are distinct.
MapStart(p) == [len |-> Len(p), pairs |-> p, out |-> <<>>, op |-> <<>>]
MapInit == \E p \in UNION {[1..n -> Keys \X Vals] : n \in 0..2} :
               mv = MapStart(p) /\ \A i, j \in DOMAIN p : p[i][1] = p[j][1] => i = j

\* The loop of get, has, set and remove: the first index whose key is k, or
\* the length plus one.
Scan(k) == LET Loop[i \in 1..(mv.len + 1)] ==
                   IF i > mv.len \/ mv.pairs[i][1] = k THEN i ELSE Loop[i + 1]
           IN  Loop[1]

MapGet(k) == mv' = [mv EXCEPT !.op = <<"get", k>>, !.out =
                 <<IF Scan(k) <= mv.len THEN mv.pairs[Scan(k)][2] ELSE Default>>]
MapHas(k) == mv' = [mv EXCEPT !.op = <<"has", k>>, !.out = <<IF Scan(k) <= mv.len THEN 1 ELSE 0>>]

\* A missing key grows the block by one pair, whatever its capacity.
MapSet(k, v) ==
    mv' = IF Scan(k) <= mv.len
          THEN [mv EXCEPT !.op = <<"set", k, v>>, !.pairs[Scan(k)] = <<k, v>>]
          ELSE [mv EXCEPT !.op = <<"set", k, v>>, !.len = @ + 1,
                          !.pairs = Append(SubSeq(@, 1, mv.len), <<k, v>>)]

\* Source index of pair i of the shrunk block when pair f is left out.
KeepIndexOff(i, f) == IF i <= f THEN i ELSE i + 1
KeepIndex(i, f) == IF i < f THEN i ELSE i + 1
CopyToStack(f) == [i \in 1..(mv.len - 1) |-> mv.pairs[KeepIndex(i, f)]]
ShrinkAndCopyBack(kept) == [mv EXCEPT !.len = @ - 1, !.pairs = kept]
EmitRemove(k) == mv' = [(IF Scan(k) > mv.len THEN mv ELSE ShrinkAndCopyBack(CopyToStack(Scan(k)))) EXCEPT !.op = <<"remove", k>>]

EmitKeys == [i \in 1..mv.len |-> mv.pairs[i][1]]
EmitValues == [i \in 1..mv.len |-> mv.pairs[i][2]]
EmitList == mv' = [mv EXCEPT !.op = <<"list">>, !.out = EmitKeys \o EmitValues]
\* Only the length is reset.
EmitMapClear == mv' = [mv EXCEPT !.op = <<"clear">>, !.len = 0]

MapNext == \/ \E k \in Keys : \/ MapGet(k) \/ MapHas(k) \/ EmitRemove(k)
                              \/ \E v \in Vals : MapSet(k, v)
           \/ EmitList \/ EmitMapClear
MapMemorySpec == MapInit /\ [][MapNext]_mv
-----------------------------------------------------------------------------
\* The function that the first len pairs of the block m are.
AsFunction(m) ==
    [k \in {m.pairs[i][1] : i \in 1..m.len} |->
        m.pairs[CHOOSE i \in 1..m.len :
                    m.pairs[i][1] = k /\ \A j \in 1..(i - 1) : m.pairs[j][1] # k][2]]
MapAbs == INSTANCE MapSpec WITH fn <- AsFunction(mv), order <- EmitKeys, out <- mv.out, op <- mv.op
(* The scanned block of pairs behaves as a function with insertion-ordered  *)
(* keys: a key is never stored twice, and a removal takes out its key alone.*)
MapIsFunction == MapAbs!MSpec
=============================================================================

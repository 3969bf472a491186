----------------------------- MODULE ArraySpec ------------------------------
(***************************************************************************)
(* What an array of a Doo program promises: a sequence, the result of the  *)
(* last read, and how the program stands.  An index outside the sequence   *)
(* aborts the program.  The methods that check nothing (pop, first, last,  *)
(* slice) promise nothing outside their domain, and neither does an index  *)
(* of more than 32 bits: the state then names the call and stays so.       *)
(***************************************************************************)
EXTENDS Integers, Sequences, SequencesExt, Functions

CONSTANTS Values,    \* the elements (integers)
          MaxLen,    \* bound: length of the array
          TwoTo32    \* 2^32, the range of a 32-bit length (scaled down for TLC)

VARIABLES seq, out, st,   \* the sequence, what the last read returned, the program
          op              \* the last call

AInit == seq = <<>> /\ out = <<>> /\ st = "ok" /\ op = <<>>

Stop(how) == st' = how /\ UNCHANGED <<seq, out>>
Returns(r) == out' = r /\ UNCHANGED <<seq, st>>
Becomes(s) == seq' = s /\ UNCHANGED <<out, st>>

APush(v) == op' = <<"push", v>> /\ Becomes(Append(seq, v))
AExtend == op' = <<"extend">> /\ Becomes(seq \o seq)
APop == /\ op' = <<"pop">>
        /\ IF seq = <<>> THEN Stop("pop") ELSE seq' = Front(seq) /\ out' = <<Last(seq)>> /\ st' = st
AEnds == op' = <<"ends">> /\ IF seq = <<>> THEN Stop("ends") ELSE Returns(<<Head(seq), Last(seq)>>)
\* An index of more than 32 bits may pass the check of the one it is cut to.
Outside(i) == IF i < TwoTo32 THEN Stop("aborted") ELSE Stop("aborted") \/ Stop("wide")
ASet(i, v) == /\ op' = <<"set", i, v>>
              /\ IF i \in 0..(Len(seq) - 1) THEN Becomes([seq EXCEPT ![i + 1] = v]) ELSE Outside(i)
AGet(i) == op' = <<"get", i>> /\ IF i \in 0..(Len(seq) - 1) THEN Returns(<<seq[i + 1]>>) ELSE Outside(i)
AFind(v) == /\ op' = <<"find", v>>
            /\ Returns(<<IF Contains(seq, v)
                         THEN (CHOOSE k \in DOMAIN seq : seq[k] = v /\ \A j \in 1..(k - 1) : seq[j] # v) - 1
                         ELSE -1>>)
ASlice(a, b) == /\ op' = <<"slice", a, b>>
                /\ IF a = b \/ (0 <= a /\ a < b /\ b <= Len(seq)) THEN Returns(SubSeq(seq, a + 1, b)) ELSE Stop("slice")
\* The elements below v (the predicate of the model), in their order.
AFilter(v) == /\ op' = <<"filter", v>>
              /\ \E m \in 0..Len(seq) : \E h \in [1..m -> DOMAIN seq] :
                    /\ \A i, j \in 1..m : i < j => h[i] < h[j]
                    /\ Range(h) = {i \in DOMAIN seq : seq[i] < v}
                    /\ Returns([i \in 1..m |-> seq[h[i]]])
AReverse == op' = <<"reverse">> /\ Becomes(Reverse(seq))
ASort == /\ op' = <<"sort">>
         /\ \E p \in [DOMAIN seq -> DOMAIN seq] :
               /\ IsInjective(p) /\ Range(p) = DOMAIN seq
               /\ \A i, j \in DOMAIN seq : i < j => seq[p[i]] <= seq[p[j]]
               /\ Becomes([i \in DOMAIN seq |-> seq[p[i]]])
AClear == op' = <<"clear">> /\ Becomes(<<>>)

ANext ==
    /\ st = "ok"
    /\ \/ \E v \in Values : APush(v) \/ AFind(v) \/ AFilter(v)
       \/ \E i \in -1..TwoTo32 : AGet(i) \/ \E v \in Values : ASet(i, v)
       \/ \E a, b \in -1..MaxLen : ASlice(a, b)
       \/ AExtend \/ APop \/ AEnds \/ AReverse \/ ASort \/ AClear

ASpec == AInit /\ [][ANext]_<<seq, out, st, op>>
=============================================================================

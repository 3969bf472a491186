---------------------------- MODULE ArrayMemory -----------------------------
(***************************************************************************)
(* Arrays as the emitted code keeps them (crates/doo_codegen: layout.rs,   *)
(* instructions/arrays.rs, builtins/array.rs): one block with a header     *)
(* [len, cap] in front of cap element slots.  Lengths are computed with 32 *)
(* bits, addresses with 64.  The loops the code emits are recursive        *)
(* functions over the index.  A read or a write outside the block makes    *)
(* the state "undef".                                                      *)
(***************************************************************************)
EXTENDS Integers, Sequences

CONSTANTS Values, MaxLen, TwoTo32
\* A block for MaxLen elements, doubled, has no slot that needs more than 32 bits.
ASSUME ArraySizes == Values \subseteq Int /\ MaxLen \in Nat /\ TwoTo32 \in Nat \ {0} /\ 2 * MaxLen <= TwoTo32

VARIABLES av   \* [len, cap, mem, out, st, op]; mem maps 0..cap-1 to words, op is the last call

Junk == 0      \* the content of memory that was never written
Trunc32(n) == n % TwoTo32
InBlock(i) == i \in 0..(av.cap - 1)
Running == av.st = "ok"
\* The state is "undef" where a check was meant to prevent it, else names the
\* unchecked call.
Undefined(call) == [av EXCEPT !.st = call]
Does(op, a) == Running /\ av' = [a EXCEPT !.op = op]

\* [1, 2]: len = cap = 0 is an empty literal.
ArrayInit == av = [len |-> 0, cap |-> 0, mem |-> <<>>, out |-> <<>>, st |-> "ok", op |-> <<>>]

CalculateNewCapacity(cap, need) == IF 2 * cap > need THEN 2 * cap ELSE need

\* The block for n elements: realloc keeps what it had.
ReallocArrayCapacity(n) ==
    IF n > av.cap
    THEN LET cap == CalculateNewCapacity(av.cap, n)
         IN  [av EXCEPT !.cap = cap, !.len = n,
                        !.mem = [i \in 0..(cap - 1) |-> IF InBlock(i) THEN @[i] ELSE Junk]]
    ELSE [av EXCEPT !.len = n]

\* Writes v to slot i of array a.
Store(a, i, v) == IF i \in DOMAIN a.mem THEN [a EXCEPT !.mem[i] = v]
                  ELSE [a EXCEPT !.st = "undef"]

ArrayPush(v) ==
    /\ av.len < MaxLen
    /\ Does(<<"push", v>>, Store(ReallocArrayCapacity(Trunc32(av.len + 1)), av.len, v))

\* extend with a copy of itself: memcpy behind the last element
ArrayExtend ==
    /\ 2 * av.len <= MaxLen
    /\ LET a == ReallocArrayCapacity(Trunc32(2 * av.len))
       IN  Does(<<"extend">>, [a EXCEPT !.mem = [i \in DOMAIN @ |->
                     IF i \in av.len..(2 * av.len - 1) THEN av.mem[i - av.len] ELSE @[i]]])

\* No check: on an empty array the word in front of the data is read and the
\* length wraps around.
EmitPop ==
    Does(<<"pop">>, IF av.len = 0 THEN Undefined("pop")
                    ELSE [av EXCEPT !.out = <<av.mem[av.len - 1]>>, !.len = Trunc32(av.len - 1)])

EmitFirstLast ==
    Does(<<"ends">>, IF av.len = 0 THEN Undefined("ends") ELSE [av EXCEPT !.out = <<av.mem[0], av.mem[av.len - 1]>>])

\* Both sides are truncated and compared unsigned, so -1 is out of bounds.
BoundsCheck(i) == Trunc32(i) < Trunc32(av.len)

Access(i, a) == IF ~BoundsCheck(i) THEN [av EXCEPT !.st = "aborted"]
                ELSE IF InBlock(i) THEN a ELSE Undefined(IF i < TwoTo32 THEN "undef" ELSE "wide")
ArrayGet(i) == Does(<<"get", i>>, Access(i, [av EXCEPT !.out = <<av.mem[i]>>]))
ArraySet(i, v) == Does(<<"set", i, v>>, Access(i, [av EXCEPT !.mem[i] = v]))

\* the loop of contains and indexOf
EmitIndexOf(v) ==
    LET Scan[i \in 0..av.len] ==
            IF i = av.len THEN -1 ELSE IF av.mem[i] = v THEN i ELSE Scan[i + 1]
    IN  Does(<<"find", v>>, [av EXCEPT !.out = <<Scan[0]>>])

\* A slice is not checked against the length of the array.
EmitSlice(a, b) ==
    Does(<<"slice", a, b>>,
       IF b < a \/ ~(\A i \in a..(b - 1) : i \in 0..(av.len - 1)) THEN Undefined("slice")
       ELSE [av EXCEPT !.out = [k \in 1..Trunc32(b - a) |-> av.mem[a + k - 1]]])

\* The predicate of the model: the elements below v.
EmitFilter(v) ==
    LET Loop[i \in 0..av.len] ==
            IF i = 0 THEN <<>>
            ELSE IF av.mem[i - 1] < v THEN Append(Loop[i - 1], av.mem[i - 1])
            ELSE Loop[i - 1]
    IN  Does(<<"filter", v>>, [av EXCEPT !.out = Loop[av.len]])

Swap(mem, i, j) == [mem EXCEPT ![i] = mem[j], ![j] = mem[i]]
EmitReverse ==
    LET Loop[i \in 0..(av.len \div 2)] ==
            IF i = 0 THEN av.mem ELSE Swap(Loop[i - 1], i - 1, av.len - i)
    IN  Does(<<"reverse">>, [av EXCEPT !.mem = Loop[av.len \div 2]])

InnerPassShort(mem, n) ==
    LET Loop[j \in 0..n] == IF j <= 1 THEN mem
                            ELSE IF Loop[j - 1][j - 2] > Loop[j - 1][j - 1]
                            THEN Swap(Loop[j - 1], j - 2, j - 1) ELSE Loop[j - 1]
    IN  Loop[IF n = 0 THEN 0 ELSE n - 1]
\* one pass of the bubble sort over the n elements
InnerPass(mem, n) ==
    LET Loop[j \in 0..n] == IF j <= 1 THEN mem
                            ELSE IF Loop[j - 1][j - 2] > Loop[j - 1][j - 1]
                            THEN Swap(Loop[j - 1], j - 2, j - 1) ELSE Loop[j - 1]
    IN  Loop[n]
EmitSort ==
    LET Outer[i \in 0..av.len] == IF i = 0 THEN av.mem ELSE InnerPass(Outer[i - 1], av.len)
    IN  Does(<<"sort">>, [av EXCEPT !.mem = Outer[av.len]])

EmitClear == Does(<<"clear">>, [av EXCEPT !.len = 0])

ArrayNext ==
    \/ \E v \in Values : ArrayPush(v) \/ EmitIndexOf(v) \/ EmitFilter(v)
    \/ \E i \in -1..TwoTo32 : ArrayGet(i) \/ \E v \in Values : ArraySet(i, v)
    \/ \E a, b \in -1..MaxLen : EmitSlice(a, b)
    \/ ArrayExtend \/ EmitPop \/ EmitFirstLast \/ EmitReverse \/ EmitSort \/ EmitClear
ArraySpecification == ArrayInit /\ [][ArrayNext]_av
-----------------------------------------------------------------------------
Contents == [k \in 1..av.len |-> IF InBlock(k - 1) THEN av.mem[k - 1] ELSE Junk]
Abs == INSTANCE ArraySpec WITH seq <- Contents, out <- av.out, st <- av.st, op <- av.op
(* The block with its header, through every growth, wrap and loop of the    *)
(* emitted code, behaves as the sequence of ArraySpec.                      *)
ArrayIsSequence == Abs!ASpec
=============================================================================

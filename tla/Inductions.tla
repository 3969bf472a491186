----------------------------- MODULE Inductions -----------------------------
(***************************************************************************)
(* Induction over numbers and finite sets, in the form the proofs use it:  *)
(* for sets, because a set can be instantiated where an operator cannot.   *)
(***************************************************************************)
EXTENDS Integers, WellFoundedInduction, TLAPS

\* A set of natural numbers that is not empty has a least element.
LEMMA Least ==
    ASSUME NEW T \in SUBSET Nat, T # {}
    PROVE  \E m \in T : \A k \in T : m <= k
<1> DEFINE R == OpToRel(<, Nat)
<1>1. IsWellFoundedOn(R, Nat)
  BY NatLessThanWellFounded
<1>2. \A y, m \in Nat : y < m => <<y, m>> \in R
  BY DEF OpToRel
<1> HIDE DEF R
<1>3. PICK m \in T : \A y \in T : ~(<<y, m>> \in R)
  BY <1>1, WFMin
<1>4. \A y \in T : ~(y < m)
  BY <1>2, <1>3
<1> QED
  BY <1>4

\* Hence a set that holds 0 and every successor of its numbers holds them all.
LEMMA Induct ==
    ASSUME NEW S, 0 \in S, \A n \in Nat : n \in S => n + 1 \in S
    PROVE  \A n \in Nat : n \in S
<1> DEFINE T == {n \in Nat : n \notin S}
<1>1. SUFFICES ASSUME T # {} PROVE FALSE
  OBVIOUS
<1>2. PICK m \in T : \A k \in T : m <= k
  BY <1>1, Least
<1>3. m # 0
  BY <1>2
<1>4. m - 1 \in Nat /\ m - 1 \notin T /\ m = (m - 1) + 1
  BY <1>2, <1>3
<1> QED
  BY <1>2, <1>4

\* Two sequences of states that agree at 0 and whose steps keep them equal agree at n.
LEMMA Together ==
    ASSUME NEW n \in Nat, NEW f, NEW g, f[0] = g[0],
           \A i \in 1..n : f[i - 1] = g[i - 1] => f[i] = g[i]
    PROVE  \A i \in 0..n : f[i] = g[i]
<1> DEFINE S == {m \in Nat : m <= n => f[m] = g[m]}
<1>1. 0 \in S
  OBVIOUS
<1>2. ASSUME NEW m \in Nat, m \in S PROVE m + 1 \in S
  <2>1. CASE m + 1 <= n
    <3>1. f[m] = g[m] /\ m + 1 \in 1..n /\ (m + 1) - 1 = m
      BY <1>2, <2>1
    <3>2. f[m + 1] = g[m + 1]
      BY <3>1
    <3> QED BY <3>2
  <2>2. CASE ~(m + 1 <= n)
    BY <2>2
  <2> QED BY <2>1, <2>2
<1> HIDE DEF S
<1>3. \A m \in Nat : m \in S
  BY <1>1, <1>2, Induct
<1> QED
  BY <1>3 DEF S

\* What holds at 0 and is kept by every step up to n holds at n.
LEMMA UpTo ==
    ASSUME NEW n \in Nat, NEW S, 0 \in S, \A i \in 1..n : i - 1 \in S => i \in S
    PROVE  \A i \in 0..n : i \in S
<1> DEFINE T == {m \in Nat : m <= n => m \in S}
<1>1. 0 \in T
  OBVIOUS
<1>2. ASSUME NEW m \in Nat, m \in T PROVE m + 1 \in T
  <2>1. CASE m + 1 <= n
    <3>1. m \in S /\ m + 1 \in 1..n /\ (m + 1) - 1 = m
      BY <1>2, <2>1
    <3> QED BY <3>1
  <2>2. CASE ~(m + 1 <= n)
    BY <2>2
  <2> QED BY <2>1, <2>2
<1> HIDE DEF T
<1>3. \A m \in Nat : m \in T
  BY <1>1, <1>2, Induct
<1> QED
  BY <1>3 DEF T

\* step is the body of a loop over 1..n with states in S; run lists the states it goes
\* through from a.
LoopBody(n, S, step) == step \in [(1..n) \X S -> S]
LoopStates(n, S, a, step, run) ==
    run \in [0..n -> S] /\ run[0] = a /\ \A i \in 1..n : run[i] = step[<<i, run[i - 1]>>]

\* A loop can be run.
LEMMA LoopRuns ==
    ASSUME NEW n \in Nat, NEW S, NEW a \in S, NEW step, LoopBody(n, S, step)
    PROVE  \E g : LoopStates(n, S, a, step, g)
<1> DEFINE T == {m \in 0..n : \E g : LoopStates(m, S, a, step, g)}
<1>1. 0 \in T
  <2>1. LoopStates(0, S, a, step, [i \in 0..0 |-> a])
    BY DEF LoopStates
  <2> QED BY <2>1
<1>2. ASSUME NEW m \in 1..n, m - 1 \in T PROVE m \in T
  <2>1. PICK g : LoopStates(m - 1, S, a, step, g)
    BY <1>2
  <2> DEFINE h == [i \in 0..m |-> IF i = m THEN step[<<m, g[m - 1]>>] ELSE g[i]]
  <2>2. m - 1 \in 0..(m - 1) /\ g[m - 1] \in S /\ step[<<m, g[m - 1]>>] \in S
    BY <2>1 DEF LoopStates, LoopBody
  <2>3. h \in [0..m -> S] /\ h[0] = a /\ h[m] = step[<<m, h[m - 1]>>]
    <3>1. g \in [0..(m - 1) -> S] /\ g[0] = a
      BY <2>1 DEF LoopStates
    <3>2. \A i \in 0..m : i # m => i \in 0..(m - 1)
      OBVIOUS
    <3>3. h \in [0..m -> S]
      BY <2>2, <3>1, <3>2
    <3>4. h[0] = g[0] /\ h[m - 1] = g[m - 1] /\ h[m] = step[<<m, g[m - 1]>>]
      OBVIOUS
    <3> QED BY <3>1, <3>3, <3>4
  <2>4. \A i \in 1..(m - 1) : h[i] = step[<<i, h[i - 1]>>]
    BY <2>1 DEF LoopStates
  <2>5. \A i \in 1..m : i = m \/ i \in 1..(m - 1)
    OBVIOUS
  <2> HIDE DEF h
  <2>6. LoopStates(m, S, a, step, h)
    BY <2>3, <2>4, <2>5 DEF LoopStates
  <2> QED BY <2>6
<1> HIDE DEF T
<1>3. n \in T
  BY <1>1, <1>2, UpTo
<1> QED
  BY <1>3 DEF T

\* Downwards: what holds at n and passes from every i to the one before holds at 0.
LEMMA DownTo ==
    ASSUME NEW n \in Nat, NEW S, n \in S, \A i \in 1..n : i \in S => i - 1 \in S
    PROVE  0 \in S
<1> DEFINE T == {m \in 0..n : n - m \in S}
<1>1. 0 \in T
  OBVIOUS
<1>2. ASSUME NEW m \in 1..n, m - 1 \in T PROVE m \in T
  <2>1. n - (m - 1) \in 1..n /\ n - (m - 1) \in S /\ (n - (m - 1)) - 1 = n - m
    BY <1>2
  <2> QED BY <2>1
<1> HIDE DEF T
<1>3. n \in T
  BY <1>1, <1>2, UpTo
<1> QED
  BY <1>3 DEF T
=============================================================================

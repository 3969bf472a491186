------------------------------ MODULE MapSpec -------------------------------
(***************************************************************************)
(* What a map of a Doo program promises: a finite function, and the keys   *)
(* listed in the order in which they were first added.                     *)
(***************************************************************************)
EXTENDS Naturals, Sequences, SequencesExt, Functions

CONSTANTS Keys, Vals, Default

VARIABLES fn, order, out,
          op    \* the last call

MInit == /\ \E K \in SUBSET Keys : fn \in [K -> Vals]
         /\ order \in Seq(DOMAIN fn) /\ IsInjective(order) /\ Range(order) = DOMAIN fn
         /\ out = <<>> /\ op = <<>>
MGet(k) == /\ op' = <<"get", k>> /\ out' = <<IF k \in DOMAIN fn THEN fn[k] ELSE Default>>
           /\ UNCHANGED <<fn, order>>
MHas(k) == /\ op' = <<"has", k>> /\ out' = <<IF k \in DOMAIN fn THEN 1 ELSE 0>>
           /\ UNCHANGED <<fn, order>>
MPut(k, v) == /\ op' = <<"set", k, v>> /\ out' = out
              /\ fn' = [x \in DOMAIN fn \cup {k} |-> IF x = k THEN v ELSE fn[x]]
              /\ order' = IF k \in DOMAIN fn THEN order ELSE Append(order, k)
MRemove(k) == /\ op' = <<"remove", k>> /\ out' = out
              /\ fn' = Restrict(fn, DOMAIN fn \ {k})
              /\ IF k \in DOMAIN fn THEN \E i \in DOMAIN order : order[i] = k /\ order' = RemoveAt(order, i)
                                    ELSE order' = order
MList == /\ op' = <<"list">> /\ out' = order \o [i \in DOMAIN order |-> fn[order[i]]]
         /\ UNCHANGED <<fn, order>>
MClear == op' = <<"clear">> /\ fn' = Restrict(fn, {}) /\ order' = <<>> /\ out' = out

MNext == \/ \E k \in Keys : MGet(k) \/ MHas(k) \/ MRemove(k) \/ \E v \in Vals : MPut(k, v)
         \/ MList \/ MClear
mvars == <<fn, order, out, op>>
MSpec == MInit /\ [][MNext]_mvars
=============================================================================

----------------------------- MODULE MatchCheck -----------------------------
(***************************************************************************)
(* The exhaustiveness check of match expressions                           *)
(* (crates/doo_analysis/src/semantic/exhaustiveness.rs).  A pattern is     *)
(* "_", the name of a literal or of an enum variant, "cond" for a          *)
(* condition, or "tuple_" for a tuple pattern with a wildcard in it.       *)
(* Guards are not looked at by the check: arms carry one here only so that *)
(* the properties can speak about it.                                      *)
(***************************************************************************)
EXTENDS Naturals, Sequences, FiniteSets

CONSTANTS Arms    \* the lists of arms, [p, guard]

ASSUME ArmsAreLists == \A a \in Arms : a \in Seq([p : STRING, guard : BOOLEAN])

VARIABLES mx      \* [ty, arms, i, covered, wild, errs, done]

Variants == {"A", "B"}
Bools == {"true", "false"}
Literals == {"one", "two"}
MatchedTypes == {"bool", "enum", "int", "any"}
Pattern(p, g) == [p |-> p, guard |-> g]

\* A value whose type is unknown gets the enum that its arms name.
EffectiveType(ty, arms) ==
    IF ty = "any" /\ \E i \in DOMAIN arms : arms[i].p \in Variants THEN "enum" ELSE ty

MatchStart(t, arms) ==
    [ty |-> t, arms |-> arms, i |-> 1, covered |-> {}, wild |-> FALSE, errs |-> {}, done |-> FALSE]
MatchInit == \E t \in MatchedTypes, a \in Arms : mx = MatchStart(t, a)

IsWildCond(p) == p \in {"_", "tuple_", "cond"}
IsWild(p) == p \in {"_", "tuple_"}
\* One arm: after a wildcard every arm is unreachable.
ProcessArm ==
    /\ mx.i <= Len(mx.arms)
    /\ LET p == mx.arms[mx.i].p
       IN  mx' = IF mx.wild THEN [mx EXCEPT !.i = @ + 1, !.errs = @ \cup {mx.i}]
                 ELSE [mx EXCEPT !.i = @ + 1, !.wild = IsWild(p),
                                 !.covered = @ \cup ({p} \ {"cond"})]

CheckBoolExhaustiveExact(c) == c = Bools
CheckBoolExhaustive(c) == Bools \subseteq c
CheckEnumExhaustiveAny(c) == Variants \cap c # {}
CheckEnumExhaustive(c) == Variants \subseteq c
IsExhaustive(ty) == \/ mx.wild
                    \/ ty = "bool" /\ CheckBoolExhaustive(mx.covered)
                    \/ ty = "enum" /\ CheckEnumExhaustive(mx.covered)
Missing == 0
CheckMatchExhaustive ==
    /\ mx.i > Len(mx.arms) /\ ~mx.done
    /\ mx' = [mx EXCEPT !.done = TRUE,
                        !.errs = IF IsExhaustive(EffectiveType(mx.ty, mx.arms))
                                 THEN @ ELSE @ \cup {Missing}]
MatchNext == ProcessArm \/ CheckMatchExhaustive
MatchSpec == MatchInit /\ [][MatchNext]_mx
-----------------------------------------------------------------------------
ValuesOf(ty) == CASE ty = "bool" -> Bools [] ty = "enum" -> Variants [] OTHER -> Literals
Taken(arm, v) == arm.p = "_" \/ arm.p = v
Guarded == \E i \in DOMAIN mx.arms : mx.arms[i].guard \/ mx.arms[i].p = "tuple_"
TheValues == ValuesOf(EffectiveType(mx.ty, mx.arms))

(* A match that is accepted has an arm for every value of its type, when no *)
(* arm has a guard and no tuple pattern stands for a wildcard.              *)
AcceptedIsTotal ==
    mx.done /\ Missing \notin mx.errs /\ ~Guarded =>
        \A v \in TheValues : \E i \in DOMAIN mx.arms : Taken(mx.arms[i], v)

(* An arm reported as unreachable is never the first that takes a value.    *)
UnreachableIsReal ==
    ~Guarded => \A i \in mx.errs \ {Missing}, v \in TheValues :
                    Taken(mx.arms[i], v) => \E j \in 1..(i - 1) : Taken(mx.arms[j], v)

(* A bool or an enum with all its values listed is not asked for "_".       *)
TotalIsAccepted ==
    mx.done /\ EffectiveType(mx.ty, mx.arms) \in {"bool", "enum"}
        /\ (\A v \in TheValues : \E i \in DOMAIN mx.arms : Taken(mx.arms[i], v))
      => Missing \notin mx.errs

\* The exhaustiveness check accepts a match if its arms cover every value, refuses
\* it if they do not, and calls an arm unreachable only when no value gets there.
MatchSound == AcceptedIsTotal /\ UnreachableIsReal /\ TotalIsAccepted
=============================================================================

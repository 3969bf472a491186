----------------------------- MODULE HeapValues -----------------------------
(***************************************************************************)
(* The memory behaviour of the code the compiler emits for the MIR         *)
(* instructions Move, Copy, Clone, Assign, Borrow and Drop                 *)
(* (crates/doo_codegen/src/instructions/memory.rs).                        *)
(*                                                                         *)
(* A value is a word: 0 stands for an unboxed value or a null pointer, n   *)
(* for the address of cell n of the heap.  A cell is one malloc block with *)
(* its slots.  A type is a record with a kind k: "int" is any unboxed      *)
(* type, "struct" has the types f of its fields, "array" and "opt" the     *)
(* type e of what they hold, "map" its key and value types.  The bytes of  *)
(* strings and the numbers are left out: the emitted code never branches   *)
(* on them here.                                                           *)
(***************************************************************************)
EXTENDS Naturals, Sequences, FiniteSets

CONSTANTS Vars,     \* the variables of the function
          Types,    \* the types they may have
          MaxCells  \* bound: blocks ever allocated

VARIABLES hv        \* [cells, bad, env]: the heap, whether a dead block was
                    \* used, and what each variable holds

IntT == [k |-> "int"]
StrT == [k |-> "str"]
StructT(f) == [k |-> "struct", f |-> f]
ArrayT(e) == [k |-> "array", e |-> e]
MapT(key, val) == [k |-> "map", key |-> key, val |-> val]
OptionalT(e) == [k |-> "opt", e |-> e]

\* The types of a block's slots: two elements per array, one entry per map.
SlotTypes(t) == CASE t.k = "struct" -> t.f
                  [] t.k = "array"  -> <<t.e, t.e>>
                  [] t.k = "map"    -> <<t.key, t.val>>
                  [] t.k = "opt"    -> <<t.e>>
                  [] OTHER          -> <<>>

Alive(h, p) == h.cells[p].live
Malloc(h, slots) ==
    [h |-> [h EXCEPT !.cells = Append(@, [slots |-> slots, live |-> TRUE])],
     p |-> Len(h.cells) + 1]
Touch(h, p) == [h EXCEPT !.bad = @ \/ ~Alive(h, p)]
FreeBlock(h, p) == [Touch(h, p) EXCEPT !.cells[p].live = FALSE]
-----------------------------------------------------------------------------
(* Cloning.  Each routine follows the pointers of some kinds of slots and   *)
(* copies every other word.                                                 *)

CloneString(h, p) == IF p = 0 THEN [h |-> h, p |-> 0] ELSE Malloc(Touch(h, p), <<>>)

RECURSIVE CloneSlots(_, _, _, _), CloneBlock(_, _, _, _), EmitDeepClone(_, _, _)

CloneSlots(h, slots, tys, deep) ==
    IF slots = <<>> THEN [h |-> h, s |-> <<>>]
    ELSE LET first == IF Head(tys).k \in deep
                      THEN EmitDeepClone(h, Head(slots), Head(tys))
                      ELSE [h |-> h, p |-> Head(slots)]
             rest  == CloneSlots(first.h, Tail(slots), Tail(tys), deep)
         IN  [h |-> rest.h, s |-> <<first.p>> \o rest.s]

\* A null source gives null; otherwise a new block whose slots are cloned.
CloneBlock(h, p, t, deep) ==
    IF p = 0 THEN [h |-> h, p |-> 0]
    ELSE LET r == CloneSlots(Touch(h, p), h.cells[p].slots, SlotTypes(t), deep)
         IN  Malloc(r.h, r.s)

CloneStructShallowArrays(h, p, t) == CloneBlock(h, p, t, {"str", "struct"})
CloneStruct(h, p, t) == CloneBlock(h, p, t, {"str", "struct", "array", "map"})
CloneArrayMemcpy(h, p, t) == CloneBlock(h, p, t, {"str"})
CloneArray(h, p, t) == CloneBlock(h, p, t, {"str", "struct"})
CloneMap(h, p, t) == CloneBlock(h, p, t, {"str"})
\* The pointer itself, unless it is handled as a string.
CloneOptional(h, p, t) ==
    IF p # 0 /\ t.e.k = "str" THEN CloneString(h, p) ELSE [h |-> h, p |-> p]

EmitDeepClone(h, p, t) == CASE t.k = "str"    -> CloneString(h, p)
                            [] t.k = "struct" -> CloneStruct(h, p, t)
                            [] t.k = "array"  -> CloneArray(h, p, t)
                            [] t.k = "map"    -> CloneMap(h, p, t)
                            [] t.k = "opt"    -> CloneOptional(h, p, t)
                            [] OTHER          -> [h |-> h, p |-> p]
-----------------------------------------------------------------------------
(* Dropping.                                                                *)

DropPointer(h, p) == IF p = 0 THEN h ELSE FreeBlock(h, p)

RECURSIVE DropSlots(_, _, _, _), DropByTypeKind(_, _, _)

\* Drops the slots whose kind is in `deep', in order.
DropSlots(h, slots, tys, deep) ==
    IF slots = <<>> THEN h
    ELSE DropSlots(IF Head(tys).k \in deep
                   THEN DropByTypeKind(h, Head(slots), Head(tys)) ELSE h,
                   Tail(slots), Tail(tys), deep)

DropBlock(h, p, t, deep) ==
    IF p = 0 THEN h
    ELSE FreeBlock(DropSlots(Touch(h, p), h.cells[p].slots, SlotTypes(t), deep), p)

\* String fields may point to literals and are left; of an optional field
\* only the box is freed.
DropStruct(h, p, t) ==
    IF p = 0 THEN h
    ELSE LET boxes == {i \in DOMAIN t.f : t.f[i].k = "opt"}
             slots == h.cells[p].slots
             inner == DropSlots(Touch(h, p), slots, t.f, {"struct", "array", "map"})
             FreeCell[B \in SUBSET boxes] ==
                 IF B = {} THEN inner
                 ELSE LET i == CHOOSE j \in B : \A k \in B : j <= k
                      IN  DropPointer(FreeCell[B \ {i}], slots[i])
         IN  FreeBlock(FreeCell[boxes], p)

Boxed == {"str", "struct", "array", "map", "opt"}
DropArrayBlockOnly(h, p, t) == DropBlock(h, p, t, {"str"})
DropArray(h, p, t) == DropBlock(h, p, t, Boxed)
DropMap(h, p, t) == DropBlock(h, p, t, Boxed)
DropOptional(h, p, t) == DropBlock(h, p, t, Boxed)

DropByTypeKind(h, p, t) == CASE t.k = "str"    -> DropPointer(h, p)
                             [] t.k = "struct" -> DropStruct(h, p, t)
                             [] t.k = "array"  -> DropArray(h, p, t)
                             [] t.k = "map"    -> DropMap(h, p, t)
                             [] t.k = "opt"    -> DropOptional(h, p, t)
                             [] OTHER          -> h

\* The Drop of a variable leaves a string alone: it may be a literal.
EmitDropStr(h, p, t) == DropByTypeKind(h, p, t)
EmitDrop(h, p, t) == IF t.k = "str" THEN h ELSE DropByTypeKind(h, p, t)
-----------------------------------------------------------------------------
(* The variables.  A variable is unset, owns its value, or (the destination *)
(* of a Borrow) refers to the value of another one and is never dropped.    *)

Unset == [t |-> IntT, p |-> 0, own |-> FALSE]

RECURSIVE Build(_, _)
Build(h, t) ==
    LET Fill[i \in 0..Len(SlotTypes(t))] ==
            IF i = 0 THEN [h |-> h, s |-> <<>>]
            ELSE LET r == Build(Fill[i - 1].h, SlotTypes(t)[i])
                 IN  [h |-> r.h, s |-> Append(Fill[i - 1].s, r.p)]
        all == Fill[Len(SlotTypes(t))]
    IN  IF t.k = "int" THEN [h |-> h, p |-> 0] ELSE Malloc(all.h, all.s)

HeapInit == hv = [cells |-> <<>>, bad |-> {}, env |-> [v \in Vars |-> Unset]]

Heap == [cells |-> hv.cells, bad |-> FALSE]
\* The state after heap operation h on behalf of a value of type t.
After(h, t, env) ==
    /\ Len(h.cells) <= MaxCells
    /\ hv' = [cells |-> h.cells, env |-> env,
              bad |-> hv.bad \cup (IF h.bad THEN {t} ELSE {})]
Owned(v) == hv.env[v].own
FreeCell(v) == ~Owned(v) /\ hv.env[v] = Unset

\* A literal, or a call's result, is stored in a new variable.
Create(v, t) ==
    /\ FreeCell(v)
    /\ LET r == Build(Heap, t)
       IN  After(r.h, t, [hv.env EXCEPT ![v] = [t |-> t, p |-> r.p, own |-> TRUE]])

CloneInto(v, w) ==
    /\ Owned(w) /\ FreeCell(v)
    /\ LET r == EmitDeepClone(Heap, hv.env[w].p, hv.env[w].t)
       IN  After(r.h, hv.env[w].t, [hv.env EXCEPT ![v] = [@ EXCEPT !.t = hv.env[w].t,
                                                          !.p = r.p, !.own = TRUE]])

\* Move and Assign copy the word; the ownership pass uses Move only where the
\* source is not read again.
MoveInto(v, w) ==
    /\ Owned(w) /\ FreeCell(v)
    /\ hv' = [hv EXCEPT !.env = [@ EXCEPT ![v] = hv.env[w], ![w] = Unset]]

\* A variable that others borrow is not dropped while they are used.
Drop(v) ==
    /\ Owned(v)
    /\ After(EmitDrop(Heap, hv.env[v].p, hv.env[v].t), hv.env[v].t,
             [hv.env EXCEPT ![v] = Unset])

HeapNext == \E v, w \in Vars : \/ \E t \in Types : Create(v, t)
                               \/ CloneInto(v, w)
                               \/ MoveInto(v, w)
                               \/ Drop(v)
HeapSpec == HeapInit /\ [][HeapNext]_hv
-----------------------------------------------------------------------------
\* The types whose clone duplicates every block that their drop frees: the
\* elements of an array are strings or such structs, the entries of a map
\* strings, and no optional occurs.
RECURSIVE Cloneable(_)
Cloneable(t) ==
    CASE t.k = "struct" -> \A i \in DOMAIN t.f : Cloneable(t.f[i])
      [] t.k = "array"  -> t.e.k \in {"int", "str", "struct"} /\ Cloneable(t.e)
      [] t.k = "map"    -> {t.key.k, t.val.k} \subseteq {"int", "str"}
      [] t.k = "opt"    -> FALSE
      [] OTHER          -> TRUE

RECURSIVE Reach(_)
Reach(p) == IF p = 0 THEN {}
            ELSE {p} \cup UNION {Reach(hv.cells[p].slots[i]) : i \in DOMAIN hv.cells[p].slots}

(* In any order of creating, cloning, moving and dropping, no block is read *)
(* or freed after it was freed, unless the value's type is one the clone    *)
(* routines copy by memcpy: arrays of arrays or maps, maps of anything but  *)
(* strings, optionals.                                                      *)
NoUseAfterFree == \A t \in hv.bad : ~Cloneable(t)

(* The values two variables own share no block: a change made through one   *)
(* cannot be seen through the other.                                        *)
ClonesDisjoint ==
    \A v, w \in {x \in Vars : Owned(x) /\ Cloneable(hv.env[x].t)} :
        v # w => Reach(hv.env[v].p) \cap Reach(hv.env[w].p) = {}

(* A block of two words or more that is still allocated belongs to some     *)
(* variable: drop leaves only strings behind.                               *)
OnlyStringsLeak ==
    \A c \in DOMAIN hv.cells :
        hv.cells[c].live /\ hv.cells[c].slots # <<>>
            => \E v \in Vars : c \in Reach(hv.env[v].p)

\* Every value of a program, through any sequence of creations, clones, moves and
\* drops the emitted code performs, is alive while it is reachable, shares no cell
\* with its clone and is freed as a whole.
HeapSafe == NoUseAfterFree /\ ClonesDisjoint /\ OnlyStringsLeak
=============================================================================

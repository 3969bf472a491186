---------------------------- MODULE BorrowCheck -----------------------------
(***************************************************************************)
(* The borrow checker (crates/doo_analysis/src/borrow/mod.rs), which walks *)
(* a function body once.  Every mention of a variable is a borrow that     *)
(* lives until its scope ends or the variable is bound or assigned again.  *)
(* The walk is seen as the sequence of what it meets: uses, mutable        *)
(* borrows, bindings, and the start and end of scopes.                     *)
(***************************************************************************)
EXTENDS Integers, Sequences

CONSTANTS BVars,      \* the variables of the function
          MaxEvents,  \* bound: what the walk meets
          MaxDepth    \* bound: nesting of blocks

VARIABLES bw   \* [active, depth, rejected, hist]: the borrows of each variable,
               \* scope depth, positions with an error, what was met so far

BorrowInit == bw = [active |-> [v \in BVars |-> <<>>], depth |-> 0,
                    rejected |-> {}, hist |-> <<>>]

AddBorrow(c, v, mut) ==
    [c EXCEPT !.active[v] = Append(@, [mut |-> mut, depth |-> c.depth])]
Reject(c) == [c EXCEPT !.rejected = @ \cup {Len(c.hist)}]

\* A rejected borrow is not recorded.
TryImmutableBorrow(c, v) ==
    IF \E i \in DOMAIN c.active[v] : c.active[v][i].mut THEN Reject(c) ELSE AddBorrow(c, v, FALSE)
TryMutableBorrowWeak(c, v) ==
    IF \E i \in DOMAIN c.active[v] : c.active[v][i].mut THEN Reject(c) ELSE AddBorrow(c, v, TRUE)
TryMutableBorrow(c, v) == IF c.active[v] # <<>> THEN Reject(c) ELSE AddBorrow(c, v, TRUE)

EnterBorrowScope(c) == [c EXCEPT !.depth = @ + 1]
ExitBorrowScopeKeep(c) == [c EXCEPT !.depth = @ - 1]
\* retain: of the borrows bs, in order, those of scopes outside depth d.
Outside(bs, d) ==
    LET Kept[i \in 0..Len(bs)] ==
            IF i = 0 THEN <<>> ELSE IF bs[i].depth < d THEN Append(Kept[i - 1], bs[i]) ELSE Kept[i - 1]
    IN  Kept[Len(bs)]
ExitBorrowScope(c) ==
    [c EXCEPT !.active = [v \in BVars |-> Outside(@[v], c.depth)], !.depth = @ - 1]
Forget(c, v) == [c EXCEPT !.active[v] = <<>>]

\* What the walk does at each node.
Saw(c, e, v) == [c EXCEPT !.hist = Append(@, [e |-> e, v |-> v])]
CheckBorrows(v) == bw' = TryImmutableBorrow(Saw(bw, "use", v), v)
CheckBorrowExpr(v) == bw' = TryMutableBorrow(Saw(bw, "mut", v), v)
\* let v = w and v = w: the value first, then the name is free again.
CheckLet(v, w) ==
    bw' = LET c == TryImmutableBorrow(Saw(bw, "use", w), w)
          IN  Saw(Forget(c, v), "bind", v)
\* The condition of an if or a while has a scope of its own.
CheckCondition(v) ==
    bw' = LET c == TryImmutableBorrow(EnterBorrowScope(Saw(bw, "cond", v)), v) IN ExitBorrowScope(c)
OpenBlock(v) == bw.depth < MaxDepth /\ bw' = EnterBorrowScope(Saw(bw, "open", v))
CloseBlock(v) == bw.depth > 0 /\ bw' = ExitBorrowScope(Saw(bw, "close", v))

BorrowNext ==
    /\ Len(bw.hist) < MaxEvents
    /\ \E v \in BVars : \/ CheckBorrows(v) \/ CheckBorrowExpr(v) \/ CheckCondition(v)
                        \/ OpenBlock(v) \/ CloseBlock(v)
                        \/ \E w \in BVars : CheckLet(v, w)
BorrowSpec == BorrowInit /\ [][BorrowNext]_bw
-----------------------------------------------------------------------------
(* The reference, for what the walk has met, h: the scope depth after each   *)
(* position; position j is in force at i when no binding of its variable and *)
(* no end of its scope lies between them; and position i conflicts with an   *)
(* earlier one that is in force and did not conflict itself.                 *)
Opens(e) == CASE e = "open" -> 1 [] e = "close" -> -1 [] OTHER -> 0
DepthIn(h) == LET Depth[i \in 0..Len(h)] == IF i = 0 THEN 0 ELSE Depth[i - 1] + Opens(h[i].e) IN Depth
InForce(h, j, i) == /\ h[j].v = h[i].v
                    /\ \A k \in (j + 1)..(i - 1) : ~(h[k].e = "bind" /\ h[k].v = h[i].v)
                    /\ \A k \in j..(i - 1) : DepthIn(h)[k] >= DepthIn(h)[j]
Clash(h, j, i) == h[j].e \in {"use", "mut"} /\ "mut" \in {h[i].e, h[j].e} /\ InForce(h, j, i)
ConflictsIn(h) ==
    LET Found[i \in 0..Len(h)] ==
            IF i = 0 THEN {}
            ELSE IF h[i].e \in {"use", "cond", "mut"} /\ \E j \in (1..(i - 1)) \ Found[i - 1] : Clash(h, j, i)
            THEN Found[i - 1] \cup {i} ELSE Found[i - 1]
    IN  Found[Len(h)]

(* The checker reports exactly the borrows that conflict with one still in  *)
(* force, through nested scopes, rebinding and earlier errors.              *)
ReportsConflicts == bw.rejected = ConflictsIn(bw.hist)

(* A variable that is mutably borrowed has no other borrow.                 *)
MutableIsAlone == \A v \in BVars : (\E i \in DOMAIN bw.active[v] : bw.active[v][i].mut)
                                      => Len(bw.active[v]) = 1

\* A conflict between borrows is reported where it happens, and only borrows that
\* do not conflict are recorded together.
BorrowsSound == ReportsConflicts /\ MutableIsAlone
=============================================================================

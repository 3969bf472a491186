--------------------------- MODULE DropInsertion ----------------------------
(***************************************************************************)
(* How the compiler decides who frees a value                              *)
(* (crates/doo_analysis/src/ownership: mod.rs and drop_insertion.rs).      *)
(*                                                                         *)
(* The ownership pass gives every use of a variable as a value a decision: *)
(* Move when no use follows in the text, else Clone; receivers and objects *)
(* of fields are borrowed.  The drop pass inserts a Drop after the last    *)
(* use of each variable that was not moved there, and drops before nested  *)
(* returns.  Here both run on a program, and then a path through the       *)
(* resulting body is executed with the meaning the emitted code gives to   *)
(* the instructions.                                                       *)
(*                                                                         *)
(* A statement is [k, v, d, a, b]: its kind, the variable it uses, the     *)
(* decision, and its blocks.  Kinds: "new" let v = literal; "bind" let y = *)
(* v for the variable y = Alias; "call" f(v); "meth" v.m(); "spawn" go {   *)
(* .. v .. }; "closure" |..| .. v ..; "ret" return v (v = NoVar: nothing); *)
(* "if" with blocks a and b; "while" with body a; "drop".  Expressions     *)
(* that hold several uses behave as several statements.                    *)
(***************************************************************************)
EXTENDS Naturals, Sequences, FiniteSets, SequencesExt

CONSTANTS Base, Alias,  \* the two variables: Alias is bound from Base
          NoVar,
          Blocks        \* the blocks programs are made of

VARIABLES dp   \* [prog, path, out]: the source, the executed path, its outcome

S(k, v) == [k |-> k, v |-> v, d |-> "none", a |-> <<>>, b |-> <<>>]
If(a, b) == [S("if", NoVar) EXCEPT !.a = a, !.b = b]
While(a) == [S("while", NoVar) EXCEPT !.a = a]
DropPrograms == {<<S("new", Base)>> \o p : p \in Blocks}
-----------------------------------------------------------------------------
(* Ownership analysis.                                                      *)

\* The variables a statement's expression uses; a closure's body is not
\* looked into.
CountUsesInExpr(s) == IF s.k \in {"new", "closure"} THEN {} ELSE {s.v} \ {NoVar}
RECURSIVE CountUses(_)
CountUses(block) ==
    UNION {CountUsesInExpr(block[i]) \cup CountUses(block[i].a) \cup CountUses(block[i].b)
             : i \in DOMAIN block}

\* later: the variables used further down in the text
DecideUse(v, later) == IF v \in later THEN "clone" ELSE "move"
\* Receivers are borrowed, other uses are decided, closures get nothing.
AnalyzeExpr(s, later) == CASE s.k \in {"bind", "call", "spawn", "ret"} -> DecideUse(s.v, later)
                           [] s.k = "meth" -> "borrow"
                           [] OTHER -> "none"

RECURSIVE AnalyzeStmts(_, _)
AnalyzeStmts(block, after) ==
    [i \in DOMAIN block |->
        LET s == block[i]
            later == CountUses(SubSeq(block, i + 1, Len(block))) \cup after
        IN  [s EXCEPT !.d = AnalyzeExpr(s, later),
                      !.a = AnalyzeStmts(@, CountUses(s.b) \cup later),
                      !.b = AnalyzeStmts(@, later)]]
-----------------------------------------------------------------------------
(* Drop insertion.                                                          *)

\* Records the last use of s: its index and its decision.
RecordUse(scan, s) == [scan EXCEPT !.last[s.v] = <<scan.idx, s.d>>]
\* Of the names in a spawned body, and in the body of a closure, those known
\* in the function count.
Known(scan, v) == v \in scan.needs \/ scan.last[v][2] # "unused"
ScanSpawnBodyForOuterUses(scan, s) == IF Known(scan, s.v) THEN RecordUse(scan, s) ELSE scan
ScanClosureBodyForOuterUses(scan, s) == IF Known(scan, s.v) THEN RecordUse(scan, s) ELSE scan
ScanExprForUses(scan, s) == CASE s.k = "new" \/ s.v = NoVar -> scan
                              [] s.k = "spawn"   -> ScanSpawnBodyForOuterUses(scan, s)
                              [] s.k = "closure" -> ScanClosureBodyForOuterUses(scan, s)
                              [] OTHER           -> RecordUse(scan, s)

Declares(s) == CASE s.k = "new" -> {s.v} [] s.k = "bind" -> {Alias} [] OTHER -> {}

RECURSIVE FindLastUses(_, _), ScanStmt(_, _)
\* An if rewinds the index between its blocks but not after the second one.
ScanStmt(scan, s) ==
    LET used  == [ScanExprForUses(scan, s) EXCEPT !.needs = @ \cup Declares(s)]
        thenB == [FindLastUses(used, s.a) EXCEPT !.idx = used.idx]
    IN  IF s.k = "if" THEN FindLastUses(thenB, s.b) ELSE thenB
FindLastUses(scan, block) ==
    FoldLeft(LAMBDA sc, s : [ScanStmt(sc, s) EXCEPT !.idx = @ + 1], scan, block)

LastUses(body) == FindLastUses([idx |-> 0, needs |-> {},
                                last |-> [v \in {Base, Alias} |-> <<0, "unused">>]], body)

ComputeDropsEvenMoved(scan) ==
    {[v |-> v, at |-> scan.last[v][1] + 1] :
        v \in {w \in scan.needs : scan.last[w][2] # "unused"}}
ComputeDropsNotBorrowed(scan) ==
    {[v |-> v, at |-> scan.last[v][1] + 1] :
        v \in {w \in scan.needs : scan.last[w][2] \notin {"unused", "move", "borrow"}}}
\* A variable whose last use moved it is not dropped.
ComputeDrops(scan) ==
    {[v |-> v, at |-> scan.last[v][1] + 1] :
        v \in {w \in scan.needs : scan.last[w][2] \notin {"unused", "move"}}}

\* Later positions first, so that the earlier ones stay valid.
ApplyDrops(body, drops) ==
    FoldLeft(LAMBDA bd, d : IF d.at <= Len(bd) THEN InsertAt(bd, d.at + 1, S("drop", d.v)) ELSE bd,
             body, SetToSortSeq(drops, LAMBDA x, y : x.at > y.at))

RECURSIVE DropsBeforeReturns(_, _)
DropsBeforeReturns(block, live) ==
    FoldLeft(LAMBDA acc, s :
        acc \o (IF s.k = "ret" THEN SetToSeq({S("drop", v) : v \in live \ {s.v}}) ELSE <<>>)
            \o <<[s EXCEPT !.a = DropsBeforeReturns(@, live),
                           !.b = DropsBeforeReturns(@, live)]>>, <<>>, block)

InsertEarlyReturnDrops(body, dropped) ==
    [i \in DOMAIN body |->
        LET live == dropped \ {body[j].v : j \in {k \in 1..(i - 1) : body[k].k = "drop"}}
        IN  [body[i] EXCEPT !.a = DropsBeforeReturns(@, live),
                            !.b = DropsBeforeReturns(@, live)]]

\* The order of the passes in the driver.
Compiled(prog) ==
    LET body  == AnalyzeStmts(prog, {})
        drops == ComputeDrops(LastUses(body))
    IN  InsertEarlyReturnDrops(ApplyDrops(body, drops), {d.v : d \in drops})
-----------------------------------------------------------------------------
(* Execution.  A loop runs zero, one or two times.                          *)

Seal(path) == LET r == {i \in DOMAIN path : path[i].k = "ret"}
              IN  IF r = {} THEN path
                  ELSE SubSeq(path, 1, CHOOSE i \in r : \A j \in r : i <= j)
RECURSIVE Paths(_)
Paths(block) ==
    IF block = <<>> THEN {<<>>}
    ELSE LET s == Head(block)
             here == CASE s.k = "if"    -> Paths(s.a) \cup Paths(s.b)
                       [] s.k = "while" -> {<<>>} \cup Paths(s.a)
                                             \cup {p \o q : p, q \in Paths(s.a)}
                       [] OTHER         -> {<<s>>}
         IN  {Seal(p \o q) : p \in here, q \in Paths(Tail(block))}

\* Objects are numbered; 0 is the null pointer every local starts with.
Start == [env |-> [v \in {Base, Alias} |-> 0], live |-> {}, n |-> 0,
          bad |-> FALSE, given |-> {}]
Use(m, v) == IF m.env[v] \in m.live \cup {0} THEN m ELSE [m EXCEPT !.bad = TRUE]
New(m, v) == [m EXCEPT !.n = @ + 1, !.live = @ \cup {m.n + 1}, !.env[v] = m.n + 1]
Exec(m, s) ==
    CASE s.k = "new"  -> New(m, s.v)
      [] s.k = "bind" -> IF s.d = "clone" THEN New(Use(m, s.v), Alias)
                         ELSE [Use(m, s.v) EXCEPT !.env[Alias] = m.env[s.v]]
      [] s.k \in {"call", "spawn", "ret"} /\ s.v # NoVar ->
             IF s.d = "clone" THEN Use(m, s.v)
             ELSE [Use(m, s.v) EXCEPT !.given = @ \cup {m.env[s.v]}]
      [] s.k \in {"meth", "closure"} -> Use(m, s.v)
      [] s.k = "drop" -> IF m.env[s.v] = 0 THEN m
                         ELSE [Use(m, s.v) EXCEPT !.live = @ \ {m.env[s.v]}]
      [] OTHER -> m

DropStart(p) == [prog |-> p, path |-> <<>>, out |-> "source"]
DropInit == \E p \in DropPrograms : dp = DropStart(p)
Compile == /\ dp.out = "source"
           /\ \E p \in Paths(Compiled(dp.prog)) : dp' = [dp EXCEPT !.path = p, !.out = "code"]
RunPath == /\ dp.out = "code"
       /\ LET m == FoldLeft(Exec, Start, dp.path)
          IN  dp' = [dp EXCEPT !.out = IF m.bad THEN "bad"
                                       ELSE IF m.live \subseteq m.given THEN "clean" ELSE "leak"]
DropNext == Compile \/ RunPath
-----------------------------------------------------------------------------
RECURSIVE Flat(_)
Flat(block) == FoldLeft(LAMBDA acc, s : Append(acc, s) \o Flat(s.a) \o Flat(s.b), <<>>, block)
FlatText == Flat(dp.prog)
\* A closure mentions the base variable after the program bound or gave it away.
CapturedAfterMove ==
    \E i, j \in DOMAIN FlatText : /\ i < j
                              /\ FlatText[i].k \in {"bind", "call", "spawn"}
                              /\ FlatText[j].k = "closure" /\ FlatText[i].v = FlatText[j].v

(* On every path, branches, loops and early returns included, no value is   *)
(* used or freed after it was freed.  The one exception is a variable that  *)
(* a closure captures after a use as a value: ownership analysis does not   *)
(* look into closures and calls that use a move, drop insertion does and    *)
(* frees what was moved.                                                    *)
NoUseAfterDrop == dp.out = "bad" => CapturedAfterMove

(* In straight-line code every value is freed or handed on, unless the      *)
(* variable that holds it is never used or is bound twice.  (After a branch *)
(* the index of a last use is only an upper bound, and a move in one branch *)
(* suppresses the drop for all: values may leak there.)                     *)
StraightCodeFrees ==
    dp.out = "leak" =>
        \/ \E i \in DOMAIN FlatText : FlatText[i].k \in {"if", "while", "ret"}
        \/ \E i \in DOMAIN FlatText :
              \/ FlatText[i].k = "bind" /\ \A j \in DOMAIN FlatText : FlatText[j].v # Alias
              \/ FlatText[i].k = "bind" /\ \E j \in DOMAIN FlatText : j # i /\ FlatText[j].k = "bind"

\* The drops the compiler inserts free a value once, after its last use on every
\* path, and free it at all on straight-line code.
DropsSound == NoUseAfterDrop /\ StraightCodeFrees
=============================================================================

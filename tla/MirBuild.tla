------------------------------ MODULE MirBuild ------------------------------
(***************************************************************************)
(* From structured statements to basic blocks: the MIR builder             *)
(* (crates/doo_mir/src/builder).  A program is a sequence of statements;   *)
(* the builder appends blocks to the function, each with instructions and  *)
(* one terminator, and jumps by label.  The blocks are then run, a branch  *)
(* taking its answer from a list fixed beforehand, and what they do is     *)
(* compared with what the statements mean.                                 *)
(***************************************************************************)
EXTENDS Integers, Sequences, SequencesExt

CONSTANTS Bodies,     \* the function bodies, built with the operators below
          FnKinds,      \* the kinds of function: "void", "fallible", "value"
          Answers     \* lists of what conditions evaluate to; FALSE after the end

VARIABLES mb  \* [body, kind, answers, blocks, at, i, left, trace, status]

\* Statements.  Ev stands for any expression with an effect.
Ev(e) == [k |-> "ev", e |-> e]
Jump(k) == [k |-> k]                      \* "break", "continue", "return", "ok"
NoElse == <<[k |-> "no else"]>>
IfS(a, b) == [k |-> "if", yes |-> a, no |-> b]   \* b a sequence, or NoElse
WhileS(body, incr) == [k |-> "while", body |-> body, incr |-> incr]
MatchS(arms) == [k |-> "match", arms |-> arms]   \* the arms' bodies, one at least
IfExpr(a, b) == [k |-> "ifexpr", yes |-> a, no |-> b]
TryS == [k |-> "try"]                     \* expr?
UnwrapS(msg) == [k |-> "unwrap", msg |-> msg]    \* expr or panic(msg)

\* Terminators; a new block is Unreachable until one is set.
Unreachable == [t |-> "unreachable"]
Goto(l) == [t |-> "goto", to |-> l]
Branch(y, n) == [t |-> "branch", yes |-> y, no |-> n]
Return == [t |-> "return"]
MirBlock(l) == [label |-> l, ins |-> <<>>, term |-> Unreachable]

\* The builder: the blocks, the last one current; the label counter; targets.
Builder == [blocks |-> <<MirBlock(0)>>, next |-> 1, break |-> <<>>, continue |-> <<>>, error |-> FALSE]
Cur(b) == Len(b.blocks)
Emit(b, e) == [b EXCEPT !.blocks[Cur(b)].ins = Append(@, e)]
SetTerminator(b, t) == [b EXCEPT !.blocks[Cur(b)].term = t]
SetTerminatorIfNone(b, t) == IF b.blocks[Cur(b)].term = Unreachable THEN SetTerminator(b, t) ELSE b
AddBlock(b, l) == [b EXCEPT !.blocks = Append(@, MirBlock(l))]
NewBlockLabels(b, n) == [b EXCEPT !.next = @ + n]

RECURSIVE BuildStmts(_, _), BuildArms(_, _, _)

BuildJump(b, k) ==
    CASE k = "break" /\ b.break # <<>> -> SetTerminator(b, Goto(Last(b.break)))
      [] k = "continue" /\ b.continue # <<>> -> SetTerminator(b, Goto(Last(b.continue)))
      [] k = "return" -> SetTerminator(b, Return)
      [] k = "ok" -> SetTerminator(Emit(b, "ok"), Return)
      [] OTHER -> b

BuildIfElseLabel(b, s) ==
    LET l == b.next
        b1 == SetTerminator(NewBlockLabels(b, 3), Branch(l, l + 1))
        b2 == SetTerminatorIfNone(BuildStmts(AddBlock(b1, l), s.yes), Goto(l + 2))
        b3 == IF s.no = NoElse THEN b2
              ELSE SetTerminatorIfNone(BuildStmts(AddBlock(b2, l + 1), s.no), Goto(l + 2))
    IN  AddBlock(b3, l + 2)
BuildIf(b, s) ==
    LET l == b.next
        b1 == SetTerminator(NewBlockLabels(b, 3), Branch(l, IF s.no = NoElse THEN l + 2 ELSE l + 1))
        b2 == SetTerminatorIfNone(BuildStmts(AddBlock(b1, l), s.yes), Goto(l + 2))
        b3 == IF s.no = NoElse THEN b2
              ELSE SetTerminatorIfNone(BuildStmts(AddBlock(b2, l + 1), s.no), Goto(l + 2))
    IN  AddBlock(b3, l + 2)

\* Labels: condition, body, exit and, with increment statements, increment.
BuildLoop(b, s, target) ==
    LET cond == b.next  body == cond + 1  exit == cond + 2  incr == cond + 3
        hasIncr == s.incr # <<>>
        b1 == SetTerminator(NewBlockLabels(b, IF hasIncr THEN 4 ELSE 3), Goto(cond))
        b2 == [b1 EXCEPT !.break = Append(@, exit), !.continue = Append(@, target)]
        b3 == SetTerminator(AddBlock(b2, cond), Branch(body, exit))
        b4 == SetTerminatorIfNone(BuildStmts(AddBlock(b3, body), s.body), Goto(IF hasIncr THEN incr ELSE cond))
        b5 == IF hasIncr THEN SetTerminatorIfNone(BuildStmts(AddBlock(b4, incr), s.incr), Goto(cond)) ELSE b4
    IN  AddBlock([b5 EXCEPT !.break = Front(@), !.continue = Front(@)], exit)
BuildWhileToCond(b, s) == BuildLoop(b, s, b.next)
BuildWhile(b, s) == BuildLoop(b, s, IF s.incr = <<>> THEN b.next ELSE b.next + 3)

\* match: the last arm is taken without a test.  An arm ends with a jump to merge.
BuildArms(b, arms, merge) ==
    LET arm == b.next  isLast == Len(arms) = 1
        b1 == IF isLast THEN SetTerminator(NewBlockLabels(b, 1), Goto(arm))
              ELSE SetTerminator(NewBlockLabels(b, 2), Branch(arm, arm + 1))
        b2 == SetTerminator(BuildStmts(AddBlock(b1, arm), Head(arms)), Goto(merge))
    IN  IF isLast THEN b2 ELSE BuildArms(AddBlock(b2, arm + 1), Tail(arms), merge)
BuildMatch(b, s) == AddBlock(BuildArms(NewBlockLabels(b, 1), s.arms, b.next), b.next)

BuildIfExpr(b, s) ==
    LET l == b.next
        b1 == SetTerminator(NewBlockLabels(b, 3), Branch(l, l + 1))
        b2 == SetTerminator(BuildStmts(AddBlock(b1, l), s.yes), Goto(l + 2))
        b3 == SetTerminator(BuildStmts(AddBlock(b2, l + 1), s.no), Goto(l + 2))
    IN  AddBlock(b3, l + 2)

\* expr?: with an error type the error is returned, otherwise the program panics.
BuildTry(b) ==
    LET l == b.next
        b1 == SetTerminator(NewBlockLabels(b, 3), Branch(l, l + 1))
        b2 == AddBlock(SetTerminator(AddBlock(b1, l), Goto(l + 2)), l + 1)
        b3 == IF b.error THEN SetTerminator(Emit(b2, "err"), Return) ELSE Emit(b2, "panic")
    IN  AddBlock(b3, l + 2)
BuildUnwrap(b, s) ==
    LET l == b.next
        b1 == SetTerminator(NewBlockLabels(b, 3), Branch(l, l + 1))
        b2 == AddBlock(SetTerminator(AddBlock(b1, l), Goto(l + 2)), l + 1)
    IN  AddBlock(Emit(Emit(b2, s.msg), "panic"), l + 2)

BuildStmt(b, s) ==
    CASE s.k = "ev" -> Emit(b, s.e)
      [] s.k = "if" -> BuildIf(b, s)
      [] s.k = "while" -> BuildWhile(b, s)
      [] s.k = "match" -> BuildMatch(b, s)
      [] s.k = "ifexpr" -> BuildIfExpr(b, s)
      [] s.k = "try" -> BuildTry(b)
      [] s.k = "unwrap" -> BuildUnwrap(b, s)
      [] OTHER -> BuildJump(b, s.k)
BuildStmts(b, ss) == IF ss = <<>> THEN b ELSE BuildStmts(BuildStmt(b, Head(ss)), Tail(ss))

\* A function with a return type returns its last expression; one without gets
\* a return (of Ok when it may fail) where control reaches the end.
BuildFunctionNoEnd(body, kind) == BuildStmts([Builder EXCEPT !.error = kind = "fallible"], body).blocks
BuildFunction(body, kind) ==
    LET b0 == [Builder EXCEPT !.error = kind = "fallible"]
        implicit == kind = "value" /\ body # <<>> /\ Last(body).k \notin {"if", "while", "break", "continue", "return"}
        b1 == BuildStmts(b0, body)
        b2 == CASE kind = "value" -> IF implicit THEN SetTerminatorIfNone(b1, Return) ELSE b1
                [] b1.blocks[Cur(b1)].term # Unreachable -> b1
                [] kind = "fallible" -> SetTerminator(Emit(b1, "ok"), Return)
                [] OTHER -> SetTerminator(b1, Return)
    IN  b2.blocks

-----------------------------------------------------------------------------
\* What the statements mean: [trace, left, how], how one of "next", "break",
\* "continue", "return", "panic".
RECURSIVE RunBody(_, _, _), Loop(_, _, _)
Res(trace, left, how) == [trace |-> trace, left |-> left, how |-> how]
ReadsOf(left) == left # <<>> /\ Head(left)
Rest(left) == IF left = <<>> THEN left ELSE Tail(left)
Then(r, ss, error) == IF r.how = "next" THEN LET n == RunBody(ss, r.left, error) IN [n EXCEPT !.trace = r.trace \o @] ELSE r
Loop(s, left, error) ==
    IF ~ReadsOf(left) THEN Res(<<>>, Rest(left), "next")
    ELSE LET r == RunBody(s.body, Rest(left), error)
             i == RunBody(s.incr, r.left, error)
             n == Loop(s, i.left, error)
         IN  CASE r.how = "break" -> [r EXCEPT !.how = "next"]
               [] r.how \in {"return", "panic"} -> r
               [] OTHER -> [n EXCEPT !.trace = r.trace \o i.trace \o @]
RunArms(arms, left, error) ==
    LET Go[i \in 1..Len(arms)] == [rest \in 0..Len(left) |->
            LET l == SubSeq(left, Len(left) - rest + 1, Len(left))
            IN  IF i = Len(arms) THEN RunBody(arms[i], l, error)
                ELSE IF ReadsOf(l) THEN RunBody(arms[i], Rest(l), error)
                ELSE Go[i + 1][Len(Rest(l))]]
    IN  Go[1][Len(left)]
RunStmt(s, left, error) ==
    CASE s.k = "ev" -> Res(<<s.e>>, left, "next")
      [] s.k \in {"if", "ifexpr"} -> IF ReadsOf(left) THEN RunBody(s.yes, Rest(left), error)
                                     ELSE IF s.no = NoElse THEN Res(<<>>, Rest(left), "next")
                                     ELSE RunBody(s.no, Rest(left), error)
      [] s.k = "while" -> Loop(s, left, error)
      [] s.k = "match" -> RunArms(s.arms, left, error)
      [] s.k = "try" -> IF ReadsOf(left) THEN Res(<<>>, Rest(left), "next")
                        ELSE IF error THEN Res(<<"err">>, Rest(left), "return")
                        ELSE Res(<<"panic">>, Rest(left), "panic")
      [] s.k = "unwrap" -> IF ReadsOf(left) THEN Res(<<>>, Rest(left), "next")
                           ELSE Res(<<s.msg, "panic">>, Rest(left), "panic")
      [] s.k = "ok" -> Res(<<"ok">>, left, "return")
      [] OTHER -> Res(<<>>, left, s.k)
RunBody(ss, left, error) ==
    IF ss = <<>> THEN Res(<<>>, left, "next") ELSE Then(RunStmt(Head(ss), left, error), Tail(ss), error)
Meaning(body, kind, answers) ==
    LET r == RunBody(body, answers, kind = "fallible")
    IN  IF kind = "fallible" /\ r.how = "next" THEN Append(r.trace, "ok") ELSE r.trace

-----------------------------------------------------------------------------
\* Bodies whose jumps are the last statement of their block and not inside a
\* match arm or an if expression (the builder loses or delays the others), with
\* break and continue in loops only.
Returns == {"return", "ok"}
LoopJumps == {"break", "continue"}
Jumps == Returns \cup LoopJumps
RECURSIVE WellPlaced(_, _)
WellPlaced(ss, ok) ==
    \A i \in DOMAIN ss : LET s == ss[i] IN
        /\ s.k \in Jumps => s.k \in ok /\ i = Len(ss)
        /\ s.k = "if" => WellPlaced(s.yes, ok) /\ (s.no # NoElse => WellPlaced(s.no, ok))
        /\ s.k = "while" => WellPlaced(s.body, IF ok = {} THEN {} ELSE Jumps) /\ WellPlaced(s.incr, {})
        /\ s.k = "match" => \A j \in DOMAIN s.arms : WellPlaced(s.arms[j], {})
        /\ s.k = "ifexpr" => WellPlaced(s.yes, {}) /\ WellPlaced(s.no, {})
\* A value function ends in a value or in a return (the return check).
RECURSIVE EndsInReturn(_)
EndsInReturn(ss) ==
    ss # <<>> /\ LET s == Last(ss) IN
        \/ s.k \in {"ev", "return", "match", "ifexpr", "try"}
        \/ s.k = "if" /\ s.no # NoElse /\ EndsInReturn(s.yes) /\ EndsInReturn(s.no)
           /\ Last(s.yes).k = "return" /\ Last(s.no).k = "return"

MirStart(body, kind, answers) ==
    [body |-> body, kind |-> kind, answers |-> answers, blocks |-> BuildFunction(body, kind),
     at |-> 1, i |-> 0, left |-> answers, trace |-> <<>>, status |-> "run"]
MirInit ==
    \E body \in Bodies, kind \in FnKinds, answers \in Answers :
        /\ WellPlaced(body, Returns)
        /\ kind = "value" => EndsInReturn(body)
        /\ mb = MirStart(body, kind, answers)
Here == mb.blocks[mb.at]
BlockOf(l) == CHOOSE n \in DOMAIN mb.blocks : mb.blocks[n].label = l
\* The generated code: an instruction, or the terminator after the last one.
ExecInstr ==
    /\ mb.status = "run" /\ mb.i < Len(Here.ins)
    /\ LET e == Here.ins[mb.i + 1]
       IN  mb' = [mb EXCEPT !.i = @ + 1, !.trace = Append(@, e),
                            !.status = IF e = "panic" THEN "end" ELSE @]
ExecTerm ==
    /\ mb.status = "run" /\ mb.i = Len(Here.ins)
    /\ LET t == Here.term
           Enter(l) == [mb EXCEPT !.at = BlockOf(l), !.i = 0]
       IN  mb' = CASE t.t = "goto" -> Enter(t.to)
                   [] t.t = "branch" -> [Enter(IF ReadsOf(mb.left) THEN t.yes ELSE t.no) EXCEPT !.left = Rest(@)]
                   [] t.t = "return" -> [mb EXCEPT !.status = "end"]
                   [] OTHER -> [mb EXCEPT !.status = "fell"]
MirNext == ExecInstr \/ ExecTerm

-----------------------------------------------------------------------------
\* The blocks the builder makes of if, while, match, ? and the jumps do, in order,
\* what the statements mean: no branch is merged into the wrong block, continue
\* runs the increment, break leaves the innermost loop, an error is returned.
BlocksMeanStatements ==
    mb.status = "end" => mb.trace = Meaning(mb.body, mb.kind, mb.answers)

\* Control never runs off a block that has no terminator (undefined behaviour in
\* the generated code): every path of an accepted function ends in a return.
NoFallThrough == mb.status # "fell"

\* Every label that is jumped to belongs to exactly one block.
LabelsResolve ==
    \A n \in DOMAIN mb.blocks : LET t == mb.blocks[n].term IN
        \A l \in (IF t.t = "goto" THEN {t.to} ELSE IF t.t = "branch" THEN {t.yes, t.no} ELSE {}) :
            \E m \in DOMAIN mb.blocks : mb.blocks[m].label = l
                                        /\ \A k \in DOMAIN mb.blocks : mb.blocks[k].label = l => k = m

\* The blocks built for a body do what its statements say, every block ends in a
\* terminator of its own and every label is that of one block.
MirFaithful == BlocksMeanStatements /\ NoFallThrough /\ LabelsResolve
=============================================================================

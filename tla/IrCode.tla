------------------------------- MODULE IrCode -------------------------------
(***************************************************************************)
(* What IrGenerator (ir/mod.rs) emits for a function body, and what        *)
(* IrBuilder (ir/builder.rs) makes of it: instructions with their labels   *)
(* fixed up and the sorted table of exception blocks.  Addresses count     *)
(* from 1.  The instructions that evaluate one expression are one "eval"   *)
(* or, when a conditional jump follows, one "branch".                      *)
(***************************************************************************)
EXTENDS Statements, SequencesExt, TLC

\* An instruction: the place it belongs to, its label, the outcome it jumps on;
\* on = "go" in an eval that decides on another turn (EmitFor).
Instr(op, at, to, on) == [op |-> op, at |-> at, to |-> to, on |-> on]
Op(op) == Instr(op, NoPlace, 0, "")

-----------------------------------------------------------------------------
(* IrBuilder.  A label is an index of g.labels; g.open is try_catch_stack. *)
NoRange == [from |-> 0, to |-> 0]
InRange(r, ip) == ip >= r.from /\ ip < r.to
Present(r) == r # NoRange

NewGenerator ==
  [ir |-> <<>>, labels |-> <<>>, open |-> <<>>, done |-> <<>>,
   breaks |-> <<>>, continues |-> <<>>, depth |-> 0, ret |-> 0]

NextAddr(g) == Len(g.ir) + 1                                \* the next address
Emit(g, i) == [g EXCEPT !.ir = Append(@, i)]
NewLabel(g) == [g EXCEPT !.labels = Append(@, 0)]           \* its index is Len(labels)
Marked(g, l) == [g EXCEPT !.labels[l] = NextAddr(g)]

StartException(g) ==
  [g EXCEPT !.open = Append(@, [try |-> [from |-> NextAddr(g), to |-> 0],
                                catch |-> NoRange, finally |-> NoRange])]
\* The part that is being emitted ends here.
ClosePart(g) ==
  LET t == Last(g.open)
      part == IF Present(t.finally) THEN "finally"
              ELSE IF Present(t.catch) THEN "catch" ELSE "try"
  IN [g EXCEPT !.open[Len(g.open)][part].to = NextAddr(g)]
StartCatch(g) ==
  [ClosePart(g) EXCEPT !.open[Len(g.open)].catch = [from |-> NextAddr(g), to |-> 0]]
StartFinally(g) ==
  [ClosePart(g) EXCEPT !.open[Len(g.open)].finally = [from |-> NextAddr(g), to |-> 0]]
EndException(g) ==
  LET h == ClosePart(g) IN
  [h EXCEPT !.open = Front(@), !.done = Append(@, Last(h.open))]

\* The order of the table: the blocks that start last first, of those that
\* start together the one that ends first.
Before(x, y) == \/ x.try.from > y.try.from
                \/ x.try.from = y.try.from /\ x.try.to < y.try.to
Jumps == {"jump", "branch", "leave", "next"}
Built(g) ==
  [ir |-> [a \in DOMAIN g.ir |-> IF g.ir[a].op \in Jumps
                                 THEN [g.ir[a] EXCEPT !.to = g.labels[@]] ELSE g.ir[a]],
   blocks |-> SortSeq(g.done, Before)]

-----------------------------------------------------------------------------
(* Break and continue targets: NamedLabel, get_target.                     *)
Target(g, l) == [name |-> l, label |-> Len(g.labels), depth |-> g.depth]
PushBreak(g, l) == LET h == NewLabel(g) IN [h EXCEPT !.breaks = Append(@, Target(h, l))]
PushContinue(g, l) == LET h == NewLabel(g) IN [h EXCEPT !.continues = Append(@, Target(h, l))]

GetTarget(targets, l) ==
  IF l = NoLabel THEN Last(targets)
  ELSE targets[SelectLastInSeq(targets, LAMBDA t : t.name = l)]

MarkBreak(g) == [Marked(g, Last(g.breaks).label) EXCEPT !.breaks = Front(@)]
MarkContinue(g) == Marked(g, Last(g.continues).label)
PopContinue(g) == [g EXCEPT !.continues = Front(@)]
Deeper(g, d) == [g EXCEPT !.depth = @ + d]

EmitBreakContinue(g, kind, l) ==
  LET t == GetTarget(IF kind = "break" THEN g.breaks ELSE g.continues, l) IN
  Emit(g, Instr(IF t.depth = g.depth THEN "jump" ELSE "leave", NoPlace, t.label, ""))

EmitReturn(g, at) ==
  IF g.depth = 0 THEN Emit(g, Instr("return", at, 0, ""))
  ELSE LET h == IF g.ret # 0 THEN g
                ELSE LET n == NewLabel(g) IN [n EXCEPT !.ret = Len(n.labels)]
       IN Emit(Emit(h, Instr("store", at, 0, "")), Instr("leave", NoPlace, h.ret, ""))

-----------------------------------------------------------------------------
(* The statements.  thick: the function builds a thick scope (eval or with *)
(* occurs in it), so that a catch clause enters an environment of its own. *)
RECURSIVE EmitStmt(_, _, _, _), EmitFrom(_, _, _, _, _)

EmitFrom(g, ss, i, at, thick) ==
  IF i > Len(ss) THEN g
  ELSE EmitFrom(EmitStmt(g, ss[i], Append(at, i), thick), ss, i + 1, at, thick)

\* emit_with, and the body of a catch clause in a thick scope: a block whose
\* finally part leaves the environment.  first is emitted inside the block.
EmitInEnv(g, first, s, at, thick) ==
  LET b == EmitStmt(first, s, at, thick)
      l == NewLabel(b)
      f == StartFinally(Emit(l, Instr("leave", NoPlace, Len(l.labels), "")))
  IN Marked(EndException(Emit(Emit(f, Op("leaveenv")), Op("endfinally"))), Len(l.labels))

EmitWith(g, s, at, thick) ==
  LET e == Emit(Emit(Deeper(g, 1), Instr("eval", Append(at, 2), 0, "")), Op("enterenv"))
  IN Deeper(EmitInEnv(e, StartException(e), s.body, Append(at, 1), thick), -1)

EmitCatch(g, s, at, after, thick) ==
  LET caught(h) == Emit(h, Instr("exception", Append(at, 4), 0, ""))
      c == StartCatch(g)
      e == StartException(Emit(Deeper(c, 1), Op("enterenv")))
      body == IF thick
              THEN Deeper(EmitInEnv(e, caught(e), s.catch, Append(at, 2), thick), -1)
              ELSE EmitStmt(caught(c), s.catch, Append(at, 2), thick)
  IN Emit(body, Instr("leave", NoPlace, after, ""))

EmitTry(g, s, at, thick) ==
  LET l     == NewLabel(Deeper(g, 1))
      after == Len(l.labels)
      b == Emit(EmitStmt(StartException(l), s.try, Append(at, 1), thick),
                Instr("leave", NoPlace, after, ""))
      c == IF s.catch = None THEN b ELSE EmitCatch(b, s, at, after, thick)
      f == IF s.finally = None THEN c
           ELSE Emit(EmitStmt(StartFinally(c), s.finally, Append(at, 3), thick),
                     Op("endfinally"))
  IN Deeper(Marked(EndException(f), after), -1)

\* The name that NextIter found is stored, inside the block.
EmitForIn(g, s, at, thick) ==
  LET p == PushContinue(PushBreak(g, s.label), s.label)
      n == NewLabel(Emit(p, Instr("eval", Append(at, 3), 0, "")))
      next == Len(n.labels)
      j == Emit(StartException(n), Instr("jump", NoPlace, Last(p.continues).label, ""))
      c == Emit(Marked(j, next), Instr("eval", Append(at, 5), 0, ""))
      b == EmitStmt(c, s.body, Append(at, 1), thick)
      t == Emit(Emit(MarkContinue(b), Instr("next", Append(at, 2), next, "go")),
                Instr("leave", NoPlace, Last(p.breaks).label, ""))
      f == Emit(Emit(StartFinally(t), Op("enditer")), Op("endfinally"))
  IN PopContinue(MarkBreak(EndException(f)))

EmitWhile(g, s, at, thick) ==
  LET p == NewLabel(PushContinue(PushBreak(g, s.label), s.label))
      start == Len(p.labels)
      j == Marked(Emit(p, Instr("jump", NoPlace, Last(p.continues).label, "")), start)
      b == MarkContinue(EmitStmt(j, s.body, Append(at, 1), thick))
  IN PopContinue(MarkBreak(Emit(b, Instr("branch", Append(at, 2), start, "go"))))

EmitDo(g, s, at, thick) ==
  LET p == NewLabel(PushContinue(PushBreak(g, s.label), s.label))
      start == Len(p.labels)
      b == MarkContinue(EmitStmt(Marked(p, start), s.body, Append(at, 1), thick))
  IN PopContinue(MarkBreak(Emit(b, Instr("branch", Append(at, 2), start, "go"))))

\* Without a test the increment alone says how often the body runs ("go").
EmitFor(g, s, at, thick) ==
  LET p == NewLabel(NewLabel(PushContinue(PushBreak(g, s.label), s.label)))
      test == Len(p.labels) - 1
      body == Len(p.labels)
      j == Emit(Emit(p, Instr("eval", Append(at, 3), 0, "")), Instr("jump", NoPlace, test, ""))
      b == MarkContinue(EmitStmt(Marked(j, body), s.body, Append(at, 1), thick))
      i == Marked(Emit(b, Instr("eval", Append(at, 4), 0, IF s.test THEN "" ELSE "go")), test)
  IN PopContinue(MarkBreak(Emit(i,
       IF s.test THEN Instr("branch", Append(at, 2), body, "go")
       ELSE Instr("jump", NoPlace, body, ""))))

EmitIf(g, s, at, thick) ==
  LET l     == IF s.else = None THEN NewLabel(g) ELSE NewLabel(NewLabel(g))
      after == Len(l.labels)
      on_stop == Len(g.labels) + 1                \* the else part, or after
      t == Emit(l, Instr("branch", Append(at, 2), on_stop, "stop"))
      b == EmitStmt(t, s.body, Append(at, 1), thick)
      e == Marked(Emit(b, Instr("jump", NoPlace, after, "")), on_stop)
  IN Marked(IF s.else = None THEN b ELSE EmitStmt(e, s.else, Append(at, 3), thick), after)

EmitSwitch(g, s, at, thick) ==
  LET p == Emit(PushBreak(g, s.label), Instr("eval", Append(at, 100), 0, ""))
      base == Len(p.labels)                       \* clause i has label base + i
      tests == FoldLeftDomain(LAMBDA h, i :
                 IF i = s.default THEN NewLabel(h)
                 ELSE Emit(NewLabel(h), Instr("branch", Append(at, 100 + i), base + i, "go")),
                 p, s.stmts)
      none == IF s.default = 0 THEN Last(p.breaks).label ELSE base + s.default
      j == Emit(tests, Instr("jump", NoPlace, none, ""))
  IN MarkBreak(FoldLeftDomain(LAMBDA h, i :
       EmitStmt(Marked(h, base + i), s.stmts[i], Append(at, i), thick), j, s.stmts))

EmitBlock(g, s, at, thick) ==
  IF s.label = NoLabel THEN EmitFrom(g, s.stmts, 1, at, thick)
  ELSE MarkBreak(EmitFrom(PushBreak(g, s.label), s.stmts, 1, at, thick))

EmitStmt(g, s, at, thick) ==
  CASE s.kind = "mark"   -> Emit(g, Instr("eval", at, 0, ""))
    [] s.kind = "block"  -> EmitBlock(g, s, at, thick)
    [] s.kind = "if"     -> EmitIf(g, s, at, thick)
    [] s.kind = "while"  -> EmitWhile(g, s, at, thick)
    [] s.kind = "do"     -> EmitDo(g, s, at, thick)
    [] s.kind = "for"    -> EmitFor(g, s, at, thick)
    [] s.kind = "forin"  -> EmitForIn(g, s, at, thick)
    [] s.kind = "with"   -> EmitWith(g, s, at, thick)
    [] s.kind = "switch" -> EmitSwitch(g, s, at, thick)
    [] s.kind = "try"    -> EmitTry(g, s, at, thick)
    [] s.kind = "return" -> EmitReturn(g, at)
    [] s.kind \in {"break", "continue"} -> EmitBreakContinue(g, s.kind, s.label)

\* build_function_ir: the body, return undefined, and the return target.
FunctionIr(prog, thick) ==
  LET b == Emit(EmitStmt(NewGenerator, prog, <<>>, thick), Op("end"))
  IN Built(IF b.ret = 0 THEN b ELSE Emit(Marked(b, b.ret), Op("returnlocal")))
=============================================================================

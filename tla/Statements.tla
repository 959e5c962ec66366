----------------------------- MODULE Statements -----------------------------
(***************************************************************************)
(* The statements of syntax/ast/mod.rs's Item that steer control, and what *)
(* ECMA-262 5.1 chapter 12 says of them: the specification that the code   *)
(* generator (IrCode) and the interpreter (Unwind) are checked against.    *)
(*                                                                         *)
(* Expressions are reduced to events.  An event is the evaluation of one   *)
(* expression at one place of the program: [at, got, env, exc], where at   *)
(* is the path of the place, got the outcome ("ok", "throw", or "go" and   *)
(* "stop" for a condition; the increment of a for without a condition says *)
(* "go"), env the number of object environments entered around it and exc  *)
(* the exception a catch clause was given (a catch event has got =         *)
(* "catch").  An exception is named by the place that threw it.            *)
(***************************************************************************)
EXTENDS Integers, Sequences

\* An if has its else part or None; a for has a test or not; default is the
\* index of the default clause of a switch, 0 if it has none.
None == [kind |-> "none"]       \* an absent else, catch or finally

Mark            == [kind |-> "mark"]
Block(l, ss)    == [kind |-> "block", label |-> l, stmts |-> ss]
If(s, e)        == [kind |-> "if", body |-> s, else |-> e]
While(l, s)     == [kind |-> "while", label |-> l, body |-> s]
Do(l, s)        == [kind |-> "do", label |-> l, body |-> s]
For(l, s, t)    == [kind |-> "for", label |-> l, body |-> s, test |-> t]
ForIn(l, s)     == [kind |-> "forin", label |-> l, body |-> s]
With(s)         == [kind |-> "with", body |-> s]
Switch(l, ss, d) == [kind |-> "switch", label |-> l, stmts |-> ss, default |-> d]
Try(t, c, f)    == [kind |-> "try", try |-> t, catch |-> c, finally |-> f]
Break(l)        == [kind |-> "break", label |-> l]
Continue(l)     == [kind |-> "continue", label |-> l]
Return          == [kind |-> "return"]

NoLabel == ""
NoPlace == <<>>

-----------------------------------------------------------------------------
(* Completions (ECMA-262 5.1, 8.9).  Cut: the log of events ends before    *)
(* the statement does; Wrong: the log is not one the statement can cause.  *)
Completion(t, at, l) == [type |-> t, at |-> at, label |-> l]
Normal     == Completion("normal", NoPlace, NoLabel)
Cut        == Completion("cut", NoPlace, NoLabel)
Wrong      == Completion("wrong", NoPlace, NoLabel)
Threw(at)  == Completion("throw", at, NoLabel)

\* Replay(prog, thick, log): evaluate prog, taking the outcome of every event
\* from log.  n counts the events consumed; the result is [n, c].
Replay(prog, thick, log) ==
  LET
    \* the next event must be at this place and under this many environments
    Here(at, env, n) ==
      IF n = Len(log) THEN [n |-> n, c |-> Cut]
      ELSE IF log[n + 1].at # at \/ log[n + 1].env # env
           THEN [n |-> n, c |-> Wrong]
      ELSE [n |-> n + 1,
            c |-> IF log[n + 1].got = "throw" THEN Threw(at) ELSE Normal]
    Caught(at, exc, env, n) ==
      LET h == Here(at, env, n) IN
      IF h.c = Normal /\ ~(log[h.n].got = "catch" /\ log[h.n].exc = exc)
      THEN [h EXCEPT !.c = Wrong] ELSE h
    Then(r, K(_)) == IF r.c = Normal THEN K(r.n) ELSE r
    \* 12.6, 12.11, 12.12: what a statement with these labels absorbs
    Targets(r, t, labels) == r.c.type = t /\ r.c.label \in labels
    Absorb(r, t, labels) == IF Targets(r, t, labels) THEN [r EXCEPT !.c = Normal] ELSE r

    RECURSIVE Eval(_, _, _, _), EvalAll(_, _, _, _, _), Loop(_, _, _, _), Again(_, _, _, _),
              Clause(_, _, _, _, _)
    EvalAll(ss, i, at, env, n) ==
      IF i > Len(ss) THEN [n |-> n, c |-> Normal]
      ELSE Then(Eval(ss[i], Append(at, i), env, n),
                LAMBDA m : EvalAll(ss, i + 1, at, env, m))
    \* the condition, then the body, then round again; the body of a for-in
    \* begins with the name, which is stored
    Loop(s, at, env, n) ==
      LET test == IF s.kind = "for" /\ ~s.test THEN [n |-> n, c |-> Normal]
                  ELSE Here(Append(at, 2), env, n)
          body(m) == Again(s, at, env, m)
      IN
      IF test.n > n /\ test.c = Normal /\ log[test.n].got = "stop" THEN test
      ELSE Then(test, LAMBDA m :
             IF s.kind = "forin" THEN Then(Here(Append(at, 5), env, m), body) ELSE body(m))
    Again(s, at, env, n) ==
      LET b    == Eval(s.body, Append(at, 1), env, n)
          next == Absorb(b, "continue", {NoLabel, s.label})
      IN  IF Targets(b, "break", {NoLabel, s.label}) THEN [b EXCEPT !.c = Normal]
          ELSE Then(next, LAMBDA m :
                 IF s.kind = "for"
                 THEN Then(Here(Append(at, 4), env, m), LAMBDA k : Loop(s, at, env, k))
                 ELSE Loop(s, at, env, m))
    \* 12.11: the clauses from the first that matches, or from the default
    \* clause if none does
    Clause(s, i, at, env, n) ==
      IF i > Len(s.stmts)
      THEN IF s.default = 0 THEN [n |-> n, c |-> Normal]
           ELSE EvalAll(s.stmts, s.default, at, env, n)
      ELSE IF i = s.default THEN Clause(s, i + 1, at, env, n)
      ELSE Then(Here(Append(at, 100 + i), env, n), LAMBDA m :
             IF log[m].got = "go" THEN EvalAll(s.stmts, i, at, env, m)
             ELSE Clause(s, i + 1, at, env, m))
    Eval(s, at, env, n) ==
      CASE s.kind = "mark" -> Here(at, env, n)
        [] s.kind = "block" ->
             LET r == EvalAll(s.stmts, 1, at, env, n) IN
             IF s.label = NoLabel THEN r ELSE Absorb(r, "break", {s.label})
        [] s.kind = "if" ->
             Then(Here(Append(at, 2), env, n), LAMBDA m :
               IF log[m].got = "go" THEN Eval(s.body, Append(at, 1), env, m)
               ELSE IF s.else = None THEN [n |-> m, c |-> Normal]
               ELSE Eval(s.else, Append(at, 3), env, m))
        [] s.kind = "while" -> Loop(s, at, env, n)
        [] s.kind = "do" -> Again(s, at, env, n)
        [] s.kind \in {"for", "forin"} ->
             Then(Here(Append(at, 3), env, n), LAMBDA m : Loop(s, at, env, m))
        [] s.kind = "with" ->
             Then(Here(Append(at, 2), env, n),
                  LAMBDA m : Eval(s.body, Append(at, 1), env + 1, m))
        [] s.kind = "switch" ->
             Then(Here(Append(at, 100), env, n), LAMBDA m0 :
               Absorb(Clause(s, 1, at, env, m0), "break", {NoLabel, s.label}))
        \* 12.14
        [] s.kind = "try" ->
             LET b == Eval(s.try, Append(at, 1), env, n)
                 inner == IF thick THEN env + 1 ELSE env
                 c == IF b.c.type # "throw" \/ s.catch = None THEN b
                      ELSE Then(Caught(Append(at, 4), b.c.at, inner, b.n),
                                LAMBDA m : Eval(s.catch, Append(at, 2), inner, m))
                 f == Eval(s.finally, Append(at, 3), env, c.n)
             IN IF s.finally = None \/ c.c \in {Cut, Wrong} THEN c
                ELSE IF f.c = Normal THEN [f EXCEPT !.c = c.c] ELSE f
        [] s.kind = "return" -> [n |-> n, c |-> Completion("return", at, NoLabel)]
        [] s.kind \in {"break", "continue"} ->
             [n |-> n, c |-> Completion(s.kind, NoPlace, s.label)]
  IN Eval(prog, <<>>, 0, 0)
=============================================================================

----------------------------- MODULE Expressions -----------------------------
(***************************************************************************)
(* The expressions of syntax/ast/mod.rs and what ECMA-262 5.1 chapter 11   *)
(* says of them: the specification that the code generator (ExprCode) and  *)
(* the interpreter (Evaluation) are checked against.                       *)
(*                                                                         *)
(* A value is the term that computes it, an effect an event of the log:    *)
(* the value of an event is <<"event", its position>>.  Reading a variable *)
(* of the function is no event, but the term tells when it was read; an    *)
(* environment object is told by its name and by when it was looked up.    *)
(* Which way a value tests is taken from a sequence of outcomes.           *)
(***************************************************************************)
EXTENDS Ast, SequencesExt

\* The statements that are expressions and little else.
ExprStmt(es)      == Node("stmt", "", es)            \* leaves its value, as in an eval
DroppedStmt(es)   == Node("drop", "", es)            \* any other
VarDecl(n, e)     == Node("var", n, <<e>>)
Throw(es)         == Node("throw", "", es)
If(es)            == Node("if", "", es)              \* its condition

\* How a name was resolved (IdentState): slots, parameters that live in the
\* arguments object, the function's own name; all others are properties of the
\* global object or of the environment object that holds them.
Slots == {"x", "y"}
Params == {"p"}
Itself == "f"
Globals == {"g", "eval"}
Own(n) == n \in Slots \cup Params \cup {Itself}

Compound(op) == op # "="
\* The operator of an update, and whether its value is the old one.
Update(op) == op \in {"++_", "_++", "--_", "_--"}
Postfix(op) == op \in {"_++", "_--"}
Sign(op) == IF op \in {"++_", "_++"} THEN "+" ELSE "-"

-----------------------------------------------------------------------------
Undefined == <<"undefined">>
Arguments == <<"arguments">>
GlobalObject == <<"global">>
One == <<"literal", "1">>
Bool(b) == <<"boolean", b>>
Name(n) == <<"name", n>>        \* a property key
Index(n) == <<"index", n>>
\* The object that holds n when it is looked up after these events.
Holder(n, after) == IF n \in Globals THEN GlobalObject ELSE <<"env", n, Len(after)>>
\* The variable n, read after these events.
Variable(n, after) == IF n = Itself THEN <<"function", n>> ELSE <<"var", n, Len(after)>>

-----------------------------------------------------------------------------
(* A result: the value, the log and the outcomes that are left.            *)
Gives(r, v) == [r EXCEPT !.v = v]
Event(r, e) == [r EXCEPT !.log = Append(@, e), !.v = <<"event", Len(r.log) + 1>>]
Told(r, e) == [r EXCEPT !.log = Append(@, e)]        \* the value stays
True(r) == r.out # <<>> /\ Head(r.out)
Tested(r) == [r EXCEPT !.out = IF @ = <<>> THEN @ ELSE Tail(@)]

RECURSIVE Eval(_, _, _), Inner(_)
\* The values of es in order: [vs, r].
Values(es, r) ==
  FoldLeft(LAMBDA acc, e : LET q == Eval(e, TRUE, acc.r) IN
                           [vs |-> Append(acc.vs, q.v), r |-> q],
           [vs |-> <<>>, r |-> r], es)
\* The comma operator.
Sequence(es, used, r) ==
  FoldLeft(LAMBDA q, i : Eval(es[i], used /\ i = Len(es), q), r, [i \in DOMAIN es |-> i])

Inner(e) == IF e.k = "paren" /\ Len(e.a) = 1 THEN Inner(e.a[1]) ELSE e

\* The reference e stands for (8.7): [base, key, r]; the base of a variable of
\* the function is the arguments object, which stands for all of them.
Reference(e, r) ==
  CASE e.k = "ident" -> [base |-> IF Own(e.op) THEN Arguments ELSE Holder(e.op, r.log),
                         key |-> Name(e.op), r |-> r]
    [] e.k = "dot" -> LET q == Eval(e.a[1], TRUE, r) IN
                      [base |-> q.v, key |-> Name(e.op), r |-> q]
    \* 11.2.1: the index is evaluated before the base is checked
    [] e.k = "index" ->
         LET b == Eval(e.a[1], TRUE, r)
             i == Sequence(Tail(e.a), TRUE, b)
             k == Event(Told(i, <<"check", b.v>>), <<"key", i.v>>)
         IN [base |-> b.v, key |-> k.v, r |-> k]
IsReference(e) == e.k \in {"ident", "dot", "index"}

GetValue(ref) ==
  IF ref.base = Arguments THEN Gives(ref.r, Variable(ref.key[2], ref.r.log))
  ELSE Event(ref.r, <<"get", ref.base, ref.key>>)
\* The name of a function cannot be assigned to (13).
PutValue(ref, r, v) ==
  IF ref.key = Name(Itself) THEN Gives(r, v)
  ELSE Told(Gives(r, v), IF ref.base = Arguments THEN <<"set", ref.key, v>>
                         ELSE <<"put", ref.base, ref.key, v>>)
Combine(op, v, r) == Event(r, <<"op", op, v, r.v>>)

\* 11.13: the target, the value, then the assignment.
EvalAssign(e, r) ==
  LET ref == Reference(Inner(e.a[1]), r)
      old == GetValue(ref)
      new == IF Compound(e.op) THEN Combine(e.op, old.v, Eval(e.a[2], TRUE, old))
             ELSE Eval(e.a[2], TRUE, ref.r)
  IN PutValue(ref, new, new.v)
\* 11.3, 11.4.4, 11.4.5
EvalUpdate(e, r) ==
  LET ref == Reference(Inner(e.a[1]), r)
      old == GetValue(ref)
      num == Event(old, <<"num", old.v>>)
      new == Event(num, <<"op", Sign(e.op), num.v, One>>)
  IN Gives(PutValue(ref, new, new.v), IF Postfix(e.op) THEN num.v ELSE new.v)

EvalUnary(e, r) ==
  LET arg == Inner(e.a[1])
      ref == Reference(arg, r)
      val == Eval(e.a[1], TRUE, r)
  IN CASE Update(e.op) -> EvalUpdate(e, r)
       [] e.op = "delete" /\ ~IsReference(arg) -> Gives(val, Bool(TRUE))      \* 11.4.1
       [] e.op = "delete" /\ arg.k = "ident" /\ Own(arg.op) -> Gives(r, Bool(FALSE))
       [] e.op = "delete" -> Event(ref.r, <<"delete", ref.base, ref.key>>)
       [] e.op = "typeof" -> Gives(val, <<"typeof", val.v>>)
       [] e.op = "void" -> Gives(val, Undefined)
       [] e.op = "!" -> Gives(val, <<"not", val.v>>)
       [] OTHER -> Event(val, <<"op", e.op, val.v>>)

\* 11.11, 11.5 - 11.10
EvalBinary(e, r) ==
  LET left == Eval(e.a[1], TRUE, r) IN
  IF e.op \in {"&&", "||"}
  THEN IF True(left) = (e.op = "&&") THEN Eval(e.a[2], TRUE, Tested(left)) ELSE Tested(left)
  ELSE LET both == Eval(e.a[2], TRUE, left) IN
       IF e.op \in {"===", "!=="} THEN Gives(both, <<e.op, left.v, both.v>>)   \* 11.9.6
       ELSE Combine(e.op, left.v, both)

\* 11.2.3: what is called as a member is given the object as its this.
EvalCall(e, r) ==
  LET f == Inner(e.a[1])
      ref == Reference(f, r)
      fun == IF IsReference(f) THEN GetValue(ref) ELSE Eval(f, TRUE, r)
      this == IF f.k \in {"dot", "index"} THEN ref.base
              ELSE IF f.k = "ident" /\ ~Own(f.op) /\ f.op \notin Globals THEN ref.base
              ELSE Undefined
      args == Values(Tail(e.a), fun)
      how == IF f.k = "ident" /\ f.op = "eval" THEN "eval" ELSE "call"
  IN Event(args.r, <<how, this, fun.v, args.vs>>)
EvalNew(e, r) ==
  LET called == e.a[1].k = "call"
      fun == Eval(IF called THEN e.a[1].a[1] ELSE e.a[1], TRUE, r)
      args == Values(IF called THEN Tail(e.a[1].a) ELSE <<>>, fun)
  IN Event(args.r, <<"new", fun.v, args.vs>>)

\* 11.1.4, 11.1.5.  A literal that nobody uses need not be made.
EvalArray(e, used, r) ==
  LET made == Event(r, <<"array">>)
      Put(q, i) == LET v == Eval(e.a[i], used, q) IN
                   IF e.a[i] = Missing THEN q
                   ELSE IF used THEN Told(v, <<"define", made.v, Index(i - 1), v.v>>) ELSE v
      all == FoldLeft(Put, IF used THEN made ELSE r, [i \in DOMAIN e.a |-> i])
      last == Len(e.a) - 1
      gap == used /\ last >= 1 /\ e.a[Len(e.a)] = Missing /\ e.a[last] = Missing
  IN Gives(IF gap THEN Told(all, <<"put", made.v, Name("length"), Index(last)>>) ELSE all,
           made.v)
EvalObject(e, used, r) ==
  LET made == Event(r, <<"object">>)
      Put(q, p) ==
        LET v == Eval(p.a[1], used, q) IN
        CASE p.k \in {"get", "set"} ->
               IF used THEN Told(q, <<p.k, made.v, Name(p.op), <<"function", p.op>>>>) ELSE q
          [] OTHER -> IF used THEN Told(v, <<"define", made.v,
                                        IF p.k = "name" THEN Name(p.op) ELSE <<"literal", p.op>>, v.v>>) ELSE v
  IN Gives(FoldLeft(Put, IF used THEN made ELSE r, e.a), made.v)

Eval(e, used, r) ==
  CASE e.k = "literal" -> Gives(r, <<"literal", e.op>>)
    [] e.k = "this" -> Gives(r, <<"this">>)
    [] e.k = "function" -> Gives(r, <<"function", e.op>>)
    [] IsReference(e) -> GetValue(Reference(e, r))
    [] e.k = "assign" -> EvalAssign(e, r)
    [] e.k = "unary" -> EvalUnary(e, r)
    [] e.k = "binary" -> EvalBinary(e, r)
    [] e.k = "cast" -> LET v == Eval(e.a[1], TRUE, r) IN Event(v, <<"cast", e.op, v.v>>)
    [] e.k = "call" -> EvalCall(e, r)
    [] e.k = "new" -> EvalNew(e, r)
    [] e.k = "paren" -> Sequence(e.a, used, r)
    [] e.k = "ternary" ->
         LET t == Eval(e.a[1], TRUE, r) IN
         Eval(e.a[IF True(t) THEN 2 ELSE 3], used, Tested(t))
    [] e.k = "array" -> EvalArray(e, used, r)
    [] e.k = "object" -> EvalObject(e, used, r)
    [] OTHER -> r                                                \* missing

\* A statement: its effects, and the value it completes with or throws.
Run(s, out) ==
  LET r == [v |-> Undefined, log |-> <<>>, out |-> out]
      ref == Reference(Ident(s.op), r)
      q == Eval(s.a[1], TRUE, ref.r)
  IN IF s.k = "var" THEN Gives(PutValue(ref, q, q.v), Undefined)
     ELSE IF s.k = "if" THEN Tested(Sequence(s.a, TRUE, r))
     ELSE Sequence(s.a, s.k # "drop", r)
=============================================================================

------------------------------ MODULE ExprCode ------------------------------
(***************************************************************************)
(* What IrGenerator (ir/mod.rs) emits for an expression.  A label becomes  *)
(* the number of instructions to skip.  A temporary (ir.local) is named by *)
(* the place of the expression that takes it, the path of child numbers    *)
(* from the statement: no two expressions share one.                       *)
(***************************************************************************)
EXTENDS Expressions

I(op) == [op |-> op, arg |-> "", n |-> 0, at |-> <<>>]
Named(op, name) == [I(op) EXCEPT !.arg = name]
Counted(op, n) == [I(op) EXCEPT !.n = n]
Local(op, at) == [I(op) EXCEPT !.at = at]
Jump(op, n) == [I(op) EXCEPT !.n = n]

Dup == I("Dup")
Pop == I("Pop")
PickPick == <<Counted("Pick", 1), Counted("Pick", 1)>>
LoadUndefined == I("LoadUndefined")
LoadOne == Named("LoadLiteral", "1")
Dropped(leave) == IF leave THEN <<>> ELSE <<Pop>>

RECURSIVE Code(_, _, _), UnwrapIdent(_)
Part(e, at, i) == Code(e.a[i], Append(at, i), TRUE)
\* emit_exprs, of the parts of e from the i-th on.
Exprs(e, at, i, leave) ==
  FlattenSeq([j \in 1..(Len(e.a) + 1 - i) |->
                Code(e.a[i + j - 1], Append(at, i + j - 1), leave /\ i + j - 1 = Len(e.a))])
Args(e, at, i) == FlattenSeq([j \in 1..(Len(e.a) + 1 - i) |-> Part(e, at, i + j - 1)])

\* unwrap_paren, unwrap_ident: a name, or "" if the expression is none.
UnwrapParen(e) == IF e.k = "paren" /\ Len(e.a) = 1 THEN e.a[1] ELSE e
UnwrapIdent(e) == CASE e.k = "ident" -> e.op
                    [] e.k = "paren" -> UnwrapIdent(Last(e.a))
                    [] OTHER -> ""

-----------------------------------------------------------------------------
(* Names (IdentState).                                                     *)
LoadArguments == I("LoadArguments")
Load(n) ==
  CASE n \in Slots   -> <<Named("LoadSlot", n)>>
    [] n \in Params  -> <<LoadArguments, Named("LoadName", n)>>
    [] n = Itself    -> <<Named("LoadFunction", n)>>
    [] n \in Globals -> <<Named("LoadGlobal", n)>>
    [] OTHER         -> <<Named("LoadEnv", n)>>
Store(n) ==
  CASE n \in Slots   -> <<Named("StoreSlot", n)>>
    [] n \in Params  -> <<LoadArguments, Named("StoreName", n)>>
    [] n = Itself    -> <<Pop>>
    [] n \in Globals -> <<Named("StoreGlobal", n)>>
    [] OTHER         -> <<Named("StoreEnv", n)>>

\* A mutant: the base is checked before the index is evaluated.
EagerTarget(e, at, dup) ==
  Part(e, at, 1) \o (IF dup THEN <<Dup>> ELSE <<>>) \o <<Dup, I("ValidateMemberTarget")>>
  \o Exprs(e, at, 2, TRUE) \o <<I("ToPropertyKey")>>
\* emit_member_target
MemberTarget(e, at, dup) ==
  Part(e, at, 1) \o (IF dup THEN <<Dup>> ELSE <<>>) \o Exprs(e, at, 2, TRUE)
  \o <<Counted("Pick", 1), I("ValidateMemberTarget"), I("ToPropertyKey")>>

-----------------------------------------------------------------------------
(* Assignments.  lhs is the target without its parentheses, to the path    *)
(* of it.                                                                  *)
Storing(ins, at, leave) ==
  IF leave THEN <<Dup, Local("StoreLocal", at), ins, Local("LoadLocal", at)>> ELSE <<ins>>
AssignCode(e, at, leave) ==
  LET lhs == UnwrapParen(e.a[1])
      to == IF lhs = e.a[1] THEN Append(at, 1) ELSE at \o <<1, 1>>
      load == IF e.op = "=" THEN Part(e, at, 2)
              ELSE Code(e.a[1], Append(at, 3), TRUE) \o Part(e, at, 2) \o <<Named("Op", e.op)>>
  IN CASE lhs.k = "ident" /\ lhs.op \in Params ->
            IF leave THEN load \o <<Dup, LoadArguments, I("Swap"), Named("StoreName", lhs.op)>>
            ELSE <<LoadArguments>> \o load \o <<Named("StoreName", lhs.op)>>
       [] lhs.k = "ident" /\ ~Own(lhs.op) /\ lhs.op \notin Globals ->
            <<Named("LoadEnvObjectFor", lhs.op)>> \o load
            \o Storing(Named("StoreName", lhs.op), at, leave)
       [] lhs.k = "ident" ->
            load \o (IF leave THEN <<Dup>> ELSE <<>>) \o Store(lhs.op)
       [] lhs.k = "dot" ->
            Part(lhs, to, 1) \o load \o Storing(Named("StoreName", lhs.op), at, leave)
       [] lhs.k = "index" ->
            MemberTarget(lhs, to, FALSE)
            \o (IF e.op = "=" THEN load
                ELSE PickPick \o <<I("LoadIndex")>> \o Part(e, at, 2) \o <<Named("Op", e.op)>>)
            \o Storing(I("StoreIndex"), at, leave)

\* emit_lhs_load, emit_lhs_store
LhsLoad(lhs, to) ==
  CASE lhs.k = "ident" /\ lhs.op \in Params ->
         <<LoadArguments, Dup, Named("LoadName", lhs.op)>>
    [] lhs.k = "ident" -> Load(lhs.op)
    [] lhs.k = "dot" -> Part(lhs, to, 1) \o <<Dup, Named("LoadName", lhs.op)>>
    [] lhs.k = "index" -> MemberTarget(lhs, to, FALSE) \o PickPick \o <<I("LoadIndex")>>
LhsStore(lhs) ==
  CASE lhs.k = "ident" /\ lhs.op \notin Params -> Store(lhs.op)
    [] lhs.k = "index" -> <<I("StoreIndex")>>
    [] OTHER -> <<Named("StoreName", lhs.op)>>
UpdateCode(e, at, leave) ==
  LET lhs == UnwrapParen(e.a[1])
      to == IF lhs = e.a[1] THEN Append(at, 1) ELSE at \o <<1, 1>>
      by == <<LoadOne, Named("Op", Sign(e.op))>>
      keep == IF leave THEN <<Dup, Local("StoreLocal", at)>> ELSE <<>>
  IN LhsLoad(lhs, to) \o <<I("ToNumber")>>
     \o (IF Postfix(e.op) THEN keep \o by ELSE by \o keep)
     \o LhsStore(lhs)
     \o (IF leave THEN <<Local("LoadLocal", at)>> ELSE <<>>)

-----------------------------------------------------------------------------
DeleteCode(e, at) ==
  LET arg == UnwrapParen(e.a[1])
      to == IF arg = e.a[1] THEN Append(at, 1) ELSE at \o <<1, 1>>
      n == UnwrapIdent(arg)
  IN CASE arg.k = "dot" -> Part(arg, to, 1) \o <<Named("DeleteName", arg.op)>>
       [] arg.k = "index" -> MemberTarget(arg, to, FALSE) \o <<I("DeleteIndex")>>
       [] n = "" -> Code(arg, to, TRUE) \o <<Named("LoadBool", "true")>>
       [] n \in Params -> <<LoadArguments, Named("DeleteName", n)>>
       [] n \in Slots \cup {Itself} -> <<Named("LoadBool", "false")>>
       [] OTHER -> <<Named("FindEnvObjectFor", n), Named("DeleteEnvName", n)>>
TypeofCode(e, at) ==
  LET arg == UnwrapParen(e.a[1])
      to == IF arg = e.a[1] THEN Append(at, 1) ELSE at \o <<1, 1>>
      n == UnwrapIdent(arg)
  IN CASE arg.k = "dot" -> Part(arg, to, 1) \o <<Named("TypeofName", arg.op)>>
       [] arg.k = "index" -> MemberTarget(arg, to, FALSE) \o <<I("TypeofIndex")>>
       [] n \in Params -> <<LoadArguments, Named("TypeofName", n)>>
       [] n \notin Slots \cup {Itself, ""} ->
            <<Named("FindEnvObjectFor", n), Named("TypeofName", n)>>
       [] OTHER -> Code(arg, to, TRUE) \o <<I("Typeof")>>
UnaryCode(e, at, leave) ==
  CASE Update(e.op) -> UpdateCode(e, at, leave)
    [] e.op = "delete" -> DeleteCode(e, at) \o Dropped(leave)
    [] e.op = "typeof" -> TypeofCode(e, at) \o Dropped(leave)
    [] e.op = "void" -> Part(e, at, 1) \o <<Pop>> \o (IF leave THEN <<LoadUndefined>> ELSE <<>>)
    [] e.op = "!" -> Part(e, at, 1) \o <<I("Not")>> \o Dropped(leave)
    [] OTHER -> Part(e, at, 1) \o <<Named("UnaryOp", e.op)>> \o Dropped(leave)

BinaryCode(e, at, leave) ==
  LET right == Part(e, at, 2) IN
  IF e.op \in {"&&", "||"}
  THEN Part(e, at, 1)
       \o <<Dup, I("ToBoolean"),
            Jump(IF e.op = "&&" THEN "JumpFalse" ELSE "JumpTrue", Len(right) + 1), Pop>>
       \o right \o Dropped(leave)
  ELSE Part(e, at, 1) \o right \o <<Named("Op", e.op)>> \o Dropped(leave)

\* A mutant: the second branch leaves its value even if nobody uses it.
TernaryLeaves(e, at, leave) ==
  LET then == Code(e.a[2], Append(at, 2), leave)
      else == Code(e.a[3], Append(at, 3), TRUE)
  IN Part(e, at, 1) \o <<Jump("JumpFalse", Len(then) + 1)>>
     \o then \o <<Jump("Jump", Len(else))>> \o else
TernaryCode(e, at, leave) ==
  LET then == Code(e.a[2], Append(at, 2), leave)
      else == Code(e.a[3], Append(at, 3), leave)
  IN Part(e, at, 1) \o <<Jump("JumpFalse", Len(then) + 1)>>
     \o then \o <<Jump("Jump", Len(else))>> \o else

CallCode(e, at, leave) ==
  LET f == e.a[1]
      to == Append(at, 1)
  IN (CASE f.k = "dot" -> Part(f, to, 1) \o <<Dup, Named("LoadName", f.op)>>
        [] f.k = "index" -> MemberTarget(f, to, TRUE) \o <<I("LoadIndex")>>
        [] OTHER -> <<LoadUndefined>> \o Part(e, at, 1))
     \o Args(e, at, 2)
     \o <<Counted(IF f.k = "ident" /\ f.op = "eval" THEN "CallEval" ELSE "Call", Len(e.a) - 1)>>
     \o Dropped(leave)
NewCode(e, at, leave) ==
  LET c == e.a[1] IN
  <<LoadUndefined>>
  \o (IF c.k = "call" THEN Args(c, Append(at, 1), 1) \o <<Counted("New", Len(c.a) - 1)>>
      ELSE Part(e, at, 1) \o <<Counted("New", 0)>>)
  \o Dropped(leave)

ArrayCode(e, at, leave) ==
  LET size == Len(e.a)
      present == {i \in DOMAIN e.a : e.a[i] # Missing}
      Element(i) == <<Dup, Counted("LoadIndexOf", i - 1)>> \o Part(e, at, i)
                    \o <<I("StoreIndexUnchecked")>>
      length == IF present = {} THEN 0 ELSE CHOOSE i \in present : \A j \in present : j <= i
      expected == IF e.a[size] = Missing THEN size - 1 ELSE size
  IN IF ~leave
     THEN FlattenSeq([i \in DOMAIN e.a |-> Code(e.a[i], Append(at, i), FALSE)])
     ELSE <<I("NewArray")>>
          \o FlattenSeq([i \in DOMAIN e.a |-> IF i \in present THEN Element(i) ELSE <<>>])
          \o (IF size > 0 /\ length # expected
              THEN <<Dup, Counted("LoadIndexOf", expected), Named("StoreName", "length")>>
              ELSE <<>>)
ObjectCode(e, at, leave) ==
  LET Prop(i) ==
        LET p == e.a[i]
            to == Append(at, i)
        IN CASE p.k = "name" -> Part(p, to, 1) \o <<Named("StoreNameUnchecked", p.op)>>
             [] p.k = "literal" -> <<Named("LoadLiteral", p.op)>> \o Part(p, to, 1)
                                   \o <<I("StoreIndexUnchecked")>>
             [] p.k = "get" -> <<Named("StoreNameGetterUnchecked", p.op)>>
             [] p.k = "set" -> <<Named("StoreNameSetterUnchecked", p.op)>>
      Effects(i) == IF e.a[i].k \in {"get", "set"} THEN <<>>
                    ELSE Code(e.a[i].a[1], at \o <<i, 1>>, FALSE)
  IN IF leave THEN <<I("NewObject")>> \o FlattenSeq([i \in DOMAIN e.a |-> <<Dup>> \o Prop(i)])
     ELSE FlattenSeq([i \in DOMAIN e.a |-> Effects(i)])

\* emit_expr
Code(e, at, leave) ==
  CASE e.k = "literal"  -> IF leave THEN <<Named("LoadLiteral", e.op)>> ELSE <<>>
    [] e.k = "this"     -> IF leave THEN <<I("LoadThis")>> ELSE <<>>
    [] e.k = "function" -> <<Named("LoadFunction", e.op)>> \o Dropped(leave)
    [] e.k = "ident"    -> Load(e.op) \o Dropped(leave)
    [] e.k = "dot"      -> Part(e, at, 1) \o <<Named("LoadName", e.op)>> \o Dropped(leave)
    [] e.k = "index"    -> MemberTarget(e, at, FALSE) \o <<I("LoadIndex")>> \o Dropped(leave)
    [] e.k = "assign"   -> AssignCode(e, at, leave)
    [] e.k = "unary"    -> UnaryCode(e, at, leave)
    [] e.k = "binary"   -> BinaryCode(e, at, leave)
    [] e.k = "cast"     -> Part(e, at, 1) \o <<Named("Cast", e.op)>>
    [] e.k = "call"     -> CallCode(e, at, leave)
    [] e.k = "new"      -> NewCode(e, at, leave)
    [] e.k = "paren"    -> Exprs(e, at, 1, leave)
    [] e.k = "ternary"  -> TernaryCode(e, at, leave)
    [] e.k = "array"    -> ArrayCode(e, at, leave)
    [] e.k = "object"   -> ObjectCode(e, at, leave)
    [] OTHER            -> <<I("panic")>>

\* emit_expr_stmt: self.leave is set in an eval
ExprStmtCode(s, leave) ==
  Exprs(s, <<>>, 1, leave) \o (IF leave THEN <<Local("StoreLocal", <<>>)>> ELSE <<>>)
VarDeclCode(s) == Part(s, <<>>, 1) \o Store(s.op)
ThrowCode(s) == Exprs(s, <<>>, 1, TRUE) \o <<I("Throw")>>
\* emit_tests: both ways lead to the end of the statement here
TestsCode(s) == Exprs(s, <<>>, 1, TRUE) \o <<Jump("JumpFalse", 0)>>
StatementCode(s) ==
  CASE s.k = "stmt"  -> ExprStmtCode(s, TRUE)
    [] s.k = "drop"  -> ExprStmtCode(s, FALSE)
    [] s.k = "var"   -> VarDeclCode(s)
    [] s.k = "throw" -> ThrowCode(s)
    [] s.k = "if"    -> TestsCode(s)
=============================================================================

----------------------------- MODULE Evaluation -----------------------------
(***************************************************************************)
(* The interpreter (rt/interpreter.rs, Frame::call_stmt) running the code  *)
(* of one statement.  Operands are the terms of Expressions; the operands  *)
(* of the caller lie below those of the statement.  Exceptions end the     *)
(* statement and are the subject of Unwind; here nothing throws but throw. *)
(***************************************************************************)
EXTENDS ExprCode, TLC

CONSTANT Compiled       \* CompiledOf a sequence of statements
Table == Compiled \o <<>>                           \* evaluated once

VARIABLES prog,         \* the number of the statement
          code,         \* its instructions
          ip,           \* the next of them
          stack,        \* the operand stack
          locals,       \* the temporaries that were stored
          log,          \* the events so far
          outcomes      \* how the tested values came out
vars == <<prog, code, ip, stack, locals, log, outcomes>>

Caller == [i \in 1..4 |-> <<"caller", i>>]          \* what lies below

Init ==
  /\ prog \in DOMAIN Table
  /\ code = Table[prog].code
  /\ ip = 1
  /\ stack = Caller
  /\ locals = <<>>
  /\ log = <<>>
  /\ outcomes = <<>>

Finished == ip > Len(code)
At(ops) == ~Finished /\ code[ip].op \in ops
Now == code[ip]

-----------------------------------------------------------------------------
(* RtStack: create_frame(n) is the n operands on top.                      *)
Frame(n) == SubSeq(stack, Len(stack) - n + 1, Len(stack))
Below(n) == SubSeq(stack, 1, Len(stack) - n)
\* n operands give way to these, and the next instruction follows.
Replace(n, vs) == stack' = Below(n) \o vs
Next1 == ip' = ip + 1
Quiet == UNCHANGED <<prog, code, locals, log, outcomes>>
Pure(n, vs) == Replace(n, vs) /\ Next1 /\ Quiet
\* An effect, the value of which takes the place of n operands.
Effect(e, n) ==
  /\ log' = Append(log, e)
  /\ Replace(n, <<<<"event", Len(log) + 1>>>>)
  /\ Next1
  /\ UNCHANGED <<prog, code, locals, outcomes>>
\* An effect without a value.
Silent(e, n) ==
  /\ log' = Append(log, e)
  /\ Replace(n, <<>>)
  /\ Next1
  /\ UNCHANGED <<prog, code, locals, outcomes>>

-----------------------------------------------------------------------------
Push ==
  /\ At({"LoadUndefined", "LoadBool", "LoadLiteral", "LoadIndexOf", "LoadThis",
         "LoadFunction", "LoadSlot", "LoadArguments"})
  /\ Pure(0, << CASE Now.op = "LoadUndefined" -> Undefined
                  [] Now.op = "LoadBool"      -> Bool(Now.arg = "true")
                  [] Now.op = "LoadLiteral"   -> <<"literal", Now.arg>>
                  [] Now.op = "LoadIndexOf"   -> Index(Now.n)
                  [] Now.op = "LoadThis"      -> <<"this">>
                  [] Now.op = "LoadFunction"  -> <<"function", Now.arg>>
                  [] Now.op = "LoadSlot"      -> Variable(Now.arg, log)
                  [] Now.op = "LoadArguments" -> Arguments >>)
StoreSlot == At({"StoreSlot"}) /\ Silent(<<"set", Name(Now.arg), Frame(1)[1]>>, 1)

DoDup == At({"Dup"}) /\ Pure(0, Frame(1))
DoPop == At({"Pop"}) /\ Pure(1, <<>>)
Pick == At({"Pick"}) /\ Pure(0, <<Frame(Now.n + 1)[1]>>)
Swap == At({"Swap"}) /\ Pure(2, <<Frame(2)[2], Frame(2)[1]>>)

StoreLocal ==
  /\ At({"StoreLocal"})
  /\ locals' = [a \in DOMAIN locals \cup {Now.at} |->
                  IF a = Now.at THEN Frame(1)[1] ELSE locals[a]]
  /\ Replace(1, <<>>)
  /\ Next1
  /\ UNCHANGED <<prog, code, log, outcomes>>
LoadLocal == At({"LoadLocal"}) /\ Pure(0, <<locals[Now.at]>>)

\* Names of the environment: find_scope_object is part of the instruction.
LoadEnv ==
  /\ At({"LoadGlobal", "LoadEnv"})
  /\ Effect(<<"get", Holder(Now.arg, log), Name(Now.arg)>>, 0)
StoreEnv ==
  /\ At({"StoreGlobal", "StoreEnv"})
  /\ Silent(<<"put", Holder(Now.arg, log), Name(Now.arg), Frame(1)[1]>>, 1)
FindEnvObject ==
  /\ At({"LoadEnvObjectFor", "FindEnvObjectFor"})
  /\ Pure(0, <<Holder(Now.arg, log)>>)

\* What a property of the operand base reads as.  The parameters are the
\* properties of the arguments object.
LoadName ==
  LET base == Frame(1)[1] IN
  /\ At({"LoadName"})
  /\ IF base = Arguments THEN Pure(1, <<Variable(Now.arg, log)>>)
     ELSE Effect(<<"get", base, Name(Now.arg)>>, 1)
LoadIndex == At({"LoadIndex"}) /\ Effect(<<"get", Frame(2)[1], Frame(2)[2]>>, 2)
StoreName ==
  LET base == Frame(2)[1] IN
  /\ At({"StoreName"})
  /\ Silent(IF base = Arguments THEN <<"set", Name(Now.arg), Frame(2)[2]>>
            ELSE <<"put", base, Name(Now.arg), Frame(2)[2]>>, 2)
StoreIndex == At({"StoreIndex"}) /\ Silent(<<"put", Frame(3)[1], Frame(3)[2], Frame(3)[3]>>, 3)
\* get and type_of
TypeofEffect(base, key, n) ==
  /\ log' = Append(log, <<"get", base, key>>)
  /\ Replace(n, <<<<"typeof", <<"event", Len(log) + 1>>>>>>)
  /\ Next1
  /\ UNCHANGED <<prog, code, locals, outcomes>>
\* The answer for a member of undefined is not told from another one.
TypeofName ==
  LET base == Frame(1)[1] IN
  /\ At({"TypeofName"})
  /\ IF base = Arguments THEN Pure(1, <<<<"typeof", Variable(Now.arg, log)>>>>)
     ELSE TypeofEffect(base, Name(Now.arg), 1)
TypeofIndex == At({"TypeofIndex"}) /\ TypeofEffect(Frame(2)[1], Frame(2)[2], 2)
\* DeleteEnvName in strict code throws when the answer is no; nothing throws here.
DeleteName ==
  /\ At({"DeleteName", "DeleteEnvName"})
  /\ Effect(<<"delete", Frame(1)[1], Name(Now.arg)>>, 1)
DeleteIndex == At({"DeleteIndex"}) /\ Effect(<<"delete", Frame(2)[1], Frame(2)[2]>>, 2)

NewObject == At({"NewArray", "NewObject"})
             /\ Effect(IF Now.op = "NewArray" THEN <<"array">> ELSE <<"object">>, 0)
Define ==
  \/ /\ At({"StoreNameUnchecked"})
     /\ Silent(<<"define", Frame(2)[1], Name(Now.arg), Frame(2)[2]>>, 2)
  \/ /\ At({"StoreIndexUnchecked"})
     /\ Silent(<<"define", Frame(3)[1], Frame(3)[2], Frame(3)[3]>>, 3)
  \/ /\ At({"StoreNameGetterUnchecked", "StoreNameSetterUnchecked"})
     /\ Silent(<<IF Now.op = "StoreNameGetterUnchecked" THEN "get" ELSE "set",
                 Frame(1)[1], Name(Now.arg), <<"function", Now.arg>>>>, 1)

\* Operators.  All but the comparison of identity may call the program's own
\* valueOf and toString (or, of instanceof and in, its getters).
Operator(ops) == At({"Op"}) /\ Now.arg \in ops
                 /\ Effect(<<"op", Now.arg, Frame(2)[1], Frame(2)[2]>>, 2)
Add == Operator({"+"})
Arithmetic == Operator({"-", "*"})
Compare == Operator({"==", ">"})
LessThan == Operator({"<", "!="})
InOrInstance == Operator({"in", "instanceof"})
StrictEqual == /\ At({"Op"}) /\ Now.arg \in {"===", "!=="}
               /\ Pure(2, <<<<Now.arg, Frame(2)[1], Frame(2)[2]>>>>)
UnaryOp == At({"UnaryOp"}) /\ Effect(<<"op", Now.arg, Frame(1)[1]>>, 1)
DoNot == At({"Not"}) /\ Pure(1, <<<<"not", Frame(1)[1]>>>>)
DoTypeof == At({"Typeof"}) /\ Pure(1, <<<<"typeof", Frame(1)[1]>>>>)
ToPropertyKey == At({"ToPropertyKey"}) /\ Effect(<<"key", Frame(1)[1]>>, 1)
ValidateMemberTarget == At({"ValidateMemberTarget"}) /\ Silent(<<"check", Frame(1)[1]>>, 1)
DoCast ==
  \/ At({"ToNumber"}) /\ Effect(<<"num", Frame(1)[1]>>, 1)
  \/ At({"Cast"}) /\ Effect(<<"cast", Now.arg, Frame(1)[1]>>, 1)
  \/ At({"ToBoolean"}) /\ Pure(1, <<<<"truth", Frame(1)[1]>>>>)

\* CALL_PROLOG: this and the function lie below the arguments.
DoCall ==
  LET f == Frame(Now.n + 2)
      args == SubSeq(f, 3, Now.n + 2)
  IN \/ At({"Call"}) /\ Effect(<<"call", f[1], f[2], args>>, Now.n + 2)
     \/ At({"CallEval"}) /\ Effect(<<"eval", f[1], f[2], args>>, Now.n + 2)
     \/ At({"New"}) /\ Effect(<<"new", f[2], args>>, Now.n + 2)

JumpTo == At({"Jump"}) /\ ip' = ip + 1 + Now.n /\ Replace(0, <<>>) /\ Quiet
JumpIf ==
  \E b \in BOOLEAN :
    /\ At({"JumpTrue", "JumpFalse"})
    /\ outcomes' = Append(outcomes, b)
    /\ Replace(1, <<>>)
    /\ ip' = ip + 1 + (IF b = (Now.op = "JumpTrue") THEN Now.n ELSE 0)
    /\ UNCHANGED <<prog, code, locals, log>>

\* The value is kept where the statement's own would be, and the code is left.
DoThrow ==
  /\ At({"Throw"})
  /\ locals' = (<<>> :> Frame(1)[1]) @@ locals
  /\ Replace(1, <<>>)
  /\ Next1
  /\ UNCHANGED <<prog, code, log, outcomes>>

Next == \/ Push \/ StoreSlot \/ DoDup \/ DoPop \/ Pick \/ Swap \/ StoreLocal \/ LoadLocal
        \/ LoadEnv \/ StoreEnv \/ FindEnvObject \/ LoadName \/ LoadIndex \/ StoreName
        \/ StoreIndex \/ TypeofName \/ TypeofIndex \/ DeleteName \/ DeleteIndex
        \/ NewObject \/ Define \/ Add \/ Arithmetic \/ Compare \/ LessThan \/ InOrInstance
        \/ StrictEqual \/ UnaryOp \/ DoNot \/ DoTypeof \/ ToPropertyKey
        \/ ValidateMemberTarget \/ DoCast \/ DoCall \/ JumpTo \/ JumpIf \/ DoThrow

Spec == Init /\ [][Next]_vars

-----------------------------------------------------------------------------
(* What is known to differ from ECMA-262 5.1 (README, "What was found").   *)
RECURSIVE Parts(_)
\* e and the expressions inside of it.
Parts(e) == {e} \cup UNION {Parts(e.a[i]) : i \in DOMAIN e.a}
RECURSIVE Unused(_)
\* e and those whose value nobody uses if nobody uses that of e.
Unused(e) ==
  LET within == CASE e.k \in {"paren", "array", "object", "name", "literal"} -> DOMAIN e.a
                  [] e.k = "ternary" -> {2, 3}
                  [] OTHER -> {}
  IN {e} \cup UNION {Unused(e.a[i]) : i \in within}
InEnv(n) == ~Own(n) /\ n \notin Globals
Plain(e) == e.k \in {"literal", "this"} \/ (e.k = "ident" /\ Own(e.op))
Differs(e) ==
  \/ e.k = "call" /\ UnwrapParen(e.a[1]) # e.a[1]             \* (a.b)(), (eval)()
  \/ e.k = "call" /\ e.a[1].k = "ident" /\ InEnv(e.a[1].op)   \* the this of a with
  \/ e.k = "assign" /\ Compound(e.op) /\ LET l == UnwrapParen(e.a[1]) IN
       l.k = "dot" /\ ~Plain(l.a[1])                          \* f().b += 1
  \/ e.k = "unary" /\ LET arg == UnwrapParen(e.a[1]) IN
       \/ Update(e.op) /\ arg.k = "ident" /\ InEnv(arg.op)    \* looked up twice
       \/ e.op = "delete" /\ ~IsReference(arg)                \* one operand too many
       \/ e.op = "delete" /\ UnwrapIdent(arg) \in Params      \* really deleted
       \/ e.op = "typeof" /\ arg.k = "paren" /\ UnwrapIdent(arg) # ""  \* typeof (f(), g)
  \/ e.k = "var" /\ e.op \in Params                           \* var p = 1
  \/ e.k = "var" /\ InEnv(e.op) /\ ~Plain(e.a[1])             \* looked up late
  \/ /\ e.k \in {"paren", "stmt", "drop", "if"}              \* [1, , 2], 3
     /\ \E i \in DOMAIN e.a : /\ i = Len(e.a) => e.k = "drop"
                              /\ \E q \in Unused(e.a[i]) : q.k = "cast" \/ q = Missing
Ordinary(s) == \A e \in Parts(s) : ~Differs(e)

IsTest(i) == i.op \in {"JumpTrue", "JumpFalse"}
\* A statement's code, and what it should do for all the ways its tests come out.
CompiledOf(programs) ==
  [p \in DOMAIN programs |->
    LET s == programs[p]
        is == StatementCode(s)
        tests == Len(SelectSeq(is, IsTest))
    IN [code |-> is, valued |-> s.k \in {"stmt", "throw"}, ordinary |-> Ordinary(s),
        run |-> [o \in SeqOf(BOOLEAN, tests) |-> Run(s, o)]]]

\* A statement of whatever names, operators and nested expressions does what
\* the standard says: the same effects on the same operands in the same order,
\* the same value left or thrown, whichever way each tested value comes out.
AsSpecified ==
  Finished /\ Table[prog].ordinary =>
    LET r == Table[prog].run[outcomes] IN
    /\ log = r.log
    /\ r.out = <<>>
    /\ Table[prog].valued => locals[<<>>] = r.v

\* The operands of the caller are never touched, however an expression is
\* nested and whether its value is used, and none is left above them at the end.
Balanced ==
  /\ Len(stack) >= Len(Caller) /\ SubSeq(stack, 1, Len(Caller)) = Caller
  /\ Finished /\ Table[prog].ordinary => stack = Caller
=============================================================================

----------------------------- MODULE CallStack -----------------------------
(***************************************************************************)
(* The operand stack of rt/stack.rs as calls use it: JsEnv::call, do_call  *)
(* and construct (rt/runtime.rs), JsArgs and JsItem::call and construct    *)
(* (rt/mod.rs), and call_block and the instructions of rt/interpreter.rs.  *)
(* All activations share one stack; a StackFrame is the number of cells    *)
(* below it.  The Rust activations that wait for a callee are in acts.     *)
(* Which instructions run, and what native code does, is left open.        *)
(*                                                                         *)
(* The module implements Calls, where every activation has values of its   *)
(* own, but for the return of a bound function's call (see Calling).       *)
(***************************************************************************)
EXTENDS Integers, Sequences

CONSTANTS
  Functions, Kind, Params, Strict, Constructors, Target, Main, Modes, Loads, Passed,
  Undefined, Global, Fresh,
  Locals,       \* cells call_block pushes: the locals and the scope
  StackSize     \* STACK in cells; bound (512 in the code)

ASSUME CellsAssumption ==
  /\ Locals \in [Functions -> Nat \ {0}]
  /\ StackSize \in Nat

Values == Functions \union {Undefined, Global, Fresh}

VARIABLES
  stack,        \* the cells below sp
  acts,         \* [kind, fn, frame, argc, base, junk]; base: cells below the
                \* operands; junk: operands left by exceptions caught (history)
  out           \* "run", "ok" (the result is on top), "err" or "panic"

vars == <<stack, acts, out>>

Cut(st, n) == SubSeq(st, 1, n)              \* drop_frame
Undefineds(n) == [i \in 1 .. n |-> Undefined]
Activation(kind, fn, frame, argc, base) ==
  [kind |-> kind, fn |-> fn, frame |-> frame, argc |-> argc, base |-> base, junk |-> 0]

Top == acts[Len(acts)]
Below == Cut(acts, Len(acts) - 1)
InCode == out = "run" /\ acts # <<>> /\ Top.kind = "ir"
Waiting(kinds) == acts # <<>> /\ Top.kind \in kinds

\* Stack::push panics when the stack is full.
Becomes(st, as, o) ==
  IF Len(st) <= StackSize THEN stack' = st /\ acts' = as /\ out' = o
  ELSE out' = "panic" /\ UNCHANGED <<stack, acts>>

\* call_block: the missing arguments, the locals and the scope are pushed.
Missing(fn, argc) == IF argc < Params[fn] THEN Params[fn] - argc ELSE 0
Entered(st, as, fn, frame, argc) ==
  LET this == IF fn \notin Strict /\ st[frame + 1] = Undefined THEN Global ELSE st[frame + 1]
      full == [st EXCEPT ![frame + 1] = this]
                \o Undefineds(Missing(fn, argc)) \o Undefineds(Locals[fn])
  IN Becomes(full, Append(as, Activation("ir", fn, frame, argc, Len(full))), "run")

\* JsEnv::call.  The frame stays when the value cannot be called at all.
Call(st, as, frame, argc, construct) ==
  LET fn == st[frame + 2] IN
  IF fn \in Functions /\ (construct => fn \in Constructors)
  THEN IF Kind[fn] = "ir" THEN Entered(st, as, fn, frame, argc)
       ELSE Becomes(st, Append(as, Activation(Kind[fn], fn, frame, argc, Len(st))), "run")
  ELSE Becomes(st, as, "err")

\* JsEnv::construct.  Reading the prototype property may fail.
Construct(st, as, frame, argc) ==
  LET fn == st[frame + 2] IN
  IF fn \in Functions /\ Kind[fn] = "bound"
  THEN Becomes(st, Append(as, Activation("boundnew", fn, frame, argc, Len(st))), "run")
  ELSE \/ Becomes(st, as, "err")
       \/ Call([st EXCEPT ![frame + 1] = Fresh],
               Append(as, Activation("new", fn, frame, argc, Len(st))), frame, argc, TRUE)

\* JsArgs::new
Pushed(fn, this, args) == stack \o <<this, fn>> \o args

\* run_program
Init ==
  LET st == <<Global, Main>> \o Undefineds(Params[Main] + Locals[Main]) IN
  /\ stack = st
  /\ acts = <<Activation("ir", Main, 0, 0, Len(st))>>
  /\ out = "run"

-----------------------------------------------------------------------------
Operands == Len(stack) - Top.base - Top.junk

Load == InCode /\ \E v \in Loads : Becomes(Append(stack, v), acts, "run")

Drop == InCode /\ Operands >= 1 /\ Becomes(Cut(stack, Len(stack) - 1), acts, "run")

Swap == /\ InCode /\ Operands >= 2
        /\ LET n == Len(stack) IN
           Becomes([stack EXCEPT ![n] = stack[n - 1], ![n - 1] = stack[n]], acts, "run")

\* Ir::Call(n), Ir::New(n).  A direct eval, and the calls that an instruction makes
\* by itself (a conversion, an accessor), are left out.
CallOp ==
  /\ InCode
  /\ \E n \in 0 .. Operands - 2, construct \in Modes :
       LET frame == Len(stack) - n - 2 IN
       IF construct THEN Construct(stack, acts, frame, n)
       ELSE Call(stack, acts, frame, n, FALSE)

\* JsItem::call and construct from native code
NativeCalls ==
  /\ out = "run" /\ Waiting({"native"})
  /\ \E fn \in Loads, p \in Passed :
       \/ FALSE \in Modes /\ Call(Pushed(fn, p.this, p.args), acts, Len(stack), Len(p.args), FALSE)
       \/ TRUE \in Modes /\ Construct(Pushed(fn, Undefined, p.args), acts, Len(stack), Len(p.args))

\* JsFunction::Bound in do_call, is_bound in construct
Bind ==
  /\ out = "run" /\ Waiting({"bound", "boundnew"})
  /\ LET t    == Target[Top.fn]
         args == t.args \o SubSeq(stack, Top.frame + 3, Top.frame + 2 + Top.argc)
     IN IF Top.kind = "bound"
        THEN Call(Pushed(t.fn, t.this, args), acts, Len(stack), Len(args), FALSE)
        ELSE Construct(Pushed(t.fn, Undefined, args), acts, Len(stack), Len(args))

\* Ir::Return, and the end of a native function: the frame is dropped, the
\* result pushed.
ReturnOp ==
  /\ InCode /\ Operands >= 1
  /\ Becomes(Append(Cut(stack, Top.frame), stack[Len(stack)]), Below, "ok")
NativeReturns ==
  /\ out = "run" /\ Waiting({"native"})
  /\ \E v \in Loads : Becomes(Append(Cut(stack, Top.frame), v), Below, "ok")

\* The callee of the activation on top has returned.
Resumes == out = "ok" /\ acts # <<>>
CodeResumes == Resumes /\ Top.kind = "ir" /\ Becomes(stack, acts, "run")
NativeResumes == Resumes /\ Top.kind = "native" /\ Becomes(Cut(stack, Len(stack) - 1), acts, "run")
NewResumes ==
  /\ Resumes /\ Top.kind = "new"
  /\ Becomes([stack EXCEPT ![Len(stack)] = IF @ = Undefined THEN Fresh ELSE @], Below, "ok")
BoundResumes == Resumes /\ Top.kind = "bound" /\ Becomes(stack, Below, "ok")
\* mutant: as BoundResumes
BoundNewKeeps == Resumes /\ Top.kind = "boundnew" /\ Becomes(stack, Below, "ok")
BoundNewResumes ==
  /\ Resumes /\ Top.kind = "boundnew"
  /\ Becomes(Append(Cut(stack, Top.frame), stack[Len(stack)]), Below, "ok")

\* An instruction fails (local_try leaves its operands, Ir::Throw drops its
\* own), or native code does.
Throw ==
  /\ out = "run" /\ Waiting({"ir", "native"})
  /\ \E n \in {0} \union (IF Top.kind = "ir" /\ Operands >= 1 THEN {1} ELSE {}) :
       Becomes(Cut(stack, Len(stack) - n), acts, "err")

\* call_block goes on in a catch or finally part; the operands stay where
\* they are, under those to come.
Catch ==
  /\ out = "err" /\ Waiting({"ir", "native"})
  /\ Becomes(stack, [acts EXCEPT ![Len(acts)].junk = Len(stack) - Top.base], "run")

\* mutant: one cell of the caller is dropped with the frame
LeaveOneMore ==
  /\ out = "err" /\ acts # <<>>
  /\ Becomes(IF Top.kind = "new" THEN stack ELSE Cut(stack, Top.frame - 1), Below, "err")

\* call_block, call and construct drop the frame and pass the error on.
Leave ==
  /\ out = "err" /\ acts # <<>>
  /\ Becomes(IF Top.kind = "new" THEN stack ELSE Cut(stack, Top.frame), Below, "err")

Next ==
  \/ Load \/ Drop \/ Swap \/ CallOp \/ Bind \/ ReturnOp \/ NativeReturns
  \/ NativeCalls
  \/ CodeResumes \/ NativeResumes \/ NewResumes \/ BoundResumes \/ BoundNewResumes
  \/ Throw \/ Catch \/ Leave

Spec == Init /\ [][Next]_vars

-----------------------------------------------------------------------------
(* The refinement mapping: the values of an activation are the cells from  *)
(* its frame to the next one.                                              *)
Floor(a) == IF a.kind = "new" THEN a.frame ELSE a.base + a.junk
Held(a)  == IF a.kind = "ir" THEN a.argc + Missing(a.fn, a.argc) ELSE a.argc

\* The activation a, with operands up to cell u
Ops(a, st, u) == IF a.kind = "ir" THEN SubSeq(st, a.base + a.junk + 1, u) ELSE <<>>
Show(a, st, u) ==
  IF a.kind = "new"
  THEN [kind |-> "new", fn |-> a.fn, this |-> Undefined, args |-> <<>>, ops |-> <<>>]
  ELSE [kind |-> a.kind, fn |-> st[a.frame + 2], this |-> st[a.frame + 1],
        args |-> SubSeq(st, a.frame + 3, a.frame + 2 + Held(a)), ops |-> Ops(a, st, u)]
Picture(st, as, u) ==
  [i \in 1 .. Len(as) |-> Show(as[i], st, IF i < Len(as) THEN as[i + 1].frame ELSE u)]

\* The result is no operand yet, and an error takes those of its activation.
Edge(st, as, o) ==
  CASE o = "err" /\ as # <<>> -> Floor(as[Len(as)])
    [] o = "ok"               -> Len(st) - 1
    [] OTHER                  -> Len(st)

AbsActs == Picture(stack, acts, Edge(stack, acts, out))
AbsOut  == [is |-> out, val |-> IF out = "ok" THEN stack[Len(stack)] ELSE Undefined]

Abstract == INSTANCE Calls WITH acts <- AbsActs, out <- AbsOut

ASSUME SameAssumption == Abstract!FunctionsAssumption

\* Calls on one shared stack behave as if every activation had values of its
\* own: no call loses, keeps or overwrites a value of its caller (Stack,
\* JsArgs and the call functions of rt/runtime.rs together).  The one step that
\* does is the return of a bound function's call, which leaves its frame there.
Calling == Abstract!Init /\ [][BoundResumes \/ Abstract!Next]_(Abstract!vars)

\* What a step does to the stack stays above the frame of the innermost
\* activation: its caller's cells are neither overwritten nor cut off, bound
\* functions included (nothing in rt/stack.rs checks drop_frame, pop or set).
CallersKept ==
  [][acts # <<>> => /\ Len(stack') >= Top.frame
                    /\ Cut(stack', Top.frame) = Cut(stack, Top.frame)]_vars
=============================================================================

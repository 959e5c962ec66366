------------------------------- MODULE Calls -------------------------------
(***************************************************************************)
(* What a call promises: every activation has a this value, arguments and  *)
(* operands of its own; the caller gives up the values it passed and gets  *)
(* the result in their place; an exception takes the operands of every     *)
(* activation it leaves, and those of the one that catches it.             *)
(***************************************************************************)
EXTENDS Integers, Sequences

CONSTANTS
  Functions,    \* function objects
  Kind,         \* of a function: "ir", "native" or "bound"
  Params,       \* IrFunction::args of an "ir" function
  Strict,       \* the strict "ir" functions
  Constructors, \* the functions that can_construct
  Target,       \* of a "bound" function: [fn, this, args]
  Main,         \* the function run_program calls
  Modes,        \* what the code does to functions: FALSE calls, TRUE constructs
  Loads,        \* the values that instructions and native code come up with
  Passed,       \* the [this, args] native code passes
  Undefined, Global, Fresh  \* other values; Fresh is an object made by new

Values == Functions \union {Undefined, Global, Fresh}

\* What the modules that use this one assume of these constants.
FunctionsAssumption ==
  /\ Kind \in [Functions -> {"ir", "native", "bound"}]
  /\ Params \in [Functions -> Nat]
  /\ Strict \subseteq Functions /\ Constructors \subseteq Functions
  /\ Main \in Functions /\ Kind[Main] = "ir"
  /\ {Undefined, Global, Fresh} \intersect Functions = {}
  /\ Modes \subseteq BOOLEAN /\ Loads \subseteq Values
  /\ Passed \subseteq [this : Values, args : Seq(Values)]
  /\ \A f \in Functions : Kind[f] = "bound" =>
       Target[f] \in [fn : Values, this : Values, args : Seq(Values)]

IsObject(v) == v # Undefined

VARIABLES
  acts,         \* the activations, outermost first: [kind, fn, this, args, ops]
  out           \* [is, val]: "run", or what the last activation ended with:
                \* "ok" and its value, "err", or "panic" when the stack is full

vars == <<acts, out>>

Run      == [is |-> "run", val |-> Undefined]
Ok(v)    == [is |-> "ok", val |-> v]
Err      == [is |-> "err", val |-> Undefined]
Panic    == [is |-> "panic", val |-> Undefined]

Activation(kind, fn, this, args) ==
  [kind |-> kind, fn |-> fn, this |-> this, args |-> args, ops |-> <<>>]

\* A missing argument is undefined; a function that is not strict sees the
\* global object for an undefined this.
Padded(fn, args) == [i \in 1 .. Params[fn] |-> IF i <= Len(args) THEN args[i] ELSE Undefined]
Arguments(fn, args) ==
  IF Len(args) < Params[fn] THEN Padded(fn, args) ELSE args
Entered(fn, this, args) ==
  CASE Kind[fn] = "ir" ->
         Activation("ir", fn, IF fn \notin Strict /\ this = Undefined THEN Global ELSE this,
                    Arguments(fn, args))
    [] OTHER -> Activation(Kind[fn], fn, this, args)

Top == acts[Len(acts)]
Below == SubSeq(acts, 1, Len(acts) - 1)
WithOps(as, ops) == [as EXCEPT ![Len(as)].ops = ops]

Init == acts = <<Entered(Main, Global, <<>>)>> /\ out = Run

-----------------------------------------------------------------------------
InCode == out = Run /\ acts # <<>> /\ Top.kind = "ir"

\* Instructions that load a value, drop one, exchange two.
Load == InCode /\ out' = Run
        /\ \E v \in Loads : acts' = WithOps(acts, Append(Top.ops, v))
Drop == InCode /\ Top.ops # <<>> /\ UNCHANGED out
        /\ acts' = WithOps(acts, SubSeq(Top.ops, 1, Len(Top.ops) - 1))
Swap == /\ InCode /\ Len(Top.ops) >= 2 /\ UNCHANGED out
        /\ LET n == Len(Top.ops) IN
           acts' = WithOps(acts, [Top.ops EXCEPT ![n] = Top.ops[n - 1],
                                                 ![n - 1] = Top.ops[n]])

\* fn is called by as: one more activation, or an error in the caller.
Called(as, fn, this, args, construct) ==
  IF fn \in Functions /\ (construct => fn \in Constructors)
  THEN acts' = Append(as, Entered(fn, this, args)) /\ out' = Run
  ELSE acts' = WithOps(as, <<>>) /\ out' = Err

\* [[Construct]]: of a bound function, and of any other, which may fail when
\* the prototype property is read.
Constructed(as, fn, this, args) ==
  \/ fn \in Functions /\ Kind[fn] = "bound"
     /\ acts' = Append(as, Activation("boundnew", fn, this, args)) /\ out' = Run
  \/ ~(fn \in Functions /\ Kind[fn] = "bound")
     /\ Called(Append(as, Activation("new", fn, Undefined, <<>>)), fn, Fresh, args, TRUE)
  \/ ~(fn \in Functions /\ Kind[fn] = "bound")
     /\ acts' = WithOps(as, <<>>) /\ out' = Err

\* Ir::Call(n), Ir::New(n): this, the function and n arguments are operands.
CallOp ==
  /\ InCode
  /\ \E n \in 0 .. Len(Top.ops) - 2, construct \in Modes :
       LET k    == Len(Top.ops) - n - 2
           this == Top.ops[k + 1]
           fn   == Top.ops[k + 2]
           args == SubSeq(Top.ops, k + 3, Len(Top.ops))
           as   == WithOps(acts, SubSeq(Top.ops, 1, k))
       IN IF construct THEN Constructed(as, fn, this, args)
          ELSE Called(as, fn, this, args, FALSE)

\* Native code calls or constructs a value with arguments of its choice.
NativeCalls ==
  /\ out = Run /\ acts # <<>> /\ Top.kind = "native"
  /\ \E fn \in Loads, p \in Passed :
       \/ FALSE \in Modes /\ Called(acts, fn, p.this, p.args, FALSE)
       \/ TRUE \in Modes /\ Constructed(acts, fn, Undefined, p.args)

\* A bound function calls its target with the bound arguments first.
Bind ==
  /\ out = Run /\ acts # <<>> /\ Top.kind \in {"bound", "boundnew"}
  /\ LET t == Target[Top.fn] IN
     IF Top.kind = "bound" THEN Called(acts, t.fn, t.this, t.args \o Top.args, FALSE)
     ELSE Constructed(acts, t.fn, Undefined, t.args \o Top.args)

Ended(v) == acts' = Below /\ out' = Ok(v)

ReturnOp == InCode /\ Top.ops # <<>> /\ Ended(Top.ops[Len(Top.ops)])
NativeReturns == /\ out = Run /\ acts # <<>> /\ Top.kind = "native"
                 /\ \E v \in Loads : Ended(v)

\* A value arrives in the activation that asked for it.
Result ==
  /\ out.is = "ok" /\ acts # <<>>
  /\ CASE Top.kind = "ir"     -> acts' = WithOps(acts, Append(Top.ops, out.val)) /\ out' = Run
       [] Top.kind = "native" -> UNCHANGED acts /\ out' = Run
       [] Top.kind = "new"    -> Ended(IF IsObject(out.val) THEN out.val ELSE Fresh)
       [] OTHER               -> Ended(out.val)

\* throw, and native code that fails
Throw == /\ out = Run /\ acts # <<>> /\ Top.kind \in {"ir", "native"}
         /\ acts' = WithOps(acts, <<>>) /\ out' = Err

\* A catch or finally part, or native code that goes on after an error.
Catch == /\ out = Err /\ acts # <<>> /\ Top.kind \in {"ir", "native"}
         /\ acts' = WithOps(acts, <<>>) /\ out' = Run

\* No one here catches it: the error goes to the caller.
Leave == /\ out = Err /\ acts # <<>>
         /\ acts' = IF Len(acts) = 1 THEN <<>> ELSE WithOps(Below, <<>>)
         /\ UNCHANGED out

Abort == out = Run /\ out' = Panic /\ UNCHANGED acts

Next ==
  \/ Load \/ Drop \/ Swap \/ CallOp \/ Bind \/ ReturnOp \/ NativeReturns
  \/ NativeCalls \/ Result \/ Throw \/ Catch \/ Leave \/ Abort

Spec == Init /\ [][Next]_vars
=============================================================================

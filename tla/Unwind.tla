------------------------------- MODULE Unwind -------------------------------
(***************************************************************************)
(* The interpreter loop of rt/interpreter.rs (JsEnv::call_block): one      *)
(* activation of a function whose body is one of Functions, with the code   *)
(* and the exception blocks that IrCode emits for it.  What the evaluation *)
(* of an expression does is left open: it may complete or throw, and a     *)
(* condition may hold or not.  Every such outcome is an event of log.      *)
(***************************************************************************)
EXTENDS IrCode, FiniteSets

CONSTANTS
  Functions,    \* [body, thick]: a body and whether its scope is thick
  MaxGo         \* bound: how often loops go on in one activation

VARIABLES
  function,     \* what is called
  code,         \* its Block: ir and try_catches
  ip,           \* frame.ip
  thrown,       \* frame.thrown: <<at>> of the exception in flight, <<>> for None
  leave,        \* the pending leave, 0 for None
  env,          \* object environments entered and not left
  local,        \* the return target's local
  log,          \* the events so far
  result        \* how the activation ended

vars == <<function, code, ip, thrown, leave, env, local, log, result>>
called == <<function, code>>

Running  == Completion("running", NoPlace, NoLabel)
Panicked == Completion("panic", NoPlace, NoLabel)

Init ==
  /\ function \in Functions
  /\ code = FunctionIr(function.body, function.thick)
  /\ ip = 1 /\ thrown = <<>> /\ leave = 0 /\ env = 0
  /\ local = NoPlace /\ log = <<>> /\ result = Running

-----------------------------------------------------------------------------
Blocks == code.blocks
\* The table is scanned from its first entry: the first i that Test accepts.
First(Test(_)) == SelectInSeq([i \in DOMAIN Blocks |-> i], Test)

InTry(i)     == InRange(Blocks[i].try, ip)
InCatch(i)   == InRange(Blocks[i].catch, ip)
InFinally(i) == InRange(Blocks[i].finally, ip)
HasCatch(i)   == Present(Blocks[i].catch)
HasFinally(i) == Present(Blocks[i].finally)
CatchStart(i)   == Blocks[i].catch.from
FinallyStart(i) == Blocks[i].finally.from

\* TryCatch::contains: from the try part up to the last part of the block.
Covers(i, target) ==
  /\ target >= Blocks[i].try.from
  /\ target < IF HasFinally(i) THEN FinallyStart(i) ELSE CatchStart(i)

At(op) == result = Running /\ code.ir[ip].op = op
Event(at, got, exc) == [at |-> at, got |-> got, env |-> env, exc |-> exc]
Logged(got) == log' = Append(log, Event(code.ir[ip].at, got, NoPlace))

\* mutant: The catch part of a block with a finally part is not protected by it.
HandlerTryOnly(i) ==
  IF InTry(i) THEN (IF HasCatch(i) THEN CatchStart(i) ELSE FinallyStart(i)) ELSE 0

\* Where an exception raised at ip goes in block i, 0 if the block has no
\* part for it.
Handler(i) ==
  IF InTry(i) THEN (IF HasCatch(i) THEN CatchStart(i) ELSE FinallyStart(i))
  ELSE IF InCatch(i) /\ HasFinally(i) THEN FinallyStart(i) ELSE 0

\* Next::Throw
Throw(at) ==
  LET i == First(LAMBDA j : Handler(j) # 0) IN
  /\ thrown' = <<at>>
  /\ IF i # 0 THEN ip' = Handler(i) /\ UNCHANGED result
     ELSE result' = Threw(at) /\ UNCHANGED ip

Gone == Cardinality({i \in DOMAIN log : log[i].got = "go"})

\* An expression is evaluated: the next instruction, or an exception.
Eval ==
  /\ At("eval")
  /\ \/ /\ IF code.ir[ip].on = "go" THEN Gone < MaxGo /\ Logged("go") ELSE Logged("ok")
        /\ ip' = ip + 1 /\ UNCHANGED <<thrown, result>>
     \/ Logged("throw") /\ Throw(code.ir[ip].at)
  /\ UNCHANGED <<called, leave, env, local>>

\* A condition with its jump.
Branch ==
  /\ At("branch")
  /\ \/ \E got \in {"go", "stop"} :
          /\ got = "go" => Gone < MaxGo
          /\ Logged(got)
          /\ ip' = IF got = code.ir[ip].on THEN code.ir[ip].to ELSE ip + 1
          /\ UNCHANGED <<thrown, result>>
     \/ Logged("throw") /\ Throw(code.ir[ip].at)
  /\ UNCHANGED <<called, leave, env, local>>

\* Ir::NextIter
NextIter ==
  /\ At("next")
  /\ \E got \in {"go", "stop"} :
       /\ got = "go" => Gone < MaxGo
       /\ Logged(got)
       /\ ip' = IF got = "go" THEN code.ir[ip].to ELSE ip + 1
  /\ UNCHANGED <<called, thrown, leave, env, local, result>>

Jump ==
  /\ At("jump")
  /\ ip' = code.ir[ip].to
  /\ UNCHANGED <<called, thrown, leave, env, local, log, result>>

EnterEnv ==
  /\ At("enterenv")
  /\ env' = env + 1 /\ ip' = ip + 1
  /\ UNCHANGED <<called, thrown, leave, local, log, result>>

LeaveEnv ==
  /\ At("leaveenv")
  /\ env' = env - 1 /\ ip' = ip + 1
  /\ UNCHANGED <<called, thrown, leave, local, log, result>>

\* Ir::LoadException and the store of the catch parameter.
LoadException ==
  /\ At("exception")
  /\ IF thrown = <<>>
     THEN result' = Panicked /\ UNCHANGED <<ip, thrown, log>>
     ELSE /\ log' = Append(log, Event(code.ir[ip].at, "catch", thrown[1]))
          /\ thrown' = <<>> /\ ip' = ip + 1 /\ UNCHANGED result
  /\ UNCHANGED <<called, leave, env, local>>

\* Ir::StoreLocal of the return target
StoreReturn ==
  /\ At("store")
  /\ local' = code.ir[ip].at /\ ip' = ip + 1
  /\ UNCHANGED <<called, thrown, leave, env, log, result>>

ReturnOp ==
  /\ result = Running
  /\ \/ code.ir[ip].op = "return" /\ result' = Completion("return", code.ir[ip].at, NoLabel)
     \/ code.ir[ip].op = "returnlocal" /\ result' = Completion("return", local, NoLabel)
     \/ code.ir[ip].op = "end" /\ result' = Normal
  /\ UNCHANGED <<called, ip, thrown, leave, env, local, log>>

\* Ir::EndIter does nothing.
EndIter ==
  /\ At("enditer")
  /\ ip' = ip + 1
  /\ UNCHANGED <<called, thrown, leave, env, local, log, result>>

-----------------------------------------------------------------------------
(* The end of a try or catch part, and break, continue and return in one.  *)
EnterFinally(i) == ip' = FinallyStart(i)
JumpTo(target)  == ip' = target /\ leave' = 0

\* The block whose finally part ip is in came before i in the table.
AfterFinally(i) == \E j \in 1 .. i - 1 : InFinally(j)

\* The search for the next finally part after a finished one stops at block
\* i: enter the block's finally part, or go to the target.
Continues(i, target) == ~Covers(i, target) \/ HasFinally(i)

\* Next::Leave
Leave ==
  /\ At("leave")
  /\ thrown' = <<>>
  /\ LET target == code.ir[ip].to
         i == First(LAMBDA j : \/ AfterFinally(j) /\ Continues(j, target)
                               \/ InTry(j) \/ InCatch(j))
     IN CASE i # 0 /\ AfterFinally(i) /\ Continues(i, target) ->
               IF Covers(i, target)
               THEN EnterFinally(i) /\ leave' = target /\ UNCHANGED result
               ELSE JumpTo(target) /\ UNCHANGED result
          [] i # 0 /\ ~(AfterFinally(i) /\ Continues(i, target)) ->
               IF HasFinally(i)
               THEN EnterFinally(i) /\ leave' = target /\ UNCHANGED result
               ELSE JumpTo(target) /\ UNCHANGED result
          [] i = 0 /\ (\E j \in DOMAIN Blocks : InFinally(j)) ->
               JumpTo(target) /\ UNCHANGED result
          [] OTHER -> result' = Panicked /\ UNCHANGED <<ip, leave>>
  /\ UNCHANGED <<called, env, local, log>>

\* Next::EndFinally with an exception in flight
EndFinallyThrown ==
  /\ At("endfinally") /\ thrown # <<>>
  /\ LET i == First(LAMBDA j : AfterFinally(j) /\ Handler(j) # 0) IN
     IF i # 0 THEN ip' = Handler(i) /\ UNCHANGED result
     ELSE result' = Threw(thrown[1]) /\ UNCHANGED ip
  /\ UNCHANGED <<called, thrown, leave, env, local, log>>

\* Next::EndFinally with a pending leave
EndFinallyLeave ==
  /\ At("endfinally") /\ thrown = <<>> /\ leave # 0
  /\ LET i == First(LAMBDA j : AfterFinally(j) /\ Continues(j, leave)) IN
     IF leave # ip + 1 /\ i # 0 /\ Covers(i, leave)
     THEN EnterFinally(i) /\ UNCHANGED leave
     ELSE JumpTo(leave)
  /\ UNCHANGED <<called, thrown, env, local, log, result>>

\* mutant: The end of a finally part does not move on.
EndFinallyStuck ==
  /\ At("endfinally") /\ thrown = <<>> /\ leave = 0
  /\ ip' = ip
  /\ UNCHANGED <<called, thrown, leave, env, local, log, result>>

\* Next::EndFinally with neither
EndFinallyNext ==
  /\ At("endfinally") /\ thrown = <<>> /\ leave = 0
  /\ ip' = ip + 1
  /\ UNCHANGED <<called, thrown, leave, env, local, log, result>>

Ended == result # Running /\ UNCHANGED vars

Step ==
  \/ Eval \/ Branch \/ NextIter \/ EndIter \/ Jump \/ EnterEnv \/ LeaveEnv
  \/ LoadException \/ StoreReturn \/ ReturnOp
  \/ Leave \/ EndFinallyThrown \/ EndFinallyLeave \/ EndFinallyNext

Next == Step \/ Ended

\* The loop runs instructions until the activation ends.
Spec == Init /\ [][Next]_vars /\ WF_vars(Step)
-----------------------------------------------------------------------------
\* The events are those that ECMA-262 5.1 chapter 12 prescribes, in its order
\* and under its environments, and the activation ends as it says: every
\* finally clause runs once per exit, no exception or return is lost, and
\* break and continue arrive where they point (emit_* of ir/mod.rs and the
\* Throw, Leave and EndFinally arms of call_block together).
AsSpecified ==
  LET r == Replay(function.body, function.thick, log) IN
  /\ r.n = Len(log) /\ r.c # Wrong
  /\ result # Running => r.c = result

\* An activation whose loops end comes to an end: unwinding never circles.
Ends == <>(result # Running)
=============================================================================

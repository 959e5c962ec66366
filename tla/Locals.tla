------------------------------- MODULE Locals -------------------------------
(***************************************************************************)
(* Scope resolution: where each use of a name finds its variable.          *)
(*                                                                         *)
(* The parser declares slots per function and marks the functions around   *)
(* an eval or a with; LocalResolver walks the program once, in the order   *)
(* of the source, and gives every identifier a state and every function    *)
(* the scope it builds and takes; the generator and the interpreter go by  *)
(* these.  Here the program is revealed while it is resolved: each step of *)
(* the walk chooses what comes next in the source.  Reaches says where the *)
(* code for a finished program looks, Expected where it should.            *)
(***************************************************************************)
EXTENDS Integers, SequencesExt

CONSTANTS
  Names,         \* the names of variables
  Arguments,     \* the name "arguments"
  Decls,         \* what functions declare, see Global
  MaxUses,       \* identifiers of a program (bound)
  MaxParts       \* functions, catch blocks and with statements of a program,
                 \* and the program itself (bound)

ASSUME DeclsAssumption == \A decl \in Decls : decl.deopt \in BOOLEAN
ASSUME PartsAssumption == MaxParts \in Nat \ {0}

VARIABLES
  fns,       \* functions, in the order the walk meets them; the first is the
             \* program
  walker,    \* BlockWalker's stack of scopes
  idents,    \* the identifiers met so far
  opened,    \* how many catch and with blocks were met
  known      \* which of the known departures happened, see Cuts and Keeps

vars == <<fns, walker, idents, opened, known>>

Scope == [none |-> <<"None">>, thick |-> <<"Thick">>]

Thin(size) == <<"Thin", size>>
Local == <<"Local">>
Scoped == <<"Scoped">>
Lifted(index) == <<"Lifted", index>>
IsLifted(slot) == slot \notin {Local, Scoped}

(* A declaration: parameters, other locals, whether the function mentions  *)
(* arguments, is strict, or has an eval or with in it.                     *)
Global == [params |-> {}, locals |-> {}, arguments |-> FALSE, strict |-> FALSE,
           deopt |-> FALSE, self |-> <<>>]

-----------------------------------------------------------------------------
(* The parser: slots of a function, and what RootBlock::new makes of an    *)
(* eval or with.  A catch block adds a slot of its own.                    *)
SlotOf(name, block) == <<name, block>>

NewFunction(decl, parent, site) ==
  LET declared == decl.params \cup decl.locals
                  \cup IF decl.arguments THEN {Arguments} ELSE {}
  IN  [decl |-> decl, parent |-> parent, site |-> site,
       build |-> IF decl.deopt THEN Scope.thick ELSE Scope.none,
       take |-> decl.deopt,
       slots |-> [s \in {SlotOf(n, 0) : n \in declared} |->
                    IF parent = 0 THEN Scoped ELSE Local]]

Root == [kind |-> "root", name |-> <<>>, id |-> 0]
Open(f) == [fn |-> f, lifted |-> 0, blocks |-> <<Root>>]

Init ==
  /\ fns = <<NewFunction(Global, 0, <<>>)>>
  /\ walker = <<Open(1)>>
  /\ idents = <<>>
  /\ opened = 0
  /\ known = {}

-----------------------------------------------------------------------------
(* resolve_ident.                                                          *)
Declares(f, block, name) ==
  CASE block.kind = "root" -> SlotOf(name, 0) \in DOMAIN fns[f].slots
    [] block.kind = "catch" -> name = block.name
    [] OTHER -> FALSE

IsTop(s, b) == s = 1 /\ b = 1

Stops(name, s, b) ==
  LET f == walker[s].fn
      block == walker[s].blocks[b]
  IN  \/ IsTop(s, b)
      \/ fns[f].decl.self = name
      \/ block.kind = "with"
      \/ Declares(f, block, name)

(* The innermost block at which the walk from the top of the stack stops.  *)
Stop(name) ==
  LET places == {p \in (1 .. Len(walker)) \X (1 .. MaxParts) :
                   p[2] <= Len(walker[p[1]].blocks) /\ Stops(name, p[1], p[2])}
  IN  CHOOSE p \in places : \A q \in places :
        q[1] < p[1] \/ (q[1] = p[1] /\ q[2] <= p[2])

(* Whether the walk met a scope that is built thick on its way to s, b.    *)
MetThick(s, b) ==
  \E i \in s .. Len(walker) :
    /\ fns[walker[i].fn].build = Scope.thick
    /\ ~(i = 1 /\ IsTop(s, b) /\ Len(walker[1].blocks) = 1)

Resolved(name) ==
  LET at == Stop(name)
      s == at[1]
      f == walker[s].fn
      block == walker[s].blocks[at[2]]
      slot == SlotOf(name, block.id)
      depth == Len(walker) - s
      thick == MetThick(s, at[2])
      mapped == /\ ~fns[Last(walker).fn].decl.strict
                /\ block.kind = "root" /\ name \in fns[f].decl.params
                /\ fns[f].decl.arguments
  IN  IF IsTop(s, at[2])
        THEN [is |-> IF thick \/ fns[1].take THEN "Scoped" ELSE "Global"]
      ELSE IF fns[f].decl.self = name THEN [is |-> "LoadFunction", fn |-> f]
      ELSE IF block.kind = "with" THEN [is |-> "Scoped"]
      ELSE IF mapped
        THEN [is |-> IF thick THEN "ScopedArg"
                     ELSE IF depth > 0 THEN "LiftedArg" ELSE "Arg",
              fn |-> f, slot |-> slot, depth |-> depth]
      ELSE IF thick THEN [is |-> "Scoped"]
      ELSE [is |-> IF depth = 0 THEN "Slot" ELSE "LiftedSlot",
            fn |-> f, slot |-> slot, depth |-> depth]

(* A local that is reached from another function gets a place in the       *)
(* function's scope.                                                       *)
Lifts(state) ==
  /\ state.is = "LiftedSlot"
  /\ fns[state.fn].slots[state.slot] = Local

Lift(fs, state) ==
  IF Lifts(state)
    THEN [fs EXCEPT ![state.fn].slots[state.slot] =
            Lifted(walker[Len(walker) - state.depth].lifted)]
    ELSE fs

\* Mutant of Counted: the count of lifted locals stays as it is.
NeverCounted(state) == walker

Counted(state) ==
  IF Lifts(state)
    THEN [walker EXCEPT ![Len(walker) - state.depth].lifted = @ + 1]
    ELSE walker

-----------------------------------------------------------------------------
(* mark_build_thin_scope and mark_build_thick_scope walk down the stack    *)
(* until they meet a function that builds a scope already.                 *)
Builds(fs, s) == fs[walker[s].fn].build

ThinReaches(fs, s) ==
  \A i \in s .. Len(walker) - 1 : Builds(fs, i) = Scope.none

MarkThin(fs, target) ==
  LET Met(f, last) == \E s \in last .. Len(walker) - 1 :
                        walker[s].fn = f /\ ThinReaches(fs, s)
  IN  [f \in DOMAIN fs |->
         IF f = Last(walker).fn THEN [fs[f] EXCEPT !.take = TRUE]
         ELSE IF Met(f, target)
           THEN [fs[f] EXCEPT !.build = Thin(0), !.take = @ \/ Met(f, target + 1)]
         ELSE fs[f]]

(* A known departure: the walk ends, above the target, at a function that  *)
(* builds a scope for locals of its own and does not take one.             *)
Cuts(fs, target) ==
  \E s \in target + 1 .. Len(walker) - 1 :
    /\ Builds(fs, s) # Scope.none /\ ~fs[walker[s].fn].take
    /\ ThinReaches(fs, s + 1)

ThickReaches(fs, s) ==
  \A i \in s .. Len(walker) : Builds(fs, i) # Scope.thick

\* Mutant of MarkThick: only the function itself is marked.
MarkTopThick(fs) ==
  [fs EXCEPT ![Last(walker).fn].build = Scope.thick,
             ![Last(walker).fn].take = TRUE]

MarkThick(fs) ==
  [f \in DOMAIN fs |->
     IF \E s \in DOMAIN walker : walker[s].fn = f /\ ThickReaches(fs, s)
       THEN [fs[f] EXCEPT !.build = Scope.thick, !.take = TRUE]
       ELSE fs[f]]

\* Mutant of Marked: a lifted identifier marks its chain thick.
MarkedThick(fs, state) ==
  IF state.is \in {"LiftedSlot", "LiftedArg", "Scoped", "ScopedArg"}
    THEN MarkThick(fs) ELSE fs

Marked(fs, state) ==
  CASE state.is \in {"LiftedSlot", "LiftedArg"} ->
         MarkThin(fs, Len(walker) - state.depth)
    [] state.is \in {"Scoped", "ScopedArg"} -> MarkThick(fs)
    [] OTHER -> fs

Ident(name, state) ==
  [name |-> name, fn |-> Last(walker).fn, blocks |-> Last(walker).blocks,
   state |-> state]

-----------------------------------------------------------------------------
(* ThickScopeTransformer, when the resolver leaves a function that turned  *)
(* out to build a thick scope.                                             *)
Converts(fs, f) == fs[f].take /\ fs[f].build # Scope.thick

(* The functions rewritten with top: the least set with top in it and with *)
(* every convertible function of a function in it.                         *)
Closed(fs, S) ==
  \A f \in DOMAIN fs : Converts(fs, f) /\ fs[f].parent \in S => f \in S

Rewritten(fs, top) ==
  {f \in DOMAIN fs :
     \A S \in SUBSET DOMAIN fs : top \in S /\ Closed(fs, S) => f \in S}

\* Mutant of Transform: the functions inside are left as they are.
TransformOne(fs, top) ==
  [f \in DOMAIN fs |->
     IF f # top THEN fs[f]
     ELSE [fs[f] EXCEPT !.slots = [s \in DOMAIN fs[f].slots |-> Scoped]]]

Transform(fs, top) ==
  [f \in DOMAIN fs |->
     IF f \notin Rewritten(fs, top) THEN fs[f]
     ELSE [fs[f] EXCEPT
             !.build = Scope.thick,
             !.slots = [s \in DOMAIN fs[f].slots |->
               IF f = top \/ \E i \in DOMAIN idents :
                               /\ idents[i].state.is = "Slot"
                               /\ idents[i].fn = f /\ idents[i].state.slot = s
                 THEN Scoped ELSE fs[f].slots[s]]]]

TransformIdents(fs, top) ==
  [i \in DOMAIN idents |->
     IF idents[i].fn \in Rewritten(fs, top) /\ idents[i].state.is # "ScopedArg"
       THEN [idents[i] EXCEPT !.state = [is |-> "Scoped"]]
       ELSE idents[i]]

(* A known departure: a function that is rewritten with another one keeps  *)
(* a lifted local that only functions inside of it mention.                *)
Keeps(fs, top) ==
  \E f \in Rewritten(fs, top) \ {top} :
    \E s \in DOMAIN fs[f].slots : IsLifted(Transform(fs, top)[f].slots[s])

-----------------------------------------------------------------------------
Top == Last(walker).fn
Running == walker # <<>>
MoreUses == Running /\ Len(idents) < MaxUses + opened
MoreParts == MoreUses /\ Len(fns) + opened < MaxParts

(* visit_expr_ident and the others: an identifier. *)
Use(name) ==
  LET state == Resolved(name) IN
    /\ MoreUses
    /\ name = Arguments => Top # 1 /\ fns[Top].decl.arguments
    /\ idents' = Append(idents, Ident(name, state))
    /\ fns' = Marked(Lift(fns, state), state)
    /\ walker' = Counted(state)
    /\ known' = known \cup IF /\ state.is \in {"LiftedSlot", "LiftedArg"}
                               /\ Cuts(fns, Len(walker) - state.depth)
                             THEN {"cuts"} ELSE {}
    /\ UNCHANGED opened

(* resolve_function for a function expression.  Whatever has an eval or a  *)
(* with inside has been marked by the parser with all that is around it.   *)
EnterFunction(decl) ==
  /\ MoreParts
  /\ decl.deopt => Top = 1 \/ fns[Top].decl.deopt
  /\ fns[Top].decl.strict => decl.strict
  /\ fns' = Append(fns, NewFunction(decl, Top, Last(walker).blocks))
  /\ walker' = Append(walker, Open(Len(fns) + 1))
  /\ UNCHANGED <<idents, opened, known>>

(* visit_catch, visit_item_with.  The caught name is an identifier, too.   *)
WithBlock(block) ==
  [walker EXCEPT ![Len(walker)].blocks = Append(@, block)]

EnterCatch(name) ==
  LET block == [kind |-> "catch", name |-> name, id |-> opened + 1]
      slot == SlotOf(name, block.id)
      state == IF fns[Top].decl.self = name
                 THEN [is |-> "LoadFunction", fn |-> Top]
               ELSE IF fns[Top].build = Scope.thick THEN [is |-> "Scoped"]
               ELSE [is |-> "Slot", fn |-> Top, slot |-> slot, depth |-> 0]
  IN  /\ MoreParts
      /\ fns' = [fns EXCEPT ![Top].slots =
                   [s \in DOMAIN @ \cup {slot} |->
                      IF s = slot THEN Local ELSE @[s]]]
      /\ walker' = WithBlock(block)
      /\ idents' = Append(idents, [name |-> name, fn |-> Top, state |-> state,
                                   blocks |-> Last(walker').blocks])
      /\ opened' = opened + 1
      /\ UNCHANGED known

EnterWith ==
  /\ MoreParts
  /\ Top = 1 \/ fns[Top].decl.deopt
  /\ ~fns[Top].decl.strict
  /\ walker' = WithBlock([kind |-> "with", name |-> <<>>, id |-> opened + 1])
  /\ opened' = opened + 1
  /\ UNCHANGED <<fns, idents, known>>

LeaveBlock ==
  /\ Running /\ Len(Last(walker).blocks) > 1
  /\ walker' = [walker EXCEPT ![Len(walker)].blocks = Front(@)]
  /\ UNCHANGED <<fns, idents, opened, known>>

(* The end of resolve_scope; after the program itself, parse_program takes *)
(* back what its own function builds and takes.                            *)
Leave ==
  LET lifted == Last(walker).lifted
      sized == IF lifted > 0 /\ fns[Top].build # Scope.thick
                 THEN [fns EXCEPT ![Top].build = Thin(lifted)] ELSE fns
      thick == sized[Top].build = Scope.thick
      done == IF thick THEN Transform(sized, Top) ELSE sized
  IN  /\ Running /\ Len(Last(walker).blocks) = 1
      /\ idents' = IF thick THEN TransformIdents(sized, Top) ELSE idents
      /\ fns' = IF Top # 1 THEN done
                ELSE [done EXCEPT ![1].build = Scope.none, ![1].take = FALSE]
      /\ walker' = Front(walker)
      /\ known' = known \cup IF thick /\ Keeps(sized, Top) THEN {"keeps"} ELSE {}
      /\ UNCHANGED opened

Next ==
  \/ \E name \in Names \cup {Arguments} : Use(name)
  \/ \E decl \in Decls : EnterFunction(decl)
  \/ \E name \in Names : EnterCatch(name)
  \/ EnterWith
  \/ LeaveBlock
  \/ Leave

Spec == Init /\ [][Next]_vars

-----------------------------------------------------------------------------
(* The interpreter's scopes, innermost first, when the finished program    *)
(* runs inside blocks of f.  A catch block has a scope in thick functions. *)
FnScope(f) == [kind |-> "function", name |-> <<>>, id |-> f]
GlobalScope == [kind |-> "global", name |-> <<>>, id |-> 0]

Inside(f, blocks) ==
  Reverse(SelectSeq(blocks, LAMBDA b :
    b.kind = "with" \/ (b.kind = "catch" /\ fns[f].build = Scope.thick)))

Env(at, blocks) ==
  LET env[f \in DOMAIN fns] ==
        (IF fns[f].build = Scope.none THEN <<>> ELSE <<FnScope(f)>>)
        \o IF fns[f].take
             THEN Inside(fns[f].parent, fns[f].site) \o env[fns[f].parent]
             ELSE <<GlobalScope>>
  IN  Inside(at, blocks) \o env[at]

IsThin(scope) ==
  scope.kind = "function" /\ fns[scope.id].build # Scope.thick

(* JsScope::arguments tells by the number of a scope's items.              *)
KeepsArguments(scope) ==
  \/ scope.kind = "global"
  \/ scope.kind = "function" /\ fns[scope.id].build # Thin(1)

Broken == <<"broken", 0, <<>>>>  \* a panic, or a word that is no variable

(* find_scope *)
AtDepth(f, env, depth, root) ==
  LET scopes == IF root THEN SelectSeq(env, KeepsArguments) ELSE env
      at == depth + IF fns[f].build = Scope.none THEN 0 ELSE 1
  IN  IF at \in DOMAIN scopes THEN scopes[at] ELSE GlobalScope

LiftedCell(scope, index) ==
  IF IsThin(scope) THEN <<"thin", scope.id, index>> ELSE Broken

(* find_scope_object: the scopes whose object may hold the name though     *)
(* nothing in the source says so, and where the search ends.               *)
MayHold(scope) ==
  scope.kind = "with" \/ (scope.kind = "function" /\ fns[scope.id].decl.deopt)

Holds(scope, name) ==
  CASE scope.kind = "global" -> TRUE
    [] scope.kind = "catch" -> scope.name = name
    [] scope.kind = "function" ->
         /\ SlotOf(name, 0) \in DOMAIN fns[scope.id].slots
         /\ fns[scope.id].slots[SlotOf(name, 0)] = Scoped
         /\ name # Arguments
    [] OTHER -> FALSE

ByName(env, name) ==
  LET k == SelectInSeq(env, LAMBDA s : IsThin(s) \/ Holds(s, name)) IN
    [through |-> SelectSeq(SubSeq(env, 1, k - 1), MayHold),
     cell |-> IF IsThin(env[k]) THEN Broken
              ELSE <<env[k].kind, env[k].id, name>>]

OwnCell(f, env, slot) ==
  LET state == fns[f].slots[slot] IN
    IF IsLifted(state)
      THEN LiftedCell(AtDepth(f, env, 0, FALSE), state[2])
    ELSE IF slot[1] \in fns[f].decl.params /\ slot[2] = 0
      THEN <<"param", f, slot[1]>>
    ELSE IF state = Local THEN <<"local", f, slot>>
    ELSE Broken

(* emit_load and what it loads. *)
Reaches(ident) ==
  LET f == ident.fn
      st == ident.state
      env == Env(f, ident.blocks)
      Direct(cell) == [through |-> <<>>, cell |-> cell]
      scoped == fns[f].build = Scope.thick \/ Inside(f, ident.blocks) # <<>>
      lifted == fns[st.fn].slots[st.slot]
  IN  CASE st.is = "Slot" -> Direct(OwnCell(f, env, st.slot))
        [] st.is = "LiftedSlot" ->
             Direct(IF IsLifted(lifted)
                      THEN LiftedCell(AtDepth(f, env, st.depth, FALSE), lifted[2])
                      ELSE Broken)
        [] st.is \in {"Scoped", "Global"} ->
             IF ~scoped THEN Direct(<<"global", 0, ident.name>>)
             ELSE IF ident.name = Arguments /\ fns[f].build = Scope.thick
               THEN Direct(<<"arguments", AtDepth(f, env, 0, TRUE).id, Arguments>>)
             ELSE ByName(env, ident.name)
        [] st.is = "ScopedArg" ->
             Direct(<<"mapped", AtDepth(f, env, st.depth, TRUE).id, ident.name>>)
        [] st.is = "Arg" ->
             Direct(IF fns[f].slots[SlotOf(Arguments, 0)] = Local
                      THEN <<"mapped", f, ident.name>> ELSE Broken)
        [] st.is = "LiftedArg" -> Direct(Broken)
        [] st.is = "LoadFunction" -> Direct(<<"self", st.fn, ident.name>>)

(* Chapter 10 of the language: environments are nested as the source is.   *)
SelfScope(f) == [kind |-> "self", name |-> fns[f].decl.self, id |-> f]

Nesting(at, blocks) ==
  LET Around(bs) == Reverse(Tail(bs))
      nest[f \in DOMAIN fns] ==
        IF f = 1 THEN <<GlobalScope>>
        ELSE <<FnScope(f), SelfScope(f)>> \o Around(fns[f].site)
               \o nest[fns[f].parent]
  IN  Around(blocks) \o nest[at]

Binds(scope, name) ==
  CASE scope.kind = "global" -> TRUE
    [] scope.kind \in {"catch", "self"} -> scope.name = name
    [] scope.kind = "function" -> SlotOf(name, 0) \in DOMAIN fns[scope.id].slots
    [] OTHER -> FALSE

(* Where the prolog of f, or the start of a catch block, puts a variable.  *)
Home(f, slot) ==
  LET name == slot[1]
      param == slot[2] = 0 /\ name \in fns[f].decl.params
      state == fns[f].slots[slot]
  IN  CASE f = 1 /\ slot[2] = 0 -> <<"global", 0, name>>
        [] param /\ fns[f].decl.arguments /\ ~fns[f].decl.strict ->
             <<"mapped", f, name>>
        [] OTHER ->
             IF state = Scoped
               THEN IF slot[2] # 0 THEN <<"catch", slot[2], name>>
                    ELSE <<IF name = Arguments THEN "arguments" ELSE "function",
                           f, name>>
             ELSE IF state # Local THEN <<"thin", f, state[2]>>
             ELSE IF param THEN <<"param", f, name>> ELSE <<"local", f, slot>>

OwnerOf(block) == CHOOSE f \in DOMAIN fns :
                    \E s \in DOMAIN fns[f].slots : s[2] = block

Expected(ident) ==
  LET env == Nesting(ident.fn, ident.blocks)
      k == SelectInSeq(env, LAMBDA s : Binds(s, ident.name))
      at == env[k]
  IN  [through |-> SelectSeq(SubSeq(env, 1, k - 1), MayHold),
       cell |-> CASE at.kind = "global" -> <<"global", 0, ident.name>>
                  [] at.kind = "catch" ->
                       Home(OwnerOf(at.id), SlotOf(ident.name, at.id))
                  [] at.kind = "self" -> <<"self", at.id, ident.name>>
                  [] OTHER -> Home(at.id, SlotOf(ident.name, 0))]

(* Known departures, told from the finished program.  A parameter that is  *)
(* mirrored by an arguments object is found only by the function itself;   *)
(* the name of a function expression is found before its locals, and not   *)
(* in functions with a thick scope.                                        *)
Around(ident) == {f \in DOMAIN fns : Contains(Nesting(ident.fn, ident.blocks),
                                              FnScope(f))}
Mirrored(ident) ==
  \E f \in Around(ident) :
    /\ fns[f].decl.arguments /\ ident.name \in fns[f].decl.params
    /\ f # ident.fn \/ (fns[f].build = Scope.thick /\ ~fns[f].decl.deopt)

SelfNamed(ident) ==
  \E f \in Around(ident) :
    /\ fns[f].decl.self = ident.name
    /\ fns[f].build = Scope.thick \/ \E s \in DOMAIN fns[f].slots : s[1] = ident.name

TopCaught(ident) ==
  \E s \in DOMAIN fns[1].slots :
    /\ s[1] = ident.name /\ s[2] # 0
    /\ fns[1].slots[s] # Local \/ ident.fn # 1

Ordinary(ident) == ~Mirrored(ident) /\ ~SelfNamed(ident) /\ ~TopCaught(ident)

-----------------------------------------------------------------------------
State == {"Global", "Scoped", "ScopedArg", "Arg", "Slot", "LiftedSlot",
          "LiftedArg", "LoadFunction"}

(* Two variables of a function that functions inside of it share never get *)
(* the same item of its thin scope, and the scope that LocalResolver makes *)
(* the function build has an item for each of them.  Not so the program,   *)
(* whose scope parse_program takes back; see TopCaught.                    *)
NoAlias ==
  \A f \in DOMAIN fns \ {1} :
    LET slots == fns[f].slots
        lifted == {s \in DOMAIN slots : IsLifted(slots[s])}
        open == {s \in DOMAIN walker : walker[s].fn = f}
    IN  /\ \A s, t \in lifted : slots[s][2] = slots[t][2] => s = t
        /\ open = {} /\ fns[f].build # Scope.thick =>
             \A s \in lifted :
               fns[f].build[1] = "Thin" /\ slots[s][2] < fns[f].build[2]

(* "A thick scope chain always reaches the global scope": a function that  *)
(* builds a thick scope takes one, and the function around it builds a     *)
(* thick scope, too.  mark_build_thick_scope stops at the first thick      *)
(* function on the strength of this.                                       *)
ThickChain ==
  \A f \in DOMAIN fns \ {1} :
    fns[f].build = Scope.thick =>
      /\ fns[f].take
      /\ fns[f].parent # 1 => fns[fns[f].parent].build = Scope.thick

(* Optimizations are off only where an eval or a with can be blamed: in a  *)
(* program without them LocalResolver makes no function build a thick      *)
(* scope and leaves no identifier to be searched for by name.              *)
Blamed ==
  LET With(blocks) == \E b \in DOMAIN blocks : blocks[b].kind = "with"
  IN  \/ \E f \in DOMAIN fns : fns[f].decl.deopt \/ With(fns[f].site)
      \/ \E i \in DOMAIN idents : With(idents[i].blocks)

Optimised ==
  Blamed \/ /\ \A f \in DOMAIN fns : fns[f].build # Scope.thick
            /\ \A i \in DOMAIN idents :
                 idents[i].state.is \notin {"Scoped", "ScopedArg"}

(* When the walk is over, every identifier reaches the variable its place  *)
(* in the source binds it to, through the same objects that may hide it.   *)
Denotes ==
  Running \/ known # {} \/ \A i \in DOMAIN idents :
    Ordinary(idents[i]) => Reaches(idents[i]) = Expected(idents[i])

(* "The complete chain from the current function until the function we're  *)
(* lifting from needs to participate in building thin scopes": each of the *)
(* functions between takes the scope that the one around it builds.        *)
LiftChain ==
  Running \/ \A i \in DOMAIN idents :
    idents[i].state.is = "LiftedSlot" =>
      LET nest[f \in DOMAIN fns] ==
            IF f = idents[i].state.fn THEN {} ELSE {f} \cup nest[fns[f].parent]
      IN  \A f \in nest[idents[i].fn] :
            fns[f].take /\ fns[fns[f].parent].build # Scope.none
=============================================================================

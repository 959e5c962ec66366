# A verification of rjs

`rjs` is an ECMAScript 5.1 engine in Rust: a parser, a generator of stack
machine code, an interpreter for it, a moving garbage collector, and the
standard library. These modules model its state machines from the source,
check them with TLC, and prove some of what is checked with TLAPS.

All of the engine is single threaded, so there are no races of threads here.
What is hard instead:

- **the collector moves everything**, at any allocation, under Rust code that
  holds handles, scopes and (in a few places) raw pointers;
- **control flow is compiled**: exceptions, `finally`, `break` and `return`
  become tables of exception blocks and jumps that must compose in any nesting;
- **one operand stack is shared** by all activations, with several ways of
  giving up a frame;
- **tables change under iterators**, relocate entries, and switch representation;
- **text is read on demand**: what a slash, a word or a new line means depends
  on what the parser finds out after the lexer has gone past it;
- **evaluation order** is spread over a generator and an interpreter that share
  nothing but operands on that stack;
- **numbers at their limits**: sizes of spaces, of the stack, of dense arrays.

## Inventory

| Part | State | Operations | Interacts with |
|---|---|---|---|
| Copying collector `gc/strategy/copying.rs` | two spaces, fill rate, last failed allocation, forwarding addresses | `alloc_raw`, `gc` (roots, scan, finalizers, swap) | is called by every allocation; asks the walker which words are pointers |
| `GcHeap` and handles `gc/mod.rs`, `gc/handles/` | root table with free list, local scopes and their vectors, walkers | allocate, create, clone and drop roots, scopes, locals; `gc` | hands the collector its roots; all of `rt/` holds handles |
| Heap walker `rt/walker.rs` | none (a layout per type) | `walk`, `finalize`, root walker of the stack | collector; must agree with every struct on the heap |
| Operand stack `rt/stack.rs` | cells, `sp` | push, pop, frames | interpreter, calls, collector (roots) |
| Calls `rt/runtime.rs`, `rt/mod.rs` | frames of the operand stack | `call`, `do_call`, `construct`, native callbacks | interpreter, library |
| Interpreter `rt/interpreter.rs` | ip, pending leave, pending exception, environment, locals | one arm per instruction; Throw, Leave, EndFinally | code of the generator; stack; objects |
| IR generator `ir/mod.rs`, `ir/builder.rs` | labels, break and continue targets, exception blocks, slots | `emit_*` per AST item | parser's AST; interpreter runs its blocks |
| Objects `rt/object/mod.rs` | properties, prototype, class, extensible | 8.12 and 15.4.5.1 methods | stores; runtime |
| Property maps `rt/object/hash_store.rs` | coalesced hash table | add, remove, replace, find, enumerate | objects, iterator, collector |
| Array store `rt/object/sparse_array.rs`, `array_store.rs` | dense array or sorted chunks | get, set, enumerate | objects, iterator, collector |
| Property iterator `rt/iterator.rs` | target, offset, seen names | `next` | stores that the loop's body changes |
| Strings, UTF, URIs | immutable blocks | conversions, encode, decode, replace | library |
| RegExp | boxed external regex | translate, exec, finalize | collector's finalizers |
| Numbers `rt/fmt`, `util/matchers.rs` | none | parse, format | lexer, library |
| JSON `rt/env/json` | writer's stack of ancestors, lexer position | parse, stringify | objects, user callbacks |
| Library `rt/env` | the global objects | one function per built-in | everything above |
| Lexer, reader, parser `syntax/` | position, token buffer, label sets | tokens, AST | scope resolution |
| Scope resolution `syntax/parser/locals` | scopes, slots, uses | resolve names, lift to scopes | parser, generator |
| Interner `util/interner.rs` | strings and names | intern, get | everything that has a name |
| Test harness, tracing | none of the engine | run test262 | |

What makes each correct, in the order the plan takes them:

1. *Collector*: invisible to the program (the graph it reads is the one it
   built, sharing and cycles included); no pointer dangles at any step; each
   space holds what is copied to it; finalizers run exactly for what dies;
   the allocation comes back.
2. *Handles*: a handle denotes its object for as long as it lives; slots are
   reused safely; what no handle denotes is freed; walkers end.
3. *Control flow*: code and interpreter together do what chapter 12 of
   ECMA-262 prescribes for every nest of statements.
4. *Calls*: an activation sees its own values whatever its callees do; a call
   replaces its operands by one result.
5. *Property maps, arrays*: a map from names to descriptors, or from indexes
   to entries, through every relocation and change of representation.
6. *for-in*: 12.6.4, with a body that changes what is enumerated.
7. *Objects*: 8.12.9, 15.4.5.1 and the prototype chain.
8. *Scope resolution*: every use denotes the variable that the nesting of
   functions says, wherever it was allocated.
9. *Expressions*: effects in the order of chapter 11, the value left, and the
   caller's operands untouched, for every expression.
10. *Parser*: the tree of the grammar for every text, in every layout.
11. *Library*: the algorithms equal those of the standard, whatever a callback
   does meanwhile.

## Modules

Detailed modules refine or are compared with abstract ones; the property that
says so is in brackets.

| Module | Models | Abstract specification |
|---|---|---|
| `ObjectGraph` | what the collector promises: objects, edges, handles, and that only the unreachable disappears | |
| `Copying` | `copying.rs` and `alloc_raw`, word by word | `ObjectGraph` [`GraphPreserved`] |
| `CopyingProofs` | theorems of `Copying`, the refinement among them | |
| `Handles` | root handles, local scopes, both root walkers | |
| `HandlesProofs` | theorems of `Handles` | |
| `Statements` | statements as the AST has them, and their meaning in chapter 12 as a replay of events | |
| `IrCode` | `emit_*` for statements, labels, exception blocks, their order | |
| `Unwind` | `call_block` on that code | `Statements` [`AsSpecified`] |
| `Ast` | the expressions of `syntax/ast/mod.rs` | |
| `Expressions` | what chapter 11 says of them: effects in order, and a value | |
| `ExprCode` | `emit_expr_*` and the helpers for names and members | |
| `Evaluation` | the interpreter's instructions on operands, names and members | `Expressions` [`AsSpecified`] |
| `Calls` | activations with values of their own | |
| `CallStack` | the shared operand stack, `call`, `do_call`, `construct`, errors and overflow | `Calls` [`Calling`] |
| `CallStackProofs` | theorems of `CallStack`, the refinement among them | |
| `PropertyMap` | what the `Store` trait promises: a map from names to descriptors | |
| `HashTable`, `HashStore` | the operators of `hash_store.rs` on a table; the table in every order of operations | `PropertyMap` |
| `HashTableProofs` | what the operators of `HashTable` do to names and values, and that they keep the chains, for tables of every size | |
| `SparseArray` | `sparse_array.rs` | `PropertyMap` |
| `ArrayStore` | `array_store.rs`: both stores behind one range of offsets | `PropertyMap` [`ReadsWhatWasWritten`] |
| `ArrayProofs` | theorems of `ArrayStore`, the refinement among them, on those lemmas; and of `ArrayLibrary`, its methods and its loops | |
| `ForIn` | `JsIterator` over tables and a prototype, with a changing body | |
| `ForInProofs` | theorems of `ForIn`, on those lemmas | |
| `Descriptors` | `JsDescriptor`, `Entry`, `define_own_object_property` | 8.12.9 as a condition on the outcome [`DefinesAsSpecified`] |
| `Properties` | the own properties of an array: `define_own_array_property`, `put`, `delete`, freeze, seal | 15.4.5.1 without its loop [`ArrayAsSpecified`] |
| `PropertiesProofs` | theorems of `Descriptors` and `Properties` | |
| `ArrayLibrary` | `env/array.rs`: the methods as operators, the loops with callbacks as actions between which the program changes the object | 15.4.4, element by element [`CallsAsSpecified`, `LoopVisits`, `LoopResult`] |
| `Locals` | `LocalResolver`, the slots of the parser, the loads of the generator, the scope chains of the interpreter | nested environments of chapter 10 [`Denotes`] |
| `LocalsProofs` | theorems of `Locals` | |
| `Items` | the statements and functions of `syntax/ast/mod.rs` | |
| `Numerals` | `DecimalMatcher` and its users | the grammars of 7.8.3, 9.3.1, 15.1.2.3 [`NumbersAsWritten`] |
| `Lexer` | `lexer.rs` over `reader.rs`: tokens, pending token, marks, modes | |
| `Parser` | `parser/mod.rs`: recursive descent on that lexer | |
| `Grammar` | chapters 7 and 11 to 14 the other way round: how a tree is written | |
| `Syntax` | a program is written down and parsed | `Grammar` [`ParsedAsWritten`] |
| `Arrays` | `ArrayStore` and, as `Methods`, `ArrayLibrary` | |
| `MC...` | constants of the runs; `MCArrays` lets a run take one part of `Arrays` | |

How state and actions correspond to code is said at the head of each module,
and definitions carry the names of the source where they can. Some
correspondences that are not obvious:

- `Copying`: a pointer is the position of its block in its space. Blocks lie
  one after the other, so positions and addresses have the same order. One
  iteration of each loop of `copy` is a step; so the properties hold between
  iterations too, which is what the proofs are by induction on. The program
  (`Mutator`) writes any pointer it holds to any word of any block it reaches.
- `Unwind`: what an expression does is left open; it completes or throws, and a
  condition holds or not. Every outcome is an event of `log`, and `AsSpecified`
  replays the log against `Statements`. The code under test is generated by
  `IrCode` from the statement, then run.
- `Expressions`, `Evaluation`: a value is the term that computes it, and an
  effect (a read of a member, a call, a write) an event of `log`; the value of
  an event is its position there. So two runs are equal exactly when the same
  effects happen on the same operands in the same order. Reading a variable of
  the function is no event, but its term says when it was read. Which way a
  value tests is any sequence of outcomes. Exceptions are the subject of
  `Unwind`: here nothing throws but `throw`.
- `CallStack`: which instructions run is left open. `junk` is a history
  variable: the operands a caught exception left on the stack, which nothing
  removes before the activation ends. `BoundResumes` is an action of its own since
  it is the one step that `Calling` exempts.
- `ForIn`: `kept` and `hidden` are history variables, for the properties. The
  iterator promises all of `kept` only while the body leaves the object alone:
  a table that grows is in another order, and one that loses the property the
  loop is at may have the next of its chain there.
- `SparseArray`: a write that inserts a chunk chooses whether the allocation in
  it collects (`Collects`): all that matters is whether addresses change.
- `ArrayStore`: `array_store.rs` keeps indexes and names in different stores, so
  the contents of both are one map, of which `ReadsWhatWasWritten` says that an
  operation changes one name and no other. `using` tells what a run writes, so
  that long histories of one store and short ones of both are met.
- `Properties`: a property is the descriptor its `Entry` reads back as, so the
  stores are left out. A call ends with an answer and an object; whether a
  refusal is an exception or `false` is the caller's wish and changes nothing
  else. `Convert` and `Converted` are one call of `define_own_array_property`
  around the program's `valueOf`; all other actions may come between them.
  `outdated` is a history variable.
- `ArrayLibrary`: `kept`, `absent` and `visits` of a loop are its history, for
  the properties. Elements are plain data properties; `Properties` has the rest.
  Each `for` of a method is a function of the number of its turns, `after[n]` being
  the object after n of them, so that the order of the writes is that of the code
  and the proofs can speak of every turn.
- `Locals`: the program is not given but revealed: each step of the walk chooses
  what comes next in the source, so a run meets every program within its
  bounds, and every program prefix is a state. The parser's part, which comes
  first in the code, is what a function declares, chosen when it is entered:
  in particular whether it, or something in it, has an eval or a `with`.
  `Reaches` is what the code for a finished program finds, from the slots, the
  instruction, and the scopes that calls build; `Expected` goes by nesting
  alone. Both give the objects that may hide the variable by name, too.
  `known` is a history variable.
- `Lexer`, `Parser`: the parser and its lexer are one record, which each method
  takes and returns. A whole word is one character of the text, since only the
  boundary between words and punctuators matters; numbers are read digit by
  digit. `Grammar` does not describe what parses but writes trees down, with
  the parentheses, semicolons and new lines the standard asks for, so that
  `ParsedAsWritten` compares trees, not acceptance.
- `Evaluation!Compiled` and `Syntax!Outcome` are constants that the runs give
  the one value their comments say (`CompiledOf`, `OutcomeOf`). They are
  constants so that TLC works each out once.

## Runs

Every run ends within three minutes on two workers. "Violation" runs state what
a comment or the standard says and the code does not do.

| Run | Bounds | Shows |
|---|---|---|
| `copying` | two root cells, two types, three ids | every interleaving of program and collector steps: `TypeOK`, `NoDangling`, `NoOverrun`, `FinalizedGone`, `CopiedOnce`, refinement of `ObjectGraph`, termination |
| `handles` | three roots, four locals, two scopes of capacity one, two collections | slots and vectors fill up, empty out, and are reused between collections; a collection frees what no cell denotes and nothing else |
| `unwind` | nests of three around a leave, from two families of statements | all shapes of exception blocks; all shapes of loops, switches, ifs, labels, with and without a test, a default, an else |
| `unwind_long` | nests of two, `LongLeaves` on | violation |
| `calls` | four functions, 10 cells | recursion until overflow, errors caught at every level, native and bound callees |
| `for_in` | five names, two objects, tables from 3 entries | every body: nothing twice, nothing that is not there, all that is there if the body leaves the object alone; every call of `next` returns |
| `arrays` | stores: five indexes, six names that collide, chunks of two, five writes of elements, both stores together with two properties; methods: lengths to 3, one inherited element, one change per loop | dense arrays, growth, transfer to chunks, search and insertion; tables from 3 to 17 entries with relocation; every call of eleven methods with arguments on and beyond both ends; every loop with a callback that changes the object |
| `properties` | two elements, lengths to two, one conversion under way | every order of definitions, puts, deletions and length changes |
| `locals` | programs of at most four functions, `catch` blocks and `with`s (the program counted), two names, two uses besides caught names | every such program, resolved in source order |
| `locals_chain` | functions with at most a parameter | violation |
| `expressions` | every form in every place of every other, on names of all five kinds | as statement whose value is left or dropped, declaration, condition and operand of `throw`, each way each test goes |
| `syntax` | every form of expression in every place of every other, every statement in every place of and in front of every other, four layouts; numbers of at most five characters out of nine | programs, code given to eval, privileged code with casts; every number and every text that nearly is one |

Why the bounds are enough: the collector's loops treat each block by its
forwarding word alone, so the cases are: not reached, reached once, reached
again, reached by itself; three or four blocks have them all. The tables of
three and seven entries are the first two sizes of the real ones and their
chains already have a head, a middle and a tail, foreign entries in their way,
and a growth. Five writes bring an array past `MAX_ARRAY_SIZE` on either path,
full and barely filled, and put a chunk before, between and after others. Three
elements let a method move one over a hole, over an inherited one and over the
end. The code for an expression depends on its own form, the kind of its
operand's target and whether its value is used, and the parser decides on a
token or two: both are covered by one form inside another, and where a third
can matter (member on call on `new`, `if` in `if`) the third is among the
forms. The states of the number automaton are all reached within four
characters, and the fifth tries to leave each of them. Three functions
are enough for a chain with a middle, whose ends use it in either order. The
nests of three statements have a leave that starts in one
part of an exception block, crosses another, and ends in a third. Calls go as
deep as the stack allows: the stack has about 10 cells where the code has 512,
so overflow is reached on every path. Constants that were made small are named
in the modules as bounds.

Deadlock checking is off where a model may stop: a bounded number of ids,
names or writes has been used up, a loop or a statement has ended, or the
process panicked. `handles` has it on.

## Fairness

- `Copying!FairSpec`: weak fairness of the collector. It is called by the
  allocation and runs to its end before anything else does.
- `Unwind!Spec`: weak fairness of a step: the interpreter's loop does not stop
  by itself. Loop conditions hold `MaxGo` times at most, since programs may loop.
- `ForIn!Spec`: weak fairness of the steps of `next`, which runs on once it is
  called. Nothing is assumed of the body, which may never end. The statement
  itself need not end either: `get_key` is asked at an offset that grows, so a
  body can add a property in every turn. `NextReturns` is about each call.

Nothing is assumed fair about the program's own choices.

## What was found

Shown by the violation runs (`PROJECT.json` quotes the lines):

- `unwind_long`: a `return` through two exception blocks skips the outer
  `finally`.
- `locals_chain`: in `function f(a) { return function(b) { return function()
  { return b + a } } }` the function in the middle takes no scope, so the
  innermost one looks for `a` in the wrong place.

The same modules show more, with a constant or a property changed:

| What | How to see it |
|---|---|
| a call of a bound function leaves its frame on the stack (`runtime.rs:175`, against the comment at `runtime.rs:102`) | without `BoundResumes` in `Calling` |
| a `try` inside `finally` loses the pending exception (12.14) | `BusyFinally = TRUE` in `MCUnwind.cfg` |
| an unlabelled `break` in a labelled block leaves the block only | `BlockBreak = TRUE` in `MCUnwind.cfg` |
| a `valueOf` that adds elements while the length is set leaves elements beyond the length (15.4; the steps of 15.4.5.1 have the same gap), and freezing such an array can fail half-way | `LengthAlwaysCovers` as an invariant in `MCProperties.cfg` |
| a `for-in` that deletes the current property can skip the next one of its hash | `kept' = kept \ {n}` in `DeleteProperty` of `ForIn`, which `VisitsAll` then refutes |
| `used` counts writes and not entries, so a barely filled array goes on doubling | `GrowsFilled` as a property in `MCArrays.cfg` |
| an index far beyond a large filled array panics | `NeverPanics` as an invariant in `MCArrays.cfg` |
| a raw pointer to a new chunk is held across an allocation in `insert_chunk` | `Collects = TRUE` and `NeverDangles` as the only property in `MCArrays.cfg` |
| a collection does not leave room for the block whose allocation failed (comment at `copying.rs:91`) | `RoomForFailedAllocation` in `MCCopying.cfg`, with `PayloadSize <- MCArraySize`, `PtrWords <- MCNoPtrWords`, `HeaderSize = 2`, `PageSize = 512`, `InitialHeap = 2097152` |
| a thick function keeps the place of a lifted local that only inner functions mention, and its prolog stores the parameter over the scope object | without `known` in `Denotes`, `MaxUses = 3`, `MaxParts = 5` |
| a parameter of a function that mentions `arguments` cannot be used by a function inside (a panic), nor by a strict one; its mapping is lost when the function becomes thick late | without `Mirrored` in `Ordinary` (`Locals`) |
| the own name of a function expression hides its parameters and locals, and is not found in thick functions | without `SelfNamed` in `Ordinary` |
| a `catch` variable of the program cannot be used by functions inside, and is stored as a global when the block has a `with` | without `TopCaught` in `Ordinary` |
| the expressions listed next | without `ordinary` in `AsSpecified` and `Balanced` of `Evaluation` |

Expressions that differ from chapter 11 (`Evaluation!Differs` has one line for
each kind):

- `(a.b)()` is called with `undefined` as its `this`, and `(eval)()` is no direct
  eval; a call of a name inside `with` does not get the object as its `this`.
- `f().b += 1` evaluates `f()` twice.
- `s++` and `var s = e` look a name up in the environment after the value was
  computed, when it may be another object that has it.
- `delete 1` leaves an operand too many; `delete p` really deletes a parameter
  that lives in the arguments object; `var p = e` for such a parameter stores
  with the operands in the wrong order (`ir/mod.rs:1762`).
- `typeof (f(), g)` and `delete (f(), x)` do not call `f`.
- An array literal with a hole whose value nobody uses, before a comma or as a
  statement of its own, panics; a cast there leaves its operand.
- Not visible in the model: `typeof` of a member of `undefined` is
  `"undefined"`, and whether a base may be converted to an object is checked at
  the access, after the arguments; nor is the exception that `delete x` throws
  in strict code, as nothing throws there.

Texts that are not read as written, and which `Grammar` therefore does not
write, or `MCSyntax` leaves out:

- Of several labels the last is kept, and none on statements other than loops
  and blocks.
- The right side of a `for-in` ends at a relational operator, `for (var x = e in
  o)` is an error, and so is a comma in the condition of `while`.
- A new line ends `if (a) b` before a `;` that follows it, so an `else` after
  that is an error; a block comment with a new line in it is no new line.
- `{a 1}` and `{,}` are object literals; `get 1() {}` is none. `a++[b]` is an
  expression.
- A directive is taken as such when an operator follows on the next line.
- `"\0"` is refused in strict code. A string may end with the text; a text that
  ends with `.` or `\` panics.
- In privileged code the look-ahead for a cast reads past a regular expression
  that begins with a quote.
- `var e` inside `catch (e)` declares nothing in the function.
- After a rewind the reader's line and column are those of the place it left.
- Numbers: `parseFloat("0I")` panics and `parseFloat("1I")` is NaN
  (`AfterDigit`); `09` is read as octal and panics later; a name may follow a
  number at once (`Adjoins`); integers from 2^63 on panic.

Array methods: `splice` with fewer than two arguments subtracts below zero
(`env/array.rs:516`); `map` gives `undefined` where the standard leaves holes;
`toLocaleString` of an empty array is `"0"`.

The passing runs leave these cases out by the constants named, whose comments
say so, by the predicates `Ordinary` of `Locals` and `Evaluation`, by the forms
that `Grammar` writes, by the action `BoundResumes` in `calls`, and by history
variables, `outdated` in `properties` and `known` in `locals`; they cover
everything else.

## Proofs

`CopyingProofs` proves, for every set of root cells and types, every layout and
every sizing of the heap:

- `InvariantHolds`: `Spec => []IInv`
- `TypeCorrect`: `Spec => []TypeOK`
- `NothingDangles`: `Spec => []NoDangling`

`NoDangling` is not inductive by itself. `IInv` is
`TypeOK /\ PhaseInv /\ ForwardInv /\ NoDangling`:

- `PhaseInv` ties the cursors to the phase: outside a collection nothing is
  forwarded and nothing is in to-space; in the scan no root is left to do; at
  the end of the scan every block of to-space was scanned. Without it the swap
  could expose a pointer into the old space.
- `ForwardInv` says that a forwarding address is null or names a block of
  to-space that has been written. `forward` returns what it finds there, so
  without it a second reference to a block could be set to anything.

The proof goes action by action; each has its own lemma. What the actions do to
sequences and records is stated once, as lemmas about `Append`, `EXCEPT` and
elements of sequences, so that the leaves stay small. The assumptions are
`ShapeAssumption` and `OptsAssumption` of `Copying`, which the runs evaluate.

Its second part builds on that invariant:

- `CopiesOnce`: `Spec => []CopiedOnce`
- `FinalizedAreGone`: `Spec => []FinalizedGone`

`CopiedOnce` is what keeps sharing: each copy is that of one block, whose
forwarding address leads to it. It needs no ids; `FinalizedGone` does, since
the swap drops the old blocks: `IdInv` says that no two blocks have one id, and
`DoneInv` that the finalised blocks still there are those the last loop has
passed and that were not copied. At the swap each new block is the copy of an
old one that was forwarded, so none of them was finalised.

Its last part proves the refinement, for every heap, graph and layout:

- `ImplementsGraph`: `Spec => GraphPreserved`, that is, of `ObjectGraph`

While a collection runs, a copy has the words of its block, those that were
scanned as forwarding addresses (`WordsInv`); only reachable objects are copied
(`LiveInv`); and the last loop leaves behind it only blocks that were copied or
finalised (`VisitInv`). `Reachable` is the least set that holds what the cells
denote and is closed under edges. So when the scan is over the copied objects
are exactly the reachable ones, without an induction over paths: the set of them
is closed, hence no smaller, and each of them is reachable, hence no larger.
`Finalize` then maps to `ObjectGraph`'s `Finalize` or to a stutter, `Swap` to
`Reclaim`, the steps of the program to theirs, and the rest stutters.

It also proves what `copying.rs` takes for granted when it moves blocks to a
space sized before the walk:

- `NeverOverruns`: `Spec => []NoOverrun`

It compares sums over two sequences, the copies and the blocks not yet
forwarded. The prover has no induction to unfold a recursive sum with, so the
invariant says that functions of partial sums exist (`PartialSums`), each step of
which is the size of one block; a step of the collector extends or lowers them.
The copies and what is left add up to the old offset, and the space that is
copied to is no smaller than the one the old offset fits in.

`HandlesProofs` proves, for any number of roots, locals, scopes, objects and
collections, and any capacity of a scope:

- `SlotsFree`: `Spec => []FreeSlots`
- `HandlesDenote`: `Spec => []Denotes`
- `CollectsTheRest`: `Spec => FreesTheRest`

The invariant says of slots that the free ones are null and once on the list and
that each other one has its `Root` (`SlotInv`); of vecs that their numbers are
the order of their creation, so that a scope that grows changes no cell that a
`Local` points at (`ScopeInv`); of a handle that its cell holds its object's
address, the old one or the new one depending on whether the walker is past it
(`RootInv`, `LocalInv`); of a cell that it has a `Local` (`CellInv`); and where
the walkers can be (`WalkInv`). `RootWalker` and `ScopesWalker` are past a cell
in the order in which they turn from slots to scopes and from the current vec to
the full ones, which `MovedCell` spells out. `EndGc` comes when every slot
and every cell has been passed, so all handles hold the new addresses and
what was seen is what handles denote. The assumption is `HandlesAssumption`.

`PropertiesProofs` proves, for every object, name and descriptor, whatever the
values and accessors are:

- `DefineObjectAsSpecified`: `define_own_object_property`, whose refusals are
  nested by kind and attribute, equals 8.12.9 stated as what a property may
  become (`MayBecome`) and what a descriptor asks for (`Asked`)
- `DefineObjectIsPermanent`: the part of `Permanent` that one definition decides

and, for arrays of any size and every order of operations:

- `TypeCorrect`, `AlwaysLengthCovers`: `Spec => []TypeOK`, `[]LengthCovers`
- `DefinesAsSpecifiedAlways`, `ArrayAsSpecifiedAlways`, `AlwaysPutTells`,
  `AlwaysFixes`: `Spec => []P` for the property of that name
- `AlwaysPermanent`: `Spec => Permanent`

For one definition it goes by the kind of the property and of the descriptor:
`RedefinedIsAsked` for the fields that are written, `RefusesWhatMayNotBe` for the
refusals. For behaviours the invariant is
`IInv == TypeOK /\ PendingOK /\ LengthCovers`: `PendingOK` says that a length
whose conversion is under way is asked for by a whole descriptor, without which
`Converted` could set any length. The two loops, which delete from the end and
which freeze property after property, are recursive functions of the model; they
are shown to exist (`ShrinkLoop`, `FixLoop`) and to do what they are for
(`ShrinkEffect`, `FixAllEffect`) by induction over the set of numbers the loop
has done (`UpInduction`, `DownInduction`), which needs no operator as a
parameter. The assumptions are that `None` is no value, no flag and no
descriptor (`NoneAssumption`), that lengths are values, `length` is no index, and other names
are finitely many (`NamesAssumption`), and that descriptors are those `to_property_descriptor` lets
through (`OffersAssumption`).

`LocalsProofs` proves, for every program of any size:

- `ThickChainKept`: `Spec => []ThickChain`

The invariant adds that functions point to functions around them (`Formed`),
that those the parser deoptimised are thick (`Deopts`) and that the scopes on
the walker's stack are nested as the functions are (`Nested`). Every change the
resolver makes is one of two kinds: it keeps each function where it is and each
thick one thick and linked (`Keeping`), and the functions it makes thick are
linked (`NewLinked`). `KeepingGood` says that this is enough; then each of
`Lift`, `MarkThin`, `MarkThick`, `Transform` and the reset of the program has
its lemma. For `Transform`, `RewrittenInside` shows that whatever the
transformer reaches was reached through the function around it. The assumption
is that `deopt` is a Boolean.

Its second part adds, on top of that invariant:

- `ItemsNotShared`: `Spec => []NoAlias`

Its invariant (`Placed`) says that items are numbers, distinct within a function,
below the function's count while it is on the walker's stack and below the size
of its scope once it was left, and that no function is on the stack twice. The
last is what makes it safe that the count is kept in the walker and the item in
the function. `StopOnStack` shows that the walk of `resolve_ident` ends on the
stack, at a largest pair of function and block, so that the count raised is that
of the function whose slot is lifted. The assumption is that `MaxParts` is
positive: a program has at least itself as a part.

Its third part proves that a program is only deoptimised for a reason:

- `AlwaysOptimised`: `Spec => []Optimised`

`OInv` adds where functions and uses stand (`Sites`): the blocks around a function
are those its walker has open. A scope is made thick, and a use left to its
name, only on the way out from an eval or through a `with`, so if no function
and no use has one around it no function is thick and every use is bound.

`CallStackProofs` proves, for all functions, all values that are passed, and
every size of the stack:

- `CallersAreKept`: `Spec => CallersKept`
- `CallsAsPromised`: `Spec => Calling`, that is, the refinement of `Calls`

The invariant is `Stands` and `Topped`: the activations stand one above the other
in the stack, the callee of each in its frame, the arguments it may read below
its operands, and a construction has its callee's activation right above it; a
result is above the operands of the activation that waits for it. `Picture` shows
the stack as the activations of `Calls`, each with the cells from its frame to
the next one. Each action has a lemma that says which action of `Calls` it is
seen as, or that the stack overflows (`Abort`). They rest on what a cut, an
append and a write leave of the parts of a sequence (`PartPart`, `PartGrown`) and
on `Agree`, that two stacks are the same below a cell: an activation is seen the
same in both when it ends there. The assumptions are `CellsAssumption` (at least
the scope is pushed) and `SameAssumption`, what `Calls` says of functions.
`BoundResumes` is the one step that `Calls` does not have; every step after it
is one of `Calls` again.

`HashTableProofs` has the lemmas about the coalesced hash table, for tables of
every size and any names. `Sound` is what the operations keep: there are depths,
one for each entry, such that the head of a chain, at depth 0, is in its ideal
position, no two entries of a chain have one depth, `next` leads one deeper in
the same chain, each entry that is not a head has one before it, no name is
there twice, and the count is that of the entries (`Linked`). A chain is then as
long as its deepest entry is deep, less than the count (`DepthBound`), which is
why the walk of `find_entry` ends and finds exactly the entries of a hash
(`ChainIs`, `FoundIs`). `Tells` is what a table says of a name:

- `AddFacts`: after `add` of a name that is not there, the table tells what it
  told, and the new value: through the relocation of an entry of another chain
  (`NameMoved`), the search for a free entry (`FreeFacts`) and growth, which adds
  all entries to a larger table (`TableGrown`);
- `RemoveFacts`: after `remove` it tells nothing of that name, and what it told of
  others, also when the successor of a head is moved (`HeadReplaced`);
- `ReplaceFacts`: only the value of that name is another.

Recursive functions (the walk, the growth) are shown to exist before their
values are used (`SteppingExists`, `CarryingExists`); the inductions are over the
set of steps done (`UpInduction`). The assumption is that names are numbers.

`ForInProofs` proves, for all objects and whatever the body does to them:

- `VisitsOnce`: `Spec => []VisitedOnce`
- `VisitsThere`: `Spec => VisitsWhatIsThere`
- `MissesNone`: `Spec => []VisitsAll`

The invariant of the first is that what was visited was seen, that of the second
that all tables are `Sound` and what was found hidden was seen (`Tables`): then
the entry that `get_key` finds at an offset is the one that `find_entry` finds
under its name. For the third, what the object had at the start was visited or
is ahead of the offset and not yet seen (`AllInv`). The assumption is that the
objects start with each property once (`StartAssumption`).

`ArrayProofs` proves, for all indexes and names, every size of chunks,
growth and table, and every order of writes in which none goes through a pointer
that a collection has made stale (`[]NeverDangles`, see "What was found"; where
`insert_chunk` does not collect, `NothingDangles` shows that none does):

- `RepresentedAlways`: `StoreSpec /\ []NeverDangles => []Represented`
- `EachKeyOnceAlways`: the same of `EachKeyOnce`
- `NeverBackAlways`: `StoreSpec /\ []NeverDangles => NeverBack`
- `ReadsAlways`: `StoreSpec /\ []NeverDangles => ReadsWhatWasWritten`, the refinement
  of `PropertyMap` by the two stores together

The invariant says that the elements are one array of entries, or chunks in
ascending order that begin at multiples of their size (`Shaped`), that the table
is `Sound`, and that neither holds a name that is not in use. `FindChunkFacts` is
the search: the halves keep the place between their ends (`Bracket`,
`HalfBrackets`), so that it ends at the chunk or where it belongs; the recursive
function `narrow` is shown to exist first, by induction over the width of the
range (`NarrowsExists`). After that a representation is seen as a sequence of
positions with a name and an entry each (`Views`). Growth, the transfer and the
insertion of a chunk keep all entries and move none down (`Extends`), a write in
place changes one (`Changes`); `ValueSet` puts them together, and the four
theorems only look at positions. `EachKeyOnceAlways` and `NeverBackAlways` follow
since names ascend with positions. The assumptions are `SizesAssumption` (sizes
are positive, and `Missing`, the empty entry, is no flag) and `NamesAssumption`.

Its second part is about the array methods that call back, for all objects, what
they inherit, and whatever the callback does to the object:

- `LoopVisitsAlways`: `Methods!Spec => []LoopVisits`
- `LoopResultAlways`: `Methods!Spec => []LoopResult`

The invariant of the first says of a loop under way (`Fine`) that it is past all
it has visited, that what was always there is visited or still to come, and that
what was never there is neither in the object nor visited; of one that has ended
(`Over`) what remains of that. `GoOnFine` is the step to the next turn or the
end, `ChangedFine` what the callback writes; the returns only differ in what the
loop gathers (`Alike`). The assumption is that lengths are numbers and `None` is
no index (`LoopConstants`). That of the second (`ResultInv`) says what the loop
has gathered from the calls that have returned: `Waiting` while a call is under
way, whose value is still open, `Resulted` after the last. It rests on the first:
that `map` and `filter` overwrite nothing they have gathered follows from places
that only ascend. `reduce` also needs that each call was given what the one
before it returned (`Chained`), and that the element it began with is not visited
again (`FirstPast`).

Its last part is about the eleven methods that work in one go, `concat`,
`pop`, `push`, `reverse`, `shift`, `slice`, `sort`, `splice`, `unshift` and the two
searches, for objects of any length, with any holes, inheriting anything:

- `CallsAsSpecifiedAlways`: `Methods!Spec => CallsAsSpecified`

Each loop of a method is a function of the number of its turns (`Looping`), shown
to exist by induction over that number; after n turns the object is the one it
began with but for a range (`Spread`). That `MoveDown` goes up and `MoveUp` goes
down matters here: what is read is not yet written. `Spread` leaves open how long
the object is, since the length of an array follows its elements; where a method
sets the length after its loop, nothing of its own is beyond it. One lemma for
each method (`PopMeets` to `SortMeets`) then compares places with the standard,
and a last one dispatches on the call. The invariant is that an object has a
length within `MaxLength` and, if it is an array, no element beyond it
(`ObjectInv`). The assumption is that values are numbers, apart from `undefined`
and `None`, and so is what is inherited (`LibraryConstants`).

Only model-checked:

- all liveness (`AllocationEnds`, `Ends`, `NextReturns`), which is beyond the prover;
- the properties of the modules with recursive operators (`Statements`, `IrCode`,
  `Unwind`, `Expressions`, `ExprCode`, `Evaluation`, `Parser`, `Grammar`,
  `Syntax`);
- `Denotes` of `Locals`. It is not true of every set of declarations, so a theorem
  would have to say first which ones it is about: a thick function loads
  `arguments` directly, also inside a `with` or `catch` that has one of its own,
  and a parameter of a function with both `arguments` and an eval, used inside a
  `with`, is looked up by name although it lives in the arguments object. The
  run takes declarations and names without these.

## Plan

Left, in this order; done modules are above.

1. `RawPointers`: clients of the collector that hold raw pointers across
   allocations (`JsIterator::new_local`, JSON's ancestor stack); finalizers of
   half-built objects (RegExp); layouts against the walker.
2. `Json`, `Uri`, `Replace`, `BigInt`, `Calendar`: algorithms as functions,
   against reference definitions on bounded inputs.
3. In `Locals`: the functions declared in `catch` and `with` blocks, which are
   created on entry but resolved inside, and the early errors of strict code.
4. `Evaluation` with exceptions, so that `Unwind` and it are one machine.
5. Theorems: `Denotes` of `Locals`, for the declarations it is checked on.

## Not modelled, and why

- `gc/os.rs`: `mmap` of whole spaces; an operating system service.
- The `regex` crate, the file system, the clock: external.
- `debug.rs`, `trace.rs`, `contrib/test262.rs`: no state of the engine.
- Layout of Rust structs: chosen by rustc. `validate_walker` checks part of it
  at start up.
- Shortest digits of floating point numbers (`rt/fmt/mod.rs`) and the big
  integers under them: needs 53 bit arithmetic, out of TLC's reach.
- Direct eval, and the calls an instruction makes by itself (conversions,
  accessors), on the stack of `CallStack`: `eval_scoped` runs a block of its own
  between the operands of the call and its result.
- Letters outside the words used, and the strings of messages and positions.

------------------------------- MODULE Handles -------------------------------
(***************************************************************************)
(* The handles that keep heap objects alive and follow them when they move *)
(* (gc/mod.rs): Root values and the table RootHandles, Local values and    *)
(* the cells of the local scopes, and the two root walkers a collection    *)
(* goes through.  The collector itself is module Copying: here, it moves   *)
(* the object of every cell it is shown and frees the others.              *)
(***************************************************************************)
EXTENDS Integers, Sequences, FiniteSets

CONSTANTS
  Objects,        \* heap objects
  Null,           \* ptr::null()
  Capacity,       \* INITIAL_LOCAL_SCOPE_CAPACITY (8 in the code)
  MaxRoots, MaxLocals, MaxScopes, MaxMoves  \* bounds of the model

ASSUME HandlesAssumption ==
  /\ Null \notin Objects \X Nat
  /\ Capacity \in Nat \ {0}
  /\ {MaxRoots, MaxLocals, MaxScopes, MaxMoves} \subseteq Nat

VARIABLES
  heap,           \* the objects allocated and not freed
  moves,          \* collections so far; every object is at address <<o, moves>>
  ptrs, free,     \* RootHandlesData
  scopes,         \* GcHeap::scopes: [current, handles]; a vec is [id, cap, cells]
  roots,          \* the Root values the program holds: [handle, obj]
  locals,         \* the Local values it may use: [scope, vec, index, obj]
  walk            \* the walkers: Idle, or the position of each

rootVars  == <<ptrs, free, roots>>
localVars == <<scopes, locals>>
vars == <<heap, moves, rootVars, localVars, walk>>

Idle == [phase |-> "idle"]
Addr(o) == <<o, moves>>

-----------------------------------------------------------------------------
(* RootHandles *)

\* mutant: the slot stays on the free list
AddRootKeepsFree(o) ==
  LET cell == Addr(o) IN
  IF free # <<>>
  THEN LET index == free[Len(free)] IN
       /\ ptrs' = [ptrs EXCEPT ![index] = cell]
       /\ roots' = Append(roots, [handle |-> index, obj |-> o])
       /\ UNCHANGED free
  ELSE /\ ptrs' = Append(ptrs, cell)
       /\ roots' = Append(roots, [handle |-> Len(ptrs) + 1, obj |-> o])
       /\ UNCHANGED free

\* add: reuse a free slot, the last one freed first, or append one.
AddRoot(o) ==
  LET cell == Addr(o) IN
  IF free # <<>>
  THEN LET index == free[Len(free)] IN
       /\ free' = SubSeq(free, 1, Len(free) - 1)
       /\ ptrs' = [ptrs EXCEPT ![index] = cell]
       /\ roots' = Append(roots, [handle |-> index, obj |-> o])
  ELSE /\ ptrs' = Append(ptrs, cell)
       /\ roots' = Append(roots, [handle |-> Len(ptrs) + 1, obj |-> o])
       /\ UNCHANGED free

CloneRoot ==                                 \* Root::clone
  /\ walk = Idle /\ Len(roots) < MaxRoots
  /\ \E i \in DOMAIN roots : AddRoot(ptrs[roots[i].handle][1])
  /\ UNCHANGED <<heap, moves, localVars, walk>>

DropRoot ==                                  \* Root::drop, in any order
  /\ walk = Idle
  /\ \E i \in DOMAIN roots :
       /\ roots' = SubSeq(roots, 1, i - 1) \o SubSeq(roots, i + 1, Len(roots))
       /\ ptrs' = [ptrs EXCEPT ![roots[i].handle] = Null]
       /\ free' = Append(free, roots[i].handle)
  /\ UNCHANGED <<heap, moves, localVars, walk>>

-----------------------------------------------------------------------------
(* LocalScopeData *)
Vec(id, cap) == [id |-> id, cap |-> cap, cells |-> <<>>]
NewScopeData == [current |-> Vec(1, Capacity), handles |-> <<>>]

\* mutant: the cells are copied to the larger vec, as Vec::push does
GrownInPlace(s) ==
  LET cur == s.current IN
  IF Len(cur.cells) = cur.cap
  THEN [current |-> [id |-> cur.id + 1, cap |-> 2 * cur.cap, cells |-> cur.cells],
        handles |-> s.handles]
  ELSE s

\* add, with grow: a full vec is kept and a new one of twice its size started,
\* since the cells of the old one must not move.
Grown(s) ==
  LET cur == s.current IN
  IF Len(cur.cells) = cur.cap
  THEN [current |-> Vec(cur.id + 1, 2 * cur.cap), handles |-> Append(s.handles, cur)]
  ELSE s

AddLocal(o) ==
  LET top == Len(scopes)
      s   == Grown(scopes[top])
  IN /\ scopes' = [scopes EXCEPT ![top] = [s EXCEPT !.current.cells = Append(@, Addr(o))]]
     /\ locals' = locals \union
          {[scope |-> top, vec |-> s.current.id, index |-> Len(s.current.cells) + 1, obj |-> o]}

NewLocalScope ==
  /\ walk = Idle /\ Len(scopes) < MaxScopes
  /\ scopes' = Append(scopes, NewScopeData)
  /\ UNCHANGED <<heap, moves, rootVars, locals, walk>>

\* mutant: the scope stays on the list
DropKeepsScope ==
  /\ walk = Idle /\ scopes # <<>>
  /\ locals' = {l \in locals : l.scope < Len(scopes)}
  /\ UNCHANGED <<heap, moves, rootVars, scopes, walk>>

\* drop_current_scope: the Local values of a scope are not used after it.
DropCurrentScope ==
  /\ walk = Idle /\ scopes # <<>>
  /\ scopes' = SubSeq(scopes, 1, Len(scopes) - 1)
  /\ locals' = {l \in locals : l.scope < Len(scopes)}
  /\ UNCHANGED <<heap, moves, rootVars, walk>>

-----------------------------------------------------------------------------
(* Allocation, and a handle from another handle. *)
CellOf(l) ==
  LET s    == scopes[l.scope]
      vecs == {s.current} \union {s.handles[k] : k \in DOMAIN s.handles}
      here == {v \in vecs : v.id = l.vec}
  IN IF here = {} THEN Null ELSE (CHOOSE v \in here : TRUE).cells[l.index]

CanRoot  == walk = Idle /\ Len(roots) < MaxRoots
CanLocal == walk = Idle /\ scopes # <<>> /\ Cardinality(locals) < MaxLocals

AllocRoot ==
  /\ CanRoot
  /\ \E o \in Objects \ heap : heap' = heap \union {o} /\ AddRoot(o)
  /\ UNCHANGED <<moves, localVars, walk>>
AllocLocal ==
  /\ CanLocal
  /\ \E o \in Objects \ heap : heap' = heap \union {o} /\ AddLocal(o)
  /\ UNCHANGED <<moves, rootVars, walk>>
LocalFromRoot ==
  /\ CanLocal
  /\ \E i \in DOMAIN roots : AddLocal(ptrs[roots[i].handle][1])
  /\ UNCHANGED <<heap, moves, rootVars, walk>>
RootFromLocal ==
  /\ CanRoot
  /\ \E l \in locals : AddRoot(CellOf(l)[1])
  /\ UNCHANGED <<heap, moves, localVars, walk>>

-----------------------------------------------------------------------------
(* GcHeap::gc and the walkers.  walk.seen are the objects copied so far.   *)
Gc ==
  /\ walk = Idle /\ moves < MaxMoves
  /\ walk' = [phase |-> IF Len(ptrs) # Len(free) THEN "roots" ELSE "scopes",
              ptr |-> 1, scope |-> 1, vec |-> 0, index |-> 1, seen |-> {}]
  /\ UNCHANGED <<heap, moves, rootVars, localVars>>

\* A cell shown to the collector gets the new address of its object; the new
\* address is no address of the space that is collected.
Forward(cell) == <<cell[1], cell[2] + 1>>

WalkRoots ==
  /\ walk.phase = "roots" /\ walk.ptr <= Len(ptrs)
  /\ LET cell == ptrs[walk.ptr] IN
     IF cell = Null
     THEN walk' = [walk EXCEPT !.ptr = @ + 1] /\ UNCHANGED ptrs
     ELSE /\ walk' = [walk EXCEPT !.ptr = @ + 1, !.seen = @ \union {cell[1]}]
          /\ ptrs' = [ptrs EXCEPT ![walk.ptr] = Forward(cell)]
  /\ UNCHANGED <<heap, moves, free, roots, localVars>>

EndRoots ==
  /\ walk.phase = "roots" /\ walk.ptr > Len(ptrs)
  /\ walk' = [walk EXCEPT !.phase = "scopes"]
  /\ UNCHANGED <<heap, moves, rootVars, localVars>>

\* LocalScopesWalker::next: current is vec 0 of a scope, handles[k] is vec k.
AtVec == IF walk.vec = 0 THEN scopes[walk.scope].current
         ELSE scopes[walk.scope].handles[walk.vec]
InScopes == walk.phase = "scopes" /\ walk.scope <= Len(scopes)

NextScope ==
  /\ InScopes /\ walk.vec > Len(scopes[walk.scope].handles)
  /\ walk' = [walk EXCEPT !.vec = 0, !.scope = @ + 1]
  /\ UNCHANGED <<heap, moves, rootVars, localVars>>

InVec == InScopes /\ walk.vec <= Len(scopes[walk.scope].handles)

NextVec ==
  /\ InVec /\ walk.index > Len(AtVec.cells)
  /\ walk' = [walk EXCEPT !.index = 1, !.vec = @ + 1]
  /\ UNCHANGED <<heap, moves, rootVars, localVars>>

WalkLocals ==
  /\ InVec /\ walk.index <= Len(AtVec.cells)
  /\ LET cell == AtVec.cells[walk.index]
         moved == [AtVec EXCEPT !.cells[walk.index] = Forward(cell)]
     IN /\ walk' = [walk EXCEPT !.index = @ + 1, !.seen = @ \union {cell[1]}]
        /\ scopes' = IF walk.vec = 0
                     THEN [scopes EXCEPT ![walk.scope].current = moved]
                     ELSE [scopes EXCEPT ![walk.scope].handles[walk.vec] = moved]
  /\ UNCHANGED <<heap, moves, rootVars, locals>>

\* The collector is done: what it was not shown is gone.
EndGc ==
  /\ walk.phase = "scopes" /\ walk.scope > Len(scopes)
  /\ heap' = walk.seen /\ moves' = moves + 1 /\ walk' = Idle
  /\ UNCHANGED <<rootVars, localVars>>

-----------------------------------------------------------------------------
Init ==
  /\ heap = {} /\ moves = 0
  /\ ptrs = <<>> /\ free = <<>> /\ roots = <<>>
  /\ scopes = <<>> /\ locals = {}
  /\ walk = Idle

Walking == \/ WalkRoots \/ EndRoots \/ NextScope \/ NextVec \/ WalkLocals \/ EndGc

Next ==
  \/ CloneRoot \/ DropRoot \/ NewLocalScope \/ DropCurrentScope
  \/ AllocRoot \/ AllocLocal \/ LocalFromRoot \/ RootFromLocal
  \/ Gc \/ Walking

Spec == Init /\ [][Next]_vars

-----------------------------------------------------------------------------
\* Between collections every Root and every Local of a live scope denotes the
\* object it was made for, at its present address, and that object is still on
\* the heap: through reuse of freed slots, growth of a scope, and collections.
Denotes ==
  walk = Idle =>
    /\ \A i \in DOMAIN roots : roots[i].obj \in heap /\ ptrs[roots[i].handle] = Addr(roots[i].obj)
    /\ \A l \in locals : l.obj \in heap /\ CellOf(l) = Addr(l.obj)

\* The free list names the null slots, each once, and every other slot belongs
\* to one Root: gc may compare the lengths to see whether there are any roots.
FreeSlots ==
  /\ \A i, j \in DOMAIN free : free[i] = free[j] => i = j
  /\ {free[i] : i \in DOMAIN free} = {h \in DOMAIN ptrs : ptrs[h] = Null}
  /\ \A i, j \in DOMAIN roots : roots[i].handle = roots[j].handle => i = j
  /\ Len(roots) + Len(free) = Len(ptrs)

\* A collection keeps exactly the objects that a Root or a Local of a live
\* scope was made for: the walkers reach no cell of a scope that was dropped.
Held == {roots[i].obj : i \in DOMAIN roots} \union {l.obj : l \in locals}
FreesTheRest == [][walk # Idle /\ walk' = Idle => heap' = Held]_vars
=============================================================================

---------------------------- MODULE HandlesProofs ----------------------------
(***************************************************************************)
(* Every handle denotes its object, for any number of handles, scopes,     *)
(* objects and collections.                                                *)
(***************************************************************************)
EXTENDS Handles, SequenceTheorems, TLAPS

Cells == Objects \X Nat
Vecs == [id : Nat, cap : Nat, cells : Seq(Cells)]
ScopeData == [current : Vecs, handles : Seq(Vecs)]
RootValues == [handle : Nat, obj : Objects]
LocalValues == [scope : Nat, vec : Nat, index : Nat, obj : Objects]
Walks == [phase : {"roots", "scopes"}, ptr : Nat, scope : Nat, vec : Nat,
          index : Nat, seen : SUBSET Objects]

TypeInv ==
  /\ heap \subseteq Objects /\ moves \in Nat
  /\ ptrs \in Seq(Cells \cup {Null}) /\ free \in Seq(Nat) /\ roots \in Seq(RootValues)
  /\ scopes \in Seq(ScopeData) /\ locals \subseteq LocalValues
  /\ walk = Idle \/ walk \in Walks

(* Free slots are null, each once on the list; all other slots have a Root *)
(* of their own, and nothing else.                                         *)
SlotInv ==
  /\ FreeSlots
  /\ \A i \in DOMAIN roots : roots[i].handle \in DOMAIN ptrs /\ ptrs[roots[i].handle] # Null
  /\ \A h \in DOMAIN ptrs : ptrs[h] # Null => \E i \in DOMAIN roots : roots[i].handle = h

(* What a cell for obj holds, before and after a collection has moved it.  *)
Holds(cell, obj, moved) == cell = <<obj, IF moved THEN moves + 1 ELSE moves>>

(* The walker is past slot h. *)
MovedSlot(h) == walk # Idle /\ (walk.phase = "roots" => h < walk.ptr)

RootInv ==
  \A i \in DOMAIN roots :
    LET h == roots[i].handle IN
    /\ roots[i].obj \in heap
    /\ Holds(ptrs[h], roots[i].obj, MovedSlot(h))
    /\ MovedSlot(h) => roots[i].obj \in walk.seen

(* The vecs of a scope are numbered in the order of their creation, with   *)
(* the current one last.                                                   *)
WellNumbered(d) ==
  /\ d.current.id = Len(d.handles) + 1
  /\ \A k \in DOMAIN d.handles : d.handles[k].id = k
ScopeInv == \A s \in DOMAIN scopes : WellNumbered(scopes[s])

(* Cell i of the vec with number n. *)
VecIn(d, n) == IF n = Len(d.handles) + 1 THEN d.current ELSE d.handles[n]
CellIn(d, n, i) == n \in 1 .. Len(d.handles) + 1 /\ i \in DOMAIN VecIn(d, n).cells
ContentOf(d, n, i) == VecIn(d, n).cells[i]
IsCell(s, n, i) == s \in DOMAIN scopes /\ CellIn(scopes[s], n, i)

(* The walker is past cell i of vec n of scope s: it takes the current vec *)
(* of a scope first.                                                       *)
Position(s, n) == IF n = Len(scopes[s].handles) + 1 THEN 0 ELSE n
MovedCell(s, n, i) ==
  /\ walk # Idle /\ walk.phase = "scopes"
  /\ \/ s < walk.scope
     \/ /\ s = walk.scope
        /\ \/ Position(s, n) < walk.vec
           \/ Position(s, n) = walk.vec /\ i < walk.index

LocalInv ==
  \A l \in locals :
    /\ IsCell(l.scope, l.vec, l.index)
    /\ l.obj \in heap
    /\ Holds(ContentOf(scopes[l.scope], l.vec, l.index), l.obj, MovedCell(l.scope, l.vec, l.index))
    /\ MovedCell(l.scope, l.vec, l.index) => l.obj \in walk.seen

(* There is no cell without a Local, so nothing else is kept alive. *)
CellInv ==
  \A s, n, i \in Nat : IsCell(s, n, i) =>
    \E l \in locals : l.scope = s /\ l.vec = n /\ l.index = i

WalkInv ==
  walk # Idle =>
    /\ walk.seen \subseteq Held
    /\ walk.ptr >= 1 /\ walk.scope >= 1 /\ walk.index >= 1
    /\ walk.phase = "roots" => walk.scope = 1 /\ walk.vec = 0 /\ walk.index = 1
    /\ walk.phase = "scopes" /\ walk.scope \in DOMAIN scopes
         /\ walk.vec > Len(scopes[walk.scope].handles) => walk.index = 1

IInv == TypeInv /\ SlotInv /\ RootInv /\ ScopeInv /\ LocalInv /\ CellInv /\ WalkInv

-----------------------------------------------------------------------------
(* A cell for an object is no null pointer. *)
LEMMA CellNotNull ==
  ASSUME NEW o \in Objects, NEW n \in Nat
  PROVE  <<o, n>> \in Cells /\ <<o, n>> # Null
BY HandlesAssumption DEF Cells

(* What is said of Roots and Locals stays true where only the heap grows. *)
LEMMA RootsStay ==
  ASSUME SlotInv, RootInv, heap \subseteq heap', UNCHANGED <<moves, rootVars, walk>>
  PROVE  SlotInv' /\ RootInv'
BY DEF SlotInv, FreeSlots, RootInv, Holds, MovedSlot, Idle, rootVars

(* The same for the cells and the Local values that denote them. *)
LEMMA LocalsStay ==
  ASSUME ScopeInv, LocalInv, CellInv, heap \subseteq heap', UNCHANGED <<moves, localVars, walk>>
  PROVE  ScopeInv' /\ LocalInv' /\ CellInv'
<1>. USE DEF localVars, IsCell
<1>1. ScopeInv'
  BY DEF ScopeInv
<1>2. LocalInv'
  BY DEF LocalInv, Holds, MovedCell, Position, Idle
<1>3. \A s, n, i : IsCell(s, n, i)' <=> IsCell(s, n, i)
  OBVIOUS
<1>4. CellInv'
  BY <1>3 DEF CellInv
<1>. QED BY <1>1, <1>2, <1>4

(* A Root for o was put into slot h, which no Root has. *)
RootAdded(h, o) ==
  /\ h \in DOMAIN ptrs => ptrs[h] = Null
  /\ ptrs' \in Seq(Cells \cup {Null}) /\ DOMAIN ptrs' = DOMAIN ptrs \cup {h}
  /\ ptrs'[h] = <<o, moves>>
  /\ \A g \in DOMAIN ptrs : g # h => ptrs'[g] = ptrs[g]
  /\ roots' = Append(roots, [handle |-> h, obj |-> o])
  /\ free' \in Seq(Nat)
  /\ \A i, j \in DOMAIN free' : free'[i] = free'[j] => i = j
  /\ {free'[i] : i \in DOMAIN free'} = {g \in DOMAIN ptrs' : ptrs'[g] = Null}
  /\ Len(ptrs') - Len(free') = Len(ptrs) - Len(free) + 1

(* RootHandles::add takes one slot, and keeps count of those that are free. *)
LEMMA AddRootAdds ==
  ASSUME TypeInv, SlotInv, NEW o \in Objects, AddRoot(o)
  PROVE  \E h \in Nat : RootAdded(h, o)
<1>. DEFINE cell == <<o, moves>>
            S == Cells \cup {Null}
<1>1. cell \in S /\ cell # Null
  BY CellNotNull DEF TypeInv
<1>2. /\ ptrs \in Seq(S) /\ DOMAIN ptrs = 1 .. Len(ptrs) /\ Len(ptrs) \in Nat
      /\ free \in Seq(Nat) /\ DOMAIN free = 1 .. Len(free) /\ Len(free) \in Nat
  BY DEF TypeInv
<1>3. /\ \A i, j \in DOMAIN free : free[i] = free[j] => i = j
      /\ \A i \in DOMAIN free : free[i] \in DOMAIN ptrs /\ ptrs[free[i]] = Null
      /\ \A h \in DOMAIN ptrs : ptrs[h] = Null => \E i \in DOMAIN free : free[i] = h
  BY DEF SlotInv, FreeSlots
<1>4. CASE free # <<>>
  <2>. DEFINE last == Len(free)
              h == free[last]
              q == [ptrs EXCEPT ![h] = cell]
              r == SubSeq(free, 1, last - 1)
  <2>1. last >= 1 /\ last \in DOMAIN free /\ h \in DOMAIN ptrs /\ ptrs[h] = Null /\ h \in Nat
    BY <1>2, <1>3, <1>4
  <2>2. q \in Seq(S) /\ Len(q) = Len(ptrs) /\ DOMAIN q = DOMAIN ptrs
        /\ \A g \in DOMAIN ptrs : q[g] = IF g = h THEN cell ELSE ptrs[g]
    BY <1>1, <1>2, <2>1, ExceptSeq
  <2>3. r \in Seq(Nat) /\ Len(r) = last - 1 /\ DOMAIN r = 1 .. last - 1
        /\ \A i \in 1 .. last - 1 : r[i] = free[i]
    BY <1>2, <2>1, SubSeqProperties
  <2>4. ptrs' = q /\ free' = r /\ roots' = Append(roots, [handle |-> h, obj |-> o])
    BY <1>4 DEF AddRoot, Addr
  <2>. HIDE DEF q, r, h
  <2>5. \A i, j \in DOMAIN r : r[i] = r[j] => i = j
    <3>1. \A i \in DOMAIN r : i \in DOMAIN free /\ r[i] = free[i]
      BY <1>2, <2>1, <2>3
    <3>. QED BY <1>3, <3>1
  <2>6. ASSUME NEW i \in DOMAIN r PROVE r[i] \in DOMAIN q /\ q[r[i]] = Null
    <3>1. i \in DOMAIN free /\ i # last /\ r[i] = free[i]
      BY <1>2, <2>1, <2>3
    <3>2. free[i] # h
      BY <1>3, <2>1, <3>1 DEF h
    <3>. QED BY <1>3, <2>2, <3>1, <3>2
  <2>7. ASSUME NEW g \in DOMAIN q, q[g] = Null PROVE \E i \in DOMAIN r : r[i] = g
    <3>1. g # h /\ g \in DOMAIN ptrs /\ ptrs[g] = Null
      BY <1>1, <2>2, <2>7
    <3>2. PICK i \in DOMAIN free : free[i] = g
      BY <1>3, <3>1
    <3>3. i \in 1 .. last - 1
      BY <1>2, <2>1, <3>1, <3>2 DEF h
    <3>. QED BY <2>3, <3>2, <3>3
  <2>8. {r[i] : i \in DOMAIN r} = {g \in DOMAIN q : q[g] = Null}
    BY <2>6, <2>7
  <2>9. Len(q) - Len(r) = Len(ptrs) - Len(free) + 1
    BY <1>2, <2>2, <2>3
  <2>10. DOMAIN q = DOMAIN ptrs \cup {h} /\ q[h] = cell
    BY <2>1, <2>2
  <2>11. RootAdded(h, o)
    <3>1. /\ ptrs' \in Seq(S) /\ DOMAIN ptrs' = DOMAIN ptrs \cup {h} /\ ptrs'[h] = cell
          /\ \A g \in DOMAIN ptrs : g # h => ptrs'[g] = ptrs[g]
          /\ h \in DOMAIN ptrs => ptrs[h] = Null
      BY <2>1, <2>2, <2>4, <2>10
    <3>2. /\ free' \in Seq(Nat)
          /\ \A i, j \in DOMAIN free' : free'[i] = free'[j] => i = j
      BY <2>3, <2>4, <2>5
    <3>3. {free'[i] : i \in DOMAIN free'} = {g \in DOMAIN ptrs' : ptrs'[g] = Null}
      BY <2>4, <2>8, Zenon
    <3>4. Len(ptrs') - Len(free') = Len(ptrs) - Len(free) + 1
      BY <2>4, <2>9
    <3>. QED BY <2>4, <3>1, <3>2, <3>3, <3>4 DEF RootAdded
  <2>. QED BY <2>1, <2>11
<1>5. CASE free = <<>>
  <2>. DEFINE h == Len(ptrs) + 1
              q == Append(ptrs, cell)
  <2>1. q \in Seq(S) /\ Len(q) = Len(ptrs) + 1 /\ DOMAIN q = DOMAIN ptrs \cup {h}
        /\ h \in Nat /\ h \notin DOMAIN ptrs
        /\ q[h] = cell /\ \A g \in DOMAIN ptrs : q[g] = ptrs[g]
    BY <1>1, <1>2, AppendProperties
  <2>2. ptrs' = q /\ free' = free /\ roots' = Append(roots, [handle |-> h, obj |-> o])
    BY <1>5 DEF AddRoot, Addr
  <2>. HIDE DEF q, h
  <2>3. {free[i] : i \in DOMAIN free} = {} /\ {g \in DOMAIN q : q[g] = Null} = {}
    BY <1>1, <1>2, <1>3, <1>5, <2>1
  <2>4. Len(q) - Len(free) = Len(ptrs) - Len(free) + 1
    BY <1>2, <2>1
  <2>5. RootAdded(h, o)
    BY <1>2, <1>3, <2>1, <2>2, <2>3, <2>4 DEF RootAdded
  <2>. QED BY <2>1, <2>5
<1>. QED BY <1>4, <1>5

(* A new Root denotes its object, and the others what they did. *)
LEMMA AddRootKeeps ==
  ASSUME IInv, walk = Idle, NEW o \in Objects, AddRoot(o),
         heap \subseteq heap', heap' \subseteq Objects, o \in heap',
         UNCHANGED <<moves, localVars, walk>>
  PROVE  IInv'
<1>1. PICK h \in Nat : RootAdded(h, o)
  BY AddRootAdds DEF IInv
<1>. DEFINE new == [handle |-> h, obj |-> o]
            n == Len(roots) + 1
<1>2. /\ roots \in Seq(RootValues) /\ Len(roots) \in Nat /\ DOMAIN roots = 1 .. Len(roots)
      /\ new \in RootValues /\ moves \in Nat
  BY DEF IInv, TypeInv, RootValues
<1>3. /\ roots' \in Seq(RootValues) /\ Len(roots') = n /\ DOMAIN roots' = DOMAIN roots \cup {n}
      /\ n \notin DOMAIN roots /\ roots'[n] = new
      /\ \A i \in DOMAIN roots : roots'[i] = roots[i]
  BY <1>1, <1>2, AppendProperties DEF RootAdded
<1>4. \A i \in DOMAIN roots : roots[i].handle \in DOMAIN ptrs /\ roots[i].handle # h
  BY <1>1 DEF IInv, SlotInv, RootAdded
<1>5. new.handle = h /\ new.obj = o
  OBVIOUS
<1>. HIDE DEF new, n
<1>6. TypeInv'
  BY <1>1, <1>3 DEF IInv, TypeInv, RootAdded, localVars, Idle, Walks
<1>7. <<o, moves>> # Null
  BY <1>2, CellNotNull
<1>8. SlotInv'
  <2>1. \A i, j \in DOMAIN roots' : roots'[i].handle = roots'[j].handle => i = j
    BY <1>3, <1>4, <1>5 DEF IInv, SlotInv, FreeSlots
  <2>2. Len(roots') + Len(free') = Len(ptrs')
    <3>1. Len(ptrs') \in Nat /\ Len(free') \in Nat /\ Len(ptrs) \in Nat /\ Len(free) \in Nat
      BY <1>1 DEF RootAdded, IInv, TypeInv
    <3>2. Len(roots) + Len(free) = Len(ptrs)
      BY DEF IInv, SlotInv, FreeSlots
    <3>3. Len(ptrs') - Len(free') = Len(ptrs) - Len(free) + 1
      BY <1>1 DEF RootAdded
    <3>. QED BY <1>2, <1>3, <3>1, <3>2, <3>3 DEF n
  <2>3. FreeSlots'
    BY <1>1, <2>1, <2>2 DEF FreeSlots, RootAdded
  <2>4. \A i \in DOMAIN roots' : roots'[i].handle \in DOMAIN ptrs' /\ ptrs'[roots'[i].handle] # Null
    <3>1. \A i \in DOMAIN roots : ptrs[roots[i].handle] # Null
      BY DEF IInv, SlotInv
    <3>2. roots'[n].handle \in DOMAIN ptrs' /\ ptrs'[roots'[n].handle] # Null
      BY <1>1, <1>3, <1>5, <1>7 DEF RootAdded
    <3>3. \A i \in DOMAIN roots : roots'[i].handle \in DOMAIN ptrs' /\ ptrs'[roots'[i].handle] # Null
      BY <1>1, <1>3, <1>4, <3>1 DEF RootAdded
    <3>. QED BY <1>3, <3>2, <3>3
  <2>5. ASSUME NEW g \in DOMAIN ptrs', ptrs'[g] # Null
        PROVE  \E i \in DOMAIN roots' : roots'[i].handle = g
    <3>1. CASE g = h
      BY <1>3, <1>5, <3>1
    <3>2. CASE g # h
      <4>1. g \in DOMAIN ptrs /\ ptrs[g] # Null
        BY <1>1, <2>5, <3>2 DEF RootAdded
      <4>. QED BY <1>3, <4>1 DEF IInv, SlotInv
    <3>. QED BY <3>1, <3>2
  <2>. QED BY <2>3, <2>4, <2>5 DEF SlotInv
<1>9. RootInv'
  <2>1. \A g : ~MovedSlot(g) /\ ~MovedSlot(g)'
    BY DEF MovedSlot
  <2>2. ASSUME NEW i \in DOMAIN roots'
        PROVE  roots'[i].obj \in heap' /\ ptrs'[roots'[i].handle] = <<roots'[i].obj, moves>>
    <3>1. CASE i = n
      BY <1>1, <1>3, <1>5, <3>1 DEF RootAdded
    <3>2. CASE i \in DOMAIN roots
      <4>1. roots[i].obj \in heap /\ ptrs[roots[i].handle] = <<roots[i].obj, moves>>
        BY <2>1, <3>2 DEF IInv, RootInv, Holds
      <4>. QED BY <1>1, <1>3, <1>4, <3>2, <4>1 DEF RootAdded
    <3>. QED BY <1>3, <3>1, <3>2
  <2>. QED BY <2>1, <2>2 DEF RootInv, Holds
<1>10. ScopeInv' /\ LocalInv' /\ CellInv'
  BY LocalsStay DEF IInv
<1>11. WalkInv'
  BY DEF WalkInv
<1>. QED BY <1>6, <1>8, <1>9, <1>10, <1>11 DEF IInv

(* The sequence s without its element k, as DropRoot makes it. *)
Without(s, k) == SubSeq(s, 1, k - 1) \o SubSeq(s, k + 1, Len(s))

(* Adding the lengths of what is before and after one of n elements. *)
LEMMA Around ==
  ASSUME NEW n \in Nat, NEW k \in 1 .. n
  PROVE  /\ k - 1 \in Nat /\ n - k \in Nat /\ (k - 1) + (n - k) = n - 1
         /\ \A j \in 1 .. n - 1 :
              IF j < k THEN j <= k - 1 /\ j \in 1 .. k - 1
              ELSE ~(j <= k - 1) /\ j - (k - 1) \in 1 .. n - k /\ (j - (k - 1)) + k = j + 1
OBVIOUS

(* A sequence without one element has the others, in their order. *)
LEMMA WithoutOne ==
  ASSUME NEW S, NEW s \in Seq(S), NEW k \in 1 .. Len(s)
  PROVE  /\ Without(s, k) \in Seq(S) /\ Len(Without(s, k)) = Len(s) - 1
         /\ \A j \in 1 .. Len(s) - 1 : Without(s, k)[j] = s[IF j < k THEN j ELSE j + 1]
<1>. DEFINE a == SubSeq(s, 1, k - 1)
            b == SubSeq(s, k + 1, Len(s))
            n == Len(s)
<1>1. n \in Nat /\ k \in Int /\ k \in 1 .. n /\ \A j \in 1 .. n : s[j] \in S
  BY ElementOfSeq
<1>2. a \in Seq(S) /\ Len(a) = k - 1 /\ \A j \in 1 .. k - 1 : a[j] = s[j]
  BY <1>1, SubSeqProperties
<1>3. b \in Seq(S) /\ Len(b) = n - k /\ \A j \in 1 .. n - k : b[j] = s[j + k]
  <2>1. \A j \in k + 1 .. n : s[j] \in S
    BY <1>1
  <2>2. /\ b \in Seq(S) /\ Len(b) = IF k + 1 <= n THEN n - (k + 1) + 1 ELSE 0
        /\ \A j \in 1 .. n - (k + 1) + 1 : b[j] = s[(k + 1) + j - 1]
    BY <1>1, <2>1, SubSeqProperties
  <2>. QED BY <1>1, <2>2
<1>. HIDE DEF a, b
<1>4. /\ Without(s, k) = a \o b
      /\ a \o b \in Seq(S) /\ Len(a \o b) = Len(a) + Len(b)
      /\ \A j \in 1 .. Len(a) + Len(b) : (a \o b)[j] = IF j <= Len(a) THEN a[j] ELSE b[j - Len(a)]
  BY <1>2, <1>3, ConcatProperties DEF a, b, Without
<1>5. Len(a) + Len(b) = n - 1
  <2>1. (k - 1) + (n - k) = n - 1
    BY <1>1, Around
  <2>. QED BY <1>2, <1>3, <2>1
<1>. HIDE DEF n
<1>6. ASSUME NEW j \in 1 .. n - 1 PROVE (a \o b)[j] = s[IF j < k THEN j ELSE j + 1]
  <2>1. (a \o b)[j] = IF j <= k - 1 THEN a[j] ELSE b[j - (k - 1)]
    BY <1>2, <1>4, <1>5
  <2>2. CASE j < k
    <3>1. j <= k - 1 /\ j \in 1 .. k - 1
      BY <1>1, <2>2, Around
    <3>. QED BY <1>2, <2>1, <2>2, <3>1
  <2>3. CASE ~(j < k)
    <3>1. ~(j <= k - 1) /\ j - (k - 1) \in 1 .. n - k /\ (j - (k - 1)) + k = j + 1
      BY <1>1, <2>3, Around
    <3>2. (a \o b)[j] = s[j + 1]
      BY <1>3, <2>1, <3>1
    <3>. QED BY <2>3, <3>2
  <2>. QED BY <2>2, <2>3
<1>. QED BY <1>4, <1>5, <1>6 DEF n

(* A Root that is dropped leaves a free slot, whichever it is. *)
LEMMA DropRootKeeps ==
  ASSUME IInv, DropRoot
  PROVE  IInv'
<1>1. /\ walk = Idle
      /\ UNCHANGED <<heap, moves, localVars, walk>>
  BY DEF DropRoot
<1>2. PICK k \in DOMAIN roots :
        /\ roots' = SubSeq(roots, 1, k - 1) \o SubSeq(roots, k + 1, Len(roots))
        /\ ptrs' = [ptrs EXCEPT ![roots[k].handle] = Null]
        /\ free' = Append(free, roots[k].handle)
  BY DEF DropRoot
<1>. DEFINE h == roots[k].handle
            Old(j) == IF j < k THEN j ELSE j + 1
            S == Cells \cup {Null}
<1>3. /\ roots \in Seq(RootValues) /\ DOMAIN roots = 1 .. Len(roots) /\ Len(roots) \in Nat
      /\ ptrs \in Seq(S) /\ DOMAIN ptrs = 1 .. Len(ptrs) /\ Len(ptrs) \in Nat
      /\ free \in Seq(Nat) /\ DOMAIN free = 1 .. Len(free) /\ Len(free) \in Nat
  BY DEF IInv, TypeInv
<1>4. /\ \A i, j \in DOMAIN free : free[i] = free[j] => i = j
      /\ \A i \in DOMAIN free : free[i] \in DOMAIN ptrs /\ ptrs[free[i]] = Null
      /\ \A g \in DOMAIN ptrs : ptrs[g] = Null => \E i \in DOMAIN free : free[i] = g
      /\ \A i, j \in DOMAIN roots : roots[i].handle = roots[j].handle => i = j
      /\ Len(roots) + Len(free) = Len(ptrs)
      /\ \A i \in DOMAIN roots : roots[i].handle \in DOMAIN ptrs /\ ptrs[roots[i].handle] # Null
      /\ \A g \in DOMAIN ptrs : ptrs[g] # Null => \E i \in DOMAIN roots : roots[i].handle = g
  BY DEF IInv, SlotInv, FreeSlots
<1>5. h \in DOMAIN ptrs /\ ptrs[h] # Null /\ h \in Nat
  BY <1>3, <1>4
<1>6. /\ roots' \in Seq(RootValues) /\ Len(roots') = Len(roots) - 1
      /\ DOMAIN roots' = 1 .. Len(roots) - 1
      /\ \A j \in DOMAIN roots' : roots'[j] = roots[Old(j)]
  <2>1. roots' = Without(roots, k) /\ k \in 1 .. Len(roots)
    BY <1>2, <1>3 DEF Without
  <2>2. /\ Without(roots, k) \in Seq(RootValues) /\ Len(Without(roots, k)) = Len(roots) - 1
        /\ \A j \in 1 .. Len(roots) - 1 :
             Without(roots, k)[j] = roots[IF j < k THEN j ELSE j + 1]
    BY <1>3, <2>1, WithoutOne
  <2>3. DOMAIN roots' = 1 .. Len(roots')
    BY <2>1, <2>2
  <2>. QED BY <2>1, <2>2, <2>3
<1>7. /\ ptrs' \in Seq(S) /\ DOMAIN ptrs' = DOMAIN ptrs /\ Len(ptrs') = Len(ptrs)
      /\ \A g \in DOMAIN ptrs : ptrs'[g] = IF g = h THEN Null ELSE ptrs[g]
  BY <1>2, <1>3, <1>5, ExceptSeq
<1>8. /\ free' \in Seq(Nat) /\ Len(free') = Len(free) + 1
      /\ DOMAIN free' = DOMAIN free \cup {Len(free) + 1}
      /\ \A i \in DOMAIN free : free'[i] = free[i]
      /\ free'[Len(free) + 1] = h
  BY <1>2, <1>3, <1>5, AppendProperties
<1>. HIDE DEF h
<1>9. \A j \in DOMAIN roots' : Old(j) \in DOMAIN roots /\ Old(j) # k
  BY <1>3, <1>6
<1>10. \A i, j \in DOMAIN roots' : Old(i) = Old(j) => i = j
  BY <1>3, <1>6
<1>11. \A i \in DOMAIN roots : i # k => \E j \in DOMAIN roots' : Old(j) = i
  <2>. SUFFICES ASSUME NEW i \in DOMAIN roots, i # k
                PROVE  \E j \in DOMAIN roots' : Old(j) = i
    OBVIOUS
  <2>1. CASE i < k
    BY <1>3, <1>6, <2>1
  <2>2. CASE i > k
    <3>1. i - 1 \in DOMAIN roots' /\ Old(i - 1) = i
      BY <1>3, <1>6, <2>2
    <3>. QED BY <3>1
  <2>. QED BY <1>3, <2>1, <2>2
<1>. HIDE DEF Old
<1>12. \A j \in DOMAIN roots' : roots'[j].handle # h /\ roots'[j].handle \in DOMAIN ptrs
  BY <1>4, <1>6, <1>9 DEF h
<1>13. TypeInv'
  BY <1>1, <1>6, <1>7, <1>8 DEF IInv, TypeInv, localVars, Idle
<1>14. SlotInv'
  <2>1. \A i, j \in DOMAIN free' : free'[i] = free'[j] => i = j
    <3>1. \A i \in DOMAIN free : free'[i] = free[i] /\ free[i] # h
      BY <1>4, <1>5, <1>8
    <3>. QED BY <1>4, <1>8, <3>1
  <2>2. ASSUME NEW i \in DOMAIN free' PROVE free'[i] \in DOMAIN ptrs' /\ ptrs'[free'[i]] = Null
    BY <1>4, <1>5, <1>7, <1>8
  <2>3. ASSUME NEW g \in DOMAIN ptrs', ptrs'[g] = Null PROVE \E i \in DOMAIN free' : free'[i] = g
    <3>1. CASE g = h
      BY <1>8, <3>1
    <3>2. CASE g # h
      <4>1. PICK i \in DOMAIN free : free[i] = g
        BY <1>4, <1>7, <2>3, <3>2
      <4>. QED BY <1>8, <4>1
    <3>. QED BY <3>1, <3>2
  <2>4. {free'[i] : i \in DOMAIN free'} = {g \in DOMAIN ptrs' : ptrs'[g] = Null}
    BY <2>2, <2>3
  <2>5. \A i, j \in DOMAIN roots' : roots'[i].handle = roots'[j].handle => i = j
    BY <1>4, <1>6, <1>9, <1>10
  <2>6. Len(roots') + Len(free') = Len(ptrs')
    <3>1. Len(roots) + Len(free) = Len(ptrs)
      BY <1>4
    <3>2. Len(roots') = Len(roots) - 1 /\ Len(free') = Len(free) + 1 /\ Len(ptrs') = Len(ptrs)
      BY <1>6, <1>7, <1>8
    <3>. QED BY <1>3, <3>1, <3>2
  <2>7. \A i \in DOMAIN roots' : roots'[i].handle \in DOMAIN ptrs' /\ ptrs'[roots'[i].handle] # Null
    BY <1>4, <1>6, <1>7, <1>9, <1>12
  <2>8. ASSUME NEW g \in DOMAIN ptrs', ptrs'[g] # Null
        PROVE  \E i \in DOMAIN roots' : roots'[i].handle = g
    <3>1. g # h /\ ptrs[g] # Null /\ g \in DOMAIN ptrs
      BY <1>7, <2>8
    <3>2. PICK i \in DOMAIN roots : roots[i].handle = g
      BY <1>4, <3>1
    <3>3. i # k
      BY <3>1, <3>2 DEF h
    <3>. QED BY <1>6, <1>11, <3>2, <3>3
  <2>. QED BY <2>1, <2>4, <2>5, <2>6, <2>7, <2>8 DEF SlotInv, FreeSlots
<1>15. RootInv'
  <2>1. \A g : ~MovedSlot(g) /\ ~MovedSlot(g)'
    BY <1>1 DEF MovedSlot
  <2>2. ASSUME NEW j \in DOMAIN roots'
        PROVE  roots'[j].obj \in heap' /\ ptrs'[roots'[j].handle] = <<roots'[j].obj, moves'>>
    <3>1. /\ roots[Old(j)].obj \in heap
          /\ ptrs[roots[Old(j)].handle] = <<roots[Old(j)].obj, moves>>
      BY <1>9, <2>1 DEF IInv, RootInv, Holds
    <3>. QED BY <1>1, <1>6, <1>7, <1>12, <3>1
  <2>. QED BY <2>1, <2>2 DEF RootInv, Holds
<1>16. ScopeInv' /\ LocalInv' /\ CellInv'
  BY <1>1, LocalsStay DEF IInv
<1>17. WalkInv'
  BY <1>1 DEF WalkInv
<1>. QED BY <1>13, <1>14, <1>15, <1>16, <1>17 DEF IInv

-----------------------------------------------------------------------------
(* A scope that grows has the cells it had, with their contents. *)
LEMMA GrownKeeps ==
  ASSUME NEW d \in ScopeData, WellNumbered(d)
  PROVE  /\ Grown(d) \in ScopeData /\ WellNumbered(Grown(d))
         /\ \A m, j : CellIn(Grown(d), m, j) <=> CellIn(d, m, j)
         /\ \A m, j : CellIn(d, m, j) => ContentOf(Grown(d), m, j) = ContentOf(d, m, j)
<1>. DEFINE s == Grown(d)
            cur == d.current
            n == Len(d.handles)
<1>1. /\ cur \in Vecs /\ cur.id \in Nat /\ cur.cap \in Nat /\ cur.cells \in Seq(Cells)
      /\ d.handles \in Seq(Vecs) /\ DOMAIN d.handles = 1 .. n /\ n \in Nat
      /\ cur.id = n + 1 /\ \A k \in 1 .. n : d.handles[k].id = k
  BY DEF ScopeData, Vecs, WellNumbered
<1>2. CASE Len(cur.cells) # cur.cap
  BY <1>2 DEF Grown
<1>3. CASE Len(cur.cells) = cur.cap
  <2>. DEFINE v == Vec(cur.id + 1, 2 * cur.cap)
              q == Append(d.handles, cur)
  <2>1. s = [current |-> v, handles |-> q]
    BY <1>3 DEF Grown
  <2>2. v \in Vecs /\ v.id = n + 2 /\ v.cells = <<>>
    <3>1. cur.id + 1 \in Nat /\ 2 * cur.cap \in Nat /\ cur.id + 1 = n + 2
      BY <1>1
    <3>2. <<>> \in Seq(Cells)
      BY EmptySeq
    <3>. QED BY <3>1, <3>2 DEF Vec, Vecs
  <2>3. /\ q \in Seq(Vecs) /\ Len(q) = n + 1 /\ DOMAIN q = 1 .. n + 1
        /\ q[n + 1] = cur /\ \A k \in 1 .. n : q[k] = d.handles[k]
    BY <1>1, AppendProperties
  <2>. HIDE DEF v, q, s
  <2>4. s \in ScopeData /\ s.current = v /\ s.handles = q
    BY <2>1, <2>2, <2>3 DEF ScopeData
  <2>5. WellNumbered(s)
    <3>1. \A k \in 1 .. n + 1 : q[k].id = k
      BY <1>1, <2>3
    <3>2. v.id = Len(q) + 1
      BY <1>1, <2>2, <2>3
    <3>. QED BY <2>3, <2>4, <3>1, <3>2 DEF WellNumbered
  <2>6. ASSUME NEW m \in 1 .. n + 1 PROVE VecIn(s, m) = VecIn(d, m)
    <3>1. m # n + 2 /\ m \in Nat
      BY <1>1, <2>6
    <3>2. VecIn(s, m) = q[m]
      BY <1>1, <2>3, <2>4, <3>1 DEF VecIn
    <3>. QED BY <1>1, <2>3, <3>2 DEF VecIn
  <2>7. VecIn(s, n + 2) = v
    BY <1>1, <2>3, <2>4 DEF VecIn
  <2>8. 1 .. Len(s.handles) + 1 = 1 .. n + 1 \cup {n + 2} /\ n + 2 \notin 1 .. n + 1
    BY <1>1, <2>3, <2>4
  <2>9. DOMAIN v.cells = {}
    BY <2>2
  <2>10. \A m, j : CellIn(s, m, j) <=> CellIn(d, m, j)
    BY <2>6, <2>7, <2>8, <2>9 DEF CellIn
  <2>11. \A m, j : CellIn(d, m, j) => ContentOf(s, m, j) = ContentOf(d, m, j)
    BY <2>6 DEF CellIn, ContentOf
  <2>. QED BY <2>4, <2>5, <2>10, <2>11 DEF s
<1>. QED BY <1>2, <1>3

(* The scope s with the address c in a new cell of its current vec. *)
WithCell(s, c) == [s EXCEPT !.current.cells = Append(@, c)]

(* A new cell leaves the others where they are and what they hold. *)
LEMMA CellAdded ==
  ASSUME NEW s \in ScopeData, WellNumbered(s), NEW c \in Cells,
         NEW e, e = WithCell(s, c),
         NEW i, i = Len(s.current.cells) + 1
  PROVE  /\ e \in ScopeData /\ WellNumbered(e) /\ i \in Nat /\ s.current.id \in Nat
         /\ \A m, j : CellIn(e, m, j) <=> CellIn(s, m, j) \/ (m = s.current.id /\ j = i)
         /\ \A m, j : CellIn(s, m, j) => ContentOf(e, m, j) = ContentOf(s, m, j)
         /\ ContentOf(e, s.current.id, i) = c /\ ~CellIn(s, s.current.id, i)
<1>. DEFINE cur == s.current
            n == Len(s.handles)
            v == [cur EXCEPT !.cells = Append(cur.cells, c)]
<1>1. /\ cur \in Vecs /\ cur.id \in Nat /\ cur.cap \in Nat /\ cur.cells \in Seq(Cells)
      /\ s.handles \in Seq(Vecs) /\ DOMAIN s.handles = 1 .. n /\ n \in Nat
      /\ cur.id = n + 1 /\ \A k \in 1 .. n : s.handles[k].id = k
  BY DEF ScopeData, Vecs, WellNumbered
<1>2. /\ Append(cur.cells, c) \in Seq(Cells) /\ i \in Nat
      /\ DOMAIN Append(cur.cells, c) = DOMAIN cur.cells \cup {i} /\ i \notin DOMAIN cur.cells
      /\ Append(cur.cells, c)[i] = c
      /\ \A j \in DOMAIN cur.cells : Append(cur.cells, c)[j] = cur.cells[j]
  BY <1>1, AppendProperties
<1>3. v \in Vecs /\ v.id = cur.id /\ v.cells = Append(cur.cells, c)
  BY <1>1, <1>2 DEF Vecs
<1>4. e \in ScopeData /\ e.current = v /\ e.handles = s.handles
  BY <1>1, <1>3 DEF ScopeData, WithCell
<1>. HIDE DEF v
<1>5. WellNumbered(e)
  BY <1>1, <1>3, <1>4 DEF WellNumbered
<1>6. ASSUME NEW m \in 1 .. n PROVE VecIn(e, m) = VecIn(s, m)
  BY <1>1, <1>4 DEF VecIn
<1>7. VecIn(e, n + 1) = v /\ VecIn(s, n + 1) = cur
  BY <1>4 DEF VecIn
<1>8. 1 .. n + 1 = 1 .. n \cup {n + 1} /\ n + 1 \notin 1 .. n
  BY <1>1
<1>9. \A m, j : CellIn(e, m, j) <=> CellIn(s, m, j) \/ (m = n + 1 /\ j = i)
  BY <1>2, <1>3, <1>4, <1>6, <1>7, <1>8 DEF CellIn
<1>10. \A m, j : CellIn(s, m, j) => ContentOf(e, m, j) = ContentOf(s, m, j)
  BY <1>2, <1>3, <1>6, <1>7, <1>8 DEF CellIn, ContentOf
<1>11. ContentOf(e, n + 1, i) = c /\ ~CellIn(s, n + 1, i)
  BY <1>2, <1>3, <1>7 DEF CellIn, ContentOf
<1>. QED BY <1>1, <1>2, <1>4, <1>5, <1>9, <1>10, <1>11

(* A new Local denotes its object, and the others what they did. *)
LEMMA AddLocalKeeps ==
  ASSUME IInv, walk = Idle, scopes # <<>>, NEW o \in Objects, AddLocal(o),
         heap \subseteq heap', heap' \subseteq Objects, o \in heap',
         UNCHANGED <<moves, rootVars, walk>>
  PROVE  IInv'
<1>. DEFINE top == Len(scopes)
            d == scopes[top]
            s == Grown(d)
            n == s.current.id
            i == Len(s.current.cells) + 1
            e == WithCell(s, Addr(o))
            new == [scope |-> top, vec |-> n, index |-> i, obj |-> o]
<1>1. /\ scopes \in Seq(ScopeData) /\ DOMAIN scopes = 1 .. top /\ top \in Nat /\ top \in DOMAIN scopes
      /\ d \in ScopeData /\ WellNumbered(d) /\ moves \in Nat
      /\ \A g \in DOMAIN scopes : WellNumbered(scopes[g])
  <2>1. scopes \in Seq(ScopeData) /\ moves \in Nat
    BY DEF IInv, TypeInv
  <2>2. top \in Nat \ {0} /\ DOMAIN scopes = 1 .. top
    BY <2>1, EmptySeq
  <2>3. top \in DOMAIN scopes /\ d \in ScopeData
    BY <2>1, <2>2
  <2>. QED BY <2>1, <2>2, <2>3 DEF IInv, ScopeInv
<1>2. Addr(o) \in Cells /\ Addr(o) = <<o, moves>>
  BY <1>1 DEF Addr, Cells
<1>3. /\ s \in ScopeData /\ WellNumbered(s)
      /\ \A m, j : CellIn(s, m, j) <=> CellIn(d, m, j)
      /\ \A m, j : CellIn(d, m, j) => ContentOf(s, m, j) = ContentOf(d, m, j)
  BY <1>1, GrownKeeps
<1>4. scopes' = [scopes EXCEPT ![top] = e] /\ locals' = locals \cup {new}
  BY DEF AddLocal, WithCell
<1>. HIDE DEF s
<1>5. /\ e \in ScopeData /\ WellNumbered(e) /\ i \in Nat /\ n \in Nat
      /\ \A m, j : CellIn(e, m, j) <=> CellIn(s, m, j) \/ (m = n /\ j = i)
      /\ \A m, j : CellIn(s, m, j) => ContentOf(e, m, j) = ContentOf(s, m, j)
      /\ ContentOf(e, n, i) = Addr(o) /\ ~CellIn(s, n, i)
  BY <1>2, <1>3, CellAdded
<1>6. /\ new \in LocalValues /\ new.scope = top /\ new.vec = n /\ new.index = i /\ new.obj = o
  BY <1>1, <1>5 DEF LocalValues
<1>. HIDE DEF d, e, n, i, new
<1>7. /\ scopes' \in Seq(ScopeData) /\ DOMAIN scopes' = DOMAIN scopes
      /\ scopes'[top] = e /\ \A g \in DOMAIN scopes : g # top => scopes'[g] = scopes[g]
  <2>. DEFINE q == [scopes EXCEPT ![top] = e]
  <2>1. q \in Seq(ScopeData) /\ Len(q) = top /\ \A g \in 1 .. top : q[g] = IF g = top THEN e ELSE scopes[g]
    BY <1>1, <1>5, ExceptSeq
  <2>. QED BY <1>1, <1>4, <2>1
<1>. HIDE DEF top
<1>8. /\ \A g, m, j : IsCell(g, m, j)' <=> IsCell(g, m, j) \/ (g = top /\ m = n /\ j = i)
      /\ \A g, m, j : IsCell(g, m, j) => ContentOf(scopes'[g], m, j) = ContentOf(scopes[g], m, j)
  <2>1. ASSUME NEW g, NEW m, NEW j
        PROVE  /\ IsCell(g, m, j)' <=> IsCell(g, m, j) \/ (g = top /\ m = n /\ j = i)
               /\ IsCell(g, m, j) => ContentOf(scopes'[g], m, j) = ContentOf(scopes[g], m, j)
    <3>1. CASE g = top
      <4>1. IsCell(g, m, j)' <=> CellIn(e, m, j)
        BY <1>1, <1>7, <3>1 DEF IsCell
      <4>2. IsCell(g, m, j) <=> CellIn(d, m, j)
        BY <1>1, <3>1 DEF IsCell, d, top
      <4>3. CellIn(d, m, j) => ContentOf(e, m, j) = ContentOf(d, m, j)
        BY <1>3, <1>5
      <4>4. scopes'[g] = e /\ scopes[g] = d
        BY <1>7, <3>1 DEF d, top
      <4>. QED BY <1>3, <1>5, <3>1, <4>1, <4>2, <4>3, <4>4
    <3>2. CASE g # top
      BY <1>7, <3>2 DEF IsCell
    <3>. QED BY <3>1, <3>2
  <2>. QED BY <2>1
<1>9. TypeInv'
  BY <1>6, <1>4, <1>7 DEF IInv, TypeInv, rootVars, Idle
<1>10. SlotInv' /\ RootInv'
  BY RootsStay DEF IInv
<1>11. ScopeInv'
  BY <1>1, <1>5, <1>7 DEF ScopeInv
<1>12. LocalInv'
  <2>1. \A g, m, j : ~MovedCell(g, m, j) /\ ~MovedCell(g, m, j)'
    BY DEF MovedCell
  <2>2. ASSUME NEW l \in locals'
        PROVE  /\ IsCell(l.scope, l.vec, l.index)'
               /\ l.obj \in heap'
               /\ ContentOf(scopes'[l.scope], l.vec, l.index) = <<l.obj, moves'>>
    <3>1. CASE l = new
      BY <1>2, <1>5, <1>6, <1>7, <1>8, <3>1
    <3>2. CASE l \in locals
      <4>1. /\ IsCell(l.scope, l.vec, l.index) /\ l.obj \in heap
            /\ ContentOf(scopes[l.scope], l.vec, l.index) = <<l.obj, moves>>
        BY <2>1, <3>2 DEF IInv, LocalInv, Holds
      <4>. QED BY <1>8, <4>1
    <3>. QED BY <1>4, <3>1, <3>2
  <2>. QED BY <2>1, <2>2 DEF LocalInv, Holds
<1>13. CellInv'
  <2>. SUFFICES ASSUME NEW g \in Nat, NEW m \in Nat, NEW j \in Nat, IsCell(g, m, j)'
                PROVE  \E l \in locals' : l.scope = g /\ l.vec = m /\ l.index = j
    BY DEF CellInv
  <2>1. CASE g = top /\ m = n /\ j = i
    BY <1>4, <1>6, <2>1
  <2>2. CASE IsCell(g, m, j)
    <3>1. PICK l \in locals : l.scope = g /\ l.vec = m /\ l.index = j
      BY <2>2 DEF IInv, CellInv
    <3>. QED BY <1>4, <3>1
  <2>. QED BY <1>8, <2>1, <2>2
<1>14. WalkInv'
  BY DEF WalkInv
<1>. QED BY <1>9, <1>10, <1>11, <1>12, <1>13, <1>14 DEF IInv

(* The numbers of the vecs make the cell of a Local unique. *)
LEMMA CellOfLocal ==
  ASSUME TypeInv, ScopeInv, NEW l \in locals, IsCell(l.scope, l.vec, l.index)
  PROVE  CellOf(l) = ContentOf(scopes[l.scope], l.vec, l.index)
<1>. DEFINE d == scopes[l.scope]
            n == Len(d.handles)
            vecs == {d.current} \cup {d.handles[k] : k \in DOMAIN d.handles}
            here == {v \in vecs : v.id = l.vec}
<1>1. /\ d \in ScopeData /\ WellNumbered(d) /\ CellIn(d, l.vec, l.index)
  BY DEF TypeInv, ScopeInv, IsCell
<1>2. /\ n \in Nat /\ DOMAIN d.handles = 1 .. n /\ l.vec \in 1 .. n + 1
      /\ d.current.id = n + 1 /\ \A k \in 1 .. n : d.handles[k].id = k
  BY <1>1 DEF ScopeData, WellNumbered, CellIn
<1>. HIDE DEF d, n
<1>3. here = {VecIn(d, l.vec)}
  <2>1. VecIn(d, l.vec) \in vecs /\ VecIn(d, l.vec).id = l.vec
    BY <1>2 DEF VecIn, n
  <2>2. ASSUME NEW v \in vecs, v.id = l.vec PROVE v = VecIn(d, l.vec)
    <3>1. CASE v = d.current
      BY <1>2, <2>2, <3>1 DEF VecIn, n
    <3>2. CASE v \in {d.handles[k] : k \in DOMAIN d.handles}
      <4>1. PICK k \in 1 .. n : v = d.handles[k]
        BY <1>2, <3>2
      <4>2. k = l.vec /\ k # n + 1
        BY <1>2, <2>2, <4>1
      <4>. QED BY <4>1, <4>2 DEF VecIn, n
    <3>. QED BY <2>2, <3>1, <3>2
  <2>. QED BY <2>1, <2>2
<1>4. CellOf(l) = (CHOOSE v \in here : TRUE).cells[l.index]
  BY <1>3 DEF CellOf, d
<1>5. (CHOOSE v \in here : TRUE) = VecIn(d, l.vec)
  BY <1>3
<1>. QED BY <1>4, <1>5 DEF ContentOf, d

-----------------------------------------------------------------------------
(* A scope that is entered has no cells. *)
LEMMA NewLocalScopeKeeps ==
  ASSUME IInv, NewLocalScope
  PROVE  IInv'
<1>. DEFINE d == NewScopeData
            top == Len(scopes) + 1
<1>1. /\ walk = Idle /\ scopes' = Append(scopes, d)
      /\ UNCHANGED <<heap, moves, rootVars, locals, walk>>
  BY DEF NewLocalScope
<1>2. d \in ScopeData /\ d.handles = <<>> /\ d.current.id = 1 /\ d.current.cells = <<>>
  <2>1. Capacity \in Nat /\ <<>> \in Seq(Cells) /\ <<>> \in Seq(Vecs)
    BY HandlesAssumption, EmptySeq
  <2>. QED BY <2>1 DEF NewScopeData, Vec, ScopeData, Vecs
<1>. HIDE DEF d
<1>3. WellNumbered(d) /\ \A m, j : ~CellIn(d, m, j)
  <2>1. Len(d.handles) = 0 /\ DOMAIN d.handles = {}
    BY <1>2
  <2>2. 1 .. Len(d.handles) + 1 = {1} /\ VecIn(d, 1) = d.current
    BY <2>1 DEF VecIn
  <2>. QED BY <1>2, <2>1, <2>2 DEF WellNumbered, CellIn
<1>4. scopes \in Seq(ScopeData) /\ DOMAIN scopes = 1 .. Len(scopes) /\ Len(scopes) \in Nat
  BY DEF IInv, TypeInv
<1>5. /\ scopes' \in Seq(ScopeData) /\ DOMAIN scopes' = DOMAIN scopes \cup {top}
      /\ scopes'[top] = d /\ \A g \in DOMAIN scopes : scopes'[g] = scopes[g]
  BY <1>1, <1>2, <1>4, AppendProperties
<1>6. /\ \A g, m, j : IsCell(g, m, j)' <=> IsCell(g, m, j)
      /\ \A g, m, j : IsCell(g, m, j) => ContentOf(scopes'[g], m, j) = ContentOf(scopes[g], m, j)
  <2>1. top \notin DOMAIN scopes
    BY <1>4
  <2>2. \A g, m, j : IsCell(g, m, j) => IsCell(g, m, j)'
    BY <1>5 DEF IsCell
  <2>3. \A g, m, j : IsCell(g, m, j)' => IsCell(g, m, j)
    BY <1>3, <1>5 DEF IsCell
  <2>4. \A g, m, j : IsCell(g, m, j) => ContentOf(scopes'[g], m, j) = ContentOf(scopes[g], m, j)
    BY <1>5 DEF IsCell
  <2>. QED BY <2>2, <2>3, <2>4
<1>7. TypeInv'
  BY <1>1, <1>5 DEF IInv, TypeInv, rootVars, Idle
<1>8. SlotInv' /\ RootInv'
  BY <1>1, RootsStay DEF IInv
<1>9. ScopeInv'
  BY <1>3, <1>5 DEF IInv, ScopeInv
<1>10. LocalInv'
  <2>1. \A g, m, j : ~MovedCell(g, m, j) /\ ~MovedCell(g, m, j)'
    BY <1>1 DEF MovedCell
  <2>. QED BY <1>1, <1>6, <2>1 DEF IInv, LocalInv, Holds
<1>11. CellInv'
  BY <1>1, <1>6 DEF IInv, CellInv
<1>12. WalkInv'
  BY <1>1 DEF WalkInv
<1>. QED BY <1>7, <1>8, <1>9, <1>10, <1>11, <1>12 DEF IInv

(* A scope that is left takes its cells with it, and its Local values. *)
LEMMA DropCurrentScopeKeeps ==
  ASSUME IInv, DropCurrentScope
  PROVE  IInv'
<1>. DEFINE top == Len(scopes)
<1>1. /\ walk = Idle /\ scopes' = SubSeq(scopes, 1, top - 1) /\ scopes # <<>>
      /\ locals' = {l \in locals : l.scope < top}
      /\ UNCHANGED <<heap, moves, rootVars, walk>>
  BY DEF DropCurrentScope
<1>2. scopes \in Seq(ScopeData) /\ DOMAIN scopes = 1 .. top /\ top \in Nat \ {0}
      /\ \A g \in 1 .. top : scopes[g] \in ScopeData
  BY <1>1, EmptySeq DEF IInv, TypeInv
<1>3. /\ scopes' \in Seq(ScopeData) /\ DOMAIN scopes' = 1 .. top - 1
      /\ \A g \in 1 .. top - 1 : scopes'[g] = scopes[g]
  <2>. DEFINE q == SubSeq(scopes, 1, top - 1)
  <2>1. \A g \in 1 .. top - 1 : scopes[g] \in ScopeData
    BY <1>2
  <2>2. q \in Seq(ScopeData) /\ Len(q) = top - 1 /\ \A g \in 1 .. top - 1 : q[g] = scopes[g]
    BY <1>2, <2>1, SubSeqProperties
  <2>. QED BY <1>1, <2>2
<1>. HIDE DEF top
<1>4. \A g \in DOMAIN scopes : g < top <=> g \in DOMAIN scopes'
  BY <1>2, <1>3
<1>5. /\ \A g, m, j : IsCell(g, m, j)' <=> IsCell(g, m, j) /\ g < top
      /\ \A g, m, j : IsCell(g, m, j)' => ContentOf(scopes'[g], m, j) = ContentOf(scopes[g], m, j)
  <2>1. \A g \in DOMAIN scopes' : g \in DOMAIN scopes
    BY <1>2, <1>3
  <2>. QED BY <1>3, <1>4, <2>1 DEF IsCell
<1>6. TypeInv'
  BY <1>1, <1>3 DEF IInv, TypeInv, rootVars, Idle
<1>7. SlotInv' /\ RootInv'
  BY <1>1, RootsStay DEF IInv
<1>8. ScopeInv'
  <2>1. \A g \in DOMAIN scopes' : g \in DOMAIN scopes
    BY <1>2, <1>3
  <2>. QED BY <1>3, <2>1 DEF IInv, ScopeInv
<1>9. LocalInv'
  <2>1. \A g, m, j : ~MovedCell(g, m, j) /\ ~MovedCell(g, m, j)'
    BY <1>1 DEF MovedCell
  <2>2. ASSUME NEW l \in locals'
        PROVE  /\ IsCell(l.scope, l.vec, l.index)' /\ l.obj \in heap'
               /\ ContentOf(scopes'[l.scope], l.vec, l.index) = <<l.obj, moves'>>
    <3>1. l \in locals /\ l.scope < top
      BY <1>1
    <3>2. /\ IsCell(l.scope, l.vec, l.index) /\ l.obj \in heap
          /\ ContentOf(scopes[l.scope], l.vec, l.index) = <<l.obj, moves>>
      BY <2>1, <3>1 DEF IInv, LocalInv, Holds
    <3>. QED BY <1>1, <1>5, <3>1, <3>2
  <2>. QED BY <2>1, <2>2 DEF LocalInv, Holds
<1>10. CellInv'
  <2>. SUFFICES ASSUME NEW g \in Nat, NEW m \in Nat, NEW j \in Nat, IsCell(g, m, j)'
                PROVE  \E l \in locals' : l.scope = g /\ l.vec = m /\ l.index = j
    BY DEF CellInv
  <2>1. PICK l \in locals : l.scope = g /\ l.vec = m /\ l.index = j
    BY <1>5 DEF IInv, CellInv
  <2>. QED BY <1>1, <1>5, <2>1
<1>11. WalkInv'
  BY <1>1 DEF WalkInv
<1>. QED BY <1>6, <1>7, <1>8, <1>9, <1>10, <1>11 DEF IInv

(* Between collections a handle leads to its object. *)
LEMMA HandleLeads ==
  ASSUME IInv, walk = Idle
  PROVE  /\ \A i \in DOMAIN roots : roots[i].obj \in heap /\ ptrs[roots[i].handle] = Addr(roots[i].obj)
         /\ \A l \in locals : l.obj \in heap /\ CellOf(l) = Addr(l.obj)
<1>1. \A h : ~MovedSlot(h)
  BY DEF MovedSlot
<1>2. \A g, m, j : ~MovedCell(g, m, j)
  BY DEF MovedCell
<1>3. ASSUME NEW i \in DOMAIN roots
      PROVE  roots[i].obj \in heap /\ ptrs[roots[i].handle] = Addr(roots[i].obj)
  BY <1>1 DEF IInv, RootInv, Holds, Addr
<1>4. ASSUME NEW l \in locals
      PROVE  l.obj \in heap /\ CellOf(l) = Addr(l.obj)
  <2>1. /\ IsCell(l.scope, l.vec, l.index) /\ l.obj \in heap
        /\ ContentOf(scopes[l.scope], l.vec, l.index) = <<l.obj, moves>>
    BY <1>2 DEF IInv, LocalInv, Holds
  <2>2. CellOf(l) = ContentOf(scopes[l.scope], l.vec, l.index)
    BY <2>1, CellOfLocal DEF IInv
  <2>. QED BY <2>1, <2>2 DEF Addr
<1>. QED BY <1>3, <1>4

(* The actions that make a handle, from an object or from a handle. *)
LEMMA NewHandleKeeps ==
  ASSUME IInv, AllocRoot \/ AllocLocal \/ CloneRoot \/ LocalFromRoot \/ RootFromLocal
  PROVE  IInv'
<1>1. walk = Idle /\ heap \subseteq Objects /\ UNCHANGED <<moves, walk>>
  BY DEF IInv, TypeInv, AllocRoot, AllocLocal, CloneRoot, LocalFromRoot, RootFromLocal, CanRoot, CanLocal
<1>2. CASE AllocRoot
  <2>1. PICK o \in Objects \ heap : heap' = heap \cup {o} /\ AddRoot(o)
    BY <1>2 DEF AllocRoot
  <2>2. UNCHANGED <<moves, localVars, walk>>
    BY <1>2 DEF AllocRoot
  <2>. QED BY <1>1, <2>1, <2>2, AddRootKeeps
<1>3. CASE AllocLocal
  <2>1. PICK o \in Objects \ heap : heap' = heap \cup {o} /\ AddLocal(o)
    BY <1>3 DEF AllocLocal
  <2>2. UNCHANGED <<moves, rootVars, walk>> /\ scopes # <<>>
    BY <1>3 DEF AllocLocal, CanLocal
  <2>. QED BY <1>1, <2>1, <2>2, AddLocalKeeps
<1>4. CASE CloneRoot
  <2>1. PICK i \in DOMAIN roots : AddRoot(ptrs[roots[i].handle][1])
    BY <1>4 DEF CloneRoot
  <2>2. UNCHANGED <<heap, moves, localVars, walk>>
    BY <1>4 DEF CloneRoot
  <2>3. roots[i].obj \in heap /\ ptrs[roots[i].handle] = Addr(roots[i].obj)
    BY <1>1, HandleLeads
  <2>4. AddRoot(roots[i].obj)
    BY <2>1, <2>3 DEF Addr
  <2>. QED BY <1>1, <2>2, <2>3, <2>4, AddRootKeeps
<1>5. CASE LocalFromRoot
  <2>1. PICK i \in DOMAIN roots : AddLocal(ptrs[roots[i].handle][1])
    BY <1>5 DEF LocalFromRoot
  <2>2. UNCHANGED <<heap, moves, rootVars, walk>> /\ scopes # <<>>
    BY <1>5 DEF LocalFromRoot, CanLocal
  <2>3. roots[i].obj \in heap /\ ptrs[roots[i].handle] = Addr(roots[i].obj)
    BY <1>1, HandleLeads
  <2>4. AddLocal(roots[i].obj)
    BY <2>1, <2>3 DEF Addr
  <2>. QED BY <1>1, <2>2, <2>3, <2>4, AddLocalKeeps
<1>6. CASE RootFromLocal
  <2>1. PICK l \in locals : AddRoot(CellOf(l)[1])
    BY <1>6 DEF RootFromLocal
  <2>2. UNCHANGED <<heap, moves, localVars, walk>>
    BY <1>6 DEF RootFromLocal
  <2>3. l.obj \in heap /\ CellOf(l) = Addr(l.obj)
    BY <1>1, HandleLeads
  <2>4. AddRoot(l.obj)
    BY <2>1, <2>3 DEF Addr
  <2>. QED BY <1>1, <2>2, <2>3, <2>4, AddRootKeeps
<1>. QED BY <1>2, <1>3, <1>4, <1>5, <1>6

-----------------------------------------------------------------------------
(* What the walkers make of their position when they turn to another vec. *)
LEMMA WalkTurns ==
  ASSUME NEW w \in Walks
  PROVE  /\ LET x == [w EXCEPT !.vec = 0, !.scope = @ + 1] IN
            /\ x \in Walks /\ x.phase = w.phase /\ x.seen = w.seen /\ x.ptr = w.ptr
            /\ x.scope = w.scope + 1 /\ x.vec = 0 /\ x.index = w.index
         /\ LET x == [w EXCEPT !.index = 1, !.vec = @ + 1] IN
            /\ x \in Walks /\ x.phase = w.phase /\ x.seen = w.seen /\ x.ptr = w.ptr
            /\ x.scope = w.scope /\ x.vec = w.vec + 1 /\ x.index = 1
<1>1. LET x == [w EXCEPT !.vec = 0, !.scope = @ + 1] IN
      /\ x \in Walks /\ x.phase = w.phase /\ x.seen = w.seen /\ x.ptr = w.ptr
      /\ x.scope = w.scope + 1 /\ x.vec = 0 /\ x.index = w.index
  <2>. DEFINE x == [w EXCEPT !.vec = 0, !.scope = @ + 1]
              y == [w EXCEPT !.vec = 0]
  <2>1. y \in Walks /\ y.scope = w.scope
    BY DEF Walks
  <2>2. [y EXCEPT !.scope = @ + 1] \in Walks
    <3>. HIDE DEF y
    <3>. QED BY <2>1 DEF Walks
  <2>3. x = [y EXCEPT !.scope = @ + 1]
    BY DEF Walks
  <2>4. /\ x.phase = w.phase /\ x.seen = w.seen /\ x.ptr = w.ptr
        /\ x.scope = w.scope + 1 /\ x.vec = 0 /\ x.index = w.index
    BY DEF Walks
  <2>. QED BY <2>2, <2>3, <2>4
<1>2. LET x == [w EXCEPT !.index = 1, !.vec = @ + 1] IN
      /\ x \in Walks /\ x.phase = w.phase /\ x.seen = w.seen /\ x.ptr = w.ptr
      /\ x.scope = w.scope /\ x.vec = w.vec + 1 /\ x.index = 1
  <2>. DEFINE x == [w EXCEPT !.index = 1, !.vec = @ + 1]
              y == [w EXCEPT !.index = 1]
  <2>1. y \in Walks /\ y.vec = w.vec
    BY DEF Walks
  <2>2. [y EXCEPT !.vec = @ + 1] \in Walks
    <3>. HIDE DEF y
    <3>. QED BY <2>1 DEF Walks
  <2>3. x = [y EXCEPT !.vec = @ + 1]
    BY DEF Walks
  <2>4. /\ x.phase = w.phase /\ x.seen = w.seen /\ x.ptr = w.ptr
        /\ x.scope = w.scope /\ x.vec = w.vec + 1 /\ x.index = 1
    BY DEF Walks
  <2>. QED BY <2>2, <2>3, <2>4
<1>. QED BY <1>1, <1>2

(* What they make of it when they show the collector a cell for o. *)
LEMMA WalkShows ==
  ASSUME NEW w \in Walks, NEW o \in Objects
  PROVE  /\ LET x == [w EXCEPT !.ptr = @ + 1, !.seen = @ \cup {o}] IN
            /\ x \in Walks /\ x.phase = w.phase /\ x.seen = w.seen \cup {o} /\ x.ptr = w.ptr + 1
            /\ x.scope = w.scope /\ x.vec = w.vec /\ x.index = w.index
         /\ LET x == [w EXCEPT !.index = @ + 1, !.seen = @ \cup {o}] IN
            /\ x \in Walks /\ x.phase = w.phase /\ x.seen = w.seen \cup {o} /\ x.ptr = w.ptr
            /\ x.scope = w.scope /\ x.vec = w.vec /\ x.index = w.index + 1
<1>1. LET x == [w EXCEPT !.ptr = @ + 1, !.seen = @ \cup {o}] IN
      /\ x \in Walks /\ x.phase = w.phase /\ x.seen = w.seen \cup {o} /\ x.ptr = w.ptr + 1
      /\ x.scope = w.scope /\ x.vec = w.vec /\ x.index = w.index
  <2>. DEFINE x == [w EXCEPT !.ptr = @ + 1, !.seen = @ \cup {o}]
              y == [w EXCEPT !.ptr = @ + 1]
  <2>1. y \in Walks /\ y.seen = w.seen
    BY DEF Walks
  <2>2. [y EXCEPT !.seen = @ \cup {o}] \in Walks
    <3>. HIDE DEF y
    <3>. QED BY <2>1 DEF Walks
  <2>3. x = [y EXCEPT !.seen = @ \cup {o}]
    BY DEF Walks
  <2>4. /\ x.phase = w.phase /\ x.seen = w.seen \cup {o} /\ x.ptr = w.ptr + 1
        /\ x.scope = w.scope /\ x.vec = w.vec /\ x.index = w.index
    BY DEF Walks
  <2>. QED BY <2>2, <2>3, <2>4
<1>2. LET x == [w EXCEPT !.index = @ + 1, !.seen = @ \cup {o}] IN
      /\ x \in Walks /\ x.phase = w.phase /\ x.seen = w.seen \cup {o} /\ x.ptr = w.ptr
      /\ x.scope = w.scope /\ x.vec = w.vec /\ x.index = w.index + 1
  <2>. DEFINE x == [w EXCEPT !.index = @ + 1, !.seen = @ \cup {o}]
              y == [w EXCEPT !.index = @ + 1]
  <2>1. y \in Walks /\ y.seen = w.seen
    BY DEF Walks
  <2>2. [y EXCEPT !.seen = @ \cup {o}] \in Walks
    <3>. HIDE DEF y
    <3>. QED BY <2>1 DEF Walks
  <2>3. x = [y EXCEPT !.seen = @ \cup {o}]
    BY DEF Walks
  <2>4. /\ x.phase = w.phase /\ x.seen = w.seen \cup {o} /\ x.ptr = w.ptr
        /\ x.scope = w.scope /\ x.vec = w.vec /\ x.index = w.index + 1
    BY DEF Walks
  <2>. QED BY <2>2, <2>3, <2>4
<1>. QED BY <1>1, <1>2

(* A step of the walkers that is past the same slots and cells as before.  *)
LEMMA WalkStep ==
  ASSUME IInv, UNCHANGED <<heap, moves, rootVars, localVars>>, walk' \in Walks, WalkInv',
         \A i \in DOMAIN roots : MovedSlot(roots[i].handle)' <=> MovedSlot(roots[i].handle),
         \A s, n, i : IsCell(s, n, i) => (MovedCell(s, n, i)' <=> MovedCell(s, n, i)),
         walk # Idle => walk.seen \subseteq walk'.seen
  PROVE  IInv'
<1>1. TypeInv'
  BY DEF IInv, TypeInv, rootVars, localVars
<1>2. SlotInv'
  BY DEF IInv, SlotInv, FreeSlots, rootVars
<1>3. ScopeInv'
  BY DEF IInv, ScopeInv, localVars
<1>4. \A s, n, i : IsCell(s, n, i)' <=> IsCell(s, n, i)
  BY DEF IsCell, localVars
<1>5. CellInv'
  BY <1>4 DEF IInv, CellInv, localVars
<1>6. RootInv'
  <2>1. ASSUME NEW i \in DOMAIN roots
        PROVE  /\ roots[i].obj \in heap
               /\ Holds(ptrs[roots[i].handle], roots[i].obj, MovedSlot(roots[i].handle))
               /\ MovedSlot(roots[i].handle) => roots[i].obj \in walk.seen /\ walk # Idle
    BY DEF IInv, RootInv, MovedSlot
  <2>. QED BY <2>1 DEF RootInv, Holds, rootVars
<1>7. LocalInv'
  <2>1. ASSUME NEW l \in locals
        PROVE  /\ IsCell(l.scope, l.vec, l.index)
               /\ l.obj \in heap
               /\ Holds(ContentOf(scopes[l.scope], l.vec, l.index), l.obj,
                        MovedCell(l.scope, l.vec, l.index))
               /\ MovedCell(l.scope, l.vec, l.index) => l.obj \in walk.seen /\ walk # Idle
    BY DEF IInv, LocalInv, MovedCell
  <2>. QED BY <1>4, <2>1 DEF LocalInv, Holds, localVars
<1>. QED BY <1>1, <1>2, <1>3, <1>5, <1>6, <1>7 DEF IInv

(* The position of a cell, and what is known of one. *)
LEMMA CellPlace ==
  ASSUME TypeInv, NEW s, NEW n, NEW i, IsCell(s, n, i)
  PROVE  /\ s \in 1 .. Len(scopes) /\ n \in 1 .. Len(scopes[s].handles) + 1
         /\ Len(scopes) \in Nat /\ Len(scopes[s].handles) \in Nat
         /\ scopes[s] \in ScopeData
         /\ VecIn(scopes[s], n) \in Vecs /\ i \in 1 .. Len(VecIn(scopes[s], n).cells)
         /\ Len(VecIn(scopes[s], n).cells) \in Nat
         /\ Position(s, n) \in 0 .. Len(scopes[s].handles)
         /\ VecIn(scopes[s], n) = IF Position(s, n) = 0 THEN scopes[s].current
                                  ELSE scopes[s].handles[Position(s, n)]
         /\ n = IF Position(s, n) = 0 THEN Len(scopes[s].handles) + 1 ELSE Position(s, n)
<1>1. scopes \in Seq(ScopeData) /\ s \in DOMAIN scopes /\ CellIn(scopes[s], n, i)
  BY DEF TypeInv, IsCell
<1>2. /\ s \in 1 .. Len(scopes) /\ Len(scopes) \in Nat /\ scopes[s] \in ScopeData
  BY <1>1
<1>. DEFINE d == scopes[s]
            k == Len(d.handles)
<1>3. d.handles \in Seq(Vecs) /\ d.current \in Vecs /\ k \in Nat
  BY <1>2 DEF ScopeData
<1>4. n \in 1 .. k + 1 /\ i \in DOMAIN VecIn(d, n).cells
  BY <1>1 DEF CellIn
<1>5. VecIn(d, n) \in Vecs
  BY <1>3, <1>4 DEF VecIn
<1>6. /\ Len(VecIn(d, n).cells) \in Nat /\ i \in 1 .. Len(VecIn(d, n).cells)
  <2>1. VecIn(d, n).cells \in Seq(Cells)
    BY <1>5 DEF Vecs
  <2>. QED BY <1>4, <2>1
<1>7. /\ Position(s, n) \in 0 .. k
      /\ Position(s, n) = 0 <=> n = k + 1
      /\ Position(s, n) # 0 => Position(s, n) = n
  BY <1>3, <1>4 DEF Position
<1>. QED BY <1>2, <1>3, <1>4, <1>5, <1>6, <1>7 DEF VecIn

(* No Root has an object when every slot is free. *)
LEMMA GcKeeps ==
  ASSUME IInv, Gc
  PROVE  IInv'
<1>1. /\ walk = Idle /\ UNCHANGED <<heap, moves, rootVars, localVars>>
      /\ walk' = [phase |-> IF Len(ptrs) # Len(free) THEN "roots" ELSE "scopes",
                  ptr |-> 1, scope |-> 1, vec |-> 0, index |-> 1, seen |-> {}]
  BY DEF Gc
<1>2. walk' \in Walks /\ walk' # Idle
  <2>1. walk'.phase # "idle" /\ Idle.phase = "idle"
    BY <1>1 DEF Idle
  <2>. QED BY <1>1, <2>1 DEF Walks
<1>3. WalkInv'
  <2>1. /\ walk'.seen = {} /\ walk'.ptr = 1 /\ walk'.scope = 1 /\ walk'.index = 1 /\ walk'.vec = 0
    BY <1>1
  <2>. QED BY <2>1 DEF WalkInv
<1>4. ASSUME NEW i \in DOMAIN roots PROVE ~MovedSlot(roots[i].handle)'
  <2>1. Len(ptrs) # Len(free)
    <3>1. /\ Len(roots) + Len(free) = Len(ptrs)
          /\ Len(roots) \in Nat /\ Len(free) \in Nat /\ i \in 1 .. Len(roots)
      BY DEF IInv, TypeInv, SlotInv, FreeSlots
    <3>. QED BY <3>1
  <2>2. walk'.phase = "roots" /\ walk'.ptr = 1
    BY <1>1, <2>1
  <2>3. ptrs \in Seq(Cells \cup {Null}) /\ roots[i].handle \in DOMAIN ptrs /\ roots' = roots
    BY <1>1 DEF IInv, TypeInv, SlotInv, rootVars
  <2>4. roots[i].handle \in Nat /\ ~(roots[i].handle < 1)
    BY <2>3
  <2>. QED BY <2>2, <2>3, <2>4 DEF MovedSlot
<1>5. ASSUME NEW s, NEW n, NEW i, IsCell(s, n, i) PROVE ~MovedCell(s, n, i)'
  <2>1. /\ s \in Nat /\ s >= 1 /\ Position(s, n) \in Nat /\ i \in Nat /\ i >= 1
    BY <1>5, CellPlace DEF IInv
  <2>2. Position(s, n)' = Position(s, n)
    BY <1>1 DEF Position, localVars
  <2>3. walk'.scope = 1 /\ walk'.vec = 0 /\ walk'.index = 1
    BY <1>1
  <2>. QED BY <2>1, <2>2, <2>3 DEF MovedCell
<1>6. /\ \A i \in DOMAIN roots : ~MovedSlot(roots[i].handle)
      /\ \A s, n, i : ~MovedCell(s, n, i)
  BY <1>1 DEF MovedSlot, MovedCell
<1>. QED BY <1>1, <1>2, <1>3, <1>4, <1>5, <1>6, WalkStep

(* After the slots, the walk begins at the cells. *)
LEMMA EndRootsKeeps ==
  ASSUME IInv, EndRoots
  PROVE  IInv'
<1>1. /\ walk.phase = "roots" /\ walk.ptr > Len(ptrs)
      /\ walk' = [walk EXCEPT !.phase = "scopes"] /\ UNCHANGED <<heap, moves, rootVars, localVars>>
  BY DEF EndRoots
<1>2. walk \in Walks /\ walk # Idle
  BY <1>1 DEF IInv, TypeInv, Idle
<1>3. /\ walk' \in Walks /\ walk'.phase = "scopes" /\ walk'.seen = walk.seen /\ walk'.ptr = walk.ptr
      /\ walk'.scope = walk.scope /\ walk'.vec = walk.vec /\ walk'.index = walk.index
  BY <1>1, <1>2 DEF Walks
<1>4. walk' # Idle
  BY <1>3 DEF Idle
<1>5. walk.scope = 1 /\ walk.vec = 0 /\ walk.index = 1 /\ walk.ptr >= 1 /\ walk.seen \subseteq Held
  BY <1>1, <1>2 DEF IInv, WalkInv
<1>6. WalkInv'
  <2>1. Held' = Held
    BY <1>1 DEF Held, rootVars, localVars
  <2>. QED BY <1>3, <1>5, <2>1 DEF WalkInv
<1>7. ASSUME NEW i \in DOMAIN roots
      PROVE  MovedSlot(roots[i].handle)' /\ MovedSlot(roots[i].handle)
  <2>1. roots[i].handle \in 1 .. Len(ptrs) /\ Len(ptrs) \in Nat /\ walk.ptr \in Nat
    BY <1>2 DEF IInv, TypeInv, SlotInv, Walks
  <2>2. roots[i].handle < walk.ptr
    BY <1>1, <2>1
  <2>. QED BY <1>2, <1>3, <1>4, <2>2 DEF MovedSlot
<1>8. ASSUME NEW s, NEW n, NEW i, IsCell(s, n, i)
      PROVE  ~MovedCell(s, n, i)' /\ ~MovedCell(s, n, i)
  <2>1. /\ s \in Nat /\ s >= 1 /\ Position(s, n) \in Nat /\ i \in Nat /\ i >= 1
    BY <1>8, CellPlace DEF IInv
  <2>2. Position(s, n)' = Position(s, n)
    BY <1>1 DEF Position, localVars
  <2>. QED BY <1>1, <1>3, <1>5, <2>1, <2>2 DEF MovedCell
<1>. QED BY <1>1, <1>3, <1>6, <1>7, <1>8, WalkStep

(* The walk of the scopes is past the same cells when it turns to the next *)
(* scope or to the next vec.                                               *)
LEMMA NextVecKeeps ==
  ASSUME IInv, NextScope \/ NextVec
  PROVE  IInv'
<1>1. /\ walk.phase = "scopes" /\ walk.scope <= Len(scopes)
      /\ UNCHANGED <<heap, moves, rootVars, localVars>>
  BY DEF NextScope, NextVec, InVec, InScopes
<1>2. walk \in Walks /\ walk # Idle
  BY <1>1 DEF IInv, TypeInv, Idle
<1>3. /\ walk' \in Walks /\ walk'.phase = "scopes" /\ walk'.seen = walk.seen /\ walk'.ptr = walk.ptr
      /\ \/ /\ walk.vec > Len(scopes[walk.scope].handles)
            /\ walk'.scope = walk.scope + 1 /\ walk'.vec = 0 /\ walk'.index = walk.index
         \/ /\ walk.vec <= Len(scopes[walk.scope].handles) /\ walk.index > Len(AtVec.cells)
            /\ walk'.scope = walk.scope /\ walk'.vec = walk.vec + 1 /\ walk'.index = 1
  <2>1. CASE NextScope
    <3>1. /\ walk' = [walk EXCEPT !.vec = 0, !.scope = @ + 1]
          /\ walk.vec > Len(scopes[walk.scope].handles)
      BY <2>1 DEF NextScope
    <3>. QED BY <1>1, <1>2, <3>1, WalkTurns
  <2>2. CASE NextVec
    <3>1. /\ walk' = [walk EXCEPT !.index = 1, !.vec = @ + 1]
          /\ walk.vec <= Len(scopes[walk.scope].handles) /\ walk.index > Len(AtVec.cells)
      BY <2>2 DEF NextVec, InVec
    <3>. QED BY <1>1, <1>2, <3>1, WalkTurns
  <2>. QED BY <2>1, <2>2
<1>4. walk' # Idle
  BY <1>3 DEF Idle
<1>5. /\ walk.ptr >= 1 /\ walk.scope >= 1 /\ walk.index >= 1 /\ walk.seen \subseteq Held
      /\ walk.scope \in Nat /\ walk.vec \in Nat /\ walk.index \in Nat
  BY <1>2 DEF IInv, WalkInv, Walks
<1>6. scopes \in Seq(ScopeData) /\ walk.scope \in DOMAIN scopes /\ Len(scopes) \in Nat
  BY <1>1, <1>5 DEF IInv, TypeInv
<1>7. walk.vec > Len(scopes[walk.scope].handles) => walk.index = 1
  BY <1>1, <1>2, <1>6 DEF IInv, WalkInv
<1>8. walk'.index = 1
  BY <1>3, <1>7
<1>9. WalkInv'
  <2>1. Held' = Held
    BY <1>1 DEF Held, rootVars, localVars
  <2>2. walk'.scope >= 1
    BY <1>3, <1>5
  <2>. QED BY <1>3, <1>5, <1>8, <2>1, <2>2 DEF WalkInv
<1>10. ASSUME NEW i \in DOMAIN roots
       PROVE  MovedSlot(roots[i].handle)' /\ MovedSlot(roots[i].handle)
  BY <1>1, <1>2, <1>3, <1>4 DEF MovedSlot
<1>11. ASSUME NEW s, NEW n, NEW i, IsCell(s, n, i)
       PROVE  MovedCell(s, n, i)' <=> MovedCell(s, n, i)
  <2>. DEFINE p == Position(s, n)
              k == Len(scopes[s].handles)
  <2>1. /\ s \in Nat /\ s >= 1 /\ p \in 0 .. k /\ k \in Nat /\ i \in Nat /\ i >= 1
    BY <1>11, CellPlace DEF IInv
  <2>2. Position(s, n)' = p
    BY <1>1 DEF Position, localVars
  <2>3. s = walk.scope /\ p = walk.vec => i <= Len(AtVec.cells) /\ Len(AtVec.cells) \in Nat
    <3>1. i <= Len(VecIn(scopes[s], n).cells) /\ Len(VecIn(scopes[s], n).cells) \in Nat
      BY <1>11, CellPlace DEF IInv
    <3>2. s = walk.scope /\ p = walk.vec => VecIn(scopes[s], n) = AtVec
      BY <1>11, CellPlace DEF IInv, AtVec
    <3>. QED BY <3>1, <3>2
  <2>. HIDE DEF p, k
  <2>4. /\ MovedCell(s, n, i) <=> \/ s < walk.scope
                                  \/ s = walk.scope /\ (p < walk.vec \/ (p = walk.vec /\ i < walk.index))
        /\ MovedCell(s, n, i)' <=> \/ s < walk'.scope
                                   \/ s = walk'.scope /\ (p < walk'.vec \/ (p = walk'.vec /\ i < walk'.index))
    BY <1>1, <1>2, <1>3, <1>4, <2>2 DEF MovedCell, p
  <2>5. CASE walk.vec > Len(scopes[walk.scope].handles) /\ walk'.scope = walk.scope + 1 /\ walk'.vec = 0
    <3>1. s = walk.scope => k = Len(scopes[walk.scope].handles)
      BY DEF k
    <3>2. s = walk.scope => p < walk.vec
      BY <1>5, <2>1, <2>5, <3>1
    <3>. QED BY <1>5, <1>8, <2>1, <2>4, <2>5, <3>2
  <2>6. CASE walk.index > Len(AtVec.cells) /\ walk'.scope = walk.scope /\ walk'.vec = walk.vec + 1
    <3>1. s = walk.scope /\ p = walk.vec => i < walk.index
      BY <1>5, <2>1, <2>3, <2>6
    <3>. QED BY <1>5, <1>8, <2>1, <2>4, <2>6, <3>1
  <2>. QED BY <1>3, <2>5, <2>6
<1>. QED BY <1>1, <1>3, <1>9, <1>10, <1>11, WalkStep

(* Slot p holds the object's new address, and the others what they did. *)
LEMMA WalkRootsKeeps ==
  ASSUME IInv, WalkRoots
  PROVE  IInv'
<1>. DEFINE p == walk.ptr
            cell == ptrs[p]
            S == Cells \cup {Null}
<1>1. /\ walk.phase = "roots" /\ p <= Len(ptrs)
      /\ UNCHANGED <<heap, moves, free, roots, localVars>>
  BY DEF WalkRoots
<1>2. walk \in Walks /\ walk # Idle
  BY <1>1 DEF IInv, TypeInv, Idle
<1>3. /\ p \in Nat /\ p >= 1 /\ walk.scope = 1 /\ walk.vec = 0 /\ walk.index = 1 /\ walk.seen \subseteq Held
      /\ walk.seen \subseteq Objects
  BY <1>1, <1>2 DEF IInv, WalkInv, Walks
<1>4. /\ ptrs \in Seq(S) /\ DOMAIN ptrs = 1 .. Len(ptrs) /\ Len(ptrs) \in Nat /\ p \in DOMAIN ptrs
      /\ cell \in S /\ moves \in Nat
  BY <1>1, <1>3 DEF IInv, TypeInv
<1>5. /\ \A i \in DOMAIN roots : roots[i].handle \in DOMAIN ptrs /\ ptrs[roots[i].handle] # Null
      /\ \A h \in DOMAIN ptrs : ptrs[h] # Null => \E i \in DOMAIN roots : roots[i].handle = h
  BY DEF IInv, SlotInv
<1>6. /\ walk' \in Walks /\ walk'.phase = "roots" /\ walk'.ptr = p + 1
      /\ walk'.scope = 1 /\ walk'.vec = 0 /\ walk'.index = 1
      /\ IF cell = Null THEN walk'.seen = walk.seen /\ ptrs' = ptrs
         ELSE walk'.seen = walk.seen \cup {cell[1]} /\ ptrs' = [ptrs EXCEPT ![p] = Forward(cell)]
  <2>1. CASE cell = Null
    <3>1. walk' = [walk EXCEPT !.ptr = @ + 1] /\ ptrs' = ptrs
      BY <2>1 DEF WalkRoots
    <3>. QED BY <1>1, <1>2, <1>3, <2>1, <3>1 DEF Walks
  <2>2. CASE cell # Null
    <3>1. /\ walk' = [walk EXCEPT !.ptr = @ + 1, !.seen = @ \cup {cell[1]}]
          /\ ptrs' = [ptrs EXCEPT ![p] = Forward(cell)]
      BY <2>2 DEF WalkRoots
    <3>2. cell[1] \in Objects
      BY <1>4, <2>2 DEF Cells
    <3>. QED BY <1>1, <1>2, <1>3, <2>2, <3>1, <3>2, WalkShows
  <2>. QED BY <2>1, <2>2
<1>7. walk' # Idle
  BY <1>6 DEF Idle
<1>8. cell # Null => Forward(cell) \in Cells /\ Forward(cell) # Null
  <2>1. cell # Null => cell \in Cells
    BY <1>4
  <2>2. cell # Null => cell[1] \in Objects /\ cell[2] + 1 \in Nat
    BY <2>1 DEF Cells
  <2>. QED BY <2>2, CellNotNull DEF Forward
<1>9. /\ ptrs' \in Seq(S) /\ DOMAIN ptrs' = DOMAIN ptrs /\ Len(ptrs') = Len(ptrs)
      /\ \A h \in DOMAIN ptrs : ptrs'[h] = IF h = p /\ cell # Null THEN Forward(cell) ELSE ptrs[h]
  <2>1. CASE cell = Null
    BY <1>4, <1>6, <2>1
  <2>2. CASE cell # Null
    BY <1>4, <1>6, <1>8, <2>2, ExceptSeq
  <2>. QED BY <2>1, <2>2
<1>. HIDE DEF p, cell
<1>10. \A h \in DOMAIN ptrs : ptrs'[h] = Null <=> ptrs[h] = Null
  BY <1>8, <1>9 DEF cell
<1>11. TypeInv'
  BY <1>1, <1>6, <1>9 DEF IInv, TypeInv, localVars
<1>12. SlotInv'
  <2>1. {h \in DOMAIN ptrs' : ptrs'[h] = Null} = {h \in DOMAIN ptrs : ptrs[h] = Null}
    BY <1>9, <1>10
  <2>2. FreeSlots'
    BY <1>1, <1>9, <2>1 DEF IInv, SlotInv, FreeSlots
  <2>. QED BY <1>1, <1>5, <1>9, <1>10, <2>2 DEF SlotInv
<1>13. ScopeInv' /\ CellInv'
  <2>1. \A s, n, i : IsCell(s, n, i)' <=> IsCell(s, n, i)
    BY <1>1 DEF IsCell, localVars
  <2>. QED BY <1>1, <2>1 DEF IInv, ScopeInv, CellInv, localVars
<1>14. LocalInv'
  <2>1. \A s, n, i : ~MovedCell(s, n, i) /\ ~MovedCell(s, n, i)'
    BY <1>1, <1>6 DEF MovedCell
  <2>2. \A s, n, i : IsCell(s, n, i)' <=> IsCell(s, n, i)
    BY <1>1 DEF IsCell, localVars
  <2>. QED BY <1>1, <2>1, <2>2 DEF IInv, LocalInv, Holds, localVars
<1>15. \A i \in DOMAIN roots : roots[i].handle = p =>
         cell = <<roots[i].obj, moves>> /\ cell # Null /\ Forward(cell) = <<roots[i].obj, moves + 1>>
  <2>. SUFFICES ASSUME NEW i \in DOMAIN roots, roots[i].handle = p
                PROVE  cell = <<roots[i].obj, moves>> /\ cell # Null
                       /\ Forward(cell) = <<roots[i].obj, moves + 1>>
    OBVIOUS
  <2>1. ~MovedSlot(p)
    BY <1>1, <1>3 DEF MovedSlot, p
  <2>2. cell = <<roots[i].obj, moves>>
    BY <2>1 DEF IInv, RootInv, Holds, cell
  <2>. QED BY <1>5, <2>2 DEF Forward, cell
<1>16. \A h \in DOMAIN ptrs : MovedSlot(h)' <=> MovedSlot(h) \/ h = p
  <2>1. \A h \in DOMAIN ptrs : h < p + 1 <=> h < p \/ h = p
    BY <1>3, <1>4
  <2>. QED BY <1>1, <1>2, <1>6, <1>7, <2>1 DEF MovedSlot, p
<1>17. RootInv'
  <2>. SUFFICES ASSUME NEW i \in DOMAIN roots
                PROVE  \A h \in DOMAIN ptrs : h = roots[i].handle =>
                         /\ roots[i].obj \in heap
                         /\ MovedSlot(h)' =>
                              ptrs'[h] = <<roots[i].obj, moves + 1>> /\ roots[i].obj \in walk'.seen
                         /\ ~MovedSlot(h)' => ptrs'[h] = <<roots[i].obj, moves>>
    BY <1>1, <1>5 DEF RootInv, Holds
  <2>. TAKE h \in DOMAIN ptrs
  <2>. HAVE h = roots[i].handle
  <2>2. /\ roots[i].obj \in heap
        /\ MovedSlot(h) => ptrs[h] = <<roots[i].obj, moves + 1>> /\ roots[i].obj \in walk.seen
        /\ ~MovedSlot(h) => ptrs[h] = <<roots[i].obj, moves>>
    BY DEF IInv, RootInv, Holds
  <2>3. CASE h = p
    <3>1. /\ cell = <<roots[i].obj, moves>> /\ cell # Null
          /\ Forward(cell) = <<roots[i].obj, moves + 1>>
      BY <1>15, <2>3
    <3>2. ptrs'[h] = Forward(cell) /\ roots[i].obj \in walk'.seen
      BY <1>6, <1>9, <2>3, <3>1
    <3>. QED BY <1>16, <2>2, <2>3, <3>1, <3>2
  <2>4. CASE h # p
    <3>1. ptrs'[h] = ptrs[h] /\ (MovedSlot(h)' <=> MovedSlot(h))
      BY <1>9, <1>16, <2>4
    <3>2. walk.seen \subseteq walk'.seen
      BY <1>6
    <3>. QED BY <2>2, <3>1, <3>2
  <2>. QED BY <2>3, <2>4
<1>18. WalkInv'
  <2>1. Held' = Held
    BY <1>1 DEF Held, localVars
  <2>2. walk'.seen \subseteq Held
    <3>1. CASE cell = Null
      BY <1>3, <1>6, <3>1
    <3>2. CASE cell # Null
      <4>1. PICK i \in DOMAIN roots : roots[i].handle = p
        BY <1>4, <1>5, <3>2 DEF cell
      <4>2. cell[1] = roots[i].obj
        BY <1>15, <4>1
      <4>. QED BY <1>3, <1>6, <3>2, <4>2 DEF Held
    <3>. QED BY <3>1, <3>2
  <2>. QED BY <1>3, <1>6, <2>1, <2>2 DEF WalkInv
<1>. QED BY <1>11, <1>12, <1>13, <1>14, <1>17, <1>18 DEF IInv

(* The scope d with c in cell i of the vec at position p. *)
VecAt(d, p) == IF p = 0 THEN d.current ELSE d.handles[p]
NumberAt(d, p) == IF p = 0 THEN Len(d.handles) + 1 ELSE p
WithCellAt(d, p, i, c) ==
  LET v == [VecAt(d, p) EXCEPT !.cells[i] = c] IN
  IF p = 0 THEN [d EXCEPT !.current = v] ELSE [d EXCEPT !.handles[p] = v]

(* To show a cell to the collector changes what this cell holds, and that  *)
(* only.                                                                   *)
LEMMA CellShown ==
  ASSUME NEW d \in ScopeData, WellNumbered(d), NEW c \in Cells,
         NEW p \in 0 .. Len(d.handles), NEW i \in DOMAIN VecAt(d, p).cells
  PROVE  LET e == WithCellAt(d, p, i, c)
             n == NumberAt(d, p)
         IN /\ e \in ScopeData /\ WellNumbered(e) /\ Len(e.handles) = Len(d.handles)
            /\ \A m, j : CellIn(e, m, j) <=> CellIn(d, m, j)
            /\ \A m, j : CellIn(d, m, j) /\ ~(m = n /\ j = i) => ContentOf(e, m, j) = ContentOf(d, m, j)
            /\ CellIn(d, n, i) /\ ContentOf(e, n, i) = c
<1>. DEFINE e == WithCellAt(d, p, i, c)
            n == NumberAt(d, p)
            k == Len(d.handles)
            at == VecAt(d, p)
            q == [at.cells EXCEPT ![i] = c]
            v == [at EXCEPT !.cells = q]
            hs == [d.handles EXCEPT ![p] = v]
<1>1. /\ d.current \in Vecs /\ d.handles \in Seq(Vecs) /\ DOMAIN d.handles = 1 .. k /\ k \in Nat
      /\ d.current.id = k + 1 /\ \A j \in 1 .. k : d.handles[j].id = j
  BY DEF ScopeData, WellNumbered
<1>2. /\ at \in Vecs /\ at.id = n /\ n \in 1 .. k + 1 /\ (p = 0 <=> n = k + 1) /\ (p # 0 => n = p)
      /\ p # 0 => p \in 1 .. k
  BY <1>1 DEF VecAt, NumberAt
<1>. HIDE DEF at
<1>3. at.cells \in Seq(Cells) /\ i \in 1 .. Len(at.cells)
  <2>1. at.cells \in Seq(Cells)
    BY <1>2 DEF Vecs
  <2>. QED BY <2>1 DEF at
<1>4. q \in Seq(Cells) /\ DOMAIN q = DOMAIN at.cells /\ q[i] = c
      /\ \A j \in DOMAIN at.cells : j # i => q[j] = at.cells[j]
  <2>1. DOMAIN q = DOMAIN at.cells
    OBVIOUS
  <2>. QED BY <1>3, <2>1, ExceptSeq
<1>. HIDE DEF q
<1>5. v \in Vecs /\ v.id = at.id /\ v.cells = q
  BY <1>2, <1>4 DEF Vecs
<1>. HIDE DEF v
<1>6. e = IF p = 0 THEN [d EXCEPT !.current = v] ELSE [d EXCEPT !.handles = hs]
  BY DEF WithCellAt, v, q, at
<1>7. p # 0 => /\ hs \in Seq(Vecs) /\ Len(hs) = k
               /\ \A j \in 1 .. k : hs[j] = IF j = p THEN v ELSE d.handles[j]
  BY <1>1, <1>2, <1>5, ExceptSeq
<1>. HIDE DEF hs, n
<1>8. /\ e \in ScopeData
      /\ e.current = (IF p = 0 THEN v ELSE d.current)
      /\ e.handles = (IF p = 0 THEN d.handles ELSE hs)
  BY <1>1, <1>5, <1>6, <1>7 DEF ScopeData
<1>. HIDE DEF e
<1>9. Len(e.handles) = k
  BY <1>7, <1>8
<1>10. WellNumbered(e)
  <2>1. e.current.id = k + 1
    BY <1>1, <1>2, <1>5, <1>8
  <2>2. DOMAIN e.handles = 1 .. k
    BY <1>9, <1>8 DEF ScopeData
  <2>3. \A j \in 1 .. k : e.handles[j].id = j
    BY <1>1, <1>2, <1>5, <1>7, <1>8
  <2>. QED BY <1>9, <2>1, <2>2, <2>3 DEF WellNumbered
<1>11. VecIn(e, n) = v /\ VecIn(d, n) = at
  <2>1. CASE p = 0
    BY <1>2, <1>8, <1>9, <2>1 DEF VecIn, VecAt, at
  <2>2. CASE p # 0
    <3>1. n = p /\ n # k + 1 /\ p \in 1 .. k
      BY <1>2, <2>2
    <3>. QED BY <1>7, <1>8, <1>9, <2>2, <3>1 DEF VecIn, VecAt, at
  <2>. QED BY <2>1, <2>2
<1>12. ASSUME NEW m \in 1 .. k + 1, m # n PROVE VecIn(e, m) = VecIn(d, m)
  <2>1. CASE p = 0
    <3>1. m # k + 1
      BY <1>2, <1>12, <2>1
    <3>. QED BY <1>8, <1>9, <2>1, <3>1 DEF VecIn
  <2>2. CASE p # 0
    <3>1. CASE m = k + 1
      BY <1>8, <1>9, <2>2, <3>1 DEF VecIn
    <3>2. CASE m # k + 1
      <4>1. m \in 1 .. k /\ m # p
        BY <1>1, <1>2, <1>12, <2>2, <3>2
      <4>. QED BY <1>7, <1>8, <1>9, <2>2, <3>2, <4>1 DEF VecIn
    <3>. QED BY <3>1, <3>2
  <2>. QED BY <2>1, <2>2
<1>13. \A m, j : CellIn(e, m, j) <=> CellIn(d, m, j)
  BY <1>4, <1>5, <1>9, <1>11, <1>12 DEF CellIn
<1>14. \A m, j : CellIn(d, m, j) /\ ~(m = n /\ j = i) => ContentOf(e, m, j) = ContentOf(d, m, j)
  BY <1>4, <1>5, <1>11, <1>12 DEF CellIn, ContentOf
<1>15. CellIn(d, n, i) /\ ContentOf(e, n, i) = c
  <2>1. i \in DOMAIN at.cells
    BY DEF at
  <2>. QED BY <1>2, <1>4, <1>5, <1>11, <2>1 DEF CellIn, ContentOf
<1>. QED BY <1>8, <1>9, <1>10, <1>13, <1>14, <1>15 DEF e, n

(* The walker is past one cell more, which holds the new address. *)
LEMMA WalkLocalsKeeps ==
  ASSUME IInv, WalkLocals
  PROVE  IInv'
<1>. DEFINE g == walk.scope
            p == walk.vec
            i == walk.index
            d == scopes[g]
            n == NumberAt(d, p)
            cell == VecAt(d, p).cells[i]
            e == WithCellAt(d, p, i, Forward(cell))
<1>1. /\ walk.phase = "scopes" /\ g <= Len(scopes) /\ p <= Len(d.handles)
      /\ i <= Len(VecAt(d, p).cells)
      /\ UNCHANGED <<heap, moves, rootVars, locals>>
  BY DEF WalkLocals, InVec, InScopes, AtVec, VecAt
<1>2. walk \in Walks /\ walk # Idle
  BY <1>1 DEF IInv, TypeInv, Idle
<1>3. /\ g \in Nat /\ g >= 1 /\ p \in Nat /\ i \in Nat /\ i >= 1 /\ walk.ptr >= 1
      /\ walk.seen \subseteq Held /\ walk.seen \subseteq Objects
  BY <1>2 DEF IInv, WalkInv, Walks
<1>4. /\ scopes \in Seq(ScopeData) /\ DOMAIN scopes = 1 .. Len(scopes) /\ Len(scopes) \in Nat
      /\ g \in DOMAIN scopes /\ d \in ScopeData /\ WellNumbered(d) /\ moves \in Nat
  BY <1>1, <1>3 DEF IInv, TypeInv, ScopeInv
<1>5. p \in 0 .. Len(d.handles) /\ Len(d.handles) \in Nat
  BY <1>1, <1>3, <1>4 DEF ScopeData
<1>6. VecAt(d, p) \in Vecs
  BY <1>4, <1>5 DEF VecAt, ScopeData
<1>7. i \in DOMAIN VecAt(d, p).cells /\ cell \in Cells
  <2>1. VecAt(d, p).cells \in Seq(Cells)
    BY <1>6 DEF Vecs
  <2>. HIDE DEF p, d
  <2>2. i \in 1 .. Len(VecAt(d, p).cells)
    BY <1>1, <1>3, <2>1
  <2>. QED BY <2>1, <2>2
<1>8. Forward(cell) \in Cells /\ cell[1] \in Objects
  BY <1>7 DEF Cells, Forward
<1>9. /\ e \in ScopeData /\ WellNumbered(e) /\ Len(e.handles) = Len(d.handles)
      /\ \A m, j : CellIn(e, m, j) <=> CellIn(d, m, j)
      /\ \A m, j : CellIn(d, m, j) /\ ~(m = n /\ j = i) => ContentOf(e, m, j) = ContentOf(d, m, j)
      /\ CellIn(d, n, i) /\ ContentOf(e, n, i) = Forward(cell)
  BY <1>4, <1>5, <1>7, <1>8, CellShown
<1>10. ContentOf(d, n, i) = cell
  BY <1>5 DEF ContentOf, VecIn, VecAt, NumberAt
<1>11. scopes' = [scopes EXCEPT ![g] = e]
  BY DEF WalkLocals, AtVec, VecAt, WithCellAt
<1>12. /\ walk' \in Walks /\ walk'.phase = "scopes" /\ walk'.seen = walk.seen \cup {cell[1]}
       /\ walk'.ptr = walk.ptr /\ walk'.scope = g /\ walk'.vec = p /\ walk'.index = i + 1
  <2>1. walk' = [walk EXCEPT !.index = @ + 1, !.seen = @ \cup {cell[1]}]
    BY DEF WalkLocals, AtVec, VecAt
  <2>. HIDE DEF cell
  <2>. QED BY <1>1, <1>2, <1>8, <2>1, WalkShows
<1>13. walk' # Idle
  BY <1>12 DEF Idle
<1>. HIDE DEF e, n, cell, d
<1>14. /\ scopes' \in Seq(ScopeData) /\ DOMAIN scopes' = DOMAIN scopes
       /\ scopes'[g] = e /\ \A s \in DOMAIN scopes : s # g => scopes'[s] = scopes[s]
  <2>. DEFINE q == [scopes EXCEPT ![g] = e]
  <2>1. /\ q \in Seq(ScopeData) /\ Len(q) = Len(scopes)
        /\ \A s \in 1 .. Len(scopes) : q[s] = IF s = g THEN e ELSE scopes[s]
    BY <1>4, <1>9, ExceptSeq
  <2>. QED BY <1>4, <1>11, <2>1
<1>15. /\ \A s, m, j : IsCell(s, m, j)' <=> IsCell(s, m, j)
       /\ \A s, m, j : IsCell(s, m, j) /\ ~(s = g /\ m = n /\ j = i)
            => ContentOf(scopes'[s], m, j) = ContentOf(scopes[s], m, j)
       /\ IsCell(g, n, i) /\ ContentOf(scopes'[g], n, i) = Forward(cell)
       /\ ContentOf(scopes[g], n, i) = cell
  <2>1. scopes[g] = d
    BY DEF d
  <2>2. ASSUME NEW s, NEW m, NEW j
        PROVE  /\ IsCell(s, m, j)' <=> IsCell(s, m, j)
               /\ IsCell(s, m, j) /\ ~(s = g /\ m = n /\ j = i)
                    => ContentOf(scopes'[s], m, j) = ContentOf(scopes[s], m, j)
    <3>1. CASE s = g
      BY <1>4, <1>9, <1>14, <2>1, <3>1 DEF IsCell
    <3>2. CASE s # g
      BY <1>14, <3>2 DEF IsCell
    <3>. QED BY <3>1, <3>2
  <2>3. IsCell(g, n, i)
    BY <1>4, <1>9, <2>1 DEF IsCell
  <2>4. ContentOf(scopes'[g], n, i) = Forward(cell) /\ ContentOf(scopes[g], n, i) = cell
    BY <1>9, <1>10, <1>14, <2>1
  <2>. QED BY <2>2, <2>3, <2>4
<1>16. ASSUME NEW s, NEW m, NEW j, IsCell(s, m, j)
       PROVE  MovedCell(s, m, j)' <=> MovedCell(s, m, j) \/ (s = g /\ m = n /\ j = i)
  <2>1. /\ s \in Nat /\ Position(s, m) \in 0 .. Len(scopes[s].handles) /\ j \in Nat
        /\ Len(scopes[s].handles) \in Nat
        /\ m = IF Position(s, m) = 0 THEN Len(scopes[s].handles) + 1 ELSE Position(s, m)
    BY <1>16, CellPlace DEF IInv
  <2>2. Position(s, m)' = Position(s, m)
    <3>1. s \in DOMAIN scopes
      BY <1>16 DEF IsCell
    <3>2. Len(scopes'[s].handles) = Len(scopes[s].handles)
      BY <1>9, <1>14, <3>1 DEF d
    <3>. QED BY <3>2 DEF Position
  <2>3. s = g => (m = n <=> Position(s, m) = p)
    BY <1>5, <2>1 DEF NumberAt, n, d
  <2>4. /\ MovedCell(s, m, j) <=> \/ s < g
                                  \/ s = g /\ (Position(s, m) < p \/ (Position(s, m) = p /\ j < i))
        /\ MovedCell(s, m, j)' <=> \/ s < g
                                   \/ s = g /\ (Position(s, m) < p \/ (Position(s, m) = p /\ j < i + 1))
    BY <1>1, <1>2, <1>12, <1>13, <2>2 DEF MovedCell
  <2>5. j < i + 1 <=> j < i \/ j = i
    BY <1>3, <2>1
  <2>. QED BY <2>3, <2>4, <2>5
<1>17. PICK l0 \in locals : l0.scope = g /\ l0.vec = n /\ l0.index = i
  <2>1. n \in Nat
    BY <1>5 DEF NumberAt, n
  <2>. QED BY <1>3, <1>15, <2>1 DEF IInv, CellInv
<1>18. /\ ~MovedCell(g, n, i)
       /\ \A l \in locals : l.scope = g /\ l.vec = n /\ l.index = i => cell = <<l.obj, moves>>
  <2>1. ~MovedCell(g, n, i)
    <3>1. Position(g, n) = p
      BY <1>5 DEF Position, NumberAt, n, d
    <3>. QED BY <1>3, <3>1 DEF MovedCell
  <2>2. ASSUME NEW l \in locals, l.scope = g, l.vec = n, l.index = i PROVE cell = <<l.obj, moves>>
    BY <1>15, <2>1, <2>2 DEF IInv, LocalInv, Holds
  <2>. QED BY <2>1, <2>2
<1>19. TypeInv'
  BY <1>1, <1>12, <1>14 DEF IInv, TypeInv, rootVars
<1>20. SlotInv'
  BY <1>1 DEF IInv, SlotInv, FreeSlots, rootVars
<1>21. RootInv'
  <2>1. \A h : MovedSlot(h) /\ MovedSlot(h)'
    BY <1>1, <1>2, <1>12, <1>13 DEF MovedSlot
  <2>. QED BY <1>1, <1>12, <2>1 DEF IInv, RootInv, Holds, rootVars
<1>22. ScopeInv'
  BY <1>9, <1>14 DEF IInv, ScopeInv
<1>23. CellInv'
  BY <1>1, <1>15 DEF IInv, CellInv
<1>24. LocalInv'
  <2>1. ASSUME NEW l \in locals
        PROVE  /\ IsCell(l.scope, l.vec, l.index)' /\ l.obj \in heap
               /\ MovedCell(l.scope, l.vec, l.index)' =>
                    /\ ContentOf(scopes'[l.scope], l.vec, l.index) = <<l.obj, moves + 1>>
                    /\ l.obj \in walk'.seen
               /\ ~MovedCell(l.scope, l.vec, l.index)' =>
                    ContentOf(scopes'[l.scope], l.vec, l.index) = <<l.obj, moves>>
    <3>1. /\ IsCell(l.scope, l.vec, l.index) /\ l.obj \in heap
          /\ MovedCell(l.scope, l.vec, l.index) =>
               /\ ContentOf(scopes[l.scope], l.vec, l.index) = <<l.obj, moves + 1>>
               /\ l.obj \in walk.seen
          /\ ~MovedCell(l.scope, l.vec, l.index) =>
               ContentOf(scopes[l.scope], l.vec, l.index) = <<l.obj, moves>>
      BY DEF IInv, LocalInv, Holds
    <3>2. CASE l.scope = g /\ l.vec = n /\ l.index = i
      <4>1. cell = <<l.obj, moves>>
        BY <1>18, <3>2
      <4>2. Forward(cell) = <<l.obj, moves + 1>> /\ cell[1] = l.obj
        BY <4>1 DEF Forward
      <4>3. MovedCell(l.scope, l.vec, l.index)'
        BY <1>16, <3>1, <3>2
      <4>4. ContentOf(scopes'[l.scope], l.vec, l.index) = Forward(cell)
        BY <1>15, <3>2
      <4>. QED BY <1>12, <1>15, <3>1, <4>2, <4>3, <4>4
    <3>3. CASE ~(l.scope = g /\ l.vec = n /\ l.index = i)
      <4>1. /\ ContentOf(scopes'[l.scope], l.vec, l.index) = ContentOf(scopes[l.scope], l.vec, l.index)
            /\ MovedCell(l.scope, l.vec, l.index)' <=> MovedCell(l.scope, l.vec, l.index)
        BY <1>15, <1>16, <3>1, <3>3
      <4>. QED BY <1>12, <1>15, <3>1, <4>1
    <3>. QED BY <3>2, <3>3
  <2>. QED BY <1>1, <2>1 DEF LocalInv, Holds
<1>25. WalkInv'
  <2>1. Held' = Held
    BY <1>1 DEF Held, rootVars
  <2>2. cell[1] = l0.obj
    BY <1>17, <1>18
  <2>3. walk'.seen \subseteq Held
    BY <1>3, <1>12, <1>17, <2>2 DEF Held
  <2>4. ~(walk'.vec > Len(scopes'[walk'.scope].handles))
    <3>1. Len(scopes'[g].handles) = Len(d.handles)
      BY <1>9, <1>14
    <3>. QED BY <1>5, <1>12, <3>1
  <2>5. walk'.index >= 1
    BY <1>3, <1>12
  <2>. QED BY <1>3, <1>12, <2>1, <2>3, <2>4, <2>5 DEF WalkInv
<1>. QED BY <1>19, <1>20, <1>21, <1>22, <1>23, <1>24, <1>25 DEF IInv

(* At the end of the walk every slot and every cell was shown. *)
LEMMA WalkEnds ==
  ASSUME IInv, walk.phase = "scopes", walk.scope > Len(scopes)
  PROVE  /\ \A h : MovedSlot(h)
         /\ \A s, n, i : IsCell(s, n, i) => MovedCell(s, n, i)
         /\ walk.seen = Held
<1>1. walk \in Walks /\ walk # Idle
  BY DEF IInv, TypeInv, Idle
<1>2. \A h : MovedSlot(h)
  BY <1>1 DEF MovedSlot
<1>3. ASSUME NEW s, NEW n, NEW i, IsCell(s, n, i) PROVE MovedCell(s, n, i)
  <2>1. s \in 1 .. Len(scopes) /\ Len(scopes) \in Nat
    BY <1>3, CellPlace DEF IInv
  <2>2. walk.scope \in Nat
    BY <1>1 DEF Walks
  <2>3. s < walk.scope
    BY <2>1, <2>2
  <2>. QED BY <1>1, <2>3 DEF MovedCell
<1>4. walk.seen \subseteq Held
  BY <1>1 DEF IInv, WalkInv
<1>5. Held \subseteq walk.seen
  <2>1. \A r \in DOMAIN roots : roots[r].obj \in walk.seen
    BY <1>2 DEF IInv, RootInv
  <2>2. \A l \in locals : l.obj \in walk.seen
    BY <1>3 DEF IInv, LocalInv
  <2>. QED BY <2>1, <2>2 DEF Held
<1>. QED BY <1>2, <1>3, <1>4, <1>5

(* After a collection all handles hold the new addresses. *)
LEMMA EndGcKeeps ==
  ASSUME IInv, EndGc
  PROVE  IInv' /\ heap' = Held
<1>1. /\ walk.phase = "scopes" /\ walk.scope > Len(scopes)
      /\ heap' = walk.seen /\ moves' = moves + 1 /\ walk' = Idle
      /\ UNCHANGED <<rootVars, localVars>>
  BY DEF EndGc
<1>2. /\ \A h : MovedSlot(h)
      /\ \A s, n, i : IsCell(s, n, i) => MovedCell(s, n, i)
      /\ walk.seen = Held
  BY <1>1, WalkEnds
<1>3. TypeInv'
  <2>1. walk \in Walks
    BY <1>1 DEF IInv, TypeInv, Idle
  <2>. QED BY <1>1, <2>1 DEF IInv, TypeInv, rootVars, localVars, Walks
<1>4. SlotInv'
  BY <1>1 DEF IInv, SlotInv, FreeSlots, rootVars
<1>5. RootInv'
  <2>1. \A h : ~MovedSlot(h)'
    BY <1>1 DEF MovedSlot
  <2>2. ASSUME NEW i \in DOMAIN roots
        PROVE  roots[i].obj \in walk.seen /\ ptrs[roots[i].handle] = <<roots[i].obj, moves + 1>>
    BY <1>2 DEF IInv, RootInv, Holds
  <2>. QED BY <1>1, <2>1, <2>2 DEF RootInv, Holds, rootVars
<1>6. ScopeInv' /\ CellInv'
  <2>1. \A s, n, i : IsCell(s, n, i)' <=> IsCell(s, n, i)
    BY <1>1 DEF IsCell, localVars
  <2>. QED BY <1>1, <2>1 DEF IInv, ScopeInv, CellInv, localVars
<1>7. LocalInv'
  <2>1. \A s, n, i : ~MovedCell(s, n, i)'
    BY <1>1 DEF MovedCell
  <2>2. ASSUME NEW l \in locals
        PROVE  /\ IsCell(l.scope, l.vec, l.index) /\ l.obj \in walk.seen
               /\ ContentOf(scopes[l.scope], l.vec, l.index) = <<l.obj, moves + 1>>
    BY <1>2 DEF IInv, LocalInv, Holds
  <2>3. \A s, n, i : IsCell(s, n, i)' <=> IsCell(s, n, i)
    BY <1>1 DEF IsCell, localVars
  <2>. QED BY <1>1, <2>1, <2>2, <2>3 DEF LocalInv, Holds, localVars
<1>8. WalkInv'
  BY <1>1 DEF WalkInv
<1>. QED BY <1>1, <1>2, <1>3, <1>4, <1>5, <1>6, <1>7, <1>8 DEF IInv

-----------------------------------------------------------------------------
(* The program starts with no handle. *)
LEMMA InitHolds == Init => IInv
<1>. SUFFICES ASSUME Init PROVE IInv
  OBVIOUS
<1>1. /\ heap = {} /\ moves = 0 /\ ptrs = <<>> /\ free = <<>> /\ roots = <<>>
      /\ scopes = <<>> /\ locals = {} /\ walk = Idle
  BY DEF Init
<1>2. /\ Len(ptrs) = 0 /\ Len(free) = 0 /\ Len(roots) = 0
      /\ DOMAIN ptrs = {} /\ DOMAIN free = {} /\ DOMAIN roots = {} /\ DOMAIN scopes = {}
  BY <1>1
<1>3. TypeInv
  BY <1>1, EmptySeq DEF TypeInv
<1>4. SlotInv
  BY <1>2 DEF SlotInv, FreeSlots
<1>5. RootInv /\ ScopeInv /\ LocalInv /\ CellInv /\ WalkInv
  BY <1>1, <1>2 DEF RootInv, ScopeInv, LocalInv, CellInv, IsCell, WalkInv
<1>. QED BY <1>3, <1>4, <1>5 DEF IInv

(* Every step of the program and of a collection keeps the invariant. *)
LEMMA StepKeeps ==
  ASSUME IInv, [Next]_vars
  PROVE  IInv'
<1>1. CASE Next
  BY <1>1, NewHandleKeeps, DropRootKeeps, NewLocalScopeKeeps, DropCurrentScopeKeeps, GcKeeps,
     WalkRootsKeeps, EndRootsKeeps, NextVecKeeps, WalkLocalsKeeps, EndGcKeeps DEF Next, Walking
<1>2. CASE UNCHANGED vars
  <2>1. UNCHANGED <<heap, moves, ptrs, free, roots, scopes, locals, walk>>
    BY <1>2 DEF vars, rootVars, localVars
  <2>2. TypeInv' /\ SlotInv' /\ RootInv' /\ ScopeInv'
    BY <2>1 DEF IInv, TypeInv, SlotInv, FreeSlots, RootInv, Holds, MovedSlot, ScopeInv
  <2>3. LocalInv' /\ CellInv'
    BY <2>1 DEF IInv, LocalInv, Holds, CellInv, IsCell, MovedCell, Position
  <2>4. WalkInv'
    BY <2>1 DEF IInv, WalkInv, Held
  <2>. QED BY <2>2, <2>3, <2>4 DEF IInv
<1>. QED BY <1>1, <1>2

(* The inductive invariant, for any number of handles, scopes, objects and *)
(* collections.                                                            *)
THEOREM InvariantHolds == Spec => []IInv
BY InitHolds, StepKeeps, PTL DEF Spec

(* RootHandles counts its free slots well: Gc may skip the slots when there *)
(* are as many of them as of free ones.                                     *)
THEOREM SlotsFree == Spec => []FreeSlots
<1>1. IInv => FreeSlots
  BY DEF IInv, SlotInv
<1>. QED BY <1>1, InvariantHolds, PTL

(* Through reuse of slots, growth of scopes and collections, a handle leads *)
(* to its object at its present address.                                    *)
THEOREM HandlesDenote == Spec => []Denotes
<1>1. IInv => Denotes
  BY HandleLeads DEF Denotes
<1>. QED BY <1>1, InvariantHolds, PTL

(* Only EndGc ends a walk, and it has then seen what the handles hold. *)
LEMMA OnlyHeldIsKept ==
  ASSUME IInv, [Next]_vars, walk # Idle, walk' = Idle
  PROVE  heap' = Held
<1>1. walk \in Walks
  BY DEF IInv, TypeInv
<1>2. CASE EndGc
  BY <1>2, EndGcKeeps
<1>3. CASE WalkRoots \/ EndRoots \/ NextScope \/ NextVec \/ WalkLocals
  <2>1. IInv'
    BY StepKeeps
  <2>2. walk'.phase \in {"roots", "scopes"}
    BY <1>1, <1>3 DEF WalkRoots, EndRoots, NextScope, NextVec, WalkLocals, Walks
  <2>. QED BY <2>2 DEF Idle
<1>4. CASE UNCHANGED vars
  BY <1>4 DEF vars
<1>. QED
  BY <1>2, <1>3, <1>4 DEF Next, Walking, CloneRoot, DropRoot, NewLocalScope, DropCurrentScope,
     AllocRoot, AllocLocal, LocalFromRoot, RootFromLocal, CanRoot, CanLocal, Gc

(* A collection keeps what a Root or a Local denotes, and nothing else. *)
THEOREM CollectsTheRest == Spec => FreesTheRest
<1>1. ASSUME IInv, [Next]_vars
      PROVE  [walk # Idle /\ walk' = Idle => heap' = Held]_vars
  BY <1>1, OnlyHeldIsKept
<1>. QED BY <1>1, InvariantHolds, PTL DEF Spec, FreesTheRest
=============================================================================

--------------------------- MODULE CopyingProofs ---------------------------
(***************************************************************************)
(* Proofs about the copying collector, for every set of cells and types    *)
(* and every sizing of the heap: it is well typed and leaves nothing       *)
(* dangling; it copies and finalises a block once and never writes past    *)
(* the space it sized beforehand; and it is invisible, that is, it         *)
(* implements ObjectGraph.                                                 *)
(***************************************************************************)
EXTENDS Copying, SequenceTheorems, TLAPS

(* What the collector's own variables look like in each phase.             *)
PhaseInv ==
  /\ ~Collecting => copies = << >> /\ forward = << >>
  /\ Collecting => Len(forward) = Len(blocks) /\ toSize # 0
  /\ phase = "roots" => scan = 1 /\ word = 1
  /\ phase \in {"scan", "finalize"} => todo = {}
  /\ phase = "finalize" => scan > Len(copies)

(* A forwarding address is that of a copy. *)
ForwardInv == \A b \in 1 .. Len(forward) : forward[b] <= Len(copies)

(* The inductive invariant.  NoDangling alone is not inductive: that a     *)
(* forwarding address is that of a copy, and that in the last phase every  *)
(* copy is scanned and every root forwarded, is what makes Swap safe.      *)
IInv == TypeOK /\ PhaseInv /\ ForwardInv /\ NoDangling

-----------------------------------------------------------------------------
(* Growing the set of ids keeps sequences of blocks well typed. *)
LEMMA BlocksGrow ==
  ASSUME NEW n \in Nat, NEW m \in Nat, n <= m,
         NEW s \in Seq(BlockOf(n))
  PROVE  s \in Seq(BlockOf(m))
<1>1. BlockOf(n) \subseteq BlockOf(m)
  BY DEF BlockOf
<1>. QED BY <1>1, SeqMonotonic

(* r is s with word w of block k overwritten by v. *)
WrittenWord(n, s, k, w, v, r) ==
  /\ r \in Seq(BlockOf(n))
  /\ Len(r) = Len(s)
  /\ \A j \in 1 .. Len(s) : j # k => r[j] = s[j]
  /\ r[k].ty = s[k].ty /\ r[k].id = s[k].id
  /\ Len(r[k].ptrs) = Len(s[k].ptrs)
  /\ \A i \in 1 .. Len(s[k].ptrs) :
       r[k].ptrs[i] = IF i = w THEN v ELSE s[k].ptrs[i]

(* Writing a pointer word of a block changes that word and nothing else. *)
LEMMA WriteWord ==
  ASSUME NEW n \in Nat,
         NEW s \in Seq(BlockOf(n)),
         NEW k \in 1 .. Len(s), NEW w \in 1 .. Len(s[k].ptrs), NEW v \in Nat,
         NEW r, r = SetWord(s, k, w, v)
  PROVE  WrittenWord(n, s, k, w, v, r)
<1>. DEFINE q == [s[k].ptrs EXCEPT ![w] = v]
            e == [s[k] EXCEPT !.ptrs = q]
<1>1. s[k] \in BlockOf(n)
  BY ElementOfSeq
<1>. USE DEF BlockOf
<1>2. /\ q \in Seq(Nat) /\ Len(q) = Len(s[k].ptrs)
      /\ \A i \in 1 .. Len(s[k].ptrs) : q[i] = IF i = w THEN v ELSE s[k].ptrs[i]
  <2>1. PICK p \in Seq(Nat) : p = s[k].ptrs
    BY <1>1
  <2>2. w \in 1 .. Len(p) /\ q = [p EXCEPT ![w] = v]
    BY <2>1
  <2>. HIDE DEF q
  <2>3. /\ [p EXCEPT ![w] = v] \in Seq(Nat)
        /\ Len([p EXCEPT ![w] = v]) = Len(p)
        /\ \A i \in 1 .. Len(p) :
             [p EXCEPT ![w] = v][i] = IF i = w THEN v ELSE p[i]
    BY ONLY <2>2, ExceptSeq, p \in Seq(Nat), v \in Nat
  <2>. QED BY <2>1, <2>2, <2>3
<1>3. e \in BlockOf(n)
  BY <1>1, <1>2
<1>4. r = [s EXCEPT ![k] = e]
  BY DEF SetWord
<1>5. /\ r \in Seq(BlockOf(n))
      /\ Len(r) = Len(s)
      /\ \A j \in 1 .. Len(s) : r[j] = IF j = k THEN e ELSE s[j]
  <2>. HIDE DEF e, BlockOf
  <2>2. /\ [s EXCEPT ![k] = e] \in Seq(BlockOf(n))
        /\ Len([s EXCEPT ![k] = e]) = Len(s)
        /\ \A j \in 1 .. Len(s) :
             [s EXCEPT ![k] = e][j] = IF j = k THEN e ELSE s[j]
    BY <1>3, ExceptSeq
  <2>. QED BY <1>4, <2>2
<1>. QED BY <1>1, <1>2, <1>5 DEF WrittenWord

-----------------------------------------------------------------------------
(* Rounding up to a multiple of the page size gives no less. *)
LEMMA RoundUpAtLeast ==
  ASSUME NEW n \in Nat
  PROVE  RoundUp(n) \in Nat /\ RoundUp(n) >= n
<1>. DEFINE q == (n + PageSize - 1) \div PageSize
<1>. PageSize \in Nat \ {0}
  BY OptsAssumption
<1>1. q \in Nat /\ n + PageSize - 1 < (q + 1) * PageSize
  OBVIOUS
<1>2. (q + 1) * PageSize = q * PageSize + PageSize /\ q * PageSize \in Nat
  BY <1>1
<1>. QED BY <1>1, <1>2 DEF RoundUp

(* The next space is at least the initial heap, so it is not empty. *)
LEMMA TargetSizeNat ==
  ASSUME TypeOK PROVE TargetSize \in Nat \ {0}
<1>. USE OptsAssumption
<1>. DEFINE room  == AtLeast(fromSize, offset + lastFailed)
            grown == IF 2 * lastUsed[1] > lastUsed[2]
                       THEN (room * GrowthFactor) \div 100
                       ELSE room
            fill  == (100 * lastUsed[1]) \div lastUsed[2]
            kept  == AtLeast(grown, (grown * fill) \div 100)
<1>1. room \in Nat /\ GrowthFactor \in Nat
  BY DEF TypeOK, AtLeast, GrowthFactor
<1>2. lastUsed[1] \in Nat /\ lastUsed[2] \in Nat \ {0}
  BY DEF TypeOK
<1>3. fill \in Nat
  BY <1>2
<1>4. grown \in Nat
  <2>. HIDE DEF room
  <2>1. room * GrowthFactor \in Nat
    BY <1>1
  <2>. QED BY <1>1, <2>1
<1>5. kept \in Nat
  <2>. HIDE DEF grown, fill
  <2>1. grown * fill \in Nat
    BY <1>3, <1>4
  <2>. QED BY <1>4, <2>1 DEF AtLeast
<1>6. TargetSize = RoundUp(AtLeast(kept, InitialHeap))
  BY DEF TargetSize
<1>. HIDE DEF kept
<1>7. AtLeast(kept, InitialHeap) \in Nat \ {0}
  BY <1>5 DEF AtLeast
<1>. QED BY <1>6, <1>7, RoundUpAtLeast

-----------------------------------------------------------------------------
(* Steps that leave the blocks and the collector's variables alone, and     *)
(* change root cells only to what another cell or a pointer word holds.     *)
LEMMA RootsStep ==
  ASSUME IInv, phase = "run",
         UNCHANGED <<heapVars, gcVars, phase, request, finalized, ids>>,
         roots' \in [Cells -> Nat],
         \A c \in Cells : roots'[c] <= Len(blocks)
  PROVE  IInv'
<1>1. TypeOK'
  BY DEF IInv, TypeOK, heapVars, gcVars, Block
<1>2. PhaseInv' /\ ForwardInv'
  BY DEF IInv, PhaseInv, ForwardInv, heapVars, gcVars, Collecting
<1>3. NoDangling'
  BY DEF IInv, NoDangling, heapVars, gcVars, RootLimit, WordLimit, Scanned,
         Collecting
<1>. QED BY <1>1, <1>2, <1>3 DEF IInv

(* The blocks of the two spaces are blocks, their pointer words numbers.    *)
LEMMA BlockShape ==
  ASSUME TypeOK
  PROVE  /\ Len(blocks) \in Nat /\ Len(copies) \in Nat
         /\ Len(forward) \in Nat
         /\ \A b \in 1 .. Len(blocks) :
              /\ blocks[b] \in Block /\ blocks[b].ptrs \in Seq(Nat)
              /\ Len(blocks[b].ptrs) \in Nat
              /\ \A w \in 1 .. Len(blocks[b].ptrs) : blocks[b].ptrs[w] \in Nat
         /\ \A t \in 1 .. Len(copies) :
              /\ copies[t] \in Block /\ copies[t].ptrs \in Seq(Nat)
              /\ Len(copies[t].ptrs) \in Nat
              /\ \A w \in 1 .. Len(copies[t].ptrs) : copies[t].ptrs[w] \in Nat
         /\ \A b \in 1 .. Len(forward) : forward[b] \in Nat
<1>1. /\ Len(blocks) \in Nat /\ Len(copies) \in Nat /\ Len(forward) \in Nat
      /\ \A b \in 1 .. Len(blocks) : blocks[b] \in Block
      /\ \A t \in 1 .. Len(copies) : copies[t] \in Block
      /\ \A b \in 1 .. Len(forward) : forward[b] \in Nat
  BY LenProperties, ElementOfSeq DEF TypeOK
<1>2. ASSUME NEW b \in Block
      PROVE  /\ b.ptrs \in Seq(Nat) /\ Len(b.ptrs) \in Nat
             /\ \A w \in 1 .. Len(b.ptrs) : b.ptrs[w] \in Nat
  <2>1. b.ptrs \in Seq(Nat)
    BY DEF Block, BlockOf
  <2>. QED BY <2>1, LenProperties, ElementOfSeq
<1>. QED BY <1>1, <1>2

(* Outside a collection every root cell and pointer word is a from-space    *)
(* block or null.                                                           *)
LEMMA InFromSpace ==
  ASSUME IInv, ~Collecting
  PROVE  \A c \in Cells : roots[c] \in 0 .. Len(blocks)
<1>1. \A c \in Cells : roots[c] \in Nat /\ roots[c] <= Len(blocks)
  BY DEF IInv, TypeOK, NoDangling, RootLimit
<1>2. Len(blocks) \in Nat
  BY BlockShape DEF IInv
<1>. QED
  <2>. TAKE c \in Cells
  <2>. QED BY <1>1, <1>2

(* A handle copied, dropped or read from a pointer word. *)
LEMMA CopyRootStep ==
  ASSUME IInv, NEW c \in Cells, NEW d \in Cells, CopyRoot(c, d)
  PROVE  IInv'
<1>1. ~Collecting
  BY DEF CopyRoot, Collecting
<1>2. roots' = [roots EXCEPT ![c] = roots[d]] /\ roots \in [Cells -> Nat]
  BY DEF CopyRoot, IInv, TypeOK
<1>3. roots' \in [Cells -> Nat] /\ \A e \in Cells : roots'[e] <= Len(blocks)
  BY <1>1, <1>2, InFromSpace
<1>. QED BY <1>3, RootsStep DEF CopyRoot

LEMMA DropRootStep ==
  ASSUME IInv, NEW c \in Cells, DropRoot(c)
  PROVE  IInv'
<1>1. ~Collecting
  BY DEF DropRoot, Collecting
<1>2. roots' = [roots EXCEPT ![c] = 0] /\ roots \in [Cells -> Nat]
  BY DEF DropRoot, Null, IInv, TypeOK
<1>3. roots' \in [Cells -> Nat] /\ \A e \in Cells : roots'[e] <= Len(blocks)
  BY <1>1, <1>2, InFromSpace, BlockShape DEF IInv
<1>. QED BY <1>3, RootsStep DEF DropRoot

LEMMA LoadStep ==
  ASSUME IInv, NEW c \in Cells, NEW d \in Cells, Load(c, d)
  PROVE  IInv'
<1>1. ~Collecting
  BY DEF Load, Collecting
<1>2. roots[d] \in 1 .. Len(blocks)
  BY <1>1, InFromSpace DEF Load, Null
<1>3. blocks[roots[d]].ptrs \in Seq(Nat)
  BY <1>2, BlockShape DEF IInv
<1>4. PICK w \in 1 .. Len(blocks[roots[d]].ptrs) :
        roots' = [roots EXCEPT ![c] = blocks[roots[d]].ptrs[w]]
  BY <1>3, LenProperties DEF Load
<1>5. blocks[roots[d]].ptrs[w] \in 0 .. Len(blocks)
  BY <1>2, <1>3, <1>4, ElementOfSeq DEF IInv, NoDangling
<1>6. roots \in [Cells -> Nat] /\ \A e \in Cells : roots[e] <= Len(blocks)
  BY <1>1, InFromSpace DEF IInv, TypeOK
<1>. DEFINE q == blocks[roots[d]].ptrs[w]
<1>7. q \in Nat /\ q <= Len(blocks)
  BY <1>5
<1>8. roots' = [roots EXCEPT ![c] = q]
  BY <1>4
<1>. HIDE DEF q
<1>9. roots' \in [Cells -> Nat] /\ \A e \in Cells : roots'[e] <= Len(blocks)
  BY <1>6, <1>7, <1>8
<1>. QED BY <1>9, RootsStep DEF Load

(* A pointer word written through a handle. *)
LEMMA StoreStep ==
  ASSUME IInv, NEW c \in Cells, NEW d \in Cells, Store(c, d)
  PROVE  IInv'
<1>1. ~Collecting /\ ~Collecting'
  BY DEF Store, Collecting
<1>2. roots[c] \in 1 .. Len(blocks) /\ roots[d] \in 0 .. Len(blocks)
  BY <1>1, InFromSpace DEF Store, Null
<1>3. /\ blocks \in Seq(Block) /\ ids \in Nat
      /\ blocks[roots[c]].ptrs \in Seq(Nat)
  BY <1>2, BlockShape DEF IInv, TypeOK
<1>4. PICK w \in 1 .. Len(blocks[roots[c]].ptrs) :
        blocks' = SetWord(blocks, roots[c], w, roots[d])
  BY <1>3, LenProperties DEF Store
<1>5. /\ blocks' \in Seq(Block) /\ Len(blocks') = Len(blocks)
      /\ \A j \in 1 .. Len(blocks) : j # roots[c] => blocks'[j] = blocks[j]
      /\ Len(blocks'[roots[c]].ptrs) = Len(blocks[roots[c]].ptrs)
      /\ \A i \in 1 .. Len(blocks[roots[c]].ptrs) :
           blocks'[roots[c]].ptrs[i] =
             IF i = w THEN roots[d] ELSE blocks[roots[c]].ptrs[i]
  <2>1. roots[d] \in Nat
    BY <1>2
  <2>2. PICK k \in 1 .. Len(blocks), v \in Nat :
          k = roots[c] /\ v = roots[d]
    BY <1>2, <2>1
  <2>3. w \in 1 .. Len(blocks[k].ptrs) /\ blocks' = SetWord(blocks, k, w, v)
    BY <1>4, <2>2
  <2>4. /\ blocks' \in Seq(Block) /\ Len(blocks') = Len(blocks)
        /\ \A j \in 1 .. Len(blocks) : j # k => blocks'[j] = blocks[j]
        /\ Len(blocks'[k].ptrs) = Len(blocks[k].ptrs)
        /\ \A i \in 1 .. Len(blocks[k].ptrs) :
             blocks'[k].ptrs[i] = IF i = w THEN v ELSE blocks[k].ptrs[i]
    <3>1. PICK n : n = ids
      OBVIOUS
    <3>2. n \in Nat /\ blocks \in Seq(BlockOf(n)) /\ Block = BlockOf(n)
      BY <1>3, <3>1 DEF Block
    <3>3. WrittenWord(n, blocks, k, w, v, blocks')
      BY ONLY <2>3, <3>2, WriteWord, k \in 1 .. Len(blocks), v \in Nat
    <3>. QED BY <3>2, <3>3 DEF WrittenWord
  <2>. QED BY <2>2, <2>4
<1>6. TypeOK'
  BY <1>5 DEF IInv, TypeOK, Block, Store, gcVars
<1>7. PhaseInv' /\ ForwardInv'
  BY <1>1, <1>5 DEF IInv, PhaseInv, ForwardInv, Store, gcVars
<1>8. NoDangling'
  <2>1. \A e \in Cells : roots'[e] <= RootLimit(e)'
    BY <1>1, <1>5, InFromSpace DEF Store, RootLimit
  <2>2. \A b \in 1 .. Len(blocks') : \A i \in 1 .. Len(blocks'[b].ptrs) :
          blocks'[b].ptrs[i] <= Len(blocks')
    <3>1. SUFFICES ASSUME NEW b \in 1 .. Len(blocks'),
                          NEW i \in 1 .. Len(blocks'[b].ptrs)
                   PROVE  blocks'[b].ptrs[i] <= Len(blocks')
      OBVIOUS
    <3>2. CASE b = roots[c]
      <4>1. /\ i \in 1 .. Len(blocks[b].ptrs)
            /\ blocks'[b].ptrs[i] =
                 IF i = w THEN roots[d] ELSE blocks[b].ptrs[i]
        BY <1>2, <1>5, <3>2
      <4>2. blocks[b].ptrs[i] <= Len(blocks)
        BY <1>5, <4>1 DEF IInv, NoDangling
      <4>. QED BY <1>2, <1>5, <4>1, <4>2
    <3>3. CASE b # roots[c]
      BY <1>5, <3>3 DEF IInv, NoDangling
    <3>. QED BY <3>2, <3>3
  <2>3. Len(copies') = 0
    BY <1>1 DEF IInv, PhaseInv, Store, gcVars
  <2>. QED BY <2>1, <2>2, <2>3 DEF NoDangling
<1>. QED BY <1>6, <1>7, <1>8 DEF IInv

-----------------------------------------------------------------------------
(* Allocation.  A new block has null pointer words. *)
LEMMA NewBlockShape ==
  ASSUME NEW ty \in Types, NEW n \in Nat
  PROVE  /\ NewBlock(ty, n + 1) \in BlockOf(n + 1)
         /\ \A w \in 1 .. Len(NewBlock(ty, n + 1).ptrs) :
              NewBlock(ty, n + 1).ptrs[w] = 0
<1>. DEFINE q == [i \in 1 .. PtrWords[ty] |-> 0]
<1>1. PtrWords[ty] \in Nat
  BY ShapeAssumption
<1>2. q \in Seq(Nat) /\ Len(q) = PtrWords[ty]
  BY <1>1
<1>3. NewBlock(ty, n + 1) = [ty |-> ty, id |-> n + 1, ptrs |-> q]
  BY DEF NewBlock, Null
<1>. QED BY <1>1, <1>2, <1>3 DEF BlockOf

(* A block is placed at the end of from-space, outside a collection.        *)
LEMMA PlaceStep ==
  ASSUME IInv, ~Collecting, ~Collecting', NEW ty \in Types, NEW c \in Cells,
         Place(ty, c), phase' \in Phases,
         request' \in [ty : Types, cell : Cells] \cup {NoRequest},
         phase' # "run" => request' \in [ty : Types, cell : Cells],
         UNCHANGED <<fromSize, toSize, lastUsed, lastFailed, gcVars, finalized>>
  PROVE  IInv'
<1>. DEFINE new == NewBlock(ty, ids + 1)
<1>1. TypeOK
  BY DEF IInv
<1>2. /\ ids \in Nat /\ new \in Block'
      /\ \A w \in 1 .. Len(new.ptrs) : new.ptrs[w] = 0
  BY <1>1, NewBlockShape DEF TypeOK, Block, Place
<1>3. blocks \in Seq(Block') /\ copies \in Seq(Block')
  BY <1>1, BlocksGrow DEF TypeOK, Block, Place
<1>. HIDE DEF new
<1>4. /\ blocks' \in Seq(Block') /\ Len(blocks') = Len(blocks) + 1
      /\ \A b \in 1 .. Len(blocks) : blocks'[b] = blocks[b]
      /\ blocks'[Len(blocks) + 1] = new
  BY <1>2, <1>3, AppendProperties DEF Place, new
<1>5. TypeOK'
  <2>1. BlockSize(ty) \in Nat
    BY ShapeAssumption DEF BlockSize
  <2>2. roots' \in [Cells -> Nat]
    BY <1>1, BlockShape DEF Place, TypeOK
  <2>3. finalized \subseteq 1 .. ids'
    BY <1>1 DEF Place, TypeOK
  <2>4. offset' \in Nat /\ ids' \in Nat
    <3>1. offset' = offset + BlockSize(ty) /\ ids' = ids + 1
      BY DEF Place
    <3>2. offset \in Nat /\ ids \in Nat
      BY <1>1 DEF TypeOK
    <3>. QED BY <2>1, <3>1, <3>2
  <2>5. UNCHANGED <<fromSize, toSize, lastUsed, lastFailed, gcVars>>
    OBVIOUS
  <2>6. Block' = BlockOf(ids')
    BY DEF Block
  <2>7. copies' \in Seq(Block')
    BY <1>3, <2>5 DEF gcVars
  <2>. QED BY <1>1, <1>4, <2>2, <2>3, <2>4, <2>5, <2>7 DEF TypeOK, gcVars
<1>6. PhaseInv' /\ ForwardInv'
  BY DEF IInv, PhaseInv, ForwardInv, gcVars, Collecting
<1>7. NoDangling'
  <2>1. Len(blocks) \in Nat /\ \A e \in Cells : roots[e] \in 0 .. Len(blocks)
    BY <1>1, BlockShape, InFromSpace
  <2>2. \A e \in Cells : roots'[e] <= RootLimit(e)'
    BY <1>1, <1>4, <2>1 DEF Place, RootLimit, TypeOK
  <2>3. \A b \in 1 .. Len(blocks') : \A w \in 1 .. Len(blocks'[b].ptrs) :
          blocks'[b].ptrs[w] <= Len(blocks')
    <3>1. SUFFICES ASSUME NEW b \in 1 .. Len(blocks'),
                          NEW w \in 1 .. Len(blocks'[b].ptrs)
                   PROVE  blocks'[b].ptrs[w] <= Len(blocks')
      OBVIOUS
    <3>2. CASE b = Len(blocks) + 1
      BY <1>2, <1>4, <2>1, <3>2
    <3>3. CASE b \in 1 .. Len(blocks)
      <4>1. blocks[b].ptrs[w] \in Nat /\ blocks[b].ptrs[w] <= Len(blocks)
        BY <1>1, <1>4, <3>3, BlockShape DEF IInv, NoDangling
      <4>. QED BY <1>4, <2>1, <3>3, <4>1
    <3>. QED BY <1>4, <2>1, <3>2, <3>3
  <2>4. Len(copies') = 0
    BY DEF IInv, PhaseInv, gcVars
  <2>. QED BY <2>2, <2>3, <2>4 DEF NoDangling
<1>. QED BY <1>5, <1>6, <1>7 DEF IInv

LEMMA AllocStep ==
  ASSUME IInv, NEW ty \in Types, NEW c \in Cells, Alloc(ty, c)
  PROVE  IInv'
BY PlaceStep DEF Alloc, Collecting, IInv, TypeOK

LEMMA RetryStep ==
  ASSUME IInv, Retry
  PROVE  IInv'
<1>1. request.ty \in Types /\ request.cell \in Cells
  BY DEF Retry, IInv, TypeOK
<1>. QED BY <1>1, PlaceStep DEF Retry, Collecting, Phases

LEMMA AllocFailsStep ==
  ASSUME IInv, NEW ty \in Types, NEW c \in Cells,
         AllocFails(ty, c) \/ RetryFails
  PROVE  IInv'
<1>1. PayloadSize \in [Types -> Nat \ {0}]
  BY ShapeAssumption
<1>2. ~Collecting /\ ~Collecting'
  BY DEF AllocFails, RetryFails, Collecting
<1>3. TypeOK'
  <2>1. CASE AllocFails(ty, c)
    BY <1>1, <2>1 DEF IInv, TypeOK, AllocFails, gcVars, Block, Phases
  <2>2. CASE RetryFails
    <3>1. request \in [ty : Types, cell : Cells]
      BY <2>2 DEF RetryFails, IInv, TypeOK
    <3>2. lastFailed' \in Nat /\ request' = request
      BY <1>1, <2>2, <3>1 DEF RetryFails
    <3>. QED BY <2>2, <3>1, <3>2 DEF RetryFails, IInv, TypeOK, gcVars, Block,
                Phases
  <2>. QED BY <2>1, <2>2
<1>4. PhaseInv' /\ ForwardInv'
  BY <1>2 DEF IInv, PhaseInv, ForwardInv, AllocFails, RetryFails, gcVars,
              Collecting
<1>5. NoDangling'
  BY <1>2 DEF IInv, NoDangling, AllocFails, RetryFails, gcVars, RootLimit,
              WordLimit, Scanned
<1>. QED BY <1>3, <1>4, <1>5 DEF IInv

-----------------------------------------------------------------------------
(* Copying::copy.  The new space is empty and every root is still to do.    *)
LEMMA BeginCopyStep ==
  ASSUME IInv, BeginCopy
  PROVE  IInv'
<1>1. TypeOK
  BY DEF IInv
<1>2. toSize' \in Nat \ {0}
  BY <1>1, TargetSizeNat DEF BeginCopy, AtLeast, TypeOK
<1>3. /\ Len(blocks) \in Nat /\ copies' = << >>
      /\ forward' \in Seq(Nat) /\ Len(forward') = Len(blocks)
      /\ \A b \in 1 .. Len(blocks) : forward'[b] = 0
  BY <1>1, BlockShape DEF BeginCopy, Null
<1>4. ~Collecting /\ Collecting'
  BY DEF BeginCopy, Collecting
<1>5. TypeOK'
  BY <1>1, <1>2, <1>3, EmptySeq DEF BeginCopy, TypeOK, Block, Phases
<1>6. PhaseInv' /\ ForwardInv'
  BY <1>2, <1>3, <1>4 DEF BeginCopy, PhaseInv, ForwardInv
<1>7. NoDangling'
  BY <1>3, <1>4 DEF IInv, NoDangling, BeginCopy, RootLimit
<1>. QED BY <1>5, <1>6, <1>7 DEF IInv

(* Forwarder::forward.  The copy is appended or already there; either way   *)
(* the forwarding address is that of a copy.                                *)
LEMMA ForwardShape ==
  ASSUME IInv, Collecting, NEW p \in 1 .. Len(blocks)
  PROVE  /\ CopiesWith(p) \in Seq(Block)
         /\ Len(CopiesWith(p)) \in {Len(copies), Len(copies) + 1}
         /\ \A t \in 1 .. Len(copies) : CopiesWith(p)[t] = copies[t]
         /\ \A t \in 1 .. Len(CopiesWith(p)) :
              t > Len(copies) => CopiesWith(p)[t] = blocks[p]
         /\ Forwarded(p) \in 1 .. Len(CopiesWith(p))
         /\ ForwardWith(p) \in Seq(Nat)
         /\ Len(ForwardWith(p)) = Len(forward)
         /\ \A b \in 1 .. Len(forward) :
              ForwardWith(p)[b] <= Len(CopiesWith(p))
         /\ TargetWith(p) \in Nat
<1>1. TypeOK /\ Len(forward) = Len(blocks)
  BY DEF IInv, PhaseInv
<1>2. /\ Len(copies) \in Nat /\ copies \in Seq(Block) /\ blocks[p] \in Block
      /\ forward \in Seq(Nat) /\ forward[p] \in Nat
      /\ \A b \in 1 .. Len(forward) :
           forward[b] \in Nat /\ forward[b] <= Len(copies)
  BY <1>1, BlockShape DEF TypeOK, IInv, ForwardInv
<1>3. /\ CopiesWith(p) \in Seq(Block)
      /\ Len(CopiesWith(p)) \in {Len(copies), Len(copies) + 1}
      /\ \A t \in 1 .. Len(copies) : CopiesWith(p)[t] = copies[t]
      /\ \A t \in 1 .. Len(CopiesWith(p)) :
           t > Len(copies) => CopiesWith(p)[t] = blocks[p]
      /\ Forwarded(p) \in 1 .. Len(CopiesWith(p))
  <2>1. CASE forward[p] = 0
    <3>1. PICK b \in Block : b = blocks[p]
      BY <1>2
    <3>2. CopiesWith(p) = Append(copies, b) /\ Forwarded(p) = Len(copies) + 1
      BY <2>1, <3>1 DEF CopiesWith, Forwarded, Null
    <3>. QED BY <1>2, <3>1, <3>2, AppendProperties
  <2>2. CASE forward[p] # 0
    BY <1>2, <1>1, <2>2 DEF CopiesWith, Forwarded, Null
  <2>. QED BY <2>1, <2>2
<1>4. /\ ForwardWith(p) \in Seq(Nat) /\ Len(ForwardWith(p)) = Len(forward)
      /\ \A b \in 1 .. Len(forward) :
           ForwardWith(p)[b] = IF b = p THEN Forwarded(p) ELSE forward[b]
  <2>1. Forwarded(p) \in Nat
    BY <1>2, <1>3
  <2>. QED BY <1>1, <1>2, <2>1, ExceptSeq DEF ForwardWith
<1>5. \A b \in 1 .. Len(forward) : ForwardWith(p)[b] <= Len(CopiesWith(p))
  <2>. TAKE b \in 1 .. Len(forward)
  <2>1. /\ forward[b] \in Nat /\ forward[b] <= Len(copies)
        /\ ForwardWith(p)[b] = IF b = p THEN Forwarded(p) ELSE forward[b]
    BY <1>2, <1>4
  <2>. QED BY <1>2, <1>3, <2>1
<1>6. TargetWith(p) \in Nat
  <2>1. BlockSize(blocks[p].ty) \in Nat
    BY <1>2, ShapeAssumption DEF Block, BlockOf, BlockSize
  <2>. QED BY <1>1, <2>1 DEF TargetWith, TypeOK
<1>. QED BY <1>3, <1>4, <1>5, <1>6

(* One root cell. *)
LEMMA ForwardRootStep ==
  ASSUME IInv, NEW c \in Cells, ForwardRoot(c)
  PROVE  IInv'
<1>1. Collecting /\ Collecting' /\ scan = 1 /\ word = 1 /\ phase' = "roots"
  BY DEF ForwardRoot, IInv, PhaseInv, Collecting
<1>2. TypeOK /\ roots[c] \in 0 .. Len(blocks)
  BY <1>1, BlockShape DEF IInv, TypeOK, NoDangling, RootLimit, ForwardRoot
<1>3. CASE roots[c] = 0
  <2>1. UNCHANGED <<heapVars, roots, forward, copies, target, scan, word, visit,
                    phase, request, finalized, ids>> /\ todo' = todo \ {c}
    BY <1>3 DEF ForwardRoot, Null
  <2>2. TypeOK'
    BY <1>2, <2>1 DEF TypeOK, heapVars, Block
  <2>3. PhaseInv' /\ ForwardInv'
    BY <1>1, <2>1 DEF IInv, PhaseInv, ForwardInv, heapVars, Collecting
  <2>4. \A e \in Cells : roots'[e] <= RootLimit(e)'
    BY <1>1, <1>2, <1>3, <2>1, BlockShape
      DEF IInv, NoDangling, RootLimit, heapVars
  <2>5. NoDangling'
    BY <2>1, <2>4 DEF IInv, NoDangling, heapVars, WordLimit, Scanned
  <2>. QED BY <2>2, <2>3, <2>5 DEF IInv
<1>4. CASE roots[c] # 0
  <2>1. PICK p \in 1 .. Len(blocks) : p = roots[c]
    BY <1>2, <1>4
  <2>2. /\ forward' = ForwardWith(p) /\ copies' = CopiesWith(p)
        /\ target' = TargetWith(p)
        /\ roots' = [roots EXCEPT ![c] = Forwarded(p)]
        /\ todo' = todo \ {c}
        /\ UNCHANGED <<heapVars, scan, word, visit, phase, request, finalized,
                       ids>>
    BY <1>4, <2>1 DEF ForwardRoot, Null
  <2>3. /\ copies' \in Seq(Block) /\ Len(copies) \in Nat
        /\ Len(copies') \in {Len(copies), Len(copies) + 1}
        /\ \A t \in 1 .. Len(copies) : copies'[t] = copies[t]
        /\ \A t \in 1 .. Len(copies') : t > Len(copies) => copies'[t] = blocks[p]
        /\ forward' \in Seq(Nat) /\ Len(forward') = Len(forward)
        /\ \A b \in 1 .. Len(forward) : forward'[b] <= Len(copies')
        /\ target' \in Nat /\ Forwarded(p) \in 1 .. Len(copies')
    BY <1>1, <1>2, <2>2, ForwardShape, BlockShape
  <2>4. TypeOK'
    <3>1. /\ copies' \in Seq(Block) /\ forward' \in Seq(Nat)
          /\ target' \in Nat /\ roots' \in [Cells -> Nat]
          /\ todo' \subseteq Cells
      <4>1. roots \in [Cells -> Nat] /\ todo \subseteq Cells
            /\ Forwarded(p) \in Nat
        BY <1>2, <2>3 DEF TypeOK
      <4>. QED BY <2>2, <2>3, <4>1
    <3>2. UNCHANGED <<heapVars, scan, word, visit, phase, request, finalized,
                      ids>>
      BY <2>2
    <3>3. Block' = Block
      BY <3>2 DEF Block
    <3>. QED BY ONLY <1>2, <3>1, <3>2, <3>3 DEF TypeOK, heapVars
  <2>5. PhaseInv' /\ ForwardInv'
    BY <1>1, <2>2, <2>3 DEF IInv, PhaseInv, ForwardInv, heapVars, Collecting
  <2>6. \A e \in Cells : roots'[e] <= RootLimit(e)'
    <3>1. SUFFICES ASSUME NEW e \in Cells PROVE roots'[e] <= RootLimit(e)'
      OBVIOUS
    <3>2. /\ roots[e] \in Nat /\ roots[e] <= RootLimit(e)
          /\ roots'[e] = IF e = c THEN Forwarded(p) ELSE roots[e]
      BY <1>2, <2>2 DEF IInv, NoDangling, TypeOK
    <3>. QED BY <1>1, <2>2, <2>3, <3>2 DEF RootLimit, heapVars
  <2>7. \A t \in 1 .. Len(copies') : \A w \in 1 .. Len(copies'[t].ptrs) :
          copies'[t].ptrs[w] <= WordLimit(t, w)'
    <3>1. SUFFICES ASSUME NEW t \in 1 .. Len(copies'),
                          NEW w \in 1 .. Len(copies'[t].ptrs)
                   PROVE  copies'[t].ptrs[w] <= WordLimit(t, w)'
      OBVIOUS
    <3>2. WordLimit(t, w) = Len(blocks) /\ WordLimit(t, w)' = Len(blocks)
      <4>1. scan = 1 /\ word = 1 /\ UNCHANGED <<scan, word, blocks>>
        BY <1>1, <2>2 DEF heapVars
      <4>2. t \in Nat \ {0} /\ w \in Nat \ {0}
        BY <2>3
      <4>. QED BY <4>1, <4>2 DEF WordLimit, Scanned
    <3>3. CASE t <= Len(copies)
      BY <2>3, <3>2, <3>3 DEF IInv, NoDangling
    <3>4. CASE t > Len(copies)
      BY <2>3, <3>2, <3>4 DEF IInv, NoDangling
    <3>. QED BY <2>3, <3>3, <3>4
  <2>. QED BY <2>2, <2>4, <2>5, <2>6, <2>7 DEF IInv, NoDangling, heapVars
<1>. QED BY <1>3, <1>4

(* One pointer word of to-space. *)
LEMMA ScanWordStep ==
  ASSUME IInv, ScanWord
  PROVE  IInv'
<1>. DEFINE child == copies[scan].ptrs[word]
<1>1. /\ TypeOK /\ Collecting /\ Collecting' /\ todo = {} /\ todo' = {}
      /\ phase' = "scan"
  BY DEF ScanWord, IInv, PhaseInv, Collecting
<1>2. /\ scan \in 1 .. Len(copies) /\ word \in 1 .. Len(copies[scan].ptrs)
      /\ child \in 0 .. Len(blocks)
  <2>1. scan \in 1 .. Len(copies) /\ word \in 1 .. Len(copies[scan].ptrs)
    <3>1. scan <= Len(copies) /\ word <= Len(copies[scan].ptrs)
      BY DEF ScanWord
    <3>2. scan \in Nat \ {0} /\ word \in Nat \ {0}
      BY <1>1 DEF TypeOK
    <3>3. scan \in 1 .. Len(copies)
      BY <1>1, <3>1, <3>2, BlockShape
    <3>. QED BY <1>1, <3>1, <3>2, <3>3, BlockShape
  <2>2. WordLimit(scan, word) = Len(blocks)
    BY <2>1 DEF WordLimit, Scanned
  <2>. QED BY <1>1, <2>1, <2>2, BlockShape DEF IInv, NoDangling
<1>l. ASSUME NEW t \in Nat, NEW w \in Nat
      PROVE  WordLimit(t, w)' = IF Scanned(t, w) \/ (t = scan /\ w = word)
                                  THEN Len(copies') ELSE Len(blocks)
  <2>1. scan' = scan /\ word' = word + 1 /\ blocks' = blocks /\ word \in Nat
    BY <1>1 DEF ScanWord, heapVars, TypeOK
  <2>2. Scanned(t, w)' <=> Scanned(t, w) \/ (t = scan /\ w = word)
    BY <2>1 DEF Scanned
  <2>. QED BY <2>1, <2>2 DEF WordLimit
<1>3. CASE child = 0
  <2>1. /\ UNCHANGED <<heapVars, roots, forward, copies, target, todo, scan,
                       visit, phase, request, finalized, ids>>
        /\ word' = word + 1
    BY <1>3 DEF ScanWord, Null
  <2>2. TypeOK' /\ PhaseInv' /\ ForwardInv'
    BY <1>1, <2>1 DEF IInv, TypeOK, PhaseInv, ForwardInv, heapVars, Collecting,
                      Block
  <2>3. \A t \in 1 .. Len(copies) : \A w \in 1 .. Len(copies[t].ptrs) :
          copies[t].ptrs[w] <= WordLimit(t, w)'
    <3>1. SUFFICES ASSUME NEW t \in 1 .. Len(copies),
                          NEW w \in 1 .. Len(copies[t].ptrs)
                   PROVE  copies[t].ptrs[w] <= WordLimit(t, w)'
      OBVIOUS
    <3>2. /\ copies[t].ptrs[w] \in Nat /\ Len(copies) \in Nat
          /\ Len(blocks) \in Nat /\ copies[t].ptrs[w] <= WordLimit(t, w)
      BY <1>1, BlockShape DEF IInv, NoDangling
    <3>3. t \in Nat /\ w \in Nat /\ copies' = copies
      BY <2>1
    <3>4. CASE t = scan /\ w = word
      BY <1>3, <1>l, <3>2, <3>3, <3>4
    <3>5. CASE ~(t = scan /\ w = word)
      BY <1>l, <3>2, <3>3, <3>5 DEF WordLimit
    <3>. QED BY <3>4, <3>5
  <2>4. NoDangling'
    BY <1>1, <2>1, <2>3 DEF IInv, NoDangling, heapVars, RootLimit
  <2>. QED BY <2>2, <2>4 DEF IInv
<1>4. CASE child # 0
  <2>1. PICK p \in 1 .. Len(blocks) : p = child
    BY <1>2, <1>4
  <2>. DEFINE grown == CopiesWith(p)
  <2>2. /\ forward' = ForwardWith(p) /\ target' = TargetWith(p)
        /\ copies' = SetWord(grown, scan, word, Forwarded(p))
        /\ word' = word + 1
        /\ UNCHANGED <<heapVars, roots, todo, scan, visit, phase, request,
                       finalized, ids>>
    BY <1>4, <2>1 DEF ScanWord, Null
  <2>. HIDE DEF child
  <2>3. /\ grown \in Seq(Block) /\ Len(copies) \in Nat
        /\ Len(grown) \in {Len(copies), Len(copies) + 1}
        /\ \A t \in 1 .. Len(copies) : grown[t] = copies[t]
        /\ \A t \in 1 .. Len(grown) : t > Len(copies) => grown[t] = blocks[p]
        /\ forward' \in Seq(Nat) /\ Len(forward') = Len(forward)
        /\ \A b \in 1 .. Len(forward) : forward'[b] <= Len(grown)
        /\ target' \in Nat /\ Forwarded(p) \in 1 .. Len(grown)
    BY <1>1, <2>2, ForwardShape, BlockShape
  <2>. HIDE DEF grown
  <2>4. /\ copies' \in Seq(Block) /\ Len(copies') = Len(grown)
        /\ \A t \in 1 .. Len(grown) : t # scan => copies'[t] = grown[t]
        /\ Len(copies'[scan].ptrs) = Len(grown[scan].ptrs)
        /\ \A w \in 1 .. Len(grown[scan].ptrs) :
             copies'[scan].ptrs[w] =
               IF w = word THEN Forwarded(p) ELSE grown[scan].ptrs[w]
    <3>1. PICK k \in 1 .. Len(grown), v \in Nat :
            k = scan /\ v = Forwarded(p)
      BY <1>2, <2>3
    <3>2. word \in 1 .. Len(grown[k].ptrs) /\ ids \in Nat
      BY <1>1, <1>2, <2>3, <3>1 DEF TypeOK
    <3>3. copies' = SetWord(grown, k, word, v)
      BY <2>2, <3>1
    <3>4. PICK n : n = ids
      OBVIOUS
    <3>5. n \in Nat /\ grown \in Seq(BlockOf(n)) /\ Block = BlockOf(n)
      BY <2>3, <3>2, <3>4 DEF Block
    <3>. HIDE DEF grown
    <3>6. WrittenWord(n, grown, k, word, v, copies')
      BY ONLY <3>2, <3>3, <3>5, WriteWord, k \in 1 .. Len(grown), v \in Nat
    <3>7. /\ copies' \in Seq(Block) /\ Len(copies') = Len(grown)
          /\ \A t \in 1 .. Len(grown) : t # k => copies'[t] = grown[t]
          /\ Len(copies'[k].ptrs) = Len(grown[k].ptrs)
          /\ \A i \in 1 .. Len(grown[k].ptrs) :
               copies'[k].ptrs[i] = IF i = word THEN v ELSE grown[k].ptrs[i]
      BY <3>5, <3>6 DEF WrittenWord
    <3>. QED BY <3>1, <3>7
  <2>5. TypeOK'
    <3>1. copies' \in Seq(Block) /\ forward' \in Seq(Nat) /\ target' \in Nat
      BY <2>3, <2>4
    <3>2. word' = word + 1 /\ UNCHANGED <<heapVars, roots, todo, scan, visit,
                                         phase, request, finalized, ids>>
      BY <2>2
    <3>3. Block' = Block
      BY <3>2 DEF Block
    <3>. QED BY ONLY <1>1, <3>1, <3>2, <3>3 DEF TypeOK, heapVars
  <2>6. PhaseInv' /\ ForwardInv'
    BY <1>1, <2>2, <2>3, <2>4 DEF IInv, PhaseInv, ForwardInv, heapVars
  <2>7. \A e \in Cells : roots'[e] <= RootLimit(e)'
    <3>1. SUFFICES ASSUME NEW e \in Cells PROVE roots[e] <= Len(copies')
      BY <1>1, <2>2 DEF RootLimit
    <3>2. roots[e] \in Nat /\ roots[e] <= Len(copies)
      BY <1>1 DEF IInv, NoDangling, TypeOK, RootLimit
    <3>. QED BY <2>3, <2>4, <3>2
  <2>8. \A t \in 1 .. Len(copies') : \A w \in 1 .. Len(copies'[t].ptrs) :
          copies'[t].ptrs[w] <= WordLimit(t, w)'
    <3>1. SUFFICES ASSUME NEW t \in 1 .. Len(copies'),
                          NEW w \in 1 .. Len(copies'[t].ptrs)
                   PROVE  copies'[t].ptrs[w] <= WordLimit(t, w)'
      OBVIOUS
    <3>2. t \in Nat /\ w \in Nat /\ Len(blocks) \in Nat
      BY <1>1, BlockShape
    <3>3. CASE t = scan /\ w = word
      <4>1. copies'[t].ptrs[w] = Forwarded(p)
        BY <1>2, <2>3, <2>4, <3>3
      <4>2. WordLimit(t, w)' = Len(copies')
        BY <1>l, <3>2, <3>3
      <4>. QED BY <2>3, <2>4, <4>1, <4>2
    <3>4. CASE t <= Len(copies) /\ ~(t = scan /\ w = word)
      <4>1. t \in 1 .. Len(grown) /\ grown[t] = copies[t]
        BY <2>3, <2>4, <3>4
      <4>2. /\ w \in 1 .. Len(copies[t].ptrs)
            /\ copies'[t].ptrs[w] = copies[t].ptrs[w]
        <5>1. CASE t = scan
          BY <2>4, <3>4, <4>1, <5>1
        <5>2. CASE t # scan
          BY <2>4, <4>1, <5>2
        <5>. QED BY <5>1, <5>2
      <4>3. t \in 1 .. Len(copies)
        BY <2>3, <3>2, <3>4, <4>1
      <4>4. /\ copies[t].ptrs[w] \in Nat
            /\ copies[t].ptrs[w] <= WordLimit(t, w)
        BY <1>1, <4>2, <4>3, BlockShape DEF IInv, NoDangling
      <4>5. WordLimit(t, w)' = IF Scanned(t, w) THEN Len(copies')
                                                ELSE Len(blocks)
        BY <1>l, <3>2, <3>4
      <4>6. /\ Len(copies) \in Nat /\ Len(copies') \in Nat
            /\ Len(copies) <= Len(copies')
        BY <2>3, <2>4
      <4>7. CASE Scanned(t, w)
        BY <4>2, <4>4, <4>5, <4>6, <4>7 DEF WordLimit
      <4>8. CASE ~Scanned(t, w)
        BY <4>2, <4>4, <4>5, <4>8 DEF WordLimit
      <4>. QED BY <4>7, <4>8
    <3>5. CASE t > Len(copies)
      <4>1. copies'[t] = blocks[p] /\ t # scan /\ ~Scanned(t, w)
        BY <1>1, <1>2, <2>3, <2>4, <3>2, <3>5 DEF Scanned
      <4>2. WordLimit(t, w)' = Len(blocks)
        BY <1>l, <3>2, <4>1
      <4>. QED BY <4>1, <4>2 DEF IInv, NoDangling
    <3>. QED BY <2>3, <2>4, <3>2, <3>3, <3>4, <3>5
  <2>9. NoDangling'
    BY <2>2, <2>7, <2>8 DEF IInv, NoDangling, heapVars
  <2>. QED BY <2>5, <2>6, <2>9 DEF IInv
<1>. QED BY <1>2, <1>3, <1>4

(* Steps of the collector between two loops, and of the last loop.          *)
LEMMA BeginScanStep ==
  ASSUME IInv, BeginScan \/ BeginFinalize
  PROVE  IInv'
<1>1. /\ TypeOK /\ Collecting /\ Collecting' /\ todo = {}
      /\ phase' \in {"scan", "finalize"}
      /\ UNCHANGED <<heapVars, gcVars, roots, request, finalized, ids>>
  BY DEF BeginScan, BeginFinalize, IInv, PhaseInv, Collecting
<1>2. TypeOK'
  <2>1. request \in [ty : Types, cell : Cells]
    BY <1>1 DEF Collecting, TypeOK
  <2>. QED BY <1>1, <2>1 DEF TypeOK, heapVars, gcVars, Block, Phases
<1>3. PhaseInv' /\ ForwardInv'
  BY <1>1 DEF IInv, PhaseInv, ForwardInv, heapVars, gcVars, BeginScan,
              BeginFinalize
<1>4. NoDangling'
  BY <1>1 DEF IInv, NoDangling, heapVars, gcVars, RootLimit, WordLimit, Scanned
<1>. QED BY <1>2, <1>3, <1>4 DEF IInv

(* The next block of to-space: all words of the current one are done. *)
LEMMA ScanNextStep ==
  ASSUME IInv, ScanNext
  PROVE  IInv'
<1>1. /\ TypeOK /\ Collecting /\ Collecting' /\ phase' = phase /\ phase = "scan"
      /\ scan <= Len(copies) /\ word > Len(copies[scan].ptrs)
      /\ scan' = scan + 1 /\ word' = 1
      /\ UNCHANGED <<heapVars, roots, forward, copies, target, todo, visit,
                     request, finalized, ids>>
  BY DEF ScanNext, IInv, Collecting
<1>2. TypeOK'
  BY <1>1 DEF TypeOK, heapVars, Block
<1>3. PhaseInv' /\ ForwardInv'
  BY <1>1 DEF IInv, PhaseInv, ForwardInv, heapVars, Collecting
<1>4. ASSUME NEW t \in 1 .. Len(copies), NEW w \in 1 .. Len(copies[t].ptrs)
      PROVE  copies[t].ptrs[w] <= WordLimit(t, w)'
  <2>1. scan \in Nat /\ word \in Nat /\ Len(copies[t].ptrs) \in Nat
    BY <1>1, BlockShape DEF TypeOK
  <2>2. Scanned(t, w)' <=> Scanned(t, w)
    BY <1>1, <2>1 DEF Scanned
  <2>3. WordLimit(t, w)' = WordLimit(t, w)
    BY <1>1, <2>2 DEF WordLimit, heapVars
  <2>. QED BY <2>3 DEF IInv, NoDangling
<1>5. NoDangling'
  BY <1>1, <1>4 DEF IInv, NoDangling, heapVars, RootLimit
<1>. QED BY <1>2, <1>3, <1>5 DEF IInv

LEMMA FinalizeStep ==
  ASSUME IInv, Finalize
  PROVE  IInv'
<1>1. /\ TypeOK /\ Collecting /\ Collecting' /\ visit \in 1 .. Len(blocks)
      /\ UNCHANGED <<heapVars, roots, forward, copies, target, todo, scan, word,
                     phase, request, ids>>
      /\ visit' = visit + 1
  BY BlockShape DEF Finalize, IInv, Collecting, TypeOK
<1>2. finalized' \subseteq 1 .. ids
  <2>1. blocks[visit].id \in 1 .. ids
    BY <1>1, BlockShape DEF Block, BlockOf
  <2>. QED BY <1>1, <2>1 DEF Finalize, TypeOK
<1>3. TypeOK'
  BY <1>1, <1>2 DEF TypeOK, heapVars, Block
<1>4. PhaseInv' /\ ForwardInv'
  BY <1>1 DEF IInv, PhaseInv, ForwardInv, heapVars, Collecting
<1>5. NoDangling'
  BY <1>1 DEF IInv, NoDangling, heapVars, RootLimit, WordLimit, Scanned
<1>. QED BY <1>3, <1>4, <1>5 DEF IInv

(* The spaces are swapped: every root and every word of to-space is done. *)
LEMMA SwapStep ==
  ASSUME IInv, Swap
  PROVE  IInv'
<1>1. /\ TypeOK /\ Collecting /\ ~Collecting' /\ todo = {} /\ toSize # 0
      /\ scan > Len(copies)
  BY DEF Swap, IInv, PhaseInv, Collecting
<1>2. /\ blocks' = copies /\ copies' = << >> /\ forward' = << >>
      /\ roots' = roots /\ phase' = "retry" /\ request' = request
  BY DEF Swap
<1>3. TypeOK'
  <2>1. request \in [ty : Types, cell : Cells]
    BY <1>1 DEF Collecting, TypeOK
  <2>2. lastUsed' \in Nat \X (Nat \ {0})
    BY <1>1 DEF Swap, TypeOK
  <2>3. copies' \in Seq(Block') /\ forward' \in Seq(Nat)
    BY <1>2
  <2>. QED BY <1>1, <1>2, <2>1, <2>2, <2>3 DEF Swap, TypeOK, Block, Phases
<1>4. PhaseInv' /\ ForwardInv'
  BY <1>1, <1>2 DEF PhaseInv, ForwardInv, Collecting
<1>5. NoDangling'
  <2>1. \A e \in Cells : roots'[e] <= RootLimit(e)'
    BY <1>1, <1>2 DEF IInv, NoDangling, RootLimit
  <2>2. ASSUME NEW b \in 1 .. Len(copies), NEW w \in 1 .. Len(copies[b].ptrs)
        PROVE  copies[b].ptrs[w] <= Len(copies)
    <3>1. Scanned(b, w)
      BY <1>1, BlockShape DEF Scanned, TypeOK
    <3>. QED BY <3>1 DEF IInv, NoDangling, WordLimit
  <2>. QED BY <1>2, <2>1, <2>2 DEF NoDangling
<1>. QED BY <1>3, <1>4, <1>5 DEF IInv

-----------------------------------------------------------------------------
(* The strengthened invariant holds at first and every step preserves it.   *)
THEOREM InvariantHolds == Spec => []IInv
<1>1. Init => IInv
  <2>. SUFFICES ASSUME Init PROVE IInv
    OBVIOUS
  <2>1. ~Collecting
    BY DEF Init, Collecting
  <2>2. TypeOK
    BY OptsAssumption DEF Init, TypeOK, Phases, Null
  <2>3. PhaseInv /\ ForwardInv
    BY <2>1 DEF Init, PhaseInv, ForwardInv
  <2>4. NoDangling
    BY <2>1 DEF Init, NoDangling, RootLimit, Null
  <2>. QED BY <2>2, <2>3, <2>4 DEF IInv
<1>2. IInv /\ [Next]_vars => IInv'
  <2>. SUFFICES ASSUME IInv, [Next]_vars PROVE IInv'
    OBVIOUS
  <2>1. ASSUME NEW c \in Cells, NEW d \in Cells,
               CopyRoot(c, d) \/ Load(c, d) \/ Store(c, d)
        PROVE  IInv'
    BY <2>1, CopyRootStep, LoadStep, StoreStep
  <2>2. ASSUME NEW c \in Cells, DropRoot(c) \/ ForwardRoot(c)
        PROVE  IInv'
    BY <2>2, DropRootStep, ForwardRootStep
  <2>3. ASSUME NEW ty \in Types, NEW c \in Cells,
               Alloc(ty, c) \/ AllocFails(ty, c)
        PROVE  IInv'
    BY <2>3, AllocStep, AllocFailsStep
  <2>4. CASE RetryFails
    <3>1. request.ty \in Types /\ request.cell \in Cells
      BY <2>4 DEF RetryFails, IInv, TypeOK
    <3>. QED BY <2>4, <3>1, AllocFailsStep
  <2>5. CASE BeginCopy \/ ScanWord \/ Retry
    BY <2>5, BeginCopyStep, ScanWordStep, RetryStep
  <2>6. CASE BeginScan \/ ScanNext \/ BeginFinalize \/ Finalize \/ Swap
    BY <2>6, BeginScanStep, ScanNextStep, FinalizeStep, SwapStep
  <2>7. CASE UNCHANGED vars
    BY <2>7 DEF vars, heapVars, gcVars, IInv, TypeOK, PhaseInv, ForwardInv,
                NoDangling, Block, Collecting, RootLimit, WordLimit, Scanned
  <2>. QED BY <2>1, <2>2, <2>3, <2>4, <2>5, <2>6, <2>7
              DEF Next, Mutator, Collector
<1>. QED BY <1>1, <1>2, PTL DEF Spec

(* Every variable keeps its type: a collection leaves well-formed spaces,   *)
(* sizes and forwarding addresses whatever the heap (copying.rs copy).      *)
THEOREM TypeCorrect == Spec => []TypeOK
BY InvariantHolds, PTL DEF IInv

(* No root cell and no pointer word dangles, at any step of any collection, *)
(* for any number of cells, types and blocks (copying.rs copy, forward).    *)
THEOREM NothingDangles == Spec => []NoDangling
BY InvariantHolds, PTL DEF IInv


-----------------------------------------------------------------------------
(* A collection copies a block once and finalises a block once: sharing    *)
(* survives, and what a finaliser released is not seen again.              *)
(* No two blocks have one id. *)
IdInv ==
  \A a, b \in 1 .. Len(blocks) : blocks[a].id = blocks[b].id => a = b

(* The finalised blocks that are left are those the last loop has passed.  *)
DoneInv ==
  \A b \in 1 .. Len(blocks) : blocks[b].id \in finalized =>
    phase = "finalize" /\ b < visit /\ forward[b] = Null

OnceInv == IdInv /\ CopiedOnce /\ DoneInv

-----------------------------------------------------------------------------
(* Steps that copy and finalise nothing, whatever words they write. *)
LEMMA NothingCopied ==
  ASSUME OnceInv, Len(blocks') = Len(blocks),
         \A b \in 1 .. Len(blocks) : blocks'[b].id = blocks[b].id /\ blocks'[b].ty = blocks[b].ty,
         UNCHANGED <<forward, copies, finalized>>,
         Collecting' => Collecting,
         phase = "finalize" => phase' = "finalize" /\ visit' = visit
  PROVE  OnceInv'
<1>1. IdInv'
  BY DEF OnceInv, IdInv
<1>2. CopiedOnce'
  BY DEF OnceInv, CopiedOnce
<1>3. DoneInv'
  BY DEF OnceInv, DoneInv
<1>. QED BY <1>1, <1>2, <1>3 DEF OnceInv

(* The program's accesses, and the steps between the collector's loops. *)
LEMMA AccessOnce ==
  ASSUME IInv, OnceInv,
         \/ \E c, d \in Cells : CopyRoot(c, d) \/ Load(c, d)
         \/ \E c \in Cells : DropRoot(c)
         \/ \E ty \in Types, c \in Cells : AllocFails(ty, c)
         \/ RetryFails \/ BeginScan \/ ScanNext \/ BeginFinalize
  PROVE  OnceInv'
<1>1. UNCHANGED <<blocks, forward, copies, visit, finalized>>
  BY DEF CopyRoot, Load, DropRoot, AllocFails, RetryFails, BeginScan, ScanNext, BeginFinalize,
         heapVars, gcVars
<1>2. phase # "finalize" /\ (Collecting' => Collecting)
  BY DEF CopyRoot, Load, DropRoot, AllocFails, RetryFails, BeginScan, ScanNext, BeginFinalize,
         Collecting
<1>. QED BY <1>1, <1>2, NothingCopied

(* A pointer word is no part of what is said of a block here. *)
LEMMA WrittenSame ==
  ASSUME NEW s \in Seq(Block), ids \in Nat, NEW k \in 1 .. Len(s), NEW w \in 1 .. Len(s[k].ptrs),
         NEW v \in Nat
  PROVE  /\ Len(SetWord(s, k, w, v)) = Len(s)
         /\ \A j \in 1 .. Len(s) :
              SetWord(s, k, w, v)[j].id = s[j].id /\ SetWord(s, k, w, v)[j].ty = s[j].ty
<1>. DEFINE n == ids
            r == SetWord(s, k, w, v)
<1>1. s \in Seq(BlockOf(n))
  BY DEF Block
<1>2. WrittenWord(n, s, k, w, v, r)
  BY <1>1, WriteWord
<1>. QED BY <1>2 DEF WrittenWord

(* The program's writes change one pointer word. *)
LEMMA StoreOnce ==
  ASSUME IInv, OnceInv, NEW c \in Cells, NEW d \in Cells, Store(c, d)
  PROVE  OnceInv'
<1>1. ~Collecting /\ ~Collecting' /\ phase = "run"
  BY DEF Store, Collecting
<1>2. PICK k \in 1 .. Len(blocks), v \in Nat : k = roots[c] /\ v = roots[d]
  <2>1. roots[c] \in 1 .. Len(blocks) /\ roots[d] \in Nat
    BY <1>1, InFromSpace DEF Store, Null
  <2>. QED BY <2>1
<1>3. blocks \in Seq(Block) /\ ids \in Nat /\ DOMAIN blocks[k].ptrs = 1 .. Len(blocks[k].ptrs)
  BY BlockShape, LenProperties DEF IInv, TypeOK
<1>4. PICK w \in 1 .. Len(blocks[k].ptrs) : blocks' = SetWord(blocks, k, w, v)
  BY <1>2, <1>3 DEF Store
<1>5. /\ Len(blocks') = Len(blocks)
      /\ \A b \in 1 .. Len(blocks) : blocks'[b].id = blocks[b].id /\ blocks'[b].ty = blocks[b].ty
  BY <1>3, <1>4, WrittenSame
<1>6. UNCHANGED <<forward, copies, finalized>>
  BY DEF Store, gcVars
<1>. QED BY <1>1, <1>5, <1>6, NothingCopied

(* A new block has an id of its own, which was never finalised. *)
LEMMA PlaceOnce ==
  ASSUME IInv, OnceInv, ~Collecting, ~Collecting', NEW ty \in Types, NEW c \in Cells,
         Place(ty, c), UNCHANGED finalized
  PROVE  OnceInv'
<1>. DEFINE n == Len(blocks) + 1
            new == NewBlock(ty, ids + 1)
<1>1. /\ ids \in Nat /\ blocks \in Seq(Block) /\ Len(blocks) \in Nat /\ finalized \subseteq 1 .. ids
      /\ \A b \in 1 .. Len(blocks) : blocks[b].id \in 1 .. ids
  BY BlockShape DEF IInv, TypeOK, Block, BlockOf
<1>2. blocks \in Seq(BlockOf(ids + 1)) /\ new \in BlockOf(ids + 1) /\ new.id = ids + 1
  BY <1>1, BlocksGrow, NewBlockShape DEF Block, NewBlock
<1>3. blocks' = Append(blocks, new)
  BY DEF Place
<1>. HIDE DEF new
<1>4. /\ Len(blocks') = n /\ blocks'[n] = new
      /\ \A b \in 1 .. Len(blocks) : blocks'[b] = blocks[b]
  BY <1>1, <1>2, <1>3, AppendProperties
<1>5. \A b \in 1 .. n : b = n \/ b \in 1 .. Len(blocks)
  BY <1>1
<1>6. ids + 1 \notin finalized /\ \A b \in 1 .. Len(blocks) : blocks[b].id # ids + 1
  BY <1>1
<1>7. IdInv'
  BY <1>2, <1>4, <1>5, <1>6 DEF OnceInv, IdInv
<1>8. DoneInv'
  <2>1. \A b \in 1 .. Len(blocks) : blocks[b].id \notin finalized
    BY DEF OnceInv, DoneInv, Collecting
  <2>. QED BY <1>2, <1>4, <1>5, <1>6, <2>1 DEF DoneInv
<1>9. CopiedOnce'
  BY DEF CopiedOnce
<1>. QED BY <1>7, <1>8, <1>9 DEF OnceInv

(* A collection begins with no copy and no finalised block. *)
LEMMA BeginCopyOnce ==
  ASSUME IInv, OnceInv, BeginCopy
  PROVE  OnceInv'
<1>1. /\ ~Collecting /\ UNCHANGED <<blocks, finalized>>
      /\ forward' = [b \in 1 .. Len(blocks) |-> Null] /\ copies' = << >>
  BY DEF BeginCopy, Collecting
<1>2. \A b \in 1 .. Len(blocks) : blocks[b].id \notin finalized
  BY <1>1 DEF OnceInv, DoneInv, Collecting
<1>3. Len(copies') = 0
  BY <1>1
<1>. QED BY <1>1, <1>2, <1>3 DEF OnceInv, IdInv, DoneInv, CopiedOnce

-----------------------------------------------------------------------------
(* A pointer to block p is followed: p is copied if it was not yet. *)
LEMMA ForwardOnce ==
  ASSUME IInv, OnceInv, Collecting, Collecting', phase # "finalize", NEW p \in 1 .. Len(blocks),
         forward' = ForwardWith(p), Len(copies') = Len(CopiesWith(p)),
         \A t \in 1 .. Len(copies') :
           copies'[t].id = CopiesWith(p)[t].id /\ copies'[t].ty = CopiesWith(p)[t].ty,
         UNCHANGED <<blocks, finalized>>
  PROVE  OnceInv'
<1>1. /\ forward \in Seq(Nat) /\ Len(forward) = Len(blocks) /\ DOMAIN forward = 1 .. Len(blocks)
      /\ copies \in Seq(Block) /\ Len(copies) \in Nat
      /\ \A b \in 1 .. Len(blocks) : forward[b] \in Nat /\ forward[b] <= Len(copies)
  BY BlockShape, LenProperties DEF IInv, TypeOK, PhaseInv, ForwardInv
<1>2. /\ \A t \in 1 .. Len(copies) : \E b \in 1 .. Len(blocks) :
           forward[b] = t /\ copies[t].id = blocks[b].id /\ copies[t].ty = blocks[b].ty
      /\ \A a, b \in 1 .. Len(blocks) : forward[a] = forward[b] /\ a # b => forward[a] = Null
  BY DEF OnceInv, CopiedOnce
<1>3. IdInv' /\ DoneInv'
  BY DEF OnceInv, IdInv, DoneInv
<1>4. \A b \in 1 .. Len(blocks) : forward'[b] = IF b = p THEN Forwarded(p) ELSE forward[b]
  BY <1>1 DEF ForwardWith
<1>5. CASE forward[p] = Null
  <2>. DEFINE n == Len(copies) + 1
  <2>1. Forwarded(p) = n /\ CopiesWith(p) = Append(copies, blocks[p]) /\ n \in Nat /\ n # Null
    BY <1>1, <1>5 DEF Forwarded, CopiesWith, Null
  <2>2. blocks[p] \in Block
    BY BlockShape DEF IInv
  <2>3. /\ Len(copies') = n /\ CopiesWith(p)[n] = blocks[p]
        /\ \A t \in 1 .. Len(copies) : CopiesWith(p)[t] = copies[t]
    BY <1>1, <2>1, <2>2, AppendProperties
  <2>4. \A t \in 1 .. n : t = n \/ t \in 1 .. Len(copies)
    BY <1>1
  <2>5. \A b \in 1 .. Len(blocks) : forward[b] # n
    BY <1>1
  <2>. HIDE DEF n
  <2>6. ASSUME NEW t \in 1 .. n
        PROVE  \E b \in 1 .. Len(blocks) :
                 forward'[b] = t /\ copies'[t].id = blocks[b].id /\ copies'[t].ty = blocks[b].ty
    <3>1. CASE t = n
      BY <1>4, <2>1, <2>3, <3>1
    <3>2. CASE t \in 1 .. Len(copies)
      <4>1. PICK b \in 1 .. Len(blocks) :
              forward[b] = t /\ copies[t].id = blocks[b].id /\ copies[t].ty = blocks[b].ty
        BY <1>2, <3>2
      <4>2. t # Null
        BY <3>2 DEF Null
      <4>3. b # p
        BY <1>5, <4>1, <4>2
      <4>4. forward'[b] = t
        BY <1>4, <4>1, <4>3
      <4>. QED BY <2>3, <3>2, <4>1, <4>4
    <3>. QED BY <2>4, <3>1, <3>2
  <2>7. ASSUME NEW a \in 1 .. Len(blocks), NEW b \in 1 .. Len(blocks), forward'[a] = forward'[b], a # b
        PROVE  forward'[a] = Null
    BY <1>2, <1>4, <2>1, <2>5, <2>7
  <2>. QED BY <1>3, <2>3, <2>6, <2>7 DEF OnceInv, CopiedOnce
<1>6. CASE forward[p] # Null
  <2>1. CopiesWith(p) = copies /\ Forwarded(p) = forward[p]
    BY <1>6 DEF CopiesWith, Forwarded
  <2>2. \A b \in 1 .. Len(blocks) : forward'[b] = forward[b]
    BY <1>4, <2>1
  <2>3. /\ Len(copies') = Len(copies)
        /\ \A t \in 1 .. Len(copies) : copies'[t].id = copies[t].id /\ copies'[t].ty = copies[t].ty
    BY <2>1
  <2>4. \A t \in 1 .. Len(copies') : \E b \in 1 .. Len(blocks') :
          forward'[b] = t /\ copies'[t].id = blocks'[b].id /\ copies'[t].ty = blocks'[b].ty
    BY <1>2, <2>2, <2>3
  <2>5. \A a, b \in 1 .. Len(blocks') : forward'[a] = forward'[b] /\ a # b => forward'[a] = Null
    BY <1>2, <2>2
  <2>. QED BY <1>3, <2>4, <2>5 DEF OnceInv, CopiedOnce
<1>. QED BY <1>5, <1>6

(* A root cell is forwarded: the block it points to is copied at most once. *)
LEMMA ForwardRootOnce ==
  ASSUME IInv, OnceInv, NEW c \in Cells, ForwardRoot(c)
  PROVE  OnceInv'
<1>1. Collecting /\ Collecting' /\ phase = "roots" /\ UNCHANGED <<blocks, finalized>>
  BY DEF ForwardRoot, Collecting, heapVars
<1>2. roots[c] \in 0 .. Len(blocks)
  BY <1>1, BlockShape DEF IInv, TypeOK, NoDangling, RootLimit, ForwardRoot
<1>3. CASE roots[c] = Null
  <2>1. UNCHANGED <<forward, copies>>
    BY <1>3 DEF ForwardRoot
  <2>. QED BY <1>1, <2>1, NothingCopied
<1>4. CASE roots[c] # Null
  <2>1. PICK p \in 1 .. Len(blocks) : p = roots[c]
    BY <1>2, <1>4 DEF Null
  <2>2. forward' = ForwardWith(p) /\ copies' = CopiesWith(p)
    BY <1>4, <2>1 DEF ForwardRoot
  <2>. QED BY <1>1, <2>2, ForwardOnce
<1>. QED BY <1>3, <1>4

(* A word of a copy is forwarded in the same way, and then overwritten. *)
LEMMA ScanWordOnce ==
  ASSUME IInv, OnceInv, ScanWord
  PROVE  OnceInv'
<1>. DEFINE child == copies[scan].ptrs[word]
<1>1. /\ Collecting /\ Collecting' /\ phase = "scan" /\ UNCHANGED <<blocks, finalized>>
      /\ scan <= Len(copies) /\ word <= Len(copies[scan].ptrs)
  BY DEF ScanWord, Collecting, heapVars
<1>2. /\ scan \in 1 .. Len(copies) /\ word \in 1 .. Len(copies[scan].ptrs) /\ ids \in Nat
      /\ child \in Nat
  <2>1. scan \in 1 .. Len(copies) /\ ids \in Nat
    BY <1>1, BlockShape DEF IInv, TypeOK
  <2>2. word \in 1 .. Len(copies[scan].ptrs)
    BY <1>1, <2>1, BlockShape DEF IInv, TypeOK
  <2>. QED BY <2>1, <2>2, BlockShape DEF IInv
<1>3. child <= Len(blocks)
  <2>1. ~Scanned(scan, word)
    BY <1>2, BlockShape DEF Scanned, IInv, TypeOK
  <2>. QED BY <1>2, <2>1 DEF IInv, NoDangling, WordLimit
<1>4. CASE child = Null
  <2>1. UNCHANGED <<forward, copies>>
    BY <1>4 DEF ScanWord
  <2>. QED BY <1>1, <2>1, NothingCopied
<1>5. CASE child # Null
  <2>1. PICK p \in 1 .. Len(blocks) : p = child
    <3>1. child \in 1 .. Len(blocks)
      BY <1>2, <1>3, <1>5, BlockShape DEF Null, IInv
    <3>. QED BY <3>1
  <2>2. forward' = ForwardWith(p) /\ copies' = SetWord(CopiesWith(p), scan, word, Forwarded(p))
    BY <1>5, <2>1 DEF ScanWord
  <2>. HIDE DEF child
  <2>3. /\ CopiesWith(p) \in Seq(Block) /\ Forwarded(p) \in Nat
        /\ scan \in 1 .. Len(CopiesWith(p)) /\ CopiesWith(p)[scan] = copies[scan]
    <3>1. /\ CopiesWith(p) \in Seq(Block) /\ Forwarded(p) \in 1 .. Len(CopiesWith(p))
          /\ Len(CopiesWith(p)) \in {Len(copies), Len(copies) + 1}
          /\ CopiesWith(p)[scan] = copies[scan]
      BY <1>1, <1>2, ForwardShape
    <3>2. Len(copies) \in Nat
      BY BlockShape DEF IInv
    <3>. QED BY <1>2, <3>1, <3>2
  <2>4. /\ Len(copies') = Len(CopiesWith(p))
        /\ \A t \in 1 .. Len(copies') :
             copies'[t].id = CopiesWith(p)[t].id /\ copies'[t].ty = CopiesWith(p)[t].ty
    BY <1>2, <2>2, <2>3, WrittenSame
  <2>. QED BY <1>1, <2>2, <2>4, ForwardOnce
<1>. QED BY <1>4, <1>5

-----------------------------------------------------------------------------
(* Only the block at hand has the id that is finalised. *)
LEMMA FinalizeOnce ==
  ASSUME IInv, OnceInv, Finalize
  PROVE  OnceInv'
<1>1. /\ phase = "finalize" /\ phase' = phase /\ visit <= Len(blocks) /\ visit' = visit + 1
      /\ UNCHANGED <<blocks, forward, copies>> /\ Collecting /\ Collecting'
      /\ finalized' = IF forward[visit] = Null THEN finalized \cup {blocks[visit].id} ELSE finalized
  BY DEF Finalize, heapVars, Collecting
<1>2. visit \in 1 .. Len(blocks) /\ visit \in Nat /\ Len(blocks) \in Nat
  BY <1>1, BlockShape DEF IInv, TypeOK
<1>3. DoneInv'
  <2>. SUFFICES ASSUME NEW b \in 1 .. Len(blocks), blocks[b].id \in finalized'
                PROVE  b < visit + 1 /\ forward[b] = Null
    BY <1>1 DEF DoneInv
  <2>1. CASE blocks[b].id \in finalized
    BY <1>2, <2>1 DEF OnceInv, DoneInv
  <2>2. CASE blocks[b].id \notin finalized
    <3>1. forward[visit] = Null /\ blocks[b].id = blocks[visit].id
      BY <1>1, <2>2
    <3>2. b = visit
      BY <1>2, <3>1 DEF OnceInv, IdInv
    <3>. QED BY <1>2, <3>1, <3>2
  <2>. QED BY <2>1, <2>2
<1>4. IdInv' /\ CopiedOnce'
  BY <1>1 DEF OnceInv, IdInv, CopiedOnce
<1>. QED BY <1>3, <1>4 DEF OnceInv

(* The copies become the blocks: each is the copy of one block that was not *)
(* finalised.                                                               *)
LEMMA SwapOnce ==
  ASSUME IInv, OnceInv, Swap
  PROVE  OnceInv'
<1>1. /\ phase = "finalize" /\ blocks' = copies /\ UNCHANGED finalized
      /\ Collecting /\ ~Collecting'
  BY DEF Swap, Collecting
<1>2. ASSUME NEW t \in 1 .. Len(copies)
      PROVE  \E b \in 1 .. Len(blocks) :
               forward[b] = t /\ copies[t].id = blocks[b].id /\ forward[b] # Null
  <2>1. t # Null
    BY DEF Null
  <2>. QED BY <1>1, <2>1 DEF OnceInv, CopiedOnce
<1>3. ASSUME NEW s \in 1 .. Len(copies), NEW t \in 1 .. Len(copies), copies[s].id = copies[t].id
      PROVE  s = t
  <2>1. PICK a \in 1 .. Len(blocks) : forward[a] = s /\ copies[s].id = blocks[a].id
    BY <1>2
  <2>2. PICK b \in 1 .. Len(blocks) : forward[b] = t /\ copies[t].id = blocks[b].id
    BY <1>2
  <2>3. a = b
    BY <1>3, <2>1, <2>2 DEF OnceInv, IdInv
  <2>. QED BY <2>1, <2>2, <2>3
<1>4. ASSUME NEW t \in 1 .. Len(copies) PROVE copies[t].id \notin finalized
  BY <1>2 DEF OnceInv, DoneInv
<1>5. IdInv' /\ DoneInv' /\ CopiedOnce'
  BY <1>1, <1>3, <1>4 DEF IdInv, DoneInv, CopiedOnce
<1>. QED BY <1>5 DEF OnceInv

-----------------------------------------------------------------------------
(* Every step keeps what is said of copies and of finalised blocks. *)
LEMMA OnceStep ==
  ASSUME IInv, OnceInv, [Next]_vars
  PROVE  OnceInv'
<1>1. ASSUME NEW c \in Cells, NEW d \in Cells, CopyRoot(c, d) \/ Load(c, d) \/ Store(c, d)
      PROVE  OnceInv'
  BY <1>1, AccessOnce, StoreOnce
<1>2. ASSUME NEW c \in Cells, DropRoot(c) \/ ForwardRoot(c)
      PROVE  OnceInv'
  BY <1>2, AccessOnce, ForwardRootOnce
<1>3. ASSUME NEW ty \in Types, NEW c \in Cells, Alloc(ty, c) \/ AllocFails(ty, c)
      PROVE  OnceInv'
  <2>1. CASE Alloc(ty, c)
    BY <2>1, PlaceOnce DEF Alloc, Collecting
  <2>. QED BY <1>3, <2>1, AccessOnce
<1>4. CASE Retry
  <2>1. request.ty \in Types /\ request.cell \in Cells
    BY <1>4 DEF Retry, IInv, TypeOK
  <2>. QED BY <1>4, <2>1, PlaceOnce DEF Retry, Collecting
<1>5. CASE BeginCopy \/ ScanWord \/ Finalize \/ Swap
  BY <1>5, BeginCopyOnce, ScanWordOnce, FinalizeOnce, SwapOnce
<1>6. CASE RetryFails \/ BeginScan \/ ScanNext \/ BeginFinalize
  BY <1>6, AccessOnce
<1>7. CASE UNCHANGED vars
  BY <1>7 DEF vars, heapVars, gcVars, OnceInv, IdInv, CopiedOnce, DoneInv, Collecting
<1>. QED BY <1>1, <1>2, <1>3, <1>4, <1>5, <1>6, <1>7 DEF Next, Mutator, Collector

(* Ids, copies and finalised blocks, for any number of cells, types and    *)
(* blocks.                                                                 *)
THEOREM OnceHolds == Spec => []OnceInv
<1>1. Init => OnceInv
  BY DEF Init, OnceInv, IdInv, CopiedOnce, DoneInv, Collecting
<1>. QED BY <1>1, OnceStep, InvariantHolds, PTL DEF Spec

(* Forwarder::forward copies a block once and leaves the address of its     *)
(* copy, whatever the graph: what was shared is shared after a collection.  *)
THEOREM CopiesOnce == Spec => []CopiedOnce
BY OnceHolds, PTL DEF OnceInv

(* The second heap walk of copy finalises what the program never sees again. *)
THEOREM FinalizedAreGone == Spec => []FinalizedGone
<1>1. OnceInv => FinalizedGone
  BY DEF OnceInv, DoneInv, FinalizedGone, Collecting
<1>. QED BY <1>1, OnceHolds, PTL

-----------------------------------------------------------------------------

(* sums are the partial sums of the first n sizes, so total is their sum.   *)
PartialSums(n, sizes, total, sums) ==
  /\ sums \in [0 .. n -> Nat]
  /\ sums[0] = 0 /\ sums[n] = total
  /\ \A i \in 1 .. n : sums[i] = sums[i - 1] + sizes[i]
  /\ \A i, j \in 0 .. n : i <= j => sums[i] <= sums[j]

Sum(n, sizes, total) == \E sums \in [0 .. n -> Nat] : PartialSums(n, sizes, total, sums)

Sizes(space) == [b \in 1 .. Len(space) |-> BlockSize(space[b].ty)]

(* The sizes of the blocks that have no copy, with nothing for the others. *)
LeftSizes ==
  [b \in 1 .. Len(blocks) |-> IF forward[b] = Null THEN BlockSize(blocks[b].ty) ELSE 0]

(* The words in use are the sizes of the blocks, and what was copied and   *)
(* what was not are together what from-space holds.                        *)
RoomInv ==
  /\ Sum(Len(blocks), Sizes(blocks), offset)
  /\ offset <= HighMark(fromSize)
  /\ Collecting =>
       /\ Sum(Len(copies), Sizes(copies), target)
       /\ fromSize <= toSize
       /\ \E left \in Nat : Sum(Len(blocks), LeftSizes, left) /\ left + target = offset

-----------------------------------------------------------------------------
(* No block, no words. *)
LEMMA SumOfNone ==
  ASSUME NEW sizes
  PROVE  Sum(0, sizes, 0)
<1>. DEFINE s == [i \in 0 .. 0 |-> 0]
<1>1. s \in [0 .. 0 -> Nat] /\ s[0] = 0
  OBVIOUS
<1>. HIDE DEF s
<1>2. PartialSums(0, sizes, 0, s)
  BY <1>1 DEF PartialSums
<1>. QED BY <1>1, <1>2 DEF Sum

(* A sum says nothing of the sizes but their values. *)
LEMMA SumOfSame ==
  ASSUME NEW n \in Nat, NEW total, NEW s, NEW r, Sum(n, s, total), \A i \in 1 .. n : s[i] = r[i]
  PROVE  Sum(n, r, total)
BY DEF Sum, PartialSums

(* One more size. *)
LEMMA SumOfMore ==
  ASSUME NEW n \in Nat, NEW total \in Nat, NEW s, NEW r, Sum(n, s, total),
         \A i \in 1 .. n : s[i] = r[i], r[n + 1] \in Nat
  PROVE  Sum(n + 1, r, total + r[n + 1])
<1>1. PICK p \in [0 .. n -> Nat] : PartialSums(n, s, total, p)
  BY DEF Sum
<1>. DEFINE v == total + r[n + 1]
            q == [i \in 0 .. n + 1 |-> IF i = n + 1 THEN v ELSE p[i]]
<1>2. v \in Nat
  OBVIOUS
<1>3. /\ q \in [0 .. n + 1 -> Nat] /\ q[n + 1] = v
      /\ \A i \in 0 .. n : q[i] = p[i]
  BY <1>2
<1>. HIDE DEF q
<1>4. q[0] = 0
  BY <1>1, <1>3 DEF PartialSums
<1>5. ASSUME NEW i \in 1 .. n + 1 PROVE q[i] = q[i - 1] + r[i]
  <2>1. CASE i = n + 1
    BY <1>1, <1>3, <2>1 DEF PartialSums
  <2>2. CASE i # n + 1
    <3>1. i \in 1 .. n /\ i - 1 \in 0 .. n /\ i \in 0 .. n
      BY <2>2
    <3>. QED BY <1>1, <1>3, <3>1 DEF PartialSums
  <2>. QED BY <2>1, <2>2
<1>6. ASSUME NEW i \in 0 .. n + 1, NEW j \in 0 .. n + 1, i <= j PROVE q[i] <= q[j]
  <2>1. CASE j = n + 1 /\ i = n + 1
    BY <1>2, <1>3, <2>1
  <2>2. CASE j = n + 1 /\ i # n + 1
    <3>1. i \in 0 .. n /\ n \in 0 .. n
      BY <2>2
    <3>2. p[i] <= p[n] /\ p[n] = total /\ p[i] \in Nat
      BY <1>1, <3>1 DEF PartialSums
    <3>. QED BY <1>3, <2>2, <3>1, <3>2
  <2>3. CASE j # n + 1
    <3>1. i \in 0 .. n /\ j \in 0 .. n
      BY <1>6, <2>3
    <3>. QED BY <1>1, <1>3, <1>6, <3>1 DEF PartialSums
  <2>. QED BY <2>1, <2>2, <2>3
<1>. HIDE DEF v
<1>7. PartialSums(n + 1, r, v, q)
  BY <1>3, <1>4, <1>5, <1>6 DEF PartialSums
<1>8. Sum(n + 1, r, v)
  BY <1>3, <1>7 DEF Sum
<1>. QED BY <1>8 DEF v

(* One of the sizes becomes nothing. *)
LEMMA SumOfLess ==
  ASSUME NEW n \in Nat, NEW total \in Nat, NEW s, NEW r, Sum(n, s, total), NEW k \in 1 .. n,
         r[k] = 0, s[k] \in Nat, \A i \in 1 .. n : s[i] \in Nat /\ (i # k => r[i] = s[i])
  PROVE  s[k] <= total /\ Sum(n, r, total - s[k])
<1>1. PICK p \in [0 .. n -> Nat] : PartialSums(n, s, total, p)
  BY DEF Sum
<1>. DEFINE q == [i \in 0 .. n |-> IF i < k THEN p[i] ELSE p[i] - s[k]]
<1>2. k - 1 \in 0 .. n /\ k \in 0 .. n /\ n \in 0 .. n
  OBVIOUS
<1>3. p[k] = p[k - 1] + s[k] /\ p[k - 1] \in Nat /\ p[n] = total /\ p[0] = 0
  BY <1>1, <1>2 DEF PartialSums
<1>4. \A i, j \in 0 .. n : i <= j => p[i] <= p[j]
  BY <1>1 DEF PartialSums
<1>5. \A i \in 0 .. n : i >= k => s[k] <= p[i] /\ p[i] - s[k] >= p[k - 1]
  BY <1>2, <1>3, <1>4
<1>6. s[k] <= total
  BY <1>2, <1>3, <1>5
<1>7. q \in [0 .. n -> Nat]
  BY <1>5
<1>8. \A i \in 0 .. n : q[i] = IF i < k THEN p[i] ELSE p[i] - s[k]
  OBVIOUS
<1>. HIDE DEF q
<1>9. q[0] = 0 /\ q[n] = total - s[k]
  BY <1>2, <1>3, <1>8
<1>10. ASSUME NEW i \in 1 .. n PROVE q[i] = q[i - 1] + r[i]
  <2>1. i \in 0 .. n /\ i - 1 \in 0 .. n /\ p[i] = p[i - 1] + s[i] /\ p[i] \in Nat /\ p[i - 1] \in Nat
    BY <1>1 DEF PartialSums
  <2>2. CASE i = k
    BY <1>3, <1>8, <2>1, <2>2
  <2>3. CASE i < k
    BY <1>8, <2>1, <2>3
  <2>4. CASE i > k
    BY <1>8, <2>1, <2>4
  <2>. QED BY <2>2, <2>3, <2>4
<1>11. ASSUME NEW i \in 0 .. n, NEW j \in 0 .. n, i <= j PROVE q[i] <= q[j]
  <2>1. p[i] \in Nat /\ p[j] \in Nat /\ p[i] <= p[j]
    BY <1>4, <1>11
  <2>2. CASE i < k /\ j >= k
    <3>1. p[i] <= p[k - 1]
      BY <1>2, <1>4, <2>2
    <3>. QED BY <1>3, <1>5, <1>8, <2>1, <2>2, <3>1
  <2>3. CASE i >= k \/ j < k
    BY <1>8, <1>11, <2>1, <2>3
  <2>. QED BY <2>2, <2>3
<1>12. PartialSums(n, r, total - s[k], q)
  BY <1>7, <1>9, <1>10, <1>11 DEF PartialSums
<1>. QED BY <1>6, <1>7, <1>12 DEF Sum

-----------------------------------------------------------------------------
(* The high mark of a larger space is no lower, and within the space.      *)
LEMMA HighMarkGrows ==
  ASSUME NEW a \in Nat, NEW b \in Nat, a <= b
  PROVE  HighMark(a) <= HighMark(b) /\ HighMark(b) <= b /\ HighMark(a) \in Nat
<1>. DEFINE x == a * InitGc
            y == b * InitGc
<1>1. InitGc \in 0 .. 100
  BY OptsAssumption
<1>2. x \in Nat /\ y \in Nat /\ x <= y /\ y <= b * 100
  BY <1>1
<1>. HIDE DEF x, y
<1>3. x \div 100 <= y \div 100 /\ y \div 100 <= b /\ x \div 100 \in Nat
  BY <1>2
<1>. QED BY <1>3 DEF HighMark, x, y

(* The next to-space is no smaller than the space it is a copy of. *)
LEMMA TargetSizeCovers ==
  ASSUME TypeOK
  PROVE  TargetSize \in Nat /\ fromSize <= TargetSize
<1>. DEFINE room  == AtLeast(fromSize, offset + lastFailed)
            grown == IF 2 * lastUsed[1] > lastUsed[2]
                       THEN (room * GrowthFactor) \div 100
                       ELSE room
            fill  == (100 * lastUsed[1]) \div lastUsed[2]
            kept  == AtLeast(grown, (grown * fill) \div 100)
<1>1. room \in Nat /\ fromSize <= room /\ fromSize \in Nat
  BY DEF TypeOK, AtLeast
<1>2. GrowthFactor \in Nat /\ GrowthFactor >= 100
  BY OptsAssumption DEF GrowthFactor
<1>3. lastUsed[1] \in Nat /\ lastUsed[2] \in Nat \ {0}
  BY DEF TypeOK
<1>4. fill \in Nat
  BY <1>3
<1>5. grown \in Nat /\ room <= grown
  <2>. HIDE DEF room
  <2>1. room * GrowthFactor \in Nat /\ room * GrowthFactor >= room * 100
    BY <1>1, <1>2
  <2>2. (room * GrowthFactor) \div 100 \in Nat /\ room <= (room * GrowthFactor) \div 100
    BY <1>1, <2>1
  <2>. QED BY <1>1, <2>2
<1>6. kept \in Nat /\ grown <= kept
  <2>. HIDE DEF grown, fill
  <2>1. grown * fill \in Nat
    BY <1>4, <1>5
  <2>. QED BY <1>5, <2>1 DEF AtLeast
<1>7. TargetSize = RoundUp(AtLeast(kept, InitialHeap))
  BY DEF TargetSize
<1>. HIDE DEF room, grown, kept
<1>8. AtLeast(kept, InitialHeap) \in Nat /\ kept <= AtLeast(kept, InitialHeap)
  BY <1>6, OptsAssumption DEF AtLeast
<1>9. TargetSize \in Nat /\ AtLeast(kept, InitialHeap) <= TargetSize
  BY <1>7, <1>8, RoundUpAtLeast
<1>. QED BY <1>1, <1>5, <1>6, <1>8, <1>9

(* The sizes of blocks are numbers. *)
LEMMA SizesShape ==
  ASSUME TypeOK
  PROVE  /\ Len(blocks) \in Nat /\ Len(copies) \in Nat
         /\ \A ty \in Types : BlockSize(ty) \in Nat
         /\ \A b \in 1 .. Len(blocks) :
              Sizes(blocks)[b] = BlockSize(blocks[b].ty) /\ BlockSize(blocks[b].ty) \in Nat
         /\ \A t \in 1 .. Len(copies) :
              Sizes(copies)[t] = BlockSize(copies[t].ty) /\ BlockSize(copies[t].ty) \in Nat
<1>1. \A ty \in Types : BlockSize(ty) \in Nat
  BY ShapeAssumption DEF BlockSize
<1>2. \A x \in Block : x.ty \in Types
  BY DEF Block, BlockOf
<1>. QED BY <1>1, <1>2, BlockShape DEF Sizes

-----------------------------------------------------------------------------
(* Steps that neither place, copy nor drop a block, whatever they write.   *)
LEMMA NothingPlaced ==
  ASSUME RoomInv, UNCHANGED <<offset, fromSize, toSize, forward, target>>,
         Len(blocks) \in Nat, Len(copies) \in Nat, Collecting' => Collecting,
         Len(blocks') = Len(blocks), \A b \in 1 .. Len(blocks) : blocks'[b].ty = blocks[b].ty,
         Len(copies') = Len(copies), \A t \in 1 .. Len(copies) : copies'[t].ty = copies[t].ty
  PROVE  RoomInv'
<1>1. /\ \A b \in 1 .. Len(blocks) : Sizes(blocks)[b] = Sizes(blocks')[b]
      /\ \A b \in 1 .. Len(blocks) : LeftSizes[b] = LeftSizes'[b]
      /\ \A t \in 1 .. Len(copies) : Sizes(copies)[t] = Sizes(copies')[t]
  BY DEF Sizes, LeftSizes
<1>2. Sum(Len(blocks'), Sizes(blocks'), offset')
  BY <1>1, SumOfSame DEF RoomInv
<1>3. ASSUME Collecting
      PROVE  /\ Sum(Len(copies'), Sizes(copies'), target')
             /\ \E left \in Nat : Sum(Len(blocks'), LeftSizes', left) /\ left + target = offset
  <2>1. Sum(Len(copies'), Sizes(copies'), target')
    BY <1>1, <1>3, SumOfSame DEF RoomInv
  <2>2. PICK left \in Nat : Sum(Len(blocks), LeftSizes, left) /\ left + target = offset
    BY <1>3 DEF RoomInv
  <2>3. Sum(Len(blocks), LeftSizes', left)
    BY <1>1, <2>2, SumOfSame
  <2>. QED BY <2>1, <2>2, <2>3
<1>. QED BY <1>2, <1>3 DEF RoomInv

(* The program's reads, and the collector's steps between two copies.      *)
LEMMA AccessRoom ==
  ASSUME IInv, RoomInv,
         \/ \E c, d \in Cells : CopyRoot(c, d) \/ Load(c, d)
         \/ \E c \in Cells : DropRoot(c)
         \/ \E ty \in Types, c \in Cells : AllocFails(ty, c)
         \/ RetryFails \/ BeginScan \/ ScanNext \/ BeginFinalize \/ Finalize
  PROVE  RoomInv'
<1>1. UNCHANGED <<blocks, copies, offset, fromSize, toSize, forward, target>>
  BY DEF CopyRoot, Load, DropRoot, AllocFails, RetryFails, BeginScan, ScanNext, BeginFinalize,
         Finalize, heapVars, gcVars
<1>2. Collecting' => Collecting
  BY DEF CopyRoot, Load, DropRoot, AllocFails, RetryFails, BeginScan, ScanNext, BeginFinalize,
         Finalize, Collecting
<1>3. Len(blocks) \in Nat /\ Len(copies) \in Nat
  BY BlockShape DEF IInv
<1>. QED BY <1>1, <1>2, <1>3, NothingPlaced

(* A write to a pointer word changes no size. *)
LEMMA StoreRoom ==
  ASSUME IInv, RoomInv, NEW c \in Cells, NEW d \in Cells, Store(c, d)
  PROVE  RoomInv'
<1>1. /\ ~Collecting /\ ~Collecting'
      /\ UNCHANGED <<copies, offset, fromSize, toSize, forward, target>>
  BY DEF Store, Collecting, gcVars
<1>2. PICK k \in 1 .. Len(blocks), v \in Nat : k = roots[c] /\ v = roots[d]
  <2>1. roots[c] \in 1 .. Len(blocks) /\ roots[d] \in Nat
    BY <1>1, InFromSpace DEF Store, Null
  <2>. QED BY <2>1
<1>3. /\ blocks \in Seq(Block) /\ ids \in Nat /\ DOMAIN blocks[k].ptrs = 1 .. Len(blocks[k].ptrs)
      /\ Len(blocks) \in Nat /\ Len(copies) \in Nat
  BY BlockShape, LenProperties DEF IInv, TypeOK
<1>4. PICK w \in 1 .. Len(blocks[k].ptrs) : blocks' = SetWord(blocks, k, w, v)
  BY <1>2, <1>3 DEF Store
<1>5. /\ Len(blocks') = Len(blocks)
      /\ \A b \in 1 .. Len(blocks) : blocks'[b].ty = blocks[b].ty
  BY <1>3, <1>4, WrittenSame
<1>. QED BY <1>1, <1>3, <1>5, NothingPlaced

(* A block is placed where it fits. *)
LEMMA PlaceRoom ==
  ASSUME IInv, RoomInv, ~Collecting', NEW ty \in Types, NEW c \in Cells,
         Place(ty, c), Fits(ty), UNCHANGED fromSize
  PROVE  RoomInv'
<1>. DEFINE n == Len(blocks)
            new == NewBlock(ty, ids + 1)
<1>1. /\ TypeOK /\ ids \in Nat /\ blocks \in Seq(Block) /\ n \in Nat /\ offset \in Nat
      /\ BlockSize(ty) \in Nat
  BY BlockShape, SizesShape DEF IInv, TypeOK
<1>2. blocks \in Seq(BlockOf(ids + 1)) /\ new \in BlockOf(ids + 1) /\ new.ty = ty
  BY <1>1, BlocksGrow, NewBlockShape DEF Block, NewBlock
<1>3. blocks' = Append(blocks, new) /\ offset' = offset + BlockSize(ty)
  BY DEF Place
<1>. HIDE DEF new
<1>4. /\ Len(blocks') = n + 1 /\ blocks'[n + 1] = new
      /\ \A b \in 1 .. n : blocks'[b] = blocks[b]
  BY <1>1, <1>2, <1>3, AppendProperties
<1>5. /\ \A b \in 1 .. n : Sizes(blocks)[b] = Sizes(blocks')[b]
      /\ Sizes(blocks')[n + 1] = BlockSize(ty)
  BY <1>1, <1>2, <1>4 DEF Sizes
<1>6. Sum(n, Sizes(blocks), offset)
  BY DEF RoomInv
<1>. HIDE DEF n
<1>7. Sum(n + 1, Sizes(blocks'), offset + Sizes(blocks')[n + 1])
  BY <1>1, <1>5, <1>6, SumOfMore
<1>8. Sum(Len(blocks'), Sizes(blocks'), offset')
  BY <1>3, <1>4, <1>5, <1>7
<1>9. offset' <= HighMark(fromSize')
  BY <1>3 DEF Fits
<1>. QED BY <1>8, <1>9 DEF RoomInv

(* A collection begins with nothing copied, in a space large enough. *)
LEMMA BeginCopyRoom ==
  ASSUME IInv, RoomInv, BeginCopy
  PROVE  RoomInv'
<1>1. /\ TypeOK /\ UNCHANGED <<blocks, offset, fromSize>> /\ copies' = << >> /\ target' = 0
      /\ forward' = [b \in 1 .. Len(blocks) |-> Null] /\ toSize' = AtLeast(toSize, TargetSize)
  BY DEF BeginCopy, IInv
<1>2. fromSize <= toSize'
  BY <1>1, TargetSizeCovers DEF TypeOK, AtLeast
<1>3. Len(copies') = 0 /\ Sum(0, Sizes(copies'), 0)
  BY <1>1, SumOfNone
<1>4. Len(blocks) \in Nat /\ offset \in Nat
  BY <1>1, BlockShape DEF TypeOK
<1>5. \A b \in 1 .. Len(blocks) : Sizes(blocks)[b] = LeftSizes'[b]
  BY <1>1 DEF Sizes, LeftSizes
<1>6. Sum(Len(blocks), LeftSizes', offset)
  BY <1>4, <1>5, SumOfSame DEF RoomInv
<1>7. offset + 0 = offset
  BY <1>4
<1>. QED BY <1>1, <1>2, <1>3, <1>4, <1>6, <1>7 DEF RoomInv

-----------------------------------------------------------------------------
(* A block that is copied takes in to-space what it took in from-space.    *)
LEMMA ForwardRoom ==
  ASSUME IInv, RoomInv, Collecting, NEW p \in 1 .. Len(blocks),
         forward' = ForwardWith(p), target' = TargetWith(p), Len(copies') = Len(CopiesWith(p)),
         \A t \in 1 .. Len(copies') : copies'[t].ty = CopiesWith(p)[t].ty,
         UNCHANGED <<blocks, offset, fromSize, toSize>>
  PROVE  RoomInv'
<1>. DEFINE n == Len(copies)
            size == BlockSize(blocks[p].ty)
<1>1. /\ DOMAIN forward = 1 .. Len(blocks) /\ TypeOK /\ copies \in Seq(Block)
      /\ blocks[p] \in Block /\ target \in Nat /\ offset \in Nat
  BY BlockShape, LenProperties DEF IInv, TypeOK, PhaseInv
<1>2. n \in Nat /\ Len(blocks) \in Nat /\ size \in Nat
  BY <1>1, SizesShape
<1>3. \A b \in 1 .. Len(blocks) : forward'[b] = IF b = p THEN Forwarded(p) ELSE forward[b]
  BY <1>1 DEF ForwardWith
<1>4. CASE forward[p] = Null
  <2>1. /\ Forwarded(p) = n + 1 /\ n + 1 # Null /\ CopiesWith(p) = Append(copies, blocks[p])
        /\ target' = target + size
    BY <1>2, <1>4 DEF Forwarded, CopiesWith, TargetWith, Null
  <2>2. /\ Len(copies') = n + 1
        /\ \A t \in 1 .. n + 1 : copies'[t].ty = CopiesWith(p)[t].ty
        /\ CopiesWith(p)[n + 1] = blocks[p]
        /\ \A t \in 1 .. n : CopiesWith(p)[t] = copies[t]
    BY <1>1, <2>1, AppendProperties
  <2>3. n + 1 \in 1 .. n + 1 /\ \A t \in 1 .. n : t \in 1 .. n + 1
    BY <1>2
  <2>4. /\ \A t \in 1 .. n : Sizes(copies)[t] = Sizes(copies')[t]
        /\ Sizes(copies')[n + 1] = size
    BY <2>2, <2>3 DEF Sizes
  <2>5. Sum(n, Sizes(copies), target) /\ fromSize <= toSize
    BY DEF RoomInv
  <2>6. PICK left \in Nat : Sum(Len(blocks), LeftSizes, left) /\ left + target = offset
    BY DEF RoomInv
  <2>7. /\ LeftSizes[p] = size /\ LeftSizes'[p] = 0
        /\ \A b \in 1 .. Len(blocks) :
             LeftSizes[b] \in Nat /\ (b # p => LeftSizes'[b] = LeftSizes[b])
    <3>1. \A b \in 1 .. Len(blocks) : BlockSize(blocks[b].ty) \in Nat
      BY <1>1, SizesShape
    <3>. HIDE DEF n
    <3>. QED BY <1>3, <1>4, <2>1, <3>1 DEF LeftSizes
  <2>. HIDE DEF n, size
  <2>8. Sum(n + 1, Sizes(copies'), target + Sizes(copies')[n + 1])
    BY <1>1, <1>2, <2>4, <2>5, SumOfMore
  <2>9. size <= left /\ Sum(Len(blocks), LeftSizes', left - size)
    BY <1>2, <2>6, <2>7, SumOfLess
  <2>10. left - size \in Nat /\ (left - size) + target' = offset
    BY <1>1, <1>2, <2>1, <2>6, <2>9
  <2>11. Sum(Len(copies'), Sizes(copies'), target')
    BY <2>1, <2>2, <2>4, <2>8
  <2>12. \E l \in Nat : Sum(Len(blocks), LeftSizes', l) /\ l + target' = offset
    BY <2>9, <2>10
  <2>. QED BY <2>5, <2>11, <2>12 DEF RoomInv
<1>5. CASE forward[p] # Null
  <2>1. CopiesWith(p) = copies /\ TargetWith(p) = target /\ Forwarded(p) = forward[p]
    BY <1>5 DEF CopiesWith, TargetWith, Forwarded
  <2>2. forward \in [1 .. Len(blocks) -> Nat]
    BY <1>1, LenProperties DEF TypeOK
  <2>3. forward' = forward
    BY <2>1, <2>2 DEF ForwardWith
  <2>. QED BY <1>2, <2>1, <2>3, NothingPlaced
<1>. QED BY <1>4, <1>5

(* A root cell is forwarded. *)
LEMMA ForwardRootRoom ==
  ASSUME IInv, RoomInv, NEW c \in Cells, ForwardRoot(c)
  PROVE  RoomInv'
<1>1. Collecting /\ UNCHANGED <<blocks, offset, fromSize, toSize>>
  BY DEF ForwardRoot, Collecting, heapVars
<1>2. roots[c] \in 0 .. Len(blocks) /\ Len(blocks) \in Nat /\ Len(copies) \in Nat
  BY BlockShape DEF IInv, TypeOK, NoDangling, RootLimit, ForwardRoot
<1>3. CASE roots[c] = Null
  <2>1. UNCHANGED <<forward, copies, target>>
    BY <1>3 DEF ForwardRoot
  <2>. QED BY <1>1, <1>2, <2>1, NothingPlaced
<1>4. CASE roots[c] # Null
  <2>1. PICK p \in 1 .. Len(blocks) : p = roots[c]
    BY <1>2, <1>4 DEF Null
  <2>2. forward' = ForwardWith(p) /\ copies' = CopiesWith(p) /\ target' = TargetWith(p)
    BY <1>4, <2>1 DEF ForwardRoot
  <2>. QED BY <1>1, <2>2, ForwardRoom
<1>. QED BY <1>3, <1>4

(* A word of a copy is forwarded, and overwritten. *)
LEMMA ScanWordRoom ==
  ASSUME IInv, RoomInv, ScanWord
  PROVE  RoomInv'
<1>. DEFINE child == copies[scan].ptrs[word]
<1>1. /\ Collecting /\ phase = "scan" /\ UNCHANGED <<blocks, offset, fromSize, toSize>>
      /\ scan <= Len(copies) /\ word <= Len(copies[scan].ptrs)
  BY DEF ScanWord, Collecting, heapVars
<1>2. /\ scan \in 1 .. Len(copies) /\ word \in 1 .. Len(copies[scan].ptrs) /\ ids \in Nat
      /\ child \in Nat /\ Len(copies) \in Nat /\ Len(blocks) \in Nat
  <2>1. scan \in 1 .. Len(copies) /\ ids \in Nat
    BY <1>1, BlockShape DEF IInv, TypeOK
  <2>2. word \in 1 .. Len(copies[scan].ptrs)
    BY <1>1, <2>1, BlockShape DEF IInv, TypeOK
  <2>. QED BY <2>1, <2>2, BlockShape DEF IInv
<1>3. child <= Len(blocks)
  <2>1. ~Scanned(scan, word)
    BY <1>2, BlockShape DEF Scanned, IInv, TypeOK
  <2>. QED BY <1>2, <2>1 DEF IInv, NoDangling, WordLimit
<1>4. CASE child = Null
  <2>1. UNCHANGED <<forward, copies, target>>
    BY <1>4 DEF ScanWord
  <2>. QED BY <1>1, <1>2, <2>1, NothingPlaced
<1>5. CASE child # Null
  <2>1. PICK p \in 1 .. Len(blocks) : p = child
    <3>1. child \in 1 .. Len(blocks)
      BY <1>2, <1>3, <1>5 DEF Null
    <3>. QED BY <3>1
  <2>2. /\ forward' = ForwardWith(p) /\ target' = TargetWith(p)
        /\ copies' = SetWord(CopiesWith(p), scan, word, Forwarded(p))
    BY <1>5, <2>1 DEF ScanWord
  <2>. HIDE DEF child
  <2>3. /\ CopiesWith(p) \in Seq(Block) /\ Forwarded(p) \in 1 .. Len(CopiesWith(p))
        /\ Len(CopiesWith(p)) \in {Len(copies), Len(copies) + 1}
        /\ CopiesWith(p)[scan] = copies[scan]
    BY <1>1, <1>2, ForwardShape
  <2>4. Forwarded(p) \in Nat /\ scan \in 1 .. Len(CopiesWith(p))
    BY <1>2, <2>3
  <2>5. /\ Len(copies') = Len(CopiesWith(p))
        /\ \A t \in 1 .. Len(copies') : copies'[t].ty = CopiesWith(p)[t].ty
    BY <1>2, <2>2, <2>3, <2>4, WrittenSame
  <2>. QED BY <1>1, <2>2, <2>5, ForwardRoom
<1>. QED BY <1>4, <1>5

(* What was copied is below the high mark of the new space, as all that    *)
(* was there was below that of the old one.                                *)
LEMMA SwapRoom ==
  ASSUME IInv, RoomInv, Swap
  PROVE  RoomInv'
<1>1. /\ Collecting /\ ~Collecting' /\ blocks' = copies /\ offset' = target /\ fromSize' = toSize
      /\ fromSize \in Nat /\ toSize \in Nat /\ target \in Nat /\ offset \in Nat
  BY DEF Swap, Collecting, IInv, TypeOK
<1>2. Sum(Len(copies), Sizes(copies), target) /\ fromSize <= toSize
  BY <1>1 DEF RoomInv
<1>3. target <= offset /\ offset <= HighMark(fromSize)
  BY <1>1 DEF RoomInv
<1>4. /\ HighMark(fromSize) <= HighMark(toSize) /\ HighMark(fromSize) \in Nat
      /\ HighMark(toSize) \in Nat
  BY <1>1, <1>2, HighMarkGrows
<1>5. target <= HighMark(toSize)
  BY <1>1, <1>3, <1>4
<1>. QED BY <1>1, <1>2, <1>5 DEF RoomInv

-----------------------------------------------------------------------------
(* Every step keeps the sums. *)
LEMMA RoomStep ==
  ASSUME IInv, RoomInv, [Next]_vars
  PROVE  RoomInv'
<1>1. ASSUME NEW c \in Cells, NEW d \in Cells, CopyRoot(c, d) \/ Load(c, d) \/ Store(c, d)
      PROVE  RoomInv'
  BY <1>1, AccessRoom, StoreRoom
<1>2. ASSUME NEW c \in Cells, DropRoot(c) \/ ForwardRoot(c)
      PROVE  RoomInv'
  BY <1>2, AccessRoom, ForwardRootRoom
<1>3. ASSUME NEW ty \in Types, NEW c \in Cells, Alloc(ty, c) \/ AllocFails(ty, c)
      PROVE  RoomInv'
  <2>1. CASE Alloc(ty, c)
    BY <2>1, PlaceRoom DEF Alloc, Collecting
  <2>. QED BY <1>3, <2>1, AccessRoom
<1>4. CASE Retry
  <2>1. request.ty \in Types /\ request.cell \in Cells
    BY <1>4 DEF Retry, IInv, TypeOK
  <2>. QED BY <1>4, <2>1, PlaceRoom DEF Retry, Collecting
<1>5. CASE BeginCopy \/ ScanWord \/ Swap
  BY <1>5, BeginCopyRoom, ScanWordRoom, SwapRoom
<1>6. CASE RetryFails \/ BeginScan \/ ScanNext \/ BeginFinalize \/ Finalize
  BY <1>6, AccessRoom
<1>7. CASE UNCHANGED vars
  BY <1>7 DEF vars, heapVars, gcVars, RoomInv, LeftSizes, Collecting
<1>. QED BY <1>1, <1>2, <1>3, <1>4, <1>5, <1>6, <1>7 DEF Next, Mutator, Collector

(* copying.rs sizes the to-space before it knows what survives, and never   *)
(* writes past it; GcHeap never allocates past the high mark.               *)
THEOREM NeverOverruns == Spec => []NoOverrun
<1>1. Init => RoomInv
  <2>. SUFFICES ASSUME Init PROVE RoomInv
    OBVIOUS
  <2>1. Len(blocks) = 0 /\ offset = 0 /\ fromSize = InitialHeap /\ ~Collecting
    BY DEF Init, Collecting
  <2>2. Sum(Len(blocks), Sizes(blocks), offset)
    BY <2>1, SumOfNone
  <2>3. offset <= HighMark(fromSize)
    BY <2>1, HighMarkGrows, OptsAssumption
  <2>. QED BY <2>1, <2>2, <2>3 DEF RoomInv
<1>2. IInv /\ RoomInv => NoOverrun
  <2>. SUFFICES ASSUME IInv, RoomInv PROVE NoOverrun
    OBVIOUS
  <2>1. fromSize \in Nat /\ toSize \in Nat /\ target \in Nat /\ offset \in Nat
    BY DEF IInv, TypeOK
  <2>2. ASSUME Collecting PROVE target <= toSize
    <3>1. target <= offset /\ offset <= HighMark(fromSize) /\ fromSize <= toSize
      BY <2>1, <2>2 DEF RoomInv
    <3>2. HighMark(fromSize) <= fromSize /\ HighMark(fromSize) \in Nat
      BY <2>1, HighMarkGrows
    <3>. QED BY <2>1, <3>1, <3>2
  <2>. QED BY <2>2 DEF RoomInv, NoOverrun
<1>. QED BY <1>1, <1>2, RoomStep, InvariantHolds, PTL DEF Spec

-----------------------------------------------------------------------------
(* The collector is invisible: Copying implements ObjectGraph.             *)
Object(b) == blocks[b].id

(* What a block and its copy have in common: the words that were scanned   *)
(* hold the forwarding addresses of what the others still point to.        *)
Matches(addresses, space) ==
  \A b \in 1 .. Len(blocks) : addresses[b] # Null =>
    /\ space[addresses[b]].id = blocks[b].id
    /\ Len(space[addresses[b]].ptrs) = Len(blocks[b].ptrs)
    /\ \A w \in 1 .. Len(blocks[b].ptrs) :
         LET old == blocks[b].ptrs[w]
             new == space[addresses[b]].ptrs[w]
         IN  IF Scanned(addresses[b], w) /\ old # Null
               THEN addresses[old] # Null /\ new = addresses[old]
               ELSE new = old

WordsInv == Matches(forward, copies)

(* Only reachable objects are copied. *)
LiveInv ==
  \A b \in 1 .. Len(blocks) : forward[b] # Null => Object(b) \in Graph!Reachable

(* The last loop leaves no block behind it that has neither a copy nor     *)
(* been finalised.                                                         *)
VisitInv ==
  /\ phase # "finalize" => visit = 1
  /\ \A b \in 1 .. Len(blocks) :
       b < visit /\ forward[b] = Null => Object(b) \in finalized

GraphInv == Collecting => WordsInv /\ LiveInv /\ VisitInv

-----------------------------------------------------------------------------
(* The positions, ids and words of the two spaces. *)
LEMMA SpaceShape ==
  ASSUME IInv
  PROVE  /\ Len(blocks) \in Nat /\ Len(copies) \in Nat
         /\ \A b \in 1 .. Len(blocks) :
              /\ blocks[b].id \in Nat \ {0}
              /\ DOMAIN blocks[b].ptrs = 1 .. Len(blocks[b].ptrs)
              /\ Len(blocks[b].ptrs) \in Nat
              /\ \A w \in 1 .. Len(blocks[b].ptrs) : blocks[b].ptrs[w] \in 0 .. Len(blocks)
         /\ \A t \in 1 .. Len(copies) :
              /\ copies[t].id \in Nat \ {0}
              /\ DOMAIN copies[t].ptrs = 1 .. Len(copies[t].ptrs)
              /\ Len(copies[t].ptrs) \in Nat
<1>1. TypeOK
  BY DEF IInv
<1>2. \A x \in Block : x.id \in Nat \ {0}
  BY <1>1 DEF TypeOK, Block, BlockOf
<1>3. \A s \in Seq(Nat) : DOMAIN s = 1 .. Len(s)
  BY LenProperties
<1>4. Len(blocks) \in Nat
  BY <1>1, BlockShape
<1>5. \A b \in 1 .. Len(blocks) : \A w \in 1 .. Len(blocks[b].ptrs) :
        blocks[b].ptrs[w] \in 0 .. Len(blocks)
  BY <1>1, <1>4, BlockShape DEF IInv, NoDangling
<1>. QED BY <1>1, <1>2, <1>3, <1>5, BlockShape

(* The object of a block has the block's words. *)
LEMMA EdgesAt ==
  ASSUME NEW s, NEW b \in 1 .. Len(s),
         \A a \in 1 .. Len(s) : s[a].id = s[b].id => a = b
  PROVE  s[b].id \in DOMAIN EdgesIn(s) /\ EdgesIn(s)[s[b].id] = WordsIn(s, b)
<1>1. (CHOOSE a \in 1 .. Len(s) : s[a].id = s[b].id) = b
  OBVIOUS
<1>2. s[b].id \in {s[a].id : a \in 1 .. Len(s)}
  OBVIOUS
<1>. QED BY <1>1, <1>2 DEF EdgesIn

(* The objects of a space are the ids of its blocks. *)
LEMMA EdgesDomain ==
  ASSUME NEW s
  PROVE  /\ DOMAIN EdgesIn(s) = {s[b].id : b \in 1 .. Len(s)}
         /\ EdgesIn(s) = [o \in {s[b].id : b \in 1 .. Len(s)} |-> EdgesIn(s)[o]]
<1>. DEFINE D == {s[b].id : b \in 1 .. Len(s)}
            f(o) == WordsIn(s, CHOOSE a \in 1 .. Len(s) : s[a].id = o)
<1>1. EdgesIn(s) = [o \in D |-> f(o)]
  BY DEF EdgesIn
<1>. HIDE DEF D, f
<1>2. DOMAIN EdgesIn(s) = D /\ EdgesIn(s) = [o \in D |-> EdgesIn(s)[o]]
  BY <1>1
<1>. QED BY <1>2 DEF D

(* The same for from-space. *)
LEMMA HeapShape ==
  ASSUME IInv, IdInv
  PROVE  /\ Graph!Objects = {Object(b) : b \in 1 .. Len(blocks)}
         /\ \A b \in 1 .. Len(blocks) :
              /\ EdgesIn(blocks)[Object(b)] =
                   [w \in 1 .. Len(blocks[b].ptrs) |-> IdOf(blocks, blocks[b].ptrs[w])]
              /\ Object(b) # 0
<1>1. Graph!Objects = {Object(b) : b \in 1 .. Len(blocks)}
  BY DEF Graph!Objects, EdgesIn, Object
<1>2. ASSUME NEW b \in 1 .. Len(blocks)
      PROVE  EdgesIn(blocks)[Object(b)] =
               [w \in 1 .. Len(blocks[b].ptrs) |-> IdOf(blocks, blocks[b].ptrs[w])]
  <2>1. EdgesIn(blocks)[blocks[b].id] = WordsIn(blocks, b)
    BY EdgesAt DEF IdInv
  <2>2. DOMAIN blocks[b].ptrs = 1 .. Len(blocks[b].ptrs)
    BY SpaceShape
  <2>. QED BY <2>1, <2>2 DEF WordsIn, Object
<1>. QED BY <1>1, <1>2, SpaceShape DEF Object

(* What the cells denote when no collection is on. *)
LEMMA HandlesShape ==
  ASSUME IInv, ~Collecting
  PROVE  /\ \A c \in Cells : Denoted(c) = IdOf(blocks, roots[c])
         /\ \A c \in Cells : Denoted(c) # 0 <=> roots[c] # Null
<1>1. \A c \in Cells : Denoted(c) = IdOf(blocks, roots[c])
  BY DEF Denoted
<1>2. ASSUME NEW c \in Cells PROVE IdOf(blocks, roots[c]) # 0 <=> roots[c] # Null
  <2>1. CASE roots[c] = Null
    BY <2>1 DEF IdOf, Null
  <2>2. CASE roots[c] # Null
    <3>1. roots[c] \in 1 .. Len(blocks)
      BY <2>2, InFromSpace, SpaceShape DEF Null
    <3>. QED BY <2>2, <3>1, SpaceShape DEF IdOf
  <2>. QED BY <2>1, <2>2
<1>. QED BY <1>1, <1>2

-----------------------------------------------------------------------------
(* The program runs, and allocates, with no finalised object in the heap. *)
LEMMA RunningOutside ==
  ASSUME IInv, OnceInv, ~Collecting
  PROVE  Graph!Running
<1>1. \A b \in 1 .. Len(blocks) : Object(b) \notin finalized
  BY DEF OnceInv, DoneInv, Collecting, Object
<1>2. Graph!Objects = {Object(b) : b \in 1 .. Len(blocks)}
  BY HeapShape DEF OnceInv
<1>. QED BY <1>1, <1>2 DEF Graph!Running

(* A cell set to what pointer q names is a handle set to the object of q.  *)
LEMMA RootSet ==
  ASSUME IInv, OnceInv, ~Collecting, ~Collecting', NEW c \in Cells, NEW q,
         roots' = [roots EXCEPT ![c] = q], UNCHANGED <<blocks, finalized, ids>>
  PROVE  Graph!SetHandle(c, IdOf(blocks, q))
<1>1. Graph!Running
  BY RunningOutside
<1>2. roots \in [Cells -> Nat]
  BY DEF IInv, TypeOK
<1>3. \A e \in Cells : Denoted(e)' = IF e = c THEN IdOf(blocks, q) ELSE Denoted(e)
  BY <1>2 DEF Denoted, IdOf
<1>4. [e \in Cells |-> Denoted(e)]' = [[e \in Cells |-> Denoted(e)] EXCEPT ![c] = IdOf(blocks, q)]
  BY <1>3
<1>5. EdgesIn(blocks)' = EdgesIn(blocks)
  OBVIOUS
<1>. QED BY <1>1, <1>4, <1>5 DEF Graph!SetHandle

(* Copying a handle, dropping it, and reading a pointer word through it. *)
LEMMA AccessMaps ==
  ASSUME IInv, OnceInv, NEW c \in Cells, NEW d \in Cells,
         CopyRoot(c, d) \/ DropRoot(c) \/ Load(c, d)
  PROVE  Graph!Next
<1>1. ~Collecting /\ ~Collecting' /\ UNCHANGED <<blocks, finalized, ids>>
  BY DEF CopyRoot, DropRoot, Load, Collecting, heapVars
<1>2. CASE CopyRoot(c, d)
  <2>1. Graph!SetHandle(c, IdOf(blocks, roots[d]))
    BY <1>1, <1>2, RootSet DEF CopyRoot
  <2>2. Denoted(d) = IdOf(blocks, roots[d])
    BY <1>1, HandlesShape
  <2>3. Graph!SetHandle(c, [e \in Cells |-> Denoted(e)][d])
    BY <2>1, <2>2
  <2>. QED BY <2>3 DEF Graph!Next
<1>3. CASE DropRoot(c)
  <2>1. Graph!SetHandle(c, IdOf(blocks, Null))
    BY <1>1, <1>3, RootSet DEF DropRoot
  <2>2. IdOf(blocks, Null) = 0
    BY DEF IdOf, Null
  <2>. QED BY <2>1, <2>2 DEF Graph!Next
<1>4. CASE Load(c, d)
  <2>1. roots[d] \in 1 .. Len(blocks) /\ roots[d] # Null
    BY <1>1, <1>4, InFromSpace, SpaceShape DEF Load, Null
  <2>2. PICK b \in 1 .. Len(blocks) : b = roots[d]
    BY <2>1
  <2>3. PICK w \in 1 .. Len(blocks[b].ptrs) : roots' = [roots EXCEPT ![c] = blocks[b].ptrs[w]]
    BY <1>4, <2>2, SpaceShape DEF Load
  <2>4. Graph!SetHandle(c, IdOf(blocks, blocks[b].ptrs[w]))
    BY <1>1, <2>3, RootSet
  <2>5. Denoted(d) = Object(b) /\ Denoted(d) # 0
    BY <1>1, <2>1, <2>2, HandlesShape DEF IdOf, Object
  <2>6. EdgesIn(blocks)[Denoted(d)] =
          [i \in 1 .. Len(blocks[b].ptrs) |-> IdOf(blocks, blocks[b].ptrs[i])]
    BY <2>5, HeapShape DEF OnceInv
  <2>7. /\ w \in DOMAIN EdgesIn(blocks)[Denoted(d)]
        /\ Graph!SetHandle(c, EdgesIn(blocks)[Denoted(d)][w])
    BY <2>4, <2>6
  <2>8. [e \in Cells |-> Denoted(e)][d] = Denoted(d)
    OBVIOUS
  <2>. QED BY <2>5, <2>7, <2>8 DEF Graph!Next
<1>. QED BY <1>2, <1>3, <1>4

(* A write through a handle changes that word of the object's edges. *)
LEMMA StoreMaps ==
  ASSUME IInv, OnceInv, NEW c \in Cells, NEW d \in Cells, Store(c, d)
  PROVE  Graph!Next
<1>1. ~Collecting /\ ~Collecting' /\ UNCHANGED <<roots, todo, finalized, ids>> /\ Graph!Running
  BY RunningOutside DEF Store, Collecting, gcVars
<1>2. PICK k \in 1 .. Len(blocks), v \in 0 .. Len(blocks) : k = roots[c] /\ v = roots[d]
  <2>1. roots[c] \in 1 .. Len(blocks) /\ roots[d] \in 0 .. Len(blocks)
    BY <1>1, InFromSpace, SpaceShape DEF Store, Null
  <2>. QED BY <2>1
<1>3. PICK w \in 1 .. Len(blocks[k].ptrs) : blocks' = SetWord(blocks, k, w, v)
  BY <1>2, SpaceShape DEF Store
<1>4. /\ Len(blocks') = Len(blocks)
      /\ \A b \in 1 .. Len(blocks) :
           /\ blocks'[b].id = blocks[b].id
           /\ Len(blocks'[b].ptrs) = Len(blocks[b].ptrs)
           /\ \A i \in 1 .. Len(blocks[b].ptrs) :
                blocks'[b].ptrs[i] = IF b = k /\ i = w THEN v ELSE blocks[b].ptrs[i]
  <2>1. PICK n \in Nat : n = ids /\ blocks \in Seq(BlockOf(n))
    BY DEF IInv, TypeOK, Block
  <2>2. v \in Nat
    BY SpaceShape
  <2>3. WrittenWord(n, blocks, k, w, v, blocks')
    BY <1>3, <2>1, <2>2, WriteWord
  <2>. QED BY <2>3 DEF WrittenWord
<1>. DEFINE new == IdOf(blocks, v)
            words(b) == [i \in 1 .. Len(blocks[b].ptrs) |-> IdOf(blocks, blocks[b].ptrs[i])]
<1>5. \A p \in 0 .. Len(blocks) : IdOf(blocks', p) = IdOf(blocks, p)
  BY <1>4, SpaceShape DEF IdOf, Null
<1>6. IInv' /\ OnceInv'
  BY StoreStep, StoreOnce
<1>7. /\ EdgesIn(blocks') = [o \in {Object(b) : b \in 1 .. Len(blocks)} |-> EdgesIn(blocks')[o]]
      /\ EdgesIn(blocks) = [o \in {Object(b) : b \in 1 .. Len(blocks)} |-> EdgesIn(blocks)[o]]
  <2>1. {blocks'[b].id : b \in 1 .. Len(blocks')} = {Object(b) : b \in 1 .. Len(blocks)}
    <3>1. Len(blocks') = Len(blocks) /\ \A b \in 1 .. Len(blocks) : blocks'[b].id = Object(b)
      BY <1>4 DEF Object
    <3>. QED BY <3>1
  <2>2. {blocks[b].id : b \in 1 .. Len(blocks)} = {Object(b) : b \in 1 .. Len(blocks)}
    BY DEF Object
  <2>3. EdgesIn(blocks') = [o \in {Object(b) : b \in 1 .. Len(blocks)} |-> EdgesIn(blocks')[o]]
    BY <2>1, EdgesDomain
  <2>4. EdgesIn(blocks) = [o \in {Object(b) : b \in 1 .. Len(blocks)} |-> EdgesIn(blocks)[o]]
    BY <2>2, EdgesDomain
  <2>. QED BY <2>3, <2>4
<1>8. ASSUME NEW b \in 1 .. Len(blocks)
      PROVE  EdgesIn(blocks')[Object(b)] = IF b = k THEN [words(b) EXCEPT ![w] = new] ELSE words(b)
  <2>1. EdgesIn(blocks')[Object(b)] =
          [i \in 1 .. Len(blocks[b].ptrs) |-> IdOf(blocks', blocks'[b].ptrs[i])]
    <3>1. /\ \A a \in 1 .. Len(blocks') : blocks'[a].id = blocks'[b].id => a = b
          /\ DOMAIN blocks'[b].ptrs = 1 .. Len(blocks'[b].ptrs)
      <4>1. \A a \in 1 .. Len(blocks) : blocks[a].id = blocks[b].id => a = b
        BY DEF OnceInv, IdInv
      <4>2. \A t \in 1 .. Len(blocks') : DOMAIN blocks'[t].ptrs = 1 .. Len(blocks'[t].ptrs)
        <5>1. TypeOK'
          BY <1>6 DEF IInv
        <5>2. \A t \in 1 .. Len(blocks') : blocks'[t] \in Block'
          BY <5>1, ElementOfSeq DEF TypeOK
        <5>3. \A x \in Block' : x.ptrs \in Seq(Nat)
          BY DEF Block, BlockOf
        <5>. QED BY <5>2, <5>3, LenProperties
      <4>. QED BY <1>4, <4>1, <4>2
    <3>2. EdgesIn(blocks')[blocks'[b].id] = WordsIn(blocks', b)
      BY <1>4, <3>1, EdgesAt
    <3>. QED BY <1>4, <3>1, <3>2 DEF WordsIn, Object
  <2>2. \A i \in 1 .. Len(blocks[b].ptrs) :
          IdOf(blocks', blocks'[b].ptrs[i]) =
            IF b = k /\ i = w THEN new ELSE IdOf(blocks, blocks[b].ptrs[i])
    BY <1>4, <1>5, SpaceShape
  <2>. HIDE DEF new
  <2>. QED BY <2>1, <2>2
<1>9. \A b \in 1 .. Len(blocks) : EdgesIn(blocks)[Object(b)] = words(b)
  BY HeapShape DEF OnceInv
<1>. HIDE DEF new, words
<1>10. \A b \in 1 .. Len(blocks) : Object(b) = Object(k) => b = k
  BY DEF OnceInv, IdInv, Object
<1>11. EdgesIn(blocks') = [EdgesIn(blocks) EXCEPT ![Object(k)] = [words(k) EXCEPT ![w] = new]]
  <2>. DEFINE D == {Object(b) : b \in 1 .. Len(blocks)}
              F == EdgesIn(blocks')
              G == EdgesIn(blocks)
              q == [words(k) EXCEPT ![w] = new]
  <2>1. F = [o \in D |-> F[o]] /\ G = [o \in D |-> G[o]]
    BY <1>7
  <2>2. \A o \in D : F[o] = IF o = Object(k) THEN q ELSE G[o]
    BY <1>8, <1>9, <1>10
  <2>. HIDE DEF D, F, G, q
  <2>3. F = [G EXCEPT ![Object(k)] = q]
    BY <2>1, <2>2
  <2>. QED BY <2>3 DEF F, G, q
<1>12. EdgesIn(blocks') = [EdgesIn(blocks) EXCEPT ![Object(k)][w] = new]
  BY <1>9, <1>11
<1>13. Denoted(c) = Object(k) /\ Denoted(d) = new /\ Denoted(c) # 0
  BY <1>1, <1>2, HandlesShape DEF IdOf, Object, Null, new, Store
<1>14. \A e \in Cells : Denoted(e)' = Denoted(e)
  BY <1>1, <1>5, InFromSpace DEF Denoted
<1>15. [e \in Cells |-> Denoted(e)]' = [e \in Cells |-> Denoted(e)]
  BY <1>14
<1>16. Graph!Write(Denoted(c), w, Denoted(d))
  BY <1>1, <1>12, <1>13, <1>15 DEF Graph!Write
<1>17. w \in DOMAIN EdgesIn(blocks)[Denoted(c)]
  BY <1>9, <1>13 DEF words
<1>18. \A e \in Cells : [x \in Cells |-> Denoted(x)][e] = Denoted(e)
  OBVIOUS
<1>. QED BY <1>13, <1>16, <1>17, <1>18 DEF Graph!Next

(* Allocation, at first or after a collection, adds an object of nulls. *)
LEMMA PlaceMaps ==
  ASSUME IInv, OnceInv, ~Collecting, ~Collecting', NEW ty \in Types, NEW c \in Cells,
         Place(ty, c), UNCHANGED finalized
  PROVE  Graph!Next
<1>. DEFINE n == Len(blocks) + 1
            new == NewBlock(ty, ids + 1)
            old == EdgesIn(blocks)
<1>1. /\ ids \in Nat /\ blocks \in Seq(Block) /\ Len(blocks) \in Nat
      /\ \A b \in 1 .. Len(blocks) : blocks[b].id \in 1 .. ids
  BY BlockShape DEF IInv, TypeOK, Block, BlockOf
<1>2. /\ blocks \in Seq(BlockOf(ids + 1)) /\ new \in BlockOf(ids + 1) /\ new.id = ids + 1
      /\ new.ptrs = [i \in 1 .. PtrWords[ty] |-> 0]
  BY <1>1, BlocksGrow, NewBlockShape DEF Block, NewBlock, Null
<1>3. blocks' = Append(blocks, new) /\ roots' = [roots EXCEPT ![c] = n] /\ ids' = ids + 1
  BY DEF Place
<1>. HIDE DEF new
<1>4. /\ Len(blocks') = n /\ blocks'[n] = new
      /\ \A b \in 1 .. Len(blocks) : blocks'[b] = blocks[b]
  BY <1>1, <1>2, <1>3, AppendProperties
<1>5. 1 .. n = 1 .. Len(blocks) \cup {n} /\ n \notin 1 .. Len(blocks) /\ n # Null
  BY <1>1 DEF Null
<1>. HIDE DEF n
<1>6. \A a, b \in 1 .. n : blocks'[a].id = blocks'[b].id => a = b
  <2>1. ids + 1 \notin 1 .. ids
    BY <1>1
  <2>2. /\ \A a, b \in 1 .. Len(blocks) : blocks'[a].id = blocks'[b].id => a = b
        /\ \A b \in 1 .. Len(blocks) : blocks'[b].id # ids + 1
        /\ blocks'[n].id = ids + 1
    BY <1>1, <1>2, <1>4, <2>1 DEF OnceInv, IdInv
  <2>3. \A b \in 1 .. n : b \in 1 .. Len(blocks) \/ b = n
    BY <1>5
  <2>. QED BY <2>2, <2>3
<1>7. {blocks'[b].id : b \in 1 .. n} = {Object(b) : b \in 1 .. Len(blocks)} \cup {ids'}
  BY <1>2, <1>3, <1>4, <1>5 DEF Object
<1>8. ASSUME NEW b \in 1 .. Len(blocks)
      PROVE  EdgesIn(blocks')[Object(b)] = old[Object(b)] /\ Object(b) # ids'
  <2>1. EdgesIn(blocks')[blocks'[b].id] = WordsIn(blocks', b)
    BY <1>4, <1>5, <1>6, EdgesAt
  <2>2. \A p \in 0 .. Len(blocks) : IdOf(blocks', p) = IdOf(blocks, p)
    BY <1>4, SpaceShape DEF IdOf, Null
  <2>3. WordsIn(blocks', b) = [w \in 1 .. Len(blocks[b].ptrs) |-> IdOf(blocks, blocks[b].ptrs[w])]
    BY <1>4, <2>2, SpaceShape DEF WordsIn
  <2>4. Object(b) # ids'
    BY <1>1, <1>3 DEF Object
  <2>. QED BY <1>4, <2>1, <2>3, <2>4, HeapShape DEF OnceInv, Object
<1>9. EdgesIn(blocks')[ids'] = [w \in 1 .. PtrWords[ty] |-> 0]
  <2>1. EdgesIn(blocks')[blocks'[n].id] = WordsIn(blocks', n)
    BY <1>4, <1>5, <1>6, EdgesAt
  <2>2. PtrWords[ty] \in Nat
    BY ShapeAssumption
  <2>3. WordsIn(blocks', n) = [w \in 1 .. PtrWords[ty] |-> 0]
    BY <1>2, <1>4, <2>2 DEF WordsIn, IdOf, Null
  <2>. QED BY <1>2, <1>3, <1>4, <2>1, <2>3
<1>10. Graph!Objects = {Object(b) : b \in 1 .. Len(blocks)}
  BY HeapShape DEF OnceInv
<1>. DEFINE grown == [o \in Graph!Objects \cup {ids'} |->
                        IF o = ids' THEN [w \in 1 .. PtrWords[ty] |-> 0] ELSE old[o]]
<1>11. EdgesIn(blocks') = grown
  <2>1. EdgesIn(blocks') = [o \in Graph!Objects \cup {ids'} |-> EdgesIn(blocks')[o]]
    <3>1. {blocks'[b].id : b \in 1 .. Len(blocks')} = Graph!Objects \cup {ids'}
      BY <1>4, <1>7, <1>10
    <3>. QED BY <3>1, EdgesDomain
  <2>2. \A o \in Graph!Objects \cup {ids'} :
          EdgesIn(blocks')[o] = IF o = ids' THEN [w \in 1 .. PtrWords[ty] |-> 0] ELSE old[o]
    BY <1>8, <1>9, <1>10
  <2>. HIDE DEF old
  <2>. QED BY <2>1, <2>2
<1>12. [e \in Cells |-> Denoted(e)]' = [[e \in Cells |-> Denoted(e)] EXCEPT ![c] = ids']
  <2>1. \A e \in Cells : roots[e] \in 0 .. Len(blocks) /\ roots[e] # n
    BY <1>5, InFromSpace, <1>1 DEF n
  <2>2. roots \in [Cells -> Nat]
    BY DEF IInv, TypeOK
  <2>3. IdOf(blocks', n) = ids' /\ \A e \in Cells : IdOf(blocks', roots[e]) = IdOf(blocks, roots[e])
    BY <1>1, <1>2, <1>3, <1>4, <1>5, <2>1 DEF IdOf, Null
  <2>4. \A e \in Cells : Denoted(e)' = IF e = c THEN ids' ELSE Denoted(e)
    BY <1>3, <2>2, <2>3 DEF Denoted
  <2>. QED BY <2>4
<1>13. Graph!Running
  BY RunningOutside
<1>14. Graph!New(ty, c)
  BY <1>3, <1>11, <1>12, <1>13 DEF Graph!New
<1>. QED BY <1>14 DEF Graph!Next

-----------------------------------------------------------------------------
(* What the heap is to the program, and with it what is reachable, changes *)
(* only when the heap and the handles do.                                  *)
LEMMA SameGraph ==
  ASSUME UNCHANGED blocks, \A c \in Cells : Denoted(c)' = Denoted(c)
  PROVE  /\ EdgesIn(blocks)' = EdgesIn(blocks)
         /\ [c \in Cells |-> Denoted(c)]' = [c \in Cells |-> Denoted(c)]
         /\ (Graph!Reachable)' = Graph!Reachable
<1>1. EdgesIn(blocks)' = EdgesIn(blocks)
  OBVIOUS
<1>2. [c \in Cells |-> Denoted(c)]' = [c \in Cells |-> Denoted(c)]
  OBVIOUS
<1>3. (Graph!Reachable)' = Graph!Reachable
  BY <1>1, <1>2 DEF Graph!Reachable, Graph!Objects, Graph!Closed, Graph!Successors
<1>. QED BY <1>1, <1>2, <1>3

(* What a cell denotes is reachable. *)
LEMMA HeldIsReachable ==
  ASSUME NEW c \in Cells, Denoted(c) # 0, Denoted(c) \in Graph!Objects
  PROVE  Denoted(c) \in Graph!Reachable
<1>1. [e \in Cells |-> Denoted(e)][c] = Denoted(c)
  OBVIOUS
<1>. QED BY <1>1 DEF Graph!Reachable, Graph!Closed

(* What a reachable object points to is reachable. *)
LEMMA NextIsReachable ==
  ASSUME NEW o \in Graph!Reachable, NEW w \in DOMAIN EdgesIn(blocks)[o],
         EdgesIn(blocks)[o][w] # 0, EdgesIn(blocks)[o][w] \in Graph!Objects
  PROVE  EdgesIn(blocks)[o][w] \in Graph!Reachable
<1>1. EdgesIn(blocks)[o][w] \in Graph!Successors(o)
  BY DEF Graph!Successors
<1>. QED BY <1>1 DEF Graph!Reachable, Graph!Closed

(* A set that holds what the cells denote and is closed holds what is      *)
(* reachable.                                                              *)
LEMMA ReachableLeast ==
  ASSUME NEW S \in SUBSET Graph!Objects, Graph!Closed(S)
  PROVE  Graph!Reachable \subseteq S
BY DEF Graph!Reachable

(* Every copy is the copy of a block, and every forwarding address that of *)
(* a copy.                                                                 *)
LEMMA CopyOf ==
  ASSUME IInv, OnceInv, Collecting
  PROVE  /\ Len(forward) = Len(blocks) /\ DOMAIN forward = 1 .. Len(blocks)
         /\ \A b \in 1 .. Len(blocks) : forward[b] \in 0 .. Len(copies)
         /\ \A t \in 1 .. Len(copies) : \E b \in 1 .. Len(blocks) :
              forward[b] = t /\ copies[t].id = Object(b)
<1>1. TypeOK /\ PhaseInv /\ ForwardInv
  BY DEF IInv
<1>2. Len(forward) = Len(blocks) /\ Len(blocks) \in Nat /\ Len(copies) \in Nat
  BY <1>1, BlockShape DEF PhaseInv
<1>3. DOMAIN forward = 1 .. Len(blocks)
  BY <1>1, <1>2, LenProperties DEF TypeOK
<1>4. \A b \in 1 .. Len(blocks) : forward[b] \in 0 .. Len(copies)
  BY <1>1, <1>2, BlockShape DEF ForwardInv
<1>. QED BY <1>2, <1>3, <1>4 DEF OnceInv, CopiedOnce, Object

(* Forwarding p leaves the copies matched with their blocks. *)
LEMMA ForwardMatches ==
  ASSUME IInv, OnceInv, Collecting, WordsInv, NEW p \in 1 .. Len(blocks),
         \A w \in Nat \ {0} : ~Scanned(Len(copies) + 1, w)
  PROVE  /\ Matches(ForwardWith(p), CopiesWith(p))
         /\ Forwarded(p) # Null /\ Forwarded(p) \in 1 .. Len(CopiesWith(p))
         /\ CopiesWith(p)[Forwarded(p)].id = Object(p)
         /\ \A b \in 1 .. Len(blocks) :
              ForwardWith(p)[b] = IF b = p THEN Forwarded(p) ELSE forward[b]
         /\ \A t \in 1 .. Len(copies) : CopiesWith(p)[t] = copies[t]
         /\ Len(copies) <= Len(CopiesWith(p))
<1>. DEFINE n == Len(copies) + 1
            f == ForwardWith(p)
<1>1. /\ Len(forward) = Len(blocks) /\ DOMAIN forward = 1 .. Len(blocks)
      /\ \A b \in 1 .. Len(blocks) : forward[b] \in 0 .. Len(copies)
      /\ Len(blocks) \in Nat /\ Len(copies) \in Nat
  BY CopyOf, SpaceShape
<1>2. \A b \in 1 .. Len(blocks) : f[b] = IF b = p THEN Forwarded(p) ELSE forward[b]
  BY <1>1 DEF ForwardWith
<1>. HIDE DEF f
<1>3. CASE forward[p] = Null
  <2>1. Forwarded(p) = n /\ CopiesWith(p) = Append(copies, blocks[p]) /\ n # Null
    BY <1>1, <1>3 DEF Forwarded, CopiesWith, Null
  <2>2. copies \in Seq(Block) /\ blocks[p] \in Block
    BY BlockShape DEF IInv, TypeOK
  <2>3. /\ Len(CopiesWith(p)) = n /\ CopiesWith(p)[n] = blocks[p]
        /\ \A t \in 1 .. Len(copies) : CopiesWith(p)[t] = copies[t]
    BY <2>1, <2>2, AppendProperties
  <2>4. n \in 1 .. n /\ Len(copies) <= n
    BY <1>1
  <2>5. \A w \in Nat \ {0} : ~Scanned(n, w)
    OBVIOUS
  <2>. HIDE DEF n
  <2>6. ASSUME NEW b \in 1 .. Len(blocks), f[b] # Null
        PROVE  /\ CopiesWith(p)[f[b]].id = blocks[b].id
               /\ Len(CopiesWith(p)[f[b]].ptrs) = Len(blocks[b].ptrs)
               /\ \A w \in 1 .. Len(blocks[b].ptrs) :
                    LET old == blocks[b].ptrs[w]
                        new == CopiesWith(p)[f[b]].ptrs[w]
                    IN  IF Scanned(f[b], w) /\ old # Null
                          THEN f[old] # Null /\ new = f[old]
                          ELSE new = old
    <3>1. CASE b = p
      <4>1. f[b] = n /\ CopiesWith(p)[f[b]] = blocks[b]
        BY <1>2, <2>1, <2>3, <3>1
      <4>2. \A w \in 1 .. Len(blocks[b].ptrs) : ~Scanned(f[b], w)
        BY <2>5, <4>1, SpaceShape
      <4>. QED BY <4>1, <4>2
    <3>2. CASE b # p
      <4>1. f[b] = forward[b] /\ CopiesWith(p)[f[b]] = copies[forward[b]]
        <5>1. f[b] = forward[b]
          BY <1>2, <3>2
        <5>2. forward[b] \in 1 .. Len(copies)
          BY <1>1, <2>6, <5>1 DEF Null
        <5>. QED BY <2>3, <5>1, <5>2
      <4>2. /\ copies[forward[b]].id = blocks[b].id
            /\ Len(copies[forward[b]].ptrs) = Len(blocks[b].ptrs)
        BY <2>6, <4>1 DEF WordsInv, Matches
      <4>3. ASSUME NEW w \in 1 .. Len(blocks[b].ptrs)
            PROVE  IF Scanned(f[b], w) /\ blocks[b].ptrs[w] # Null
                     THEN /\ f[blocks[b].ptrs[w]] # Null
                          /\ CopiesWith(p)[f[b]].ptrs[w] = f[blocks[b].ptrs[w]]
                     ELSE CopiesWith(p)[f[b]].ptrs[w] = blocks[b].ptrs[w]
        <5>1. IF Scanned(forward[b], w) /\ blocks[b].ptrs[w] # Null
                THEN /\ forward[blocks[b].ptrs[w]] # Null
                     /\ copies[forward[b]].ptrs[w] = forward[blocks[b].ptrs[w]]
                ELSE copies[forward[b]].ptrs[w] = blocks[b].ptrs[w]
          BY <2>6, <4>1 DEF WordsInv, Matches
        <5>2. ASSUME blocks[b].ptrs[w] # Null, forward[blocks[b].ptrs[w]] # Null
              PROVE  f[blocks[b].ptrs[w]] = forward[blocks[b].ptrs[w]]
          <6>1. blocks[b].ptrs[w] \in 1 .. Len(blocks)
            BY <5>2, SpaceShape DEF Null
          <6>. QED BY <1>2, <1>3, <5>2, <6>1
        <5>. QED BY <4>1, <5>1, <5>2
      <4>. QED BY <4>1, <4>2, <4>3
    <3>. QED BY <3>1, <3>2
  <2>7. Matches(f, CopiesWith(p))
    BY <2>6 DEF Matches
  <2>. QED BY <1>2, <2>1, <2>3, <2>4, <2>7 DEF f, Object
<1>4. CASE forward[p] # Null
  <2>1. CopiesWith(p) = copies /\ Forwarded(p) = forward[p] /\ forward[p] \in 1 .. Len(copies)
    BY <1>1, <1>4 DEF CopiesWith, Forwarded, Null
  <2>2. f = forward
    <3>1. forward \in [1 .. Len(forward) -> Nat]
      BY LenProperties DEF IInv, TypeOK
    <3>. QED BY <1>1, <2>1, <3>1 DEF f, ForwardWith
  <2>3. copies[forward[p]].id = Object(p)
    BY <1>4 DEF WordsInv, Matches, Object
  <2>. QED BY <1>1, <1>2, <1>4, <2>1, <2>2, <2>3 DEF f, WordsInv
<1>. QED BY <1>3, <1>4

(* Steps that begin and end in a collection, copy at most block p, which   *)
(* is reachable, and change nothing the program sees.                      *)
LEMMA ForwardGraph ==
  ASSUME GraphInv, Collecting, phase # "finalize", phase' # "finalize",
         UNCHANGED <<blocks, visit, finalized, ids>>,
         \A c \in Cells : Denoted(c)' = Denoted(c),
         \A b \in 1 .. Len(blocks) :
           forward'[b] = forward[b] \/ Object(b) \in Graph!Reachable,
         WordsInv'
  PROVE  GraphInv' /\ UNCHANGED Graph!gvars
<1>1. /\ (Graph!Reachable)' = Graph!Reachable /\ EdgesIn(blocks)' = EdgesIn(blocks)
      /\ [c \in Cells |-> Denoted(c)]' = [c \in Cells |-> Denoted(c)]
  BY SameGraph
<1>2. LiveInv /\ VisitInv
  BY DEF GraphInv
<1>3. LiveInv'
  BY <1>1, <1>2 DEF LiveInv, Object
<1>4. VisitInv'
  <2>1. visit' = 1
    BY <1>2 DEF VisitInv
  <2>. QED BY <2>1 DEF VisitInv
<1>5. UNCHANGED Graph!gvars
  BY <1>1 DEF Graph!gvars
<1>. QED BY <1>3, <1>4, <1>5 DEF GraphInv

-----------------------------------------------------------------------------
(* The collection starts. *)
LEMMA BeginCopyGraph ==
  ASSUME IInv, OnceInv, BeginCopy
  PROVE  GraphInv' /\ UNCHANGED Graph!gvars
<1>1. /\ ~Collecting /\ Collecting' /\ phase' = "roots" /\ visit' = 1 /\ todo' = Cells
      /\ UNCHANGED <<blocks, roots, finalized, ids>>
      /\ forward' = [b \in 1 .. Len(blocks) |-> Null]
  BY DEF BeginCopy, Collecting
<1>2. \A c \in Cells : Denoted(c)' = Denoted(c)
  BY <1>1 DEF Denoted
<1>3. EdgesIn(blocks)' = EdgesIn(blocks) /\ [c \in Cells |-> Denoted(c)]' = [c \in Cells |-> Denoted(c)]
  BY <1>1, <1>2, SameGraph
<1>4. \A b \in 1 .. Len(blocks) : forward'[b] = Null
  BY <1>1
<1>5. WordsInv' /\ LiveInv'
  BY <1>1, <1>4 DEF WordsInv, Matches, LiveInv
<1>6. VisitInv'
  BY <1>1 DEF VisitInv
<1>. QED BY <1>1, <1>3, <1>5, <1>6 DEF GraphInv, Graph!gvars

(* A root cell is forwarded: it denotes what it did, now in to-space. *)
LEMMA ForwardRootGraph ==
  ASSUME IInv, OnceInv, GraphInv, NEW c \in Cells, ForwardRoot(c)
  PROVE  GraphInv' /\ UNCHANGED Graph!gvars
<1>1. /\ Collecting /\ Collecting' /\ phase = "roots" /\ phase' = phase
      /\ scan = 1 /\ word = 1 /\ c \in todo /\ todo' = todo \ {c}
      /\ UNCHANGED <<blocks, scan, word, visit, finalized, ids>>
  BY DEF ForwardRoot, Collecting, heapVars, IInv, PhaseInv
<1>2. roots \in [Cells -> Nat] /\ \A e \in Cells : roots[e] \in 0 .. RootLimit(e)
  BY SpaceShape DEF IInv, TypeOK, NoDangling, RootLimit
<1>3. WordsInv
  BY <1>1 DEF GraphInv
<1>4. CASE roots[c] = Null
  <2>1. UNCHANGED <<roots, forward, copies>>
    BY <1>4 DEF ForwardRoot
  <2>2. WordsInv'
    BY <1>1, <1>3, <2>1 DEF WordsInv, Matches, Scanned
  <2>3. \A e \in Cells : Denoted(e)' = Denoted(e)
    BY <1>1, <1>4, <2>1 DEF Denoted, IdOf
  <2>. QED BY <1>1, <2>1, <2>2, <2>3, ForwardGraph
<1>5. CASE roots[c] # Null
  <2>1. PICK p \in 1 .. Len(blocks) : p = roots[c]
    <3>1. roots[c] \in 1 .. Len(blocks)
      BY <1>1, <1>2, <1>5, SpaceShape DEF RootLimit, Null
    <3>. QED BY <3>1
  <2>2. /\ forward' = ForwardWith(p) /\ copies' = CopiesWith(p)
        /\ roots' = [roots EXCEPT ![c] = Forwarded(p)]
    BY <1>5, <2>1 DEF ForwardRoot
  <2>3. \A w \in Nat \ {0} : ~Scanned(Len(copies) + 1, w)
    BY <1>1, SpaceShape DEF Scanned
  <2>4. /\ Matches(ForwardWith(p), CopiesWith(p))
        /\ Forwarded(p) # Null /\ CopiesWith(p)[Forwarded(p)].id = Object(p)
        /\ \A b \in 1 .. Len(blocks) :
             ForwardWith(p)[b] = IF b = p THEN Forwarded(p) ELSE forward[b]
        /\ \A t \in 1 .. Len(copies) : CopiesWith(p)[t] = copies[t]
    BY <1>1, <1>3, <2>3, ForwardMatches
  <2>5. WordsInv'
    BY <1>1, <2>2, <2>4 DEF WordsInv, Matches, Scanned
  <2>6. Denoted(c) = Object(p)
    BY <1>1, <1>5, <2>1 DEF Denoted, IdOf, Object
  <2>7. ASSUME NEW e \in Cells PROVE Denoted(e)' = Denoted(e)
    <3>1. CASE e = c
      BY <1>1, <1>2, <2>2, <2>4, <2>6, <3>1 DEF Denoted, IdOf
    <3>2. CASE e # c /\ e \in todo
      BY <1>1, <1>2, <2>2, <3>2 DEF Denoted, IdOf
    <3>3. CASE e # c /\ e \notin todo
      <4>1. roots'[e] = roots[e] /\ roots[e] \in 0 .. Len(copies)
        BY <1>1, <1>2, <2>2, <3>3 DEF RootLimit
      <4>2. IdOf(copies', roots[e]) = IdOf(copies, roots[e])
        BY <2>2, <2>4, <4>1, SpaceShape DEF IdOf, Null
      <4>. QED BY <1>1, <3>3, <4>1, <4>2 DEF Denoted
    <3>. QED BY <3>1, <3>2, <3>3
  <2>8. Object(p) \in Graph!Reachable
    <3>1. Object(p) \in Graph!Objects /\ Object(p) # 0
      BY HeapShape DEF OnceInv
    <3>. QED BY <2>6, <3>1, HeldIsReachable
  <2>9. \A b \in 1 .. Len(blocks) : forward'[b] = forward[b] \/ Object(b) \in Graph!Reachable
    BY <2>2, <2>4, <2>8
  <2>. QED BY <1>1, <2>5, <2>7, <2>9, ForwardGraph
<1>. QED BY <1>4, <1>5

(* A word of a copy is scanned: the block it named is copied, being named  *)
(* by a reachable one, and the word names the copy.                        *)
LEMMA ScanWordGraph ==
  ASSUME IInv, OnceInv, GraphInv, ScanWord
  PROVE  GraphInv' /\ UNCHANGED Graph!gvars
<1>. DEFINE child == copies[scan].ptrs[word]
<1>1. /\ Collecting /\ Collecting' /\ phase = "scan" /\ phase' = phase
      /\ scan <= Len(copies) /\ word <= Len(copies[scan].ptrs) /\ word' = word + 1
      /\ todo = {}
      /\ UNCHANGED <<blocks, roots, todo, scan, visit, finalized, ids>>
  BY DEF ScanWord, Collecting, heapVars, IInv, PhaseInv
<1>2. scan \in 1 .. Len(copies) /\ word \in 1 .. Len(copies[scan].ptrs)
  <2>1. scan \in Nat \ {0} /\ word \in Nat \ {0}
    BY DEF IInv, TypeOK
  <2>2. scan \in 1 .. Len(copies)
    BY <1>1, <2>1, SpaceShape
  <2>. QED BY <1>1, <2>1, <2>2, SpaceShape
<1>3. WordsInv /\ LiveInv
  BY <1>1 DEF GraphInv
<1>4. PICK k \in 1 .. Len(blocks) : forward[k] = scan
  BY <1>1, <1>2, CopyOf
<1>5. scan # Null /\ word \in Nat /\ ~Scanned(scan, word)
  BY <1>2, SpaceShape DEF Null, Scanned
<1>6. /\ word \in 1 .. Len(blocks[k].ptrs) /\ child = blocks[k].ptrs[word]
      /\ Object(k) \in Graph!Reachable
  BY <1>2, <1>3, <1>4, <1>5 DEF WordsInv, Matches, LiveInv
<1>7. child \in 0 .. Len(blocks)
  BY <1>6, SpaceShape
<1>8. \A e \in Cells : roots[e] \in 0 .. Len(copies)
  BY <1>1, SpaceShape DEF IInv, TypeOK, NoDangling, RootLimit
<1>9. \A b \in 1 .. Len(blocks) : forward[b] \in 0 .. Len(copies)
  BY <1>1, CopyOf
<1>10. Len(copies) \in Nat /\ Len(blocks) \in Nat
  BY SpaceShape
<1>11. \A b \in 1 .. Len(blocks) : \A w \in 1 .. Len(blocks[b].ptrs) :
         w \in Nat /\ blocks[b].ptrs[w] \in 0 .. Len(blocks)
  BY SpaceShape
<1>12. \A b \in 1 .. Len(blocks) : forward[b] = scan => b = k
  BY <1>1, <1>4, <1>5 DEF OnceInv, CopiedOnce
<1>13. CASE child = Null
  <2>1. UNCHANGED <<forward, copies>>
    BY <1>13 DEF ScanWord
  <2>2. WordsInv'
    <3>1. SUFFICES ASSUME NEW b \in 1 .. Len(blocks), forward[b] # Null,
                          NEW w \in 1 .. Len(blocks[b].ptrs)
                   PROVE  IF Scanned(forward[b], w)' /\ blocks[b].ptrs[w] # Null
                            THEN /\ forward[blocks[b].ptrs[w]] # Null
                                 /\ copies[forward[b]].ptrs[w] = forward[blocks[b].ptrs[w]]
                            ELSE copies[forward[b]].ptrs[w] = blocks[b].ptrs[w]
      BY <1>1, <1>3, <2>1 DEF WordsInv, Matches
    <3>2. IF Scanned(forward[b], w) /\ blocks[b].ptrs[w] # Null
            THEN /\ forward[blocks[b].ptrs[w]] # Null
                 /\ copies[forward[b]].ptrs[w] = forward[blocks[b].ptrs[w]]
            ELSE copies[forward[b]].ptrs[w] = blocks[b].ptrs[w]
      BY <1>3, <3>1 DEF WordsInv, Matches
    <3>3. Scanned(forward[b], w)' <=> Scanned(forward[b], w) \/ (forward[b] = scan /\ w = word)
      BY <1>1, <1>5, <1>9, <1>10, <1>11, <2>1 DEF Scanned
    <3>4. forward[b] = scan /\ w = word => blocks[b].ptrs[w] = Null
      BY <1>6, <1>12, <1>13
    <3>. QED BY <3>2, <3>3, <3>4
  <2>3. \A e \in Cells : Denoted(e)' = Denoted(e)
    BY <1>1, <2>1 DEF Denoted, IdOf
  <2>. QED BY <1>1, <2>1, <2>2, <2>3, ForwardGraph
<1>14. CASE child # Null
  <2>1. PICK p \in 1 .. Len(blocks) : p = child
    <3>1. child \in 1 .. Len(blocks)
      BY <1>7, <1>10, <1>14 DEF Null
    <3>. QED BY <3>1
  <2>2. forward' = ForwardWith(p) /\ copies' = SetWord(CopiesWith(p), scan, word, Forwarded(p))
    BY <1>14, <2>1 DEF ScanWord
  <2>. HIDE DEF child
  <2>3. \A w \in Nat \ {0} : ~Scanned(Len(copies) + 1, w)
    BY <1>2, <1>10 DEF Scanned
  <2>4. /\ Matches(ForwardWith(p), CopiesWith(p))
        /\ Forwarded(p) # Null /\ Forwarded(p) \in 1 .. Len(CopiesWith(p))
        /\ CopiesWith(p)[Forwarded(p)].id = Object(p)
        /\ \A b \in 1 .. Len(blocks) :
             ForwardWith(p)[b] = IF b = p THEN Forwarded(p) ELSE forward[b]
        /\ \A t \in 1 .. Len(copies) : CopiesWith(p)[t] = copies[t]
        /\ Len(copies) <= Len(CopiesWith(p))
    BY <1>1, <1>3, <2>3, ForwardMatches
  <2>. DEFINE g == CopiesWith(p)
              v == Forwarded(p)
  <2>5. g \in Seq(Block) /\ Len(g) \in Nat
    BY <1>1, ForwardShape, LenProperties
  <2>6. scan \in 1 .. Len(g) /\ word \in 1 .. Len(g[scan].ptrs) /\ v \in Nat
    BY <1>2, <1>10, <2>4, <2>5
  <2>7. /\ Len(copies') = Len(g)
        /\ \A t \in 1 .. Len(g) :
             /\ copies'[t].id = g[t].id
             /\ Len(copies'[t].ptrs) = Len(g[t].ptrs)
             /\ \A i \in 1 .. Len(g[t].ptrs) :
                  copies'[t].ptrs[i] = IF t = scan /\ i = word THEN v ELSE g[t].ptrs[i]
    <3>1. PICK n \in Nat : n = ids /\ g \in Seq(BlockOf(n))
      BY <2>5 DEF IInv, TypeOK, Block
    <3>2. copies' = SetWord(g, scan, word, v)
      BY <2>2
    <3>. HIDE DEF g, v
    <3>3. WrittenWord(n, g, scan, word, v, copies')
      BY <2>6, <3>1, <3>2, WriteWord
    <3>. QED BY <3>3 DEF WrittenWord
  <2>8. \A b \in 1 .. Len(blocks) : forward'[b] # Null => forward'[b] \in 1 .. Len(g)
    <3>1. \A b \in 1 .. Len(blocks) : forward'[b] = IF b = p THEN v ELSE forward[b]
      BY <2>2, <2>4
    <3>. QED BY <1>9, <1>10, <2>4, <2>5, <3>1 DEF Null
  <2>9. \A b \in 1 .. Len(blocks) : forward'[b] = scan <=> b = k
    <3>1. IInv' /\ OnceInv'
      BY ScanWordStep, ScanWordOnce
    <3>2. forward'[k] = scan
      BY <1>4, <1>5, <2>2, <2>4 DEF Forwarded
    <3>. QED BY <1>1, <1>5, <3>1, <3>2 DEF OnceInv, CopiedOnce
  <2>10. forward'[p] = v /\ v # Null
    BY <2>2, <2>4
  <2>11. Matches(forward', g)
    BY <2>2, <2>4
  <2>12. p = blocks[k].ptrs[word] /\ p # Null
    BY <1>6, <2>1 DEF Null
  <2>13. WordsInv'
    <3>. HIDE DEF g, v
    <3>1. SUFFICES ASSUME NEW b \in 1 .. Len(blocks), forward'[b] # Null
                   PROVE  /\ copies'[forward'[b]].id = blocks[b].id
                          /\ Len(copies'[forward'[b]].ptrs) = Len(blocks[b].ptrs)
                          /\ \A w \in 1 .. Len(blocks[b].ptrs) :
                               IF Scanned(forward[b], w)' /\ blocks[b].ptrs[w] # Null
                                 THEN /\ forward'[blocks[b].ptrs[w]] # Null
                                      /\ copies'[forward'[b]].ptrs[w] = forward'[blocks[b].ptrs[w]]
                                 ELSE copies'[forward'[b]].ptrs[w] = blocks[b].ptrs[w]
      BY <1>1 DEF WordsInv, Matches
    <3>2. /\ g[forward'[b]].id = blocks[b].id
          /\ Len(g[forward'[b]].ptrs) = Len(blocks[b].ptrs)
      BY <2>11, <3>1 DEF Matches
    <3>3. forward'[b] \in 1 .. Len(g)
      BY <2>8, <3>1
    <3>4. ASSUME NEW w \in 1 .. Len(blocks[b].ptrs)
          PROVE  IF Scanned(forward[b], w)' /\ blocks[b].ptrs[w] # Null
                   THEN /\ forward'[blocks[b].ptrs[w]] # Null
                        /\ copies'[forward'[b]].ptrs[w] = forward'[blocks[b].ptrs[w]]
                   ELSE copies'[forward'[b]].ptrs[w] = blocks[b].ptrs[w]
      <4>1. IF Scanned(forward'[b], w) /\ blocks[b].ptrs[w] # Null
              THEN /\ forward'[blocks[b].ptrs[w]] # Null
                   /\ g[forward'[b]].ptrs[w] = forward'[blocks[b].ptrs[w]]
              ELSE g[forward'[b]].ptrs[w] = blocks[b].ptrs[w]
        BY <2>11, <3>1 DEF Matches
      <4>2. Scanned(forward[b], w)' <=>
              Scanned(forward'[b], w) \/ (forward'[b] = scan /\ w = word)
        BY <1>1, <1>5, <1>11, <2>5, <3>3 DEF Scanned
      <4>3. copies'[forward'[b]].ptrs[w] =
              IF forward'[b] = scan /\ w = word THEN v ELSE g[forward'[b]].ptrs[w]
        BY <2>7, <3>2, <3>3
      <4>4. CASE forward'[b] = scan /\ w = word
        <5>1. blocks[b].ptrs[w] = p
          BY <2>9, <2>12, <4>4
        <5>. QED BY <2>10, <2>12, <4>2, <4>3, <4>4, <5>1
      <4>5. CASE ~(forward'[b] = scan /\ w = word)
        BY <4>1, <4>2, <4>3, <4>5
      <4>. QED BY <4>4, <4>5
    <3>. QED BY <2>7, <3>2, <3>3, <3>4
  <2>14. ASSUME NEW e \in Cells PROVE Denoted(e)' = Denoted(e)
    <3>1. \A t \in 1 .. Len(copies) : copies'[t].id = copies[t].id
      BY <1>10, <2>4, <2>5, <2>7
    <3>2. IdOf(copies', roots[e]) = IdOf(copies, roots[e])
      BY <1>8, <1>10, <3>1 DEF IdOf, Null
    <3>. QED BY <1>1, <3>2 DEF Denoted
  <2>15. Object(p) \in Graph!Reachable
    <3>1. /\ Object(p) \in Graph!Objects /\ Object(p) # 0
          /\ EdgesIn(blocks)[Object(k)] =
               [w \in 1 .. Len(blocks[k].ptrs) |-> IdOf(blocks, blocks[k].ptrs[w])]
      BY HeapShape DEF OnceInv
    <3>2. IdOf(blocks, p) = Object(p)
      BY <2>12 DEF IdOf, Object
    <3>3. /\ word \in DOMAIN EdgesIn(blocks)[Object(k)]
          /\ EdgesIn(blocks)[Object(k)][word] = Object(p)
      BY <1>6, <2>12, <3>1, <3>2
    <3>. QED BY <1>6, <3>1, <3>3, NextIsReachable
  <2>16. \A b \in 1 .. Len(blocks) : forward'[b] = forward[b] \/ Object(b) \in Graph!Reachable
    BY <2>2, <2>4, <2>15
  <2>. QED BY <1>1, <2>13, <2>14, <2>16, ForwardGraph
<1>. QED BY <1>13, <1>14

(* The next copy: all words of the current one are scanned. *)
LEMMA ScanNextGraph ==
  ASSUME IInv, OnceInv, GraphInv, ScanNext
  PROVE  GraphInv' /\ UNCHANGED Graph!gvars
<1>1. /\ Collecting /\ Collecting' /\ phase = "scan" /\ phase' = phase
      /\ scan \in 1 .. Len(copies) /\ word > Len(copies[scan].ptrs)
      /\ scan' = scan + 1 /\ word' = 1 /\ word \in Nat
      /\ UNCHANGED <<blocks, roots, forward, copies, todo, visit, finalized, ids>>
  BY SpaceShape DEF ScanNext, Collecting, heapVars, IInv, TypeOK
<1>2. WordsInv
  BY <1>1 DEF GraphInv
<1>3. \A b \in 1 .. Len(blocks) : forward[b] \in 0 .. Len(copies)
  BY <1>1, CopyOf
<1>4. ASSUME NEW b \in 1 .. Len(blocks), forward[b] # Null, NEW w \in 1 .. Len(blocks[b].ptrs)
      PROVE  Scanned(forward[b], w)' <=> Scanned(forward[b], w)
  <2>1. Len(copies[forward[b]].ptrs) = Len(blocks[b].ptrs) /\ Len(blocks[b].ptrs) \in Nat
    BY <1>2, <1>4, SpaceShape DEF WordsInv, Matches
  <2>2. forward[b] = scan => w < word
    BY <1>1, <2>1
  <2>3. forward[b] \in Nat /\ Len(copies) \in Nat
    BY <1>3, SpaceShape
  <2>. QED BY <1>1, <2>1, <2>2, <2>3 DEF Scanned
<1>5. WordsInv'
  BY <1>1, <1>2, <1>4 DEF WordsInv, Matches
<1>6. \A e \in Cells : Denoted(e)' = Denoted(e)
  BY <1>1 DEF Denoted, IdOf
<1>. QED BY <1>1, <1>5, <1>6, ForwardGraph

(* From one loop to the next, and a failed attempt to allocate: nothing    *)
(* moves.                                                                  *)
LEMMA BetweenGraph ==
  ASSUME IInv, GraphInv,
         \/ BeginScan \/ BeginFinalize \/ RetryFails
         \/ \E ty \in Types, c \in Cells : AllocFails(ty, c)
  PROVE  GraphInv' /\ UNCHANGED Graph!gvars
<1>1. /\ UNCHANGED <<blocks, roots, forward, copies, todo, scan, word, visit, finalized, ids>>
      /\ Collecting' <=> Collecting
      /\ phase # "finalize"
  BY DEF BeginScan, BeginFinalize, RetryFails, AllocFails, Collecting, heapVars, gcVars
<1>2. \A e \in Cells : Denoted(e)' = Denoted(e)
  BY <1>1 DEF Denoted, IdOf
<1>3. /\ (Graph!Reachable)' = Graph!Reachable /\ EdgesIn(blocks)' = EdgesIn(blocks)
      /\ [c \in Cells |-> Denoted(c)]' = [c \in Cells |-> Denoted(c)]
  BY <1>1, <1>2, SameGraph
<1>4. ASSUME Collecting PROVE WordsInv' /\ LiveInv' /\ VisitInv'
  <2>1. WordsInv /\ LiveInv /\ VisitInv
    BY <1>4 DEF GraphInv
  <2>. QED BY <1>1, <1>3, <2>1 DEF WordsInv, Matches, Scanned, LiveInv, Object, VisitInv
<1>. QED BY <1>1, <1>3, <1>4 DEF GraphInv, Graph!gvars

-----------------------------------------------------------------------------
(* In the last phase the blocks that have a copy are the reachable ones.   *)
LEMMA CopiedIsReachable ==
  ASSUME IInv, OnceInv, GraphInv, phase = "finalize"
  PROVE  Graph!Reachable = {Object(b) : b \in {a \in 1 .. Len(blocks) : forward[a] # Null}}
<1>. DEFINE S == {Object(b) : b \in {a \in 1 .. Len(blocks) : forward[a] # Null}}
<1>1. /\ Collecting /\ todo = {} /\ scan > Len(copies) /\ scan \in Nat
      /\ WordsInv /\ LiveInv
  BY DEF Collecting, IInv, PhaseInv, TypeOK, GraphInv
<1>2. S \subseteq Graph!Reachable
  BY <1>1 DEF LiveInv
<1>3. S \in SUBSET Graph!Objects
  BY HeapShape DEF OnceInv
<1>4. ASSUME NEW c \in Cells, Denoted(c) # 0 PROVE Denoted(c) \in S
  <2>1. Denoted(c) = IdOf(copies, roots[c])
    BY <1>1 DEF Denoted
  <2>2. roots[c] # Null
    BY <1>4, <2>1 DEF IdOf, Null
  <2>3. roots[c] \in 1 .. Len(copies)
    BY <1>1, <2>2, SpaceShape DEF IInv, TypeOK, NoDangling, RootLimit, Null
  <2>4. PICK b \in 1 .. Len(blocks) : forward[b] = roots[c] /\ copies[roots[c]].id = Object(b)
    BY <1>1, <2>3, CopyOf
  <2>. QED BY <2>1, <2>2, <2>4 DEF IdOf
<1>5. ASSUME NEW b \in 1 .. Len(blocks), forward[b] # Null
      PROVE  Graph!Successors(Object(b)) \subseteq S
  <2>1. EdgesIn(blocks)[Object(b)] =
          [w \in 1 .. Len(blocks[b].ptrs) |-> IdOf(blocks, blocks[b].ptrs[w])]
    BY HeapShape DEF OnceInv
  <2>2. ASSUME NEW w \in 1 .. Len(blocks[b].ptrs), IdOf(blocks, blocks[b].ptrs[w]) # 0
        PROVE  IdOf(blocks, blocks[b].ptrs[w]) \in S
    <3>1. PICK p \in 1 .. Len(blocks) : p = blocks[b].ptrs[w] /\ p # Null
      <4>1. blocks[b].ptrs[w] # Null
        BY <2>2 DEF IdOf, Null
      <4>2. blocks[b].ptrs[w] \in 1 .. Len(blocks)
        BY <4>1, SpaceShape DEF Null
      <4>. QED BY <4>1, <4>2
    <3>2. Scanned(forward[b], w)
      BY <1>1, CopyOf, SpaceShape DEF Scanned
    <3>3. forward[p] # Null
      BY <1>1, <1>5, <3>1, <3>2 DEF WordsInv, Matches
    <3>4. IdOf(blocks, p) = Object(p)
      BY <3>1 DEF IdOf, Object
    <3>. QED BY <3>1, <3>3, <3>4
  <2>. HIDE DEF S
  <2>3. Graph!Successors(Object(b)) \subseteq
          {IdOf(blocks, blocks[b].ptrs[w]) : w \in 1 .. Len(blocks[b].ptrs)} \ {0}
    BY <2>1 DEF Graph!Successors
  <2>. QED BY <2>2, <2>3
<1>6. Graph!Closed(S)
  <2>1. \A c \in Cells : [e \in Cells |-> Denoted(e)][c] = Denoted(c)
    OBVIOUS
  <2>. QED BY <1>4, <1>5, <2>1 DEF Graph!Closed
<1>. QED BY <1>2, <1>3, <1>6, ReachableLeast

(* A block of the last loop is passed over or finalised, and then it is    *)
(* not reachable and was not finalised before.                             *)
LEMMA FinalizeGraph ==
  ASSUME IInv, OnceInv, GraphInv, Finalize
  PROVE  GraphInv' /\ (UNCHANGED Graph!gvars \/ Graph!Next)
<1>1. /\ phase = "finalize" /\ phase' = phase /\ visit' = visit + 1 /\ Collecting /\ Collecting'
      /\ UNCHANGED <<blocks, roots, forward, copies, todo, scan, word, ids>>
      /\ finalized' = IF forward[visit] = Null THEN finalized \cup {Object(visit)} ELSE finalized
  BY DEF Finalize, heapVars, Collecting, Object
<1>2. visit \in 1 .. Len(blocks) /\ visit \in Nat
  BY SpaceShape DEF Finalize, IInv, TypeOK
<1>3. \A e \in Cells : Denoted(e)' = Denoted(e)
  BY <1>1 DEF Denoted, IdOf
<1>4. /\ (Graph!Reachable)' = Graph!Reachable /\ EdgesIn(blocks)' = EdgesIn(blocks)
      /\ [c \in Cells |-> Denoted(c)]' = [c \in Cells |-> Denoted(c)]
  BY <1>1, <1>3, SameGraph
<1>5. WordsInv /\ LiveInv /\ VisitInv
  BY <1>1 DEF GraphInv
<1>6. WordsInv' /\ LiveInv'
  BY <1>1, <1>4, <1>5 DEF WordsInv, Matches, Scanned, LiveInv, Object
<1>7. VisitInv'
  <2>1. \A b \in 1 .. Len(blocks) : b < visit + 1 => b < visit \/ b = visit
    BY <1>2
  <2>. QED BY <1>1, <1>5, <2>1 DEF VisitInv, Object
<1>8. CASE forward[visit] # Null
  BY <1>1, <1>4, <1>6, <1>7, <1>8 DEF GraphInv, Graph!gvars
<1>9. CASE forward[visit] = Null
  <2>1. Object(visit) \in Graph!Objects
    BY <1>2, HeapShape DEF OnceInv
  <2>2. Object(visit) \notin Graph!Reachable
    <3>1. \A b \in 1 .. Len(blocks) : Object(b) = Object(visit) => b = visit
      BY <1>2 DEF OnceInv, IdInv, Object
    <3>. QED BY <1>1, <1>9, <3>1, CopiedIsReachable
  <2>3. Object(visit) \notin finalized
    BY <1>2 DEF OnceInv, DoneInv, Object
  <2>4. Graph!Finalize(Object(visit))
    BY <1>1, <1>4, <1>9, <2>2, <2>3 DEF Graph!Finalize
  <2>5. Graph!Next
    BY <2>1, <2>4 DEF Graph!Next
  <2>. QED BY <1>6, <1>7, <2>5 DEF GraphInv
<1>. QED BY <1>8, <1>9

(* The spaces are swapped: what was not reachable, and only that, is gone. *)
LEMMA SwapGraph ==
  ASSUME IInv, OnceInv, GraphInv, Swap
  PROVE  GraphInv' /\ Graph!Next
<1>1. /\ phase = "finalize" /\ Collecting /\ ~Collecting' /\ visit > Len(blocks) /\ visit \in Nat
      /\ todo = {} /\ blocks' = copies /\ scan > Len(copies) /\ scan \in Nat
      /\ UNCHANGED <<roots, todo, finalized, ids>>
  BY DEF Swap, Collecting, IInv, PhaseInv, TypeOK
<1>2. WordsInv /\ VisitInv
  BY <1>1 DEF GraphInv
<1>3. Graph!Reachable = {Object(b) : b \in {a \in 1 .. Len(blocks) : forward[a] # Null}}
  BY <1>1, CopiedIsReachable
<1>4. Graph!Objects \ Graph!Reachable \subseteq finalized
  <2>1. \A b \in 1 .. Len(blocks) : forward[b] = Null => Object(b) \in finalized
    BY <1>1, <1>2, SpaceShape DEF VisitInv
  <2>. QED BY <1>3, <2>1, HeapShape DEF OnceInv
<1>5. \A a, b \in 1 .. Len(copies) : copies[a].id = copies[b].id => a = b
  BY <1>1, SwapOnce DEF OnceInv, IdInv
<1>6. {copies[t].id : t \in 1 .. Len(copies)} = Graph!Reachable
  <2>1. ASSUME NEW t \in 1 .. Len(copies) PROVE copies[t].id \in Graph!Reachable
    <3>1. PICK b \in 1 .. Len(blocks) : forward[b] = t /\ copies[t].id = Object(b)
      BY <1>1, CopyOf
    <3>2. t # Null
      BY DEF Null
    <3>. QED BY <1>3, <3>1, <3>2
  <2>2. ASSUME NEW b \in 1 .. Len(blocks), forward[b] # Null
        PROVE  \E t \in 1 .. Len(copies) : copies[t].id = Object(b)
    <3>1. forward[b] \in 1 .. Len(copies)
      BY <1>1, <2>2, CopyOf, SpaceShape DEF Null
    <3>. QED BY <1>2, <2>2, <3>1 DEF WordsInv, Matches, Object
  <2>. QED BY <1>3, <2>1, <2>2
<1>7. ASSUME NEW t \in 1 .. Len(copies)
      PROVE  EdgesIn(copies)[copies[t].id] = EdgesIn(blocks)[copies[t].id]
  <2>1. PICK b \in 1 .. Len(blocks) : forward[b] = t /\ copies[t].id = Object(b)
    BY <1>1, CopyOf
  <2>2. t # Null
    BY DEF Null
  <2>3. EdgesIn(copies)[copies[t].id] = WordsIn(copies, t)
    BY <1>5, EdgesAt
  <2>4. /\ Len(copies[t].ptrs) = Len(blocks[b].ptrs)
        /\ DOMAIN copies[t].ptrs = 1 .. Len(copies[t].ptrs)
    BY <1>2, <2>1, <2>2, SpaceShape DEF WordsInv, Matches
  <2>5. ASSUME NEW w \in 1 .. Len(blocks[b].ptrs)
        PROVE  IdOf(copies, copies[t].ptrs[w]) = IdOf(blocks, blocks[b].ptrs[w])
    <3>1. Scanned(t, w)
      BY <1>1, SpaceShape DEF Scanned
    <3>2. IF blocks[b].ptrs[w] # Null
            THEN /\ forward[blocks[b].ptrs[w]] # Null
                 /\ copies[t].ptrs[w] = forward[blocks[b].ptrs[w]]
            ELSE copies[t].ptrs[w] = blocks[b].ptrs[w]
      BY <1>2, <2>1, <2>2, <3>1 DEF WordsInv, Matches
    <3>3. CASE blocks[b].ptrs[w] = Null
      BY <3>2, <3>3 DEF IdOf
    <3>4. CASE blocks[b].ptrs[w] # Null
      <4>1. blocks[b].ptrs[w] \in 1 .. Len(blocks)
        BY <3>4, SpaceShape DEF Null
      <4>2. copies[forward[blocks[b].ptrs[w]]].id = blocks[blocks[b].ptrs[w]].id
        BY <1>2, <3>2, <3>4, <4>1 DEF WordsInv, Matches
      <4>. QED BY <3>2, <3>4, <4>2 DEF IdOf
    <3>. QED BY <3>3, <3>4
  <2>6. EdgesIn(blocks)[Object(b)] =
          [w \in 1 .. Len(blocks[b].ptrs) |-> IdOf(blocks, blocks[b].ptrs[w])]
    BY HeapShape DEF OnceInv
  <2>7. WordsIn(copies, t) =
          [w \in 1 .. Len(blocks[b].ptrs) |-> IdOf(copies, copies[t].ptrs[w])]
    BY <2>4 DEF WordsIn
  <2>. QED BY <2>1, <2>3, <2>5, <2>6, <2>7
<1>8. EdgesIn(copies) = [o \in Graph!Reachable |-> EdgesIn(blocks)[o]]
  <2>1. EdgesIn(copies) = [o \in Graph!Reachable |-> EdgesIn(copies)[o]]
    BY <1>6, EdgesDomain
  <2>2. \A o \in Graph!Reachable : EdgesIn(copies)[o] = EdgesIn(blocks)[o]
    BY <1>6, <1>7
  <2>. QED BY <2>1, <2>2
<1>9. [c \in Cells |-> Denoted(c)]' = [c \in Cells |-> Denoted(c)]
  <2>1. \A c \in Cells : Denoted(c)' = Denoted(c)
    BY <1>1 DEF Denoted
  <2>. QED BY <2>1
<1>10. Graph!Reclaim
  BY <1>1, <1>4, <1>8, <1>9 DEF Graph!Reclaim
<1>. QED BY <1>1, <1>10 DEF GraphInv, Graph!Next

-----------------------------------------------------------------------------
(* Every step is a step of the object graph, or none.                      *)
LEMMA GraphStep ==
  ASSUME IInv, OnceInv, GraphInv, [Next]_vars
  PROVE  GraphInv' /\ [Graph!Next]_(Graph!gvars)
<1>1. ASSUME NEW c \in Cells, NEW d \in Cells, CopyRoot(c, d) \/ Load(c, d) \/ Store(c, d)
      PROVE  GraphInv' /\ Graph!Next
  <2>1. ~Collecting'
    BY <1>1 DEF CopyRoot, Load, Store, Collecting
  <2>. QED BY <1>1, <2>1, AccessMaps, StoreMaps DEF GraphInv
<1>2. ASSUME NEW c \in Cells, DropRoot(c)
      PROVE  GraphInv' /\ Graph!Next
  BY <1>2, AccessMaps DEF DropRoot, Collecting, GraphInv
<1>3. ASSUME NEW ty \in Types, NEW c \in Cells, Alloc(ty, c)
      PROVE  GraphInv' /\ Graph!Next
  BY <1>3, PlaceMaps DEF Alloc, Collecting, GraphInv
<1>4. CASE Retry
  <2>1. request.ty \in Types /\ request.cell \in Cells
    BY <1>4 DEF Retry, IInv, TypeOK
  <2>. QED BY <1>4, <2>1, PlaceMaps DEF Retry, Collecting, GraphInv
<1>5. CASE RetryFails \/ BeginScan \/ BeginFinalize \/ \E ty \in Types, c \in Cells : AllocFails(ty, c)
  BY <1>5, BetweenGraph
<1>6. CASE BeginCopy \/ ScanWord \/ ScanNext \/ \E c \in Cells : ForwardRoot(c)
  BY <1>6, BeginCopyGraph, ScanWordGraph, ScanNextGraph, ForwardRootGraph
<1>7. CASE Finalize \/ Swap
  BY <1>7, FinalizeGraph, SwapGraph
<1>8. CASE UNCHANGED vars
  <2>1. UNCHANGED <<blocks, roots, forward, copies, todo, scan, word, visit, phase, finalized, ids>>
    BY <1>8 DEF vars, heapVars, gcVars
  <2>2. \A e \in Cells : Denoted(e)' = Denoted(e)
    BY <2>1 DEF Denoted, IdOf, Collecting
  <2>3. /\ (Graph!Reachable)' = Graph!Reachable /\ EdgesIn(blocks)' = EdgesIn(blocks)
        /\ [c \in Cells |-> Denoted(c)]' = [c \in Cells |-> Denoted(c)]
    BY <2>1, <2>2, SameGraph
  <2>. QED BY <2>1, <2>3 DEF GraphInv, Collecting, WordsInv, Matches, Scanned, LiveInv, Object,
                             VisitInv, Graph!gvars
<1>. QED BY <1>1, <1>2, <1>3, <1>4, <1>5, <1>6, <1>7, <1>8 DEF Next, Mutator, Collector

(* copying.rs implements the object graph, for every number of cells, types *)
(* and blocks and every sizing: at each step of a collection the program's  *)
(* handles denote the graph it built, what is finalised was unreachable,    *)
(* and what a swap drops is what was unreachable.                           *)
THEOREM ImplementsGraph == Spec => GraphPreserved
<1>1. Init => GraphInv /\ Graph!Init
  <2>. SUFFICES ASSUME Init PROVE GraphInv /\ Graph!Init
    OBVIOUS
  <2>1. ~Collecting /\ Len(blocks) = 0
    BY DEF Init, Collecting
  <2>2. EdgesIn(blocks) = [o \in {} |-> << >>]
    <3>1. {blocks[b].id : b \in 1 .. Len(blocks)} = {}
      BY <2>1
    <3>2. EdgesIn(blocks) = [o \in {} |-> EdgesIn(blocks)[o]]
      BY <3>1, EdgesDomain
    <3>. QED BY <3>2
  <2>3. [c \in Cells |-> Denoted(c)] = [c \in Cells |-> 0]
    BY <2>1 DEF Init, Denoted, IdOf, Null
  <2>. QED BY <2>1, <2>2, <2>3 DEF GraphInv, Graph!Init, Init
<1>2. IInv /\ OnceInv /\ GraphInv /\ [Next]_vars => GraphInv' /\ [Graph!Next]_(Graph!gvars)
  BY GraphStep
<1>. QED BY <1>1, <1>2, InvariantHolds, OnceHolds, PTL DEF Spec, GraphPreserved, Graph!Spec
=============================================================================

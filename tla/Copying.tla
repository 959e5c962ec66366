------------------------------ MODULE Copying ------------------------------
(***************************************************************************)
(* The copying garbage collector of rjs: gc/strategy/copying.rs under the  *)
(* allocation protocol of gc/mod.rs.  The collector stops the program; its *)
(* loops are modelled one iteration per step (forward one root, scan one   *)
(* pointer word, visit one from-space block), so that what holds between   *)
(* two iterations can be stated and proved.                                *)
(*                                                                         *)
(* A pointer is the position of its block in its space: blocks are laid    *)
(* out one after the other, so positions and addresses are in the same     *)
(* order.  0 is the null pointer.  A block keeps its pointer words only,   *)
(* the words for which GcWalker::walk answers GcWalk::Pointer, and an id   *)
(* that stands for the rest of its payload.  Sizes are in words.           *)
(***************************************************************************)
EXTENDS Integers, Sequences

CONSTANTS
  Cells,          \* the root cells: stack slots, root handles, local handles
  Types,          \* the GC types
  PayloadSize,    \* words of a block of a type, GcMemHeader included
  PtrWords,       \* pointer words of a block of a type
  HeaderSize,     \* words of copying.rs's Header
  PageSize,       \* words of a page
  InitialHeap,    \* GcOpts::initial_heap
  InitGc,         \* GcOpts::init_gc, in percent
  SlowGrowth,     \* GcOpts::slow_growth_factor, in percent
  FastGrowth,     \* GcOpts::fast_growth_factor, in percent
  MaxIds          \* bound: blocks allocated in one behaviour

ASSUME ShapeAssumption ==
  /\ PayloadSize \in [Types -> Nat \ {0}]
  /\ PtrWords \in [Types -> Nat]
  /\ HeaderSize \in Nat \ {0}

\* GcHeap::new panics when these do not hold (GcOpts::default satisfies them).
ASSUME OptsAssumption ==
  /\ PageSize \in Nat \ {0} /\ InitialHeap \in Nat \ {0}
  /\ InitGc \in 0 .. 100
  /\ SlowGrowth \in Nat \ (0 .. 100) /\ FastGrowth \in Nat \ (0 .. 100)

VARIABLES
  blocks,      \* from-space: the blocks, in allocation order
  offset,      \* from.offset: words in use in from-space
  fromSize,    \* from.memory.size()
  toSize,      \* to.size()
  lastUsed,    \* last_used, the fill rate, as the fraction <<used, size>>
  lastFailed,  \* last_failed: the allocation that did not fit
  roots,       \* contents of the root cells
  phase,       \* where the allocation protocol is
  request,     \* the allocation in progress: its type and the cell it goes to
  forward,     \* Header::forward of each from-space block
  copies,      \* to-space: the blocks copied so far
  target,      \* words in use in to-space (Forwarder::target)
  todo,        \* root cells the collector has not forwarded yet
  scan,        \* the to-space block being scanned
  word,        \* the pointer word of that block to process next
  visit,       \* the from-space block the finalisation loop is at
  finalized,   \* ids of the blocks whose finaliser ran
  ids          \* ids given out so far

heapVars == <<blocks, offset, fromSize, toSize, lastUsed, lastFailed>>
gcVars == <<forward, copies, target, todo, scan, word, visit>>
vars == <<heapVars, gcVars, roots, phase, request, finalized, ids>>

Null == 0
NoRequest == [ty |-> "none", cell |-> "none"]
Phases == {"run", "size", "roots", "scan", "finalize", "retry", "panic"}

AtLeast(x, y) == IF x < y THEN y ELSE x

(* Block::high_mark and the page rounding of Copying::copy. *)
HighMark(size) == (size * InitGc) \div 100
RoundUp(size) == ((size + PageSize - 1) \div PageSize) * PageSize

(* What a block takes in its space: Block::alloc adds the header. *)
BlockSize(ty) == PayloadSize[ty] + HeaderSize

NewBlock(ty, id) ==
  [ty |-> ty, id |-> id, ptrs |-> [i \in 1 .. PtrWords[ty] |-> Null]]

(* A pointer word of a block is overwritten. *)
SetWord(space, b, w, p) == [space EXCEPT ![b].ptrs[w] = p]

\* Mutant of Fits: the header that Block::alloc adds is forgotten.
FitsWithoutHeader(ty) == offset + PayloadSize[ty] <= HighMark(fromSize)

Fits(ty) == offset + BlockSize(ty) <= HighMark(fromSize)

(***************************************************************************)
(* The size of the to-space for the next collection.                       *)
(***************************************************************************)
GrowthFactor ==
  IF 100 * lastUsed[1] > 85 * lastUsed[2] THEN FastGrowth ELSE SlowGrowth

TargetSize ==
  LET room  == AtLeast(fromSize, offset + lastFailed)
      grown == IF 2 * lastUsed[1] > lastUsed[2]
                 THEN (room * GrowthFactor) \div 100
                 ELSE room
      fill  == (100 * lastUsed[1]) \div lastUsed[2]
      kept  == AtLeast(grown, (grown * fill) \div 100)
  IN  RoundUp(AtLeast(kept, InitialHeap))

-----------------------------------------------------------------------------
Init ==
  /\ blocks = << >> /\ offset = 0
  /\ fromSize = InitialHeap /\ toSize = 0
  /\ lastUsed = <<0, 1>> /\ lastFailed = 0
  /\ roots = [c \in Cells |-> Null]
  /\ phase = "run" /\ request = NoRequest
  /\ forward = << >> /\ copies = << >> /\ target = 0
  /\ todo = {} /\ scan = 1 /\ word = 1 /\ visit = 1
  /\ finalized = {} /\ ids = 0

(***************************************************************************)
(* The program.  It reaches blocks through root cells only: it copies      *)
(* handles, clears them, and loads and stores pointer words.               *)
(***************************************************************************)
CopyRoot(c, d) ==
  /\ phase = "run"
  /\ roots' = [roots EXCEPT ![c] = roots[d]]
  /\ UNCHANGED <<heapVars, gcVars, phase, request, finalized, ids>>

DropRoot(c) ==
  /\ phase = "run" /\ roots[c] # Null
  /\ roots' = [roots EXCEPT ![c] = Null]
  /\ UNCHANGED <<heapVars, gcVars, phase, request, finalized, ids>>

Load(c, d) ==
  /\ phase = "run" /\ roots[d] # Null
  /\ \E w \in DOMAIN blocks[roots[d]].ptrs :
       roots' = [roots EXCEPT ![c] = blocks[roots[d]].ptrs[w]]
  /\ UNCHANGED <<heapVars, gcVars, phase, request, finalized, ids>>

Store(c, d) ==
  /\ phase = "run" /\ roots[c] # Null
  /\ \E w \in DOMAIN blocks[roots[c]].ptrs :
       blocks' = SetWord(blocks, roots[c], w, roots[d])
  /\ UNCHANGED <<offset, fromSize, toSize, lastUsed, lastFailed, gcVars,
                 roots, phase, request, finalized, ids>>

(***************************************************************************)
(* Allocation: GcHeap::alloc_raw tries, collects, tries again and panics.  *)
(***************************************************************************)
Place(ty, c) ==
  /\ blocks' = Append(blocks, NewBlock(ty, ids + 1))
  /\ offset' = offset + BlockSize(ty)
  /\ roots' = [roots EXCEPT ![c] = Len(blocks) + 1]
  /\ ids' = ids + 1

Alloc(ty, c) ==
  /\ phase = "run" /\ ids < MaxIds /\ Fits(ty)
  /\ Place(ty, c)
  /\ UNCHANGED <<fromSize, toSize, lastUsed, lastFailed, gcVars, phase,
                 request, finalized>>

\* Mutant of AllocFails: the collection does not know what it is for.
AllocFailsForgotten(ty, c) ==
  /\ phase = "run" /\ ids < MaxIds /\ ~Fits(ty)
  /\ lastFailed' = PayloadSize[ty]
  /\ phase' = "size"
  /\ UNCHANGED <<blocks, offset, fromSize, toSize, lastUsed, gcVars, roots,
                 request, finalized, ids>>

AllocFails(ty, c) ==
  /\ phase = "run" /\ ids < MaxIds /\ ~Fits(ty)
  /\ lastFailed' = PayloadSize[ty]
  /\ request' = [ty |-> ty, cell |-> c]
  /\ phase' = "size"
  /\ UNCHANGED <<blocks, offset, fromSize, toSize, lastUsed, gcVars, roots,
                 finalized, ids>>

Retry ==
  /\ phase = "retry" /\ Fits(request.ty)
  /\ Place(request.ty, request.cell)
  /\ phase' = "run" /\ request' = NoRequest
  /\ UNCHANGED <<fromSize, toSize, lastUsed, lastFailed, gcVars, finalized>>

RetryFails ==
  /\ phase = "retry" /\ ~Fits(request.ty)
  /\ lastFailed' = PayloadSize[request.ty]
  /\ phase' = "panic"
  /\ UNCHANGED <<blocks, offset, fromSize, toSize, lastUsed, gcVars, roots,
                 request, finalized, ids>>

(***************************************************************************)
(* Copying::copy.                                                          *)
(***************************************************************************)
BeginCopy ==
  /\ phase = "size"
  /\ toSize' = AtLeast(toSize, TargetSize)
  /\ lastFailed' = 0
  /\ forward' = [b \in 1 .. Len(blocks) |-> Null]
  /\ copies' = << >> /\ target' = 0
  /\ todo' = Cells /\ scan' = 1 /\ word' = 1 /\ visit' = 1
  /\ phase' = "roots"
  /\ UNCHANGED <<blocks, offset, fromSize, lastUsed, roots, request,
                 finalized, ids>>

(* Forwarder::forward: the first visit copies the block to the target and  *)
(* leaves the address of the copy in the block's header.                   *)
Forwarded(p) == IF forward[p] = Null THEN Len(copies) + 1 ELSE forward[p]

CopiesWith(p) == IF forward[p] = Null THEN Append(copies, blocks[p]) ELSE copies

TargetWith(p) ==
  IF forward[p] = Null THEN target + BlockSize(blocks[p].ty) ELSE target

\* Mutant of ForwardWith: header.forward is not set when a block is copied.
ForwardUnmarked(p) == forward

ForwardWith(p) == [forward EXCEPT ![p] = Forwarded(p)]

\* Mutant of ForwardRoot: the new address is not stored in the cell.
ForwardRootStale(c) ==
  /\ phase = "roots" /\ c \in todo
  /\ todo' = todo \ {c}
  /\ IF roots[c] = Null
       THEN UNCHANGED <<forward, copies, target>>
       ELSE /\ forward' = ForwardWith(roots[c])
            /\ copies' = CopiesWith(roots[c])
            /\ target' = TargetWith(roots[c])
  /\ UNCHANGED <<heapVars, roots, scan, word, visit, phase, request,
                 finalized, ids>>

(* One cell of "Walk all GC roots".  The three root walkers only return    *)
(* cells that hold a pointer.                                              *)
ForwardRoot(c) ==
  /\ phase = "roots" /\ c \in todo
  /\ todo' = todo \ {c}
  /\ IF roots[c] = Null
       THEN UNCHANGED <<roots, forward, copies, target>>
       ELSE /\ forward' = ForwardWith(roots[c])
            /\ copies' = CopiesWith(roots[c])
            /\ target' = TargetWith(roots[c])
            /\ roots' = [roots EXCEPT ![c] = Forwarded(roots[c])]
  /\ UNCHANGED <<heapVars, scan, word, visit, phase, request, finalized, ids>>

BeginScan ==
  /\ phase = "roots" /\ todo = {}
  /\ phase' = "scan"
  /\ UNCHANGED <<heapVars, gcVars, roots, request, finalized, ids>>

(* One pointer word of "Walk the to space" (process_block). *)
ScanWord ==
  /\ phase = "scan" /\ scan <= Len(copies)
  /\ word <= Len(copies[scan].ptrs)
  /\ LET child == copies[scan].ptrs[word] IN
       IF child = Null
         THEN UNCHANGED <<forward, copies, target>>
         ELSE /\ forward' = ForwardWith(child)
              /\ copies' = SetWord(CopiesWith(child), scan, word,
                                   Forwarded(child))
              /\ target' = TargetWith(child)
  /\ word' = word + 1
  /\ UNCHANGED <<heapVars, roots, todo, scan, visit, phase, request,
                 finalized, ids>>

ScanNext ==
  /\ phase = "scan" /\ scan <= Len(copies)
  /\ word > Len(copies[scan].ptrs)
  /\ scan' = scan + 1 /\ word' = 1
  /\ UNCHANGED <<heapVars, roots, forward, copies, target, todo, visit,
                 phase, request, finalized, ids>>

\* Mutant of BeginFinalize: the last block of to-space is not scanned.
BeginFinalizeEarly ==
  /\ phase = "scan" /\ scan >= Len(copies)
  /\ phase' = "finalize"
  /\ UNCHANGED <<heapVars, gcVars, roots, request, finalized, ids>>

BeginFinalize ==
  /\ phase = "scan" /\ scan > Len(copies)
  /\ phase' = "finalize"
  /\ UNCHANGED <<heapVars, gcVars, roots, request, finalized, ids>>

\* Mutant of Finalize: forwarded blocks are finalised too.
FinalizeAll ==
  /\ phase = "finalize" /\ visit <= Len(blocks)
  /\ finalized' = finalized \cup {blocks[visit].id}
  /\ visit' = visit + 1
  /\ UNCHANGED <<heapVars, roots, forward, copies, target, todo, scan, word,
                 phase, request, ids>>

\* Mutant of Finalize: the walk stays at a block that was forwarded.
FinalizeStuck ==
  /\ phase = "finalize" /\ visit <= Len(blocks)
  /\ forward[visit] = Null
  /\ finalized' = finalized \cup {blocks[visit].id}
  /\ visit' = visit + 1
  /\ UNCHANGED <<heapVars, roots, forward, copies, target, todo, scan, word,
                 phase, request, ids>>

(* One block of "Walk the from space". *)
Finalize ==
  /\ phase = "finalize" /\ visit <= Len(blocks)
  /\ finalized' = IF forward[visit] = Null
                    THEN finalized \cup {blocks[visit].id}
                    ELSE finalized
  /\ visit' = visit + 1
  /\ UNCHANGED <<heapVars, roots, forward, copies, target, todo, scan, word,
                 phase, request, ids>>

(* The end of copy: the spaces are swapped and the fill rate is taken. *)
Swap ==
  /\ phase = "finalize" /\ visit > Len(blocks)
  /\ blocks' = copies /\ offset' = target
  /\ fromSize' = toSize /\ toSize' = fromSize
  /\ lastUsed' = <<target, toSize>>
  /\ forward' = << >> /\ copies' = << >> /\ target' = 0
  /\ scan' = 1 /\ word' = 1 /\ visit' = 1
  /\ phase' = "retry"
  /\ UNCHANGED <<lastFailed, roots, request, todo, finalized, ids>>

-----------------------------------------------------------------------------
Mutator ==
  \/ \E c, d \in Cells : CopyRoot(c, d) \/ Load(c, d) \/ Store(c, d)
  \/ \E c \in Cells : DropRoot(c)
  \/ \E ty \in Types, c \in Cells : Alloc(ty, c) \/ AllocFails(ty, c)

Collector ==
  \/ BeginCopy
  \/ \E c \in Cells : ForwardRoot(c)
  \/ BeginScan \/ ScanWord \/ ScanNext \/ BeginFinalize \/ Finalize \/ Swap
  \/ Retry \/ RetryFails

Next == Mutator \/ Collector

Spec == Init /\ [][Next]_vars

(* The collector runs to its end inside the allocation that started it. *)
FairSpec == Spec /\ WF_vars(Collector)

-----------------------------------------------------------------------------
(***************************************************************************)
(* Properties.                                                             *)
(***************************************************************************)
BlockOf(n) == [ty : Types, id : 1 .. n, ptrs : Seq(Nat)]

Block == BlockOf(ids)

Collecting == phase \in {"roots", "scan", "finalize"}

(* Types of the variables.                                                  *)
TypeOK ==
  /\ blocks \in Seq(Block) /\ copies \in Seq(Block) /\ forward \in Seq(Nat)
  /\ offset \in Nat /\ fromSize \in Nat /\ toSize \in Nat
  /\ lastUsed \in Nat \X (Nat \ {0}) /\ lastFailed \in Nat /\ target \in Nat
  /\ phase \in Phases /\ ids \in Nat
  /\ request \in [ty : Types, cell : Cells] \cup {NoRequest}
  /\ phase # "run" => request \in [ty : Types, cell : Cells]
  /\ roots \in [Cells -> Nat] /\ todo \subseteq Cells
  /\ scan \in Nat \ {0} /\ word \in Nat \ {0} /\ visit \in Nat \ {0}
  /\ finalized \subseteq 1 .. ids

(* A root cell and a pointer word that the collector has already updated   *)
(* point into to-space; all others point into from-space.                  *)
RootLimit(c) ==
  IF Collecting /\ c \notin todo THEN Len(copies) ELSE Len(blocks)

Scanned(t, w) == t < scan \/ (t = scan /\ w < word)

WordLimit(t, w) == IF Scanned(t, w) THEN Len(copies) ELSE Len(blocks)

(* No pointer the program or the collector may follow dangles: every root  *)
(* cell and every pointer word names a block of the space it points into,  *)
(* at each step of a collection and after it (copying.rs copy, forward).   *)
NoDangling ==
  /\ \A c \in Cells : roots[c] <= RootLimit(c)
  /\ \A b \in 1 .. Len(blocks) : \A w \in 1 .. Len(blocks[b].ptrs) :
       blocks[b].ptrs[w] <= Len(blocks)
  /\ \A t \in 1 .. Len(copies) : \A w \in 1 .. Len(copies[t].ptrs) :
       copies[t].ptrs[w] <= WordLimit(t, w)

(* A block is copied at most once however many pointers reach it, and each *)
(* copy is the copy of the block that forwards to it: sharing and cycles   *)
(* survive the collection (Forwarder::forward).                            *)
CopiedOnce ==
  Collecting =>
    /\ \A t \in 1 .. Len(copies) :
         \E b \in 1 .. Len(blocks) :
           /\ forward[b] = t
           /\ copies[t].id = blocks[b].id /\ copies[t].ty = blocks[b].ty
    /\ \A a, b \in 1 .. Len(blocks) :
         forward[a] = forward[b] /\ a # b => forward[a] = Null

(* The collector never writes past the to-space it sized before it knew    *)
(* what survives, and the program never allocates past the high mark.      *)
NoOverrun ==
  /\ Collecting => target <= toSize
  /\ offset <= HighMark(fromSize)

(* A block whose finaliser has run is never seen by the program again: its *)
(* boxed resources are released once (copying.rs's second heap walk).      *)
FinalizedGone ==
  ~Collecting => \A b \in 1 .. Len(blocks) : blocks[b].id \notin finalized

(* copying.rs:90-95: the collection leaves enough room for the allocation  *)
(* that failed, so the second attempt of GcHeap::alloc_raw succeeds.       *)
RoomForFailedAllocation == phase # "panic"

(* The allocation that starts a collection comes back: the scan and        *)
(* finalisation loops end whatever the shape of the heap.                  *)
AllocationEnds == phase = "size" ~> phase \in {"run", "panic"}

(***************************************************************************)
(* The heap the program sees, in terms of block ids: blocks of from-space, *)
(* until the spaces are swapped, with the cells the collector has already  *)
(* updated read through to-space.                                          *)
(***************************************************************************)
IdOf(space, p) == IF p = Null THEN Null ELSE space[p].id

WordsIn(space, b) ==
  [w \in DOMAIN space[b].ptrs |-> IdOf(space, space[b].ptrs[w])]

EdgesIn(space) ==
  [i \in {space[b].id : b \in 1 .. Len(space)} |->
     WordsIn(space, CHOOSE b \in 1 .. Len(space) : space[b].id = i)]

Denoted(c) == IF Collecting /\ c \notin todo THEN IdOf(copies, roots[c])
                                            ELSE IdOf(blocks, roots[c])

Graph == INSTANCE ObjectGraph WITH
  edges <- EdgesIn(blocks), handles <- [c \in Cells |-> Denoted(c)]

(* The collector is invisible: what the program reads through its handles  *)
(* is the object graph it built, and collection finalises and reclaims     *)
(* exactly the unreachable objects.                                        *)
GraphPreserved == Graph!Spec
=============================================================================

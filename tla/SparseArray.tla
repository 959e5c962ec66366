----------------------------- MODULE SparseArray -----------------------------
(***************************************************************************)
(* The indexed properties of an array (rt/object/sparse_array.rs): one     *)
(* array of entries while it stays dense, and a sorted array of chunks     *)
(* after that.  An entry is Missing or the enumerable flag of a property.  *)
(* It is used through ArrayStore and the property operations of JsObject,  *)
(* which add an index that has no entry, and remove and replace others.    *)
(***************************************************************************)
EXTENDS Integers, FiniteSets

CONSTANTS
  Indexes,            \* the array indexes in use
  CHUNK_SIZE,         \* 32 in the code
  INITIAL_VALUE_SIZE, \* 20
  INITIAL_CHUNK_COUNT,\* 10
  MAX_ARRAY_SIZE,     \* 1024
  MaxWrites,          \* bound on the counter used
  Missing,            \* Entry::empty
  Collects            \* whether the allocation in insert_chunk may collect

ASSUME SizesAssumption ==
  /\ Indexes \subseteq Nat /\ MaxWrites \in Nat /\ Collects \in BOOLEAN
  /\ {CHUNK_SIZE, INITIAL_VALUE_SIZE, INITIAL_CHUNK_COUNT, MAX_ARRAY_SIZE} \subseteq Nat \ {0}
  /\ Missing \notin BOOLEAN

VARIABLES
  array,      \* [items, chunks, count]: the entries from 0, or NoItems and the
              \* chunks [offset, items] from 0, of which count are in use
  used,
  out         \* "ok", "panic", or "dangling" after a write through a pointer
              \* that a collection has made stale

vars == <<array, used, out>>

NoItems == <<>>
Fresh(n) == [i \in 0 .. n - 1 |-> Missing]
Length(entries) == Cardinality(DOMAIN entries)
NullChunk == [offset |-> 0, items |-> NoItems]
Larger(m, n) == IF m > n THEN m ELSE n
Dense(a) == a.items # NoItems

\* get_offset_from_index
Offset(index) == index - (index % CHUNK_SIZE)

\* mutant: one entry too few
CopiedShort(from, start, to, at, n) ==
  [i \in DOMAIN to |-> IF i \in at .. at + n - 2 THEN from[start + i - at] ELSE to[i]]

\* Array::copy
Copied(from, start, to, at, n) ==
  [i \in DOMAIN to |-> IF i \in at .. at + n - 1 THEN from[start + i - at] ELSE to[i]]

-----------------------------------------------------------------------------
(* find_chunk: a binary search down to three chunks, and a scan of those.   *)

Pivot(range) == (range.hi + range.lo) \div 2

Half(a, offset, range) ==
  IF offset < a.chunks[Pivot(range)].offset THEN [range EXCEPT !.hi = Pivot(range)]
  ELSE [range EXCEPT !.lo = Pivot(range) + 1]

\* A match leaves one chunk.
Narrowed(a, offset) ==
  LET narrow[range \in [lo : 0 .. a.count, hi : 0 .. a.count]] ==
        IF range.hi - range.lo <= 3 THEN range
        ELSE IF offset = a.chunks[Pivot(range)].offset
        THEN [lo |-> Pivot(range), hi |-> Pivot(range) + 1]
        ELSE narrow[Half(a, offset, range)]
  IN narrow[[lo |-> 0, hi |-> a.count]]

\* The place of a chunk, or where it has to be inserted.
FindChunk(a, offset) ==
  LET range == Narrowed(a, offset)
      least == {i \in range.lo .. range.hi - 1 : a.chunks[i].offset >= offset}
      index == IF least = {} THEN range.hi ELSE CHOOSE i \in least : \A j \in least : i <= j
  IN [index |-> index, found |-> least # {} /\ a.chunks[index].offset = offset]

GetValue(a, index) ==
  IF Dense(a)
  THEN IF index < Length(a.items) THEN a.items[index] ELSE Missing
  ELSE LET chunk == FindChunk(a, Offset(index)) IN
       IF chunk.found THEN a.chunks[chunk.index].items[index - Offset(index)] ELSE Missing

\* mutant: chunks are counted, not their entries
CapacityInChunks(a) == IF Dense(a) THEN Length(a.items) ELSE a.count
Capacity(a) == IF Dense(a) THEN Length(a.items) ELSE a.count * CHUNK_SIZE

\* get_key: the entry at a position below the capacity, and its name.
ChunkAt(a, position) == a.chunks[position \div CHUNK_SIZE]
KeyEntry(a, position) ==
  IF Dense(a) THEN a.items[position] ELSE ChunkAt(a, position).items[position % CHUNK_SIZE]
\* mutant: the chunks are taken to be all there
KeyNameDense(a, position) == position
KeyName(a, position) ==
  IF Dense(a) THEN position ELSE ChunkAt(a, position).offset + (position % CHUNK_SIZE)

-----------------------------------------------------------------------------
(* set_value *)
Transfers(a, index, writes) ==
  IF Length(a.items) >= MAX_ARRAY_SIZE THEN 2 * writes < Length(a.items)
  ELSE index >= 2 * Length(a.items)

\* grow_items doubles the array, once.
Grown(a) ==
  LET n == Length(a.items) IN
  [a EXCEPT !.items = Copied(a.items, 0, Fresh(2 * n), 0, n)]

\* transfer_to_chunks
ChunkOf(a, i) ==
  LET offset == i * CHUNK_SIZE
      left   == Length(a.items) - offset
  IN [offset |-> offset,
      items  |-> Copied(a.items, offset, Fresh(CHUNK_SIZE), 0,
                        IF left < CHUNK_SIZE THEN left ELSE CHUNK_SIZE)]
Transferred(a) ==
  LET n == Length(a.items) \div CHUNK_SIZE + 1 IN
  [items  |-> NoItems,
   chunks |-> [i \in 0 .. Larger(n, INITIAL_CHUNK_COUNT) - 1 |->
                 IF i < n THEN ChunkOf(a, i) ELSE NullChunk],
   count  |-> n]

\* insert_chunk: into a larger array, or by moving the chunks after it.
Full(a) == Length(a.chunks) = a.count
Room(a) ==
  IF Full(a)
  THEN [i \in 0 .. Larger((a.count * 12) \div 10, a.count + 1) - 1 |->
          IF i < a.count THEN a.chunks[i] ELSE NullChunk]
  ELSE a.chunks

Inserted(a, chunk, index) ==
  LET moved == Copied(a.chunks, index, Room(a), index + 1, a.count - index)
  IN [a EXCEPT !.chunks = [moved EXCEPT ![index] = chunk], !.count = @ + 1]

\* find_or_create_chunk and the write
InChunk(a, index, value) ==
  LET offset == Offset(index)
      at     == FindChunk(a, offset)
      into   == IF at.found THEN a
                ELSE Inserted(a, [offset |-> offset, items |-> Fresh(CHUNK_SIZE)], at.index)
  IN [into EXCEPT !.chunks[at.index].items[index - offset] = value]

\* The new chunk's pointer to its items is held while insert_chunk allocates
\* the larger array, and written through afterwards: the chunk in the array has
\* no items then.
Dangles(a, index) == ~FindChunk(a, Offset(index)).found /\ Full(a) /\ Collects
Lost(a, index) ==
  [InChunk(a, index, Missing) EXCEPT !.chunks[FindChunk(a, Offset(index)).index].items = NoItems]

InItems(a, index) == index < Length(a.items)

SetValue(index, value) ==
  LET dense == Dense(array)
      grows == dense /\ ~InItems(array, index) /\ ~Transfers(array, index, used + 1)
      base  == IF ~dense \/ InItems(array, index) THEN array
               ELSE IF grows THEN Grown(array) ELSE Transferred(array)
      fits  == index < Length(base.items)
  IN /\ used' = used + (IF dense THEN 1 ELSE 0)
     /\ IF Dense(base)
        THEN /\ array' = IF fits THEN [base EXCEPT !.items[index] = value] ELSE base
             /\ out' = IF fits THEN "ok" ELSE "panic"       \* Array::index_mut
        ELSE /\ array' = IF Dangles(base, index) THEN Lost(base, index)
                         ELSE InChunk(base, index, value)
             /\ out' = IF Dangles(base, index) THEN "dangling" ELSE "ok"

-----------------------------------------------------------------------------
Init ==
  /\ array = [items |-> Fresh(INITIAL_VALUE_SIZE), chunks |-> NoItems, count |-> 0]
  /\ used = 0 /\ out = "ok"

Running == out = "ok" /\ used < MaxWrites

Add == Running /\ \E i \in Indexes, v \in BOOLEAN :
         GetValue(array, i) = Missing /\ SetValue(i, v)
Replace == Running /\ \E i \in Indexes, v \in BOOLEAN :
             GetValue(array, i) # Missing /\ SetValue(i, v)
Remove == Running /\ \E i \in Indexes :
            GetValue(array, i) # Missing /\ SetValue(i, Missing)

Next == Add \/ Replace \/ Remove

Spec == Init /\ [][Next]_vars

-----------------------------------------------------------------------------
\* Entries are in items or in chunks, and as many chunks are in use as counted.
TypeOK ==
  /\ used \in 0 .. MaxWrites /\ out \in {"ok", "panic", "dangling"}
  /\ Dense(array) => array.chunks = NoItems /\ array.count = 0
  /\ ~Dense(array) => array.count \in 1 .. Length(array.chunks)

\* The chunks in use are sorted and distinct, begin at multiples of their size,
\* and have all their entries: what find_chunk and the unchecked uses of the
\* index it returns take for granted.
Sorted ==
  /\ TypeOK
  /\ ~Dense(array) =>
       \A i \in 0 .. array.count - 1 :
         LET chunk == array.chunks[i] IN
         /\ chunk.offset % CHUNK_SIZE = 0 /\ DOMAIN chunk.items = 0 .. CHUNK_SIZE - 1
         /\ i + 1 < array.count => chunk.offset < array.chunks[i + 1].offset

\* ECMA-262 15.4: any integer below 2^32 - 1 is an array index.
NeverPanics == out # "panic"

\* ECMA-262 8.12.9: a property is created with the value it is defined with,
\* wherever a collection comes in.
NeverDangles == out # "dangling"

\* sparse_array.rs: growing stops before an array is "very large" and "barely
\* filled".
Filled == Cardinality({i \in DOMAIN array.items : array.items[i] # Missing})
GrowsFilled ==
  [][Dense(array) /\ Dense(array)' /\ Length(array.items') > Length(array.items)
       /\ Length(array.items) >= MAX_ARRAY_SIZE
     => 2 * (Filled + 1) >= Length(array.items)]_vars
=============================================================================

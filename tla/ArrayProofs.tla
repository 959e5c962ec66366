----------------------------- MODULE ArrayProofs ------------------------------
(***************************************************************************)
(* The two stores of an array, for all sizes: what is read is what was     *)
(* written, get_key names every property once with the indexes ascending,  *)
(* and no property that stays moves to a lower offset.                     *)
(*                                                                         *)
(* A representation is a sequence of positions, each with a name and an    *)
(* entry: 0 .. Capacity - 1, KeyName and KeyEntry.  Views says that the    *)
(* names ascend and that GetValue finds the entry of a name; Extends, that *)
(* a larger representation has the same entries, none at a lower position. *)
(* Growing, going over to chunks and inserting a chunk extend; then one    *)
(* entry is written in place.                                              *)
(*                                                                         *)
(* The theorems are about behaviours in which nothing is written through a *)
(* pointer that a collection has made stale (NeverDangles).                *)
(*                                                                         *)
(* The parts after that are about the methods.  Those that call back: what *)
(* they visit, and at the end of the module what they return.  Those that  *)
(* work in one go: each loop of them, as an object after n steps (Looping),*)
(* leaves elements of its own in a range and the rest as it was (Spread),  *)
(* and from that follows what ECMA-262 says of the method (..Meets).       *)
(***************************************************************************)
EXTENDS Arrays, HashTableProofs

Flags == BOOLEAN \cup {Missing}

IsChunk(c) ==
  /\ c = [offset |-> c.offset, items |-> c.items]
  /\ c.offset \in Nat /\ c.offset % CHUNK_SIZE = 0
  /\ c.items \in [0 .. CHUNK_SIZE - 1 -> Flags]

IsDense(a, n) ==
  /\ n \in Nat \ {0} /\ a = [items |-> a.items, chunks |-> NoItems, count |-> 0]
  /\ a.items \in [0 .. n - 1 -> Flags]

IsChunked(a, m) ==
  /\ m \in Nat \ {0} /\ a = [items |-> NoItems, chunks |-> a.chunks, count |-> a.count]
  /\ a.count \in 1 .. m
  /\ a.chunks = [i \in 0 .. m - 1 |-> a.chunks[i]]
  /\ \A i \in 0 .. a.count - 1 : IsChunk(a.chunks[i])
  /\ \A i, j \in 0 .. a.count - 1 : i < j => a.chunks[i].offset < a.chunks[j].offset

-----------------------------------------------------------------------------
(* Numbers                                                                 *)
LEMMA SizeAssumed == CHUNK_SIZE \in Nat \ {0}
BY SizesAssumption

LEMMA SplitFacts ==
  ASSUME NEW p \in Nat, NEW n \in Nat \ {0}
  PROVE  /\ p \div n \in Nat /\ p % n \in 0 .. n - 1
         /\ p = ((p \div n) * n) + (p % n)
OBVIOUS

LEMMA TimesFacts ==
  ASSUME NEW c \in Nat, NEW n \in Nat \ {0}
  PROVE  c * n \in Nat /\ (c * n) % n = 0
OBVIOUS

LEMMA JoinFacts ==
  ASSUME NEW c \in Nat, NEW n \in Nat \ {0}, NEW r \in 0 .. n - 1
  PROVE  /\ ((c * n) + r) \div n = c /\ ((c * n) + r) % n = r
         /\ c * n \in Nat /\ (c * n) % n = 0
<1>1. ((c * n) + r) \div n = c
  BY SplitFacts
<1>. QED BY <1>1

LEMMA StepFacts ==
  ASSUME NEW c \in Nat, NEW d \in Nat, NEW n \in Nat \ {0}, c < d
  PROVE  (c * n) + n <= d * n
OBVIOUS

LEMMA AlignedFacts ==
  ASSUME NEW o \in Nat, NEW n \in Nat \ {0}, o % n = 0
  PROVE  /\ o \div n \in Nat /\ o = (o \div n) * n
         /\ \A r \in 0 .. n - 1 : (o + r) % n = r /\ o + r \in Nat
<1>1. o = ((o \div n) * n) /\ o \div n \in Nat
  OBVIOUS
<1>2. PICK c \in Nat : o = c * n
  BY <1>1
<1>3. \A r \in 0 .. n - 1 : (o + r) % n = r
  BY <1>2, JoinFacts
<1>. QED BY <1>1, <1>3

LEMMA OffsetFacts ==
  ASSUME NEW i \in Nat
  PROVE  /\ Offset(i) \in Nat /\ Offset(i) % CHUNK_SIZE = 0
         /\ i - Offset(i) \in 0 .. CHUNK_SIZE - 1
         /\ \A o \in Nat : \A r \in 0 .. CHUNK_SIZE - 1 :
              o % CHUNK_SIZE = 0 /\ o + r = i => o = Offset(i) /\ r = i - Offset(i)
<1>. DEFINE n == CHUNK_SIZE
<1>1. n \in Nat \ {0}
  BY SizeAssumed
<1>. HIDE DEF n
<1>2. PICK c \in Nat, r \in 0 .. n - 1 : i = (c * n) + r /\ r = i % n
  BY <1>1, SplitFacts
<1>3. PICK o \in Nat : o = c * n /\ o % n = 0
  BY <1>1, JoinFacts
<1>4. i - (i % n) = o /\ i - o = r
  BY <1>1, <1>2, <1>3
<1>5. ASSUME NEW u \in Nat, NEW s \in 0 .. n - 1, u % n = 0, u + s = i
      PROVE  u = o /\ s = r
  <2>1. i % n = s
    <3>1. (u + s) % n = s
      BY <1>1, <1>5, AlignedFacts
    <3>. QED BY <1>5, <3>1
  <2>2. s = r
    BY <1>2, <2>1
  <2>. QED BY <1>2, <1>3, <1>5, <2>2
<1>6. Offset(i) = o
  BY <1>4 DEF Offset, n
<1>. QED BY <1>3, <1>4, <1>5, <1>6 DEF n

LEMMA OffsetIs ==
  ASSUME NEW i \in Nat, NEW o \in Nat, NEW r \in 0 .. CHUNK_SIZE - 1,
         o % CHUNK_SIZE = 0, i = o + r
  PROVE  Offset(i) = o /\ i - o = r
<1>1. o = Offset(i) /\ r = i - Offset(i)
  BY OffsetFacts, Zenon
<1>. QED BY <1>1, Zenon

-----------------------------------------------------------------------------
(* find_chunk: all chunks before the range that is left lie below the      *)
(* offset, and all after it above.                                         *)
Bracket(a, offset, range) ==
  /\ range = [lo |-> range.lo, hi |-> range.hi]
  /\ range.lo \in Nat /\ range.hi \in Nat /\ range.lo <= range.hi /\ range.hi <= a.count
  /\ \A i \in 0 .. range.lo - 1 : a.chunks[i].offset < offset
  /\ \A i \in range.hi .. a.count - 1 : a.chunks[i].offset > offset

LEMMA ChunkedFacts ==
  ASSUME NEW a, NEW m, IsChunked(a, m)
  PROVE  /\ a.count \in Nat \ {0} /\ m \in Nat \ {0} /\ a.count <= m
         /\ \A i \in 0 .. a.count - 1 :
              /\ a.chunks[i].offset \in Nat /\ a.chunks[i].offset % CHUNK_SIZE = 0
              /\ a.chunks[i].items \in [0 .. CHUNK_SIZE - 1 -> Flags]
         /\ \A i, j \in 0 .. a.count - 1 : i < j => a.chunks[i].offset < a.chunks[j].offset
<1>1. m \in Nat \ {0} /\ a.count \in 1 .. m
  BY DEF IsChunked
<1>2. ASSUME NEW i \in 0 .. a.count - 1
      PROVE  /\ a.chunks[i].offset \in Nat /\ a.chunks[i].offset % CHUNK_SIZE = 0
             /\ a.chunks[i].items \in [0 .. CHUNK_SIZE - 1 -> Flags]
  <2>1. IsChunk(a.chunks[i])
    BY DEF IsChunked
  <2>. QED BY <2>1 DEF IsChunk
<1>3. \A i, j \in 0 .. a.count - 1 : i < j => a.chunks[i].offset < a.chunks[j].offset
  BY DEF IsChunked
<1>. QED BY <1>1, <1>2, <1>3

LEMMA PivotFacts ==
  ASSUME NEW a, NEW m, IsChunked(a, m), NEW offset \in Nat, NEW range, Bracket(a, offset, range),
         range.hi - range.lo > 3
  PROVE  /\ range.lo \in Nat /\ range.hi \in Nat /\ a.count \in Nat /\ Pivot(range) \in Nat
         /\ range = [lo |-> range.lo, hi |-> range.hi]
         /\ range.lo <= Pivot(range) /\ Pivot(range) < range.hi /\ range.hi <= a.count
         /\ \A i \in 0 .. range.lo - 1 : a.chunks[i].offset < offset
         /\ \A i \in range.hi .. a.count - 1 : a.chunks[i].offset > offset
         /\ \A i \in 0 .. a.count - 1 : a.chunks[i].offset \in Nat
         /\ \A i, j \in 0 .. a.count - 1 : i < j => a.chunks[i].offset < a.chunks[j].offset
<1>1. PICK lo \in Nat, hi \in Nat, n \in Nat :
        /\ range = [lo |-> lo, hi |-> hi] /\ n = a.count /\ lo <= hi /\ hi <= n
  BY ChunkedFacts DEF Bracket
<1>2. PICK pv : pv = (hi + lo) \div 2
  OBVIOUS
<1>3. Pivot(range) = pv /\ pv \in Nat /\ lo <= pv /\ pv < hi
  BY <1>1, <1>2 DEF Pivot
<1>4. /\ \A i \in 0 .. n - 1 : a.chunks[i].offset \in Nat
      /\ \A i, j \in 0 .. n - 1 : i < j => a.chunks[i].offset < a.chunks[j].offset
  BY <1>1, ChunkedFacts
<1>5. /\ \A i \in 0 .. lo - 1 : a.chunks[i].offset < offset
      /\ \A i \in hi .. n - 1 : a.chunks[i].offset > offset
  BY <1>1 DEF Bracket
<1>. QED BY <1>1, <1>3, <1>4, <1>5

LEMMA MatchBrackets ==
  ASSUME NEW a, NEW m, IsChunked(a, m), NEW offset \in Nat, NEW range, Bracket(a, offset, range),
         range.hi - range.lo > 3, offset = a.chunks[Pivot(range)].offset
  PROVE  Bracket(a, offset, [lo |-> Pivot(range), hi |-> Pivot(range) + 1])
<1>1. PICK lo, hi, n, pv : lo = range.lo /\ hi = range.hi /\ n = a.count /\ pv = Pivot(range)
  OBVIOUS
<1>2. /\ lo \in Nat /\ hi \in Nat /\ n \in Nat /\ pv \in Nat
      /\ range = [lo |-> lo, hi |-> hi] /\ n = a.count /\ pv = Pivot(range)
      /\ lo <= pv /\ pv < hi /\ hi <= n
      /\ \A i, j \in 0 .. n - 1 : i < j => a.chunks[i].offset < a.chunks[j].offset
  BY <1>1, PivotFacts
<1>3. \A i \in 0 .. pv - 1 : a.chunks[i].offset < offset
  BY <1>2
<1>4. \A i \in pv + 1 .. n - 1 : a.chunks[i].offset > offset
  <2>1. ASSUME NEW i \in pv + 1 .. n - 1 PROVE a.chunks[i].offset > offset
    <3>1. i \in 0 .. n - 1 /\ pv \in 0 .. n - 1 /\ pv < i
      BY <1>2
    <3>2. a.chunks[pv].offset < a.chunks[i].offset
      BY <1>2, <3>1
    <3>. QED BY <1>2, <3>2
  <2>. QED BY <2>1
<1>. QED BY <1>2, <1>3, <1>4 DEF Bracket

LEMMA HalfBrackets ==
  ASSUME NEW a, NEW m, IsChunked(a, m), NEW offset \in Nat, NEW range, Bracket(a, offset, range),
         range.hi - range.lo > 3, offset # a.chunks[Pivot(range)].offset
  PROVE  Bracket(a, offset, Half(a, offset, range))
<1>1. PICK lo, hi, n, pv : lo = range.lo /\ hi = range.hi /\ n = a.count /\ pv = Pivot(range)
  OBVIOUS
<1>2. /\ lo \in Nat /\ hi \in Nat /\ n \in Nat /\ pv \in Nat
      /\ range = [lo |-> lo, hi |-> hi] /\ n = a.count /\ pv = Pivot(range)
      /\ lo <= pv /\ pv < hi /\ hi <= n
      /\ \A i \in 0 .. lo - 1 : a.chunks[i].offset < offset
      /\ \A i \in hi .. n - 1 : a.chunks[i].offset > offset
      /\ \A i \in 0 .. n - 1 : a.chunks[i].offset \in Nat
      /\ \A i, j \in 0 .. n - 1 : i < j => a.chunks[i].offset < a.chunks[j].offset
  BY <1>1, PivotFacts
<1>3. pv \in 0 .. n - 1 /\ a.chunks[pv].offset \in Nat
  BY <1>2
<1>4. CASE offset < a.chunks[pv].offset
  <2>1. Half(a, offset, range) = [lo |-> lo, hi |-> pv]
    BY <1>2, <1>4 DEF Half
  <2>2. \A i \in pv .. n - 1 : a.chunks[i].offset > offset
    BY <1>2, <1>3, <1>4
  <2>. QED BY <1>2, <2>1, <2>2 DEF Bracket
<1>5. CASE a.chunks[pv].offset < offset
  <2>1. Half(a, offset, range) = [lo |-> pv + 1, hi |-> hi]
    BY <1>2, <1>3, <1>5 DEF Half
  <2>2. \A i \in 0 .. pv : a.chunks[i].offset < offset
    BY <1>2, <1>3, <1>5
  <2>. QED BY <1>2, <2>1, <2>2 DEF Bracket
<1>. QED BY <1>2, <1>3, <1>4, <1>5

Ranges(n) == [lo : 0 .. n, hi : 0 .. n]

LEMMA HalfFacts ==
  ASSUME NEW a, NEW offset, NEW n \in Nat, NEW range \in Ranges(n), range.hi - range.lo > 3
  PROVE  /\ Half(a, offset, range) \in Ranges(n)
         /\ Half(a, offset, range).hi - Half(a, offset, range).lo < range.hi - range.lo
<1>1. PICK lo \in 0 .. n, hi \in 0 .. n : range = [lo |-> lo, hi |-> hi]
  BY DEF Ranges
<1>2. PICK pv : pv = (hi + lo) \div 2
  OBVIOUS
<1>3. Pivot(range) = pv /\ pv \in Nat /\ lo <= pv /\ pv < hi
  BY <1>1, <1>2 DEF Pivot
<1>4. CASE Half(a, offset, range) = [lo |-> lo, hi |-> pv]
  BY <1>1, <1>3, <1>4 DEF Ranges
<1>5. CASE Half(a, offset, range) = [lo |-> pv + 1, hi |-> hi]
  BY <1>1, <1>3, <1>5 DEF Ranges
<1>6. \/ Half(a, offset, range) = [lo |-> lo, hi |-> pv]
      \/ Half(a, offset, range) = [lo |-> pv + 1, hi |-> hi]
  BY <1>1, <1>3 DEF Half
<1>. QED BY <1>4, <1>5, <1>6

\* What narrow is for a range, if f is what it is for smaller ones.
Narrow(a, offset, f, range) ==
  IF range.hi - range.lo <= 3 THEN range
  ELSE IF offset = a.chunks[Pivot(range)].offset
  THEN [lo |-> Pivot(range), hi |-> Pivot(range) + 1]
  ELSE f[Half(a, offset, range)]

Within(n, k) == {range \in Ranges(n) : range.hi - range.lo <= k}

\* f narrows all ranges of k chunks.
Narrows(a, offset, n, k, f) ==
  /\ f = [range \in Within(n, k) |-> f[range]]
  /\ \A range \in Within(n, k) : f[range] = Narrow(a, offset, f, range)

LEMMA NarrowsExists ==
  ASSUME NEW a, NEW offset, NEW n \in Nat
  PROVE  \E f : Narrows(a, offset, n, n, f)
<1>. DEFINE S == {k \in Nat : \E f : Narrows(a, offset, n, k, f)}
<1>1. 0 \in S
  <2>. DEFINE f == [range \in Within(n, 0) |-> range]
  <2>1. ASSUME NEW range \in Within(n, 0) PROVE Narrow(a, offset, f, range) = range
    <3>1. range.hi - range.lo <= 3
      BY DEF Within, Ranges
    <3>. QED BY <3>1 DEF Narrow
  <2>2. Narrows(a, offset, n, 0, f)
    BY <2>1 DEF Narrows
  <2>. QED BY <2>2
<1>2. ASSUME NEW k \in 0 .. n - 1, k \in S PROVE k + 1 \in S
  <2>1. PICK f : Narrows(a, offset, n, k, f)
    BY <1>2
  <2>2. \A range \in Within(n, k) : f[range] = Narrow(a, offset, f, range)
    BY <2>1 DEF Narrows
  <2>. DEFINE g == [range \in Within(n, k + 1) |->
                      IF range \in Within(n, k) THEN f[range] ELSE Narrow(a, offset, f, range)]
  <2>3. g = [range \in Within(n, k + 1) |-> g[range]]
    OBVIOUS
  <2>4. \A range \in Within(n, k) : range \in Within(n, k + 1) /\ g[range] = f[range]
    <3>1. \A range \in Within(n, k) : range \in Within(n, k + 1)
      BY DEF Within, Ranges
    <3>. QED BY <3>1
  <2>5. \A range \in Within(n, k + 1) : range \notin Within(n, k) =>
          g[range] = Narrow(a, offset, f, range)
    OBVIOUS
  <2>. HIDE DEF g
  <2>6. ASSUME NEW range \in Within(n, k + 1)
        PROVE  g[range] = Narrow(a, offset, g, range)
    <3>1. range \in Ranges(n)
      BY DEF Within
    <3>2. range.hi - range.lo > 3 => Half(a, offset, range) \in Within(n, k)
      <4>1. SUFFICES ASSUME range.hi - range.lo > 3 PROVE Half(a, offset, range) \in Within(n, k)
        OBVIOUS
      <4>2. PICK half : half = Half(a, offset, range)
        OBVIOUS
      <4>3. half \in Ranges(n) /\ half.hi - half.lo < range.hi - range.lo
        BY <3>1, <4>1, <4>2, HalfFacts
      <4>4. range.hi - range.lo <= k + 1
        BY DEF Within
      <4>5. half.hi - half.lo <= k
        BY <3>1, <4>3, <4>4 DEF Ranges
      <4>. QED BY <4>2, <4>3, <4>5 DEF Within
    <3>3. Narrow(a, offset, g, range) = Narrow(a, offset, f, range)
      <4>1. CASE range.hi - range.lo <= 3
        BY <4>1 DEF Narrow
      <4>2. CASE ~(range.hi - range.lo <= 3)
        <5>1. range.hi - range.lo > 3
          BY <3>1, <4>2 DEF Ranges
        <5>2. g[Half(a, offset, range)] = f[Half(a, offset, range)]
          BY <2>4, <3>2, <5>1
        <5>. QED BY <4>2, <5>2 DEF Narrow
      <4>. QED BY <4>1, <4>2
    <3>4. g[range] = Narrow(a, offset, f, range)
      BY <2>2, <2>4, <2>5
    <3>. QED BY <3>3, <3>4
  <2>7. Narrows(a, offset, n, k + 1, g) /\ k + 1 \in Nat
    BY <2>3, <2>6 DEF Narrows
  <2>. QED BY <2>7
<1>. HIDE DEF S
<1>3. n \in S
  BY <1>1, <1>2, UpInduction
<1>. QED BY <1>3 DEF S

LEMMA NarrowedBrackets ==
  ASSUME NEW a, NEW m, IsChunked(a, m), NEW offset \in Nat
  PROVE  Bracket(a, offset, Narrowed(a, offset))
<1>1. PICK n \in Nat \ {0} : n = a.count
  BY ChunkedFacts
<1>. DEFINE f == CHOOSE g : g = [range \in [lo : 0 .. a.count, hi : 0 .. a.count] |->
                                   Narrow(a, offset, g, range)]
<1>2. f = [range \in Ranges(n) |-> Narrow(a, offset, f, range)]
  <2>1. PICK g : Narrows(a, offset, n, n, g)
    BY NarrowsExists
  <2>2. Within(n, n) = Ranges(n)
    <3>. HIDE DEF f
    <3>1. \A range \in Ranges(n) : range.hi - range.lo <= n
      BY DEF Ranges
    <3>. QED BY <3>1 DEF Within
  <2>3. g = [range \in Ranges(n) |-> g[range]]
    BY <2>1, <2>2, Zenon DEF Narrows
  <2>4. \A range \in Ranges(n) : g[range] = Narrow(a, offset, g, range)
    BY <2>1, <2>2, Zenon DEF Narrows
  <2>5. g = [range \in Ranges(n) |-> Narrow(a, offset, g, range)]
    BY <2>3, <2>4, Zenon
  <2>6. g = [range \in [lo : 0 .. a.count, hi : 0 .. a.count] |-> Narrow(a, offset, g, range)]
    BY <1>1, <2>5, Zenon DEF Ranges
  <2>7. f = [range \in [lo : 0 .. a.count, hi : 0 .. a.count] |-> Narrow(a, offset, f, range)]
    BY <2>6, Zenon
  <2>. HIDE DEF f
  <2>. QED BY <1>1, <2>7, Zenon DEF Ranges
<1>3. Narrowed(a, offset) = f[[lo |-> 0, hi |-> a.count]]
  BY Zenon DEF Narrowed, Narrow
<1>. HIDE DEF f
<1>4. \A range \in Ranges(n) : f[range] = Narrow(a, offset, f, range)
  BY <1>2, Zenon
<1>. DEFINE S == {k \in 0 .. n : \A range \in Within(n, k) :
                    Bracket(a, offset, range) => Bracket(a, offset, f[range])}
<1>5. \A range \in Ranges(n) : range.hi - range.lo <= 3 => f[range] = range
  BY <1>4 DEF Narrow
<1>6. 0 \in S
  <2>1. \A range \in Within(n, 0) : range \in Ranges(n) /\ range.hi - range.lo <= 3
    BY DEF Within, Ranges
  <2>. QED BY <1>5, <2>1
<1>7. ASSUME NEW k \in 0 .. n - 1, k \in S PROVE k + 1 \in S
  <2>1. ASSUME NEW range \in Within(n, k + 1), Bracket(a, offset, range)
        PROVE  Bracket(a, offset, f[range])
    <3>1. range \in Ranges(n) /\ range.hi - range.lo <= k + 1
      BY DEF Within
    <3>2. CASE range.hi - range.lo <= 3
      BY <1>5, <2>1, <3>1, <3>2
    <3>3. CASE ~(range.hi - range.lo <= 3)
      <4>1. range.hi - range.lo > 3
        BY <3>1, <3>3 DEF Ranges
      <4>2. PICK half : half = Half(a, offset, range)
        OBVIOUS
      <4>3. half \in Ranges(n) /\ half.hi - half.lo < range.hi - range.lo
        BY <3>1, <4>1, <4>2, HalfFacts
      <4>4. half \in Within(n, k)
        <5>1. half.hi - half.lo <= k
          BY <3>1, <4>3 DEF Ranges
        <5>. QED BY <4>3, <5>1 DEF Within
      <4>5. CASE offset = a.chunks[Pivot(range)].offset
        <5>1. f[range] = [lo |-> Pivot(range), hi |-> Pivot(range) + 1]
          BY <1>4, <3>1, <3>3, <4>5 DEF Narrow
        <5>. QED BY <2>1, <4>1, <4>5, <5>1, MatchBrackets
      <4>6. CASE offset # a.chunks[Pivot(range)].offset
        <5>1. f[range] = f[half]
          BY <1>4, <3>1, <3>3, <4>2, <4>6 DEF Narrow
        <5>2. Bracket(a, offset, half)
          BY <2>1, <4>1, <4>2, <4>6, HalfBrackets
        <5>. QED BY <1>7, <4>4, <5>1, <5>2
      <4>. QED BY <4>5, <4>6
    <3>. QED BY <3>2, <3>3
  <2>. QED BY <2>1
<1>8. n \in S
  <2>. HIDE DEF S
  <2>. QED BY <1>6, <1>7, UpInduction
<1>9. /\ [lo |-> 0, hi |-> n] \in Within(n, n)
      /\ Bracket(a, offset, [lo |-> 0, hi |-> n])
  BY <1>1 DEF Within, Ranges, Bracket
<1>10. Bracket(a, offset, f[[lo |-> 0, hi |-> n]])
  BY <1>8, <1>9
<1>. QED BY <1>1, <1>3, <1>10

(* The chunk of an offset, or the place for it.                            *)
Place(a, offset, at) ==
  /\ at.index \in 0 .. a.count
  /\ \A i \in 0 .. at.index - 1 : a.chunks[i].offset < offset
  /\ at.found => at.index < a.count /\ a.chunks[at.index].offset = offset
  /\ ~at.found => \A i \in at.index .. a.count - 1 : a.chunks[i].offset > offset

LEMMA FindChunkFacts ==
  ASSUME NEW a, NEW m, IsChunked(a, m), NEW offset \in Nat
  PROVE  Place(a, offset, FindChunk(a, offset))
<1>. DEFINE range == Narrowed(a, offset)
            least == {i \in range.lo .. range.hi - 1 : a.chunks[i].offset >= offset}
            index == IF least = {} THEN range.hi
                     ELSE CHOOSE i \in least : \A j \in least : i <= j
            found == least # {} /\ a.chunks[index].offset = offset
<1>1. /\ FindChunk(a, offset).index = index
      /\ FindChunk(a, offset).found <=> least # {} /\ a.chunks[index].offset = offset
  <2>1. FindChunk(a, offset) = [index |-> index, found |-> found]
    BY Zenon DEF FindChunk
  <2>. HIDE DEF least, index, found
  <2>2. FindChunk(a, offset).index = index /\ FindChunk(a, offset).found = found
    BY <2>1
  <2>. QED BY <2>2, Zenon DEF found
<1>2. Bracket(a, offset, range)
  <2>. HIDE DEF least, index, found
  <2>. QED BY NarrowedBrackets
<1>. HIDE DEF range, found
<1>3. PICK lo \in Nat, hi \in Nat, n \in Nat :
        /\ range.lo = lo /\ range.hi = hi /\ n = a.count /\ lo <= hi /\ hi <= n
  BY <1>2, ChunkedFacts DEF Bracket
<1>5. /\ \A i \in 0 .. lo - 1 : a.chunks[i].offset < offset
      /\ \A i \in hi .. n - 1 : a.chunks[i].offset > offset
      /\ \A i \in 0 .. n - 1 : a.chunks[i].offset \in Nat
      /\ \A i, j \in 0 .. n - 1 : i < j => a.chunks[i].offset < a.chunks[j].offset
  BY <1>2, <1>3, ChunkedFacts DEF Bracket
<1>6. CASE least = {}
  <2>1. \A i \in lo .. hi - 1 : a.chunks[i].offset < offset
    BY <1>3, <1>5, <1>6
  <2>2. /\ FindChunk(a, offset).index = hi /\ ~FindChunk(a, offset).found
    BY <1>1, <1>3, <1>6
  <2>3. \A i \in 0 .. hi - 1 : i \in 0 .. lo - 1 \/ i \in lo .. hi - 1
    BY <1>3
  <2>. QED BY <1>3, <1>5, <2>1, <2>2, <2>3 DEF Place
<1>7. CASE least # {}
  <2>1. least \subseteq Nat
    BY <1>3
  <2>2. index = Least(least)
    BY <1>7 DEF Least
  <2>. HIDE DEF least, index
  <2>3. index \in least /\ \A j \in least : index <= j
    BY <1>7, <2>1, <2>2, LeastExists
  <2>4. /\ index \in lo .. hi - 1 /\ index \in 0 .. n - 1 /\ a.chunks[index].offset >= offset
        /\ \A i \in lo .. index - 1 : a.chunks[i].offset < offset
    BY <1>3, <1>5, <2>3 DEF least
  <2>5. \A i \in 0 .. index - 1 : i \in 0 .. lo - 1 \/ i \in lo .. index - 1
    BY <1>3, <2>4
  <2>6. /\ FindChunk(a, offset).index = index
        /\ FindChunk(a, offset).found <=> a.chunks[index].offset = offset
    BY <1>1, <1>7
  <2>7. a.chunks[index].offset # offset =>
          \A i \in index .. n - 1 : a.chunks[i].offset > offset
    BY <1>5, <2>4
  <2>. QED BY <1>3, <1>5, <2>4, <2>5, <2>6, <2>7 DEF Place
<1>. QED BY <1>6, <1>7

-----------------------------------------------------------------------------
(* A representation as a sequence of positions.                            *)
Positions(a) == 0 .. Capacity(a) - 1

Views(a) ==
  /\ Capacity(a) \in Nat
  /\ \A p \in Positions(a) : KeyName(a, p) \in Nat /\ KeyEntry(a, p) \in Flags
  /\ \A p, q \in Positions(a) : p < q => KeyName(a, p) < KeyName(a, q)
  /\ \A p \in Positions(a) : GetValue(a, KeyName(a, p)) = KeyEntry(a, p)
  /\ \A j \in Nat : (\A p \in Positions(a) : KeyName(a, p) # j) => GetValue(a, j) = Missing

LEMMA LengthIs ==
  ASSUME NEW n \in Nat, NEW s, DOMAIN s = 0 .. n - 1
  PROVE  Length(s) = n
<1>1. DOMAIN s = 0 .. n - 1
  OBVIOUS
<1>2. Cardinality(0 .. n - 1) = n
  <2>1. CASE n = 0
    <3>1. 0 .. n - 1 = {}
      BY <2>1
    <3>. QED BY <2>1, <3>1, FS_EmptySet
  <2>2. CASE n # 0
    BY <2>2, FS_Interval
  <2>. QED BY <2>1, <2>2
<1>. QED BY <1>1, <1>2 DEF Length

LEMMA DenseFacts ==
  ASSUME NEW a, NEW n, IsDense(a, n)
  PROVE  /\ n \in Nat \ {0} /\ Dense(a) /\ Length(a.items) = n /\ Capacity(a) = n
         /\ a.chunks = NoItems /\ a.count = 0 /\ a.items \in [0 .. n - 1 -> Flags]
<1>1. /\ n \in Nat \ {0} /\ a.chunks = NoItems /\ a.count = 0
      /\ a.items \in [0 .. n - 1 -> Flags]
  BY DEF IsDense
<1>2. 0 \in DOMAIN a.items
  BY <1>1
<1>3. DOMAIN NoItems = {}
  BY DEF NoItems
<1>4. Dense(a)
  BY <1>2, <1>3 DEF Dense
<1>5. Length(a.items) = n
  BY <1>1, LengthIs
<1>. QED BY <1>1, <1>4, <1>5 DEF Capacity

LEMMA DenseAt ==
  ASSUME NEW a, NEW n, IsDense(a, n), NEW p \in 0 .. n - 1
  PROVE  /\ KeyName(a, p) = p /\ KeyEntry(a, p) = a.items[p] /\ a.items[p] \in Flags
         /\ GetValue(a, p) = a.items[p]
BY DenseFacts DEF KeyName, KeyEntry, GetValue

LEMMA DenseViews ==
  ASSUME NEW a, NEW n, IsDense(a, n)
  PROVE  Views(a)
<1>1. Capacity(a) = n /\ n \in Nat /\ Dense(a) /\ Length(a.items) = n
  BY DenseFacts
<1>2. \A j \in Nat : j \notin 0 .. n - 1 => GetValue(a, j) = Missing
  BY <1>1 DEF GetValue
<1>. QED BY <1>1, <1>2, DenseAt DEF Views, Positions

LEMMA ChunkedAt ==
  ASSUME NEW a, NEW m, IsChunked(a, m), NEW c \in 0 .. a.count - 1,
         NEW r \in 0 .. CHUNK_SIZE - 1
  PROVE  /\ (c * CHUNK_SIZE) + r \in Positions(a)
         /\ KeyName(a, (c * CHUNK_SIZE) + r) = a.chunks[c].offset + r
         /\ KeyEntry(a, (c * CHUNK_SIZE) + r) = a.chunks[c].items[r]
<1>. DEFINE n == CHUNK_SIZE
            p == (c * CHUNK_SIZE) + r
<1>1. PICK k \in Nat \ {0} : k = a.count
  BY ChunkedFacts
<1>2. n \in Nat \ {0} /\ c \in Nat
  BY <1>1, SizeAssumed
<1>3. ~Dense(a)
  BY DEF IsChunked, Dense
<1>4. p \div n = c /\ p % n = r /\ p \in Nat
  BY <1>2, JoinFacts
<1>5. Capacity(a) = k * n
  BY <1>1, <1>3 DEF Capacity
<1>6. c < k
  BY <1>1
<1>7. (c * n) + n <= k * n /\ c * n \in Nat /\ k * n \in Nat
  BY <1>1, <1>2, <1>6, StepFacts, JoinFacts
<1>8. p \in Positions(a)
  BY <1>2, <1>4, <1>5, <1>7 DEF Positions
<1>. QED BY <1>3, <1>4, <1>8 DEF KeyName, KeyEntry, ChunkAt

LEMMA ChunkedSplit ==
  ASSUME NEW a, NEW m, IsChunked(a, m), NEW p \in Positions(a)
  PROVE  \E c \in 0 .. a.count - 1 : \E r \in 0 .. CHUNK_SIZE - 1 : p = (c * CHUNK_SIZE) + r
<1>. DEFINE n == CHUNK_SIZE
<1>1. PICK k \in Nat \ {0} : k = a.count
  BY ChunkedFacts
<1>2. n \in Nat \ {0}
  BY SizeAssumed
<1>3. ~Dense(a)
  BY DEF IsChunked, Dense
<1>4. Capacity(a) = k * n /\ k * n \in Nat
  BY <1>1, <1>2, <1>3, JoinFacts DEF Capacity
<1>5. p \in Nat /\ p < k * n
  BY <1>4 DEF Positions
<1>6. PICK c \in Nat, r \in 0 .. n - 1 : p = (c * n) + r
  BY <1>2, <1>5, SplitFacts
<1>7. c < k
  <2>1. SUFFICES ASSUME ~(c < k) PROVE FALSE
    OBVIOUS
  <2>2. k * n <= c * n
    <3>1. CASE c = k
      BY <1>2, <3>1
    <3>2. CASE k < c
      <4>1. (k * n) + n <= c * n /\ c * n \in Nat
        BY <1>2, <3>2, StepFacts, JoinFacts
      <4>. QED BY <1>2, <1>4, <4>1
    <3>. QED BY <2>1, <3>1, <3>2
  <2>3. c * n \in Nat
    BY <1>2, JoinFacts
  <2>. QED BY <1>4, <1>5, <1>6, <2>2, <2>3
<1>. QED BY <1>1, <1>6, <1>7

LEMMA AlignedStep ==
  ASSUME NEW n \in Nat \ {0}, NEW o \in Nat, NEW u \in Nat, o % n = 0, u % n = 0, o < u
  PROVE  o + n <= u
<1>1. PICK c \in Nat : o = c * n
  BY AlignedFacts, ZenonT(30)
<1>2. PICK d \in Nat : u = d * n
  BY AlignedFacts, ZenonT(30)
<1>3. c < d
  <2>1. SUFFICES ASSUME ~(c < d) PROVE FALSE
    OBVIOUS
  <2>2. CASE c = d
    BY <1>1, <1>2, <2>2
  <2>3. CASE d < c
    <3>1. (d * n) + n <= c * n
      BY <2>3, StepFacts
    <3>. QED BY <1>1, <1>2, <3>1
  <2>. QED BY <2>1, <2>2, <2>3
<1>. QED BY <1>1, <1>2, <1>3, StepFacts

LEMMA ChunkedOrder ==
  ASSUME NEW a, NEW m, IsChunked(a, m), NEW p \in Positions(a), NEW q \in Positions(a), p < q
  PROVE  KeyName(a, p) < KeyName(a, q)
<1>. DEFINE n == CHUNK_SIZE
<1>1. n \in Nat \ {0}
  BY SizeAssumed
<1>2. PICK c \in 0 .. a.count - 1, r \in 0 .. n - 1 : p = (c * n) + r
  BY ChunkedSplit
<1>3. PICK d \in 0 .. a.count - 1, s \in 0 .. n - 1 : q = (d * n) + s
  BY ChunkedSplit
<1>4. PICK o \in Nat, u \in Nat : o = a.chunks[c].offset /\ u = a.chunks[d].offset
  BY ChunkedFacts
<1>5. KeyName(a, p) = o + r /\ KeyName(a, q) = u + s
  BY <1>2, <1>3, <1>4, ChunkedAt
<1>6. o % n = 0 /\ u % n = 0 /\ (c < d => o < u)
  BY <1>4, ChunkedFacts
<1>7. c \in Nat /\ d \in Nat /\ c * n \in Nat /\ d * n \in Nat
  <2>1. c \in Nat /\ d \in Nat
    BY ChunkedFacts
  <2>. QED BY <1>1, <2>1, JoinFacts
<1>8. CASE c = d
  BY <1>1, <1>2, <1>3, <1>4, <1>5, <1>7, <1>8
<1>9. CASE c < d
  <2>1. o + n <= u
    BY <1>1, <1>6, <1>9, AlignedStep
  <2>. HIDE DEF n
  <2>. QED BY <1>1, <1>5, <2>1
<1>10. CASE d < c
  <2>1. (d * n) + n <= c * n
    BY <1>1, <1>7, <1>10, StepFacts
  <2>2. PICK x \in Nat, y \in Nat : x = c * n /\ y = d * n
    BY <1>7
  <2>. HIDE DEF n
  <2>. QED BY <1>1, <1>2, <1>3, <2>1, <2>2
<1>. QED BY <1>7, <1>8, <1>9, <1>10

LEMMA ChunkedReads ==
  ASSUME NEW a, NEW m, IsChunked(a, m), NEW c \in 0 .. a.count - 1,
         NEW r \in 0 .. CHUNK_SIZE - 1
  PROVE  GetValue(a, a.chunks[c].offset + r) = a.chunks[c].items[r]
<1>1. PICK o \in Nat : o = a.chunks[c].offset /\ o % CHUNK_SIZE = 0
  BY ChunkedFacts
<1>2. CHUNK_SIZE \in Nat \ {0}
  BY SizeAssumed
<1>3. PICK j \in Nat : j = o + r
  BY <1>1, <1>2, AlignedFacts
<1>4. Offset(j) = o /\ j - o = r
  <2>1. o % CHUNK_SIZE = 0 /\ j = o + r
    BY <1>1, <1>3
  <2>. QED BY <2>1, OffsetIs
<1>5. PICK at : at = FindChunk(a, o)
  OBVIOUS
<1>6. Place(a, o, at)
  BY <1>5, FindChunkFacts
<1>7. PICK k \in Nat : k = a.count
  BY ChunkedFacts
<1>8. /\ \A i, l \in 0 .. k - 1 : i < l => a.chunks[i].offset < a.chunks[l].offset
      /\ \A i \in 0 .. k - 1 : a.chunks[i].offset \in Nat
  BY <1>7, ChunkedFacts
<1>9. at.found /\ at.index = c
  <2>1. PICK index \in 0 .. k : index = at.index
    BY <1>6, <1>7 DEF Place
  <2>2. c \in 0 .. index - 1 => o < o
    BY <1>1, <1>6, <2>1 DEF Place
  <2>3. ~at.found /\ c \in index .. k - 1 => o > o
    BY <1>1, <1>6, <1>7, <2>1 DEF Place
  <2>4. at.found => index < k /\ a.chunks[index].offset = o
    BY <1>6, <1>7, <2>1 DEF Place
  <2>5. at.found
    BY <1>7, <2>1, <2>2, <2>3
  <2>. QED BY <1>1, <1>7, <1>8, <2>1, <2>4, <2>5
<1>10. ~Dense(a)
  BY DEF IsChunked, Dense
<1>11. GetValue(a, j) = a.chunks[c].items[r]
  BY <1>4, <1>5, <1>9, <1>10 DEF GetValue
<1>. QED BY <1>1, <1>3, <1>11

LEMMA ChunkedMisses ==
  ASSUME NEW a, NEW m, IsChunked(a, m), NEW j \in Nat,
         \A p \in Positions(a) : KeyName(a, p) # j
  PROVE  GetValue(a, j) = Missing
<1>1. PICK o \in Nat, r \in 0 .. CHUNK_SIZE - 1 : o = Offset(j) /\ r = j - o /\ o + r = j
  <2>1. PICK o \in Nat : o = Offset(j)
    BY OffsetFacts
  <2>2. PICK r \in 0 .. CHUNK_SIZE - 1 : r = j - o
    BY <2>1, OffsetFacts
  <2>3. o + r = j
    BY <2>1, <2>2, SizeAssumed
  <2>. QED BY <2>1, <2>2, <2>3
<1>2. PICK at : at = FindChunk(a, o)
  OBVIOUS
<1>3. Place(a, o, at)
  BY <1>2, FindChunkFacts
<1>4. ~at.found
  <2>1. SUFFICES ASSUME at.found PROVE FALSE
    OBVIOUS
  <2>2. PICK c \in 0 .. a.count - 1 : c = at.index /\ a.chunks[c].offset = o
    BY <1>3, <2>1, ChunkedFacts DEF Place
  <2>3. /\ (c * CHUNK_SIZE) + r \in Positions(a)
        /\ KeyName(a, (c * CHUNK_SIZE) + r) = o + r
    BY <2>2, ChunkedAt
  <2>. QED BY <1>1, <2>3
<1>5. ~Dense(a)
  BY DEF IsChunked, Dense
<1>. QED BY <1>1, <1>2, <1>4, <1>5 DEF GetValue

LEMMA ChunkedViews ==
  ASSUME NEW a, NEW m, IsChunked(a, m)
  PROVE  Views(a)
<1>1. Capacity(a) \in Nat
  <2>1. ~Dense(a) /\ a.count \in Nat
    BY ChunkedFacts DEF IsChunked, Dense
  <2>. QED BY <2>1, SizeAssumed, JoinFacts DEF Capacity
<1>2. ASSUME NEW p \in Positions(a)
      PROVE  /\ KeyName(a, p) \in Nat /\ KeyEntry(a, p) \in Flags
             /\ GetValue(a, KeyName(a, p)) = KeyEntry(a, p)
  <2>1. PICK c \in 0 .. a.count - 1, r \in 0 .. CHUNK_SIZE - 1 : p = (c * CHUNK_SIZE) + r
    BY ChunkedSplit
  <2>2. KeyName(a, p) = a.chunks[c].offset + r /\ KeyEntry(a, p) = a.chunks[c].items[r]
    BY <2>1, ChunkedAt
  <2>3. a.chunks[c].offset \in Nat /\ a.chunks[c].items \in [0 .. CHUNK_SIZE - 1 -> Flags]
    BY ChunkedFacts
  <2>4. GetValue(a, a.chunks[c].offset + r) = a.chunks[c].items[r]
    BY ChunkedReads
  <2>. QED BY <2>2, <2>3, <2>4, SizeAssumed
<1>. QED BY <1>1, <1>2, ChunkedOrder, ChunkedMisses DEF Views

-----------------------------------------------------------------------------
(* What a step does to the positions.                                      *)
Extends(a, b) ==
  /\ Capacity(a) <= Capacity(b)
  /\ \A p \in Positions(a) : \E q \in Positions(b) :
       p <= q /\ KeyName(b, q) = KeyName(a, p) /\ KeyEntry(b, q) = KeyEntry(a, p)
  /\ \A q \in Positions(b) :
       KeyEntry(b, q) = Missing \/ \E p \in Positions(a) : KeyName(a, p) = KeyName(b, q)

Changes(a, b, k, value) ==
  /\ Capacity(b) = Capacity(a) /\ k \in Positions(a)
  /\ \A p \in Positions(a) :
       /\ KeyName(b, p) = KeyName(a, p)
       /\ KeyEntry(b, p) = IF p = k THEN value ELSE KeyEntry(a, p)

(* No name is at a lower position than before.                             *)
Ascends(a, b) ==
  /\ Capacity(a) <= Capacity(b)
  /\ \A p \in Positions(a) : \A q \in Positions(b) : KeyName(b, q) = KeyName(a, p) => p <= q

\* The value is written under the index, and no other is touched.
Writes(a, b, index, value) ==
  /\ \A j \in Nat : GetValue(b, j) = IF j = index THEN value ELSE GetValue(a, j)
  /\ Ascends(a, b)

LEMMA ExtendsReads ==
  ASSUME NEW a, NEW b, Views(a), Views(b), Extends(a, b)
  PROVE  /\ \A j \in Nat : GetValue(b, j) = GetValue(a, j)
         /\ Ascends(a, b)
<1>1. ASSUME NEW j \in Nat PROVE GetValue(b, j) = GetValue(a, j)
  <2>1. CASE \E p \in Positions(a) : KeyName(a, p) = j
    <3>1. PICK p \in Positions(a) : KeyName(a, p) = j
      BY <2>1
    <3>2. PICK q \in Positions(b) : KeyName(b, q) = j /\ KeyEntry(b, q) = KeyEntry(a, p)
      BY <3>1 DEF Extends
    <3>. QED BY <3>1, <3>2 DEF Views
  <2>2. CASE \A p \in Positions(a) : KeyName(a, p) # j
    <3>1. GetValue(a, j) = Missing
      BY <2>2 DEF Views
    <3>2. CASE \E q \in Positions(b) : KeyName(b, q) = j
      <4>1. PICK q \in Positions(b) : KeyName(b, q) = j
        BY <3>2
      <4>2. KeyEntry(b, q) = Missing
        BY <2>2, <4>1 DEF Extends
      <4>. QED BY <3>1, <4>1, <4>2 DEF Views
    <3>3. CASE \A q \in Positions(b) : KeyName(b, q) # j
      BY <3>1, <3>3 DEF Views
    <3>. QED BY <3>2, <3>3
  <2>. QED BY <2>1, <2>2
<1>2. ASSUME NEW p \in Positions(a), NEW q \in Positions(b), KeyName(b, q) = KeyName(a, p)
      PROVE  p <= q
  <2>1. PICK r \in Positions(b) : p <= r /\ KeyName(b, r) = KeyName(a, p)
    BY DEF Extends
  <2>2. /\ KeyName(b, q) \in Nat /\ KeyName(b, r) \in Nat
        /\ (q < r => KeyName(b, q) < KeyName(b, r)) /\ (r < q => KeyName(b, r) < KeyName(b, q))
    BY DEF Views
  <2>3. q \in Nat /\ r \in Nat
    BY DEF Views, Positions
  <2>. QED BY <1>2, <2>1, <2>2, <2>3
<1>. QED BY <1>1, <1>2 DEF Extends, Ascends

LEMMA ChangesReads ==
  ASSUME NEW a, NEW b, Views(a), Views(b), NEW k, NEW value, Changes(a, b, k, value)
  PROVE  Writes(a, b, KeyName(a, k), value)
<1>1. Positions(b) = Positions(a) /\ k \in Positions(a)
  BY DEF Changes, Positions
<1>2. \A p \in Positions(a) : p \in Nat
  BY DEF Views, Positions
<1>3. \A p, q \in Positions(a) : KeyName(a, p) = KeyName(a, q) => p = q
  <2>1. ASSUME NEW p \in Positions(a), NEW q \in Positions(a), KeyName(a, p) = KeyName(a, q)
        PROVE  p = q
    <3>1. /\ KeyName(a, p) \in Nat /\ KeyName(a, q) \in Nat
          /\ (q < p => KeyName(a, q) < KeyName(a, p)) /\ (p < q => KeyName(a, p) < KeyName(a, q))
      BY DEF Views
    <3>. QED BY <1>2, <2>1, <3>1
  <2>. QED BY <2>1
<1>4. ASSUME NEW j \in Nat
      PROVE  GetValue(b, j) = IF j = KeyName(a, k) THEN value ELSE GetValue(a, j)
  <2>1. CASE \E p \in Positions(a) : KeyName(a, p) = j
    <3>1. PICK p \in Positions(a) : KeyName(a, p) = j
      BY <2>1
    <3>2. KeyName(b, p) = j /\ KeyEntry(b, p) = IF p = k THEN value ELSE KeyEntry(a, p)
      BY <3>1 DEF Changes
    <3>3. GetValue(b, j) = KeyEntry(b, p) /\ GetValue(a, j) = KeyEntry(a, p)
      BY <1>1, <3>1, <3>2 DEF Views
    <3>4. p = k <=> j = KeyName(a, k)
      BY <1>1, <1>3, <3>1
    <3>. QED BY <3>2, <3>3, <3>4
  <2>2. CASE \A p \in Positions(a) : KeyName(a, p) # j
    <3>1. GetValue(a, j) = Missing
      BY <2>2 DEF Views
    <3>2. \A p \in Positions(b) : KeyName(b, p) # j
      BY <1>1, <2>2 DEF Changes
    <3>3. GetValue(b, j) = Missing
      BY <3>2 DEF Views
    <3>. QED BY <1>1, <2>2, <3>1, <3>3
  <2>. QED BY <2>1, <2>2
<1>5. ASSUME NEW p \in Positions(a), NEW q \in Positions(b), KeyName(b, q) = KeyName(a, p)
      PROVE  p <= q
  <2>1. KeyName(a, q) = KeyName(a, p) /\ q \in Positions(a)
    BY <1>1, <1>5 DEF Changes
  <2>2. p = q
    BY <1>3, <2>1
  <2>. QED BY <1>2, <2>2
<1>6. Capacity(a) <= Capacity(b)
  BY DEF Changes, Views
<1>. QED BY <1>4, <1>5, <1>6 DEF Writes, Ascends

(* An extension, and then a change.                                        *)
LEMMA ExtendsThenWrites ==
  ASSUME NEW a, NEW b, NEW c, Views(a), Views(b), Extends(a, b),
         NEW index, NEW value, Capacity(c) \in Nat, Writes(b, c, index, value)
  PROVE  Writes(a, c, index, value)
<1>1. \A j \in Nat : GetValue(b, j) = GetValue(a, j)
  BY ExtendsReads
<1>2. \A j \in Nat : GetValue(c, j) = IF j = index THEN value ELSE GetValue(a, j)
  BY <1>1 DEF Writes
<1>3. ASSUME NEW p \in Positions(a), NEW q \in Positions(c), KeyName(c, q) = KeyName(a, p)
      PROVE  p <= q
  <2>1. PICK r \in Positions(b) : p <= r /\ KeyName(b, r) = KeyName(a, p)
    BY DEF Extends
  <2>2. r <= q
    BY <1>3, <2>1 DEF Writes, Ascends
  <2>3. p \in Nat /\ q \in Nat /\ r \in Nat
    BY DEF Views, Positions
  <2>. QED BY <2>1, <2>2, <2>3
<1>4. Capacity(a) <= Capacity(c)
  BY DEF Writes, Ascends, Extends, Views
<1>. QED BY <1>2, <1>3, <1>4 DEF Writes, Ascends

-----------------------------------------------------------------------------
(* The steps                                                               *)
WritesItem(a, i, value, b) == b = [a EXCEPT !.items[i] = value]

LEMMA ItemWritten ==
  ASSUME NEW a, NEW n, IsDense(a, n), NEW i \in 0 .. n - 1, NEW value \in Flags,
         NEW b, WritesItem(a, i, value, b)
  PROVE  IsDense(b, n) /\ Changes(a, b, i, value)
<1>1. /\ n \in Nat \ {0} /\ a = [items |-> a.items, chunks |-> NoItems, count |-> 0]
      /\ a.items \in [0 .. n - 1 -> Flags]
  BY DEF IsDense
<1>2. b = [items |-> [a.items EXCEPT ![i] = value], chunks |-> NoItems, count |-> 0]
  <2>1. PICK s : s = a.items
    OBVIOUS
  <2>2. a = [items |-> s, chunks |-> NoItems, count |-> 0]
    BY <1>1, <2>1
  <2>3. b = [items |-> [s EXCEPT ![i] = value], chunks |-> NoItems, count |-> 0]
    BY <2>2 DEF WritesItem
  <2>. QED BY <2>1, <2>3
<1>3. /\ b.items = [a.items EXCEPT ![i] = value]
      /\ b = [items |-> b.items, chunks |-> NoItems, count |-> 0]
  BY <1>2
<1>4. /\ b.items \in [0 .. n - 1 -> Flags]
      /\ \A p \in 0 .. n - 1 : b.items[p] = IF p = i THEN value ELSE a.items[p]
  BY <1>1, <1>3
<1>5. IsDense(b, n)
  BY <1>1, <1>3, <1>4 DEF IsDense
<1>6. Capacity(a) = n /\ Capacity(b) = n
  BY <1>5, DenseFacts
<1>. QED BY <1>4, <1>5, <1>6, DenseAt DEF Changes, Positions

LEMMA GrownExtends ==
  ASSUME NEW a, NEW n, IsDense(a, n)
  PROVE  IsDense(Grown(a), 2 * n) /\ Extends(a, Grown(a))
<1>1. /\ n \in Nat \ {0} /\ a = [items |-> a.items, chunks |-> NoItems, count |-> 0]
      /\ a.items \in [0 .. n - 1 -> Flags] /\ Length(a.items) = n
  BY DenseFacts DEF IsDense
<1>2. PICK k \in Nat \ {0} : k = 2 * n /\ n <= k
  BY <1>1
<1>3. PICK s : s = Copied(a.items, 0, Fresh(k), 0, n)
  OBVIOUS
<1>4. /\ s \in [0 .. k - 1 -> Flags]
      /\ \A i \in 0 .. k - 1 : s[i] = IF i < n THEN a.items[i] ELSE Missing
  <2>1. DOMAIN Fresh(k) = 0 .. k - 1 /\ \A i \in 0 .. k - 1 : Fresh(k)[i] = Missing
    BY DEF Fresh
  <2>2. s = [i \in 0 .. k - 1 |-> IF i \in 0 .. 0 + n - 1 THEN a.items[0 + i - 0] ELSE Fresh(k)[i]]
    BY <1>3, <2>1, Zenon DEF Copied
  <2>3. \A i \in 0 .. k - 1 : s[i] = IF i < n THEN a.items[i] ELSE Missing
    BY <1>1, <2>1, <2>2
  <2>4. \A i \in 0 .. k - 1 : s[i] \in Flags
    BY <1>1, <2>3 DEF Flags
  <2>. QED BY <2>2, <2>3, <2>4
<1>5. PICK b : b = Grown(a)
  OBVIOUS
<1>6. b = [items |-> s, chunks |-> NoItems, count |-> 0]
  <2>1. b = [a EXCEPT !.items = s]
    BY <1>1, <1>2, <1>3, <1>5 DEF Grown
  <2>. QED BY <1>1, <2>1
<1>7. IsDense(b, k)
  BY <1>2, <1>4, <1>6 DEF IsDense
<1>8. Capacity(a) = n /\ Capacity(b) = k /\ b.items = s
  BY <1>6, <1>7, DenseFacts
<1>9. \A p \in 0 .. n - 1 : p \in 0 .. k - 1
  BY <1>1, <1>2
<1>10. \A p \in 0 .. n - 1 : p <= p /\ KeyName(b, p) = KeyName(a, p) /\ KeyEntry(b, p) = KeyEntry(a, p)
  BY <1>1, <1>4, <1>7, <1>8, <1>9, DenseAt
<1>11. ASSUME NEW q \in 0 .. k - 1
       PROVE  KeyEntry(b, q) = Missing \/ \E p \in 0 .. n - 1 : KeyName(a, p) = KeyName(b, q)
  <2>1. CASE q < n
    <3>1. q \in 0 .. n - 1
      BY <1>1, <2>1
    <3>. QED BY <1>10, <3>1
  <2>2. CASE ~(q < n)
    BY <1>4, <1>7, <1>8, <2>2, DenseAt
  <2>. QED BY <2>1, <2>2
<1>12. Extends(a, b)
  BY <1>1, <1>2, <1>8, <1>9, <1>10, <1>11 DEF Extends, Positions
<1>. QED BY <1>2, <1>5, <1>7, <1>12

LEMMA ChunkOfFacts ==
  ASSUME NEW a, NEW n, IsDense(a, n), NEW c \in Nat
  PROVE  /\ IsChunk(ChunkOf(a, c)) /\ ChunkOf(a, c).offset = c * CHUNK_SIZE
         /\ \A r \in 0 .. CHUNK_SIZE - 1 :
              ChunkOf(a, c).items[r] = IF (c * CHUNK_SIZE) + r < n
                                       THEN a.items[(c * CHUNK_SIZE) + r] ELSE Missing
<1>1. n \in Nat \ {0} /\ a.items \in [0 .. n - 1 -> Flags] /\ Length(a.items) = n
  BY DenseFacts
<1>2. PICK k : k = CHUNK_SIZE
  OBVIOUS
<1>3. k \in Nat \ {0}
  BY <1>2, SizeAssumed
<1>4. PICK o \in Nat : o = c * k /\ o % k = 0
  BY <1>3, JoinFacts
<1>5. PICK left \in Int : left = n - o
  BY <1>1
<1>6. PICK x \in Int : x = IF left < k THEN left ELSE k
  BY <1>3
<1>7. PICK s : s = Copied(a.items, o, Fresh(k), 0, x)
  OBVIOUS
<1>8. /\ s \in [0 .. k - 1 -> Flags]
      /\ \A r \in 0 .. k - 1 : s[r] = IF o + r < n THEN a.items[o + r] ELSE Missing
  <2>1. DOMAIN Fresh(k) = 0 .. k - 1 /\ \A i \in 0 .. k - 1 : Fresh(k)[i] = Missing
    BY DEF Fresh
  <2>2. s = [i \in 0 .. k - 1 |-> IF i \in 0 .. 0 + x - 1 THEN a.items[o + i - 0] ELSE Fresh(k)[i]]
    BY <1>7, <2>1, Zenon DEF Copied
  <2>3. \A r \in 0 .. k - 1 : (r \in 0 .. 0 + x - 1 <=> o + r < n) /\ o + r - 0 = o + r
    BY <1>1, <1>3, <1>5, <1>6
  <2>4. \A r \in 0 .. k - 1 : s[r] = IF o + r < n THEN a.items[o + r] ELSE Missing
    BY <2>1, <2>2, <2>3
  <2>5. \A r \in 0 .. k - 1 : o + r < n => o + r \in 0 .. n - 1
    BY <1>1
  <2>6. \A r \in 0 .. k - 1 : s[r] \in Flags
    BY <1>1, <2>4, <2>5 DEF Flags
  <2>. QED BY <2>2, <2>4, <2>6
<1>9. ChunkOf(a, c) = [offset |-> o, items |-> s]
  BY <1>1, <1>2, <1>4, <1>5, <1>6, <1>7 DEF ChunkOf
<1>10. IsChunk(ChunkOf(a, c))
  BY <1>2, <1>4, <1>8, <1>9 DEF IsChunk
<1>. QED BY <1>2, <1>4, <1>8, <1>9, <1>10

LEMMA TransferredExtends ==
  ASSUME NEW a, NEW n, IsDense(a, n)
  PROVE  /\ \E m : IsChunked(Transferred(a), m)
         /\ Extends(a, Transferred(a))
<1>1. n \in Nat \ {0} /\ Length(a.items) = n
  BY DenseFacts
<1>2. CHUNK_SIZE \in Nat \ {0}
  BY SizeAssumed
<1>3. PICK k \in Nat \ {0} : k = n \div CHUNK_SIZE + 1 /\ n < k * CHUNK_SIZE
  <2>1. PICK d \in Nat, r \in 0 .. CHUNK_SIZE - 1 :
          d = n \div CHUNK_SIZE /\ n = (d * CHUNK_SIZE) + r
    BY <1>1, <1>2, SplitFacts, ZenonT(30)
  <2>2. (d * CHUNK_SIZE) + CHUNK_SIZE <= (d + 1) * CHUNK_SIZE
    BY <1>2, <2>1, StepFacts
  <2>3. d * CHUNK_SIZE \in Nat /\ (d + 1) * CHUNK_SIZE \in Nat
    BY <1>2, <2>1, JoinFacts
  <2>4. n < (d + 1) * CHUNK_SIZE
    BY <1>2, <2>1, <2>2, <2>3
  <2>. QED BY <2>1, <2>4
<1>4. PICK m \in Nat \ {0} : m = Larger(k, INITIAL_CHUNK_COUNT) /\ k <= m
  BY <1>3, SizesAssumption DEF Larger
<1>5. PICK b : b = Transferred(a)
  OBVIOUS
<1>6. PICK s : s = [i \in 0 .. m - 1 |-> IF i < k THEN ChunkOf(a, i) ELSE NullChunk]
  OBVIOUS
<1>7. b = [items |-> NoItems, chunks |-> s, count |-> k]
  BY <1>1, <1>3, <1>4, <1>5, <1>6, Zenon DEF Transferred
<1>8. b.items = NoItems /\ b.chunks = s /\ b.count = k
  BY <1>7
<1>9. \A c \in 0 .. k - 1 : c \in Nat /\ s[c] = ChunkOf(a, c)
  BY <1>3, <1>4, <1>6
<1>10. \A c \in 0 .. k - 1 :
         /\ IsChunk(s[c]) /\ s[c].offset = c * CHUNK_SIZE
         /\ \A r \in 0 .. CHUNK_SIZE - 1 :
              s[c].items[r] = IF (c * CHUNK_SIZE) + r < n
                              THEN a.items[(c * CHUNK_SIZE) + r] ELSE Missing
  BY <1>9, ChunkOfFacts
<1>11. ASSUME NEW c \in 0 .. k - 1, NEW d \in 0 .. k - 1, c < d
       PROVE  s[c].offset < s[d].offset
  <2>1. (c * CHUNK_SIZE) + CHUNK_SIZE <= d * CHUNK_SIZE
    BY <1>2, <1>9, <1>11, StepFacts
  <2>2. c * CHUNK_SIZE \in Nat /\ d * CHUNK_SIZE \in Nat
    BY <1>2, <1>9, JoinFacts
  <2>3. c * CHUNK_SIZE < d * CHUNK_SIZE
    BY <1>2, <2>1, <2>2
  <2>. QED BY <1>10, <2>3
<1>12. IsChunked(b, m)
  <2>1. b = [items |-> NoItems, chunks |-> b.chunks, count |-> b.count]
    BY <1>7
  <2>2. b.chunks = [i \in 0 .. m - 1 |-> b.chunks[i]]
    BY <1>6, <1>8
  <2>3. b.count \in 1 .. m
    BY <1>3, <1>4, <1>8
  <2>. QED BY <1>4, <1>8, <1>10, <1>11, <2>1, <2>2, <2>3 DEF IsChunked
<1>13. Capacity(a) = n /\ Capacity(b) = k * CHUNK_SIZE
  <2>1. ~Dense(b)
    BY <1>8 DEF Dense
  <2>. QED BY <1>8, <2>1, DenseFacts DEF Capacity
<1>14. k * CHUNK_SIZE \in Nat
  BY <1>2, <1>3, TimesFacts
<1>15. ASSUME NEW q \in Positions(b)
       PROVE  /\ q \in Nat /\ KeyName(b, q) = q
              /\ KeyEntry(b, q) = IF q < n THEN a.items[q] ELSE Missing
  <2>1. PICK c \in 0 .. k - 1, r \in 0 .. CHUNK_SIZE - 1 : q = (c * CHUNK_SIZE) + r
    BY <1>8, <1>12, ChunkedSplit
  <2>2. KeyName(b, q) = s[c].offset + r /\ KeyEntry(b, q) = s[c].items[r]
    BY <1>8, <1>12, <2>1, ChunkedAt
  <2>3. q \in Nat
    BY <1>13, <1>14 DEF Positions
  <2>. QED BY <1>10, <2>1, <2>2, <2>3
<1>16. \A p \in 0 .. n - 1 : p \in Positions(b)
  BY <1>1, <1>3, <1>13, <1>14 DEF Positions
<1>17. \A p \in 0 .. n - 1 : KeyName(a, p) = p /\ KeyEntry(a, p) = a.items[p]
  BY DenseAt
<1>18. \A p \in 0 .. n - 1 : KeyName(b, p) = KeyName(a, p) /\ KeyEntry(b, p) = KeyEntry(a, p)
  BY <1>1, <1>15, <1>16, <1>17
<1>19. ASSUME NEW q \in Positions(b)
       PROVE  KeyEntry(b, q) = Missing \/ \E p \in 0 .. n - 1 : KeyName(a, p) = KeyName(b, q)
  <2>1. CASE q < n
    <3>1. q \in 0 .. n - 1
      BY <1>1, <1>15, <2>1
    <3>. QED BY <1>18, <3>1
  <2>2. CASE ~(q < n)
    BY <1>15, <2>2
  <2>. QED BY <2>1, <2>2
<1>20. Extends(a, b)
  <2>1. Capacity(a) <= Capacity(b)
    BY <1>1, <1>3, <1>13, <1>14
  <2>2. Positions(a) = 0 .. n - 1
    BY <1>13 DEF Positions
  <2>3. \A p \in 0 .. n - 1 : p <= p
    OBVIOUS
  <2>. QED BY <1>16, <1>18, <1>19, <2>1, <2>2, <2>3 DEF Extends
<1>. QED BY <1>5, <1>12, <1>20

-----------------------------------------------------------------------------
WritesChunk(a, c, r, value, b) == b = [a EXCEPT !.chunks[c].items[r] = value]

LEMMA ChunkWritten ==
  ASSUME NEW a, NEW m, IsChunked(a, m), NEW c \in 0 .. a.count - 1,
         NEW r \in 0 .. CHUNK_SIZE - 1, NEW value \in Flags, NEW b, WritesChunk(a, c, r, value, b)
  PROVE  IsChunked(b, m) /\ Changes(a, b, (c * CHUNK_SIZE) + r, value)
<1>1. PICK s, k : s = a.chunks /\ k = a.count
  OBVIOUS
<1>2. /\ m \in Nat \ {0} /\ a = [items |-> NoItems, chunks |-> s, count |-> k] /\ k \in 1 .. m
      /\ s = [i \in 0 .. m - 1 |-> s[i]] /\ \A i \in 0 .. k - 1 : IsChunk(s[i])
      /\ \A i, j \in 0 .. k - 1 : i < j => s[i].offset < s[j].offset
  BY <1>1 DEF IsChunked
<1>3. c \in 0 .. k - 1 /\ c \in 0 .. m - 1
  BY <1>1, <1>2
<1>4. PICK chunk : chunk = [s[c] EXCEPT !.items[r] = value]
  OBVIOUS
<1>5. /\ IsChunk(chunk) /\ chunk.offset = s[c].offset
      /\ \A x \in 0 .. CHUNK_SIZE - 1 : chunk.items[x] = IF x = r THEN value ELSE s[c].items[x]
  <2>1. PICK o, its : o = s[c].offset /\ its = s[c].items
    OBVIOUS
  <2>2. IsChunk(s[c])
    BY <1>2, <1>3
  <2>3. /\ s[c] = [offset |-> o, items |-> its] /\ o \in Nat /\ o % CHUNK_SIZE = 0
        /\ its \in [0 .. CHUNK_SIZE - 1 -> Flags]
    BY <2>1, <2>2 DEF IsChunk
  <2>4. chunk = [offset |-> o, items |-> [its EXCEPT ![r] = value]]
    BY <1>4, <2>3
  <2>. QED BY <2>1, <2>3, <2>4 DEF IsChunk
<1>6. PICK u : u = [s EXCEPT ![c] = chunk]
  OBVIOUS
<1>7. u = [i \in 0 .. m - 1 |-> u[i]] /\ \A i \in 0 .. m - 1 : u[i] = IF i = c THEN chunk ELSE s[i]
  <2>1. DOMAIN s = 0 .. m - 1
    BY <1>2
  <2>. QED BY <1>6, <2>1
<1>8. b = [items |-> NoItems, chunks |-> u, count |-> k]
  BY <1>2, <1>4, <1>6 DEF WritesChunk
<1>9. b.chunks = u /\ b.count = k /\ b.items = NoItems
  BY <1>8
<1>10. \A i \in 0 .. k - 1 : i \in 0 .. m - 1
  BY <1>2
<1>11. \A i \in 0 .. k - 1 : IsChunk(u[i]) /\ u[i].offset = s[i].offset
  BY <1>2, <1>5, <1>7, <1>10
<1>12. IsChunked(b, m)
  <2>1. b = [items |-> NoItems, chunks |-> b.chunks, count |-> b.count]
    BY <1>8, <1>9
  <2>2. b.chunks = [i \in 0 .. m - 1 |-> b.chunks[i]]
    BY <1>7, <1>9
  <2>3. \A i, j \in 0 .. k - 1 : i < j => u[i].offset < u[j].offset
    BY <1>2, <1>11
  <2>. QED BY <1>2, <1>9, <1>11, <2>1, <2>2, <2>3 DEF IsChunked
<1>13. Capacity(b) = Capacity(a) /\ Positions(b) = Positions(a)
  <2>1. ~Dense(a) /\ ~Dense(b) /\ b.count = a.count
    BY <1>1, <1>9 DEF Dense, IsChunked
  <2>. QED BY <2>1 DEF Capacity, Positions
<1>14. ASSUME NEW p \in Positions(a)
       PROVE  /\ KeyName(b, p) = KeyName(a, p)
              /\ KeyEntry(b, p) = IF p = (c * CHUNK_SIZE) + r THEN value ELSE KeyEntry(a, p)
  <2>1. PICK d \in 0 .. k - 1, x \in 0 .. CHUNK_SIZE - 1 : p = (d * CHUNK_SIZE) + x
    BY <1>1, ChunkedSplit
  <2>2. KeyName(a, p) = s[d].offset + x /\ KeyEntry(a, p) = s[d].items[x]
    BY <1>1, <2>1, ChunkedAt
  <2>3. KeyName(b, p) = u[d].offset + x /\ KeyEntry(b, p) = u[d].items[x]
    BY <1>9, <1>12, <2>1, ChunkedAt
  <2>4. p = (c * CHUNK_SIZE) + r <=> d = c /\ x = r
    <3>1. d \in Nat /\ c \in Nat /\ CHUNK_SIZE \in Nat \ {0}
      BY <1>3, SizeAssumed
    <3>2. p \div CHUNK_SIZE = d /\ p % CHUNK_SIZE = x
      BY <2>1, <3>1, JoinFacts
    <3>3. /\ ((c * CHUNK_SIZE) + r) \div CHUNK_SIZE = c
          /\ ((c * CHUNK_SIZE) + r) % CHUNK_SIZE = r
      BY <3>1, JoinFacts
    <3>. QED BY <2>1, <3>2, <3>3
  <2>5. u[d] = IF d = c THEN chunk ELSE s[d]
    BY <1>7, <1>10
  <2>6. u[d].items[x] = IF d = c /\ x = r THEN value ELSE s[d].items[x]
    BY <1>5, <2>5
  <2>. QED BY <1>11, <2>2, <2>3, <2>4, <2>6
<1>15. (c * CHUNK_SIZE) + r \in Positions(a)
  BY ChunkedAt
<1>. QED BY <1>12, <1>13, <1>14, <1>15 DEF Changes

\* A chunk is between the others.
IsInserted(a, chunk, x, b) ==
  /\ b.count = a.count + 1
  /\ \A i \in 0 .. a.count :
       b.chunks[i] = IF i < x THEN a.chunks[i] ELSE IF i = x THEN chunk ELSE a.chunks[i - 1]

LEMMA RoomFacts ==
  ASSUME NEW a, NEW m, IsChunked(a, m)
  PROVE  \E n \in Nat : /\ DOMAIN Room(a) = 0 .. n - 1 /\ a.count < n
                        /\ \A i \in 0 .. a.count - 1 : Room(a)[i] = a.chunks[i]
<1>1. PICK k \in Nat \ {0} : k = a.count /\ m \in Nat \ {0} /\ k <= m
  BY ChunkedFacts
<1>2. DOMAIN a.chunks = 0 .. m - 1
  BY DEF IsChunked
<1>3. Full(a) <=> m = k
  BY <1>1, <1>2, LengthIs DEF Full
<1>4. CASE Full(a)
  <2>1. PICK n \in Nat : n = Larger((k * 12) \div 10, k + 1) /\ k < n
    BY <1>1 DEF Larger
  <2>2. Room(a) = [i \in 0 .. n - 1 |-> IF i < k THEN a.chunks[i] ELSE NullChunk]
    BY <1>1, <1>4, <2>1 DEF Room
  <2>. QED BY <1>1, <2>1, <2>2, SMTT(30)
<1>5. CASE ~Full(a)
  <2>1. Room(a) = a.chunks
    BY <1>5 DEF Room
  <2>. QED BY <1>1, <1>2, <1>3, <1>5, <2>1
<1>. QED BY <1>4, <1>5

LEMMA InsertedShape ==
  ASSUME NEW a, NEW m, IsChunked(a, m), NEW chunk, NEW x \in 0 .. a.count
  PROVE  /\ IsInserted(a, chunk, x, Inserted(a, chunk, x))
         /\ \E n \in Nat \ {0} :
              /\ a.count < n
              /\ Inserted(a, chunk, x) = [items |-> NoItems, chunks |-> Inserted(a, chunk, x).chunks,
                                          count |-> Inserted(a, chunk, x).count]
              /\ Inserted(a, chunk, x).chunks
                   = [i \in 0 .. n - 1 |-> Inserted(a, chunk, x).chunks[i]]
<1>1. PICK s, k : s = a.chunks /\ k = a.count
  OBVIOUS
<1>2. a = [items |-> NoItems, chunks |-> s, count |-> k] /\ k \in Nat \ {0} /\ x \in 0 .. k
  BY <1>1, ChunkedFacts DEF IsChunked
<1>3. PICK n \in Nat : /\ DOMAIN Room(a) = 0 .. n - 1 /\ k < n
                       /\ \A i \in 0 .. k - 1 : Room(a)[i] = s[i]
  BY <1>1, RoomFacts
<1>4. PICK room : room = Room(a)
  OBVIOUS
<1>5. PICK moved : moved = Copied(s, x, room, x + 1, k - x)
  OBVIOUS
<1>6. moved = [i \in 0 .. n - 1 |-> IF i \in x + 1 .. x + 1 + (k - x) - 1
                                    THEN s[x + i - (x + 1)] ELSE room[i]]
  BY <1>3, <1>4, <1>5, Zenon DEF Copied
<1>7. PICK u : u = [moved EXCEPT ![x] = chunk]
  OBVIOUS
<1>8. u = [i \in 0 .. n - 1 |-> u[i]]
  BY <1>6, <1>7
<1>9. \A i \in 0 .. n - 1 : u[i] = IF i = x THEN chunk ELSE moved[i]
  BY <1>6, <1>7
<1>10. PICK b : b = Inserted(a, chunk, x)
  OBVIOUS
<1>11. b = [items |-> NoItems, chunks |-> u, count |-> k + 1]
  <2>1. moved = Copied(a.chunks, x, Room(a), x + 1, a.count - x)
    BY <1>1, <1>4, <1>5, Zenon
  <2>2. b = [a EXCEPT !.chunks = u, !.count = @ + 1]
    BY <1>7, <1>10, <2>1, Zenon DEF Inserted
  <2>. QED BY <1>2, <2>2
<1>12. b.chunks = u /\ b.count = k + 1
  BY <1>11
<1>13. ASSUME NEW i \in 0 .. k
       PROVE  u[i] = IF i < x THEN s[i] ELSE IF i = x THEN chunk ELSE s[i - 1]
  <2>1. i \in 0 .. n - 1
    BY <1>2, <1>3
  <2>2. CASE i < x
    <3>1. i \in 0 .. k - 1 /\ ~(i \in x + 1 .. x + 1 + (k - x) - 1) /\ i # x
      BY <1>2, <2>2
    <3>2. moved[i] = room[i]
      BY <1>6, <2>1, <3>1
    <3>. QED BY <1>3, <1>4, <1>9, <2>1, <2>2, <3>1, <3>2
  <2>3. CASE i = x
    BY <1>2, <1>9, <2>1, <2>3
  <2>4. CASE i > x
    <3>1. i \in x + 1 .. x + 1 + (k - x) - 1 /\ x + i - (x + 1) = i - 1 /\ i # x /\ ~(i < x)
      BY <1>2, <2>4
    <3>2. moved[i] = s[i - 1]
      BY <1>6, <2>1, <3>1
    <3>. QED BY <1>9, <2>1, <3>1, <3>2
  <2>. QED BY <1>2, <2>2, <2>3, <2>4
<1>14. IsInserted(a, chunk, x, b)
  BY <1>1, <1>12, <1>13 DEF IsInserted
<1>15. n \in Nat \ {0} /\ b = [items |-> NoItems, chunks |-> b.chunks, count |-> b.count]
       /\ b.chunks = [i \in 0 .. n - 1 |-> b.chunks[i]]
  BY <1>2, <1>3, <1>8, <1>11, <1>12
<1>. QED BY <1>1, <1>3, <1>10, <1>14, <1>15

NewChunk(offset) == [offset |-> offset, items |-> Fresh(CHUNK_SIZE)]

LEMMA NewChunkFacts ==
  ASSUME NEW offset \in Nat, offset % CHUNK_SIZE = 0
  PROVE  /\ IsChunk(NewChunk(offset)) /\ NewChunk(offset).offset = offset
         /\ \A r \in 0 .. CHUNK_SIZE - 1 : NewChunk(offset).items[r] = Missing
<1>1. PICK s : s = Fresh(CHUNK_SIZE)
  OBVIOUS
<1>2. s \in [0 .. CHUNK_SIZE - 1 -> Flags] /\ \A r \in 0 .. CHUNK_SIZE - 1 : s[r] = Missing
  BY <1>1 DEF Fresh, Flags
<1>3. NewChunk(offset) = [offset |-> offset, items |-> s]
  BY <1>1 DEF NewChunk
<1>. QED BY <1>2, <1>3 DEF IsChunk

LEMMA InsertedExtends ==
  ASSUME NEW a, NEW m, IsChunked(a, m), NEW offset \in Nat, offset % CHUNK_SIZE = 0,
         NEW at, Place(a, offset, at), ~at.found,
         NEW b, b = Inserted(a, NewChunk(offset), at.index)
  PROVE  /\ \E n : IsChunked(b, n)
         /\ b.count = a.count + 1 /\ b.chunks[at.index].offset = offset
         /\ Extends(a, b)
<1>1. PICK s, k, x, u : s = a.chunks /\ k = a.count /\ x = at.index /\ u = b.chunks
  OBVIOUS
<1>2. /\ k \in Nat \ {0} /\ x \in 0 .. k
      /\ \A i \in 0 .. x - 1 : s[i].offset < offset
      /\ \A i \in x .. k - 1 : s[i].offset > offset
  BY <1>1, ChunkedFacts DEF Place
<1>3. PICK chunk : chunk = NewChunk(offset)
  OBVIOUS
<1>4. /\ IsChunk(chunk) /\ chunk.offset = offset
      /\ \A r \in 0 .. CHUNK_SIZE - 1 : chunk.items[r] = Missing
  BY <1>3, NewChunkFacts
<1>5. IsInserted(a, chunk, x, b)
  BY <1>1, <1>2, <1>3, InsertedShape
<1>6. PICK n \in Nat \ {0} :
        /\ k < n /\ b = [items |-> NoItems, chunks |-> b.chunks, count |-> b.count]
        /\ b.chunks = [i \in 0 .. n - 1 |-> b.chunks[i]]
  BY <1>1, <1>2, <1>3, InsertedShape
<1>7. /\ b.count = k + 1
      /\ \A i \in 0 .. k : u[i] = IF i < x THEN s[i] ELSE IF i = x THEN chunk ELSE s[i - 1]
  BY <1>1, <1>5 DEF IsInserted
<1>8. /\ \A i \in 0 .. k : i < x => i \in 0 .. k - 1 /\ i \in 0 .. x - 1
      /\ \A i \in 0 .. k : i > x => i - 1 \in 0 .. k - 1 /\ i - 1 \in x .. k - 1
  BY <1>2
<1>9. /\ \A i \in 0 .. k - 1 : IsChunk(s[i]) /\ s[i].offset \in Nat
      /\ \A i, j \in 0 .. k - 1 : i < j => s[i].offset < s[j].offset
  BY <1>1, ChunkedFacts DEF IsChunked
<1>10. \A i \in 0 .. k : i \in Nat /\ (i < x \/ i = x \/ i > x)
  BY <1>2
<1>11. /\ \A i \in 0 .. k : i < x => u[i] = s[i]
       /\ u[x] = chunk
       /\ \A i \in 0 .. k : i > x => u[i] = s[i - 1]
  BY <1>2, <1>7
<1>12. \A i \in 0 .. k : IsChunk(u[i])
  BY <1>4, <1>8, <1>9, <1>10, <1>11
<1>13. ASSUME NEW i \in 0 .. k, NEW j \in 0 .. k, i < j
       PROVE  u[i].offset < u[j].offset
  <2>1. CASE j < x
    <3>1. i < x
      BY <1>2, <1>13, <2>1
    <3>. QED BY <1>8, <1>9, <1>11, <1>13, <2>1, <3>1
  <2>2. CASE j = x
    <3>1. i < x
      BY <1>2, <1>13, <2>2
    <3>. QED BY <1>2, <1>4, <1>8, <1>11, <2>2, <3>1
  <2>3. CASE j > x
    <3>1. u[j] = s[j - 1] /\ j - 1 \in 0 .. k - 1 /\ j - 1 \in x .. k - 1
      BY <1>8, <1>11, <2>3
    <3>2. CASE i < x
      <4>1. u[i] = s[i] /\ i \in 0 .. k - 1 /\ i < j - 1
        BY <1>2, <1>8, <1>11, <2>3, <3>2
      <4>. QED BY <1>9, <3>1, <4>1
    <3>3. CASE i = x
      BY <1>2, <1>4, <1>11, <3>1, <3>3
    <3>4. CASE i > x
      <4>1. u[i] = s[i - 1] /\ i - 1 \in 0 .. k - 1 /\ i - 1 < j - 1
        BY <1>8, <1>11, <1>13, <3>4
      <4>. QED BY <1>9, <3>1, <4>1
    <3>. QED BY <1>10, <3>2, <3>3, <3>4
  <2>. QED BY <1>10, <2>1, <2>2, <2>3
<1>14. IsChunked(b, n)
  <2>1. b.count \in 1 .. n /\ b.count - 1 = k
    BY <1>2, <1>6, <1>7
  <2>. QED BY <1>1, <1>6, <1>12, <1>13, <2>1, ZenonT(30) DEF IsChunked
<1>15. CHUNK_SIZE \in Nat \ {0}
  BY SizeAssumed
<1>16. PICK width \in Nat \ {0} : width = CHUNK_SIZE
  BY <1>15
<1>17. Capacity(a) <= Capacity(b)
  <2>1. Capacity(a) = k * width /\ Capacity(b) = (k + 1) * width
    BY <1>1, <1>7, <1>6, <1>16 DEF Capacity, Dense, IsChunked
  <2>2. (k * width) + width <= (k + 1) * width /\ k * width \in Nat /\ (k + 1) * width \in Nat
    BY <1>2, StepFacts, TimesFacts
  <2>. QED BY <2>1, <2>2
<1>18. ASSUME NEW p \in Positions(a)
       PROVE  \E q \in Positions(b) :
                p <= q /\ KeyName(b, q) = KeyName(a, p) /\ KeyEntry(b, q) = KeyEntry(a, p)
  <2>1. PICK c \in 0 .. k - 1, r \in 0 .. width - 1 : p = (c * width) + r
    BY <1>1, <1>16, ChunkedSplit
  <2>2. KeyName(a, p) = s[c].offset + r /\ KeyEntry(a, p) = s[c].items[r]
    BY <1>1, <1>16, <2>1, ChunkedAt
  <2>3. PICK d \in 0 .. k : u[d] = s[c] /\ c <= d
    <3>1. CASE c < x
      <4>1. c \in 0 .. k /\ c <= c
        BY <1>2
      <4>. QED BY <1>11, <3>1, <4>1
    <3>2. CASE ~(c < x)
      <4>1. c + 1 \in 0 .. k /\ c + 1 > x /\ (c + 1) - 1 = c /\ c <= c + 1
        BY <1>2, <3>2
      <4>. QED BY <1>11, <4>1
    <3>. QED BY <3>1, <3>2
  <2>4. PICK q : q = (d * width) + r
    OBVIOUS
  <2>5. d \in 0 .. b.count - 1
    BY <1>2, <1>7
  <2>6. q \in Positions(b) /\ KeyName(b, q) = u[d].offset + r /\ KeyEntry(b, q) = u[d].items[r]
    BY <1>1, <1>14, <1>16, <2>4, <2>5, ChunkedAt
  <2>7. p <= q
    <3>1. c \in Nat /\ d \in Nat /\ c * width \in Nat /\ d * width \in Nat
      BY <1>2, TimesFacts
    <3>2. CASE c = d
      BY <2>1, <2>4, <3>1, <3>2
    <3>3. CASE c < d
      <4>1. (c * width) + width <= d * width
        BY <3>1, <3>3, StepFacts
      <4>2. PICK y \in Nat, z \in Nat : y = c * width /\ z = d * width
        BY <3>1
      <4>. QED BY <2>1, <2>4, <4>1, <4>2
    <3>. QED BY <2>3, <3>1, <3>2, <3>3
  <2>. QED BY <2>2, <2>3, <2>6, <2>7
<1>19. ASSUME NEW q \in Positions(b)
       PROVE  KeyEntry(b, q) = Missing \/ \E p \in Positions(a) : KeyName(a, p) = KeyName(b, q)
  <2>1. PICK d \in 0 .. k, r \in 0 .. width - 1 : q = (d * width) + r
    <3>1. PICK d \in 0 .. b.count - 1, r \in 0 .. width - 1 : q = (d * width) + r
      BY <1>14, <1>16, ChunkedSplit
    <3>2. d \in 0 .. k
      BY <1>2, <1>7
    <3>. QED BY <3>1, <3>2
  <2>2. d \in 0 .. b.count - 1
    BY <1>2, <1>7
  <2>3. KeyName(b, q) = u[d].offset + r /\ KeyEntry(b, q) = u[d].items[r]
    BY <1>1, <1>14, <1>16, <2>1, <2>2, ChunkedAt
  <2>4. CASE d = x
    BY <1>4, <1>11, <1>16, <2>3, <2>4
  <2>5. CASE d # x
    <3>1. PICK c \in 0 .. k - 1 : u[d] = s[c]
      BY <1>8, <1>10, <1>11, <2>5
    <3>2. /\ (c * width) + r \in Positions(a)
          /\ KeyName(a, (c * width) + r) = s[c].offset + r
      BY <1>1, <1>16, ChunkedAt
    <3>. QED BY <2>3, <3>1, <3>2
  <2>. QED BY <2>4, <2>5
<1>20. Extends(a, b)
  BY <1>17, <1>18, <1>19 DEF Extends
<1>. QED BY <1>1, <1>4, <1>7, <1>11, <1>14, <1>20

Shaped(a) == (\E n : IsDense(a, n)) \/ (\E m : IsChunked(a, m))

LEMMA ShapedViews ==
  ASSUME NEW a, Shaped(a)
  PROVE  Views(a)
BY DenseViews, ChunkedViews DEF Shaped

LEMMA ChunkWrites ==
  ASSUME NEW a, NEW m, IsChunked(a, m), NEW c \in 0 .. a.count - 1,
         NEW r \in 0 .. CHUNK_SIZE - 1, NEW value \in Flags, NEW b, WritesChunk(a, c, r, value, b)
  PROVE  IsChunked(b, m) /\ Writes(a, b, a.chunks[c].offset + r, value)
<1>1. IsChunked(b, m) /\ Changes(a, b, (c * CHUNK_SIZE) + r, value)
  BY ChunkWritten
<1>2. KeyName(a, (c * CHUNK_SIZE) + r) = a.chunks[c].offset + r
  BY ChunkedAt
<1>3. Views(a) /\ Views(b)
  BY <1>1, ChunkedViews
<1>4. Writes(a, b, KeyName(a, (c * CHUNK_SIZE) + r), value)
  BY <1>1, <1>3, ChangesReads
<1>. QED BY <1>1, <1>2, <1>4

LEMMA InChunkWrites ==
  ASSUME NEW a, NEW m, IsChunked(a, m), NEW index \in Nat, NEW value \in Flags,
         NEW b, b = InChunk(a, index, value)
  PROVE  (\E n : IsChunked(b, n)) /\ Writes(a, b, index, value)
<1>1. PICK o \in Nat, r \in 0 .. CHUNK_SIZE - 1 :
        o = Offset(index) /\ r = index - o /\ o + r = index /\ o % CHUNK_SIZE = 0
  <2>1. PICK o \in Nat : o = Offset(index) /\ o % CHUNK_SIZE = 0
    BY OffsetFacts
  <2>2. PICK r \in 0 .. CHUNK_SIZE - 1 : r = index - o
    BY <2>1, OffsetFacts
  <2>3. o + r = index
    BY <2>1, <2>2, SizeAssumed
  <2>. QED BY <2>1, <2>2, <2>3
<1>2. PICK at : at = FindChunk(a, o)
  OBVIOUS
<1>3. Place(a, o, at)
  BY <1>2, FindChunkFacts
<1>4. CASE at.found
  <2>1. PICK c \in 0 .. a.count - 1 : c = at.index /\ a.chunks[c].offset = o
    BY <1>3, <1>4, ChunkedFacts DEF Place
  <2>2. WritesChunk(a, c, r, value, b)
    BY <1>1, <1>2, <1>4, <2>1 DEF InChunk, WritesChunk
  <2>. QED BY <1>1, <2>1, <2>2, ChunkWrites
<1>5. CASE ~at.found
  <2>1. PICK into : into = Inserted(a, NewChunk(o), at.index)
    OBVIOUS
  <2>2. PICK n : IsChunked(into, n)
    BY <1>1, <1>3, <1>5, <2>1, InsertedExtends
  <2>3. into.count = a.count + 1 /\ into.chunks[at.index].offset = o /\ Extends(a, into)
    BY <1>1, <1>3, <1>5, <2>1, InsertedExtends
  <2>4. PICK c \in 0 .. into.count - 1 : c = at.index /\ into.chunks[c].offset = o
    BY <1>3, <2>3, ChunkedFacts DEF Place
  <2>5. WritesChunk(into, c, r, value, b)
    BY <1>1, <1>2, <1>5, <2>1, <2>4 DEF InChunk, WritesChunk, NewChunk
  <2>6. IsChunked(b, n) /\ Writes(into, b, index, value)
    BY <1>1, <2>2, <2>4, <2>5, ChunkWrites
  <2>7. Views(a) /\ Views(into) /\ Views(b)
    BY <2>2, <2>6, ChunkedViews
  <2>8. Capacity(b) \in Nat
    BY <2>7 DEF Views
  <2>9. Writes(a, b, index, value)
    BY <2>3, <2>6, <2>7, <2>8, ExtendsThenWrites
  <2>. QED BY <2>6, <2>9
<1>. QED BY <1>4, <1>5

LEMMA ItemWrites ==
  ASSUME NEW a, NEW n, IsDense(a, n), NEW i \in 0 .. n - 1, NEW value \in Flags,
         NEW b, WritesItem(a, i, value, b)
  PROVE  IsDense(b, n) /\ Writes(a, b, i, value)
<1>1. IsDense(b, n) /\ Changes(a, b, i, value)
  BY ItemWritten
<1>2. KeyName(a, i) = i
  BY DenseAt
<1>3. Views(a) /\ Views(b)
  BY <1>1, DenseViews
<1>4. Writes(a, b, KeyName(a, i), value)
  BY <1>1, <1>3, ChangesReads
<1>. QED BY <1>1, <1>2, <1>4

(* set_value, where it does not write through a stale pointer: the value   *)
(* is written under the index and under no other, or, when that ends in a  *)
(* panic, nothing is.                                                      *)
Reads(a, b) == (\A j \in Nat : GetValue(b, j) = GetValue(a, j)) /\ Ascends(a, b)

LEMMA DenseSets ==
  ASSUME NEW n, IsDense(array, n), NEW index \in Nat, NEW value \in Flags,
         SetValue(index, value), out' # "dangling"
  PROVE  /\ Shaped(array')
         /\ \/ Writes(array, array', index, value)
            \/ out' = "panic" /\ Reads(array, array')
<1>1. n \in Nat \ {0} /\ Dense(array) /\ Length(array.items) = n
  BY DenseFacts
<1>2. PICK b : b = array'
  OBVIOUS
<1>3. InItems(array, index) <=> index < n
  BY <1>1 DEF InItems
<1>4. Views(array)
  BY DenseViews
<1>5. CASE index < n
  <2>1. b = [array EXCEPT !.items[index] = value]
    BY <1>1, <1>2, <1>3, <1>5 DEF SetValue
  <2>2. WritesItem(array, index, value, b)
    BY <2>1 DEF WritesItem
  <2>3. index \in 0 .. n - 1
    BY <1>1, <1>5
  <2>4. IsDense(b, n) /\ Writes(array, b, index, value)
    BY <2>2, <2>3, ItemWrites
  <2>. QED BY <1>2, <2>4 DEF Shaped
<1>6. CASE ~(index < n) /\ ~Transfers(array, index, used + 1)
  <2>1. PICK base : base = Grown(array)
    OBVIOUS
  <2>2. IsDense(base, 2 * n) /\ Extends(array, base)
    BY <2>1, GrownExtends
  <2>3. Dense(base) /\ Length(base.items) = 2 * n
    BY <2>2, DenseFacts
  <2>4. b = IF index < 2 * n THEN [base EXCEPT !.items[index] = value] ELSE base
    BY <1>1, <1>2, <1>3, <1>6, <2>1, <2>3 DEF SetValue
  <2>5. ~(index < 2 * n) => out' = "panic"
    BY <1>1, <1>3, <1>6, <2>1, <2>3 DEF SetValue
  <2>6. Views(base)
    BY <2>2, DenseViews
  <2>7. CASE index < 2 * n
    <3>1. WritesItem(base, index, value, b)
      BY <2>4, <2>7 DEF WritesItem
    <3>2. index \in 0 .. 2 * n - 1
      BY <1>1, <2>7
    <3>3. IsDense(b, 2 * n) /\ Writes(base, b, index, value)
      BY <2>2, <3>1, <3>2, ItemWrites
    <3>4. Capacity(b) \in Nat
      BY <3>3, DenseViews DEF Views
    <3>5. Writes(array, b, index, value)
      BY <1>4, <2>2, <2>6, <3>3, <3>4, ExtendsThenWrites
    <3>. QED BY <1>2, <3>3, <3>5 DEF Shaped
  <2>8. CASE ~(index < 2 * n)
    <3>1. b = base
      BY <2>4, <2>8
    <3>2. Reads(array, b)
      BY <1>4, <2>2, <2>6, <3>1, ExtendsReads DEF Reads
    <3>. QED BY <1>2, <2>2, <2>5, <2>8, <3>1, <3>2 DEF Shaped
  <2>. QED BY <2>7, <2>8
<1>7. CASE ~(index < n) /\ Transfers(array, index, used + 1)
  <2>1. PICK base : base = Transferred(array)
    OBVIOUS
  <2>2. PICK m : IsChunked(base, m)
    BY <2>1, TransferredExtends
  <2>3. Extends(array, base)
    BY <2>1, TransferredExtends
  <2>4. ~Dense(base)
    BY <2>2 DEF Dense, IsChunked
  <2>5. b = InChunk(base, index, value)
    BY <1>1, <1>2, <1>3, <1>7, <2>1, <2>4 DEF SetValue
  <2>6. PICK k : IsChunked(b, k)
    BY <2>2, <2>5, InChunkWrites
  <2>7. Writes(base, b, index, value)
    BY <2>2, <2>5, InChunkWrites
  <2>8. Views(base) /\ Capacity(b) \in Nat
    BY <2>2, <2>6, ChunkedViews DEF Views
  <2>9. Writes(array, b, index, value)
    BY <1>4, <2>3, <2>7, <2>8, ExtendsThenWrites
  <2>. QED BY <1>2, <2>6, <2>9 DEF Shaped
<1>. QED BY <1>5, <1>6, <1>7

LEMMA ValueSet ==
  ASSUME Shaped(array), NEW index \in Nat, NEW value \in Flags, SetValue(index, value),
         out' # "dangling"
  PROVE  /\ Shaped(array')
         /\ \/ Writes(array, array', index, value)
            \/ out' = "panic" /\ Reads(array, array')
<1>1. CASE \E n : IsDense(array, n)
  BY <1>1, DenseSets
<1>2. CASE \E m : IsChunked(array, m)
  <2>1. PICK m : IsChunked(array, m)
    BY <1>2
  <2>2. ~Dense(array)
    BY <2>1 DEF Dense, IsChunked
  <2>3. PICK b : b = array'
    OBVIOUS
  <2>4. b = InChunk(array, index, value)
    BY <2>2, <2>3 DEF SetValue
  <2>5. (\E n : IsChunked(b, n)) /\ Writes(array, b, index, value)
    BY <2>1, <2>4, InChunkWrites
  <2>. QED BY <2>3, <2>5 DEF Shaped
<1>. QED BY <1>1, <1>2 DEF Shaped

-----------------------------------------------------------------------------
(* The invariant: what both stores are like, and that they hold no names   *)
(* but those in use.                                                       *)
ArrayInv ==
  /\ Shaped(array) /\ used \in 0 .. MaxWrites /\ out \in {"ok", "panic", "dangling"}
  /\ \A j \in Nat : GetValue(array, j) # Missing => j \in Indexes

TableInv ==
  /\ Sound(table)
  /\ \A m \in Nat : Has(table, m) => m \in Names

IInv == ArrayInv /\ TableInv

LEMMA ArrayInit ==
  ASSUME Init
  PROVE  ArrayInv /\ \A j \in Nat : GetValue(array, j) = Missing
<1>1. PICK n \in Nat \ {0} : n = INITIAL_VALUE_SIZE
  BY SizesAssumption
<1>2. PICK s : s = Fresh(n)
  OBVIOUS
<1>3. s \in [0 .. n - 1 -> Flags] /\ \A i \in 0 .. n - 1 : s[i] = Missing
  BY <1>2 DEF Fresh, Flags
<1>4. array = [items |-> s, chunks |-> NoItems, count |-> 0]
  BY <1>1, <1>2 DEF Init
<1>5. IsDense(array, n) /\ array.items = s
  BY <1>3, <1>4 DEF IsDense
<1>6. Dense(array) /\ Length(array.items) = n
  BY <1>5, DenseFacts
<1>7. \A j \in Nat : GetValue(array, j) = Missing
  BY <1>3, <1>5, <1>6 DEF GetValue
<1>8. used \in 0 .. MaxWrites /\ out \in {"ok", "panic", "dangling"}
  BY SizesAssumption DEF Init
<1>. QED BY <1>5, <1>7, <1>8 DEF ArrayInv, Shaped

LEMMA TableStarts == TableInit => TableInv
BY EmptyFacts, NamesAssumption DEF TableInit, TableInv

(* What each of the operations on elements does.                           *)
LEMMA ElementStep ==
  ASSUME ArrayInv, Next, NeverDangles'
  PROVE  /\ ArrayInv'
         /\ Ascends(array, array')
         /\ \E i \in Indexes : \E v \in Flags : \A j \in Nat :
              GetValue(array', j) = IF j = i THEN v ELSE GetValue(array, j)
<1>1. PICK i \in Indexes, v \in Flags : Running /\ SetValue(i, v)
  <2>1. CASE Add
    BY <2>1 DEF Add, Flags
  <2>2. CASE Replace
    BY <2>2 DEF Replace, Flags
  <2>3. CASE Remove
    BY <2>3 DEF Remove, Flags
  <2>. QED BY <2>1, <2>2, <2>3 DEF Next
<1>2. i \in Nat
  BY SizesAssumption
<1>3. /\ Shaped(array')
      /\ \/ Writes(array, array', i, v)
         \/ out' = "panic" /\ Reads(array, array')
  BY <1>1, <1>2, ValueSet DEF ArrayInv, NeverDangles
<1>4. Ascends(array, array')
  BY <1>3 DEF Writes, Reads
<1>5. PICK w \in Flags : \A j \in Nat : GetValue(array', j) = IF j = i THEN w ELSE GetValue(array, j)
  <2>1. CASE Writes(array, array', i, v)
    BY <2>1 DEF Writes
  <2>2. CASE Reads(array, array')
    <3>1. GetValue(array, i) \in Flags
      BY <1>2, ShapedViews DEF ArrayInv, Views, Flags
    <3>. QED BY <2>2, <3>1 DEF Reads
  <2>. QED BY <1>3, <2>1, <2>2
<1>6. used' \in 0 .. MaxWrites
  <2>1. used \in 0 .. MaxWrites /\ used < MaxWrites /\ MaxWrites \in Nat
    BY <1>1, SizesAssumption DEF ArrayInv, Running
  <2>2. used' = used \/ used' = used + 1
    BY <1>1, <2>1 DEF SetValue
  <2>. QED BY <2>1, <2>2
<1>7. out' \in {"ok", "panic", "dangling"}
  BY <1>1 DEF SetValue
<1>8. \A j \in Nat : GetValue(array', j) # Missing => j \in Indexes
  BY <1>5 DEF ArrayInv
<1>9. ArrayInv'
  BY <1>3, <1>6, <1>7, <1>8 DEF ArrayInv
<1>. QED BY <1>4, <1>5, <1>9

(* What a table holds under a name.                                        *)
Told(t, m) == IF Has(t, m) THEN EntryOf(t, m).value ELSE Missing

LEMMA SoundReads ==
  ASSUME NEW t, Sound(t), NEW m \in Nat
  PROVE  /\ Has(t, m) <=> \E v : Tells(t, m, v)
         /\ \A v : Tells(t, m, v) => v \in BOOLEAN /\ Told(t, m) = v
         /\ ~Has(t, m) => Told(t, m) = Missing
<1>1. PICK n, d : Linked(t, n, d)
  BY DEF Sound
<1>2. /\ Has(t, m) <=> \E v : Tells(t, m, v)
      /\ Has(t, m) => EntryOf(t, m).value \in BOOLEAN
  BY <1>1, TellsIs
<1>. QED BY <1>2 DEF Tells, Told

LEMMA NameStep ==
  ASSUME TableInv, TableNext
  PROVE  /\ TableInv'
         /\ \E n \in Names : \E v \in Flags : \A m \in Nat :
              Told(table', m) = IF m = n THEN v ELSE Told(table, m)
<1>1. PICK t, u : t = table /\ u = table'
  OBVIOUS
<1>2. Sound(t) /\ \A m \in Nat : Has(t, m) => m \in Names
  BY <1>1 DEF TableInv
<1>3. ASSUME NEW n \in Names, Sound(u), NEW gone \in BOOLEAN, NEW v \in BOOLEAN,
             \A m \in Nat : \A w : Tells(u, m, w) <=>
               IF m = n THEN ~gone /\ w = v ELSE Tells(t, m, w)
      PROVE  /\ Sound(u) /\ \A m \in Nat : Has(u, m) => m \in Names
             /\ \E x \in Flags : \A m \in Nat : Told(u, m) = IF m = n THEN x ELSE Told(t, m)
  <2>1. n \in Nat
    BY NamesAssumption
  <2>2. ASSUME NEW m \in Nat, m # n
        PROVE  (Has(u, m) <=> Has(t, m)) /\ Told(u, m) = Told(t, m)
    <3>1. \A w : Tells(u, m, w) <=> Tells(t, m, w)
      BY <1>3, <2>2
    <3>2. Has(u, m) <=> Has(t, m)
      BY <1>2, <1>3, <3>1, SoundReads
    <3>3. CASE Has(t, m)
      <4>1. PICK w : Tells(t, m, w)
        BY <1>2, <3>3, SoundReads
      <4>2. Tells(u, m, w)
        BY <3>1, <4>1
      <4>3. Told(t, m) = w
        BY <1>2, <4>1, SoundReads
      <4>4. Told(u, m) = w
        BY <1>3, <4>2, SoundReads
      <4>. QED BY <3>2, <4>3, <4>4
    <3>4. CASE ~Has(t, m)
      BY <3>2, <3>4 DEF Told
    <3>. QED BY <3>2, <3>3, <3>4
  <2>3. PICK x \in Flags : Told(u, n) = x
    <3>1. CASE gone
      <4>1. ~Has(u, n)
        BY <1>3, <2>1, <3>1, SoundReads
      <4>. QED BY <4>1 DEF Told, Flags
    <3>2. CASE ~gone
      <4>1. Tells(u, n, v)
        BY <1>3, <2>1, <3>2
      <4>2. Told(u, n) = v
        BY <1>3, <2>1, <4>1, SoundReads
      <4>. QED BY <4>2 DEF Flags
    <3>. QED BY <3>1, <3>2
  <2>4. \A m \in Nat : Has(u, m) => m \in Names
    BY <1>2, <2>2
  <2>. QED BY <1>3, <2>2, <2>3, <2>4
<1>4. CASE AddNamed
  <2>1. PICK n \in Names, v \in BOOLEAN : ~Has(t, n) /\ u = AddName(t, n, v)
    BY <1>1, <1>4 DEF AddNamed
  <2>2. n \in Nat
    BY NamesAssumption
  <2>3. Sound(u) /\ \A m \in Nat : \A w : Tells(u, m, w) <=> (m = n /\ w = v) \/ Tells(t, m, w)
    BY <1>2, <2>1, <2>2, AddFacts
  <2>4. \A w : ~Tells(t, n, w)
    BY <2>1 DEF Tells
  <2>. DEFINE gone == FALSE
  <2>5. gone \in BOOLEAN /\ ~gone
    OBVIOUS
  <2>. HIDE DEF gone
  <2>6. \A m \in Nat : \A w : Tells(u, m, w) <=>
          IF m = n THEN ~gone /\ w = v ELSE Tells(t, m, w)
    BY <2>3, <2>4, <2>5
  <2>. QED BY <1>1, <1>3, <2>3, <2>5, <2>6 DEF TableInv
<1>5. CASE RemoveNamed
  <2>1. PICK n \in Names : Has(t, n) /\ u = RemoveName(t, n)
    BY <1>1, <1>5 DEF RemoveNamed
  <2>2. n \in Nat
    BY NamesAssumption
  <2>3. Sound(u) /\ \A m \in Nat : \A w : Tells(u, m, w) <=> m # n /\ Tells(t, m, w)
    BY <1>2, <2>1, <2>2, RemoveFacts
  <2>. DEFINE gone == TRUE
  <2>4. gone \in BOOLEAN /\ gone
    OBVIOUS
  <2>. HIDE DEF gone
  <2>5. \A m \in Nat : \A w : Tells(u, m, w) <=>
          IF m = n THEN ~gone /\ w = gone ELSE Tells(t, m, w)
    BY <2>3, <2>4
  <2>. QED BY <1>1, <1>3, <2>3, <2>4, <2>5 DEF TableInv
<1>6. CASE ReplaceNamed
  <2>1. PICK n \in Names, v \in BOOLEAN : Has(t, n) /\ u = ReplaceValue(t, n, v)
    BY <1>1, <1>6 DEF ReplaceNamed
  <2>2. n \in Nat
    BY NamesAssumption
  <2>3. Sound(u) /\ \A m \in Nat : \A w : Tells(u, m, w) <=>
          IF m = n THEN w = v ELSE Tells(t, m, w)
    <3>1. /\ Sound(u)
          /\ \A m \in Nat : \A w : Tells(u, m, w) <=> IF m = n THEN v = w ELSE Tells(t, m, w)
      BY <1>2, <2>1, <2>2, ReplaceFacts
    <3>. QED BY <3>1
  <2>. DEFINE gone == FALSE
  <2>4. gone \in BOOLEAN /\ ~gone
    OBVIOUS
  <2>. HIDE DEF gone
  <2>5. \A m \in Nat : \A w : Tells(u, m, w) <=>
          IF m = n THEN ~gone /\ w = v ELSE Tells(t, m, w)
    BY <2>3, <2>4
  <2>. QED BY <1>1, <1>3, <2>3, <2>4, <2>5 DEF TableInv
<1>. QED BY <1>4, <1>5, <1>6 DEF TableNext

LEMMA InvInit == StoreInit => IInv
BY ArrayInit, TableStarts DEF StoreInit, IInv

LEMMA InvStep == IInv /\ [StoreNext]_storeVars /\ NeverDangles' => IInv'
<1>. SUFFICES ASSUME IInv, [StoreNext]_storeVars, NeverDangles' PROVE IInv'
  OBVIOUS
<1>1. CASE WriteElement
  <2>1. ArrayInv' /\ table' = table
    BY <1>1, ElementStep DEF WriteElement, IInv
  <2>2. TableInv'
    BY <2>1 DEF TableInv, IInv
  <2>. QED BY <2>1, <2>2 DEF IInv
<1>2. CASE WriteName
  <2>1. TableInv' /\ array' = array /\ used' = used /\ out' = out
    BY <1>2, NameStep DEF WriteName, IInv, vars
  <2>2. ArrayInv'
    BY <2>1 DEF ArrayInv, IInv
  <2>. QED BY <2>1, <2>2 DEF IInv
<1>3. CASE UNCHANGED storeVars
  BY <1>3 DEF storeVars, vars, IInv, ArrayInv, TableInv
<1>. QED BY <1>1, <1>2, <1>3 DEF StoreNext

-----------------------------------------------------------------------------
(* The chains of the table                                                 *)
LEMMA TableHolds ==
  ASSUME TableInv, NEW n, NEW d, Linked(table, n, d)
  PROVE  /\ Offsets = 0 .. n - 1 /\ Valid = Used(table, n) /\ Valid \subseteq 0 .. n - 1
         /\ \A i \in Valid : table.entries[i].name \in Names
<1>1. DOMAIN table.entries = 0 .. n - 1
  BY LinkedFacts, SizeFacts
<1>2. Offsets = 0 .. n - 1 /\ Valid = Used(table, n)
  BY <1>1 DEF Offsets, Valid, Used
<1>3. ASSUME NEW i \in Used(table, n) PROVE table.entries[i].name \in Names
  <2>1. table.entries[i].name \in Nat
    BY LinkedFacts
  <2>2. Has(table, table.entries[i].name)
    BY <2>1, HasIs
  <2>. QED BY <2>1, <2>2 DEF TableInv
<1>4. Valid \subseteq 0 .. n - 1
  BY <1>2, LinkedFacts
<1>. QED BY <1>2, <1>3, <1>4

LEMMA TailIsLast ==
  ASSUME NEW t, NEW n, NEW d, Linked(t, n, d), NEW i \in Used(t, n), NEW j \in Used(t, n),
         Home(t, n, i) = Home(t, n, j), t.entries[i].next = -1
  PROVE  d[j] <= d[i]
<1>1. PICK x \in Nat, y \in Nat : x = d[i] /\ y = d[j]
  BY LinkedFacts
<1>2. SUFFICES ASSUME x < y PROVE FALSE
  BY <1>1
<1>3. x + 1 \in 0 .. d[j]
  BY <1>1, <1>2
<1>4. PICK k \in Used(t, n) : Home(t, n, k) = Home(t, n, j) /\ d[k] = x + 1
  BY <1>3, Ancestors
<1>5. t.entries[i].next = k
  BY <1>1, <1>4, After
<1>. QED BY <1>5, LinkedFacts

LEMMA OnePredecessor ==
  ASSUME NEW t, NEW n, NEW d, Linked(t, n, d), NEW i \in Used(t, n), NEW j \in Used(t, n),
         Home(t, n, i) = Home(t, n, j), t.entries[i].next = t.entries[j].next
  PROVE  i = j
<1>1. PICK x \in Nat, y \in Nat : x = d[i] /\ y = d[j]
  BY LinkedFacts
<1>2. CASE t.entries[i].next = -1
  <2>1. d[j] <= d[i] /\ d[i] <= d[j]
    BY <1>2, TailIsLast
  <2>. QED BY <1>1, <2>1, OneSpot
<1>3. CASE t.entries[i].next # -1
  <2>1. d[t.entries[i].next] = x + 1 /\ d[t.entries[j].next] = y + 1
    BY <1>1, <1>3, NextSpot
  <2>2. x = y
    BY <2>1
  <2>. QED BY <1>1, <2>2, OneSpot
<1>. QED BY <1>2, <1>3

LEMMA ChainsHold == ASSUME TableInv PROVE Chains
<1>1. PICK n, d : Linked(table, n, d)
  BY DEF TableInv, Sound
<1>2. Offsets = 0 .. n - 1 /\ Valid = Used(table, n)
  BY <1>1, TableHolds
<1>3. ASSUME NEW i \in Valid
      PROVE  LET name == table.entries[i].name
                 chain == Chain(table, name)
             IN /\ i \in chain
                /\ \A j \in chain : j \in Valid /\ Hash(table, table.entries[j].name) = Hash(table, name)
                /\ \E j \in chain : table.entries[j].next = -1
                /\ \A j, k \in chain : table.entries[j].next = table.entries[k].next => j = k
  <2>1. PICK chain, h : chain = Chain(table, table.entries[i].name) /\ h = Home(table, n, i)
    OBVIOUS
  <2>2. /\ Hash(table, table.entries[i].name) = h
        /\ chain = {j \in Used(table, n) : Home(table, n, j) = h}
    BY <1>1, <1>2, <2>1, HeadChain
  <2>3. \A j \in chain : j \in Valid /\ Hash(table, table.entries[j].name) = h
    BY <1>1, <1>2, <2>2, HeadChain
  <2>4. \E j \in chain : table.entries[j].next = -1
    <3>1. h \in Used(table, n) /\ Home(table, n, h) = h
      BY <1>1, <1>2, <2>1, HeadSpot
    <3>. QED BY <1>1, <2>2, <3>1, TailExists
  <2>5. \A j, k \in chain : table.entries[j].next = table.entries[k].next => j = k
    BY <1>1, <2>2, OnePredecessor
  <2>6. i \in chain
    BY <1>2, <2>1, <2>2
  <2>. QED BY <2>1, <2>2, <2>3, <2>4, <2>5, <2>6
<1>. QED BY <1>3 DEF Chains

LEMMA CountsHold == ASSUME TableInv PROVE Counts
<1>1. PICK n, d : Linked(table, n, d)
  BY DEF TableInv, Sound
<1>2. /\ Offsets = 0 .. n - 1 /\ Valid = Used(table, n)
      /\ \A i \in Valid : table.entries[i].name \in Names
  BY <1>1, TableHolds
<1>3. /\ IsTable(table, n) /\ n \in Nat \ {0} /\ table.count \in Nat
      /\ table.count = Cardinality(Used(table, n))
  BY <1>1, LinkedFacts
<1>4. \A i \in Used(table, n) : table.entries[i].next \in Offsets \union {-1}
  <2>1. ASSUME NEW i \in Used(table, n), table.entries[i].next # -1
        PROVE  table.entries[i].next \in Offsets
    <3>1. table.entries[i].next \in Used(table, n)
      BY <1>1, <2>1, NextSpot
    <3>. QED BY <1>1, <1>2, <3>1, LinkedFacts
  <2>. QED BY <2>1
<1>5. TableOK
  BY <1>2, <1>3, <1>4 DEF TableOK
<1>6. \A i, j \in Valid : table.entries[i].name = table.entries[j].name => i = j
  BY <1>1, <1>2 DEF Linked
<1>7. table.count <= MaxLoadFactor(table) => \E i \in Offsets : i \notin Valid
  <2>1. SUFFICES ASSUME table.count <= MaxLoadFactor(table) PROVE \E i \in Offsets : i \notin Valid
    OBVIOUS
  <2>2. Size(table) = n
    BY <1>3, SizeFacts
  <2>3. MaxLoadFactor(table) < n
    <3>1. (n * 7) \div 10 < n
      BY <1>3
    <3>. QED BY <2>2, <3>1 DEF MaxLoadFactor
  <2>4. MaxLoadFactor(table) \in Nat
    <3>1. (n * 7) \div 10 \in Nat
      BY <1>3
    <3>. QED BY <2>2, <3>1 DEF MaxLoadFactor
  <2>5. Cardinality(Used(table, n)) < n
    BY <1>3, <2>1, <2>3, <2>4
  <2>. QED BY <1>2, <1>3, <2>5, UsedFacts
<1>. QED BY <1>2, <1>3, <1>5, <1>6, <1>7 DEF Counts

LEMMA SortedHolds == ASSUME ArrayInv PROVE Sorted
<1>1. used \in 0 .. MaxWrites /\ out \in {"ok", "panic", "dangling"}
  BY DEF ArrayInv
<1>2. CASE \E n : IsDense(array, n)
  <2>1. Dense(array) /\ array.chunks = NoItems /\ array.count = 0
    BY <1>2, DenseFacts
  <2>. QED BY <1>1, <2>1 DEF Sorted, TypeOK
<1>3. CASE \E m : IsChunked(array, m)
  <2>1. PICK m : IsChunked(array, m)
    BY <1>3
  <2>2. PICK k : k = array.count
    OBVIOUS
  <2>3. /\ k \in Nat \ {0} /\ m \in Nat \ {0} /\ k <= m
        /\ \A i \in 0 .. k - 1 :
             /\ array.chunks[i].offset \in Nat /\ array.chunks[i].offset % CHUNK_SIZE = 0
             /\ array.chunks[i].items \in [0 .. CHUNK_SIZE - 1 -> Flags]
        /\ \A i, j \in 0 .. k - 1 : i < j => array.chunks[i].offset < array.chunks[j].offset
    BY <2>1, <2>2, ChunkedFacts
  <2>4. ~Dense(array) /\ DOMAIN array.chunks = 0 .. m - 1
    BY <2>1 DEF IsChunked, Dense
  <2>5. Length(array.chunks) = m
    BY <2>3, <2>4, LengthIs
  <2>6. TypeOK
    BY <1>1, <2>2, <2>3, <2>4, <2>5 DEF TypeOK
  <2>7. ASSUME NEW i \in 0 .. k - 1
        PROVE  LET chunk == array.chunks[i] IN
               /\ chunk.offset % CHUNK_SIZE = 0 /\ DOMAIN chunk.items = 0 .. CHUNK_SIZE - 1
               /\ i + 1 < k => chunk.offset < array.chunks[i + 1].offset
    <3>1. i + 1 < k => i + 1 \in 0 .. k - 1 /\ i < i + 1
      BY <2>3
    <3>. QED BY <2>3, <3>1
  <2>. QED BY <2>2, <2>6, <2>7 DEF Sorted
<1>. QED BY <1>2, <1>3 DEF ArrayInv, Shaped

(* Between two operations the chunks are sorted and whole, and the table's *)
(* chains are those of one hash and end: find_chunk, find_entry and remove *)
(* may search them as they do.                                             *)
THEOREM RepresentedAlways == StoreSpec /\ []NeverDangles => []Represented
<1>1. IInv => Represented
  BY SortedHolds, ChainsHold, CountsHold DEF IInv, Represented
<1>. QED BY <1>1, InvInit, InvStep, PTL DEF StoreSpec

-----------------------------------------------------------------------------
(* get_key                                                                 *)
\* An element at a position, or a name at an offset of the table after it.
IndexKey(a, p, k) ==
  KeyEntry(a, p) # Missing /\ k = <<p, Index(KeyName(a, p))>>
NameKey(a, t, i, k) ==
  k = <<Capacity(a) + i, Name(t.entries[i].name)>>

KeyBelow(a, t, n, k) == \E p \in 0 .. n - 1 : \E key \in KeyAt(a, t, p) : k = <<p, key>>

LEMMA InKeys ==
  ASSUME NEW a, NEW t, NEW n, n = EndOf(a, t), NEW k
  PROVE  k \in Keys(a, t) <=> KeyBelow(a, t, n, k)
<1>. DEFINE At(p) == {<<p, key>> : key \in KeyAt(a, t, p)}
            All == {At(p) : p \in 0 .. n - 1}
<1>1. Keys(a, t) = UNION All
  BY Zenon DEF Keys
<1>2. ASSUME k \in Keys(a, t)
      PROVE  \E p \in 0 .. n - 1 : \E key \in KeyAt(a, t, p) : k = <<p, key>>
  <2>1. PICK s \in All : k \in s
    BY <1>1, <1>2, Zenon
  <2>2. PICK p \in 0 .. n - 1 : s = At(p)
    BY Zenon
  <2>3. k \in At(p)
    BY <2>1, <2>2, Zenon
  <2>4. \E key \in KeyAt(a, t, p) : k = <<p, key>>
    BY <2>3, Zenon
  <2>. QED BY <2>4
<1>3. ASSUME NEW p \in 0 .. n - 1, NEW key \in KeyAt(a, t, p), k = <<p, key>>
      PROVE  k \in Keys(a, t)
  <2>1. k \in At(p)
    BY <1>3, Zenon
  <2>2. At(p) \in All
    BY Zenon
  <2>. QED BY <1>1, <2>1, <2>2, Zenon
<1>. QED BY <1>2, <1>3, Zenon DEF KeyBelow

LEMMA KeysAre ==
  ASSUME NEW a, Shaped(a), NEW t, NEW n, NEW d, Linked(t, n, d), NEW k
  PROVE  k \in Keys(a, t) <=> \/ \E p \in Positions(a) : IndexKey(a, p, k)
                              \/ \E i \in Used(t, n) : NameKey(a, t, i, k)
<1>1. PICK c \in Nat : c = Capacity(a)
  BY ShapedViews DEF Views
<1>2. n \in Nat \ {0} /\ DOMAIN t.entries = 0 .. n - 1 /\ Used(t, n) \subseteq 0 .. n - 1
  BY LinkedFacts, SizeFacts
<1>11. PICK e : e = c + n
  OBVIOUS
<1>3. EndOf(a, t) = e /\ e \in Nat
  <2>1. Cardinality(0 .. n - 1) = n
    BY <1>2, FS_Interval
  <2>. QED BY <1>1, <1>2, <1>11, <2>1 DEF EndOf
<1>4. k \in Keys(a, t) <=> KeyBelow(a, t, e, k)
  BY <1>3, InKeys, Zenon
<1>5. \A p \in 0 .. c - 1 :
        KeyAt(a, t, p) = IF KeyEntry(a, p) = Missing THEN {} ELSE {Index(KeyName(a, p))}
  BY <1>1 DEF KeyAt
<1>6. \A p \in c .. e - 1 :
        KeyAt(a, t, p) = IF t.entries[p - c].valid THEN {Name(t.entries[p - c].name)} ELSE {}
  BY <1>1 DEF KeyAt
<1>7. Positions(a) = 0 .. c - 1
  BY <1>1 DEF Positions
<1>8. ASSUME k \in Keys(a, t)
      PROVE  \/ \E p \in Positions(a) : IndexKey(a, p, k)
             \/ \E i \in Used(t, n) : NameKey(a, t, i, k)
  <2>1. PICK p \in 0 .. e - 1 : \E key \in KeyAt(a, t, p) : k = <<p, key>>
    BY <1>4, <1>8, Zenon DEF KeyBelow
  <2>2. PICK key \in KeyAt(a, t, p) : k = <<p, key>>
    BY <2>1
  <2>3. CASE p < c
    <3>1. p \in 0 .. c - 1
      BY <1>1, <2>3
    <3>2. KeyEntry(a, p) # Missing /\ key = Index(KeyName(a, p))
      BY <1>5, <2>2, <3>1
    <3>. QED BY <1>7, <2>2, <3>1, <3>2 DEF IndexKey
  <2>4. CASE ~(p < c)
    <3>1. p \in c .. e - 1 /\ p - c \in 0 .. n - 1 /\ c + (p - c) = p
      BY <1>1, <1>2, <1>11, <2>4
    <3>2. t.entries[p - c].valid /\ key = Name(t.entries[p - c].name)
      BY <1>6, <2>2, <3>1
    <3>3. p - c \in Used(t, n)
      BY <3>1, <3>2 DEF Used
    <3>. QED BY <1>1, <2>2, <3>1, <3>2, <3>3 DEF NameKey
  <2>. QED BY <2>3, <2>4
<1>9. ASSUME NEW p \in Positions(a), IndexKey(a, p, k) PROVE k \in Keys(a, t)
  <2>1. p \in 0 .. c - 1 /\ p \in 0 .. e - 1
    BY <1>1, <1>2, <1>11, <1>7
  <2>2. Index(KeyName(a, p)) \in KeyAt(a, t, p) /\ k = <<p, Index(KeyName(a, p))>>
    BY <1>5, <1>9, <2>1 DEF IndexKey
  <2>. QED BY <1>4, <2>1, <2>2, Zenon DEF KeyBelow
<1>10. ASSUME NEW i \in Used(t, n), NameKey(a, t, i, k) PROVE k \in Keys(a, t)
  <2>1. i \in 0 .. n - 1 /\ t.entries[i].valid
    BY DEF Used
  <2>2. c + i \in c .. e - 1 /\ c + i \in 0 .. e - 1 /\ (c + i) - c = i
    BY <1>1, <1>2, <1>11, <2>1
  <2>3. KeyAt(a, t, c + i) = {Name(t.entries[i].name)}
    BY <1>6, <2>1, <2>2
  <2>4. k = <<c + i, Name(t.entries[i].name)>>
    BY <1>1, <1>10 DEF NameKey
  <2>5. Name(t.entries[i].name) \in KeyAt(a, t, c + i)
    BY <2>3
  <2>. QED BY <1>4, <2>2, <2>4, <2>5, Zenon DEF KeyBelow
<1>. QED BY <1>8, <1>9, <1>10

LEMMA TagFacts ==
  /\ \A i : Index(i)[1] = "index" /\ Index(i)[2] = i
  /\ \A n : Name(n)[1] = "name" /\ Name(n)[2] = n
  /\ \A i, n : Index(i) # Name(n)
BY DEF Index, Name

LEMMA OneTag ==
  /\ \A i, j : Index(i) = Index(j) => i = j
  /\ \A m, n : Name(m) = Name(n) => m = n
BY DEF Index, Name

LEMMA IndexKeyIs ==
  ASSUME NEW a, Shaped(a), NEW p \in Positions(a), NEW k, IndexKey(a, p, k)
  PROVE  /\ k[1] = p /\ k[2] = Index(KeyName(a, p)) /\ p \in Nat /\ p < Capacity(a)
         /\ KeyName(a, p) \in Nat /\ GetValue(a, KeyName(a, p)) # Missing
<1>1. k[1] = p /\ k[2] = Index(KeyName(a, p)) /\ KeyEntry(a, p) # Missing
  BY DEF IndexKey
<1>2. Views(a)
  BY ShapedViews
<1>3. p \in Nat /\ p < Capacity(a)
  BY <1>2 DEF Views, Positions
<1>. QED BY <1>1, <1>2, <1>3 DEF Views

LEMMA NameKeyIs ==
  ASSUME NEW a, Shaped(a), NEW t, NEW n, NEW d, Linked(t, n, d),
         NEW i \in Used(t, n), NEW k, NameKey(a, t, i, k)
  PROVE  /\ k[1] = Capacity(a) + i /\ k[2] = Name(t.entries[i].name)
         /\ i \in Nat /\ Capacity(a) \in Nat
         /\ t.entries[i].name \in Nat /\ Has(t, t.entries[i].name)
<1>1. k[1] = Capacity(a) + i /\ k[2] = Name(t.entries[i].name)
  BY DEF NameKey
<1>2. t.entries[i].name \in Nat /\ i \in 0 .. n - 1
  BY LinkedFacts
<1>3. Has(t, t.entries[i].name)
  BY <1>2, HasIs
<1>4. Capacity(a) \in Nat
  BY ShapedViews DEF Views
<1>. QED BY <1>1, <1>2, <1>3, <1>4

LEMMA KeysArePresent ==
  ASSUME IInv
  PROVE  {k[2] : k \in Keys(array, table)} = Present(array, table)
<1>1. PICK n, d : Linked(table, n, d)
  BY DEF IInv, TableInv, Sound
<1>2. Shaped(array) /\ Views(array)
  BY ShapedViews DEF IInv, ArrayInv
<1>3. \A j : Index(j) \in Present(array, table) <=> j \in Indexes /\ GetValue(array, j) # Missing
  BY TagFacts DEF Present
<1>4. \A m : Name(m) \in Present(array, table) <=> m \in Names /\ Has(table, m)
  BY TagFacts DEF Present
<1>5. ASSUME NEW k \in Keys(array, table) PROVE k[2] \in Present(array, table)
  <2>1. CASE \E p \in Positions(array) : IndexKey(array, p, k)
    <3>1. PICK p \in Positions(array) : IndexKey(array, p, k)
      BY <2>1
    <3>2. /\ k[2] = Index(KeyName(array, p)) /\ KeyName(array, p) \in Nat
          /\ GetValue(array, KeyName(array, p)) # Missing
      BY <1>2, <3>1, IndexKeyIs
    <3>3. KeyName(array, p) \in Indexes
      BY <3>2 DEF IInv, ArrayInv
    <3>. QED BY <1>3, <3>2, <3>3
  <2>2. CASE \E i \in Used(table, n) : NameKey(array, table, i, k)
    <3>1. PICK i \in Used(table, n) : NameKey(array, table, i, k)
      BY <2>2
    <3>2. /\ k[2] = Name(table.entries[i].name) /\ table.entries[i].name \in Nat
          /\ Has(table, table.entries[i].name)
      BY <1>1, <1>2, <3>1, NameKeyIs
    <3>3. table.entries[i].name \in Names
      BY <3>2 DEF IInv, TableInv
    <3>. QED BY <1>4, <3>2, <3>3
  <2>. QED BY <1>1, <1>2, <1>5, <2>1, <2>2, KeysAre
<1>6. ASSUME NEW j \in Indexes, GetValue(array, j) # Missing
      PROVE  \E k \in Keys(array, table) : k[2] = Index(j)
  <2>1. j \in Nat
    BY SizesAssumption
  <2>2. PICK p \in Positions(array) : KeyName(array, p) = j
    BY <1>2, <1>6, <2>1 DEF Views
  <2>3. KeyEntry(array, p) # Missing
    BY <1>2, <1>6, <2>2 DEF Views
  <2>4. PICK k : k = <<p, Index(j)>>
    OBVIOUS
  <2>5. IndexKey(array, p, k)
    BY <2>2, <2>3, <2>4 DEF IndexKey
  <2>6. k \in Keys(array, table)
    BY <1>1, <1>2, <2>5, KeysAre
  <2>. QED BY <2>4, <2>6
<1>7. ASSUME NEW m \in Names, Has(table, m)
      PROVE  \E k \in Keys(array, table) : k[2] = Name(m)
  <2>1. m \in Nat
    BY NamesAssumption
  <2>2. PICK i \in Used(table, n) : table.entries[i].name = m
    BY <1>1, <1>7, <2>1, HasIs
  <2>3. PICK k : k = <<Capacity(array) + i, Name(m)>>
    OBVIOUS
  <2>4. NameKey(array, table, i, k)
    BY <2>2, <2>3 DEF NameKey
  <2>5. k \in Keys(array, table)
    BY <1>1, <1>2, <2>4, KeysAre
  <2>. QED BY <2>3, <2>5
<1>8. ASSUME NEW x \in Present(array, table) PROVE \E k \in Keys(array, table) : k[2] = x
  <2>1. \/ \E j \in Indexes : GetValue(array, j) # Missing /\ x = Index(j)
        \/ \E m \in Names : Has(table, m) /\ x = Name(m)
    BY <1>8 DEF Present
  <2>. QED BY <1>6, <1>7, <2>1
<1>. QED BY <1>5, <1>8

(* Of two keys the lower names another property, and if both are indexes,  *)
(* the lower index.                                                        *)
Precedes(k, l) ==
  /\ k[2] # l[2]
  /\ k[2][1] = "index" /\ l[2][1] = "index" => k[2][2] < l[2][2]

LEMMA KeysAscend ==
  ASSUME IInv, NEW k \in Keys(array, table), NEW l \in Keys(array, table), k[1] < l[1]
  PROVE  Precedes(k, l)
<1>1. PICK n, d : Linked(table, n, d)
  BY DEF IInv, TableInv, Sound
<1>2. Shaped(array) /\ Views(array)
  BY ShapedViews DEF IInv, ArrayInv
<1>3. /\ \/ \E p \in Positions(array) : IndexKey(array, p, k)
         \/ \E i \in Used(table, n) : NameKey(array, table, i, k)
      /\ \/ \E p \in Positions(array) : IndexKey(array, p, l)
         \/ \E i \in Used(table, n) : NameKey(array, table, i, l)
  BY <1>1, <1>2, KeysAre
<1>4. ASSUME NEW p \in Positions(array), IndexKey(array, p, k),
             NEW q \in Positions(array), IndexKey(array, q, l)
      PROVE  Precedes(k, l)
  <2>1. /\ k[1] = p /\ k[2] = Index(KeyName(array, p)) /\ KeyName(array, p) \in Nat
        /\ l[1] = q /\ l[2] = Index(KeyName(array, q)) /\ KeyName(array, q) \in Nat
    BY <1>2, <1>4, IndexKeyIs
  <2>2. KeyName(array, p) < KeyName(array, q)
    BY <1>2, <2>1 DEF Views
  <2>3. k[2][2] = KeyName(array, p) /\ l[2][2] = KeyName(array, q)
    BY <2>1, TagFacts
  <2>4. k[2][2] < l[2][2] /\ k[2] # l[2]
    BY <2>1, <2>2, <2>3
  <2>. QED BY <2>4 DEF Precedes
<1>5. ASSUME NEW p \in Positions(array), IndexKey(array, p, k),
             NEW i \in Used(table, n), NameKey(array, table, i, l)
      PROVE  Precedes(k, l)
  <2>1. k[2] = Index(KeyName(array, p))
    BY <1>2, <1>5, IndexKeyIs
  <2>2. l[2] = Name(table.entries[i].name)
    BY <1>1, <1>2, <1>5, NameKeyIs
  <2>3. k[2] # l[2] /\ l[2][1] # "index"
    BY <2>1, <2>2, TagFacts
  <2>. QED BY <2>3 DEF Precedes
<1>6. ASSUME NEW i \in Used(table, n), NameKey(array, table, i, k),
             NEW q \in Positions(array), IndexKey(array, q, l)
      PROVE  FALSE
  <2>1. k[1] = Capacity(array) + i /\ i \in Nat /\ Capacity(array) \in Nat
    BY <1>1, <1>2, <1>6, NameKeyIs
  <2>2. l[1] = q /\ q \in Nat /\ q < Capacity(array)
    BY <1>2, <1>6, IndexKeyIs
  <2>. QED BY <2>1, <2>2
<1>7. ASSUME NEW i \in Used(table, n), NameKey(array, table, i, k),
             NEW j \in Used(table, n), NameKey(array, table, j, l)
      PROVE  Precedes(k, l)
  <2>1. /\ k[1] = Capacity(array) + i /\ k[2] = Name(table.entries[i].name)
        /\ l[1] = Capacity(array) + j /\ l[2] = Name(table.entries[j].name)
        /\ i \in Nat /\ j \in Nat /\ Capacity(array) \in Nat
    BY <1>1, <1>2, <1>7, NameKeyIs
  <2>2. i # j
    BY <2>1
  <2>3. table.entries[i].name # table.entries[j].name
    BY <1>1, <2>2 DEF Linked
  <2>4. k[2] # l[2] /\ k[2][1] # "index"
    BY <2>1, <2>3, TagFacts
  <2>. QED BY <2>4 DEF Precedes
<1>. QED BY <1>3, <1>4, <1>5, <1>6, <1>7

(* get_key names, over all offsets to the end, every property of an array  *)
(* once, and its indexes in ascending order.                               *)
THEOREM EachKeyOnceAlways == StoreSpec /\ []NeverDangles => []EachKeyOnce
<1>1. IInv => EachKeyOnce
  BY KeysArePresent, KeysAscend DEF EachKeyOnce, Precedes
<1>. QED BY <1>1, InvInit, InvStep, PTL DEF StoreSpec

(* An element that is written never brings a property that stays to a      *)
(* lower offset.                                                           *)
LEMMA KeysStay ==
  ASSUME IInv, WriteElement, NeverDangles',
         NEW k \in Keys(array, table), NEW l \in Keys(array', table'), k[2] = l[2]
  PROVE  k[1] <= l[1]
<1>0. PICK x : k[2] = x /\ l[2] = x
  OBVIOUS
<1>1. PICK n, d : Linked(table, n, d)
  BY DEF IInv, TableInv, Sound
<1>2. PICK b, u : b = array' /\ u = table'
  OBVIOUS
<1>3. u = table /\ Shaped(array) /\ Shaped(b) /\ Ascends(array, b)
  BY <1>2, ElementStep DEF IInv, ArrayInv, WriteElement
<1>4. Views(array) /\ Views(b)
  BY <1>3, ShapedViews
<1>5. l \in Keys(b, table)
  BY <1>2, <1>3
<1>6. /\ \/ \E p \in Positions(array) : IndexKey(array, p, k)
         \/ \E i \in Used(table, n) : NameKey(array, table, i, k)
      /\ \/ \E p \in Positions(b) : IndexKey(b, p, l)
         \/ \E i \in Used(table, n) : NameKey(b, table, i, l)
  BY <1>1, <1>3, <1>5, KeysAre
<1>7. ASSUME NEW p \in Positions(array), IndexKey(array, p, k),
             NEW q \in Positions(b), IndexKey(b, q, l)
      PROVE  k[1] <= l[1]
  <2>1. /\ k[1] = p /\ k[2] = Index(KeyName(array, p))
        /\ l[1] = q /\ l[2] = Index(KeyName(b, q))
    BY <1>3, <1>7, IndexKeyIs
  <2>2. x = Index(KeyName(array, p)) /\ x = Index(KeyName(b, q))
    BY <1>0, <2>1
  <2>3. KeyName(array, p) = KeyName(b, q)
    BY <2>2, OneTag
  <2>. QED BY <1>3, <2>1, <2>3 DEF Ascends
<1>8. ASSUME NEW p \in Positions(array), IndexKey(array, p, k),
             NEW i \in Used(table, n), NameKey(b, table, i, l)
      PROVE  FALSE
  <2>1. k[2] = Index(KeyName(array, p))
    BY <1>3, <1>8, IndexKeyIs
  <2>2. l[2] = Name(table.entries[i].name)
    BY <1>1, <1>3, <1>8, NameKeyIs
  <2>. QED BY <1>0, <2>1, <2>2, TagFacts
<1>9. ASSUME NEW i \in Used(table, n), NameKey(array, table, i, k),
             NEW q \in Positions(b), IndexKey(b, q, l)
      PROVE  FALSE
  <2>1. k[2] = Name(table.entries[i].name)
    BY <1>1, <1>3, <1>9, NameKeyIs
  <2>2. l[2] = Index(KeyName(b, q))
    BY <1>3, <1>9, IndexKeyIs
  <2>. QED BY <1>0, <2>1, <2>2, TagFacts
<1>10. ASSUME NEW i \in Used(table, n), NameKey(array, table, i, k),
              NEW j \in Used(table, n), NameKey(b, table, j, l)
       PROVE  k[1] <= l[1]
  <2>1. /\ k[1] = Capacity(array) + i /\ k[2] = Name(table.entries[i].name)
        /\ l[1] = Capacity(b) + j /\ l[2] = Name(table.entries[j].name)
        /\ i \in Nat /\ j \in Nat /\ Capacity(array) \in Nat /\ Capacity(b) \in Nat
    BY <1>1, <1>3, <1>10, NameKeyIs
  <2>2. table.entries[i].name = table.entries[j].name
    BY <1>0, <2>1, OneTag
  <2>3. i = j
    BY <1>1, <2>2 DEF Linked
  <2>4. Capacity(array) <= Capacity(b)
    BY <1>3 DEF Ascends
  <2>. QED BY <2>1, <2>3, <2>4
<1>. QED BY <1>6, <1>7, <1>8, <1>9, <1>10

(* No property that stays comes to lie at a lower offset, where an         *)
(* iterator in the middle of the array would miss it.                      *)
THEOREM NeverBackAlways == StoreSpec /\ []NeverDangles => NeverBack
<1>. DEFINE Kept == array' # array =>
       LET keys == Keys(array, table)
           after == Keys(array', table')
       IN \A k \in keys, l \in after : k[2] = l[2] => k[1] <= l[1]
<1>1. IInv /\ [StoreNext]_storeVars /\ NeverDangles' => [Kept]_storeVars
  <2>1. SUFFICES ASSUME IInv, [StoreNext]_storeVars, NeverDangles', array' # array PROVE Kept
    OBVIOUS
  <2>2. WriteElement
    BY <2>1 DEF StoreNext, WriteName, storeVars, vars
  <2>. QED BY <2>1, <2>2, KeysStay
<1>. QED BY <1>1, InvInit, InvStep, PTL DEF StoreSpec, NeverBack

-----------------------------------------------------------------------------
(* The two stores as one map                                               *)
ReadOf(a, t, key) ==
  IF key[1] = "index" THEN GetValue(a, key[2]) ELSE Told(t, key[2])

Contents(a, t) == [key \in AllNames |-> ReadOf(a, t, key)]

OneStep(c, e) ==
  LET changed == {n \in AllNames : e[n] # c[n]} IN
  \E n \in changed :
    /\ changed = {n}
    /\ \/ c[n] = Missing /\ e[n] \in BOOLEAN
       \/ c[n] # Missing /\ e[n] \in BOOLEAN
       \/ c[n] # Missing /\ e[n] = Missing

LEMMA OneChanged ==
  ASSUME NEW a, NEW t, NEW b, NEW u, NEW key \in AllNames, NEW v \in Flags,
         \A x \in AllNames : ReadOf(b, u, x) = IF x = key THEN v ELSE ReadOf(a, t, x)
  PROVE  OneStep(Contents(a, t), Contents(b, u)) \/ Contents(b, u) = Contents(a, t)
<1>. DEFINE c == Contents(a, t)
            e == Contents(b, u)
<1>1. /\ \A x \in AllNames : c[x] = ReadOf(a, t, x)
      /\ \A x \in AllNames : e[x] = ReadOf(b, u, x)
      /\ DOMAIN c = AllNames /\ DOMAIN e = AllNames
      /\ c = [x \in AllNames |-> c[x]] /\ e = [x \in AllNames |-> e[x]]
  BY DEF Contents
<1>. HIDE DEF c, e
<1>2. \A x \in AllNames : e[x] = IF x = key THEN v ELSE c[x]
  BY <1>1
<1>3. CASE c[key] = v
  <2>1. \A x \in AllNames : e[x] = c[x]
    BY <1>2, <1>3
  <2>. QED BY <1>1, <2>1 DEF c, e
<1>4. CASE c[key] # v
  <2>1. {x \in AllNames : e[x] # c[x]} = {key}
    BY <1>2, <1>4
  <2>2. e[key] = v
    BY <1>2
  <2>3. \/ c[key] = Missing /\ e[key] \in BOOLEAN
        \/ c[key] # Missing /\ e[key] \in BOOLEAN
        \/ c[key] # Missing /\ e[key] = Missing
    BY <1>4, <2>2 DEF Flags
  <2>. QED BY <2>1, <2>3 DEF OneStep, c, e
<1>. QED BY <1>3, <1>4

LEMMA ContentsAre ==
  /\ AllContents = Contents(array, table)
  /\ AllContents' = Contents(array', table')
BY DEF AllContents, Contents, ReadOf, Told

LEMMA ReadsIndex == ASSUME NEW a, NEW t, NEW i PROVE ReadOf(a, t, Index(i)) = GetValue(a, i)
BY TagFacts DEF ReadOf

LEMMA ReadsName == ASSUME NEW a, NEW t, NEW n PROVE ReadOf(a, t, Name(n)) = Told(t, n)
BY TagFacts DEF ReadOf

LEMMA NamesAre ==
  ASSUME NEW x \in AllNames
  PROVE  (\E i \in Indexes : x = Index(i)) \/ (\E n \in Names : x = Name(n))
BY DEF AllNames

LEMMA ElementRead ==
  ASSUME IInv, WriteElement, NeverDangles'
  PROVE  OneStep(AllContents, AllContents') \/ AllContents' = AllContents
<1>1. PICK b, u : b = array' /\ u = table'
  OBVIOUS
<1>2. u = table /\ ArrayInv /\ Next
  BY <1>1 DEF IInv, WriteElement
<1>3. PICK i \in Indexes, v \in Flags :
        \A j \in Nat : GetValue(b, j) = IF j = i THEN v ELSE GetValue(array, j)
  BY <1>1, <1>2, ElementStep
<1>4. Index(i) \in AllNames
  BY DEF AllNames
<1>5. ASSUME NEW x \in AllNames
      PROVE  ReadOf(b, u, x) = IF x = Index(i) THEN v ELSE ReadOf(array, table, x)
  <2>1. CASE \E j \in Indexes : x = Index(j)
    <3>1. PICK j \in Indexes : x = Index(j)
      BY <2>1
    <3>2. j \in Nat
      BY SizesAssumption
    <3>3. ReadOf(b, u, x) = GetValue(b, j) /\ ReadOf(array, table, x) = GetValue(array, j)
      BY <3>1, ReadsIndex
    <3>4. x = Index(i) <=> j = i
      BY <3>1, OneTag
    <3>. QED BY <1>3, <3>2, <3>3, <3>4
  <2>2. CASE \E n \in Names : x = Name(n)
    <3>1. PICK n \in Names : x = Name(n)
      BY <2>2
    <3>2. ReadOf(b, u, x) = Told(table, n) /\ ReadOf(array, table, x) = Told(table, n)
      BY <1>2, <3>1, ReadsName
    <3>3. x # Index(i)
      BY <3>1, TagFacts
    <3>. QED BY <3>2, <3>3
  <2>. QED BY <2>1, <2>2, NamesAre
<1>6. AllContents' = Contents(b, u) /\ AllContents = Contents(array, table)
  BY <1>1, ContentsAre
<1>7. \/ OneStep(Contents(array, table), Contents(b, u))
      \/ Contents(b, u) = Contents(array, table)
  BY <1>4, <1>5, OneChanged
<1>. QED BY <1>6, <1>7, Zenon

LEMMA NameRead ==
  ASSUME IInv, WriteName
  PROVE  OneStep(AllContents, AllContents') \/ AllContents' = AllContents
<1>1. PICK b, u : b = array' /\ u = table'
  OBVIOUS
<1>2. b = array /\ TableInv /\ TableNext
  BY <1>1 DEF IInv, WriteName, vars
<1>3. PICK n \in Names, v \in Flags :
        \A m \in Nat : Told(u, m) = IF m = n THEN v ELSE Told(table, m)
  BY <1>1, <1>2, NameStep
<1>4. Name(n) \in AllNames
  BY DEF AllNames
<1>5. ASSUME NEW x \in AllNames
      PROVE  ReadOf(b, u, x) = IF x = Name(n) THEN v ELSE ReadOf(array, table, x)
  <2>1. CASE \E j \in Indexes : x = Index(j)
    <3>1. PICK j \in Indexes : x = Index(j)
      BY <2>1
    <3>2. ReadOf(b, u, x) = GetValue(array, j) /\ ReadOf(array, table, x) = GetValue(array, j)
      BY <1>2, <3>1, ReadsIndex
    <3>3. x # Name(n)
      BY <3>1, TagFacts
    <3>. QED BY <3>2, <3>3
  <2>2. CASE \E m \in Names : x = Name(m)
    <3>1. PICK m \in Names : x = Name(m)
      BY <2>2
    <3>2. m \in Nat
      BY NamesAssumption
    <3>3. ReadOf(b, u, x) = Told(u, m) /\ ReadOf(array, table, x) = Told(table, m)
      BY <3>1, ReadsName
    <3>4. x = Name(n) <=> m = n
      BY <3>1, OneTag
    <3>. QED BY <1>3, <3>2, <3>3, <3>4
  <2>. QED BY <2>1, <2>2, NamesAre
<1>6. AllContents' = Contents(b, u) /\ AllContents = Contents(array, table)
  BY <1>1, ContentsAre
<1>7. \/ OneStep(Contents(array, table), Contents(b, u))
      \/ Contents(b, u) = Contents(array, table)
  BY <1>4, <1>5, OneChanged
<1>. QED BY <1>6, <1>7, Zenon

LEMMA NothingRead == StoreInit => Object!Init
<1>. SUFFICES ASSUME StoreInit PROVE Object!Init
  OBVIOUS
<1>1. \A j \in Nat : GetValue(array, j) = Missing
  BY ArrayInit DEF StoreInit
<1>2. \A m \in Nat : Told(table, m) = Missing
  BY EmptyFacts, NamesAssumption DEF StoreInit, TableInit, Told
<1>3. ASSUME NEW x \in AllNames PROVE ReadOf(array, table, x) = Missing
  <2>1. CASE \E j \in Indexes : x = Index(j)
    BY <1>1, <2>1, ReadsIndex, SizesAssumption
  <2>2. CASE \E m \in Names : x = Name(m)
    BY <1>2, <2>2, ReadsName, NamesAssumption
  <2>. QED BY <2>1, <2>2, NamesAre
<1>. QED BY <1>3, ContentsAre DEF Contents, Object!Init

(* What is read under an index or a name is what was last written there:   *)
(* the two stores, in whatever representation and through every growth,    *)
(* are the one map that the Store trait promises.                          *)
THEOREM ReadsAlways == StoreSpec /\ []NeverDangles => ReadsWhatWasWritten
<1>1. IInv /\ [StoreNext]_storeVars /\ NeverDangles' =>
        [<<array, table>>' # <<array, table>> => [Object!Next]_AllContents]_storeVars
  <2>1. SUFFICES ASSUME IInv, [StoreNext]_storeVars, NeverDangles',
                        <<array, table>>' # <<array, table>>
                 PROVE  [Object!Next]_AllContents
    OBVIOUS
  <2>2. WriteElement \/ WriteName
    BY <2>1 DEF StoreNext, storeVars, vars
  <2>3. OneStep(AllContents, AllContents') \/ AllContents' = AllContents
    BY <2>1, <2>2, ElementRead, NameRead
  <2>. QED BY <2>3 DEF OneStep, Object!Next, Object!Add, Object!Replace, Object!Remove
<1>. QED BY <1>1, NothingRead, InvInit, InvStep, PTL DEF StoreSpec, ReadsWhatWasWritten

(* Where the allocation in insert_chunk does not collect, no pointer gets  *)
(* stale.                                                                  *)
LEMMA NothingDangles ==
  ASSUME ~Collects
  PROVE  StoreSpec => []NeverDangles
<1>1. StoreInit => NeverDangles
  BY DEF StoreInit, Init, NeverDangles
<1>2. ASSUME NeverDangles, [StoreNext]_storeVars PROVE NeverDangles'
  <2>1. ASSUME NEW i, NEW v, SetValue(i, v) PROVE NeverDangles'
    BY <2>1 DEF SetValue, Dangles, NeverDangles
  <2>2. CASE WriteElement
    <3>1. CASE Add
      BY <2>1, <3>1 DEF Add
    <3>2. CASE Replace
      BY <2>1, <3>2 DEF Replace
    <3>3. CASE Remove
      BY <2>1, <3>3 DEF Remove
    <3>. QED BY <2>2, <3>1, <3>2, <3>3 DEF WriteElement, Next
  <2>3. CASE WriteName \/ UNCHANGED storeVars
    BY <1>2, <2>3 DEF WriteName, storeVars, vars, NeverDangles
  <2>. QED BY <1>2, <2>2, <2>3 DEF StoreNext
<1>. QED BY <1>1, <1>2, PTL DEF StoreSpec

(* All of this, without a condition on behaviours then.                    *)
COROLLARY ArraysKeepTheirPromise ==
  ASSUME ~Collects
  PROVE  StoreSpec => /\ []Represented /\ []EachKeyOnce
                      /\ NeverBack /\ ReadsWhatWasWritten
BY NothingDangles, RepresentedAlways, EachKeyOnceAlways, NeverBackAlways, ReadsAlways, PTL

-----------------------------------------------------------------------------
(* The methods that call back.  Fine is a loop under way on an object,     *)
(* Over one that has ended; a turn, and what the callback does to the      *)
(* object, lead from the one to the one or the other.                      *)

IsVisit(v) ==
  v = [at |-> v.at, value |-> v.value, given |-> v.given, returned |-> v.returned]

AreVisits(s) == \E T : s \in Seq(T) /\ \A v \in T : IsVisit(v)

IsLoop(l) ==
  /\ l = [method |-> l.method, len |-> l.len, running |-> l.running, writes |-> l.writes,
          k |-> l.k, acc |-> l.acc, first |-> l.first, visits |-> l.visits,
          kept |-> l.kept, absent |-> l.absent]
  /\ l.len \in Nat /\ l.k \in Int
  /\ AreVisits(l.visits)

\* The indexes still to come, one before another, and those that had their turn.
ToCome(l, i) == IF Methods!Backwards(l) THEN i <= l.k ELSE i >= l.k
Earlier(l, i, j) == IF Methods!Backwards(l) THEN i > j ELSE i < j
VisitedBy(l, i) ==
  (\E n \in 1 .. Len(l.visits) : l.visits[n].at = i) \/ (l.first = i /\ i # None)

\* A loop that is under way, on an object o.
Ordered(l) ==
  \A m, n \in 1 .. Len(l.visits) : m < n => Earlier(l, l.visits[m].at, l.visits[n].at)
Behind(l) ==
  \A i : VisitedBy(l, i) => i \in 0 .. l.len - 1 /\ ~ToCome(l, i)
KeptThere(o, l) ==
  \A i \in DOMAIN l.kept : /\ i \in 0 .. l.len - 1 /\ Methods!Has(o, i)
                           /\ Methods!Get(o, i) = l.kept[i]
                           /\ VisitedBy(l, i) \/ ToCome(l, i)
AbsentThere(o, l) ==
  \A i \in l.absent : ~Methods!Has(o, i) /\ ~VisitedBy(l, i)
Valued(l) ==
  \A n \in 1 .. Len(l.visits) :
    l.visits[n].at \in DOMAIN l.kept => l.visits[n].value = l.kept[l.visits[n].at]
Fine(o, l) ==
  IsLoop(l) /\ Ordered(l) /\ Behind(l) /\ KeptThere(o, l) /\ AbsentThere(o, l) /\ Valued(l)

Called(l) == Len(l.visits) \in Nat \ {0}

\* A loop that is over.
Over(l) ==
  /\ IsLoop(l) /\ Ordered(l) /\ Valued(l)
  /\ \A i : VisitedBy(l, i) => i \in 0 .. l.len - 1 /\ i \notin l.absent
  /\ \/ l.method \in {"every", "some"} /\ l.acc = (l.method = "some")
     \/ \A i \in DOMAIN l.kept : VisitedBy(l, i)

LoopInv ==
  loop # None => IF loop.running THEN Fine(object, loop) /\ Called(loop) ELSE Over(loop)

LEMMA GreatestExists ==
  ASSUME NEW n \in Nat, NEW S, S \subseteq 0 .. n, S # {}
  PROVE  \E x \in S : \A y \in S : x >= y
<1>. DEFINE T == {y \in Nat : n - y \in S}
<1>1. T \subseteq Nat /\ T # {}
  <2>1. PICK x \in S : TRUE
    OBVIOUS
  <2>2. n - x \in T
    BY <2>1
  <2>. QED BY <2>2
<1>2. PICK y \in T : \A z \in T : y <= z
  <2>. HIDE DEF T
  <2>. QED BY <1>1, LeastExists
<1>3. n - y \in S
  BY <1>2
<1>4. ASSUME NEW x \in S PROVE n - y >= x
  <2>1. n - x \in T
    OBVIOUS
  <2>2. y <= n - x /\ y \in Nat
    BY <1>2, <2>1
  <2>. QED BY <2>2
<1>. QED BY <1>3, <1>4

LEMMA TurnFacts ==
  ASSUME NEW o, NEW l, IsLoop(l), Methods!Ahead(o, l) # {}
  PROVE  LET i == Methods!Turn(o, l) IN
         /\ i \in Methods!Ahead(o, l)
         /\ \A j \in Methods!Ahead(o, l) : IF Methods!Backwards(l) THEN j <= i ELSE i <= j
<1>1. PICK S : S = Methods!Ahead(o, l)
  OBVIOUS
<1>2. PICK n \in Nat : n = l.len
  BY DEF IsLoop
<1>3. S \subseteq 0 .. n /\ S \subseteq Nat /\ S # {}
  BY <1>1, <1>2 DEF Methods!Ahead
<1>4. CASE Methods!Backwards(l)
  <2>1. \E x \in S : \A y \in S : x >= y
    BY <1>2, <1>3, GreatestExists
  <2>2. PICK i : i = CHOOSE x \in S : \A y \in S : x >= y
    OBVIOUS
  <2>3. i \in S /\ \A y \in S : i >= y
    BY <2>1, <2>2
  <2>4. Methods!Turn(o, l) = i
    BY <1>1, <1>4, <2>2 DEF Methods!Turn, Methods!Max
  <2>5. \A y \in S : y <= i
    BY <1>3, <2>3
  <2>. QED BY <1>1, <1>4, <2>3, <2>4, <2>5
<1>5. CASE ~Methods!Backwards(l)
  <2>1. \E x \in S : \A y \in S : x <= y
    BY <1>3, LeastExists
  <2>2. PICK i : i = CHOOSE x \in S : \A y \in S : x <= y
    OBVIOUS
  <2>3. i \in S /\ \A y \in S : i <= y
    BY <2>1, <2>2
  <2>4. Methods!Turn(o, l) = i
    BY <1>1, <1>5, <2>2 DEF Methods!Turn, Methods!Min
  <2>. QED BY <1>1, <1>5, <2>3, <2>4
<1>. QED BY <1>4, <1>5

(* One more visit, and a visit that returns.                               *)
AddsVisit(s, v, t) == t = Append(s, v)
ReturnsVisit(s, n, v, t) == t = [s EXCEPT ![n].returned = v]

LEMMA VisitAdded ==
  ASSUME NEW s, AreVisits(s), NEW v, IsVisit(v), NEW t, AddsVisit(s, v, t)
  PROVE  /\ AreVisits(t) /\ Len(s) \in Nat /\ Len(t) = Len(s) + 1 /\ t[Len(s) + 1] = v
         /\ \A n \in 1 .. Len(s) : t[n] = s[n]
<1>1. PICK T : s \in Seq(T) /\ \A x \in T : IsVisit(x)
  BY DEF AreVisits
<1>2. s \in Seq(T \cup {v}) /\ v \in T \cup {v}
  BY <1>1
<1>3. t \in Seq(T \cup {v}) /\ \A x \in T \cup {v} : IsVisit(x)
  BY <1>1, <1>2 DEF AddsVisit
<1>. QED BY <1>1, <1>2, <1>3 DEF AreVisits, AddsVisit

LEMMA VisitReturned ==
  ASSUME NEW s, AreVisits(s), NEW n \in 1 .. Len(s), NEW v,
         NEW t, ReturnsVisit(s, n, v, t)
  PROVE  /\ AreVisits(t) /\ Len(t) = Len(s)
         /\ \A m \in 1 .. Len(s) : t[m].at = s[m].at /\ t[m].value = s[m].value
         /\ t[n].returned = v /\ t[n].given = s[n].given
         /\ \A m \in 1 .. Len(s) : m # n => t[m] = s[m]
<1>1. PICK T : s \in Seq(T) /\ \A x \in T : IsVisit(x)
  BY DEF AreVisits
<1>2. s[n] \in T /\ IsVisit(s[n])
  BY <1>1
<1>3. PICK a, b, c, d : s[n] = [at |-> a, value |-> b, given |-> c, returned |-> d]
  BY <1>2 DEF IsVisit
<1>4. PICK x : x = [at |-> a, value |-> b, given |-> c, returned |-> v]
  OBVIOUS
<1>5. [s[n] EXCEPT !.returned = v] = x
  BY <1>3, <1>4
<1>6. t = [s EXCEPT ![n] = x]
  BY <1>5 DEF ReturnsVisit
<1>7. /\ x.at = s[n].at /\ x.value = s[n].value /\ IsVisit(x)
      /\ x.given = s[n].given /\ x.returned = v
  BY <1>3, <1>4 DEF IsVisit
<1>8. s \in Seq(T \cup {x})
  BY <1>1
<1>9. t \in Seq(T \cup {x}) /\ Len(t) = Len(s) /\ t[n] = x
      /\ \A m \in 1 .. Len(s) : m # n => t[m] = s[m]
  BY <1>6, <1>8
<1>10. \A y \in T \cup {x} : IsVisit(y)
  BY <1>1, <1>7
<1>. QED BY <1>7, <1>9, <1>10 DEF AreVisits

(* What stays of a loop.                                                   *)
Same(l, r) ==
  r.method = l.method /\ r.len = l.len /\ r.first = l.first /\ r.kept = l.kept
    /\ r.absent = l.absent

GoesOn(o, l, r) == r = Methods!GoOn(o, l)

LEMMA GoOnFields ==
  ASSUME NEW o, NEW l, IsLoop(l), Methods!Ahead(o, l) # {}, NEW r, GoesOn(o, l, r)
  PROVE  /\ IsLoop(r) /\ Same(l, r) /\ r.running = l.running
         /\ r.k = Methods!Past(l, Methods!Turn(o, l))
         /\ r.visits[Len(l.visits) + 1].at = Methods!Turn(o, l)
         /\ r.visits[Len(l.visits) + 1].value = Methods!Get(o, Methods!Turn(o, l))
         /\ Len(l.visits) \in Nat /\ Len(r.visits) = Len(l.visits) + 1
         /\ \A n \in 1 .. Len(l.visits) : r.visits[n] = l.visits[n]
         /\ r.acc = Methods!Holes(l, Methods!Turn(o, l))
         /\ r.visits[Len(l.visits) + 1].given = Methods!Holes(l, Methods!Turn(o, l))
<1>1. PICK i : i = Methods!Turn(o, l)
  OBVIOUS
<1>2. i \in Int
  <2>1. i \in Methods!Ahead(o, l)
    BY <1>1, TurnFacts
  <2>. QED BY <2>1 DEF Methods!Ahead
<1>3. PICK k : k = Methods!Past(l, i)
  OBVIOUS
<1>4. k \in Int
  BY <1>2, <1>3 DEF Methods!Past
<1>5. PICK acc : acc = Methods!Holes(l, i)
  OBVIOUS
<1>6. PICK v : v = [at |-> i, value |-> Methods!Get(o, i), given |-> acc, returned |-> None]
  OBVIOUS
<1>7. IsVisit(v) /\ v.at = i /\ v.value = Methods!Get(o, i) /\ v.given = acc
  BY <1>6 DEF IsVisit
<1>8. PICK s : s = Append(l.visits, v)
  OBVIOUS
<1>9. r = [l EXCEPT !.k = k, !.acc = acc, !.visits = s]
  BY <1>1, <1>3, <1>5, <1>6, <1>8 DEF GoesOn, Methods!GoOn
<1>10. r = [method |-> l.method, len |-> l.len, running |-> l.running, writes |-> l.writes,
            k |-> k, acc |-> acc, first |-> l.first, visits |-> s,
            kept |-> l.kept, absent |-> l.absent]
  BY <1>9 DEF IsLoop
<1>11. /\ Same(l, r) /\ r.running = l.running /\ r.writes = l.writes /\ r.k = k /\ r.acc = acc
       /\ r.visits = s
  BY <1>10 DEF Same
<1>12. AreVisits(l.visits) /\ l.len \in Nat
  BY DEF IsLoop
<1>13. /\ AreVisits(s) /\ Len(l.visits) \in Nat /\ Len(s) = Len(l.visits) + 1
       /\ s[Len(l.visits) + 1] = v
       /\ \A n \in 1 .. Len(l.visits) : s[n] = l.visits[n]
  <2>1. PICK p : p = l.visits
    OBVIOUS
  <2>2. AreVisits(p) /\ AddsVisit(p, v, s)
    BY <1>8, <1>12, <2>1 DEF AddsVisit
  <2>3. /\ AreVisits(s) /\ Len(p) \in Nat /\ Len(s) = Len(p) + 1 /\ s[Len(p) + 1] = v
        /\ \A n \in 1 .. Len(p) : s[n] = p[n]
    BY <1>7, <2>2, VisitAdded
  <2>. QED BY <2>1, <2>3
<1>14. r = [method |-> r.method, len |-> r.len, running |-> r.running, writes |-> r.writes,
            k |-> r.k, acc |-> r.acc, first |-> r.first, visits |-> r.visits,
            kept |-> r.kept, absent |-> r.absent]
  BY <1>10
<1>15. IsLoop(r)
  BY <1>4, <1>11, <1>12, <1>13, <1>14 DEF IsLoop, Same
<1>. QED BY <1>1, <1>3, <1>5, <1>7, <1>11, <1>13, <1>15

LEMMA EndFields ==
  ASSUME NEW o, NEW l, IsLoop(l), Methods!Ahead(o, l) = {}, NEW r, GoesOn(o, l, r)
  PROVE  /\ IsLoop(r) /\ Same(l, r) /\ ~r.running /\ r.visits = l.visits
         /\ r.acc = CASE l.method = "every" -> TRUE
                      [] l.method = "some"  -> FALSE
                      [] OTHER              -> Methods!Holes(l, l.len)
<1>1. r = Methods!End(l)
  BY DEF GoesOn, Methods!GoOn
<1>2. PICK acc : acc = CASE l.method = "every" -> TRUE
                         [] l.method = "some"  -> FALSE
                         [] OTHER              -> Methods!Holes(l, l.len)
  OBVIOUS
<1>3. r = [l EXCEPT !.running = FALSE, !.acc = acc]
  BY <1>1, <1>2, Zenon DEF Methods!End
<1>4. r = [method |-> l.method, len |-> l.len, running |-> FALSE, writes |-> l.writes,
           k |-> l.k, acc |-> acc, first |-> l.first, visits |-> l.visits,
           kept |-> l.kept, absent |-> l.absent]
  BY <1>3 DEF IsLoop
<1>5. Same(l, r) /\ ~r.running /\ r.visits = l.visits /\ r.k = l.k /\ r.acc = acc
  BY <1>4 DEF Same
<1>6. IsLoop(r)
  BY <1>4 DEF IsLoop
<1>. QED BY <1>2, <1>5, <1>6

LEMMA SameSides ==
  ASSUME NEW l, NEW r, r.method = l.method
  PROVE  Methods!Backwards(r) <=> Methods!Backwards(l)
BY DEF Methods!Backwards

(* The next turn of a loop, or its end, leaves it as it has to be.         *)
LEMMA GoOnFine ==
  ASSUME NEW o, NEW l, Fine(o, l), l.running, NEW r, GoesOn(o, l, r)
  PROVE  IF r.running THEN Fine(o, r) /\ Called(r) ELSE Over(r)
<1>. DEFINE back == Methods!Backwards(l)
<1>. HIDE DEF back
<1>0. IsLoop(l) /\ l.len \in Nat /\ l.k \in Int
  BY DEF Fine, IsLoop
<1>1. CASE Methods!Ahead(o, l) = {}
  <2>1. IsLoop(r) /\ Same(l, r) /\ ~r.running /\ r.visits = l.visits
    BY <1>0, <1>1, EndFields
  <2>2. back <=> Methods!Backwards(r)
    BY <2>1, SameSides DEF Same, back
  <2>3. \A i : VisitedBy(r, i) <=> VisitedBy(l, i)
    BY <2>1 DEF VisitedBy, Same
  <2>4. Ordered(r) /\ Valued(r)
    BY <2>1, <2>2 DEF Fine, Ordered, Valued, Earlier, Same, back
  <2>5. \A i : VisitedBy(r, i) => i \in 0 .. r.len - 1 /\ i \notin r.absent
    BY <2>1, <2>3 DEF Fine, Behind, AbsentThere, Same
  <2>6. ASSUME NEW i \in DOMAIN r.kept PROVE VisitedBy(r, i)
    <3>1. i \in DOMAIN l.kept
      BY <2>1 DEF Same
    <3>2. i \in 0 .. l.len - 1 /\ Methods!Has(o, i) /\ (VisitedBy(l, i) \/ ToCome(l, i))
      BY <3>1 DEF Fine, KeptThere
    <3>3. ~ToCome(l, i)
      BY <1>1, <3>2 DEF Methods!Ahead, ToCome
    <3>. QED BY <2>3, <3>2, <3>3
  <2>. QED BY <2>1, <2>4, <2>5, <2>6 DEF Over
<1>2. CASE Methods!Ahead(o, l) # {}
  <2>1. PICK i : i = Methods!Turn(o, l)
    OBVIOUS
  <2>2. PICK n : n = Len(l.visits)
    OBVIOUS
  <2>3. /\ IsLoop(r) /\ Same(l, r) /\ r.running /\ r.k = Methods!Past(l, i)
        /\ r.visits[n + 1].at = i /\ r.visits[n + 1].value = Methods!Get(o, i)
        /\ n \in Nat /\ Len(r.visits) = n + 1
        /\ \A m \in 1 .. n : r.visits[m] = l.visits[m]
    BY <1>0, <1>2, <2>1, <2>2, GoOnFields
  <2>4. /\ i \in 0 .. l.len - 1 /\ Methods!Has(o, i) /\ ToCome(l, i)
        /\ \A j \in 0 .. l.len - 1 : Methods!Has(o, j) /\ ToCome(l, j) =>
             IF back THEN j <= i ELSE i <= j
    BY <1>0, <1>2, <2>1, TurnFacts DEF Methods!Ahead, ToCome, back
  <2>5. Methods!Backwards(r) <=> back
    BY <2>3, SameSides DEF Same, back
  <2>6. r.k = IF back THEN i - 1 ELSE i + 1
    BY <2>3 DEF Methods!Past, back
  <2>7. ASSUME NEW j
        PROVE  VisitedBy(r, j) <=> VisitedBy(l, j) \/ j = i
    <3>1. ASSUME NEW m \in 1 .. n + 1, r.visits[m].at = j
          PROVE  VisitedBy(l, j) \/ j = i
      <4>1. m = n + 1 \/ m \in 1 .. n
        BY <2>3
      <4>. QED BY <2>2, <2>3, <3>1, <4>1 DEF VisitedBy
    <3>2. ASSUME NEW m \in 1 .. n, l.visits[m].at = j
          PROVE  m \in 1 .. n + 1 /\ r.visits[m].at = j
      BY <2>3, <3>2
    <3>3. n + 1 \in 1 .. n + 1
      BY <2>3
    <3>. QED BY <2>2, <2>3, <3>1, <3>2, <3>3 DEF VisitedBy, Same
  <2>8. ASSUME NEW j \in 0 .. l.len - 1
        PROVE  ToCome(r, j) <=> ToCome(l, j) /\ Earlier(l, i, j)
    <3>1. i \in Int /\ j \in Int
      BY <1>0, <2>4
    <3>. QED BY <1>0, <2>4, <2>5, <2>6, <3>1 DEF ToCome, Earlier, back
  <2>9. \A j : VisitedBy(l, j) => j \in 0 .. l.len - 1 /\ ~ToCome(l, j) /\ Earlier(l, j, i)
    <3>1. ASSUME NEW j, VisitedBy(l, j)
          PROVE  j \in 0 .. l.len - 1 /\ ~ToCome(l, j) /\ Earlier(l, j, i)
      <4>1. j \in 0 .. l.len - 1 /\ ~ToCome(l, j)
        BY <3>1 DEF Fine, Behind
      <4>2. i \in Int /\ j \in Int
        BY <1>0, <2>4, <4>1
      <4>. QED BY <1>0, <2>4, <4>1, <4>2 DEF ToCome, Earlier
    <3>. QED BY <3>1
  <2>10. Ordered(r)
    <3>1. ASSUME NEW m \in 1 .. n + 1, NEW p \in 1 .. n + 1, m < p
          PROVE  Earlier(l, r.visits[m].at, r.visits[p].at)
      <4>1. CASE p \in 1 .. n
        <5>1. m \in 1 .. n
          BY <2>3, <3>1, <4>1
        <5>. QED BY <2>2, <2>3, <3>1, <4>1, <5>1 DEF Fine, Ordered
      <4>2. CASE p = n + 1
        <5>1. m \in 1 .. n
          BY <2>3, <3>1, <4>2
        <5>2. VisitedBy(l, l.visits[m].at)
          BY <2>2, <5>1 DEF VisitedBy
        <5>. QED BY <2>3, <2>9, <4>2, <5>1, <5>2
      <4>. QED BY <2>3, <4>1, <4>2
    <3>. QED BY <2>3, <2>5, <3>1 DEF Ordered, Earlier, back
  <2>11. Behind(r)
    <3>1. ~ToCome(r, i)
      BY <1>0, <2>4, <2>5, <2>6 DEF ToCome
    <3>. QED BY <2>3, <2>4, <2>7, <2>8, <2>9, <3>1 DEF Behind, Same
  <2>12. KeptThere(o, r)
    <3>1. ASSUME NEW j \in DOMAIN l.kept
          PROVE  /\ j \in 0 .. l.len - 1 /\ Methods!Has(o, j) /\ Methods!Get(o, j) = l.kept[j]
                 /\ VisitedBy(r, j) \/ ToCome(r, j)
      <4>1. /\ j \in 0 .. l.len - 1 /\ Methods!Has(o, j) /\ Methods!Get(o, j) = l.kept[j]
            /\ VisitedBy(l, j) \/ ToCome(l, j)
        BY DEF Fine, KeptThere
      <4>2. CASE ToCome(l, j) /\ j # i
        <5>1. IF back THEN j < i ELSE i < j
          BY <1>0, <2>4, <4>1, <4>2
        <5>2. Earlier(l, i, j)
          BY <1>0, <2>4, <4>1, <5>1 DEF Earlier, back
        <5>. QED BY <2>8, <4>1, <4>2, <5>2
      <4>. QED BY <2>7, <4>1, <4>2
    <3>. QED BY <2>3, <3>1 DEF KeptThere, Same
  <2>13. AbsentThere(o, r)
    BY <2>3, <2>4, <2>7 DEF Fine, AbsentThere, Same
  <2>14. Valued(r)
    <3>1. ASSUME NEW m \in 1 .. n + 1, r.visits[m].at \in DOMAIN l.kept
          PROVE  r.visits[m].value = l.kept[r.visits[m].at]
      <4>1. CASE m \in 1 .. n
        BY <2>2, <2>3, <3>1, <4>1 DEF Fine, Valued
      <4>2. CASE m = n + 1
        BY <2>3, <3>1, <4>2 DEF Fine, KeptThere
      <4>. QED BY <2>3, <4>1, <4>2
    <3>. QED BY <2>3, <3>1 DEF Valued, Same
  <2>15. Called(r)
    BY <2>3 DEF Called
  <2>. QED BY <2>3, <2>10, <2>11, <2>12, <2>13, <2>14, <2>15 DEF Fine
<1>. QED BY <1>1, <1>2

(* reduce without an initial value                                         *)
TakesFirst(o, l, r) == r = Methods!WithFirst(o, l)

LEMMA FirstFine ==
  ASSUME NEW o, NEW l, Fine(o, l), l.running, l.visits = <<>>, l.first = None, None \notin Nat,
         Methods!Ahead(o, l) # {}, NEW r, TakesFirst(o, l, r)
  PROVE  Fine(o, r) /\ r.running /\ r.method = l.method /\ r.visits = <<>>
<1>. DEFINE back == Methods!Backwards(l)
<1>. HIDE DEF back
<1>0. IsLoop(l) /\ l.len \in Nat /\ l.k \in Int
  BY DEF Fine, IsLoop
<1>1. PICK i : i = Methods!Turn(o, l)
  OBVIOUS
<1>2. /\ i \in 0 .. l.len - 1 /\ Methods!Has(o, i) /\ ToCome(l, i)
      /\ \A j \in 0 .. l.len - 1 : Methods!Has(o, j) /\ ToCome(l, j) =>
           IF back THEN j <= i ELSE i <= j
  BY <1>0, <1>1, TurnFacts DEF Methods!Ahead, ToCome, back
<1>3. PICK k : k = Methods!Past(l, i)
  OBVIOUS
<1>4. k \in Int /\ k = IF back THEN i - 1 ELSE i + 1
  BY <1>2, <1>3 DEF Methods!Past, back
<1>5. PICK acc : acc = Methods!Get(o, i)
  OBVIOUS
<1>6. r = [l EXCEPT !.k = k, !.acc = acc, !.first = i]
  BY <1>1, <1>3, <1>5 DEF TakesFirst, Methods!WithFirst
<1>7. r = [method |-> l.method, len |-> l.len, running |-> l.running, writes |-> l.writes,
           k |-> k, acc |-> acc, first |-> i, visits |-> l.visits,
           kept |-> l.kept, absent |-> l.absent]
  BY <1>0, <1>6 DEF IsLoop
<1>8. /\ r.method = l.method /\ r.len = l.len /\ r.running = l.running /\ r.k = k
      /\ r.first = i /\ r.visits = l.visits /\ r.kept = l.kept /\ r.absent = l.absent
  BY <1>7
<1>9. IsLoop(r)
  BY <1>0, <1>4, <1>7 DEF IsLoop
<1>10. Methods!Backwards(r) <=> back
  BY <1>8, SameSides DEF back
<1>11. Len(r.visits) = 0 /\ Len(l.visits) = 0
  BY <1>8
<1>12. \A j : VisitedBy(r, j) <=> j = i
  BY <1>2, <1>8, <1>11 DEF VisitedBy
<1>13. Ordered(r) /\ Valued(r)
  BY <1>11 DEF Ordered, Valued
<1>14. \A j \in 0 .. l.len - 1 : ToCome(r, j) <=> ToCome(l, j) /\ Earlier(l, i, j)
  <2>1. ASSUME NEW j \in 0 .. l.len - 1 PROVE ToCome(r, j) <=> ToCome(l, j) /\ Earlier(l, i, j)
    <3>1. i \in Int /\ j \in Int
      BY <1>0, <1>2
    <3>. QED BY <1>0, <1>2, <1>4, <1>8, <1>10, <3>1 DEF ToCome, Earlier, back
  <2>. QED BY <2>1
<1>15. Behind(r)
  <2>1. ~ToCome(r, i)
    BY <1>0, <1>2, <1>4, <1>8, <1>10 DEF ToCome
  <2>. QED BY <1>2, <1>8, <1>12, <2>1 DEF Behind
<1>16. KeptThere(o, r)
  <2>1. ASSUME NEW j \in DOMAIN l.kept
        PROVE  /\ j \in 0 .. l.len - 1 /\ Methods!Has(o, j) /\ Methods!Get(o, j) = l.kept[j]
               /\ VisitedBy(r, j) \/ ToCome(r, j)
    <3>1. /\ j \in 0 .. l.len - 1 /\ Methods!Has(o, j) /\ Methods!Get(o, j) = l.kept[j]
          /\ VisitedBy(l, j) \/ ToCome(l, j)
      BY DEF Fine, KeptThere
    <3>2. ~VisitedBy(l, j)
      BY <1>11 DEF VisitedBy
    <3>3. CASE j # i
      <4>1. IF back THEN j < i ELSE i < j
        BY <1>0, <1>2, <3>1, <3>2, <3>3
      <4>2. Earlier(l, i, j)
        BY <1>0, <1>2, <3>1, <4>1 DEF Earlier, back
      <4>. QED BY <1>14, <3>1, <3>2, <4>2
    <3>. QED BY <1>12, <3>1, <3>3
  <2>. QED BY <1>8, <2>1 DEF KeptThere
<1>17. AbsentThere(o, r)
  BY <1>2, <1>8, <1>12 DEF Fine, AbsentThere
<1>. QED BY <1>8, <1>9, <1>13, <1>15, <1>16, <1>17 DEF Fine

(* A loop is begun at one end of the object.                               *)
Begins(o, method, initial, r) == r = Methods!Begun(o, method, initial)

LEMMA BegunFine ==
  ASSUME NEW o, o.length \in Nat, NEW method, NEW initial, NEW r, Begins(o, method, initial, r)
  PROVE  /\ Fine(o, r) /\ r.running /\ r.visits = <<>> /\ r.first = None
         /\ r.method = method /\ r.len = o.length
         /\ r.k = IF method = "reduceRight" THEN o.length - 1 ELSE 0
         /\ r.acc = IF method \in {"map", "filter"} THEN Methods!EmptyArray ELSE initial
<1>1. PICK n \in Nat : n = o.length
  OBVIOUS
<1>2. PICK k : k = IF method = "reduceRight" THEN n - 1 ELSE 0
  OBVIOUS
<1>3. PICK acc : acc = IF method \in {"map", "filter"} THEN Methods!EmptyArray ELSE initial
  OBVIOUS
<1>4. PICK kept : kept = [i \in {j \in 0 .. n - 1 : Methods!Has(o, j)} |-> Methods!Get(o, i)]
  OBVIOUS
<1>5. PICK absent : absent = {i \in Methods!Places : ~Methods!Has(o, i)}
  OBVIOUS
<1>6. r = [method |-> method, len |-> n, running |-> TRUE, writes |-> 0, k |-> k, acc |-> acc,
           first |-> None, visits |-> <<>>, kept |-> kept, absent |-> absent]
  BY <1>1, <1>2, <1>3, <1>4, <1>5 DEF Begins, Methods!Begun
<1>7. /\ r.method = method /\ r.len = n /\ r.running /\ r.k = k /\ r.first = None
      /\ r.visits = <<>> /\ r.kept = kept /\ r.absent = absent /\ r.acc = acc
  BY <1>6
<1>8. AreVisits(<<>>) /\ Len(<<>>) = 0
  <2>1. PICK e : e = <<>>
    OBVIOUS
  <2>2. e \in Seq({}) /\ Len(e) = 0
    BY <2>1
  <2>3. AreVisits(e)
    BY <2>2 DEF AreVisits
  <2>. QED BY <2>1, <2>2, <2>3
<1>9. k \in Int
  BY <1>1, <1>2
<1>10. IsLoop(r)
  BY <1>1, <1>6, <1>7, <1>8, <1>9 DEF IsLoop
<1>11. \A i : ~VisitedBy(r, i)
  BY <1>7, <1>8 DEF VisitedBy
<1>12. Len(r.visits) = 0
  BY <1>7, <1>8
<1>13. Ordered(r) /\ Valued(r)
  BY <1>12 DEF Ordered, Valued
<1>14. Behind(r)
  BY <1>11 DEF Behind
<1>15. AbsentThere(o, r)
  BY <1>5, <1>7, <1>11 DEF AbsentThere
<1>16. KeptThere(o, r)
  <2>1. ASSUME NEW i \in 0 .. n - 1 PROVE ToCome(r, i)
    BY <1>1, <1>2, <1>7 DEF ToCome, Methods!Backwards
  <2>. QED BY <1>4, <1>7, <2>1 DEF KeptThere
<1>. QED BY <1>1, <1>2, <1>3, <1>7, <1>10, <1>13, <1>14, <1>15, <1>16 DEF Fine

(* A callback returns: its visit and what the loop has so far are written. *)
Alike(l, r) ==
  /\ IsLoop(r) /\ Same(l, r) /\ r.running = l.running /\ r.k = l.k
  /\ Len(r.visits) = Len(l.visits)
  /\ \A n \in 1 .. Len(l.visits) :
       r.visits[n].at = l.visits[n].at /\ r.visits[n].value = l.visits[n].value

LEMMA AlikeFine ==
  ASSUME NEW o, NEW l, Fine(o, l), Called(l), NEW r, Alike(l, r)
  PROVE  Fine(o, r) /\ Called(r)
<1>1. Methods!Backwards(r) <=> Methods!Backwards(l)
  BY SameSides DEF Alike, Same
<1>2. PICK n : n = Len(l.visits)
  OBVIOUS
<1>3. /\ n = Len(r.visits) /\ r.len = l.len /\ r.k = l.k /\ r.first = l.first
      /\ r.kept = l.kept /\ r.absent = l.absent /\ IsLoop(r)
      /\ \A m \in 1 .. n : r.visits[m].at = l.visits[m].at /\ r.visits[m].value = l.visits[m].value
  BY <1>2 DEF Alike, Same
<1>4. \A i : VisitedBy(r, i) <=> VisitedBy(l, i)
  BY <1>2, <1>3 DEF VisitedBy
<1>5. \A i : ToCome(r, i) <=> ToCome(l, i)
  BY <1>1, <1>3 DEF ToCome
<1>6. Ordered(r)
  BY <1>1, <1>2, <1>3 DEF Fine, Ordered, Earlier
<1>7. Valued(r)
  BY <1>2, <1>3 DEF Fine, Valued
<1>8. Behind(r) /\ KeptThere(o, r) /\ AbsentThere(o, r)
  BY <1>3, <1>4, <1>5 DEF Fine, Behind, KeptThere, AbsentThere
<1>. QED BY <1>2, <1>3, <1>6, <1>7, <1>8 DEF Fine, Called

LEMMA AlikeTwice ==
  ASSUME NEW l, NEW r, Alike(l, r), NEW q, Alike(r, q)
  PROVE  Alike(l, q)
BY DEF Alike, Same

Returns(l, v, r) == r = [l EXCEPT !.visits[Len(l.visits)].returned = v]
Gathers(l, a, r) == r = [l EXCEPT !.acc = a]

LEMMA ReturnsAlike ==
  ASSUME NEW l, IsLoop(l), Called(l), NEW v, NEW r, Returns(l, v, r)
  PROVE  Alike(l, r)
<1>1. PICK s : s = l.visits
  OBVIOUS
<1>2. AreVisits(s) /\ Len(s) \in 1 .. Len(s)
  BY <1>1 DEF IsLoop, Called
<1>3. PICK n : n = Len(s)
  OBVIOUS
<1>4. PICK t : ReturnsVisit(s, n, v, t)
  BY DEF ReturnsVisit
<1>5. /\ AreVisits(t) /\ Len(t) = Len(s)
      /\ \A m \in 1 .. Len(s) : t[m].at = s[m].at /\ t[m].value = s[m].value
  BY <1>2, <1>3, <1>4, VisitReturned
<1>6. r = [l EXCEPT !.visits = t]
  BY <1>1, <1>3, <1>4 DEF Returns, ReturnsVisit, IsLoop
<1>7. r = [method |-> l.method, len |-> l.len, running |-> l.running, writes |-> l.writes,
           k |-> l.k, acc |-> l.acc, first |-> l.first, visits |-> t,
           kept |-> l.kept, absent |-> l.absent]
  BY <1>6 DEF IsLoop
<1>8. Same(l, r) /\ r.running = l.running /\ r.k = l.k /\ r.visits = t
  BY <1>7 DEF Same
<1>9. IsLoop(r)
  BY <1>5, <1>7 DEF IsLoop
<1>. QED BY <1>1, <1>5, <1>8, <1>9 DEF Alike

LEMMA GathersAlike ==
  ASSUME NEW l, IsLoop(l), NEW a, NEW r, Gathers(l, a, r)
  PROVE  Alike(l, r)
<1>1. r = [method |-> l.method, len |-> l.len, running |-> l.running, writes |-> l.writes,
           k |-> l.k, acc |-> a, first |-> l.first, visits |-> l.visits,
           kept |-> l.kept, absent |-> l.absent]
  BY DEF IsLoop, Gathers
<1>2. Same(l, r) /\ r.running = l.running /\ r.k = l.k /\ r.visits = l.visits
  BY <1>1 DEF Same
<1>3. IsLoop(r)
  BY <1>1 DEF IsLoop
<1>. QED BY <1>2, <1>3 DEF Alike

Stops(l, v, r) == r = [l EXCEPT !.running = FALSE, !.acc = v]

LEMMA StopsOver ==
  ASSUME NEW o, NEW l, Fine(o, l), l.method \in {"every", "some"}, NEW v,
         v = (l.method = "some"), NEW r, Stops(l, v, r)
  PROVE  Over(r) /\ ~r.running
<1>1. r = [method |-> l.method, len |-> l.len, running |-> FALSE, writes |-> l.writes,
           k |-> l.k, acc |-> v, first |-> l.first, visits |-> l.visits,
           kept |-> l.kept, absent |-> l.absent]
  BY DEF IsLoop, Stops, Fine
<1>2. /\ Same(l, r) /\ ~r.running /\ r.visits = l.visits /\ r.acc = v /\ r.k = l.k
      /\ r.method = l.method
  BY <1>1 DEF Same
<1>3. IsLoop(r)
  BY <1>1 DEF IsLoop, Fine
<1>4. Methods!Backwards(r) <=> Methods!Backwards(l)
  BY <1>2, SameSides
<1>5. \A i : VisitedBy(r, i) <=> VisitedBy(l, i)
  BY <1>2 DEF VisitedBy, Same
<1>6. Ordered(r)
  BY <1>2, <1>4 DEF Fine, Ordered, Earlier
<1>7. Valued(r)
  BY <1>2 DEF Fine, Valued, Same
<1>8. \A i : VisitedBy(r, i) => i \in 0 .. r.len - 1 /\ i \notin r.absent
  BY <1>2, <1>5 DEF Fine, Behind, AbsentThere, Same
<1>9. r.method \in {"every", "some"} /\ r.acc = (r.method = "some")
  BY <1>2
<1>. QED BY <1>2, <1>3, <1>6, <1>7, <1>8, <1>9 DEF Over

(* The callback changes the object: what is no longer there was not always *)
(* there, and what is there now is not absent.                             *)
Rewrites(l, o, r) ==
  r = [l EXCEPT !.writes = @ + 1,
         !.kept = Methods!Restrict(@, {i \in DOMAIN @ : Methods!Has(o, i) /\ Methods!Get(o, i) = @[i]}),
         !.absent = {i \in @ : ~Methods!Has(o, i)}]

LEMMA ChangedFine ==
  ASSUME NEW o, NEW l, Fine(o, l), Called(l), l.running, NEW p, NEW r, Rewrites(l, p, r)
  PROVE  Fine(p, r) /\ Called(r) /\ r.running
<1>1. PICK still : still = {i \in DOMAIN l.kept : Methods!Has(p, i) /\ Methods!Get(p, i) = l.kept[i]}
  OBVIOUS
<1>2. PICK kept : kept = [i \in still |-> l.kept[i]]
  OBVIOUS
<1>3. PICK absent : absent = {i \in l.absent : ~Methods!Has(p, i)}
  OBVIOUS
<1>4. PICK writes : writes = l.writes + 1
  OBVIOUS
<1>5. kept = Methods!Restrict(l.kept, still)
  BY <1>2, Zenon DEF Methods!Restrict
<1>6. r = [l EXCEPT !.writes = writes, !.kept = kept, !.absent = absent]
  BY <1>1, <1>3, <1>4, <1>5 DEF Rewrites
<1>7. r = [method |-> l.method, len |-> l.len, running |-> l.running, writes |-> writes,
           k |-> l.k, acc |-> l.acc, first |-> l.first, visits |-> l.visits,
           kept |-> kept, absent |-> absent]
  BY <1>6 DEF IsLoop, Fine
<1>8. /\ r.method = l.method /\ r.len = l.len /\ r.running /\ r.k = l.k /\ r.first = l.first
      /\ r.visits = l.visits /\ r.kept = kept /\ r.absent = absent
  BY <1>7
<1>9. IsLoop(r)
  BY <1>7 DEF IsLoop, Fine
<1>10. Methods!Backwards(r) <=> Methods!Backwards(l)
  BY <1>8, SameSides
<1>11. \A i : VisitedBy(r, i) <=> VisitedBy(l, i)
  BY <1>8 DEF VisitedBy
<1>12. \A i : ToCome(r, i) <=> ToCome(l, i)
  BY <1>8, <1>10 DEF ToCome
<1>13. Ordered(r)
  BY <1>8, <1>10 DEF Fine, Ordered, Earlier
<1>14. /\ DOMAIN kept \subseteq DOMAIN l.kept
       /\ \A i \in DOMAIN kept : /\ kept[i] = l.kept[i] /\ Methods!Has(p, i)
                                 /\ Methods!Get(p, i) = l.kept[i]
  BY <1>1, <1>2
<1>15. Valued(r)
  BY <1>8, <1>14 DEF Fine, Valued
<1>16. Behind(r)
  BY <1>8, <1>11, <1>12 DEF Fine, Behind
<1>17. KeptThere(p, r)
  BY <1>8, <1>11, <1>12, <1>14 DEF Fine, KeptThere
<1>18. AbsentThere(p, r)
  BY <1>3, <1>8, <1>11 DEF Fine, AbsentThere
<1>. QED BY <1>8, <1>9, <1>13, <1>15, <1>16, <1>17, <1>18 DEF Fine, Called

Turned(l, o, r) ==
  IF r.running THEN Fine(o, r) /\ Called(r) ELSE Over(r)

(* A turn ends, and the loop goes on.                                      *)
LEMMA TurnEnds ==
  ASSUME NEW o, NEW l, Fine(o, l), Called(l), l.running, NEW m, Alike(l, m),
         NEW r, GoesOn(o, m, r)
  PROVE  Turned(l, o, r)
<1>1. Fine(o, m) /\ m.running
  BY AlikeFine DEF Alike
<1>. QED BY <1>1, GoOnFine DEF Turned

\* Lengths are numbers, and no index is None.
LoopConstants == MaxLoop \in Nat /\ None \notin Nat

LEMMA BeginKeeps == ASSUME LoopConstants, Methods!Begin PROVE LoopInv'
<1>1. PICK o, r : o = object /\ r = loop'
  OBVIOUS
<1>2. object' = o /\ o.length \in Nat
  BY <1>1 DEF LoopConstants, Methods!Begin
<1>3. PICK method \in Methods!LoopMethods, initial \in {None} \cup Values :
        LET l == Methods!Begun(o, method, initial) IN
        IF method \in {"reduce", "reduceRight"} /\ initial = None
        THEN Methods!Ahead(o, l) # {} /\ r = Methods!GoOn(o, Methods!WithFirst(o, l))
        ELSE r = Methods!GoOn(o, l)
  BY <1>1, Zenon DEF Methods!Begin
<1>4. PICK l : Begins(o, method, initial, l)
  BY DEF Begins
<1>5. Fine(o, l) /\ l.running /\ l.visits = <<>> /\ l.first = None
  BY <1>2, <1>4, BegunFine
<1>6. CASE method \in {"reduce", "reduceRight"} /\ initial = None
  <2>1. PICK m : TakesFirst(o, l, m)
    BY DEF TakesFirst
  <2>2. Methods!Ahead(o, l) # {} /\ GoesOn(o, m, r)
    BY <1>3, <1>4, <1>6, <2>1 DEF Begins, TakesFirst, GoesOn
  <2>3. Fine(o, m) /\ m.running
    BY <1>5, <2>1, <2>2, FirstFine DEF LoopConstants
  <2>4. IF r.running THEN Fine(o, r) /\ Called(r) ELSE Over(r)
    BY <2>2, <2>3, GoOnFine
  <2>. QED BY <1>1, <1>2, <2>4 DEF LoopInv
<1>7. CASE ~(method \in {"reduce", "reduceRight"} /\ initial = None)
  <2>1. GoesOn(o, l, r)
    BY <1>3, <1>4, <1>7 DEF Begins, GoesOn
  <2>2. IF r.running THEN Fine(o, r) /\ Called(r) ELSE Over(r)
    BY <1>5, <2>1, GoOnFine
  <2>. QED BY <1>1, <1>2, <2>2 DEF LoopInv
<1>. QED BY <1>6, <1>7

LEMMA ReturnKeeps ==
  ASSUME LoopInv,
         \/ Methods!ReturnTest \/ Methods!ReturnEach \/ Methods!ReturnMapped
         \/ Methods!ReturnSelected \/ Methods!ReturnReduced
  PROVE  LoopInv'
<1>1. PICK o, l, r : o = object /\ l = loop /\ r = loop'
  OBVIOUS
<1>2. Fine(o, l) /\ Called(l) /\ l.running /\ IsLoop(l) /\ object' = o
  BY <1>1 DEF LoopInv, Fine, Methods!InCallback, Methods!ReturnTest, Methods!ReturnEach,
       Methods!ReturnMapped, Methods!ReturnSelected, Methods!ReturnReduced
<1>3. ASSUME NEW v, NEW a, r = Methods!GoOn(o, [Methods!Returned(v) EXCEPT !.acc = a])
      PROVE  LoopInv'
  <2>1. PICK m : Returns(l, v, m)
    BY DEF Returns
  <2>2. PICK q : Gathers(m, a, q)
    BY DEF Gathers
  <2>3. Alike(l, m)
    BY <1>2, <2>1, ReturnsAlike
  <2>4. Alike(m, q)
    <3>1. IsLoop(m)
      BY <2>3 DEF Alike
    <3>. QED BY <2>2, <3>1, GathersAlike
  <2>5. GoesOn(o, q, r)
    BY <1>1, <1>3, <2>1, <2>2, Zenon DEF Returns, Gathers, GoesOn, Methods!Returned
  <2>6. Alike(l, q)
    BY <2>3, <2>4, AlikeTwice
  <2>7. Turned(l, o, r)
    BY <1>2, <2>5, <2>6, TurnEnds
  <2>. QED BY <1>1, <1>2, <2>7 DEF LoopInv, Turned
<1>4. ASSUME NEW v, r = Methods!GoOn(o, Methods!Returned(v))
      PROVE  LoopInv'
  <2>1. PICK m : Returns(l, v, m)
    BY DEF Returns
  <2>2. Alike(l, m)
    BY <1>2, <2>1, ReturnsAlike
  <2>3. GoesOn(o, m, r)
    BY <1>1, <1>4, <2>1, Zenon DEF Returns, GoesOn, Methods!Returned
  <2>4. Turned(l, o, r)
    BY <1>2, <2>2, <2>3, TurnEnds
  <2>. QED BY <1>1, <1>2, <2>4 DEF LoopInv, Turned
<1>5. CASE Methods!ReturnTest
  <2>1. PICK v \in BOOLEAN :
          r = IF v = (l.method = "some")
              THEN [Methods!Returned(v) EXCEPT !.running = FALSE, !.acc = v]
              ELSE Methods!GoOn(o, Methods!Returned(v))
    BY <1>1, <1>5, Zenon DEF Methods!ReturnTest
  <2>2. l.method \in {"every", "some"}
    BY <1>1, <1>5 DEF Methods!ReturnTest
  <2>3. CASE v = (l.method = "some")
    <3>1. PICK m : Returns(l, v, m)
      BY DEF Returns
    <3>2. Alike(l, m)
      BY <1>2, <3>1, ReturnsAlike
    <3>3. Fine(o, m) /\ m.method = l.method
      BY <1>2, <3>2, AlikeFine DEF Alike, Same
    <3>4. Stops(m, v, r)
      BY <1>1, <2>1, <2>3, <3>1, Zenon DEF Returns, Stops, Methods!Returned
    <3>5. v = (m.method = "some") /\ m.method \in {"every", "some"}
      BY <2>2, <2>3, <3>3, Zenon
    <3>6. Over(r) /\ ~r.running
      BY <3>3, <3>4, <3>5, StopsOver
    <3>. QED BY <1>1, <3>6 DEF LoopInv
  <2>4. CASE ~(v = (l.method = "some"))
    <3>1. r = Methods!GoOn(o, Methods!Returned(v))
      BY <2>1, <2>4, Zenon
    <3>. QED BY <1>4, <3>1
  <2>. QED BY <2>3, <2>4
<1>6. CASE Methods!ReturnEach
  <2>1. r = Methods!GoOn(o, Methods!Returned(Undefined))
    BY <1>1, <1>6, Zenon DEF Methods!ReturnEach
  <2>. QED BY <1>4, <2>1
<1>7. CASE Methods!ReturnMapped
  <2>1. PICK v \in Values :
          r = Methods!GoOn(o, [Methods!Returned(v) EXCEPT
                                 !.acc = Methods!Put(@, Methods!LastVisit.at, v)])
    BY <1>1, <1>7, Zenon DEF Methods!ReturnMapped
  <2>. QED BY <1>3, <2>1
<1>8. CASE Methods!ReturnSelected
  <2>1. PICK v \in BOOLEAN :
          r = Methods!GoOn(o, [Methods!Returned(v) EXCEPT
                !.acc = IF v THEN Methods!Put(@, @.length, Methods!LastVisit.value) ELSE @])
    BY <1>1, <1>8, Zenon DEF Methods!ReturnSelected
  <2>. QED BY <1>3, <2>1
<1>9. CASE Methods!ReturnReduced
  <2>1. PICK v \in Values : r = Methods!GoOn(o, [Methods!Returned(v) EXCEPT !.acc = v])
    BY <1>1, <1>9, Zenon DEF Methods!ReturnReduced
  <2>. QED BY <1>3, <2>1
<1>. QED BY <1>5, <1>6, <1>7, <1>8, <1>9

LEMMA WriteKeeps == ASSUME LoopInv, Methods!Writes PROVE LoopInv'
<1>1. PICK o, l, p, r : o = object /\ l = loop /\ p = object' /\ r = loop'
  OBVIOUS
<1>2. Fine(o, l) /\ Called(l) /\ l.running
  BY <1>1 DEF LoopInv, Methods!InCallback, Methods!Writes
<1>3. PICK q : Methods!Changed(q)
  BY DEF Methods!Writes
<1>4. Rewrites(l, p, r)
  BY <1>1, <1>3, Zenon DEF Methods!Changed, Rewrites
<1>5. Fine(p, r) /\ Called(r) /\ r.running
  BY <1>2, <1>4, ChangedFine
<1>. QED BY <1>1, <1>5 DEF LoopInv

LEMMA LoopStep == ASSUME LoopConstants, LoopInv, [Methods!Next]_(Methods!vars) PROVE LoopInv'
<1>1. CASE Methods!DoCall \/ Methods!Make \/ Methods!Take \/ Methods!Throw
  BY <1>1 DEF LoopInv, Methods!DoCall, Methods!Make, Methods!Take, Methods!Throw, Methods!Idle
<1>2. CASE UNCHANGED Methods!vars
  BY <1>2 DEF LoopInv, Methods!vars
<1>. QED BY <1>1, <1>2, BeginKeeps, ReturnKeeps, WriteKeeps DEF Methods!Next

LEMMA LoopsAre == LoopInv => LoopVisits
<1>. SUFFICES ASSUME LoopInv, loop # None
              PROVE  LoopVisits
  BY DEF LoopVisits, Methods!LoopVisits
<1>1. PICK l : l = loop
  OBVIOUS
<1>2. IF l.running THEN Fine(object, l) ELSE Over(l)
  BY <1>1 DEF LoopInv
<1>3. IsLoop(l) /\ Ordered(l) /\ Valued(l)
  BY <1>2 DEF Fine, Over
<1>4. DOMAIN l.visits = 1 .. Len(l.visits)
  BY <1>3 DEF IsLoop, AreVisits
<1>5. \A i : i \in Methods!Visited <=> VisitedBy(l, i)
  BY <1>1, <1>4 DEF Methods!Visited, VisitedBy
<1>6. \A i : VisitedBy(l, i) => i \in 0 .. l.len - 1 /\ i \notin l.absent
  BY <1>2 DEF Fine, Over, Behind, AbsentThere
<1>7. ~l.running => Methods!Stopped \/ \A i \in DOMAIN l.kept : VisitedBy(l, i)
  BY <1>1, <1>2 DEF Over, Methods!Stopped
<1>8. \A m, n \in DOMAIN l.visits : m < n =>
        IF Methods!Backwards(l) THEN l.visits[m].at > l.visits[n].at
        ELSE l.visits[m].at < l.visits[n].at
  BY <1>3, <1>4 DEF Ordered, Earlier
<1>9. \A n \in DOMAIN l.visits :
        l.visits[n].at \in DOMAIN l.kept => l.visits[n].value = l.kept[l.visits[n].at]
  BY <1>3, <1>4 DEF Valued
<1>10. /\ Methods!Visited \subseteq 0 .. l.len - 1
       /\ Methods!Visited \cap l.absent = {}
       /\ ~l.running /\ ~Methods!Stopped => DOMAIN l.kept \subseteq Methods!Visited
  BY <1>5, <1>6, <1>7
<1>. QED BY <1>1, <1>8, <1>9, <1>10 DEF LoopVisits, Methods!LoopVisits

(* every, some, forEach, map, filter and the two reduces call back in      *)
(* order, for no element that was never there and for each that always was *)
(* (unless they stop), whatever the callback does to the object.           *)
THEOREM LoopVisitsAlways ==
  ASSUME LoopConstants
  PROVE  Methods!Spec => []LoopVisits
<1>1. Methods!Init => LoopInv
  BY DEF Methods!Init, LoopInv
<1>2. LoopInv /\ [Methods!Next]_(Methods!vars) => LoopInv'
  BY LoopStep
<1>. QED BY <1>1, <1>2, LoopsAre, PTL DEF Methods!Spec

-----------------------------------------------------------------------------
(* The objects that methods work on, and the operations that change them.  *)
\* An object has a length and elements, and an array none from its length on.
IsObject(o) ==
  /\ o = [array |-> o.array, own |-> o.own, length |-> o.length]
  /\ o.array \in BOOLEAN /\ o.length \in Nat
  /\ o.own = [i \in DOMAIN o.own |-> o.own[i]] /\ DOMAIN o.own \subseteq Nat
  /\ o.array => \A i \in DOMAIN o.own : i < o.length

Own(o, i) == Methods!Own(o, i)
View(o, i) == Methods!View(o, i)

IsMap(f) == f = [i \in DOMAIN f |-> f[i]] /\ DOMAIN f \subseteq Nat
IsMade(o, a, f, n) == o = [array |-> a, own |-> f, length |-> n]
Parts(o, a, f, n) ==
  /\ a \in BOOLEAN /\ n \in Nat /\ IsMade(o, a, f, n) /\ IsMap(f)
  /\ a => \A i \in DOMAIN f : i < n

LEMMA ObjectParts ==
  ASSUME NEW o, IsObject(o)
  PROVE  \E a, f, n : Parts(o, a, f, n)
<1>1. PICK a, f, n : a = o.array /\ f = o.own /\ n = o.length
  OBVIOUS
<1>2. Parts(o, a, f, n)
  BY <1>1 DEF IsObject, Parts, IsMap, IsMade
<1>. QED BY <1>2

LEMMA ObjectOf ==
  ASSUME NEW p, NEW a, NEW f, NEW n, Parts(p, a, f, n)
  PROVE  /\ IsObject(p) /\ p.array = a /\ p.length = n
         /\ \A j : Own(p, j) = IF j \in DOMAIN f THEN {f[j]} ELSE {}
<1>1. p.array = a /\ p.length = n /\ p.own = f
  BY DEF Parts, IsMade
<1>2. \A j : Own(p, j) = IF j \in DOMAIN f THEN {f[j]} ELSE {}
  BY <1>1 DEF Own, Methods!Own
<1>3. IsObject(p)
  BY <1>1 DEF IsObject, Parts, IsMap, IsMade
<1>. QED BY <1>1, <1>2, <1>3

(* The element at an index that is inherited, or none.                     *)
Below(i) == IF i \in DOMAIN Inherited THEN {Inherited[i]} ELSE {}

LEMMA ViewIs ==
  ASSUME NEW o, NEW i
  PROVE  /\ View(o, i) = IF Own(o, i) # {} THEN Own(o, i) ELSE Below(i)
         /\ Methods!Has(o, i) <=> View(o, i) # {}
         /\ Methods!Has(o, i) => View(o, i) = {Methods!Get(o, i)}
BY DEF View, Own, Below, Methods!View, Methods!Own, Methods!Has, Methods!Get

(* p is o with E as the element at i, if there is one in it.               *)
Sets(o, i, E, p) ==
  /\ IsObject(p) /\ p.array = o.array
  /\ Own(p, i) = E /\ \A j : j # i => Own(p, j) = Own(o, j)
  /\ p.length = IF o.array /\ E # {} /\ i >= o.length THEN i + 1 ELSE o.length

LEMMA PutSets ==
  ASSUME NEW o, IsObject(o), NEW i \in Nat, NEW v, NEW p, p = Methods!Put(o, i, v)
  PROVE  Sets(o, i, {v}, p)
<1>1. PICK a, f, n : Parts(o, a, f, n)
  BY ObjectParts
<1>2. PICK g : g = [j \in DOMAIN f \cup {i} |-> IF j = i THEN v ELSE f[j]]
  OBVIOUS
<1>3. PICK m \in Nat : m = IF a /\ i >= n THEN i + 1 ELSE n
  BY <1>1 DEF Parts
<1>4. IsMade(p, a, g, m)
  BY <1>1, <1>2, <1>3 DEF Methods!Put, Parts, IsMade
<1>5. /\ IsMap(g)
      /\ \A j : (IF j \in DOMAIN g THEN {g[j]} ELSE {}) =
                  IF j = i THEN {v} ELSE IF j \in DOMAIN f THEN {f[j]} ELSE {}
  BY <1>1, <1>2 DEF Parts, IsMap
<1>6. a => \A j \in DOMAIN g : j < m
  <2>1. \A j \in DOMAIN g : j \in Nat /\ (j = i \/ j \in DOMAIN f)
    BY <1>1, <1>2 DEF Parts, IsMap
  <2>. QED BY <1>1, <1>3, <2>1 DEF Parts
<1>7. Parts(p, a, g, m)
  BY <1>1, <1>4, <1>5, <1>6 DEF Parts
<1>8. /\ IsObject(p) /\ p.array = a /\ p.length = m
      /\ \A j : Own(p, j) = IF j \in DOMAIN g THEN {g[j]} ELSE {}
  BY <1>7, ObjectOf
<1>9. /\ o.array = a /\ o.length = n
      /\ \A j : Own(o, j) = IF j \in DOMAIN f THEN {f[j]} ELSE {}
  BY <1>1, ObjectOf
<1>. QED BY <1>3, <1>5, <1>8, <1>9 DEF Sets

LEMMA DeleteSets ==
  ASSUME NEW o, IsObject(o), NEW i, NEW p, p = Methods!Delete(o, i)
  PROVE  Sets(o, i, {}, p)
<1>1. PICK a, f, n : Parts(o, a, f, n)
  BY ObjectParts
<1>2. PICK g : g = [j \in DOMAIN f \ {i} |-> f[j]]
  OBVIOUS
<1>3. IsMade(p, a, g, n)
  BY <1>1, <1>2 DEF Methods!Delete, Methods!Restrict, Parts, IsMade
<1>4. /\ IsMap(g) /\ DOMAIN g \subseteq DOMAIN f
      /\ \A j : (IF j \in DOMAIN g THEN {g[j]} ELSE {}) =
                  IF j = i THEN {} ELSE IF j \in DOMAIN f THEN {f[j]} ELSE {}
  BY <1>1, <1>2 DEF Parts, IsMap
<1>5. Parts(p, a, g, n)
  BY <1>1, <1>3, <1>4 DEF Parts
<1>6. /\ IsObject(p) /\ p.array = a /\ p.length = n
      /\ \A j : Own(p, j) = IF j \in DOMAIN g THEN {g[j]} ELSE {}
  BY <1>5, ObjectOf
<1>7. /\ o.array = a /\ o.length = n
      /\ \A j : Own(o, j) = IF j \in DOMAIN f THEN {f[j]} ELSE {}
  BY <1>1, ObjectOf
<1>. QED BY <1>4, <1>6, <1>7 DEF Sets

LEMMA MoveSets ==
  ASSUME NEW o, IsObject(o), NEW from, NEW to \in Nat, NEW p, p = Methods!Move(o, from, to)
  PROVE  Sets(o, to, View(o, from), p)
<1>1. CASE Methods!Has(o, from)
  BY <1>1, PutSets, ViewIs DEF Methods!Move
<1>2. CASE ~Methods!Has(o, from)
  BY <1>2, DeleteSets, ViewIs DEF Methods!Move
<1>. QED BY <1>1, <1>2

LEMMA LengthPut ==
  ASSUME NEW o, IsObject(o), NEW m \in Nat, NEW p, p = Methods!PutLength(o, m)
  PROVE  /\ IsObject(p) /\ p.array = o.array /\ p.length = m
         /\ \A i \in Nat : Own(p, i) = IF o.array /\ i >= m THEN {} ELSE Own(o, i)
<1>1. PICK a, f, n : Parts(o, a, f, n)
  BY ObjectParts
<1>2. PICK g : g = IF a THEN [j \in {k \in DOMAIN f : k < m} |-> f[j]] ELSE f
  OBVIOUS
<1>3. IsMade(p, a, g, m)
  BY <1>1, <1>2 DEF Methods!PutLength, Methods!Restrict, Parts, IsMade
<1>4. /\ o.array = a /\ o.length = n
      /\ \A j : Own(o, j) = IF j \in DOMAIN f THEN {f[j]} ELSE {}
  BY <1>1, ObjectOf
<1>5. CASE a
  <2>1. g = [j \in {k \in DOMAIN f : k < m} |-> f[j]]
    BY <1>2, <1>5
  <2>2. /\ IsMap(g) /\ \A j \in DOMAIN g : j < m
        /\ \A j \in Nat : (IF j \in DOMAIN g THEN {g[j]} ELSE {}) =
                  IF j >= m THEN {} ELSE IF j \in DOMAIN f THEN {f[j]} ELSE {}
    BY <1>1, <2>1 DEF Parts, IsMap
  <2>3. Parts(p, a, g, m)
    BY <1>1, <1>3, <2>2 DEF Parts
  <2>4. /\ IsObject(p) /\ p.array = a /\ p.length = m
        /\ \A j : Own(p, j) = IF j \in DOMAIN g THEN {g[j]} ELSE {}
    BY <2>3, ObjectOf
  <2>. QED BY <1>4, <1>5, <2>2, <2>4
<1>6. CASE ~a
  <2>1. Parts(p, a, f, m)
    BY <1>1, <1>2, <1>3, <1>6 DEF Parts
  <2>2. /\ IsObject(p) /\ p.array = a /\ p.length = m
        /\ \A j : Own(p, j) = IF j \in DOMAIN f THEN {f[j]} ELSE {}
    BY <2>1, ObjectOf
  <2>. QED BY <1>4, <1>6, <2>2
<1>. QED BY <1>1, <1>5, <1>6 DEF Parts

LengthSet(o, m, p) ==
  /\ IsObject(p) /\ p.array = o.array /\ p.length = m
  /\ \A i \in Nat : Own(p, i) = IF o.array /\ i >= m THEN {} ELSE Own(o, i)

LEMMA LengthSets ==
  ASSUME NEW o, IsObject(o), NEW m \in Nat, NEW p, p = Methods!PutLength(o, m)
  PROVE  LengthSet(o, m, p)
BY LengthPut DEF LengthSet

-----------------------------------------------------------------------------
(* The loops.  What each is one step of, from what x was before the step n. *)
Step(loop_kind, x, n, a, b, c) ==
  CASE loop_kind = "put"    -> Methods!Put(x, a + n - 1, b[n])
    [] loop_kind = "delete" -> Methods!Delete(x, a + b - n)
    [] loop_kind = "down"   -> Methods!Move(x, a + b + n - 1, a + n - 1)
    [] loop_kind = "up"     -> Methods!Move(x, a + c - n, a + b + c - n)
    [] loop_kind = "swap"   -> Methods!Swap(x, n - 1, a - n)
    [] loop_kind = "copy"   -> IF Methods!Has(b, c + n - 1)
                               THEN Methods!Put(x, a + n - 1, Methods!Get(b, c + n - 1))
                               ELSE x
    [] loop_kind = "sort"   -> IF a[n] = None THEN Methods!Delete(x, n - 1)
                               ELSE Methods!Put(x, n - 1, a[n])
    [] loop_kind = "concat" -> Methods!Gather(x, a, b[n])
    [] loop_kind = "ends"   -> x + Methods!PartSize(a, b[n])

Looping(kind, o, m, a, b, c, f) ==
  f = [n \in 0 .. m |-> IF n = 0 THEN o ELSE Step(kind, f[n - 1], n, a, b, c)]

LEMMA LoopingExists ==
  ASSUME NEW kind, NEW o, NEW m \in Nat, NEW a, NEW b, NEW c
  PROVE  \E f : Looping(kind, o, m, a, b, c, f)
<1>. DEFINE S == {k \in 0 .. m : \E f : Looping(kind, o, k, a, b, c, f)}
<1>1. 0 \in S
  <2>. DEFINE f == [n \in 0 .. 0 |-> o]
  <2>1. f = [n \in 0 .. 0 |-> IF n = 0 THEN o ELSE Step(kind, f[n - 1], n, a, b, c)]
    <3>1. \A n \in 0 .. 0 : n = 0
      OBVIOUS
    <3>. QED BY <3>1
  <2>. HIDE DEF f
  <2>. QED BY <2>1 DEF Looping
<1>2. ASSUME NEW k \in 0 .. m - 1, k \in S PROVE k + 1 \in S
  <2>1. PICK f : f = [n \in 0 .. k |-> IF n = 0 THEN o ELSE Step(kind, f[n - 1], n, a, b, c)]
    BY <1>2 DEF Looping
  <2>. DEFINE g == [n \in 0 .. k + 1 |-> IF n = k + 1 THEN Step(kind, f[k], k + 1, a, b, c)
                                         ELSE f[n]]
  <2>2. \A n \in 0 .. k + 1 : /\ n # k + 1 => n \in 0 .. k
                              /\ n # 0 => n - 1 \in 0 .. k + 1 /\ n - 1 # k + 1 /\ n - 1 \in 0 .. k
                              /\ n = k + 1 => n # 0 /\ n - 1 = k
    OBVIOUS
  <2>3. \A n \in 0 .. k + 1 :
          (IF n = k + 1 THEN Step(kind, f[k], k + 1, a, b, c) ELSE f[n])
            = IF n = 0 THEN o ELSE Step(kind, g[n - 1], n, a, b, c)
    <3>1. ASSUME NEW n \in 0 .. k + 1, n # 0 PROVE g[n - 1] = f[n - 1]
      BY <2>2, <3>1
    <3>. HIDE DEF g
    <3>2. ASSUME NEW n \in 0 .. k
          PROVE  f[n] = IF n = 0 THEN o ELSE Step(kind, f[n - 1], n, a, b, c)
      BY <2>1, <3>2
    <3>. QED BY <2>2, <3>1, <3>2
  <2>4. g = [n \in 0 .. k + 1 |-> IF n = 0 THEN o ELSE Step(kind, g[n - 1], n, a, b, c)]
    BY <2>3
  <2>5. k + 1 \in 0 .. m
    OBVIOUS
  <2>. HIDE DEF g
  <2>. QED BY <2>4, <2>5 DEF Looping
<1>. HIDE DEF S
<1>3. \A k \in 0 .. m : k \in S
  BY <1>1, <1>2, UpInduction
<1>4. m \in 0 .. m
  OBVIOUS
<1>. QED BY <1>3, <1>4 DEF S

LEMMA LoopingSteps ==
  ASSUME NEW kind, NEW o, NEW m \in Nat, NEW a, NEW b, NEW c, NEW f,
         Looping(kind, o, m, a, b, c, f)
  PROVE  /\ f[0] = o
         /\ \A n \in 1 .. m : f[n] = Step(kind, f[n - 1], n, a, b, c)
<1>1. \A n \in 0 .. m : f[n] = IF n = 0 THEN o ELSE Step(kind, f[n - 1], n, a, b, c)
  BY Zenon DEF Looping
<1>2. 0 \in 0 .. m /\ \A n \in 1 .. m : n \in 0 .. m /\ n # 0
  OBVIOUS
<1>. QED BY <1>1, <1>2

(* p is o with F[i] as the element at each i of the m from first on.       *)
Inside(first, i, m) == first <= i /\ i < first + m
Spread(o, p, first, m, F) ==
  /\ IsObject(p) /\ p.array = o.array
  /\ \A i \in Nat : Own(p, i) = IF Inside(first, i, m) THEN F[i] ELSE Own(o, i)
  /\ p.length >= o.length /\ (~o.array => p.length = o.length)
  /\ \A b \in Nat : o.length <= b /\ (\A i \in Nat : Inside(first, i, m) => F[i] = {} \/ i < b)
                     => p.length <= b

LEMMA SpreadNone ==
  ASSUME NEW o, IsObject(o), NEW first \in Nat, NEW F
  PROVE  Spread(o, o, first, 0, F)
<1>1. \A i \in Nat : ~Inside(first, i, 0)
  BY DEF Inside
<1>2. o.length \in Nat
  BY DEF IsObject
<1>. QED BY <1>1, <1>2 DEF Spread

LEMMA SpreadNext ==
  ASSUME NEW o, IsObject(o), NEW p, NEW first \in Nat, NEW m \in Nat, NEW F,
         Spread(o, p, first, m, F), NEW i \in Nat, NEW q, Sets(p, i, F[i], q),
         NEW start \in Nat,
         \A j \in Nat : Inside(start, j, m + 1) <=> j = i \/ Inside(first, j, m)
  PROVE  Spread(o, q, start, m + 1, F)
<1>1. /\ IsObject(q) /\ q.array = o.array /\ Own(q, i) = F[i]
      /\ \A j : j # i => Own(q, j) = Own(p, j)
      /\ q.length = IF o.array /\ F[i] # {} /\ i >= p.length THEN i + 1 ELSE p.length
  BY DEF Sets, Spread
<1>2. ASSUME NEW j \in Nat
      PROVE  Own(q, j) = IF Inside(start, j, m + 1) THEN F[j] ELSE Own(o, j)
  BY <1>1 DEF Spread
<1>3. p.length \in Nat /\ o.length \in Nat /\ p.length >= o.length
  BY DEF IsObject, Spread
<1>4. q.length >= o.length /\ (~o.array => q.length = o.length)
  BY <1>1, <1>3 DEF Spread
<1>5. ASSUME NEW b \in Nat, o.length <= b,
             \A j \in Nat : Inside(start, j, m + 1) => F[j] = {} \/ j < b
      PROVE  q.length <= b
  <2>1. p.length <= b
    BY <1>5 DEF Spread
  <2>2. F[i] = {} \/ i < b
    BY <1>5
  <2>. QED BY <1>1, <1>3, <2>1, <2>2
<1>. QED BY <1>1, <1>2, <1>4, <1>5 DEF Spread

(* Loops that write one element after the other, upwards and downwards.    *)
LEMMA Ascending ==
  ASSUME NEW o, IsObject(o), NEW m \in Nat, NEW f, f[0] = o, NEW first \in Nat, NEW F,
         \A n \in 1 .. m : Spread(o, f[n - 1], first, n - 1, F) =>
                            Sets(f[n - 1], first + n - 1, F[first + n - 1], f[n])
  PROVE  Spread(o, f[m], first, m, F)
<1>. DEFINE S == {n \in 0 .. m : Spread(o, f[n], first, n, F)}
<1>1. 0 \in S
  BY SpreadNone
<1>2. ASSUME NEW n \in 0 .. m - 1, n \in S PROVE n + 1 \in S
  <2>1. /\ n \in Nat /\ n + 1 \in 1 .. m /\ (n + 1) - 1 = n /\ n + 1 \in 0 .. m
        /\ first + (n + 1) - 1 = first + n /\ first + n \in Nat
    OBVIOUS
  <2>2. Spread(o, f[n], first, n, F)
    BY <1>2
  <2>. HIDE DEF S
  <2>3. PICK i \in Nat : i = first + n
    OBVIOUS
  <2>4. Sets(f[n], i, F[i], f[n + 1])
    BY <2>1, <2>2, <2>3
  <2>5. \A j \in Nat : Inside(first, j, n + 1) <=> j = i \/ Inside(first, j, n)
    BY <2>1, <2>3 DEF Inside
  <2>6. Spread(o, f[n + 1], first, n + 1, F)
    BY <2>1, <2>2, <2>4, <2>5, SpreadNext
  <2>. QED BY <2>1, <2>6 DEF S
<1>. HIDE DEF S
<1>3. \A n \in 0 .. m : n \in S
  BY <1>1, <1>2, UpInduction
<1>4. m \in 0 .. m
  OBVIOUS
<1>. QED BY <1>3, <1>4 DEF S

LEMMA Descending ==
  ASSUME NEW o, IsObject(o), NEW m \in Nat, NEW f, f[0] = o, NEW first \in Nat, NEW F,
         \A n \in 1 .. m : Spread(o, f[n - 1], first + m - n + 1, n - 1, F) =>
                            Sets(f[n - 1], first + m - n, F[first + m - n], f[n])
  PROVE  Spread(o, f[m], first, m, F)
<1>. DEFINE S == {n \in 0 .. m : Spread(o, f[n], first + m - n, n, F)}
<1>1. 0 \in S
  <2>1. first + m - 0 \in Nat
    OBVIOUS
  <2>. QED BY <2>1, SpreadNone
<1>2. ASSUME NEW n \in 0 .. m - 1, n \in S PROVE n + 1 \in S
  <2>1. /\ n \in Nat /\ n + 1 \in 1 .. m /\ (n + 1) - 1 = n /\ n + 1 \in 0 .. m
        /\ first + m - (n + 1) + 1 = first + m - n /\ first + m - (n + 1) \in Nat
        /\ first + m - n \in Nat /\ first + m - n = (first + m - (n + 1)) + 1
    OBVIOUS
  <2>2. Spread(o, f[n], first + m - n, n, F)
    BY <1>2
  <2>. HIDE DEF S
  <2>3. PICK i \in Nat : i = first + m - (n + 1)
    BY <2>1
  <2>4. Sets(f[n], i, F[i], f[n + 1])
    BY <2>1, <2>2, <2>3
  <2>5. PICK k \in Nat : k = first + m - n /\ k = i + 1
    BY <2>1, <2>3
  <2>6. \A j \in Nat : Inside(i, j, n + 1) <=> j = i \/ Inside(k, j, n)
    BY <2>1, <2>5 DEF Inside
  <2>7. Spread(o, f[n + 1], i, n + 1, F)
    BY <2>1, <2>2, <2>4, <2>5, <2>6, SpreadNext
  <2>. QED BY <2>1, <2>3, <2>7 DEF S
<1>. HIDE DEF S
<1>3. \A n \in 0 .. m : n \in S
  BY <1>1, <1>2, UpInduction
<1>4. m \in 0 .. m /\ first + m - m = first
  OBVIOUS
<1>. QED BY <1>3, <1>4 DEF S

-----------------------------------------------------------------------------
(* What the loops leave.                                                   *)
LEMMA StepIs ==
  \A x, n, a, b, c :
    /\ Step("put", x, n, a, b, c) = Methods!Put(x, a + n - 1, b[n])
    /\ Step("delete", x, n, a, b, c) = Methods!Delete(x, a + b - n)
    /\ Step("down", x, n, a, b, c) = Methods!Move(x, a + b + n - 1, a + n - 1)
    /\ Step("up", x, n, a, b, c) = Methods!Move(x, a + c - n, a + b + c - n)
    /\ Step("swap", x, n, a, b, c) = Methods!Swap(x, n - 1, a - n)
    /\ Step("copy", x, n, a, b, c) =
         IF Methods!Has(b, c + n - 1)
         THEN Methods!Put(x, a + n - 1, Methods!Get(b, c + n - 1)) ELSE x
    /\ Step("sort", x, n, a, b, c) =
         IF a[n] = None THEN Methods!Delete(x, n - 1) ELSE Methods!Put(x, n - 1, a[n])
    /\ Step("concat", x, n, a, b, c) = Methods!Gather(x, a, b[n])
    /\ Step("ends", x, n, a, b, c) = x + Methods!PartSize(a, b[n])
BY DEF Step

LEMMA LoopingStart ==
  ASSUME NEW kind, NEW o, NEW m \in Nat, NEW a, NEW b, NEW c, NEW f, Looping(kind, o, m, a, b, c, f)
  PROVE  f[0] = o
BY LoopingSteps

LEMMA LoopingStep ==
  ASSUME NEW kind, NEW o, NEW m \in Nat, NEW a, NEW b, NEW c, NEW f,
         Looping(kind, o, m, a, b, c, f), NEW n \in 1 .. m
  PROVE  f[n] = Step(kind, f[n - 1], n, a, b, c)
BY LoopingSteps

LEMMA PutAllSpreads ==
  ASSUME NEW o, IsObject(o), NEW at \in Nat, NEW items, Len(items) \in Nat,
         NEW p, p = Methods!PutAll(o, at, items)
  PROVE  \E F : /\ \A n \in 1 .. Len(items) : F[at + n - 1] = {items[n]}
               /\ Spread(o, p, at, Len(items), F)
<1>1. PICK m \in Nat : m = Len(items)
  OBVIOUS
<1>2. PICK f : f = CHOOSE g : Looping("put", o, m, at, items, 0, g)
  OBVIOUS
<1>3. Looping("put", o, m, at, items, 0, f)
  BY <1>2, LoopingExists
<1>4. p = f[m]
  BY <1>1, <1>2 DEF Methods!PutAll, Looping, Step
<1>5. f[0] = o /\ \A n \in 1 .. m : f[n] = Methods!Put(f[n - 1], at + n - 1, items[n])
  <2>1. f[0] = o
    BY <1>3, LoopingSteps
  <2>2. ASSUME NEW n \in 1 .. m PROVE f[n] = Step("put", f[n - 1], n, at, items, 0)
    BY <1>3, LoopingStep
  <2>. QED BY <2>1, <2>2, StepIs
<1>6. PICK F : F = [i \in at .. at + m - 1 |-> {items[i - at + 1]}]
  OBVIOUS
<1>7. ASSUME NEW n \in 1 .. m PROVE F[at + n - 1] = {items[n]} /\ at + n - 1 \in Nat
  BY <1>6
<1>8. ASSUME NEW n \in 1 .. m, Spread(o, f[n - 1], at, n - 1, F)
      PROVE  Sets(f[n - 1], at + n - 1, F[at + n - 1], f[n])
  BY <1>5, <1>7, <1>8, PutSets DEF Spread
<1>9. Spread(o, f[m], at, m, F)
  BY <1>5, <1>8, Ascending
<1>. QED BY <1>1, <1>4, <1>7, <1>9

LEMMA DeleteAllSpreads ==
  ASSUME NEW o, IsObject(o), NEW at \in Nat, NEW m \in Nat,
         NEW p, p = Methods!DeleteAll(o, at, m)
  PROVE  \E F : (\A i \in Nat : Inside(at, i, m) => F[i] = {}) /\ Spread(o, p, at, m, F)
<1>2. PICK f : f = CHOOSE g : Looping("delete", o, m, at, m, 0, g)
  OBVIOUS
<1>3. Looping("delete", o, m, at, m, 0, f)
  BY <1>2, LoopingExists
<1>4. p = f[m]
  BY <1>2 DEF Methods!DeleteAll, Looping, Step
<1>5. f[0] = o /\ \A n \in 1 .. m : f[n] = Methods!Delete(f[n - 1], at + m - n)
  <2>1. f[0] = o
    BY <1>3, LoopingSteps
  <2>2. ASSUME NEW n \in 1 .. m PROVE f[n] = Step("delete", f[n - 1], n, at, m, 0)
    BY <1>3, LoopingStep
  <2>. QED BY <2>1, <2>2, StepIs
<1>6. PICK F : F = [i \in at .. at + m - 1 |-> {}]
  OBVIOUS
<1>7. \A i \in Nat : Inside(at, i, m) => F[i] = {}
  BY <1>6 DEF Inside
<1>8. ASSUME NEW n \in 1 .. m, Spread(o, f[n - 1], at + m - n + 1, n - 1, F)
      PROVE  Sets(f[n - 1], at + m - n, F[at + m - n], f[n])
  <2>1. at + m - n \in Nat /\ Inside(at, at + m - n, m)
    BY DEF Inside
  <2>2. F[at + m - n] = {}
    BY <1>7, <2>1
  <2>. QED BY <1>5, <1>8, <2>1, <2>2, DeleteSets DEF Spread
<1>9. Spread(o, f[m], at, m, F)
  BY <1>5, <1>8, Descending
<1>. QED BY <1>4, <1>7, <1>9
LEMMA ViewSame ==
  ASSUME NEW o, NEW p, NEW i, Own(p, i) = Own(o, i)
  PROVE  View(p, i) = View(o, i)
BY ViewIs

LEMMA MoveDownSpreads ==
  ASSUME NEW o, IsObject(o), NEW at \in Nat, NEW m \in Nat, NEW by \in Nat,
         NEW p, p = Methods!MoveDown(o, at, m, by)
  PROVE  \E F : /\ \A i \in Nat : Inside(at, i, m) => F[i] = View(o, i + by)
               /\ Spread(o, p, at, m, F)
<1>2. PICK f : f = CHOOSE g : Looping("down", o, m, at, by, 0, g)
  OBVIOUS
<1>3. Looping("down", o, m, at, by, 0, f)
  BY <1>2, LoopingExists
<1>4. p = f[m]
  BY <1>2 DEF Methods!MoveDown, Looping, Step
<1>5. f[0] = o /\ \A n \in 1 .. m : f[n] = Methods!Move(f[n - 1], at + by + n - 1, at + n - 1)
  <2>1. f[0] = o
    BY <1>3, LoopingSteps
  <2>2. ASSUME NEW n \in 1 .. m PROVE f[n] = Step("down", f[n - 1], n, at, by, 0)
    BY <1>3, LoopingStep
  <2>. QED BY <2>1, <2>2, StepIs
<1>6. PICK F : F = [i \in Nat |-> View(o, i + by)]
  OBVIOUS
<1>7. \A i \in Nat : F[i] = View(o, i + by)
  BY <1>6
<1>8. ASSUME NEW n \in 1 .. m, Spread(o, f[n - 1], at, n - 1, F)
      PROVE  Sets(f[n - 1], at + n - 1, F[at + n - 1], f[n])
  <2>1. PICK to \in Nat, from \in Nat : to = at + n - 1 /\ from = at + by + n - 1 /\ from = to + by
    OBVIOUS
  <2>2. ~Inside(at, from, n - 1)
    BY <2>1 DEF Inside
  <2>3. Own(f[n - 1], from) = Own(o, from)
    BY <1>8, <2>2 DEF Spread
  <2>4. View(f[n - 1], from) = F[to]
    BY <1>7, <2>1, <2>3, ViewSame
  <2>5. f[n] = Methods!Move(f[n - 1], from, to) /\ IsObject(f[n - 1])
    BY <1>5, <1>8, <2>1 DEF Spread
  <2>6. Sets(f[n - 1], to, F[to], f[n])
    BY <2>4, <2>5, MoveSets
  <2>. QED BY <2>1, <2>6
<1>9. Spread(o, f[m], at, m, F)
  BY <1>5, <1>8, Ascending
<1>. QED BY <1>4, <1>7, <1>9

LEMMA MoveUpSpreads ==
  ASSUME NEW o, IsObject(o), NEW at \in Nat, NEW m \in Nat, NEW by \in Nat,
         NEW p, p = Methods!MoveUp(o, at, m, by)
  PROVE  \E F : /\ \A i \in Nat : Inside(at + by, i, m) => F[i] = View(o, i - by)
               /\ Spread(o, p, at + by, m, F)
<1>2. PICK f : f = CHOOSE g : Looping("up", o, m, at, by, m, g)
  OBVIOUS
<1>3. Looping("up", o, m, at, by, m, f)
  BY <1>2, LoopingExists
<1>4. p = f[m]
  BY <1>2 DEF Methods!MoveUp, Looping, Step
<1>5. f[0] = o /\ \A n \in 1 .. m : f[n] = Methods!Move(f[n - 1], at + m - n, at + by + m - n)
  <2>1. f[0] = o
    BY <1>3, LoopingSteps
  <2>2. ASSUME NEW n \in 1 .. m PROVE f[n] = Step("up", f[n - 1], n, at, by, m)
    BY <1>3, LoopingStep
  <2>. QED BY <2>1, <2>2, StepIs
<1>6. PICK F : F = [i \in Nat |-> View(o, i - by)]
  OBVIOUS
<1>7. \A i \in Nat : F[i] = View(o, i - by)
  BY <1>6
<1>10. PICK first \in Nat : first = at + by
  OBVIOUS
<1>8. ASSUME NEW n \in 1 .. m, Spread(o, f[n - 1], first + m - n + 1, n - 1, F)
      PROVE  Sets(f[n - 1], first + m - n, F[first + m - n], f[n])
  <2>1. PICK to \in Nat, from \in Nat :
          /\ to = first + m - n /\ from = at + m - n /\ from = to - by
          /\ to = at + by + m - n
    BY <1>10
  <2>2. ~Inside(first + m - n + 1, from, n - 1)
    BY <1>10, <2>1 DEF Inside
  <2>3. Own(f[n - 1], from) = Own(o, from)
    BY <1>8, <2>2 DEF Spread
  <2>4. View(f[n - 1], from) = F[to]
    BY <1>7, <2>1, <2>3, ViewSame
  <2>5. f[n] = Methods!Move(f[n - 1], from, to) /\ IsObject(f[n - 1])
    BY <1>5, <1>8, <2>1 DEF Spread
  <2>6. Sets(f[n - 1], to, F[to], f[n])
    BY <2>4, <2>5, MoveSets
  <2>. QED BY <2>1, <2>6
<1>9. Spread(o, f[m], first, m, F)
  BY <1>5, <1>8, Descending
<1>. QED BY <1>4, <1>7, <1>9, <1>10

(* A copy puts elements where the other object shows some.                  *)
Bare(part, index) == \A i \in Nat : i >= index => Own(part, i) = {}
CopiesFrom(part, p, index, m, o, from) ==
  \E F : /\ \A i \in Nat : Inside(index, i, m) => F[i] = View(o, from + (i - index))
        /\ Spread(part, p, index, m, F)

LEMMA CopyToSpreads ==
  ASSUME NEW part, IsObject(part), NEW index \in Nat, NEW o, NEW from \in Nat, NEW m \in Nat,
         Bare(part, index), NEW p, p = Methods!CopyTo(part, index, o, from, m)
  PROVE  CopiesFrom(part, p, index, m, o, from)
<1>2. PICK f : f = CHOOSE g : Looping("copy", part, m, index, o, from, g)
  OBVIOUS
<1>3. Looping("copy", part, m, index, o, from, f)
  BY <1>2, LoopingExists
<1>4. p = f[m]
  BY <1>2 DEF Methods!CopyTo, Looping, Step
<1>5. /\ f[0] = part
      /\ \A n \in 1 .. m : f[n] = IF Methods!Has(o, from + n - 1)
                                  THEN Methods!Put(f[n - 1], index + n - 1, Methods!Get(o, from + n - 1))
                                  ELSE f[n - 1]
  <2>1. f[0] = part
    BY <1>3, LoopingSteps
  <2>2. ASSUME NEW n \in 1 .. m PROVE f[n] = Step("copy", f[n - 1], n, index, o, from)
    BY <1>3, LoopingStep
  <2>. QED BY <2>1, <2>2, StepIs
<1>6. PICK F : F = [i \in Nat |-> View(o, from + (i - index))]
  OBVIOUS
<1>7. \A i \in Nat : F[i] = View(o, from + (i - index))
  BY <1>6
<1>8. ASSUME NEW n \in 1 .. m, Spread(part, f[n - 1], index, n - 1, F)
      PROVE  Sets(f[n - 1], index + n - 1, F[index + n - 1], f[n])
  <2>1. PICK to \in Nat, at \in Nat : to = index + n - 1 /\ at = from + n - 1 /\ at = from + (to - index)
    OBVIOUS
  <2>2. F[to] = View(o, at) /\ IsObject(f[n - 1])
    BY <1>7, <1>8, <2>1 DEF Spread
  <2>3. CASE Methods!Has(o, at)
    <3>1. f[n] = Methods!Put(f[n - 1], to, Methods!Get(o, at))
      BY <1>5, <2>1, <2>3
    <3>2. F[to] = {Methods!Get(o, at)}
      BY <2>2, <2>3, ViewIs
    <3>3. Sets(f[n - 1], to, F[to], f[n])
      BY <2>2, <3>1, <3>2, PutSets
    <3>. QED BY <2>1, <3>3
  <2>4. CASE ~Methods!Has(o, at)
    <3>1. f[n] = f[n - 1]
      BY <1>5, <2>1, <2>4
    <3>2. F[to] = {}
      BY <2>2, <2>4, ViewIs
    <3>3. ~Inside(index, to, n - 1) /\ to >= index
      BY <2>1 DEF Inside
    <3>4. Own(f[n - 1], to) = {}
      BY <1>8, <3>3 DEF Spread, Bare
    <3>5. Sets(f[n - 1], to, F[to], f[n])
      BY <2>2, <3>1, <3>2, <3>4 DEF Sets
    <3>. QED BY <2>1, <3>5
  <2>. QED BY <2>3, <2>4
<1>9. Spread(part, f[m], index, m, F)
  BY <1>5, <1>8, Ascending
<1>. QED BY <1>4, <1>7, <1>9 DEF CopiesFrom

\* Values are numbers, undefined is none of them and no element is None.
LibraryConstants ==
  /\ MaxLength \in Nat /\ Values \subseteq Int
  /\ Undefined \notin Values /\ None \notin Values \cup {Undefined}
  /\ \A i \in DOMAIN Inherited : Inherited[i] \in Values \cup {Undefined}

LEMMA Lengths ==
  ASSUME NEW o, IsObject(o)
  PROVE  o.length \in Nat /\ o.array \in BOOLEAN
BY DEF IsObject

LEMMA NoneBeyond ==
  ASSUME NEW o, IsObject(o), o.array, NEW i \in Nat, i >= o.length
  PROVE  Own(o, i) = {}
<1>1. PICK a, f, n : Parts(o, a, f, n)
  BY ObjectParts
<1>2. o.array = a /\ o.length = n /\ \A j : Own(o, j) = IF j \in DOMAIN f THEN {f[j]} ELSE {}
  BY <1>1, ObjectOf
<1>3. i \notin DOMAIN f
  BY <1>1, <1>2 DEF Parts
<1>. QED BY <1>2, <1>3

LEMMA PutLengthSame ==
  ASSUME NEW o, IsObject(o), NEW p, p = Methods!PutLength(o, o.length)
  PROVE  p = o
<1>1. PICK a, f, n : Parts(o, a, f, n)
  BY ObjectParts
<1>2. IsMade(o, a, f, n)
  BY <1>1 DEF Parts
<1>3. o.array = a /\ o.own = f /\ o.length = n
  BY <1>2 DEF IsMade
<1>4. PICK g : g = IF a THEN [j \in {k \in DOMAIN f : k < n} |-> f[j]] ELSE f
  OBVIOUS
<1>5. IsMade(p, a, g, n)
  BY <1>2, <1>3, <1>4 DEF Methods!PutLength, Methods!Restrict, IsMade
<1>6. g = f
  <2>1. CASE a
    <3>1. {k \in DOMAIN f : k < n} = DOMAIN f
      BY <1>1, <2>1 DEF Parts
    <3>2. f = [i \in DOMAIN f |-> f[i]]
      BY <1>1 DEF Parts, IsMap
    <3>. QED BY <1>4, <2>1, <3>1, <3>2
  <2>2. CASE ~a
    BY <1>4, <2>2
  <2>. QED BY <2>1, <2>2
<1>. QED BY <1>2, <1>5, <1>6 DEF IsMade

LEMMA TwoInts ==
  ASSUME NEW a \in Int, NEW b \in Int
  PROVE  /\ Methods!Max({a, b}) = IF a >= b THEN a ELSE b
         /\ Methods!Min({a, b}) = IF a <= b THEN a ELSE b
<1>1. Methods!Max({a, b}) \in {a, b} /\ \A y \in {a, b} : Methods!Max({a, b}) >= y
  <2>1. \E x \in {a, b} : \A y \in {a, b} : x >= y
    OBVIOUS
  <2>2. PICK m : m = CHOOSE x \in {a, b} : \A y \in {a, b} : x >= y
    OBVIOUS
  <2>3. m \in {a, b} /\ \A y \in {a, b} : m >= y
    BY <2>1, <2>2
  <2>4. Methods!Max({a, b}) = m
    BY <2>2 DEF Methods!Max
  <2>. QED BY <2>3, <2>4
<1>2. Methods!Min({a, b}) \in {a, b} /\ \A y \in {a, b} : Methods!Min({a, b}) <= y
  <2>1. \E x \in {a, b} : \A y \in {a, b} : x <= y
    OBVIOUS
  <2>2. PICK m : m = CHOOSE x \in {a, b} : \A y \in {a, b} : x <= y
    OBVIOUS
  <2>3. m \in {a, b} /\ \A y \in {a, b} : m <= y
    BY <2>1, <2>2
  <2>4. Methods!Min({a, b}) = m
    BY <2>2 DEF Methods!Min
  <2>. QED BY <2>3, <2>4
<1>. QED BY <1>1, <1>2

LEMMA PlacesAre ==
  ASSUME MaxLength \in Nat, NEW i \in Methods!Places
  PROVE  i \in Nat
BY DEF Methods!Places

(* The last thing a method does: the length, which the writes have not passed. *)
Trimmed(o, q, p, m) ==
  /\ IsObject(p) /\ p.length = m
  /\ \A i \in Nat : (i < m \/ ~o.array \/ Own(q, i) = {}) => Own(p, i) = Own(q, i)
  /\ \A i \in Nat : o.array /\ i >= o.length => Own(o, i) = {}

LEMMA LengthLast ==
  ASSUME NEW o, IsObject(o), NEW q, IsObject(q), q.array = o.array, NEW m \in Nat,
         NEW p, p = Methods!PutLength(q, m)
  PROVE  Trimmed(o, q, p, m)
<1>1. o.array \in BOOLEAN /\ o.length \in Nat
  BY Lengths
<1>2. /\ IsObject(p) /\ p.array = o.array /\ p.length = m
      /\ \A i \in Nat : Own(p, i) = IF o.array /\ i >= m THEN {} ELSE Own(q, i)
  BY LengthPut
<1>3. \A i \in Nat : o.array /\ i >= o.length => Own(o, i) = {}
  BY NoneBeyond
<1>4. ASSUME NEW i \in Nat, i < m \/ ~o.array \/ Own(q, i) = {}
      PROVE  Own(p, i) = Own(q, i)
  BY <1>1, <1>2, <1>4
<1>. QED BY <1>2, <1>3, <1>4 DEF Trimmed

-----------------------------------------------------------------------------
(* pop, push, shift and unshift                                            *)
LEMMA PopMeets ==
  ASSUME MaxLength \in Nat, NEW o, IsObject(o), NEW r, r = Methods!Popped(o)
  PROVE  Methods!PopPromise(o, r[1], r[2]) /\ IsObject(r[1])
<1>0. o.length \in Nat /\ o.array \in BOOLEAN
  BY Lengths
<1>1. CASE o.length = 0
  <2>1. r[1] = Methods!PutLength(o, o.length) /\ r[2] = Undefined
    BY <1>1 DEF Methods!Popped
  <2>2. r[1] = o
    BY <2>1, PutLengthSame
  <2>. QED BY <1>1, <2>1, <2>2 DEF Methods!PopPromise
<1>2. CASE o.length # 0
  <2>1. PICK n \in Nat : n = o.length - 1 /\ n + 1 = o.length
    BY <1>0, <1>2
  <2>2. PICK q, p : q = Methods!Delete(o, n) /\ p = Methods!PutLength(q, n)
    OBVIOUS
  <2>3. r[1] = p /\ r[2] = Methods!Get(o, o.length - 1)
    BY <1>2, <2>1, <2>2 DEF Methods!Popped
  <2>4. Sets(o, n, {}, q)
    BY <2>2, DeleteSets
  <2>5. /\ IsObject(q) /\ q.array = o.array
        /\ Own(q, n) = {} /\ \A j : j # n => Own(q, j) = Own(o, j)
    BY <2>4 DEF Sets
  <2>6. /\ IsObject(p) /\ p.length = n
        /\ \A i \in Nat : (i < n \/ ~o.array \/ Own(q, i) = {}) => Own(p, i) = Own(q, i)
        /\ \A i \in Nat : o.array /\ i >= o.length => Own(o, i) = {}
    <3>1. Trimmed(o, q, p, n)
      BY <2>2, <2>5, LengthLast
    <3>. QED BY <3>1 DEF Trimmed
  <2>7. Methods!Max({o.length - 1, 0}) = n
    <3>1. Methods!Max({n, 0}) = n
      BY TwoInts
    <3>. QED BY <2>1, <3>1
  <2>8. ASSUME NEW i \in Nat
        PROVE  Own(p, i) = IF i = n THEN {} ELSE Own(o, i)
    <3>1. CASE i < n
      BY <2>5, <2>6, <3>1
    <3>2. CASE i = n
      BY <2>5, <2>6, <3>2
    <3>3. CASE i > n
      <4>1. i >= o.length
        BY <2>1, <3>3
      <4>. QED BY <1>0, <2>5, <2>6, <3>3, <4>1
    <3>. QED BY <3>1, <3>2, <3>3
  <2>9. \A i \in Methods!Places : Methods!Own(p, i) = IF i = n THEN {} ELSE Methods!Own(o, i)
    BY <2>8, PlacesAre DEF Own
  <2>. QED BY <1>2, <2>3, <2>6, <2>7, <2>9 DEF Methods!PopPromise, Methods!Left
<1>. QED BY <1>1, <1>2

LEMMA PushMeets ==
  ASSUME MaxLength \in Nat, NEW o, IsObject(o), NEW items, Len(items) \in Nat,
         NEW r, r = Methods!Pushed(o, items)
  PROVE  Methods!PushPromise(o, r[1], items, r[2]) /\ IsObject(r[1])
<1>0. o.length \in Nat
  BY Lengths
<1>1. PICK n \in Nat, len \in Nat, m \in Nat :
        n = o.length /\ m = Len(items) /\ len = o.length + Len(items) /\ len = n + m
  BY <1>0
<1>2. PICK q, p : q = Methods!PutAll(o, n, items) /\ p = Methods!PutLength(q, len)
  OBVIOUS
<1>3. r[1] = p /\ r[2] = o.length + Len(items)
  BY <1>1, <1>2 DEF Methods!Pushed
<1>4. PICK F : (\A k \in 1 .. m : F[n + k - 1] = {items[k]}) /\ Spread(o, q, n, m, F)
  BY <1>1, <1>2, PutAllSpreads
<1>5. /\ IsObject(q) /\ q.array = o.array
      /\ \A i \in Nat : Own(q, i) = IF Inside(n, i, m) THEN F[i] ELSE Own(o, i)
  BY <1>4 DEF Spread
<1>6. /\ IsObject(p) /\ p.length = len
      /\ \A i \in Nat : (i < len \/ ~o.array \/ Own(q, i) = {}) => Own(p, i) = Own(q, i)
      /\ \A i \in Nat : o.array /\ i >= o.length => Own(o, i) = {}
  <2>1. Trimmed(o, q, p, len)
    BY <1>2, <1>5, LengthLast
  <2>. QED BY <2>1 DEF Trimmed
<1>7. ASSUME NEW i \in Nat
      PROVE  Own(p, i) = IF Methods!InRange(o.length, i, o.length + Len(items))
                         THEN {items[i - o.length + 1]} ELSE Own(o, i)
  <2>1. Inside(n, i, m) <=> Methods!InRange(o.length, i, o.length + Len(items))
    BY <1>1 DEF Inside, Methods!InRange
  <2>2. CASE Inside(n, i, m)
    <3>1. i - n + 1 \in 1 .. m /\ n + (i - n + 1) - 1 = i /\ i < len
      BY <1>1, <2>2 DEF Inside
    <3>2. F[i] = {items[i - n + 1]}
      BY <1>4, <3>1
    <3>. QED BY <1>1, <1>5, <1>6, <2>1, <2>2, <3>1, <3>2
  <2>3. CASE ~Inside(n, i, m)
    <3>1. Own(q, i) = Own(o, i)
      BY <1>5, <2>3
    <3>2. i < len \/ i >= o.length
      BY <1>1
    <3>3. i < len \/ ~o.array \/ Own(q, i) = {}
      BY <1>6, <3>1, <3>2, Lengths
    <3>. QED BY <1>6, <2>1, <2>3, <3>1, <3>3
  <2>. QED BY <2>2, <2>3
<1>8. \A i \in Methods!Places :
        Methods!Own(p, i) = IF Methods!InRange(o.length, i, o.length + Len(items))
                            THEN {items[i - o.length + 1]} ELSE Methods!Own(o, i)
  BY <1>7, PlacesAre DEF Own
<1>. QED BY <1>1, <1>3, <1>6, <1>8 DEF Methods!PushPromise, Methods!Left

LEMMA ShiftMeets ==
  ASSUME MaxLength \in Nat, NEW o, IsObject(o), NEW r, r = Methods!Shifted(o)
  PROVE  Methods!ShiftPromise(o, r[1], r[2]) /\ IsObject(r[1])
<1>0. o.length \in Nat /\ o.array \in BOOLEAN
  BY Lengths
<1>1. CASE o.length = 0
  <2>1. r[1] = Methods!PutLength(o, o.length) /\ r[2] = Undefined
    BY <1>1 DEF Methods!Shifted
  <2>2. r[1] = o
    BY <2>1, PutLengthSame
  <2>. QED BY <1>1, <2>1, <2>2 DEF Methods!ShiftPromise
<1>2. CASE o.length # 0
  <2>1. PICK n \in Nat : n = o.length - 1 /\ n + 1 = o.length
    BY <1>0, <1>2
  <2>2. PICK d, q, p : /\ d = Methods!MoveDown(o, 0, n, 1)
                       /\ q = Methods!Delete(d, n) /\ p = Methods!PutLength(q, n)
    OBVIOUS
  <2>3. r[1] = p /\ r[2] = Methods!Get(o, 0)
    BY <1>2, <2>1, <2>2 DEF Methods!Shifted
  <2>4. PICK F : /\ \A i \in Nat : Inside(0, i, n) => F[i] = View(o, i + 1)
                 /\ Spread(o, d, 0, n, F)
    BY <2>2, MoveDownSpreads
  <2>5. /\ IsObject(d) /\ d.array = o.array
        /\ \A i \in Nat : Own(d, i) = IF Inside(0, i, n) THEN F[i] ELSE Own(o, i)
    BY <2>4 DEF Spread
  <2>6. Sets(d, n, {}, q)
    BY <2>2, <2>5, DeleteSets
  <2>7. /\ IsObject(q) /\ q.array = o.array
        /\ Own(q, n) = {} /\ \A j : j # n => Own(q, j) = Own(d, j)
    BY <2>5, <2>6 DEF Sets
  <2>8. /\ IsObject(p) /\ p.length = n
        /\ \A i \in Nat : (i < n \/ ~o.array \/ Own(q, i) = {}) => Own(p, i) = Own(q, i)
        /\ \A i \in Nat : o.array /\ i >= o.length => Own(o, i) = {}
    <3>1. Trimmed(o, q, p, n)
      BY <2>2, <2>7, LengthLast
    <3>. QED BY <3>1 DEF Trimmed
  <2>9. ASSUME NEW i \in Nat
        PROVE  Own(p, i) = IF i < n THEN View(o, i + 1) ELSE IF i = n THEN {} ELSE Own(o, i)
    <3>1. CASE i < n
      <4>1. Inside(0, i, n)
        BY <3>1 DEF Inside
      <4>. QED BY <2>4, <2>5, <2>7, <2>8, <3>1, <4>1
    <3>2. CASE i = n
      BY <2>7, <2>8, <3>2
    <3>3. CASE i > n
      <4>1. ~Inside(0, i, n) /\ i >= o.length
        BY <2>1, <3>3 DEF Inside
      <4>2. Own(q, i) = Own(o, i)
        BY <2>5, <2>7, <3>3, <4>1
      <4>. QED BY <1>0, <2>8, <3>3, <4>1, <4>2
    <3>. QED BY <3>1, <3>2, <3>3
  <2>10. \A i \in Methods!Places :
           Methods!Own(p, i) = IF i < o.length - 1 THEN Methods!View(o, i + 1)
                               ELSE IF i = o.length - 1 THEN {} ELSE Methods!Own(o, i)
    BY <2>1, <2>9, PlacesAre DEF Own, View
  <2>. QED BY <1>2, <2>1, <2>3, <2>8, <2>10 DEF Methods!ShiftPromise, Methods!Left
<1>. QED BY <1>1, <1>2

LEMMA UnshiftMeets ==
  ASSUME MaxLength \in Nat, NEW o, IsObject(o), NEW items, Len(items) \in Nat,
         NEW r, r = Methods!Unshifted(o, items)
  PROVE  Methods!UnshiftPromise(o, r[1], items, r[2]) /\ IsObject(r[1])
<1>0. o.length \in Nat /\ o.array \in BOOLEAN
  BY Lengths
<1>1. PICK n \in Nat, len \in Nat, m \in Nat :
        n = o.length /\ m = Len(items) /\ len = o.length + Len(items) /\ len = n + m
  BY <1>0
<1>2. PICK d, q, p : /\ d = Methods!MoveUp(o, 0, n, m)
                     /\ q = Methods!PutAll(d, 0, items) /\ p = Methods!PutLength(q, len)
  OBVIOUS
<1>3. r[1] = p /\ r[2] = o.length + Len(items)
  BY <1>1, <1>2 DEF Methods!Unshifted
<1>4. PICK F : /\ \A i \in Nat : Inside(0 + m, i, n) => F[i] = View(o, i - m)
               /\ Spread(o, d, 0 + m, n, F)
  BY <1>2, MoveUpSpreads
<1>5. /\ IsObject(d) /\ d.array = o.array
      /\ \A i \in Nat : Own(d, i) = IF Inside(m, i, n) THEN F[i] ELSE Own(o, i)
  BY <1>4 DEF Spread
<1>6. PICK G : (\A k \in 1 .. m : G[0 + k - 1] = {items[k]}) /\ Spread(d, q, 0, m, G)
  BY <1>1, <1>2, <1>5, PutAllSpreads
<1>7. /\ IsObject(q) /\ q.array = o.array
      /\ \A i \in Nat : Own(q, i) = IF Inside(0, i, m) THEN G[i] ELSE Own(d, i)
  BY <1>5, <1>6 DEF Spread
<1>8. /\ IsObject(p) /\ p.length = len
      /\ \A i \in Nat : (i < len \/ ~o.array \/ Own(q, i) = {}) => Own(p, i) = Own(q, i)
      /\ \A i \in Nat : o.array /\ i >= o.length => Own(o, i) = {}
  <2>1. Trimmed(o, q, p, len)
    BY <1>2, <1>7, LengthLast
  <2>. QED BY <2>1 DEF Trimmed
<1>9. ASSUME NEW i \in Nat
      PROVE  Own(p, i) = IF i < m THEN {items[i + 1]}
                         ELSE IF i < len THEN View(o, i - m) ELSE Own(o, i)
  <2>1. CASE i < m
    <3>1. Inside(0, i, m) /\ i + 1 \in 1 .. m /\ 0 + (i + 1) - 1 = i /\ i < len
      BY <1>1, <2>1 DEF Inside
    <3>2. G[i] = {items[i + 1]}
      BY <1>6, <3>1
    <3>. QED BY <1>7, <1>8, <2>1, <3>1, <3>2
  <2>2. CASE i >= m /\ i < len
    <3>1. ~Inside(0, i, m) /\ Inside(0 + m, i, n) /\ Inside(m, i, n)
      BY <1>1, <2>2 DEF Inside
    <3>. QED BY <1>4, <1>5, <1>7, <1>8, <2>2, <3>1
  <2>3. CASE i >= len
    <3>1. ~Inside(0, i, m) /\ ~Inside(m, i, n) /\ i >= o.length /\ i >= m
      BY <1>1, <2>3 DEF Inside
    <3>2. Own(q, i) = Own(o, i)
      BY <1>5, <1>7, <3>1
    <3>. QED BY <1>0, <1>1, <1>8, <2>3, <3>1, <3>2
  <2>. QED BY <1>1, <2>1, <2>2, <2>3
<1>10. \A i \in Methods!Places :
         Methods!Own(p, i) = IF i < Len(items) THEN {items[i + 1]}
                             ELSE IF i < o.length + Len(items) THEN Methods!View(o, i - Len(items))
                             ELSE Methods!Own(o, i)
  BY <1>1, <1>9, PlacesAre DEF Own, View
<1>. QED BY <1>1, <1>3, <1>8, <1>10 DEF Methods!UnshiftPromise, Methods!Left

-----------------------------------------------------------------------------
(* slice, indexOf and lastIndexOf                                          *)
(* A new array has no elements. *)
LEMMA EmptyIs ==
  /\ IsObject(Methods!EmptyArray) /\ Methods!EmptyArray.array /\ Methods!EmptyArray.length = 0
  /\ \A i : Own(Methods!EmptyArray, i) = {}
<1>1. PICK f : f = <<>>
  OBVIOUS
<1>2. DOMAIN f = {} /\ f = [i \in {} |-> f[i]]
  BY <1>1
<1>3. PICK e : e = Methods!EmptyArray
  OBVIOUS
<1>4. IsMade(e, TRUE, f, 0)
  BY <1>1, <1>3 DEF Methods!EmptyArray, IsMade
<1>5. Parts(e, TRUE, f, 0)
  BY <1>2, <1>4 DEF Parts, IsMap
<1>6. /\ IsObject(e) /\ e.array = TRUE /\ e.length = 0
      /\ \A j : Own(e, j) = IF j \in DOMAIN f THEN {f[j]} ELSE {}
  BY <1>5, ObjectOf
<1>. QED BY <1>2, <1>3, <1>6

IsPart(o, from, to, part) ==
  \A i \in Nat : Own(part, i) = IF from + i < to THEN View(o, from + i) ELSE {}

LEMMA PartRange ==
  ASSUME NEW o, NEW from \in Nat, NEW to \in Int, NEW part, part = Methods!Part(o, from, to)
  PROVE  IsPart(o, from, to, part)
<1>1. PICK e, m : e = Methods!EmptyArray /\ m = Methods!Max({0, to - from})
  OBVIOUS
<1>2. m = (IF to > from THEN to - from ELSE 0) /\ m \in Nat
  <2>1. m = IF 0 >= to - from THEN 0 ELSE to - from
    BY <1>1, TwoInts
  <2>. QED BY <2>1
<1>3. IsObject(e) /\ Bare(e, 0) /\ \A i : Own(e, i) = {}
  BY <1>1, EmptyIs DEF Bare
<1>4. part = Methods!CopyTo(e, 0, o, from, m)
  BY <1>1 DEF Methods!Part
<1>5. PICK F : /\ \A i \in Nat : Inside(0, i, m) => F[i] = View(o, from + (i - 0))
               /\ Spread(e, part, 0, m, F)
  <2>1. CopiesFrom(e, part, 0, m, o, from)
    BY <1>2, <1>3, <1>4, CopyToSpreads
  <2>. QED BY <2>1 DEF CopiesFrom
<1>6. \A i \in Nat : Own(part, i) = IF Inside(0, i, m) THEN F[i] ELSE {}
  BY <1>3, <1>5 DEF Spread
<1>7. ASSUME NEW i \in Nat
      PROVE  Own(part, i) = IF from + i < to THEN View(o, from + i) ELSE {}
  <2>1. (Inside(0, i, m) <=> from + i < to) /\ i - 0 = i
    BY <1>2 DEF Inside
  <2>. QED BY <1>5, <1>6, <2>1
<1>. QED BY <1>7 DEF IsPart

IsClamped(n, len, at) ==
  /\ at \in Nat /\ at <= len
  /\ at = IF n >= len THEN len ELSE IF n >= 0 THEN n ELSE IF len + n >= 0 THEN len + n ELSE 0

LEMMA Clamped ==
  ASSUME NEW n \in Int, NEW len \in Nat
  PROVE  IsClamped(n, len, Methods!Clamp(n, len))
<1>0. PICK at : at = Methods!Clamp(n, len)
  OBVIOUS
<1>1. ASSUME n < 0 PROVE IsClamped(n, len, at)
  <2>1. at = Methods!Max({0, len + n})
    BY <1>0, <1>1 DEF Methods!Clamp
  <2>2. at = IF 0 >= len + n THEN 0 ELSE len + n
    BY <2>1, TwoInts
  <2>. QED BY <1>1, <2>2 DEF IsClamped
<1>2. ASSUME n >= 0 PROVE IsClamped(n, len, at)
  <2>1. at = Methods!Min({n, len})
    BY <1>0, <1>2 DEF Methods!Clamp
  <2>2. at = IF n <= len THEN n ELSE len
    BY <2>1, TwoInts
  <2>. QED BY <1>2, <2>2 DEF IsClamped
<1>. QED BY <1>0, <1>1, <1>2

LEMMA SliceMeets ==
  ASSUME MaxLength \in Nat, NEW o, IsObject(o), NEW start \in Int, NEW end,
         end = Undefined \/ end \in Int, NEW r, r = Methods!Sliced(o, start, end)
  PROVE  Methods!SlicePromise(o, r[1], start, end, r[2]) /\ IsObject(r[1])
<1>0. PICK len \in Nat : len = o.length
  BY Lengths
<1>1. PICK e : e = IF end = Undefined THEN len ELSE end
  OBVIOUS
<1>2. e \in Int
  BY <1>1
<1>3. PICK from, to : from = Methods!Clamp(start, len) /\ to = Methods!Clamp(e, len)
  OBVIOUS
<1>4. /\ from \in Nat /\ from <= len
      /\ from = IF start >= len THEN len ELSE IF start >= 0 THEN start
                ELSE IF len + start >= 0 THEN len + start ELSE 0
  <2>1. IsClamped(start, len, from)
    BY <1>3, Clamped
  <2>. QED BY <2>1 DEF IsClamped
<1>5. /\ to \in Nat /\ to <= len
      /\ to = IF e >= len THEN len ELSE IF e >= 0 THEN e ELSE IF len + e >= 0 THEN len + e ELSE 0
  <2>1. IsClamped(e, len, to)
    BY <1>2, <1>3, Clamped
  <2>. QED BY <2>1 DEF IsClamped
<1>6. r[1] = o /\ r[2] = Methods!Part(o, from, to)
  BY <1>0, <1>1, <1>3 DEF Methods!Sliced
<1>7. \A i \in Nat : Own(r[2], i) = IF from + i < to THEN View(o, from + i) ELSE {}
  <2>1. IsPart(o, from, to, r[2])
    BY <1>4, <1>5, <1>6, PartRange
  <2>. QED BY <2>1 DEF IsPart
<1>8. PICK f, t : /\ f = Methods!Max({0, Methods!Meant(start, o.length)})
                  /\ t = Methods!Min({IF end = Undefined THEN o.length ELSE Methods!Meant(end, o.length),
                                      o.length})
  OBVIOUS
<1>9. f \in Nat /\ f = IF start >= 0 THEN start ELSE IF len + start >= 0 THEN len + start ELSE 0
  <2>1. PICK s \in Int : s = Methods!Meant(start, o.length) /\ s = IF start >= 0 THEN start ELSE len + start
    BY <1>0 DEF Methods!Meant
  <2>2. f = IF 0 >= s THEN 0 ELSE s
    BY <1>8, <2>1, TwoInts
  <2>. QED BY <2>1, <2>2
<1>10. t \in Int /\ t = IF e >= len THEN len ELSE IF e >= 0 THEN e ELSE len + e
  <2>1. PICK s : s = IF end = Undefined THEN o.length ELSE Methods!Meant(end, o.length)
    OBVIOUS
  <2>2. s \in Int /\ s = IF e >= 0 THEN e ELSE len + e
    BY <1>0, <1>1, <1>2, <2>1 DEF Methods!Meant
  <2>3. t = Methods!Min({s, len})
    BY <1>0, <1>8, <2>1
  <2>4. s \in Int /\ len \in Int
    BY <2>2
  <2>5. t = IF s <= len THEN s ELSE len
    BY <2>3, <2>4, TwoInts
  <2>. QED BY <1>2, <2>2, <2>5
<1>11. ASSUME NEW i \in 0 .. MaxLength
       PROVE  Own(r[2], i) = IF f + i < t THEN View(o, f + i) ELSE {}
  <2>1. i \in Nat
    OBVIOUS
  <2>2. (from + i < to <=> f + i < t) /\ (f + i < t => from = f)
    BY <1>2, <1>4, <1>5, <1>9, <1>10, <2>1
  <2>. QED BY <1>7, <2>1, <2>2
<1>12. Methods!RangeOf(o, f, t, r[2])
  BY <1>11 DEF Methods!RangeOf, Own, View
<1>. QED BY <1>6, <1>8, <1>12 DEF Methods!SlicePromise

LEMMA IndexOfMeets ==
  ASSUME MaxLength \in Nat, NEW o, IsObject(o), o.length <= MaxLength, NEW x, NEW from \in Int,
         NEW r, r = Methods!IndexOf(o, x, from)
  PROVE  /\ Methods!FindPromise(o, r[1], x,
              {i \in Methods!Places : i >= Methods!Meant(from, o.length)}, r[2], Methods!Min)
         /\ IsObject(r[1])
<1>0. PICK len \in Nat : len = o.length
  BY Lengths
<1>1. PICK k : k = IF from < 0 THEN Methods!Max({0, len + from}) ELSE from
  OBVIOUS
<1>2. k \in Nat /\ k = IF from >= 0 THEN from ELSE IF len + from >= 0 THEN len + from ELSE 0
  <2>1. Methods!Max({0, len + from}) = IF 0 >= len + from THEN 0 ELSE len + from
    BY TwoInts
  <2>. QED BY <1>1, <2>1
<1>3. PICK found : found = {i \in k .. len - 1 : Methods!Has(o, i) /\ Methods!Get(o, i) = x}
  OBVIOUS
<1>4. r[1] = o /\ r[2] = IF found = {} THEN -1 ELSE Methods!Min(found)
  BY <1>0, <1>1, <1>3 DEF Methods!IndexOf
<1>5. PICK right : right = {i \in 0 .. o.length - 1 : Methods!View(o, i) = {x}
                          /\ i \in {j \in Methods!Places : j >= Methods!Meant(from, o.length)}}
  OBVIOUS
<1>6. \A i : (Methods!Has(o, i) /\ Methods!Get(o, i) = x) <=> Methods!View(o, i) = {x}
  BY DEF Methods!View
<1>7. \A i \in 0 .. len - 1 : i \in Methods!Places /\ (i >= k <=> i >= Methods!Meant(from, o.length))
  BY <1>0, <1>2 DEF Methods!Places, Methods!Meant
<1>8. found = right
  BY <1>0, <1>2, <1>3, <1>5, <1>6, <1>7
<1>. QED BY <1>4, <1>5, <1>8 DEF Methods!FindPromise

LEMMA LastIndexOfMeets ==
  ASSUME MaxLength \in Nat, NEW o, IsObject(o), o.length <= MaxLength, NEW x, NEW from \in Int,
         NEW r, r = Methods!LastIndexOf(o, x, from)
  PROVE  /\ Methods!FindPromise(o, r[1], x,
              {i \in Methods!Places : i <= Methods!Meant(from, o.length)}, r[2], Methods!Max)
         /\ IsObject(r[1])
<1>0. PICK len \in Nat : len = o.length
  BY Lengths
<1>1. PICK k : k = IF from < 0 THEN len + from ELSE Methods!Min({from, len - 1})
  OBVIOUS
<1>2. k \in Int /\ k = IF from < 0 THEN len + from ELSE IF from <= len - 1 THEN from ELSE len - 1
  <2>1. Methods!Min({from, len - 1}) = IF from <= len - 1 THEN from ELSE len - 1
    BY TwoInts
  <2>. QED BY <1>1, <2>1
<1>3. PICK found : found = {i \in 0 .. k : Methods!Has(o, i) /\ Methods!Get(o, i) = x}
  OBVIOUS
<1>4. r[1] = o /\ r[2] = IF found = {} THEN -1 ELSE Methods!Max(found)
  BY <1>0, <1>1, <1>3 DEF Methods!LastIndexOf
<1>5. PICK right : right = {i \in 0 .. o.length - 1 : Methods!View(o, i) = {x}
                          /\ i \in {j \in Methods!Places : j <= Methods!Meant(from, o.length)}}
  OBVIOUS
<1>6. \A i : (Methods!Has(o, i) /\ Methods!Get(o, i) = x) <=> Methods!View(o, i) = {x}
  BY DEF Methods!View
<1>7. \A i \in 0 .. len - 1 : i \in Methods!Places /\ (i <= k <=> i <= Methods!Meant(from, o.length))
  BY <1>0, <1>2 DEF Methods!Places, Methods!Meant
<1>8. 0 .. k \subseteq 0 .. len - 1
  BY <1>2
<1>9. found = right
  BY <1>0, <1>2, <1>3, <1>5, <1>6, <1>7, <1>8
<1>. QED BY <1>4, <1>5, <1>9 DEF Methods!FindPromise

-----------------------------------------------------------------------------
(* splice                                                                  *)
(* What splice has done before it puts the items: gone elements from at on  *)
(* have made way for size items.                                            *)
MadeWay(o, q, at, gone, size) ==
  /\ IsObject(q) /\ q.array = o.array
  /\ \A i \in Nat :
       /\ i < at => Own(q, i) = Own(o, i)
       /\ at + size <= i /\ i < o.length - gone + size =>
            Own(q, i) = IF size = gone THEN Own(o, i) ELSE View(o, i - (size - gone))
       /\ o.length - gone + size <= i => Own(q, i) = IF i < o.length THEN {} ELSE Own(o, i)

LEMMA MovesDown ==
  ASSUME NEW o, IsObject(o), NEW at \in Nat, NEW gone \in Nat, at + gone <= o.length,
         NEW size \in Nat, size < gone,
         NEW d, d = Methods!MoveDown(o, at + size, o.length - gone - at, gone - size),
         NEW q, q = Methods!DeleteAll(d, o.length - gone + size, gone - size)
  PROVE  MadeWay(o, q, at, gone, size)
<1>1. PICK len \in Nat : len = o.length
  BY Lengths
<1>2. PICK a, m, by, e :
        a = at + size /\ m = len - gone - at /\ by = gone - size /\ e = len - gone + size
  OBVIOUS
<1>0. a \in Nat /\ m \in Nat /\ by \in Nat /\ e \in Nat
  BY <1>1, <1>2
<1>3. d = Methods!MoveDown(o, a, m, by) /\ q = Methods!DeleteAll(d, e, by)
  BY <1>1, <1>2
<1>4. PICK F : (\A i \in Nat : Inside(a, i, m) => F[i] = View(o, i + by)) /\ Spread(o, d, a, m, F)
  BY <1>0, <1>3, MoveDownSpreads
<1>5. /\ IsObject(d) /\ d.array = o.array
      /\ \A i \in Nat : Own(d, i) = IF Inside(a, i, m) THEN F[i] ELSE Own(o, i)
  BY <1>4 DEF Spread
<1>6. PICK G : (\A i \in Nat : Inside(e, i, by) => G[i] = {}) /\ Spread(d, q, e, by, G)
  BY <1>0, <1>3, <1>5, DeleteAllSpreads
<1>7. /\ IsObject(q) /\ q.array = o.array
      /\ \A i \in Nat : Own(q, i) = IF Inside(e, i, by) THEN G[i] ELSE Own(d, i)
  BY <1>5, <1>6 DEF Spread
<1>8. ASSUME NEW i \in Nat
      PROVE  /\ i < at => Own(q, i) = Own(o, i)
             /\ at + size <= i /\ i < o.length - gone + size =>
                  Own(q, i) = IF size = gone THEN Own(o, i) ELSE View(o, i - (size - gone))
             /\ o.length - gone + size <= i => Own(q, i) = IF i < o.length THEN {} ELSE Own(o, i)
  <2>1. ASSUME i < at PROVE Own(q, i) = Own(o, i)
    <3>1. ~Inside(a, i, m) /\ ~Inside(e, i, by)
      BY <1>0, <1>1, <1>2, <2>1 DEF Inside
    <3>. QED BY <1>5, <1>7, <3>1
  <2>2. ASSUME at + size <= i, i < o.length - gone + size
        PROVE  Own(q, i) = View(o, i - (size - gone))
    <3>1. Inside(a, i, m) /\ ~Inside(e, i, by) /\ i - (size - gone) = i + by
      BY <1>0, <1>1, <1>2, <2>2 DEF Inside
    <3>. QED BY <1>4, <1>5, <1>7, <3>1
  <2>3. ASSUME o.length - gone + size <= i, i < o.length PROVE Own(q, i) = {}
    <3>1. Inside(e, i, by)
      BY <1>0, <1>1, <1>2, <2>3 DEF Inside
    <3>. QED BY <1>6, <1>7, <3>1
  <2>4. ASSUME o.length - gone + size <= i, ~(i < o.length) PROVE Own(q, i) = Own(o, i)
    <3>1. ~Inside(a, i, m) /\ ~Inside(e, i, by)
      BY <1>0, <1>1, <1>2, <2>4 DEF Inside
    <3>. QED BY <1>5, <1>7, <3>1
  <2>. QED BY <2>1, <2>2, <2>3, <2>4
<1>. QED BY <1>7, <1>8 DEF MadeWay

LEMMA MovesUp ==
  ASSUME NEW o, IsObject(o), NEW at \in Nat, NEW gone \in Nat, at + gone <= o.length,
         NEW size \in Nat, size > gone,
         NEW q, q = Methods!MoveUp(o, at + gone, o.length - gone - at, size - gone)
  PROVE  MadeWay(o, q, at, gone, size)
<1>1. PICK len \in Nat : len = o.length
  BY Lengths
<1>2. PICK a \in Nat, m \in Nat, by \in Nat : a = at + gone /\ m = len - gone - at /\ by = size - gone
  BY <1>1
<1>3. q = Methods!MoveUp(o, a, m, by)
  BY <1>1, <1>2
<1>4. PICK F : /\ \A i \in Nat : Inside(a + by, i, m) => F[i] = View(o, i - by)
               /\ Spread(o, q, a + by, m, F)
  BY <1>3, MoveUpSpreads
<1>5. /\ IsObject(q) /\ q.array = o.array
      /\ \A i \in Nat : Own(q, i) = IF Inside(a + by, i, m) THEN F[i] ELSE Own(o, i)
  BY <1>4 DEF Spread
<1>8. ASSUME NEW i \in Nat
      PROVE  /\ i < at => Own(q, i) = Own(o, i)
             /\ at + size <= i /\ i < o.length - gone + size =>
                  Own(q, i) = IF size = gone THEN Own(o, i) ELSE View(o, i - (size - gone))
             /\ o.length - gone + size <= i => Own(q, i) = IF i < o.length THEN {} ELSE Own(o, i)
  <2>1. ASSUME i < at PROVE Own(q, i) = Own(o, i)
    <3>1. ~Inside(a + by, i, m)
      BY <1>1, <1>2, <2>1 DEF Inside
    <3>. QED BY <1>5, <3>1
  <2>2. ASSUME at + size <= i, i < o.length - gone + size
        PROVE  Own(q, i) = View(o, i - (size - gone))
    <3>1. Inside(a + by, i, m) /\ i - (size - gone) = i - by
      BY <1>1, <1>2, <2>2 DEF Inside
    <3>. QED BY <1>4, <1>5, <3>1
  <2>3. ASSUME o.length - gone + size <= i
        PROVE  ~(i < o.length) /\ Own(q, i) = Own(o, i)
    <3>1. ~Inside(a + by, i, m) /\ ~(i < o.length)
      BY <1>1, <1>2, <2>3 DEF Inside
    <3>. QED BY <1>5, <3>1
  <2>. QED BY <2>1, <2>2, <2>3
<1>. QED BY <1>5, <1>8 DEF MadeWay

LEMMA MovesNot ==
  ASSUME NEW o, IsObject(o), NEW at \in Nat, NEW gone \in Nat
  PROVE  MadeWay(o, o, at, gone, gone)
<1>1. o.length - gone + gone = o.length
  BY Lengths
<1>2. \A i \in Nat : o.length <= i => ~(i < o.length)
  BY Lengths
<1>. QED BY <1>1, <1>2 DEF MadeWay

Way(o, at, gone, size) ==
  CASE size < gone -> Methods!DeleteAll(Methods!MoveDown(o, at + size, o.length - gone - at, gone - size),
                                        o.length - gone + size, gone - size)
    [] size > gone -> Methods!MoveUp(o, at + gone, o.length - gone - at, size - gone)
    [] OTHER -> o

LEMMA WayIsMade ==
  ASSUME NEW o, IsObject(o), NEW at \in Nat, NEW gone \in Nat, at + gone <= o.length,
         NEW size \in Nat
  PROVE  MadeWay(o, Way(o, at, gone, size), at, gone, size)
<1>1. CASE size < gone
  <2>1. PICK d : d = Methods!MoveDown(o, at + size, o.length - gone - at, gone - size)
    OBVIOUS
  <2>2. Way(o, at, gone, size) = Methods!DeleteAll(d, o.length - gone + size, gone - size)
    BY <1>1, <2>1 DEF Way
  <2>. QED BY <1>1, <2>1, <2>2, MovesDown
<1>2. CASE size > gone
  <2>1. Way(o, at, gone, size) = Methods!MoveUp(o, at + gone, o.length - gone - at, size - gone)
    BY <1>2 DEF Way
  <2>. QED BY <1>2, <2>1, MovesUp
<1>3. CASE size = gone
  <2>1. Way(o, at, gone, size) = o
    BY <1>3 DEF Way
  <2>. QED BY <1>3, <2>1, MovesNot
<1>. QED BY <1>1, <1>2, <1>3

IsSpliced(o, p, at, gone, items) ==
  /\ p.length = o.length - gone + Len(items)
  /\ \A i \in Nat : Own(p, i) =
       IF i < at THEN Own(o, i)
       ELSE IF i < at + Len(items) THEN {items[i - at + 1]}
       ELSE IF i < o.length - gone + Len(items)
         THEN IF Len(items) = gone THEN Own(o, i) ELSE View(o, i - (Len(items) - gone))
       ELSE IF i < o.length THEN {} ELSE Own(o, i)


\* The number of elements that go.
IsGone(count, len, at, gone) ==
  gone = Methods!Min({Methods!Max({count, 0}), len - at})

RestIs(count, len, at, rest) == Methods!Min({len, at + Methods!Max({count, 0})}) = rest

LEMMA GoneIs ==
  ASSUME NEW len \in Nat, NEW at \in Nat, at <= len, NEW count \in Int, NEW gone,
         IsGone(count, len, at, gone)
  PROVE  gone \in Nat /\ at + gone <= len /\ RestIs(count, len, at, at + gone)
<1>1. PICK c : c = Methods!Max({count, 0})
  OBVIOUS
<1>2. c \in Nat
  <2>1. c = IF count >= 0 THEN count ELSE 0
    BY <1>1, TwoInts
  <2>. QED BY <2>1
<1>3. PICK most \in Int, sum \in Int : most = len - at /\ sum = at + c
  BY <1>2
<1>4. gone = IF c <= most THEN c ELSE most
  <2>1. gone = Methods!Min({c, most})
    BY <1>1, <1>3 DEF IsGone
  <2>2. c \in Int
    BY <1>2
  <2>3. Methods!Min({c, most}) = IF c <= most THEN c ELSE most
    BY <2>2, TwoInts
  <2>. QED BY <2>1, <2>3
<1>5. gone \in Nat /\ at + gone <= len /\ at + gone = IF len <= sum THEN len ELSE sum
  BY <1>2, <1>3, <1>4
<1>6. Methods!Min({len, sum}) = at + gone
  <2>1. len \in Int
    OBVIOUS
  <2>2. Methods!Min({len, sum}) = IF len <= sum THEN len ELSE sum
    BY <2>1, TwoInts
  <2>. QED BY <1>5, <2>2
<1>7. RestIs(count, len, at, at + gone)
  BY <1>1, <1>3, <1>6 DEF RestIs
<1>. QED BY <1>5, <1>7

BeginIs(start, len, at) == Methods!Max({0, Methods!Min({Methods!Meant(start, len), len})}) = at

LEMMA StartIs ==
  ASSUME NEW start \in Int, NEW len \in Nat, NEW at, IsClamped(start, len, at)
  PROVE  BeginIs(start, len, at)
<1>1. PICK s \in Int : s = Methods!Meant(start, len) /\ s = IF start >= 0 THEN start ELSE len + start
  BY DEF Methods!Meant
<1>2. PICK t \in Int : t = Methods!Min({s, len}) /\ t = IF s <= len THEN s ELSE len
  BY TwoInts
<1>3. Methods!Max({0, t}) = IF 0 >= t THEN 0 ELSE t
  BY <1>2, TwoInts
<1>4. at = IF 0 >= t THEN 0 ELSE t
  BY <1>1, <1>2 DEF IsClamped
<1>. QED BY <1>1, <1>2, <1>3, <1>4 DEF BeginIs

ElementIs(o, p, at, items, size, len, moved, i) ==
  Own(p, i) = CASE i < at -> Own(o, i)
                [] Methods!InRange(at, i, at + size) -> {items[i - at + 1]}
                [] Methods!InRange(at + size, i, len + moved) ->
                     IF moved = 0 THEN Own(o, i) ELSE View(o, i - moved)
                [] Methods!InRange(len + moved, i, len) -> {}
                [] OTHER -> Own(o, i)

LEMMA SplicedElement ==
  ASSUME NEW o, NEW p, NEW at \in Nat, NEW gone \in Nat, NEW items, NEW size \in Nat,
         size = Len(items), NEW len \in Nat, len = o.length, at + gone <= len,
         IsSpliced(o, p, at, gone, items), NEW moved \in Int, moved = size - gone, NEW i \in Nat
  PROVE  ElementIs(o, p, at, items, size, len, moved, i)
<1>1. /\ Methods!InRange(at, i, at + size) <=> (at <= i /\ i < at + size)
      /\ Methods!InRange(at + size, i, len + moved) <=> (at + size <= i /\ i < len + moved)
      /\ Methods!InRange(len + moved, i, len) <=> (len + moved <= i /\ i < len)
  BY DEF Methods!InRange
<1>2. Own(p, i) = IF i < at THEN Own(o, i)
                  ELSE IF i < at + size THEN {items[i - at + 1]}
                  ELSE IF i < len - gone + size
                    THEN IF size = gone THEN Own(o, i) ELSE View(o, i - (size - gone))
                  ELSE IF i < len THEN {} ELSE Own(o, i)
  BY DEF IsSpliced
<1>3. len - gone + size = len + moved /\ (size = gone <=> moved = 0) /\ at + size <= len + moved
  OBVIOUS
<1>4. CASE i < at
  <2>1. ~(at <= i) /\ ~(at + size <= i) /\ ~(len + moved <= i)
    BY <1>3, <1>4, SMTT(30)
  <2>. QED BY <1>1, <1>2, <1>4, <2>1 DEF ElementIs
<1>5. CASE at <= i /\ i < at + size
  <2>1. ~(i < at) /\ ~(at + size <= i) /\ ~(len + moved <= i)
    BY <1>3, <1>5
  <2>. QED BY <1>1, <1>2, <1>5, <2>1 DEF ElementIs
<1>6. CASE at + size <= i /\ i < len + moved
  <2>1. ~(i < at) /\ ~(i < at + size) /\ ~(len + moved <= i)
    BY <1>3, <1>6, SMTT(30)
  <2>2. Own(p, i) = IF moved = 0 THEN Own(o, i) ELSE View(o, i - moved)
    BY <1>2, <1>3, <1>6, <2>1
  <2>. QED BY <1>1, <1>6, <2>1, <2>2 DEF ElementIs
<1>7. CASE len + moved <= i
  <2>1. ~(i < at) /\ ~(i < at + size) /\ ~(i < len + moved)
    BY <1>3, <1>7, SMTT(30)
  <2>2. Own(p, i) = IF i < len THEN {} ELSE Own(o, i)
    BY <1>2, <1>3, <1>7, <2>1
  <2>. QED BY <1>1, <1>7, <2>1, <2>2 DEF ElementIs
<1>. QED BY <1>3, <1>4, <1>5, <1>6, <1>7

LEMMA SplicePromised ==
  ASSUME MaxLength \in Nat, NEW o, NEW p, NEW start \in Int, NEW count \in Int, NEW items,
         NEW size \in Nat, size = Len(items), NEW part, NEW len \in Nat, len = o.length,
         NEW at, IsClamped(start, len, at), NEW gone, IsGone(count, len, at, gone),
         IsSpliced(o, p, at, gone, items), IsPart(o, at, at + gone, part)
  PROVE  Methods!SplicePromise(o, p, start, count, items, part)
<1>1. at \in Nat /\ at <= len
  BY DEF IsClamped
<1>2. /\ gone \in Nat /\ at + gone <= len
      /\ RestIs(count, len, at, at + gone)
  BY <1>1, GoneIs
<1>3. BeginIs(start, len, at)
  BY StartIs
<1>4. PICK moved \in Int : moved = size - gone
  <2>1. gone \in Int /\ size \in Int
    BY <1>2
  <2>2. size - gone \in Int
    BY <2>1
  <2>. QED BY <2>2, Zenon
<1>5. \A i \in Methods!Places :
        Methods!Own(p, i) = CASE i < at -> Methods!Own(o, i)
                              [] Methods!InRange(at, i, at + size) -> {items[i - at + 1]}
                              [] Methods!InRange(at + size, i, len + moved) ->
                                   IF moved = 0 THEN Methods!Own(o, i) ELSE Methods!View(o, i - moved)
                              [] Methods!InRange(len + moved, i, len) -> {}
                              [] OTHER -> Methods!Own(o, i)
  <2>1. ASSUME NEW i \in Methods!Places PROVE ElementIs(o, p, at, items, size, len, moved, i)
    <3>1. i \in Nat
      BY PlacesAre
    <3>2. at \in Nat /\ gone \in Nat /\ at + gone <= len
      BY <1>1, <1>2
    <3>. QED BY <1>4, <3>1, <3>2, SplicedElement
  <2>. QED BY <2>1 DEF ElementIs, Own, View
<1>6. p.length = len + moved
  <2>1. p.length = o.length - gone + Len(items)
    BY DEF IsSpliced
  <2>. QED BY <1>2, <1>4, <2>1, SMTT(30)
<1>7. \A i \in 0 .. MaxLength :
        Methods!Own(part, i) = IF at + i < at + gone THEN Methods!View(o, at + i) ELSE {}
  <2>1. \A i \in Nat : Own(part, i) = IF at + i < at + gone THEN View(o, at + i) ELSE {}
    BY DEF IsPart
  <2>2. \A i \in 0 .. MaxLength : i \in Nat
    OBVIOUS
  <2>. QED BY <2>1, <2>2 DEF Own, View
<1>8. Methods!RangeOf(o, at, at + gone, part)
  BY <1>7 DEF Methods!RangeOf
<1>9. at + gone - at = gone
  BY <1>1, <1>2
<1>10. PICK rest \in Nat : rest = at + gone
  BY <1>1, <1>2
<1>11. rest - at = gone
  BY <1>1, <1>2, <1>10
<1>. QED BY <1>2, <1>3, <1>4, <1>5, <1>6, <1>8, <1>10, <1>11
     DEF Methods!SplicePromise, Methods!Left, RestIs, BeginIs

LEMMA SpliceMeets ==
  ASSUME MaxLength \in Nat, NEW o, IsObject(o), NEW start \in Int, NEW count \in Int, NEW items,
         Len(items) \in Nat, NEW r, r = Methods!Spliced(o, start, count, items)
  PROVE  Methods!SplicePromise(o, r[1], start, count, items, r[2]) /\ IsObject(r[1])
<1>1. PICK len \in Nat, size \in Nat : len = o.length /\ size = Len(items) /\ o.array \in BOOLEAN
  BY Lengths
<1>2. PICK at : at = Methods!Clamp(start, len)
  OBVIOUS
<1>3. IsClamped(start, len, at) /\ at \in Nat /\ at <= len
  <2>1. IsClamped(start, len, at)
    BY <1>2, Clamped
  <2>. QED BY <2>1 DEF IsClamped
<1>4. PICK gone : IsGone(count, len, at, gone)
  BY DEF IsGone
<1>5. gone \in Nat /\ at + gone <= len
  BY <1>3, <1>4, GoneIs
<1>6. PICK q, w, p : /\ q = Way(o, at, gone, size) /\ w = Methods!PutAll(q, at, items)
                     /\ p = Methods!PutLength(w, len - gone + size)
  OBVIOUS
<1>7. r[1] = p /\ r[2] = Methods!Part(o, at, at + gone)
  BY <1>1, <1>2, <1>4, <1>6 DEF Methods!Spliced, IsGone, Way
<1>8. MadeWay(o, q, at, gone, size)
  BY <1>1, <1>3, <1>5, <1>6, WayIsMade
<1>9. IsObject(q) /\ q.array = o.array
  BY <1>8 DEF MadeWay
<1>10. PICK F : (\A k \in 1 .. size : F[at + k - 1] = {items[k]}) /\ Spread(q, w, at, size, F)
  BY <1>1, <1>3, <1>6, <1>9, PutAllSpreads
<1>11. /\ IsObject(w) /\ w.array = o.array
       /\ \A i \in Nat : Own(w, i) = IF Inside(at, i, size) THEN F[i] ELSE Own(q, i)
  BY <1>9, <1>10 DEF Spread
<1>12. PICK left \in Nat : left = len - gone + size
  BY <1>3, <1>5
<1>13. /\ IsObject(p) /\ p.length = left
       /\ \A i \in Nat : (i < left \/ ~o.array \/ Own(w, i) = {}) => Own(p, i) = Own(w, i)
       /\ \A i \in Nat : o.array /\ i >= o.length => Own(o, i) = {}
  <2>1. Trimmed(o, w, p, left)
    BY <1>6, <1>11, <1>12, LengthLast
  <2>. QED BY <2>1 DEF Trimmed
<1>14. ASSUME NEW i \in Nat
       PROVE  Own(p, i) =
                IF i < at THEN Own(o, i)
                ELSE IF i < at + size THEN {items[i - at + 1]}
                ELSE IF i < left
                  THEN IF size = gone THEN Own(o, i) ELSE View(o, i - (size - gone))
                ELSE IF i < len THEN {} ELSE Own(o, i)
  <2>0. /\ i < at => Own(q, i) = Own(o, i)
        /\ at + size <= i /\ i < left =>
             Own(q, i) = IF size = gone THEN Own(o, i) ELSE View(o, i - (size - gone))
        /\ left <= i => Own(q, i) = IF i < len THEN {} ELSE Own(o, i)
    BY <1>1, <1>8, <1>12 DEF MadeWay
  <2>1. CASE i < at
    <3>1. ~Inside(at, i, size) /\ i < left
      BY <1>3, <1>5, <1>12, <2>1 DEF Inside
    <3>. QED BY <1>11, <1>13, <2>0, <2>1, <3>1
  <2>2. CASE i >= at /\ i < at + size
    <3>1. /\ Inside(at, i, size) /\ i < left /\ i - at + 1 \in 1 .. size
          /\ at + (i - at + 1) - 1 = i /\ ~(i < at)
      BY <1>3, <1>5, <1>12, <2>2 DEF Inside
    <3>2. F[i] = {items[i - at + 1]}
      BY <1>10, <3>1
    <3>. QED BY <1>11, <1>13, <2>2, <3>1, <3>2
  <2>3. CASE i >= at + size /\ i < left
    <3>1. ~Inside(at, i, size) /\ ~(i < at) /\ ~(i < at + size) /\ at + size <= i
      BY <1>3, <2>3 DEF Inside
    <3>2. Own(p, i) = Own(q, i)
      BY <1>11, <1>13, <2>3, <3>1
    <3>. QED BY <2>0, <2>3, <3>1, <3>2
  <2>4. CASE i >= left
    <3>1. ~Inside(at, i, size) /\ ~(i < at) /\ ~(i < at + size) /\ left <= i /\ ~(i < left)
      BY <1>3, <1>5, <1>12, <2>4 DEF Inside
    <3>2. Own(w, i) = IF i < len THEN {} ELSE Own(o, i)
      BY <1>11, <2>0, <3>1
    <3>3. i < len \/ i >= o.length
      BY <1>1
    <3>4. ~o.array \/ Own(w, i) = {}
      BY <1>1, <1>13, <3>2, <3>3
    <3>5. Own(p, i) = Own(w, i)
      BY <1>13, <3>4
    <3>. QED BY <3>1, <3>2, <3>5
  <2>5. i < at \/ (i >= at /\ i < at + size) \/ (i >= at + size /\ i < left) \/ i >= left
    BY <1>3, <1>12
  <2>. QED BY <2>1, <2>2, <2>3, <2>4, <2>5
<1>15. IsSpliced(o, p, at, gone, items)
  BY <1>1, <1>12, <1>13, <1>14 DEF IsSpliced
<1>16. IsPart(o, at, at + gone, r[2])
  <2>1. PICK to \in Int : to = at + gone
    BY <1>3, <1>5
  <2>2. r[2] = Methods!Part(o, at, to)
    BY <1>7, <2>1
  <2>3. IsPart(o, at, to, r[2])
    BY <1>3, <2>2, PartRange
  <2>. QED BY <2>1, <2>3
<1>17. Methods!SplicePromise(o, p, start, count, items, r[2])
  BY <1>1, <1>3, <1>4, <1>15, <1>16, SplicePromised
<1>. QED BY <1>7, <1>13, <1>17

-----------------------------------------------------------------------------
(* reverse                                                                 *)
Exchanged(o, q, lower, upper) ==
  /\ IsObject(q) /\ q.array = o.array /\ q.length = o.length
  /\ Own(q, lower) = View(o, upper) /\ Own(q, upper) = View(o, lower)
  /\ \A i : i # lower /\ i # upper => Own(q, i) = Own(o, i)

LEMMA SetsTwo ==
  ASSUME NEW o, IsObject(o), NEW lower \in Nat, NEW upper \in Nat, lower # upper,
         lower < o.length, upper < o.length,
         NEW p, Sets(o, lower, View(o, upper), p), NEW q, Sets(p, upper, View(o, lower), q)
  PROVE  Exchanged(o, q, lower, upper)
<1>1. /\ IsObject(p) /\ p.array = o.array /\ p.length = o.length
      /\ Own(p, lower) = View(o, upper) /\ \A j : j # lower => Own(p, j) = Own(o, j)
  BY Lengths DEF Sets
<1>2. /\ IsObject(q) /\ q.array = p.array /\ q.length = p.length
      /\ Own(q, upper) = View(o, lower) /\ \A j : j # upper => Own(q, j) = Own(p, j)
  BY <1>1, Lengths DEF Sets
<1>. QED BY <1>1, <1>2 DEF Exchanged

LEMMA SwapExchanges ==
  ASSUME NEW o, IsObject(o), NEW lower \in Nat, NEW upper \in Nat, lower # upper,
         lower < o.length, upper < o.length
  PROVE  Exchanged(o, Methods!Swap(o, lower, upper), lower, upper)
<1>0. PICK q : q = Methods!Swap(o, lower, upper)
  OBVIOUS
<1>1. PICK low, up : low = Methods!Get(o, lower) /\ up = Methods!Get(o, upper)
  OBVIOUS
<1>2. /\ Methods!Has(o, lower) <=> View(o, lower) # {}
      /\ Methods!Has(o, lower) => View(o, lower) = {low}
      /\ Methods!Has(o, upper) <=> View(o, upper) # {}
      /\ Methods!Has(o, upper) => View(o, upper) = {up}
  BY <1>1, ViewIs
<1>3. CASE Methods!Has(o, lower) /\ Methods!Has(o, upper)
  <2>1. PICK p : p = Methods!Put(o, lower, up)
    OBVIOUS
  <2>2. Sets(o, lower, {up}, p)
    BY <2>1, PutSets
  <2>3. q = Methods!Put(p, upper, low)
    BY <1>0, <1>1, <1>3, <2>1 DEF Methods!Swap
  <2>4. Sets(p, upper, {low}, q)
    BY <2>2, <2>3, PutSets DEF Sets
  <2>. QED BY <1>0, <1>2, <1>3, <2>2, <2>4, SetsTwo
<1>4. CASE ~Methods!Has(o, lower) /\ Methods!Has(o, upper)
  <2>1. PICK p : p = Methods!Put(o, lower, up)
    OBVIOUS
  <2>2. Sets(o, lower, {up}, p)
    BY <2>1, PutSets
  <2>3. q = Methods!Delete(p, upper)
    BY <1>0, <1>1, <1>4, <2>1 DEF Methods!Swap
  <2>4. Sets(p, upper, {}, q)
    BY <2>2, <2>3, DeleteSets DEF Sets
  <2>. QED BY <1>0, <1>2, <1>4, <2>2, <2>4, SetsTwo
<1>5. CASE Methods!Has(o, lower) /\ ~Methods!Has(o, upper)
  <2>1. PICK p : p = Methods!Delete(o, lower)
    OBVIOUS
  <2>2. Sets(o, lower, {}, p)
    BY <2>1, DeleteSets
  <2>3. q = Methods!Put(p, upper, low)
    BY <1>0, <1>1, <1>5, <2>1 DEF Methods!Swap
  <2>4. Sets(p, upper, {low}, q)
    BY <2>2, <2>3, PutSets DEF Sets
  <2>. QED BY <1>0, <1>2, <1>5, <2>2, <2>4, SetsTwo
<1>6. CASE ~Methods!Has(o, lower) /\ ~Methods!Has(o, upper)
  <2>1. q = o
    BY <1>0, <1>6 DEF Methods!Swap
  <2>2. Own(o, lower) = {} /\ Own(o, upper) = {}
    BY <1>2, <1>6, ViewIs
  <2>. QED BY <1>0, <1>2, <1>6, <2>1, <2>2 DEF Exchanged
<1>. QED BY <1>3, <1>4, <1>5, <1>6

(* n elements from either end have changed places.                          *)
Outer(len, n, i) == i < n \/ (len - n <= i /\ i < len)
EndsTurned(o, p, n) ==
  /\ IsObject(p) /\ p.array = o.array /\ p.length = o.length
  /\ \A i \in Nat : Own(p, i) = IF Outer(o.length, n, i) THEN View(o, o.length - 1 - i) ELSE Own(o, i)

LEMMA OuterNext ==
  ASSUME NEW len \in Nat, NEW n \in Nat, n < len, NEW upper \in Nat, upper = len - 1 - n,
         NEW i \in Nat
  PROVE  Outer(len, n + 1, i) <=> (i = n \/ i = upper \/ Outer(len, n, i))
<1>1. i < n + 1 <=> i = n \/ i < n
  OBVIOUS
<1>2. len - (n + 1) <= i /\ i < len <=> i = upper \/ (len - n <= i /\ i < len)
  OBVIOUS
<1>. QED BY <1>1, <1>2 DEF Outer

LEMMA TurnsOn ==
  ASSUME NEW o, IsObject(o), NEW len \in Nat, len = o.length, NEW n \in Nat, 2 * n + 2 <= len,
         NEW p, EndsTurned(o, p, n), NEW q, q = Methods!Swap(p, n, len - 1 - n)
  PROVE  EndsTurned(o, q, n + 1)
<1>1. PICK upper \in Nat : upper = len - 1 - n /\ upper # n /\ n < len /\ upper < len /\ n = len - 1 - upper
  OBVIOUS
<1>2. /\ IsObject(p) /\ p.array = o.array /\ p.length = len
      /\ \A i \in Nat : Own(p, i) = IF Outer(len, n, i) THEN View(o, len - 1 - i) ELSE Own(o, i)
  BY DEF EndsTurned
<1>3. ~Outer(len, n, n) /\ ~Outer(len, n, upper)
  BY <1>1 DEF Outer
<1>4. View(p, n) = View(o, n) /\ View(p, upper) = View(o, upper)
  <2>1. Own(p, n) = Own(o, n) /\ Own(p, upper) = Own(o, upper)
    BY <1>2, <1>3
  <2>. QED BY <2>1, ViewSame
<1>5. Exchanged(p, q, n, upper)
  BY <1>1, <1>2, SwapExchanges
<1>6. /\ IsObject(q) /\ q.array = o.array /\ q.length = len
      /\ Own(q, n) = View(o, upper) /\ Own(q, upper) = View(o, n)
      /\ \A i : i # n /\ i # upper => Own(q, i) = Own(p, i)
  BY <1>2, <1>4, <1>5 DEF Exchanged
<1>7. ASSUME NEW i \in Nat
      PROVE  Own(q, i) = IF Outer(len, n + 1, i) THEN View(o, len - 1 - i) ELSE Own(o, i)
  <2>1. Outer(len, n + 1, i) <=> (i = n \/ i = upper \/ Outer(len, n, i))
    BY <1>1, OuterNext
  <2>2. CASE i = n
    BY <1>1, <1>6, <2>1, <2>2
  <2>3. CASE i = upper
    BY <1>1, <1>6, <2>1, <2>3
  <2>4. CASE i # n /\ i # upper
    BY <1>2, <1>6, <2>1, <2>4
  <2>. QED BY <2>2, <2>3, <2>4
<1>. QED BY <1>6, <1>7 DEF EndsTurned

LEMMA ReverseMeets ==
  ASSUME MaxLength \in Nat, NEW o, IsObject(o), NEW r, r = Methods!Reversed(o)
  PROVE  Methods!ReversePromise(o, r[1]) /\ IsObject(r[1])
<1>0. PICK len \in Nat : len = o.length
  BY Lengths
<1>1. PICK m \in Nat : m = len \div 2 /\ 2 * m <= len /\ len <= 2 * m + 1
  OBVIOUS
<1>2. PICK f : f = CHOOSE g : Looping("swap", o, m, len, 0, 0, g)
  OBVIOUS
<1>3. Looping("swap", o, m, len, 0, 0, f)
  BY <1>2, LoopingExists
<1>4. r[1] = f[m]
  BY <1>0, <1>1, <1>2 DEF Methods!Reversed, Looping, Step
<1>5. f[0] = o /\ \A n \in 1 .. m : f[n] = Methods!Swap(f[n - 1], n - 1, len - n)
  <2>1. f[0] = o
    BY <1>3, LoopingSteps
  <2>2. ASSUME NEW n \in 1 .. m PROVE f[n] = Step("swap", f[n - 1], n, len, 0, 0)
    BY <1>3, LoopingStep
  <2>. QED BY <2>1, <2>2, StepIs
<1>. DEFINE S == {n \in 0 .. m : EndsTurned(o, f[n], n)}
<1>6. 0 \in S
  <2>1. \A i \in Nat : ~Outer(o.length, 0, i)
    BY <1>0 DEF Outer
  <2>. QED BY <1>5, <2>1 DEF EndsTurned
<1>7. ASSUME NEW n \in 0 .. m - 1, n \in S PROVE n + 1 \in S
  <2>1. /\ n \in Nat /\ n + 1 \in 1 .. m /\ n + 1 \in 0 .. m /\ (n + 1) - 1 = n
        /\ len - (n + 1) = len - 1 - n /\ 2 * n + 2 <= len
    BY <1>1
  <2>2. EndsTurned(o, f[n], n)
    BY <1>7
  <2>. HIDE DEF S
  <2>3. f[n + 1] = Methods!Swap(f[n], n, len - 1 - n)
    BY <1>5, <2>1
  <2>4. EndsTurned(o, f[n + 1], n + 1)
    BY <1>0, <2>1, <2>2, <2>3, TurnsOn
  <2>. QED BY <2>1, <2>4 DEF S
<1>. HIDE DEF S
<1>8. \A n \in 0 .. m : n \in S
  BY <1>6, <1>7, UpInduction
<1>9. EndsTurned(o, r[1], m)
  BY <1>4, <1>8 DEF S
<1>10. /\ IsObject(r[1]) /\ r[1].length = o.length
       /\ \A i \in Nat : Own(r[1], i) = IF Outer(len, m, i) THEN View(o, len - 1 - i) ELSE Own(o, i)
  BY <1>0, <1>9 DEF EndsTurned
<1>11. ASSUME NEW i \in Methods!Places
       PROVE  Own(r[1], i) = IF i < o.length /\ 2 * i + 1 # o.length
                             THEN View(o, o.length - 1 - i) ELSE Own(o, i)
  <2>1. i \in Nat
    BY PlacesAre
  <2>2. Outer(len, m, i) <=> i < len /\ 2 * i + 1 # len
    BY <1>1, <2>1 DEF Outer
  <2>. QED BY <1>0, <1>10, <2>1, <2>2
<1>12. \A i \in Methods!Places :
         Methods!Own(r[1], i) = IF i < o.length /\ 2 * i + 1 # o.length
                                THEN Methods!View(o, o.length - 1 - i) ELSE Methods!Own(o, i)
  BY <1>11 DEF Own, View
<1>. QED BY <1>10, <1>12 DEF Methods!ReversePromise, Methods!Left

-----------------------------------------------------------------------------
(* concat                                                                  *)
(* What concat has gathered: an array and its length.                       *)
Gathered(x, r, n) == x = [result |-> r, index |-> n]
GatheredSoFar(x) ==
  /\ IsObject(x.result) /\ x.result.array = TRUE
  /\ x.index \in Nat /\ x.result.length = x.index

PartSize(o, part) == Methods!PartSize(o, part)
PartElement(o, part, i) == IF part = None THEN View(o, i) ELSE {part}
AddsPart(o, part, x, y) ==
  /\ GatheredSoFar(y) /\ y.index = x.index + PartSize(o, part)
  /\ \A i \in Nat : i < x.index => Own(y.result, i) = Own(x.result, i)
  /\ \A i \in Nat : i < PartSize(o, part) => Own(y.result, x.index + i) = PartElement(o, part, i)

IsAppended(o, part, index, q) ==
  /\ IsObject(q) /\ q.array = TRUE /\ q.length = index + o.length
  /\ \A i \in Nat : i < index => Own(q, i) = Own(part, i)
  /\ \A i \in Nat : i < o.length => Own(q, index + i) = View(o, i)

LEMMA AppendedObject ==
  ASSUME NEW o, IsObject(o), NEW part, IsObject(part), part.array = TRUE, NEW index \in Nat,
         part.length = index, NEW q, q = Methods!Appended(part, index, o)
  PROVE  IsAppended(o, part, index, q)
<1>0. PICK len \in Nat : len = o.length
  BY Lengths
<1>1. Bare(part, index)
  BY NoneBeyond DEF Bare
<1>2. PICK p : p = Methods!CopyTo(part, index, o, 0, len)
  OBVIOUS
<1>3. CopiesFrom(part, p, index, len, o, 0)
  BY <1>1, <1>2, CopyToSpreads
<1>4. PICK F : /\ \A i \in Nat : Inside(index, i, len) => F[i] = View(o, 0 + (i - index))
               /\ Spread(part, p, index, len, F)
  BY <1>3 DEF CopiesFrom
<1>5. /\ IsObject(p) /\ p.array = TRUE
      /\ \A i \in Nat : Own(p, i) = IF Inside(index, i, len) THEN F[i] ELSE Own(part, i)
  BY <1>4 DEF Spread
<1>6. p.length \in Nat /\ p.length <= index + len
  <2>1. PICK b \in Nat : b = index + len
    OBVIOUS
  <2>2. part.length <= b /\ \A i \in Nat : Inside(index, i, len) => F[i] = {} \/ i < b
    BY <2>1 DEF Inside
  <2>3. p.length <= b
    BY <1>4, <2>2 DEF Spread
  <2>. QED BY <1>5, <2>1, <2>3, Lengths
<1>7. ASSUME NEW i \in Nat, i < index PROVE Own(p, i) = Own(part, i)
  BY <1>5, <1>7 DEF Inside
<1>8. ASSUME NEW i \in Nat, i < len PROVE Own(p, index + i) = View(o, i)
  <2>1. PICK j \in Nat : j = index + i
    OBVIOUS
  <2>2. Inside(index, j, len) /\ 0 + (j - index) = i
    BY <1>8, <2>1 DEF Inside
  <2>. QED BY <1>4, <1>5, <2>1, <2>2
<1>9. PICK set_length : set_length = IF o.length > 0 /\ Methods!Has(o, o.length - 1) THEN o.length ELSE 0
  OBVIOUS
<1>10. q = IF o.length # set_length THEN Methods!PutLength(p, index + o.length) ELSE p
  BY <1>0, <1>2, <1>9 DEF Methods!Appended
<1>11. CASE o.length # set_length
  <2>1. q = Methods!PutLength(p, index + len)
    BY <1>0, <1>10, <1>11
  <2>2. PICK m \in Nat : m = index + len
    OBVIOUS
  <2>3. /\ IsObject(q) /\ q.array = p.array /\ q.length = m
        /\ \A i \in Nat : Own(q, i) = IF p.array /\ i >= m THEN {} ELSE Own(p, i)
    <3>1. q = Methods!PutLength(p, m) /\ IsObject(p)
      BY <1>5, <2>1, <2>2
    <3>2. LengthSet(p, m, q)
      BY <3>1, LengthSets
    <3>. QED BY <3>2 DEF LengthSet
  <2>4. \A i \in Nat : i < m => Own(q, i) = Own(p, i)
    BY <1>5, <2>2, <2>3
  <2>5. ASSUME NEW i \in Nat, i < index PROVE Own(q, i) = Own(part, i)
    BY <1>7, <2>2, <2>4, <2>5
  <2>6. ASSUME NEW i \in Nat, i < len PROVE Own(q, index + i) = View(o, i)
    <3>1. PICK j \in Nat : j = index + i
      OBVIOUS
    <3>2. j < m
      BY <2>2, <2>6, <3>1
    <3>. QED BY <1>8, <2>4, <2>6, <3>1, <3>2
  <2>. QED BY <1>0, <1>5, <2>2, <2>3, <2>5, <2>6 DEF IsAppended
<1>12. CASE o.length = set_length
  <2>1. q = p
    BY <1>10, <1>12
  <2>2. CASE len = 0
    BY <1>0, <1>4, <1>5, <1>6, <1>7, <1>8, <2>1, <2>2 DEF Spread, IsAppended
  <2>3. CASE len # 0
    <3>1. PICK n \in Nat : n = len - 1 /\ n < len
      BY <2>3
    <3>2. Methods!Has(o, n)
      BY <1>0, <1>9, <1>12, <2>3, <3>1
    <3>3. PICK j \in Nat : j = index + n /\ j + 1 = index + len
      BY <3>1
    <3>4. Own(p, j) # {}
      BY <1>8, <3>1, <3>2, <3>3, ViewIs
    <3>5. j < p.length
      BY <1>5, <1>6, <3>4, NoneBeyond
    <3>6. p.length = index + len
      BY <1>6, <3>3, <3>5
    <3>. QED BY <1>0, <1>5, <1>7, <1>8, <2>1, <3>6 DEF IsAppended
  <2>. QED BY <2>2, <2>3
<1>. QED BY <1>11, <1>12

LEMMA PartAdded ==
  ASSUME NEW o, IsObject(o), NEW parts, NEW n, NEW x, GatheredSoFar(x),
         NEW y, y = Step("concat", x, n, o, parts, 0)
  PROVE  AddsPart(o, parts[n], x, y)
<1>0. PICK part, was, index : part = parts[n] /\ was = x.result /\ index = x.index
  OBVIOUS
<1>1. IsObject(was) /\ was.array = TRUE /\ was.length = index /\ index \in Nat
  BY <1>0 DEF GatheredSoFar
<1>2. y = IF part = None
          THEN [result |-> Methods!Appended(was, index, o), index |-> index + o.length]
          ELSE [result |-> Methods!Put(was, index, part), index |-> index + 1]
  BY <1>0, StepIs DEF Methods!Gather
<1>3. o.length \in Nat
  BY Lengths
<1>4. CASE part = None
  <2>1. PICK q : q = Methods!Appended(was, index, o)
    OBVIOUS
  <2>2. y.result = q /\ y.index = index + o.length
    BY <1>2, <1>4, <2>1
  <2>3. /\ IsObject(q) /\ q.array = TRUE /\ q.length = index + o.length
        /\ \A i \in Nat : i < index => Own(q, i) = Own(was, i)
        /\ \A i \in Nat : i < o.length => Own(q, index + i) = View(o, i)
    <3>1. IsAppended(o, was, index, q)
      BY <1>1, <2>1, AppendedObject
    <3>. QED BY <3>1 DEF IsAppended
  <2>. QED BY <1>0, <1>3, <1>4, <2>2, <2>3
       DEF AddsPart, GatheredSoFar, PartSize, Methods!PartSize, PartElement
<1>5. CASE part # None
  <2>1. PICK q : q = Methods!Put(was, index, part)
    OBVIOUS
  <2>2. y.result = q /\ y.index = index + 1
    BY <1>2, <1>5, <2>1
  <2>3. Sets(was, index, {part}, q)
    BY <1>1, <2>1, PutSets
  <2>4. /\ IsObject(q) /\ q.array = TRUE /\ q.length = index + 1
        /\ Own(q, index) = {part} /\ \A j : j # index => Own(q, j) = Own(was, j)
    BY <1>1, <2>3 DEF Sets
  <2>5. \A i \in Nat : i < 1 => index + i = index
    BY <1>1
  <2>6. \A i \in Nat : i < index => i # index
    BY <1>1
  <2>. QED BY <1>0, <1>5, <2>2, <2>4, <2>5, <2>6
       DEF AddsPart, GatheredSoFar, PartSize, Methods!PartSize, PartElement
<1>. QED BY <1>4, <1>5

(* The parts that have been added, each where the ones before it end.       *)
HasParts(o, parts, n, ends, x) ==
  /\ GatheredSoFar(x) /\ x.index = ends[n]
  /\ \A k \in 1 .. n : /\ ends[k - 1] \in Nat /\ ends[k - 1] + PartSize(o, parts[k]) <= x.index
                       /\ \A i \in Nat : i < PartSize(o, parts[k]) =>
                            Own(x.result, ends[k - 1] + i) = PartElement(o, parts[k], i)

LEMMA PartsGrow ==
  ASSUME NEW o, IsObject(o), NEW parts, NEW n \in Nat, NEW ends, NEW x,
         HasParts(o, parts, n, ends, x), NEW y, AddsPart(o, parts[n + 1], x, y),
         ends[n + 1] = ends[n] + PartSize(o, parts[n + 1])
  PROVE  HasParts(o, parts, n + 1, ends, y)
<1>1. GatheredSoFar(x) /\ x.index = ends[n] /\ x.index \in Nat
  BY DEF HasParts, GatheredSoFar
<1>2. GatheredSoFar(y) /\ y.index = ends[n + 1] /\ y.index = x.index + PartSize(o, parts[n + 1])
  BY <1>1 DEF AddsPart
<1>3. \A k : PartSize(o, parts[k]) \in Nat
  BY Lengths DEF PartSize, Methods!PartSize
<1>4. ASSUME NEW k \in 1 .. n + 1
      PROVE  /\ ends[k - 1] \in Nat /\ ends[k - 1] + PartSize(o, parts[k]) <= y.index
             /\ \A i \in Nat : i < PartSize(o, parts[k]) =>
                  Own(y.result, ends[k - 1] + i) = PartElement(o, parts[k], i)
  <2>1. PICK from, size : from = ends[k - 1] /\ size = PartSize(o, parts[k])
    OBVIOUS
  <2>2. CASE k = n + 1
    <3>1. from = x.index /\ size = PartSize(o, parts[n + 1]) /\ k - 1 = n
      BY <1>1, <2>1, <2>2
    <3>2. \A i \in Nat : i < PartSize(o, parts[n + 1]) =>
            Own(y.result, x.index + i) = PartElement(o, parts[n + 1], i)
      BY DEF AddsPart
    <3>. QED BY <1>1, <1>2, <1>3, <2>1, <2>2, <3>1, <3>2
  <2>3. CASE k # n + 1
    <3>1. k \in 1 .. n
      BY <2>3
    <3>2. /\ from \in Nat /\ from + size <= x.index
          /\ \A i \in Nat : i < size => Own(x.result, from + i) = PartElement(o, parts[k], i)
      BY <2>1, <3>1 DEF HasParts
    <3>3. size \in Nat /\ x.index <= y.index /\ y.index \in Nat
      BY <1>1, <1>2, <1>3, <2>1
    <3>4. ASSUME NEW i \in Nat, i < size PROVE Own(y.result, from + i) = PartElement(o, parts[k], i)
      <4>1. PICK j \in Nat : j = from + i /\ j < x.index
        BY <1>1, <3>2, <3>3, <3>4
      <4>2. Own(y.result, j) = Own(x.result, j)
        BY <4>1 DEF AddsPart
      <4>. QED BY <3>2, <3>4, <4>1, <4>2
    <3>. QED BY <1>1, <2>1, <3>2, <3>3, <3>4
  <2>. QED BY <2>2, <2>3
<1>. QED BY <1>2, <1>4 DEF HasParts

LEMMA ConcatMeets ==
  ASSUME MaxLength \in Nat, NEW o, IsObject(o), NEW args, Len(<<None>> \o args) \in Nat,
         NEW r, r = Methods!Concatenated(o, args)
  PROVE  Methods!ConcatPromise(o, r[1], args, r[2]) /\ IsObject(r[1])
<1>1. PICK parts : parts = <<None>> \o args
  OBVIOUS
<1>0. PICK m \in Nat : m = Len(parts)
  BY <1>1
<1>2. PICK e : e = [result |-> Methods!EmptyArray, index |-> 0]
  OBVIOUS
<1>3. PICK f : f = CHOOSE g : Looping("concat", e, m, o, parts, 0, g)
  OBVIOUS
<1>4. Looping("concat", e, m, o, parts, 0, f)
  BY <1>3, LoopingExists
<1>5. r[1] = o /\ r[2] = f[m].result
  BY <1>0, <1>1, <1>2, <1>3, ZenonT(30) DEF Methods!Concatenated, Looping, Step
<1>6. PICK ends : ends = CHOOSE g : Looping("ends", 0, m, o, parts, 0, g)
  OBVIOUS
<1>7. Looping("ends", 0, m, o, parts, 0, ends)
  BY <1>6, LoopingExists
<1>8. f[0] = e /\ \A n \in 1 .. m : f[n] = Step("concat", f[n - 1], n, o, parts, 0)
  BY <1>4, LoopingStart, LoopingStep
<1>9. ends[0] = 0 /\ \A n \in 1 .. m : ends[n] = ends[n - 1] + PartSize(o, parts[n])
  <2>1. ends[0] = 0
    BY <1>7, LoopingStart
  <2>2. ASSUME NEW n \in 1 .. m PROVE ends[n] = Step("ends", ends[n - 1], n, o, parts, 0)
    BY <1>7, LoopingStep
  <2>. QED BY <2>1, <2>2, StepIs DEF PartSize
<1>. DEFINE S == {n \in 0 .. m : HasParts(o, parts, n, ends, f[n])}
<1>10. 0 \in S
  <2>1. f[0].result = Methods!EmptyArray /\ f[0].index = 0
    BY <1>2, <1>8
  <2>2. GatheredSoFar(f[0])
    BY <2>1, EmptyIs DEF GatheredSoFar
  <2>. QED BY <1>9, <2>1, <2>2 DEF HasParts
<1>11. ASSUME NEW n \in 0 .. m - 1, n \in S PROVE n + 1 \in S
  <2>1. n \in Nat /\ n + 1 \in 1 .. m /\ n + 1 \in 0 .. m /\ (n + 1) - 1 = n
    OBVIOUS
  <2>2. HasParts(o, parts, n, ends, f[n])
    BY <1>11
  <2>. HIDE DEF S
  <2>3. /\ f[n + 1] = Step("concat", f[n], n + 1, o, parts, 0)
        /\ ends[n + 1] = ends[n] + PartSize(o, parts[n + 1])
    BY <1>8, <1>9, <2>1
  <2>4. AddsPart(o, parts[n + 1], f[n], f[n + 1])
    BY <2>2, <2>3, PartAdded DEF HasParts
  <2>5. HasParts(o, parts, n + 1, ends, f[n + 1])
    BY <2>1, <2>2, <2>3, <2>4, PartsGrow
  <2>. QED BY <2>1, <2>5 DEF S
<1>. HIDE DEF S
<1>12. \A n \in 0 .. m : n \in S
  BY <1>10, <1>11, UpInduction
<1>13. HasParts(o, parts, m, ends, f[m])
  BY <1>12 DEF S
<1>14. r[2].length = ends[m]
  BY <1>5, <1>13 DEF HasParts, GatheredSoFar
<1>15. ASSUME NEW n \in 1 .. m, NEW i \in 0 .. MaxLength, i < PartSize(o, parts[n])
       PROVE  Own(r[2], ends[n - 1] + i) = PartElement(o, parts[n], i)
  <2>1. i \in Nat
    OBVIOUS
  <2>. QED BY <1>5, <1>13, <1>15, <2>1 DEF HasParts
<1>16. ends = Methods!PartsEnd(o, parts)
  BY <1>0, <1>6 DEF Looping, Step, Methods!PartsEnd
<1>17. PICK v : v = r[2]
  OBVIOUS
<1>18. \A n \in 1 .. m, i \in 0 .. MaxLength :
         i < Methods!PartSize(o, parts[n]) =>
           Methods!Own(v, ends[n - 1] + i) = IF parts[n] = None THEN Methods!View(o, i) ELSE {parts[n]}
  BY <1>15, <1>17 DEF PartSize, PartElement, Own, View
<1>19. Methods!ConcatPromise(o, o, args, v)
  BY <1>0, <1>1, <1>14, <1>16, <1>17, <1>18, Zenon DEF Methods!ConcatPromise
<1>. QED BY <1>5, <1>17, <1>19

-----------------------------------------------------------------------------
(* sort                                                                    *)
LEMMA CardinalitySame == ASSUME NEW S PROVE Methods!Cardinality(S) = Cardinality(S)
BY DEF Methods!Cardinality, Cardinality

LEMMA BijectionSame == ASSUME NEW S, NEW T PROVE Methods!Bijection(S, T) = Bijection(S, T)
BY DEF Methods!Bijection, Bijection, Methods!Injection, Injection, Methods!Surjection, Surjection,
       Methods!IsInjective, IsInjective

(* Any pairs of numbers can be put in order: the place of each is how many  *)
(* are lower, counting of two that are equal the first as the lower.        *)
Lower(a, b, j, i) == a[j] < a[i] \/ (a[j] = a[i] /\ (b[j] < b[i] \/ (b[j] = b[i] /\ j < i)))
AllLower(a, b, m, i) == {j \in 1 .. m : Lower(a, b, j, i)}

LEMMA LowerCounts ==
  ASSUME NEW m \in Nat, NEW a \in [1 .. m -> Int], NEW b \in [1 .. m -> Int], NEW i \in 1 .. m
  PROVE  /\ IsFiniteSet(AllLower(a, b, m, i)) /\ Cardinality(AllLower(a, b, m, i)) \in 0 .. m - 1
         /\ \A j \in 1 .. m : Lower(a, b, j, i) =>
              Cardinality(AllLower(a, b, m, j)) < Cardinality(AllLower(a, b, m, i))
<1>1. PICK all : all = 1 .. m
  OBVIOUS
<1>2. IsFiniteSet(all) /\ Cardinality(all) = m
  <2>1. 1 \in Int /\ m \in Int
    OBVIOUS
  <2>2. IsFiniteSet(1 .. m) /\ Cardinality(1 .. m) = IF 1 > m THEN 0 ELSE m - 1 + 1
    BY <2>1, FS_Interval
  <2>. QED BY <1>1, <2>2
<1>3. ASSUME NEW k \in 1 .. m
      PROVE  AllLower(a, b, m, k) \in SUBSET all /\ k \notin AllLower(a, b, m, k)
  BY <1>1 DEF AllLower, Lower
<1>4. ASSUME NEW k \in 1 .. m
      PROVE  IsFiniteSet(AllLower(a, b, m, k)) /\ Cardinality(AllLower(a, b, m, k)) \in Nat
             /\ Cardinality(AllLower(a, b, m, k)) <= m /\ Cardinality(AllLower(a, b, m, k)) # m
  <2>1. AllLower(a, b, m, k) \in SUBSET all /\ AllLower(a, b, m, k) # all
    BY <1>1, <1>3
  <2>2. IsFiniteSet(AllLower(a, b, m, k))
    BY <1>2, <2>1, FS_Subset
  <2>3. /\ Cardinality(AllLower(a, b, m, k)) <= Cardinality(all)
        /\ Cardinality(all) = Cardinality(AllLower(a, b, m, k)) => all = AllLower(a, b, m, k)
    BY <1>2, <2>1, FS_Subset
  <2>4. Cardinality(AllLower(a, b, m, k)) \in Nat
    BY <2>2, FS_CardinalityType
  <2>. QED BY <1>2, <2>1, <2>2, <2>3, <2>4
<1>5. ASSUME NEW j \in 1 .. m, Lower(a, b, j, i)
      PROVE  Cardinality(AllLower(a, b, m, j)) < Cardinality(AllLower(a, b, m, i))
  <2>1. PICK x, y : x = AllLower(a, b, m, j) /\ y = AllLower(a, b, m, i)
    OBVIOUS
  <2>2. \A k \in 1 .. m : Lower(a, b, k, j) => Lower(a, b, k, i)
    BY <1>5 DEF Lower
  <2>3. x \in SUBSET y /\ j \in y /\ j \notin x
    BY <1>3, <1>5, <2>1, <2>2 DEF AllLower
  <2>4. IsFiniteSet(y) /\ Cardinality(x) \in Nat /\ Cardinality(y) \in Nat
    BY <1>4, <2>1
  <2>5. Cardinality(x) <= Cardinality(y) /\ (Cardinality(y) = Cardinality(x) => y = x)
    BY <2>3, <2>4, FS_Subset
  <2>. QED BY <2>1, <2>3, <2>4, <2>5
<1>. QED BY <1>4, <1>5

LEMMA OrderExists ==
  ASSUME NEW m \in Nat, NEW a \in [1 .. m -> Int], NEW b \in [1 .. m -> Int]
  PROVE  \E p \in Bijection(1 .. m, 1 .. m) :
           \A j, k \in 1 .. m : j < k =>
             a[p[j]] < a[p[k]] \/ (a[p[j]] = a[p[k]] /\ b[p[j]] <= b[p[k]])
<1>1. PICK pos : pos = [i \in 1 .. m |-> Cardinality(AllLower(a, b, m, i)) + 1]
  OBVIOUS
<1>2. ASSUME NEW i \in 1 .. m
      PROVE  /\ pos[i] \in 1 .. m
             /\ \A j \in 1 .. m : Lower(a, b, j, i) => pos[j] < pos[i]
  <2>1. Cardinality(AllLower(a, b, m, i)) \in 0 .. m - 1
    BY LowerCounts
  <2>2. ASSUME NEW j \in 1 .. m, Lower(a, b, j, i) PROVE pos[j] < pos[i]
    <3>1. Cardinality(AllLower(a, b, m, j)) < Cardinality(AllLower(a, b, m, i))
      BY <2>2, LowerCounts
    <3>2. Cardinality(AllLower(a, b, m, j)) \in 0 .. m - 1
      BY LowerCounts
    <3>. QED BY <1>1, <2>1, <3>1, <3>2
  <2>. QED BY <1>1, <2>1, <2>2
<1>3. pos \in [1 .. m -> 1 .. m]
  BY <1>1, <1>2
<1>4. ASSUME NEW i \in 1 .. m, NEW j \in 1 .. m, i # j PROVE pos[i] # pos[j]
  <2>1. Lower(a, b, i, j) \/ Lower(a, b, j, i)
    BY <1>4 DEF Lower
  <2>. QED BY <1>2, <2>1
<1>5. PICK all : all = 1 .. m
  OBVIOUS
<1>6. IsFiniteSet(all)
  <2>1. 1 \in Int /\ m \in Int
    OBVIOUS
  <2>. QED BY <1>5, <2>1, FS_Interval
<1>7. pos \in Injection(all, all)
  BY <1>3, <1>4, <1>5, Fun_IsInj
<1>8. pos \in Surjection(all, all)
  BY <1>6, <1>7, FS_Injection
<1>9. \A k \in all : \E i \in all : pos[i] = k
  BY <1>8, Fun_SurjectionProperties
<1>10. PICK p : p = [k \in all |-> CHOOSE i \in all : pos[i] = k]
  OBVIOUS
<1>11. ASSUME NEW k \in all PROVE p[k] \in all /\ pos[p[k]] = k
  <2>1. p[k] = CHOOSE i \in all : pos[i] = k
    BY <1>10
  <2>2. \E i \in all : pos[i] = k
    BY <1>9
  <2>. QED BY <2>1, <2>2
<1>12. p \in [all -> all]
  BY <1>10, <1>11
<1>13. \A j, k \in all : p[j] = p[k] => j = k
  BY <1>11
<1>14. \A i \in all : \E k \in all : p[k] = i
  <2>1. ASSUME NEW i \in all PROVE pos[i] \in all /\ p[pos[i]] = i
    <3>1. pos[i] \in all
      BY <1>3, <1>5
    <3>2. p[pos[i]] \in all /\ pos[p[pos[i]]] = pos[i]
      BY <1>11, <3>1
    <3>. QED BY <1>4, <1>5, <3>1, <3>2
  <2>. QED BY <2>1
<1>15. p \in Bijection(all, all)
  BY <1>12, <1>13, <1>14, Fun_IsBij
<1>16. ASSUME NEW j \in 1 .. m, NEW k \in 1 .. m, j < k
       PROVE  a[p[j]] < a[p[k]] \/ (a[p[j]] = a[p[k]] /\ b[p[j]] <= b[p[k]])
  <2>1. PICK x \in 1 .. m, y \in 1 .. m : x = p[j] /\ y = p[k] /\ pos[x] = j /\ pos[y] = k
    BY <1>5, <1>11
  <2>2. ~Lower(a, b, y, x)
    <3>1. Lower(a, b, y, x) => pos[y] < pos[x]
      BY <1>2
    <3>2. ~(pos[y] < pos[x])
      BY <1>16, <2>1
    <3>. QED BY <3>1, <3>2
  <2>3. a[x] \in Int /\ a[y] \in Int /\ b[x] \in Int /\ b[y] \in Int
    OBVIOUS
  <2>4. a[x] < a[y] \/ (a[x] = a[y] /\ b[x] <= b[y])
    BY <2>2, <2>3 DEF Lower
  <2>. QED BY <2>1, <2>4
<1>. QED BY <1>5, <1>15, <1>16

Rank(v) == IF v = None THEN 2 ELSE IF v = Undefined THEN 1 ELSE 0
Number(v) == IF v \in Values THEN v ELSE 0

LEMMA RanksAreInts ==
  ASSUME LibraryConstants, NEW v
  PROVE  Rank(v) \in Int /\ Number(v) \in Int
<1>1. Values \subseteq Int
  BY DEF LibraryConstants
<1>2. Rank(v) = 0 \/ Rank(v) = 1 \/ Rank(v) = 2
  BY DEF Rank
<1>3. Number(v) = 0 \/ Number(v) \in Values
  BY DEF Number
<1>4. 0 \in Int /\ 1 \in Int /\ 2 \in Int
  OBVIOUS
<1>5. Rank(v) \in Int
  BY <1>2, <1>4, Zenon
<1>6. Number(v) \in Int
  BY <1>1, <1>3, <1>4, Zenon
<1>. QED BY <1>5, <1>6

LEMMA BeforeIs ==
  ASSUME LibraryConstants, NEW x \in Methods!Elements \cup {None}, NEW y \in Methods!Elements \cup {None}
  PROVE  Methods!Before(x, y) <=> Rank(x) < Rank(y) \/ (Rank(x) = Rank(y) /\ Number(x) < Number(y))
<1>1. ASSUME NEW v \in Methods!Elements \cup {None}
      PROVE  \/ v = None /\ v # Undefined /\ v \notin Values
             \/ v = Undefined /\ v # None /\ v \notin Values
             \/ v \in Values /\ v # Undefined /\ v # None /\ v \in Int
  BY DEF LibraryConstants, Methods!Elements
<1>2. CASE x \in Values /\ y \in Values
  BY <1>1, <1>2 DEF Methods!Before, Rank, Number
<1>3. CASE ~(x \in Values /\ y \in Values)
  BY <1>1, <1>3 DEF Methods!Before, Rank, Number
<1>. QED BY <1>2, <1>3

\* s is the values in order, by this order of their places.
IsOrdered(values, m, p, s) ==
  /\ p \in Bijection(1 .. m, 1 .. m) /\ s = [n \in 1 .. m |-> values[p[n]]]
  /\ \A j, k \in 1 .. m : j < k => ~Methods!Before(s[k], s[j])

LEMMA InOrderIs ==
  ASSUME LibraryConstants, NEW m \in Nat, NEW values \in [1 .. m -> Methods!Elements \cup {None}]
  PROVE  \E p : IsOrdered(values, m, p, Methods!InOrder(values))
<1>1. PICK a : a = [i \in 1 .. m |-> Rank(values[i])]
  OBVIOUS
<1>2. PICK b : b = [i \in 1 .. m |-> Number(values[i])]
  OBVIOUS
<1>3. a \in [1 .. m -> Int] /\ b \in [1 .. m -> Int]
  <2>. QED BY <1>1, <1>2, RanksAreInts
<1>4. PICK q \in Bijection(1 .. m, 1 .. m) :
        \A j, k \in 1 .. m : j < k =>
          a[q[j]] < a[q[k]] \/ (a[q[j]] = a[q[k]] /\ b[q[j]] <= b[q[k]])
  BY <1>3, OrderExists
<1>5. q \in [1 .. m -> 1 .. m]
  BY Fun_BijectionProperties
<1>6. ASSUME NEW j \in 1 .. m, NEW k \in 1 .. m, j < k
      PROVE  ~Methods!Before(values[q[k]], values[q[j]])
  <2>1. PICK x \in 1 .. m, y \in 1 .. m : x = q[j] /\ y = q[k]
    BY <1>5
  <2>2. a[x] < a[y] \/ (a[x] = a[y] /\ b[x] <= b[y])
    BY <1>4, <1>6, <2>1
  <2>3. /\ a[x] = Rank(values[x]) /\ a[y] = Rank(values[y]) /\ b[x] = Number(values[x])
        /\ b[y] = Number(values[y]) /\ a[x] \in Int /\ a[y] \in Int /\ b[x] \in Int /\ b[y] \in Int
    BY <1>1, <1>2, <1>3
  <2>4. values[x] \in Methods!Elements \cup {None} /\ values[y] \in Methods!Elements \cup {None}
    OBVIOUS
  <2>5. Methods!Before(values[y], values[x]) <=> a[y] < a[x] \/ (a[y] = a[x] /\ b[y] < b[x])
    BY <2>3, <2>4, BeforeIs
  <2>. QED BY <2>1, <2>2, <2>3, <2>5
<1>7. DOMAIN values = 1 .. m
  OBVIOUS
<1>8. PICK p : p = CHOOSE r \in Methods!Bijection(DOMAIN values, DOMAIN values) :
                 \A j, k \in DOMAIN values : j < k => ~Methods!Before(values[r[k]], values[r[j]])
  OBVIOUS
<1>9. \E r \in Methods!Bijection(DOMAIN values, DOMAIN values) :
        \A j, k \in DOMAIN values : j < k => ~Methods!Before(values[r[k]], values[r[j]])
  BY <1>6, <1>7, BijectionSame
<1>10. /\ p \in Bijection(1 .. m, 1 .. m)
       /\ \A j, k \in 1 .. m : j < k => ~Methods!Before(values[p[k]], values[p[j]])
  <2>1. /\ p \in Methods!Bijection(DOMAIN values, DOMAIN values)
        /\ \A j, k \in DOMAIN values : j < k => ~Methods!Before(values[p[k]], values[p[j]])
    BY <1>8, <1>9, Zenon
  <2>. QED BY <1>7, <2>1, BijectionSame
<1>11. PICK s : s = Methods!InOrder(values)
  OBVIOUS
<1>12. s = [n \in 1 .. m |-> values[p[n]]]
  BY <1>7, <1>8, <1>11 DEF Methods!InOrder
<1>13. \A n \in 1 .. m : s[n] = values[p[n]]
  BY <1>12
<1>. QED BY <1>10, <1>11, <1>12, <1>13 DEF IsOrdered

FilledIn(o) == \A i \in Methods!Places : Own(o, i) \subseteq Methods!Elements

LEMMA ViewFilled ==
  ASSUME LibraryConstants, NEW o, FilledIn(o), NEW i \in Methods!Places
  PROVE  View(o, i) \subseteq Methods!Elements
<1>1. Below(i) \subseteq Methods!Elements
  BY DEF Below, LibraryConstants, Methods!Elements
<1>. QED BY <1>1, ViewIs DEF FilledIn

(* The elements of an object, or None where it has none, and those in order *)
(* where they come to be.                                                   *)
ListOf(o, m, values) ==
  values = [n \in 1 .. m |-> IF Methods!Has(o, n - 1) THEN Methods!Get(o, n - 1) ELSE None]
Shows(v) == IF v = None THEN {} ELSE {v}

LEMMA Listed ==
  ASSUME LibraryConstants, NEW o, IsObject(o), o.length <= MaxLength, FilledIn(o),
         NEW m \in Nat, m = o.length, NEW values, ListOf(o, m, values)
  PROVE  /\ values \in [1 .. m -> Methods!Elements \cup {None}]
         /\ \A i \in 0 .. m - 1 : View(o, i) = Shows(values[i + 1])
<1>1. None \notin Methods!Elements /\ MaxLength \in Nat
  BY DEF LibraryConstants, Methods!Elements
<1>2. ASSUME NEW i \in 0 .. m - 1
      PROVE  /\ values[i + 1] \in Methods!Elements \cup {None}
             /\ View(o, i) = Shows(values[i + 1])
  <2>1. i \in Methods!Places
    BY <1>1 DEF Methods!Places
  <2>2. i + 1 \in 1 .. m /\ (i + 1) - 1 = i
    OBVIOUS
  <2>3. values[i + 1] = IF Methods!Has(o, i) THEN Methods!Get(o, i) ELSE None
    BY <2>2 DEF ListOf
  <2>4. View(o, i) \subseteq Methods!Elements
    BY <2>1, ViewFilled
  <2>5. /\ Methods!Has(o, i) <=> View(o, i) # {}
        /\ Methods!Has(o, i) => View(o, i) = {Methods!Get(o, i)}
    BY ViewIs
  <2>. QED BY <1>1, <2>3, <2>4, <2>5 DEF Shows
<1>3. ASSUME NEW n \in 1 .. m PROVE values[n] \in Methods!Elements \cup {None}
  <2>1. n - 1 \in 0 .. m - 1 /\ (n - 1) + 1 = n
    OBVIOUS
  <2>. QED BY <1>2, <2>1
<1>4. values \in [1 .. m -> Methods!Elements \cup {None}]
  <2>1. values = [n \in 1 .. m |-> values[n]]
    BY DEF ListOf
  <2>. QED BY <1>3, <2>1
<1>. QED BY <1>2, <1>4

LEMMA SortedSpreads ==
  ASSUME NEW o, IsObject(o), NEW m \in Nat, m = o.length, NEW values, ListOf(o, m, values),
         NEW s, s = Methods!InOrder(values), NEW p, p = Methods!Sorted(o)[1]
  PROVE  \E F : (\A i \in 0 .. m - 1 : F[i] = Shows(s[i + 1])) /\ Spread(o, p, 0, m, F)
<1>2. PICK f : f = CHOOSE g : Looping("sort", o, m, s, 0, 0, g)
  OBVIOUS
<1>3. Looping("sort", o, m, s, 0, 0, f)
  BY <1>2, LoopingExists
<1>4. p = f[m]
  BY <1>2 DEF Methods!Sorted, ListOf, Looping, Step
<1>5. f[0] = o /\ \A n \in 1 .. m : f[n] = IF s[n] = None THEN Methods!Delete(f[n - 1], n - 1)
                                           ELSE Methods!Put(f[n - 1], n - 1, s[n])
  <2>1. f[0] = o
    BY <1>3, LoopingStart
  <2>2. \A n \in 1 .. m : f[n] = Step("sort", f[n - 1], n, s, 0, 0)
    BY ONLY m \in Nat, <1>3, LoopingSteps
  <2>. QED BY <2>1, <2>2, StepIs
<1>6. PICK F : F = [i \in 0 .. m - 1 |-> Shows(s[i + 1])]
  OBVIOUS
<1>7. \A i \in 0 .. m - 1 : F[i] = Shows(s[i + 1])
  BY <1>6
<1>10. PICK first \in Nat : first = 0
  OBVIOUS
<1>8. ASSUME NEW n \in 1 .. m, Spread(o, f[n - 1], first, n - 1, F)
      PROVE  Sets(f[n - 1], first + n - 1, F[first + n - 1], f[n])
  <2>1. PICK i \in Nat : i = n - 1 /\ i \in 0 .. m - 1 /\ i + 1 = n /\ first + n - 1 = i
    BY <1>10
  <2>2. F[i] = Shows(s[n]) /\ IsObject(f[n - 1])
    BY <1>7, <1>8, <2>1 DEF Spread
  <2>3. CASE s[n] = None
    <3>1. f[n] = Methods!Delete(f[n - 1], i) /\ F[i] = {}
      BY <1>5, <2>1, <2>2, <2>3 DEF Shows
    <3>2. Sets(f[n - 1], i, F[i], f[n])
      BY <2>2, <3>1, DeleteSets
    <3>. QED BY <2>1, <3>2
  <2>4. CASE s[n] # None
    <3>1. f[n] = Methods!Put(f[n - 1], i, s[n]) /\ F[i] = {s[n]}
      BY <1>5, <2>1, <2>2, <2>4 DEF Shows
    <3>2. Sets(f[n - 1], i, F[i], f[n])
      BY <2>2, <3>1, PutSets
    <3>. QED BY <2>1, <3>2
  <2>. QED BY <2>3, <2>4
<1>9. Spread(o, f[m], first, m, F)
  BY <1>5, <1>8, Ascending
<1>. QED BY <1>4, <1>7, <1>9, <1>10

(* As many places show a value before and after.                           *)
SameCount(m, values, p, v) ==
  Cardinality({i \in 0 .. m - 1 : values[i + 1] = v})
    = Cardinality({i \in 0 .. m - 1 : values[p[i + 1]] = v})

LEMMA SameCounts ==
  ASSUME NEW m \in Nat, NEW values, NEW p \in Bijection(1 .. m, 1 .. m), NEW v
  PROVE  SameCount(m, values, p, v)
<1>1. PICK A : A = {i \in 0 .. m - 1 : values[p[i + 1]] = v}
  OBVIOUS
<1>2. PICK B : B = {i \in 0 .. m - 1 : values[i + 1] = v}
  OBVIOUS
<1>3. /\ p \in [1 .. m -> 1 .. m] /\ \A j, k \in 1 .. m : p[j] = p[k] => j = k
      /\ \A k \in 1 .. m : \E j \in 1 .. m : p[j] = k
  BY Fun_BijectionProperties, ZenonT(30)
<1>4. PICK g : g = [i \in A |-> p[i + 1] - 1]
  OBVIOUS
<1>5. ASSUME NEW i \in A
      PROVE  /\ i \in Int /\ i + 1 \in 1 .. m /\ p[i + 1] \in 1 .. m /\ g[i] = p[i + 1] - 1
             /\ g[i] \in B
  <2>1. i \in 0 .. m - 1 /\ i + 1 \in 1 .. m /\ values[p[i + 1]] = v
    BY <1>1
  <2>2. PICK k \in 1 .. m : k = p[i + 1]
    BY <1>3, <2>1
  <2>3. g[i] = k - 1 /\ k - 1 \in 0 .. m - 1 /\ (k - 1) + 1 = k
    BY <1>4, <2>2
  <2>. QED BY <1>2, <2>1, <2>2, <2>3
<1>6. g \in [A -> B]
  BY <1>4, <1>5
<1>7. ASSUME NEW i \in A, NEW j \in A, g[i] = g[j] PROVE i = j
  <2>1. p[i + 1] = p[j + 1]
    BY <1>5, <1>7
  <2>2. i + 1 = j + 1
    BY <1>3, <1>5, <2>1
  <2>. QED BY <1>5, <2>2
<1>8. ASSUME NEW k \in B PROVE \E i \in A : g[i] = k
  <2>1. k \in 0 .. m - 1 /\ k + 1 \in 1 .. m /\ values[k + 1] = v
    BY <1>2
  <2>2. PICK j \in 1 .. m : p[j] = k + 1
    BY <1>3, <2>1
  <2>3. PICK i \in 0 .. m - 1 : i = j - 1 /\ i + 1 = j
    OBVIOUS
  <2>4. i \in A
    BY <1>1, <2>1, <2>2, <2>3
  <2>5. g[i] = k
    BY <1>5, <2>1, <2>2, <2>3, <2>4
  <2>. QED BY <2>4, <2>5
<1>9. g \in Bijection(A, B)
  BY <1>6, <1>7, <1>8, Fun_IsBij
<1>10. IsFiniteSet(A)
  <2>1. 0 \in Int /\ m - 1 \in Int
    OBVIOUS
  <2>2. IsFiniteSet(0 .. m - 1)
    BY <2>1, FS_Interval
  <2>3. A \in SUBSET (0 .. m - 1)
    BY <1>1
  <2>. QED BY <2>2, <2>3, FS_Subset
<1>11. ExistsBijection(A, B)
  BY <1>9 DEF ExistsBijection
<1>12. Cardinality(B) = Cardinality(A)
  BY <1>10, <1>11, FS_Bijection
<1>. QED BY <1>1, <1>2, <1>12 DEF SameCount

LEMMA SortMeets ==
  ASSUME LibraryConstants, NEW o, IsObject(o), o.length <= MaxLength, FilledIn(o),
         NEW r, r = Methods!Sorted(o)
  PROVE  Methods!SortPromise(o, r[1]) /\ IsObject(r[1]) /\ FilledIn(r[1])
<1>0. PICK m \in Nat : m = o.length
  BY Lengths
<1>1. MaxLength \in Nat /\ None \notin Methods!Elements /\ Undefined \in Methods!Elements /\ None # Undefined
      /\ Undefined \notin Values
  BY DEF LibraryConstants, Methods!Elements
<1>2. PICK values : ListOf(o, m, values)
  BY DEF ListOf
<1>3. /\ values \in [1 .. m -> Methods!Elements \cup {None}]
      /\ \A i \in 0 .. m - 1 : View(o, i) = Shows(values[i + 1])
  BY <1>0, <1>2, Listed
<1>4. PICK s, q : s = Methods!InOrder(values) /\ q = r[1]
  OBVIOUS
<1>5. PICK p : IsOrdered(values, m, p, s)
  BY <1>3, <1>4, InOrderIs
<1>6. /\ p \in Bijection(1 .. m, 1 .. m) /\ \A n \in 1 .. m : s[n] = values[p[n]]
      /\ \A j, k \in 1 .. m : j < k => ~Methods!Before(s[k], s[j])
  BY <1>5 DEF IsOrdered
<1>7. \A n \in 1 .. m : s[n] \in Methods!Elements \cup {None}
  <2>1. p \in [1 .. m -> 1 .. m]
    BY <1>6, Fun_BijectionProperties
  <2>. QED BY <1>3, <1>6, <2>1
<1>8. PICK F : (\A i \in 0 .. m - 1 : F[i] = Shows(s[i + 1])) /\ Spread(o, q, 0, m, F)
  BY <1>0, <1>2, <1>4, SortedSpreads
<1>9. /\ IsObject(q) /\ \A i \in Nat : Own(q, i) = IF Inside(0, i, m) THEN F[i] ELSE Own(o, i)
  BY <1>8 DEF Spread
<1>10. \A i \in 0 .. m - 1 : Own(q, i) = Shows(s[i + 1])
  <2>1. \A i \in 0 .. m - 1 : i \in Nat /\ Inside(0, i, m)
    BY DEF Inside
  <2>. QED BY <1>8, <1>9, <2>1
<1>11. ASSUME NEW i \in Methods!Places, i \notin 0 .. m - 1 PROVE Own(q, i) = Own(o, i)
  <2>1. i \in Nat /\ ~Inside(0, i, m)
    BY <1>1, <1>11 DEF Inside, Methods!Places
  <2>. QED BY <1>9, <2>1
<1>12. q.length = o.length
  <2>1. \A i \in Nat : Inside(0, i, m) => F[i] = {} \/ i < m
    BY DEF Inside
  <2>2. q.length >= o.length /\ q.length <= m
    BY <1>0, <1>8, <2>1 DEF Spread
  <2>3. q.length \in Nat
    BY <1>9, Lengths
  <2>. QED BY <1>0, <2>2, <2>3
<1>13. ASSUME NEW v \in Methods!Elements
       PROVE  Methods!Cardinality({i \in 0 .. m - 1 : Methods!View(o, i) = {v}})
                = Methods!Cardinality({i \in 0 .. m - 1 : Methods!Own(q, i) = {v}})
  <2>1. \A w : Shows(w) = {v} <=> w = v
    BY <1>1 DEF Shows
  <2>2. {i \in 0 .. m - 1 : Methods!View(o, i) = {v}} = {i \in 0 .. m - 1 : values[i + 1] = v}
    BY <1>3, <2>1 DEF View
  <2>3. \A i \in 0 .. m - 1 : s[i + 1] = values[p[i + 1]]
    BY <1>6
  <2>4. {i \in 0 .. m - 1 : Methods!Own(q, i) = {v}} = {i \in 0 .. m - 1 : values[p[i + 1]] = v}
    BY <1>10, <2>1, <2>3 DEF Own
  <2>5. Cardinality({i \in 0 .. m - 1 : values[i + 1] = v})
          = Cardinality({i \in 0 .. m - 1 : values[p[i + 1]] = v})
    <3>1. SameCount(m, values, p, v)
      BY <1>6, SameCounts
    <3>. QED BY <3>1 DEF SameCount
  <2>. QED BY <2>2, <2>4, <2>5, CardinalitySame
<1>14. \A i \in 0 .. m - 1 :
         Rank(s[i + 1]) = IF Methods!Own(q, i) = {} THEN 2
                          ELSE IF Methods!Own(q, i) = {Undefined} THEN 1 ELSE 0
  BY <1>1, <1>10 DEF Shows, Rank, Own
<1>15. ASSUME NEW i \in 0 .. m - 1, NEW j \in 0 .. m - 1, i < j
       PROVE  \/ Rank(s[i + 1]) < Rank(s[j + 1])
              \/ Rank(s[i + 1]) = Rank(s[j + 1]) /\ (Rank(s[i + 1]) = 0 => q.own[i] <= q.own[j])
  <2>1. i + 1 \in 1 .. m /\ j + 1 \in 1 .. m /\ i + 1 < j + 1
    BY <1>15
  <2>2. PICK x, y : x = s[i + 1] /\ y = s[j + 1]
    OBVIOUS
  <2>3. ~Methods!Before(y, x)
    BY <1>6, <2>1, <2>2
  <2>4. x \in Methods!Elements \cup {None} /\ y \in Methods!Elements \cup {None}
    BY <1>7, <2>1, <2>2
  <2>5. ~(Rank(y) < Rank(x) \/ (Rank(y) = Rank(x) /\ Number(y) < Number(x)))
    BY <2>3, <2>4, BeforeIs
  <2>6. Rank(x) \in Int /\ Rank(y) \in Int /\ Number(x) \in Int /\ Number(y) \in Int
    BY RanksAreInts
  <2>7. Rank(x) < Rank(y) \/ (Rank(x) = Rank(y) /\ Number(x) <= Number(y))
    BY <2>5, <2>6
  <2>8. ASSUME Rank(x) = 0, Rank(y) = 0 PROVE Number(x) = q.own[i] /\ Number(y) = q.own[j]
    <3>1. x # None /\ y # None /\ x \in Values /\ y \in Values
      BY <2>4, <2>8 DEF Rank, Methods!Elements
    <3>2. Own(q, i) = {x} /\ Own(q, j) = {y}
      BY <1>10, <2>2, <3>1 DEF Shows
    <3>. QED BY <3>1, <3>2 DEF Own, Methods!Own, Number
  <2>. QED BY <2>2, <2>7, <2>8
<1>16. FilledIn(q)
  <2>1. ASSUME NEW i \in Methods!Places PROVE Own(q, i) \subseteq Methods!Elements
    <3>1. CASE i \in 0 .. m - 1
      <4>1. i + 1 \in 1 .. m
        BY <3>1
      <4>. QED BY <1>7, <1>10, <3>1, <4>1 DEF Shows
    <3>2. CASE i \notin 0 .. m - 1
      BY <1>11, <3>2 DEF FilledIn
    <3>. QED BY <3>1, <3>2
  <2>. QED BY <2>1 DEF FilledIn
<1>17. \A i \in Methods!Places \ (0 .. m - 1) : Methods!Own(q, i) = Methods!Own(o, i)
  BY <1>11 DEF Own
<1>. DEFINE rank(i) == IF Methods!Own(q, i) = {} THEN 2 ELSE IF Methods!Own(q, i) = {Undefined} THEN 1 ELSE 0
<1>18. \A i, j \in 0 .. m - 1 : i < j =>
         rank(i) < rank(j) \/ (rank(i) = rank(j) /\ (rank(i) = 0 => q.own[i] <= q.own[j]))
  BY <1>14, <1>15
<1>19. Methods!SortPromise(o, q)
  BY <1>0, <1>12, <1>13, <1>17, <1>18, Zenon DEF Methods!SortPromise
<1>. QED BY <1>4, <1>9, <1>16, <1>19

-----------------------------------------------------------------------------
(* Whatever is at an index is a value.                                     *)
(* What a method leaves at an index is from the object or from the call.   *)
ComesFrom(o, p, i) ==
  \/ Own(p, i) = {} \/ Own(p, i) = Own(o, i)
  \/ \E j \in Methods!Places : Own(p, i) = View(o, j)
  \/ \E v \in Values : Own(p, i) = {v}

LEMMA FilledAgain ==
  ASSUME LibraryConstants, NEW o, FilledIn(o), NEW p, \A i \in Methods!Places : ComesFrom(o, p, i)
  PROVE  FilledIn(p)
<1>1. ASSUME NEW i \in Methods!Places PROVE Own(p, i) \subseteq Methods!Elements
  <2>1. CASE Own(p, i) = {} \/ Own(p, i) = Own(o, i)
    BY <2>1 DEF FilledIn
  <2>2. CASE \E j \in Methods!Places : Own(p, i) = View(o, j)
    BY <2>2, ViewFilled
  <2>3. CASE \E v \in Values : Own(p, i) = {v}
    BY <2>3 DEF Methods!Elements
  <2>. QED BY <2>1, <2>2, <2>3 DEF ComesFrom
<1>. QED BY <1>1 DEF FilledIn

\* The object that methods work on, always.
ObjectInv(o) == IsObject(o) /\ o.length <= MaxLength /\ FilledIn(o)
AreItems(items) == Len(items) \in Nat /\ \A n \in 1 .. Len(items) : items[n] \in Values

LEMMA PopFills ==
  ASSUME LibraryConstants, NEW o, ObjectInv(o), NEW p, NEW v, Methods!PopPromise(o, p, v)
  PROVE  FilledIn(p)
<1>1. CASE p = o
  BY <1>1 DEF ObjectInv
<1>2. CASE p # o
  <2>1. PICK n : \A i \in Methods!Places : Own(p, i) = IF i = n THEN {} ELSE Own(o, i)
    BY <1>2 DEF Methods!PopPromise, Methods!Left, Own
  <2>2. \A i \in Methods!Places : ComesFrom(o, p, i)
    BY <2>1 DEF ComesFrom
  <2>. QED BY <2>2, FilledAgain DEF ObjectInv
<1>. QED BY <1>1, <1>2

LEMMA PushFills ==
  ASSUME LibraryConstants, NEW o, ObjectInv(o), NEW p, NEW items, AreItems(items), NEW v,
         Methods!PushPromise(o, p, items, v)
  PROVE  FilledIn(p)
<1>1. PICK n : n = o.length
  OBVIOUS
<1>2. PICK m : m = Len(items)
  OBVIOUS
<1>3. n \in Nat /\ m \in Nat /\ Methods!Places \subseteq Nat
  BY <1>1, <1>2, Lengths DEF ObjectInv, AreItems, Methods!Places, LibraryConstants
<1>4. \A i \in Methods!Places :
        Own(p, i) = IF Methods!InRange(n, i, n + m) THEN {items[i - n + 1]} ELSE Own(o, i)
  BY <1>1, <1>2 DEF Methods!PushPromise, Methods!Left, Own
<1>5. ASSUME NEW i \in Methods!Places PROVE ComesFrom(o, p, i)
  <2>1. CASE Methods!InRange(n, i, n + m)
    <3>1. PICK k : k = i - n + 1
      OBVIOUS
    <3>2. k \in 1 .. m
      BY <1>3, <2>1, <3>1 DEF Methods!InRange
    <3>3. items[k] \in Values
      BY <1>2, <3>2 DEF AreItems
    <3>. QED BY <1>4, <2>1, <3>1, <3>3 DEF ComesFrom
  <2>2. CASE ~Methods!InRange(n, i, n + m)
    BY <1>4, <2>2 DEF ComesFrom
  <2>. QED BY <2>1, <2>2
<1>. QED BY <1>5, FilledAgain DEF ObjectInv

LEMMA ShiftFills ==
  ASSUME LibraryConstants, NEW o, ObjectInv(o), NEW p, NEW v, Methods!ShiftPromise(o, p, v)
  PROVE  FilledIn(p)
<1>1. PICK n : n = o.length
  OBVIOUS
<1>2. n \in Nat /\ MaxLength \in Nat /\ n <= MaxLength
  BY <1>1, Lengths DEF ObjectInv, LibraryConstants
<1>3. CASE n = 0
  BY <1>1, <1>3 DEF Methods!ShiftPromise, ObjectInv
<1>4. CASE n # 0
  <2>1. \A i \in Methods!Places :
          Own(p, i) = IF i < n - 1 THEN View(o, i + 1) ELSE IF i = n - 1 THEN {} ELSE Own(o, i)
    BY <1>1, <1>4 DEF Methods!ShiftPromise, Methods!Left, Own, View
  <2>2. ASSUME NEW i \in Methods!Places PROVE ComesFrom(o, p, i)
    <3>1. i < n - 1 => i + 1 \in Methods!Places
      BY <1>2 DEF Methods!Places
    <3>. QED BY <2>1, <3>1 DEF ComesFrom
  <2>. QED BY <2>2, FilledAgain DEF ObjectInv
<1>. QED BY <1>3, <1>4

LEMMA UnshiftFills ==
  ASSUME LibraryConstants, NEW o, ObjectInv(o), NEW p, NEW items, AreItems(items), NEW v,
         Methods!UnshiftPromise(o, p, items, v)
  PROVE  FilledIn(p)
<1>1. PICK n : n = o.length
  OBVIOUS
<1>2. PICK m : m = Len(items)
  OBVIOUS
<1>3. n \in Nat /\ m \in Nat /\ MaxLength \in Nat /\ n <= MaxLength
  BY <1>1, <1>2, Lengths DEF ObjectInv, AreItems, LibraryConstants
<1>4. \A i \in Methods!Places :
        Own(p, i) = IF i < m THEN {items[i + 1]} ELSE IF i < n + m THEN View(o, i - m) ELSE Own(o, i)
  BY <1>1, <1>2 DEF Methods!UnshiftPromise, Methods!Left, Own, View
<1>5. ASSUME NEW i \in Methods!Places PROVE ComesFrom(o, p, i)
  <2>0. i \in Nat /\ i < MaxLength
    BY <1>3 DEF Methods!Places
  <2>1. CASE i < m
    <3>1. PICK k : k = i + 1
      OBVIOUS
    <3>2. k \in 1 .. m
      BY <1>3, <2>0, <2>1, <3>1
    <3>3. items[k] \in Values
      BY <1>2, <3>2 DEF AreItems
    <3>. QED BY <1>4, <2>1, <3>1, <3>3 DEF ComesFrom
  <2>2. CASE ~(i < m) /\ i < n + m
    <3>1. i - m \in Methods!Places
      BY <1>3, <2>0, <2>2 DEF Methods!Places
    <3>. QED BY <1>4, <2>2, <3>1 DEF ComesFrom
  <2>3. CASE ~(i < m) /\ ~(i < n + m)
    BY <1>4, <2>3 DEF ComesFrom
  <2>. QED BY <2>1, <2>2, <2>3
<1>. QED BY <1>5, FilledAgain DEF ObjectInv

LEMMA ReverseFills ==
  ASSUME LibraryConstants, NEW o, ObjectInv(o), NEW p, Methods!ReversePromise(o, p)
  PROVE  FilledIn(p)
<1>1. PICK n : n = o.length
  OBVIOUS
<1>2. n \in Nat /\ MaxLength \in Nat /\ n <= MaxLength
  BY <1>1, Lengths DEF ObjectInv, LibraryConstants
<1>3. \A i \in Methods!Places :
        Own(p, i) = IF i < n /\ 2 * i + 1 # n THEN View(o, n - 1 - i) ELSE Own(o, i)
  BY <1>1 DEF Methods!ReversePromise, Methods!Left, Own, View
<1>4. ASSUME NEW i \in Methods!Places PROVE ComesFrom(o, p, i)
  <2>1. i < n => n - 1 - i \in Methods!Places
    BY <1>2 DEF Methods!Places
  <2>. QED BY <1>3, <2>1 DEF ComesFrom
<1>. QED BY <1>4, FilledAgain DEF ObjectInv

LEMMA SpliceFills ==
  ASSUME LibraryConstants, NEW o, ObjectInv(o), NEW p, NEW items, AreItems(items),
         NEW start \in Int, NEW count \in Int, NEW v,
         Methods!SplicePromise(o, p, start, count, items, v)
  PROVE  FilledIn(p)
<1>1. PICK len : len = o.length
  OBVIOUS
<1>2. PICK size : size = Len(items)
  OBVIOUS
<1>3. len \in Nat /\ size \in Nat /\ MaxLength \in Nat /\ len <= MaxLength
  BY <1>1, <1>2, Lengths DEF ObjectInv, AreItems, LibraryConstants
<1>4. PICK at : at = Methods!Max({0, Methods!Min({Methods!Meant(start, len), len})})
  OBVIOUS
<1>5. PICK rest : rest = Methods!Min({len, at + Methods!Max({count, 0})})
  OBVIOUS
<1>6. at \in Nat /\ rest \in Nat /\ at <= rest /\ rest <= len
  <2>1. Methods!Meant(start, len) \in Int
    BY <1>3 DEF Methods!Meant
  <2>2. PICK x \in Int : x = Methods!Min({Methods!Meant(start, len), len}) /\ x <= len
    BY <1>3, <2>1, TwoInts
  <2>3. at = IF 0 >= x THEN 0 ELSE x
    BY <1>4, <2>2, TwoInts
  <2>4. PICK c : c = Methods!Max({count, 0}) /\ c = IF count >= 0 THEN count ELSE 0
    BY TwoInts
  <2>5. PICK y \in Int : y = at + c /\ y >= at
    BY <1>3, <2>2, <2>3, <2>4
  <2>6. rest = IF len <= y THEN len ELSE y
    <3>1. rest = Methods!Min({len, y})
      BY <1>5, <2>4, <2>5
    <3>. QED BY <1>3, <3>1, TwoInts
  <2>. QED BY <1>3, <2>2, <2>3, <2>5, <2>6
<1>7. PICK moved : moved = size - (rest - at)
  OBVIOUS
<1>8. \A i \in Methods!Places :
        Own(p, i) = CASE i < at -> Own(o, i)
                      [] Methods!InRange(at, i, at + size) -> {items[i - at + 1]}
                      [] Methods!InRange(at + size, i, len + moved) ->
                           IF moved = 0 THEN Own(o, i) ELSE View(o, i - moved)
                      [] Methods!InRange(len + moved, i, len) -> {}
                      [] OTHER -> Own(o, i)
  BY <1>1, <1>2, <1>4, <1>5, <1>7 DEF Methods!SplicePromise, Methods!Left, Own, View
<1>9. ASSUME NEW i \in Methods!Places PROVE ComesFrom(o, p, i)
  <2>0. i \in Nat /\ i < MaxLength
    BY <1>3 DEF Methods!Places
  <2>1. CASE i < at
    <3>1. /\ ~Methods!InRange(at, i, at + size) /\ ~Methods!InRange(at + size, i, len + moved)
          /\ ~Methods!InRange(len + moved, i, len)
      BY <1>3, <1>6, <1>7, <2>0, <2>1 DEF Methods!InRange
    <3>2. Own(p, i) = Own(o, i)
      BY <1>8, <2>1, <3>1
    <3>. QED BY <3>2 DEF ComesFrom
  <2>2. CASE Methods!InRange(at, i, at + size)
    <3>1. PICK k : k = i - at + 1
      OBVIOUS
    <3>2. k \in 1 .. size /\ ~(i < at)
      BY <1>3, <1>6, <2>0, <2>2, <3>1 DEF Methods!InRange
    <3>3. items[k] \in Values
      BY <1>2, <3>2 DEF AreItems
    <3>4. ~Methods!InRange(at + size, i, len + moved) /\ ~Methods!InRange(len + moved, i, len)
      BY <1>3, <1>6, <1>7, <2>0, <2>2 DEF Methods!InRange
    <3>5. Own(p, i) = {items[k]}
      BY <1>8, <2>2, <3>1, <3>2, <3>4
    <3>. QED BY <3>3, <3>5 DEF ComesFrom
  <2>3. CASE Methods!InRange(at + size, i, len + moved)
    <3>1. i - moved \in Methods!Places
      BY <1>3, <1>6, <1>7, <2>0, <2>3 DEF Methods!InRange, Methods!Places
    <3>2. ~(i < at) /\ ~Methods!InRange(at, i, at + size) /\ ~Methods!InRange(len + moved, i, len)
      BY <1>3, <1>6, <1>7, <2>0, <2>3 DEF Methods!InRange
    <3>3. Own(p, i) = IF moved = 0 THEN Own(o, i) ELSE View(o, i - moved)
      BY <1>8, <2>3, <3>2
    <3>. QED BY <3>1, <3>3 DEF ComesFrom
  <2>4. CASE ~(i < at) /\ ~Methods!InRange(at, i, at + size) /\ ~Methods!InRange(at + size, i, len + moved)
    BY <1>8, <2>4 DEF ComesFrom
  <2>. QED BY <2>1, <2>2, <2>3, <2>4
<1>. QED BY <1>9, FilledAgain DEF ObjectInv

-----------------------------------------------------------------------------
(* All of the methods that work in one go.                                 *)
(* What is promised of a call that leaves an object and returns a value.   *)
Meets(o, c, p, v) ==
  LET a == c.args
      m == c.method
  IN CASE m = "pop"     -> Methods!PopPromise(o, p, v)
       [] m = "push"    -> Methods!PushPromise(o, p, a[1], v)
       [] m = "shift"   -> Methods!ShiftPromise(o, p, v)
       [] m = "unshift" -> Methods!UnshiftPromise(o, p, a[1], v)
       [] m = "reverse" -> Methods!ReversePromise(o, p)
       [] m = "sort"    -> Methods!SortPromise(o, p)
       [] m = "slice"   -> Methods!SlicePromise(o, p, a[1], a[2], v)
       [] m = "splice"  -> Methods!SplicePromise(o, p, a[1], a[2], a[3], v)
       [] m = "concat"  -> Methods!ConcatPromise(o, p, a[1], v)
       [] m = "indexOf" ->
            Methods!FindPromise(o, p, a[1],
              {i \in Methods!Places : i >= Methods!Meant(a[2], o.length)}, v, Methods!Min)
       [] m = "lastIndexOf" ->
            Methods!FindPromise(o, p, a[1],
              {i \in Methods!Places : i <= Methods!Meant(a[2], o.length)}, v, Methods!Max)

(* The parameters of each method.                                          *)
Allowed(m, a) ==
  \/ m \in {"pop", "reverse", "shift", "sort"}
  \/ m \in {"push", "unshift"} /\ AreItems(a[1])
  \/ m = "slice" /\ a[1] \in Int /\ (a[2] = Undefined \/ a[2] \in Int)
  \/ m = "splice" /\ a[1] \in Int /\ a[2] \in Int /\ AreItems(a[3])
  \/ m \in {"indexOf", "lastIndexOf"} /\ a[2] \in Int
  \/ m = "concat" /\ Len(<<None>> \o a[1]) \in Nat

LEMMA BoundedAre ==
  ASSUME NEW S, NEW n \in Nat, NEW s \in Methods!BoundedSeq(S, n)
  PROVE  s \in Seq(S)
<1>1. s \in UNION {[1 .. m -> S] : m \in 0 .. n}
  BY DEF Methods!BoundedSeq, Methods!SeqOf
<1>2. PICK m \in 0 .. n : s \in [1 .. m -> S]
  BY <1>1
<1>. QED BY <1>2

LEMMA ItemsAre ==
  ASSUME NEW items \in Methods!Items
  PROVE  AreItems(items)
<1>1. items \in Seq(Values)
  <2>1. 2 \in Nat
    OBVIOUS
  <2>. QED BY <2>1, BoundedAre DEF Methods!Items
<1>. QED BY <1>1 DEF AreItems

LEMMA CallsAllowed ==
  ASSUME LibraryConstants, NEW c \in Methods!Calls
  PROVE  Allowed(c.method, c.args)
<1>. DEFINE Plain ==
              {Methods!Call(m, <<>>) : m \in {"pop", "reverse", "shift", "sort"}}
            Pushes ==
              {Methods!Call(m, <<items>>) : m \in {"push", "unshift"}, items \in Methods!Items}
            Slices ==
              {Methods!Call("slice", <<i, j>>) :
                i \in Methods!Positions, j \in Methods!Positions \cup {Undefined}}
            Splices ==
              {Methods!Call("splice", <<i, n, items>>) :
                i \in Methods!Positions, n \in -1 .. MaxLength, items \in Methods!Items}
            Searches ==
              {Methods!Call(m, <<x, i>>) : m \in {"indexOf", "lastIndexOf"},
                x \in Methods!Elements, i \in Methods!Positions}
            Concats ==
              {Methods!Call("concat", <<args>>) : args \in Methods!BoundedSeq(Values \cup {None}, 1)}
<1>. HIDE DEF Plain, Pushes, Slices, Splices, Searches, Concats
<1>0. /\ MaxLength \in Nat /\ Methods!Positions \subseteq Int /\ -1 .. MaxLength \subseteq Int
  BY DEF LibraryConstants, Methods!Positions
<1>1. ASSUME NEW m, NEW a, c = Methods!Call(m, a) PROVE c.method = m /\ c.args = a
  BY <1>1 DEF Methods!Call
<1>2. CASE c \in Plain
  <2>1. PICK m \in {"pop", "reverse", "shift", "sort"} : c = Methods!Call(m, <<>>)
    BY <1>2 DEF Plain
  <2>. QED BY <1>1, <2>1 DEF Allowed
<1>3. CASE c \in Pushes
  <2>1. PICK m \in {"push", "unshift"}, items \in Methods!Items : c = Methods!Call(m, <<items>>)
    BY <1>3 DEF Pushes
  <2>2. c.method = m /\ c.args[1] = items
    BY <1>1, <2>1
  <2>3. AreItems(items)
    BY ItemsAre
  <2>. QED BY <2>1, <2>2, <2>3 DEF Allowed
<1>4. CASE c \in Slices
  <2>1. PICK i \in Methods!Positions, j \in Methods!Positions \cup {Undefined} :
          c = Methods!Call("slice", <<i, j>>)
    BY <1>4 DEF Slices
  <2>2. c.method = "slice" /\ c.args[1] = i /\ c.args[2] = j
    BY <1>1, <2>1
  <2>. QED BY <1>0, <2>1, <2>2 DEF Allowed
<1>5. CASE c \in Splices
  <2>1. PICK i \in Methods!Positions, n \in -1 .. MaxLength, items \in Methods!Items :
          c = Methods!Call("splice", <<i, n, items>>)
    BY <1>5 DEF Splices
  <2>2. c.method = "splice" /\ c.args[1] = i /\ c.args[2] = n /\ c.args[3] = items
    BY <1>1, <2>1
  <2>3. AreItems(items)
    BY ItemsAre
  <2>. QED BY <1>0, <2>1, <2>2, <2>3 DEF Allowed
<1>6. CASE c \in Searches
  <2>1. PICK m \in {"indexOf", "lastIndexOf"}, x \in Methods!Elements, i \in Methods!Positions :
          c = Methods!Call(m, <<x, i>>)
    BY <1>6 DEF Searches
  <2>2. c.method = m /\ c.args[2] = i
    BY <1>1, <2>1
  <2>. QED BY <1>0, <2>1, <2>2 DEF Allowed
<1>7. CASE c \in Concats
  <2>1. PICK args \in Methods!BoundedSeq(Values \cup {None}, 1) : c = Methods!Call("concat", <<args>>)
    BY <1>7 DEF Concats
  <2>2. c.method = "concat" /\ c.args[1] = args
    BY <1>1, <2>1
  <2>3. args \in Seq(Values \cup {None})
    <3>1. 1 \in Nat
      OBVIOUS
    <3>. QED BY <3>1, BoundedAre
  <2>4. Len(<<None>> \o args) \in Nat
    <3>1. <<None>> \in Seq(Values \cup {None})
      OBVIOUS
    <3>2. <<None>> \o args \in Seq(Values \cup {None})
      BY <2>3, <3>1
    <3>. QED BY <3>2
  <2>. QED BY <2>2, <2>4 DEF Allowed
<1>8. c \in Plain \cup Pushes \cup Slices \cup Splices \cup Searches \cup Concats
  <2>1. Methods!Calls = Plain \cup Pushes \cup Slices \cup Splices \cup Searches \cup Concats
    BY DEF Methods!Calls, Plain, Pushes, Slices, Splices, Searches, Concats
  <2>. QED BY <2>1
<1>. QED BY <1>2, <1>3, <1>4, <1>5, <1>6, <1>7, <1>8

LEMMA DoneMeets ==
  ASSUME LibraryConstants, NEW o, ObjectInv(o), NEW c, Allowed(c.method, c.args),
         NEW r, r = Methods!Done(o, c)
  PROVE  Meets(o, c, r[1], r[2]) /\ IsObject(r[1]) /\ FilledIn(r[1])
<1>0. MaxLength \in Nat /\ IsObject(o) /\ o.length <= MaxLength /\ FilledIn(o)
  BY DEF LibraryConstants, ObjectInv
<1>. DEFINE a == c.args
            m == c.method
<1>. HIDE DEF a, m
<1>1. CASE m = "pop"
  <2>1. r = Methods!Popped(o)
    BY <1>1 DEF Methods!Done, m
  <2>2. Methods!PopPromise(o, r[1], r[2]) /\ IsObject(r[1])
    BY <1>0, <2>1, PopMeets
  <2>3. FilledIn(r[1])
    BY <2>2, PopFills
  <2>. QED BY <1>1, <2>2, <2>3 DEF Meets, m
<1>2. CASE m = "push"
  <2>1. r = Methods!Pushed(o, a[1]) /\ AreItems(a[1])
    BY <1>2 DEF Methods!Done, Allowed, m, a
  <2>2. PICK items : items = a[1]
    OBVIOUS
  <2>3. Len(items) \in Nat
    BY <2>1, <2>2 DEF AreItems
  <2>4. Methods!PushPromise(o, r[1], items, r[2]) /\ IsObject(r[1])
    BY <1>0, <2>1, <2>2, <2>3, PushMeets
  <2>5. FilledIn(r[1])
    BY <2>1, <2>2, <2>4, PushFills
  <2>. QED BY <1>2, <2>2, <2>4, <2>5 DEF Meets, m, a
<1>3. CASE m = "shift"
  <2>1. r = Methods!Shifted(o)
    BY <1>3 DEF Methods!Done, m
  <2>2. Methods!ShiftPromise(o, r[1], r[2]) /\ IsObject(r[1])
    BY <1>0, <2>1, ShiftMeets
  <2>3. FilledIn(r[1])
    BY <2>2, ShiftFills
  <2>. QED BY <1>3, <2>2, <2>3 DEF Meets, m
<1>4. CASE m = "unshift"
  <2>1. r = Methods!Unshifted(o, a[1]) /\ AreItems(a[1])
    BY <1>4 DEF Methods!Done, Allowed, m, a
  <2>2. PICK items : items = a[1]
    OBVIOUS
  <2>3. Len(items) \in Nat
    BY <2>1, <2>2 DEF AreItems
  <2>4. Methods!UnshiftPromise(o, r[1], items, r[2]) /\ IsObject(r[1])
    BY <1>0, <2>1, <2>2, <2>3, UnshiftMeets
  <2>5. FilledIn(r[1])
    BY <2>1, <2>2, <2>4, UnshiftFills
  <2>. QED BY <1>4, <2>2, <2>4, <2>5 DEF Meets, m, a
<1>5. CASE m = "reverse"
  <2>1. r = Methods!Reversed(o)
    BY <1>5 DEF Methods!Done, m
  <2>2. Methods!ReversePromise(o, r[1]) /\ IsObject(r[1])
    BY <1>0, <2>1, ReverseMeets
  <2>3. FilledIn(r[1])
    BY <2>2, ReverseFills
  <2>. QED BY <1>5, <2>2, <2>3 DEF Meets, m
<1>6. CASE m = "sort"
  <2>1. r = Methods!Sorted(o)
    BY <1>6 DEF Methods!Done, m
  <2>2. Methods!SortPromise(o, r[1]) /\ IsObject(r[1]) /\ FilledIn(r[1])
    BY <1>0, <2>1, SortMeets
  <2>. QED BY <1>6, <2>2 DEF Meets, m
<1>7. CASE m = "slice"
  <2>1. r = Methods!Sliced(o, a[1], a[2]) /\ a[1] \in Int /\ (a[2] = Undefined \/ a[2] \in Int)
    BY <1>7 DEF Methods!Done, Allowed, m, a
  <2>2. PICK start : start = a[1]
    OBVIOUS
  <2>3. PICK end : end = a[2]
    OBVIOUS
  <2>4. Methods!SlicePromise(o, r[1], start, end, r[2])
    BY <1>0, <2>1, <2>2, <2>3, SliceMeets
  <2>5. r[1] = o
    BY <2>4 DEF Methods!SlicePromise
  <2>. QED BY <1>0, <1>7, <2>2, <2>3, <2>4, <2>5 DEF Meets, m, a
<1>8. CASE m = "splice"
  <2>1. /\ r = Methods!Spliced(o, a[1], a[2], a[3]) /\ a[1] \in Int /\ a[2] \in Int
        /\ AreItems(a[3])
    BY <1>8 DEF Methods!Done, Allowed, m, a
  <2>2. PICK start : start = a[1]
    OBVIOUS
  <2>3. PICK count : count = a[2]
    OBVIOUS
  <2>4. PICK items : items = a[3]
    OBVIOUS
  <2>5. Len(items) \in Nat /\ start \in Int /\ count \in Int
    BY <2>1, <2>2, <2>3, <2>4 DEF AreItems
  <2>6. r = Methods!Spliced(o, start, count, items)
    BY <2>1, <2>2, <2>3, <2>4
  <2>7. Methods!SplicePromise(o, r[1], start, count, items, r[2]) /\ IsObject(r[1])
    BY <1>0, <2>5, <2>6, SpliceMeets
  <2>8. FilledIn(r[1])
    BY <2>1, <2>4, <2>5, <2>7, SpliceFills
  <2>. QED BY <1>8, <2>2, <2>3, <2>4, <2>7, <2>8 DEF Meets, m, a
<1>9. CASE m = "concat"
  <2>1. r = Methods!Concatenated(o, a[1]) /\ Len(<<None>> \o a[1]) \in Nat
    BY <1>9 DEF Methods!Done, Allowed, m, a
  <2>2. PICK args : args = a[1]
    OBVIOUS
  <2>3. r = Methods!Concatenated(o, args) /\ Len(<<None>> \o args) \in Nat
    BY <2>1, <2>2
  <2>4. Methods!ConcatPromise(o, r[1], args, r[2])
    BY <1>0, <2>3, ConcatMeets
  <2>5. r[1] = o
    BY <2>4 DEF Methods!ConcatPromise
  <2>. QED BY <1>0, <1>9, <2>2, <2>4, <2>5 DEF Meets, m, a
<1>10. CASE m = "indexOf"
  <2>1. r = Methods!IndexOf(o, a[1], a[2]) /\ a[2] \in Int
    BY <1>10 DEF Methods!Done, Allowed, m, a
  <2>2. PICK x : x = a[1]
    OBVIOUS
  <2>3. PICK from : from = a[2]
    OBVIOUS
  <2>4. Methods!FindPromise(o, r[1], x,
          {i \in Methods!Places : i >= Methods!Meant(from, o.length)}, r[2], Methods!Min)
    BY <1>0, <2>1, <2>2, <2>3, IndexOfMeets
  <2>5. r[1] = o
    BY <2>4 DEF Methods!FindPromise
  <2>. QED BY <1>0, <1>10, <2>2, <2>3, <2>4, <2>5 DEF Meets, m, a
<1>11. CASE m = "lastIndexOf"
  <2>1. r = Methods!LastIndexOf(o, a[1], a[2]) /\ a[2] \in Int
    BY <1>11 DEF Methods!Done, Allowed, m, a
  <2>2. PICK x : x = a[1]
    OBVIOUS
  <2>3. PICK from : from = a[2]
    OBVIOUS
  <2>4. Methods!FindPromise(o, r[1], x,
          {i \in Methods!Places : i <= Methods!Meant(from, o.length)}, r[2], Methods!Max)
    BY <1>0, <2>1, <2>2, <2>3, LastIndexOfMeets
  <2>5. r[1] = o
    BY <2>4 DEF Methods!FindPromise
  <2>. QED BY <1>0, <1>11, <2>2, <2>3, <2>4, <2>5 DEF Meets, m, a
<1>. QED BY <1>1, <1>2, <1>3, <1>4, <1>5, <1>6, <1>7, <1>8, <1>9, <1>10, <1>11 DEF Allowed, m

(* What the program writes to the object, or the callback.                 *)
LEMMA SetsKeep ==
  ASSUME LibraryConstants, NEW o, ObjectInv(o), NEW i \in Methods!Places, NEW E,
         E \subseteq Methods!Elements, NEW p, Sets(o, i, E, p)
  PROVE  ObjectInv(p)
<1>1. o.length \in Nat /\ MaxLength \in Nat /\ i \in Nat /\ i < MaxLength
  BY Lengths DEF ObjectInv, LibraryConstants, Methods!Places
<1>2. p.length <= MaxLength
  BY <1>1 DEF Sets, ObjectInv
<1>3. FilledIn(p)
  BY DEF Sets, FilledIn, ObjectInv
<1>. QED BY <1>2, <1>3 DEF Sets, ObjectInv

LEMMA WrittenKeeps ==
  ASSUME LibraryConstants, NEW o, ObjectInv(o), NEW p,
         \/ \E i \in Methods!Places, v \in Methods!Elements : p = Methods!Put(o, i, v)
         \/ \E i \in Methods!Places : p = Methods!Delete(o, i)
         \/ \E n \in 0 .. MaxLength : p = Methods!PutLength(o, n)
  PROVE  ObjectInv(p)
<1>0. MaxLength \in Nat /\ IsObject(o) /\ Methods!Places \subseteq Nat
  BY DEF LibraryConstants, ObjectInv, Methods!Places
<1>1. ASSUME NEW i \in Methods!Places, NEW v \in Methods!Elements, p = Methods!Put(o, i, v)
      PROVE  ObjectInv(p)
  <2>1. Sets(o, i, {v}, p)
    BY <1>0, <1>1, PutSets
  <2>. QED BY <2>1, SetsKeep
<1>2. ASSUME NEW i \in Methods!Places, p = Methods!Delete(o, i)
      PROVE  ObjectInv(p)
  <2>1. Sets(o, i, {}, p)
    BY <1>0, <1>2, DeleteSets
  <2>. QED BY <2>1, SetsKeep
<1>3. ASSUME NEW n \in 0 .. MaxLength, p = Methods!PutLength(o, n)
      PROVE  ObjectInv(p)
  <2>1. n \in Nat /\ n <= MaxLength
    BY <1>0
  <2>2. LengthSet(o, n, p)
    BY <1>0, <1>3, <2>1, LengthSets
  <2>3. FilledIn(p)
    BY <1>0, <2>2 DEF LengthSet, FilledIn, ObjectInv
  <2>. QED BY <2>1, <2>2, <2>3 DEF LengthSet, ObjectInv
<1>. QED BY <1>1, <1>2, <1>3

LEMMA CallKeeps ==
  ASSUME LibraryConstants, ObjectInv(object), Methods!DoCall
  PROVE  /\ ObjectInv(object') /\ Meets(object, answer'.call, object', answer'.value)
<1>1. PICK o, p, b : o = object /\ p = object' /\ b = answer'
  OBVIOUS
<1>2. PICK c \in Methods!Calls :
        /\ Methods!Done(o, c)[1].length <= MaxLength
        /\ p = Methods!Done(o, c)[1] /\ b = [call |-> c, value |-> Methods!Done(o, c)[2]]
  BY <1>1 DEF Methods!DoCall
<1>3. PICK r : r = Methods!Done(o, c)
  OBVIOUS
<1>4. p = r[1] /\ b.call = c /\ b.value = r[2] /\ p.length <= MaxLength
  BY <1>2, <1>3
<1>5. Allowed(c.method, c.args)
  BY CallsAllowed
<1>6. Meets(o, c, r[1], r[2]) /\ IsObject(r[1]) /\ FilledIn(r[1])
  BY <1>1, <1>3, <1>5, DoneMeets
<1>. QED BY <1>1, <1>4, <1>6 DEF ObjectInv

LEMMA ObjectStep ==
  ASSUME LibraryConstants, ObjectInv(object), [Methods!Next]_(Methods!vars)
  PROVE  ObjectInv(object')
<1>1. CASE Methods!DoCall
  BY <1>1, CallKeeps
<1>2. CASE Methods!Make
  <2>1. PICK o, p : o = object /\ p = object'
    OBVIOUS
  <2>2. \/ \E i \in Methods!Places, v \in Methods!Elements : p = Methods!Put(o, i, v)
        \/ \E i \in Methods!Places : p = Methods!Delete(o, i)
        \/ \E n \in 0 .. MaxLength : p = Methods!PutLength(o, n)
    BY <1>2, <2>1 DEF Methods!Make
  <2>. QED BY <2>1, <2>2, WrittenKeeps
<1>3. CASE Methods!Writes
  <2>1. PICK o, p : o = object /\ p = object'
    OBVIOUS
  <2>2. \/ \E i \in Methods!Places, v \in Methods!Elements : p = Methods!Put(o, i, v)
        \/ \E i \in Methods!Places : p = Methods!Delete(o, i)
        \/ \E n \in 0 .. MaxLength : p = Methods!PutLength(o, n)
    BY <1>3, <2>1 DEF Methods!Writes, Methods!Changed, Methods!Elements
  <2>. QED BY <2>1, <2>2, WrittenKeeps
<1>4. CASE UNCHANGED object
  BY <1>4
<1>5. Methods!Next \/ UNCHANGED object
  BY DEF Methods!vars
<1>. QED BY <1>1, <1>2, <1>3, <1>4, <1>5 DEF Methods!Next, Methods!Begin, Methods!Throw, Methods!Take,
       Methods!ReturnTest, Methods!ReturnEach, Methods!ReturnMapped, Methods!ReturnSelected,
       Methods!ReturnReduced

LEMMA NoneOwned ==
  ASSUME LibraryConstants, Methods!Init
  PROVE  ObjectInv(object)
<1>1. PICK b \in BOOLEAN : object = [Methods!EmptyArray EXCEPT !.array = b]
  BY DEF Methods!Init
<1>2. object = [array |-> b, own |-> <<>>, length |-> 0]
  BY <1>1 DEF Methods!EmptyArray
<1>3. PICK f : f = <<>>
  OBVIOUS
<1>4. DOMAIN f = {} /\ f = [i \in DOMAIN f |-> f[i]]
  BY <1>3
<1>5. Parts(object, b, f, 0)
  BY <1>2, <1>3, <1>4 DEF Parts, IsMade, IsMap
<1>6. IsObject(object) /\ object.length = 0 /\ \A j : Own(object, j) = {}
  BY <1>4, <1>5, ObjectOf
<1>. QED BY <1>6 DEF ObjectInv, FilledIn, LibraryConstants

(* Each call of a method that works in one go leaves the object, and       *)
(* returns, what ECMA-262 15.4.4 says, on every object that programs and   *)
(* callbacks make.                                                         *)
THEOREM CallsAsSpecifiedAlways ==
  ASSUME LibraryConstants
  PROVE  Methods!Spec => CallsAsSpecified
<1>. DEFINE Kept ==
       answer' # None /\ answer' # answer => Meets(object, answer'.call, object', answer'.value)
<1>1. ObjectInv(object) /\ [Methods!Next]_(Methods!vars) => [Kept]_(Methods!vars)
  <2>1. SUFFICES ASSUME ObjectInv(object), Methods!Next, answer' # None, answer' # answer
                 PROVE  Meets(object, answer'.call, object', answer'.value)
    OBVIOUS
  <2>2. Methods!DoCall
    BY <2>1 DEF Methods!Next, Methods!Begin, Methods!Writes, Methods!Throw, Methods!Make, Methods!Take,
         Methods!ReturnTest, Methods!ReturnEach, Methods!ReturnMapped, Methods!ReturnSelected,
         Methods!ReturnReduced
  <2>. QED BY <2>1, <2>2, CallKeeps
<1>2. Methods!Init => ObjectInv(object)
  BY NoneOwned
<1>3. ObjectInv(object) /\ [Methods!Next]_(Methods!vars) => ObjectInv(object)'
  <2>1. ObjectInv(object)' <=> ObjectInv(object')
    BY DEF ObjectInv, IsObject, FilledIn, Own, Methods!Own, Methods!Places, Methods!Elements
  <2>. QED BY <2>1, ObjectStep
<1>4. CallsAsSpecified <=> [][Kept]_(Methods!vars)
  BY DEF CallsAsSpecified, Methods!CallsAsSpecified, Meets, Kept
<1>. QED BY <1>1, <1>2, <1>3, <1>4, PTL DEF Methods!Spec

-----------------------------------------------------------------------------
(* What the methods that call back return.                                 *)

(* What a loop has made of the calls so far.  Of the visits s, the first n  *)
(* have returned.                                                           *)
Chosen(s, n) == Cardinality({m \in 1 .. n : s[m].returned})

Mapped(acc, s, n, to) ==
  /\ IsObject(acc) /\ acc.array /\ to \in Nat /\ acc.length = to
  /\ \A m \in 1 .. n : s[m].at \in 0 .. to - 1 /\ Own(acc, s[m].at) = {s[m].returned}
  /\ \A i \in 0 .. to - 1 : Own(acc, i) = {Undefined} \/ \E m \in 1 .. n : s[m].at = i
Filtered(acc, s, n) ==
  /\ IsObject(acc) /\ acc.array /\ acc.length = Chosen(s, n)
  /\ \A m \in 1 .. n :
       /\ s[m].returned \in BOOLEAN
       /\ s[m].returned => /\ Chosen(s, m - 1) < Chosen(s, n)
                           /\ Own(acc, Chosen(s, m - 1)) = {s[m].value}

Reduces(l) == l.method \in {"reduce", "reduceRight"}
Results(l, n, to) ==
  /\ l.method = "every" => \A m \in 1 .. n : l.visits[m].returned = TRUE
  /\ l.method = "some" => \A m \in 1 .. n : l.visits[m].returned = FALSE
  /\ l.method = "map" => Mapped(l.acc, l.visits, n, to)
  /\ l.method = "filter" => Filtered(l.acc, l.visits, n)
  /\ Reduces(l) /\ n > 0 => l.acc = l.visits[n].returned

\* What reduce gives to a call is what the one before returned.
Chained(l) ==
  Reduces(l) => \A m \in 2 .. Len(l.visits) : l.visits[m].given = l.visits[m - 1].returned
FirstPast(l) ==
  l.first # None => \A m \in 1 .. Len(l.visits) : l.visits[m].at # l.first

\* Before a turn, in a callback, and in the end.
Ready(l) ==
  /\ Results(l, Len(l.visits), l.k) /\ Chained(l) /\ FirstPast(l)
  /\ l.method = "map" => l.k <= l.len
Waiting(l) ==
  /\ Results(l, Len(l.visits) - 1, l.visits[Len(l.visits)].at) /\ Chained(l) /\ FirstPast(l)
  /\ l.method = "map" => /\ l.k = l.visits[Len(l.visits)].at + 1
                         /\ l.visits[Len(l.visits)].at \in 0 .. l.len - 1
Resulted(l) ==
  /\ l.method = "every" =>
       \/ l.acc = TRUE /\ \A m \in 1 .. Len(l.visits) : l.visits[m].returned = TRUE
       \/ l.acc = FALSE /\ \E m \in 1 .. Len(l.visits) : l.visits[m].returned = FALSE
  /\ l.method = "some" =>
       \/ l.acc = FALSE /\ \A m \in 1 .. Len(l.visits) : l.visits[m].returned = FALSE
       \/ l.acc = TRUE /\ \E m \in 1 .. Len(l.visits) : l.visits[m].returned = TRUE
  /\ l.method = "map" => Mapped(l.acc, l.visits, Len(l.visits), l.len)
  /\ l.method = "filter" => Filtered(l.acc, l.visits, Len(l.visits))
  /\ Reduces(l) /\ Len(l.visits) > 0 => l.acc = l.visits[Len(l.visits)].returned
  /\ Chained(l) /\ FirstPast(l)

-----------------------------------------------------------------------------
(* The numbers that filter counts *)
LEMMA ChosenCounts ==
  ASSUME NEW s, NEW n \in Nat
  PROVE  /\ Chosen(s, n) \in Nat /\ Chosen(s, 0) = 0
         /\ Chosen(s, n + 1) = IF s[n + 1].returned THEN Chosen(s, n) + 1 ELSE Chosen(s, n)
<1>1. PICK A : A = {m \in 1 .. n : s[m].returned}
  OBVIOUS
<1>2. IsFiniteSet(A)
  <2>1. 1 \in Int /\ n \in Int
    OBVIOUS
  <2>2. IsFiniteSet(1 .. n)
    BY <2>1, FS_Interval
  <2>3. A \in SUBSET (1 .. n)
    BY <1>1
  <2>. QED BY <2>2, <2>3, FS_Subset
<1>3. Chosen(s, n) = Cardinality(A) /\ Chosen(s, n) \in Nat
  BY <1>1, <1>2, FS_CardinalityType DEF Chosen
<1>4. Chosen(s, 0) = 0
  <2>1. {m \in 1 .. 0 : s[m].returned} = {}
    OBVIOUS
  <2>. QED BY <2>1, FS_EmptySet DEF Chosen
<1>5. PICK B : B = {m \in 1 .. n + 1 : s[m].returned}
  OBVIOUS
<1>6. Chosen(s, n + 1) = Cardinality(B)
  BY <1>5 DEF Chosen
<1>7. CASE s[n + 1].returned
  <2>1. B = A \cup {n + 1} /\ n + 1 \notin A
    BY <1>1, <1>5, <1>7
  <2>2. Cardinality(B) = Cardinality(A) + 1
    BY <1>2, <2>1, FS_AddElement
  <2>. QED BY <1>3, <1>4, <1>6, <1>7, <2>2
<1>8. CASE ~s[n + 1].returned
  <2>1. B = A
    BY <1>1, <1>5, <1>8
  <2>. QED BY <1>3, <1>4, <1>6, <1>8, <2>1
<1>. QED BY <1>7, <1>8

\* Visits that are the same up to the n-th.
SameVisits(s, t, n) ==
  \A m \in 1 .. n : t[m].at = s[m].at /\ t[m].value = s[m].value /\ t[m].returned = s[m].returned

LEMMA ChosenSame ==
  ASSUME NEW s, NEW t, NEW n \in Nat, SameVisits(s, t, n), NEW m \in 0 .. n
  PROVE  Chosen(t, m) = Chosen(s, m)
<1>1. {i \in 1 .. m : t[i].returned} = {i \in 1 .. m : s[i].returned}
  BY DEF SameVisits
<1>. QED BY <1>1 DEF Chosen

LEMMA MappedSame ==
  ASSUME NEW acc, NEW s, NEW t, NEW n \in Nat, SameVisits(s, t, n), NEW to, Mapped(acc, s, n, to)
  PROVE  Mapped(acc, t, n, to)
BY DEF SameVisits, Mapped

LEMMA FilteredSame ==
  ASSUME NEW acc, NEW s, NEW t, NEW n \in Nat, SameVisits(s, t, n), Filtered(acc, s, n)
  PROVE  Filtered(acc, t, n)
<1>1. Chosen(t, n) = Chosen(s, n)
  <2>1. n \in 0 .. n
    OBVIOUS
  <2>. QED BY <2>1, ChosenSame
<1>2. ASSUME NEW m \in 1 .. n PROVE Chosen(t, m - 1) = Chosen(s, m - 1)
  <2>1. m - 1 \in 0 .. n
    OBVIOUS
  <2>. QED BY <2>1, ChosenSame
<1>3. ASSUME NEW m \in 1 .. n PROVE t[m].value = s[m].value /\ t[m].returned = s[m].returned
  BY DEF SameVisits
<1>. QED BY <1>1, <1>2, <1>3 DEF Filtered

-----------------------------------------------------------------------------
(* The steps of map and of filter *)
Passes(acc, k, to, p) ==
  p = Methods!PutAll(acc, k, [j \in 1 .. Methods!Max({0, to - k}) |-> Undefined])

LEMMA MapPasses ==
  ASSUME NEW acc, NEW s, NEW n \in Nat, NEW k, Mapped(acc, s, n, k), NEW to \in Nat, k <= to,
         NEW p, Passes(acc, k, to, p)
  PROVE  Mapped(p, s, n, to)
<1>0. IsObject(acc) /\ acc.array /\ k \in Nat /\ acc.length = k
  BY DEF Mapped
<1>1. PICK m \in Nat : m = to - k
  BY <1>0
<1>2. Methods!Max({0, to - k}) = m
  <2>1. 0 \in Int /\ m \in Int
    OBVIOUS
  <2>2. Methods!Max({0, m}) = m
    BY <2>1, TwoInts
  <2>. QED BY <1>1, <2>2
<1>3. PICK items : items = [j \in 1 .. m |-> Undefined]
  OBVIOUS
<1>4. Len(items) = m /\ \A j \in 1 .. m : items[j] = Undefined
  <2>1. items \in Seq({Undefined})
    BY <1>3
  <2>2. DOMAIN items = 1 .. m
    BY <1>3
  <2>. QED BY <1>3, <2>1, <2>2
<1>5. p = Methods!PutAll(acc, k, items)
  BY <1>2, <1>3 DEF Passes
<1>6. PICK F : /\ \A j \in 1 .. Len(items) : F[k + j - 1] = {items[j]}
               /\ Spread(acc, p, k, Len(items), F)
  BY <1>0, <1>4, <1>5, PutAllSpreads
<1>7. \A i \in k .. to - 1 : F[i] = {Undefined}
  <2>1. ASSUME NEW i \in k .. to - 1 PROVE F[i] = {Undefined}
    <3>1. PICK j : j = i - k + 1
      OBVIOUS
    <3>2. j \in 1 .. m /\ k + j - 1 = i
      BY <1>0, <1>1, <3>1
    <3>. QED BY <1>4, <1>6, <3>2
  <2>. QED BY <2>1
<1>8. /\ IsObject(p) /\ p.array /\ p.length \in Nat /\ p.length >= k
      /\ \A i \in Nat : Own(p, i) = IF Inside(k, i, m) THEN F[i] ELSE Own(acc, i)
      /\ \A b \in Nat : k <= b /\ (\A i \in Nat : Inside(k, i, m) => F[i] = {} \/ i < b)
                         => p.length <= b
  <2>1. Spread(acc, p, k, m, F)
    BY <1>4, <1>6
  <2>2. IsObject(p) /\ p.array
    BY <1>0, <2>1 DEF Spread
  <2>3. p.length \in Nat
    BY <2>2, Lengths
  <2>. QED BY <1>0, <2>1, <2>2, <2>3 DEF Spread
<1>9. \A i \in Nat : Inside(k, i, m) <=> i \in k .. to - 1
  BY <1>0, <1>1 DEF Inside
<1>10. p.length = to
  <2>1. p.length <= to
    BY <1>8, <1>9
  <2>2. CASE k = to
    BY <1>8, <2>1, <2>2
  <2>3. CASE k < to
    <3>1. PICK i \in Nat : i = to - 1
      BY <1>0, <2>3
    <3>2. Own(p, i) = {Undefined}
      BY <1>0, <1>7, <1>8, <1>9, <2>3, <3>1
    <3>3. ~(i >= p.length)
      BY <1>8, <3>2, NoneBeyond
    <3>. QED BY <1>8, <2>1, <3>1, <3>3
  <2>. QED BY <1>0, <2>2, <2>3
<1>11. ASSUME NEW i \in 0 .. k - 1 PROVE Own(p, i) = Own(acc, i) /\ i \in 0 .. to - 1
  BY <1>0, <1>8, <1>9
<1>12. ASSUME NEW i \in 0 .. to - 1, i \notin 0 .. k - 1 PROVE Own(p, i) = {Undefined}
  <2>1. i \in k .. to - 1 /\ i \in Nat
    BY <1>0, <1>12
  <2>. QED BY <1>7, <1>8, <1>9, <2>1
<1>13. \A j \in 1 .. n : s[j].at \in 0 .. to - 1 /\ Own(p, s[j].at) = {s[j].returned}
  BY <1>11 DEF Mapped
<1>14. \A i \in 0 .. to - 1 : Own(p, i) = {Undefined} \/ \E j \in 1 .. n : s[j].at = i
  BY <1>11, <1>12 DEF Mapped
<1>. QED BY <1>8, <1>10, <1>13, <1>14 DEF Mapped

LEMMA MapReturns ==
  ASSUME NEW acc, NEW s, NEW n \in Nat, NEW at, Mapped(acc, s, n, at), NEW t, SameVisits(s, t, n),
         NEW v, t[n + 1].at = at, t[n + 1].returned = v, NEW p, p = Methods!Put(acc, at, v)
  PROVE  Mapped(p, t, n + 1, at + 1)
<1>0. IsObject(acc) /\ acc.array /\ at \in Nat /\ acc.length = at
  BY DEF Mapped
<1>1. Sets(acc, at, {v}, p)
  BY <1>0, PutSets
<1>2. /\ IsObject(p) /\ p.array /\ p.length = at + 1 /\ Own(p, at) = {v}
      /\ \A j : j # at => Own(p, j) = Own(acc, j)
  BY <1>0, <1>1 DEF Sets
<1>3. Mapped(acc, t, n, at)
  BY MappedSame
<1>4. ASSUME NEW m \in 1 .. n + 1
      PROVE  t[m].at \in 0 .. at /\ Own(p, t[m].at) = {t[m].returned}
  <2>1. CASE m = n + 1
    BY <1>0, <1>2, <2>1
  <2>2. CASE m \in 1 .. n
    <3>1. t[m].at \in 0 .. at - 1 /\ Own(acc, t[m].at) = {t[m].returned}
      BY <1>3, <2>2 DEF Mapped
    <3>. QED BY <1>0, <1>2, <3>1
  <2>. QED BY <2>1, <2>2
<1>5. ASSUME NEW i \in 0 .. at
      PROVE  Own(p, i) = {Undefined} \/ \E m \in 1 .. n + 1 : t[m].at = i
  <2>1. CASE i = at
    BY <2>1
  <2>2. CASE i # at
    <3>1. i \in 0 .. at - 1
      BY <1>0, <2>2
    <3>2. Own(acc, i) = {Undefined} \/ \E m \in 1 .. n : t[m].at = i
      BY <1>3, <3>1 DEF Mapped
    <3>3. \A m \in 1 .. n : m \in 1 .. n + 1
      OBVIOUS
    <3>. QED BY <1>2, <2>2, <3>2, <3>3
  <2>. QED BY <2>1, <2>2
<1>6. (at + 1) - 1 = at /\ at + 1 \in Nat
  BY <1>0
<1>. QED BY <1>2, <1>4, <1>5, <1>6 DEF Mapped

Selects(acc, v, x, p) == p = IF v THEN Methods!Put(acc, acc.length, x) ELSE acc

LEMMA FilterReturns ==
  ASSUME NEW acc, NEW s, NEW n \in Nat, Filtered(acc, s, n), NEW t, SameVisits(s, t, n),
         NEW v \in BOOLEAN, t[n + 1].returned = v, NEW p, Selects(acc, v, t[n + 1].value, p)
  PROVE  Filtered(p, t, n + 1)
<1>0. Filtered(acc, t, n)
  BY FilteredSame
<1>1. PICK count \in Nat : count = Chosen(t, n)
  BY ChosenCounts
<1>2. IsObject(acc) /\ acc.array /\ acc.length = count
  BY <1>0, <1>1 DEF Filtered
<1>3. Chosen(t, n + 1) = IF v THEN count + 1 ELSE count
  BY <1>1, ChosenCounts
<1>4. ASSUME NEW m \in 1 .. n
      PROVE  /\ t[m].returned \in BOOLEAN
             /\ t[m].returned => /\ Chosen(t, m - 1) < count /\ Chosen(t, m - 1) \in Nat
                                 /\ Own(acc, Chosen(t, m - 1)) = {t[m].value}
  <2>1. m - 1 \in Nat
    OBVIOUS
  <2>2. Chosen(t, m - 1) \in Nat
    BY <2>1, ChosenCounts
  <2>. QED BY <1>0, <1>1, <2>2 DEF Filtered
<1>5. n + 1 - 1 = n /\ \A m \in 1 .. n + 1 : m = n + 1 \/ m \in 1 .. n
  OBVIOUS
<1>6. CASE v
  <2>1. PICK x : x = t[n + 1].value
    OBVIOUS
  <2>2. Sets(acc, count, {x}, p)
    <3>1. p = Methods!Put(acc, count, x) /\ count \in Nat
      BY <1>2, <1>6, <2>1 DEF Selects
    <3>. QED BY <1>2, <3>1, PutSets
  <2>3. /\ IsObject(p) /\ p.array /\ p.length = count + 1 /\ Own(p, count) = {x}
        /\ \A j : j # count => Own(p, j) = Own(acc, j)
    <3>1. /\ IsObject(p) /\ p.array = acc.array /\ Own(p, count) = {x}
          /\ \A j : j # count => Own(p, j) = Own(acc, j)
      BY <2>2 DEF Sets
    <3>2. p.length = IF acc.array /\ {x} # {} /\ count >= acc.length THEN count + 1 ELSE acc.length
      BY <2>2 DEF Sets
    <3>3. count >= acc.length
      BY <1>1, <1>2
    <3>4. {x} # {}
      OBVIOUS
    <3>5. p.length = count + 1
      BY <1>2, <3>2, <3>3, <3>4
    <3>. QED BY <1>2, <3>1, <3>5
  <2>4. ASSUME NEW m \in 1 .. n + 1
        PROVE  /\ t[m].returned \in BOOLEAN
               /\ t[m].returned => /\ Chosen(t, m - 1) < count + 1
                                   /\ Own(p, Chosen(t, m - 1)) = {t[m].value}
    <3>1. CASE m = n + 1
      BY <1>1, <1>5, <2>1, <2>3, <3>1
    <3>2. CASE m \in 1 .. n
      BY <1>1, <1>4, <2>3, <3>2
    <3>. QED BY <1>5, <3>1, <3>2
  <2>5. Chosen(t, n + 1) = count + 1
    BY <1>3, <1>6
  <2>. QED BY <2>3, <2>4, <2>5 DEF Filtered
<1>7. CASE ~v
  <2>1. p = acc /\ Chosen(t, n + 1) = count
    BY <1>3, <1>7 DEF Selects
  <2>2. ASSUME NEW m \in 1 .. n + 1
        PROVE  /\ t[m].returned \in BOOLEAN
               /\ t[m].returned => /\ Chosen(t, m - 1) < count
                                   /\ Own(acc, Chosen(t, m - 1)) = {t[m].value}
    BY <1>4, <1>5, <1>7
  <2>. QED BY <1>2, <2>1, <2>2 DEF Filtered
<1>. QED BY <1>6, <1>7

-----------------------------------------------------------------------------
(* The next turn, or the end.                                              *)
LEMMA OthersHold ==
  ASSUME NEW l, l.method # "map", NEW to
  PROVE  Methods!Holes(l, to) = l.acc
BY DEF Methods!Holes

LEMMA MapHolds ==
  ASSUME NEW l, l.method = "map", NEW n \in Nat, NEW s, s = l.visits, Mapped(l.acc, s, n, l.k),
         NEW to \in Nat, l.k <= to
  PROVE  Mapped(Methods!Holes(l, to), s, n, to)
<1>1. PICK acc : acc = l.acc
  OBVIOUS
<1>2. PICK k : k = l.k
  OBVIOUS
<1>3. PICK p : p = Methods!PutAll(acc, k, [j \in 1 .. Methods!Max({0, to - k}) |-> Undefined])
  OBVIOUS
<1>4. Methods!Holes(l, to) = p
  BY <1>1, <1>2, <1>3 DEF Methods!Holes
<1>5. Mapped(p, s, n, to)
  <2>1. Mapped(acc, s, n, k) /\ k <= to /\ Passes(acc, k, to, p)
    BY <1>1, <1>2, <1>3 DEF Passes
  <2>. QED BY <2>1, MapPasses
<1>. QED BY <1>4, <1>5

LEMMA EndResults ==
  ASSUME NEW o, NEW l, Fine(o, l), Ready(l), Methods!Ahead(o, l) = {}, NEW r, GoesOn(o, l, r)
  PROVE  ~r.running /\ Resulted(r)
<1>0. IsLoop(l) /\ l.len \in Nat
  BY DEF Fine, IsLoop
<1>1. /\ Same(l, r) /\ ~r.running /\ r.visits = l.visits
      /\ r.acc = CASE l.method = "every" -> TRUE
                   [] l.method = "some"  -> FALSE
                   [] OTHER              -> Methods!Holes(l, l.len)
  BY <1>0, EndFields
<1>2. r.method = l.method /\ r.first = l.first /\ r.len = l.len
  BY <1>1 DEF Same
<1>3. PICK s : s = l.visits
  OBVIOUS
<1>4. PICK n \in Nat : n = Len(s)
  <2>1. AreVisits(s)
    BY <1>0, <1>3 DEF IsLoop
  <2>. QED BY <2>1 DEF AreVisits
<1>5. Chained(r) /\ FirstPast(r)
  BY <1>1, <1>2 DEF Ready, Chained, FirstPast, Reduces
<1>6. Results(l, n, l.k)
  BY <1>3, <1>4 DEF Ready
<1>7. r.method = "every" => r.acc = TRUE /\ \A m \in 1 .. n : s[m].returned = TRUE
  BY <1>1, <1>2, <1>3, <1>6 DEF Results
<1>8. r.method = "some" => r.acc = FALSE /\ \A m \in 1 .. n : s[m].returned = FALSE
  BY <1>1, <1>2, <1>3, <1>6 DEF Results
<1>9. r.method \notin {"every", "some", "map"} => r.acc = l.acc
  BY <1>1, <1>2, OthersHold
<1>10. r.method = "map" => Mapped(r.acc, s, n, r.len)
  <2>1. SUFFICES ASSUME r.method = "map" PROVE Mapped(r.acc, s, n, r.len)
    OBVIOUS
  <2>2. r.acc = Methods!Holes(l, l.len)
    BY <1>1, <1>2, <2>1
  <2>3. Mapped(l.acc, s, n, l.k) /\ l.k <= l.len
    BY <1>2, <1>3, <1>6, <2>1 DEF Results, Ready
  <2>. QED BY <1>0, <1>2, <1>3, <2>1, <2>2, <2>3, MapHolds
<1>11. r.method = "filter" => Filtered(r.acc, s, n)
  BY <1>2, <1>3, <1>6, <1>9 DEF Results
<1>12. Reduces(r) /\ n > 0 => r.acc = s[n].returned
  BY <1>2, <1>3, <1>6, <1>9 DEF Results, Reduces
<1>13. r.visits = s
  BY <1>1, <1>3
<1>. QED BY <1>1, <1>4, <1>5, <1>7, <1>8, <1>10, <1>11, <1>12, <1>13 DEF Resulted

LEMMA TurnResults ==
  ASSUME NEW o, NEW l, Fine(o, l), l.running, Ready(l), Methods!Ahead(o, l) # {},
         NEW r, GoesOn(o, l, r)
  PROVE  r.running /\ Waiting(r)
<1>0. IsLoop(l) /\ l.len \in Nat /\ l.k \in Int /\ Behind(l)
  BY DEF Fine, IsLoop
<1>1. PICK i : i = Methods!Turn(o, l)
  OBVIOUS
<1>2. PICK s : s = l.visits
  OBVIOUS
<1>3. PICK t : t = r.visits
  OBVIOUS
<1>4. PICK n : n = Len(s)
  OBVIOUS
<1>5. /\ IsLoop(r) /\ Same(l, r) /\ r.running /\ r.k = Methods!Past(l, i)
      /\ t[n + 1].at = i /\ t[n + 1].given = Methods!Holes(l, i) /\ r.acc = Methods!Holes(l, i)
      /\ n \in Nat /\ Len(t) = n + 1 /\ \A m \in 1 .. n : t[m] = s[m]
  BY <1>0, <1>1, <1>2, <1>3, <1>4, GoOnFields
<1>6. r.method = l.method /\ r.first = l.first /\ r.len = l.len
  BY <1>5 DEF Same
<1>7. i \in 0 .. l.len - 1 /\ ToCome(l, i)
  BY <1>0, <1>1, TurnFacts DEF Methods!Ahead, ToCome
<1>8. SameVisits(s, t, n)
  BY <1>5 DEF SameVisits
<1>9. Results(l, n, l.k) /\ Chained(l) /\ FirstPast(l)
  BY <1>2, <1>4 DEF Ready
<1>10. r.method # "map" => r.acc = l.acc /\ t[n + 1].given = l.acc
  BY <1>5, <1>6, OthersHold
<1>11. r.method = "map" => /\ Mapped(r.acc, t, n, i) /\ r.k = i + 1
  <2>1. SUFFICES ASSUME r.method = "map" PROVE Mapped(r.acc, t, n, i) /\ r.k = i + 1
    OBVIOUS
  <2>2. ~Methods!Backwards(l)
    BY <1>6, <2>1 DEF Methods!Backwards
  <2>3. l.k <= i /\ i \in Nat /\ r.k = i + 1
    BY <1>0, <1>5, <1>7, <2>2 DEF ToCome, Methods!Past
  <2>4. Mapped(l.acc, s, n, l.k)
    BY <1>2, <1>6, <1>9, <2>1 DEF Results
  <2>5. Mapped(r.acc, s, n, i)
    BY <1>2, <1>5, <1>6, <2>1, <2>3, <2>4, MapHolds
  <2>. QED BY <1>5, <1>8, <2>3, <2>5, MappedSame
<1>12. r.method = "filter" => Filtered(r.acc, t, n)
  <2>1. SUFFICES ASSUME r.method = "filter" PROVE Filtered(r.acc, t, n)
    OBVIOUS
  <2>2. Filtered(r.acc, s, n)
    BY <1>2, <1>6, <1>9, <1>10, <2>1 DEF Results
  <2>. QED BY <1>5, <1>8, <2>2, FilteredSame
<1>13. Reduces(r) => r.method # "map" /\ Reduces(l)
  BY <1>6 DEF Reduces
<1>14. Reduces(r) /\ n > 0 => r.acc = t[n].returned
  <2>1. SUFFICES ASSUME Reduces(r), n > 0 PROVE r.acc = t[n].returned
    OBVIOUS
  <2>2. l.acc = s[n].returned
    BY <1>2, <1>9, <1>13, <2>1 DEF Results
  <2>3. n \in 1 .. n
    BY <1>5, <2>1
  <2>. QED BY <1>5, <1>10, <1>13, <2>1, <2>2, <2>3
<1>15. Results(r, n, i)
  <2>1. r.method = "every" => \A m \in 1 .. n : t[m].returned = TRUE
    BY <1>2, <1>5, <1>6, <1>9 DEF Results
  <2>2. r.method = "some" => \A m \in 1 .. n : t[m].returned = FALSE
    BY <1>2, <1>5, <1>6, <1>9 DEF Results
  <2>. QED BY <1>3, <1>11, <1>12, <1>14, <2>1, <2>2 DEF Results
<1>16. Chained(r)
  <2>1. ASSUME Reduces(r), NEW m \in 2 .. n + 1 PROVE t[m].given = t[m - 1].returned
    <3>1. CASE m = n + 1
      <4>1. n > 0 /\ m - 1 = n
        BY <1>5, <2>1, <3>1
      <4>. QED BY <1>10, <1>13, <1>14, <2>1, <3>1, <4>1
    <3>2. CASE m # n + 1
      <4>1. m \in 2 .. n /\ m \in 1 .. n /\ m - 1 \in 1 .. n
        BY <1>5, <2>1, <3>2
      <4>2. s[m].given = s[m - 1].returned
        BY <1>2, <1>4, <1>9, <1>13, <2>1, <4>1 DEF Chained
      <4>. QED BY <1>5, <4>1, <4>2
    <3>. QED BY <3>1, <3>2
  <2>. QED BY <1>3, <1>5, <2>1 DEF Chained
<1>17. FirstPast(r)
  <2>1. ASSUME r.first # None, NEW m \in 1 .. n + 1 PROVE t[m].at # r.first
    <3>1. CASE m = n + 1
      <4>1. VisitedBy(l, l.first)
        BY <1>6, <2>1 DEF VisitedBy
      <4>2. ~ToCome(l, l.first)
        BY <1>0, <4>1 DEF Behind
      <4>. QED BY <1>5, <1>6, <1>7, <3>1, <4>2
    <3>2. CASE m \in 1 .. n
      BY <1>2, <1>4, <1>5, <1>6, <1>9, <2>1, <3>2 DEF FirstPast
    <3>. QED BY <1>5, <3>1, <3>2
  <2>. QED BY <1>3, <1>5, <2>1 DEF FirstPast
<1>18. Len(r.visits) = n + 1 /\ Len(r.visits) - 1 = n /\ r.visits[n + 1].at = i
  BY <1>3, <1>5
<1>. QED BY <1>5, <1>6, <1>7, <1>11, <1>15, <1>16, <1>17, <1>18 DEF Waiting

Settled(r) == IF r.running THEN Waiting(r) ELSE Resulted(r)

LEMMA GoOnResults ==
  ASSUME NEW o, NEW l, Fine(o, l), l.running, Ready(l), NEW r, GoesOn(o, l, r)
  PROVE  Settled(r)
BY EndResults, TurnResults DEF Settled

-----------------------------------------------------------------------------
(* A callback returns v, and the loop has gathered a then.                 *)
HasReturned(l, n, v, a, q) ==
  /\ Same(l, q) /\ q.running = l.running /\ q.k = l.k /\ q.acc = a
  /\ n \in Nat /\ Len(l.visits) = n + 1 /\ Len(q.visits) = n + 1
  /\ \A m \in 1 .. n + 1 : /\ q.visits[m].at = l.visits[m].at
                           /\ q.visits[m].value = l.visits[m].value
                           /\ q.visits[m].given = l.visits[m].given
  /\ \A m \in 1 .. n : q.visits[m].returned = l.visits[m].returned
  /\ q.visits[n + 1].returned = v

LEMMA ReturnsGives ==
  ASSUME NEW l, IsLoop(l), Called(l), NEW v, NEW r, Returns(l, v, r)
  PROVE  HasReturned(l, Len(l.visits) - 1, v, l.acc, r)
<1>1. PICK s : s = l.visits
  OBVIOUS
<1>2. AreVisits(s) /\ Len(s) \in Nat \ {0} /\ Len(s) \in 1 .. Len(s)
  BY <1>1 DEF IsLoop, Called
<1>3. PICK len : len = Len(s)
  OBVIOUS
<1>4. PICK t : ReturnsVisit(s, len, v, t)
  BY DEF ReturnsVisit
<1>5. /\ Len(t) = len /\ t[len].returned = v /\ t[len].given = s[len].given
      /\ \A m \in 1 .. len : t[m].at = s[m].at /\ t[m].value = s[m].value
      /\ \A m \in 1 .. len : m # len => t[m] = s[m]
  BY <1>2, <1>3, <1>4, VisitReturned
<1>6. r = [l EXCEPT !.visits = t]
  BY <1>1, <1>3, <1>4 DEF Returns, ReturnsVisit, IsLoop
<1>7. r = [method |-> l.method, len |-> l.len, running |-> l.running, writes |-> l.writes,
           k |-> l.k, acc |-> l.acc, first |-> l.first, visits |-> t,
           kept |-> l.kept, absent |-> l.absent]
  BY <1>6 DEF IsLoop
<1>8. Same(l, r) /\ r.running = l.running /\ r.k = l.k /\ r.acc = l.acc /\ r.visits = t
  BY <1>7 DEF Same
<1>9. PICK n \in Nat : n = len - 1 /\ n + 1 = len
  BY <1>2, <1>3
<1>10. \A m \in 1 .. n : m \in 1 .. len /\ m # len
  BY <1>9
<1>11. \A m \in 1 .. len : t[m].given = s[m].given
  BY <1>5
<1>12. HasReturned(l, n, v, l.acc, r)
  BY <1>1, <1>3, <1>5, <1>8, <1>9, <1>10, <1>11 DEF HasReturned
<1>. QED BY <1>1, <1>3, <1>9, <1>12

LEMMA GathersGives ==
  ASSUME NEW l, NEW n, NEW v, NEW m, IsLoop(m), HasReturned(l, n, v, l.acc, m), NEW a, NEW q,
         Gathers(m, a, q)
  PROVE  HasReturned(l, n, v, a, q)
<1>1. q = [method |-> m.method, len |-> m.len, running |-> m.running, writes |-> m.writes,
           k |-> m.k, acc |-> a, first |-> m.first, visits |-> m.visits,
           kept |-> m.kept, absent |-> m.absent]
  BY DEF IsLoop, Gathers
<1>2. Same(m, q) /\ q.running = m.running /\ q.k = m.k /\ q.acc = a /\ q.visits = m.visits
  BY <1>1 DEF Same
<1>3. Same(l, q)
  BY <1>2 DEF Same, HasReturned
<1>. QED BY <1>2, <1>3 DEF HasReturned

\* What each method makes of the value returned.
Takes(l, n, v, a) ==
  /\ l.method = "every" => v = TRUE
  /\ l.method = "some" => v = FALSE
  /\ l.method = "map" => a = Methods!Put(l.acc, l.visits[n + 1].at, v)
  /\ l.method = "filter" =>
       /\ v \in BOOLEAN
       /\ a = IF v THEN Methods!Put(l.acc, l.acc.length, l.visits[n + 1].value) ELSE l.acc
  /\ Reduces(l) => a = v

LEMMA ReturnedReady ==
  ASSUME NEW l, IsLoop(l), Waiting(l), NEW n, NEW v, NEW a, NEW q, HasReturned(l, n, v, a, q), Takes(l, n, v, a)
  PROVE  Ready(q)
<1>1. PICK s : s = l.visits
  OBVIOUS
<1>2. PICK t : t = q.visits
  OBVIOUS
<1>3. /\ q.method = l.method /\ q.first = l.first /\ q.len = l.len /\ q.k = l.k /\ q.acc = a
      /\ n \in Nat /\ Len(s) = n + 1 /\ Len(t) = n + 1 /\ Len(l.visits) - 1 = n
      /\ \A m \in 1 .. n + 1 : t[m].at = s[m].at /\ t[m].value = s[m].value /\ t[m].given = s[m].given
      /\ \A m \in 1 .. n : t[m].returned = s[m].returned
      /\ t[n + 1].returned = v
  <2>1. q.method = l.method /\ q.first = l.first /\ q.len = l.len /\ q.k = l.k /\ q.acc = a
    BY DEF HasReturned, Same
  <2>2. n \in Nat /\ Len(s) = n + 1 /\ Len(t) = n + 1
    BY <1>1, <1>2 DEF HasReturned
  <2>3. Len(l.visits) - 1 = n
    BY <1>1, <2>2
  <2>4. \A m \in 1 .. n + 1 : t[m].at = s[m].at /\ t[m].value = s[m].value /\ t[m].given = s[m].given
    BY <1>1, <1>2 DEF HasReturned
  <2>5. (\A m \in 1 .. n : t[m].returned = s[m].returned) /\ t[n + 1].returned = v
    BY <1>1, <1>2 DEF HasReturned
  <2>. QED BY <2>1, <2>2, <2>3, <2>4, <2>5
<1>4. /\ Results(l, n, s[n + 1].at) /\ Chained(l) /\ FirstPast(l)
      /\ l.method = "map" => l.k = s[n + 1].at + 1 /\ s[n + 1].at \in 0 .. l.len - 1
  BY <1>1, <1>3 DEF Waiting
<1>5. \A m \in 1 .. n + 1 : m = n + 1 \/ m \in 1 .. n
  BY <1>3
<1>6. SameVisits(s, t, n)
  <2>1. \A m \in 1 .. n : m \in 1 .. n + 1
    BY <1>3
  <2>. QED BY <1>3, <2>1 DEF SameVisits
<1>7. n + 1 \in 1 .. n + 1
  BY <1>3
<1>8. q.method = "every" => \A m \in 1 .. n + 1 : t[m].returned = TRUE
  BY <1>1, <1>3, <1>4, <1>5 DEF Results, Takes
<1>9. q.method = "some" => \A m \in 1 .. n + 1 : t[m].returned = FALSE
  BY <1>1, <1>3, <1>4, <1>5 DEF Results, Takes
<1>10. q.method = "map" => Mapped(q.acc, t, n + 1, q.k) /\ q.k <= q.len
  <2>1. SUFFICES ASSUME q.method = "map" PROVE Mapped(q.acc, t, n + 1, q.k) /\ q.k <= q.len
    OBVIOUS
  <2>2. PICK at : at = s[n + 1].at
    OBVIOUS
  <2>3. PICK acc : acc = l.acc
    OBVIOUS
  <2>4. Mapped(acc, s, n, at)
    BY <1>1, <1>3, <1>4, <2>1, <2>2, <2>3 DEF Results
  <2>5. a = Methods!Put(acc, at, v)
    BY <1>1, <1>3, <2>1, <2>2, <2>3 DEF Takes
  <2>6. t[n + 1].at = at
    BY <1>3, <1>7, <2>2
  <2>7. Mapped(a, t, n + 1, at + 1)
    BY <1>3, <1>6, <2>4, <2>5, <2>6, MapReturns
  <2>8. q.k = at + 1 /\ at \in 0 .. q.len - 1
    BY <1>3, <1>4, <2>1, <2>2
  <2>9. at \in Nat /\ q.len \in Nat
    BY <1>3, <2>4 DEF Mapped, IsLoop
  <2>10. q.k <= q.len
    BY <2>8, <2>9
  <2>. QED BY <1>3, <2>7, <2>8, <2>10
<1>11. q.method = "filter" => Filtered(q.acc, t, n + 1)
  <2>1. SUFFICES ASSUME q.method = "filter" PROVE Filtered(q.acc, t, n + 1)
    OBVIOUS
  <2>2. PICK acc : acc = l.acc
    OBVIOUS
  <2>3. Filtered(acc, s, n)
    BY <1>1, <1>3, <1>4, <2>1, <2>2 DEF Results
  <2>4. v \in BOOLEAN /\ Selects(acc, v, t[n + 1].value, a)
    BY <1>1, <1>3, <1>7, <2>1, <2>2 DEF Takes, Selects
  <2>5. Filtered(a, t, n + 1)
    BY <1>3, <1>6, <2>3, <2>4, FilterReturns
  <2>. QED BY <1>3, <2>5
<1>12. Reduces(q) => q.acc = t[n + 1].returned
  BY <1>3 DEF Reduces, Takes
<1>13. Results(q, n + 1, q.k)
  BY <1>2, <1>8, <1>9, <1>10, <1>11, <1>12 DEF Results
<1>14. Chained(q)
  <2>1. ASSUME Reduces(q), NEW m \in 2 .. n + 1 PROVE t[m].given = t[m - 1].returned
    <3>1. m \in 1 .. n + 1 /\ m - 1 \in 1 .. n /\ Reduces(l)
      BY <1>3, <2>1 DEF Reduces
    <3>2. s[m].given = s[m - 1].returned
      BY <1>1, <1>3, <1>4, <2>1, <3>1 DEF Chained
    <3>. QED BY <1>3, <3>1, <3>2
  <2>. QED BY <1>2, <1>3, <2>1 DEF Chained
<1>15. FirstPast(q)
  BY <1>1, <1>2, <1>3, <1>4 DEF FirstPast
<1>. QED BY <1>2, <1>3, <1>10, <1>13, <1>14, <1>15 DEF Ready

LEMMA StopResults ==
  ASSUME NEW l, l.method \in {"every", "some"}, Waiting(l), NEW n, NEW v,
         v = (l.method = "some"), NEW m, IsLoop(m), HasReturned(l, n, v, l.acc, m),
         NEW r, Stops(m, v, r)
  PROVE  ~r.running /\ Resulted(r)
<1>1. r = [method |-> m.method, len |-> m.len, running |-> FALSE, writes |-> m.writes,
           k |-> m.k, acc |-> v, first |-> m.first, visits |-> m.visits,
           kept |-> m.kept, absent |-> m.absent]
  BY DEF IsLoop, Stops
<1>2. /\ r.method = m.method /\ ~r.running /\ r.acc = v /\ r.visits = m.visits
      /\ r.first = m.first
  BY <1>1
<1>3. /\ m.method = l.method /\ m.first = l.first /\ n \in Nat /\ Len(l.visits) = n + 1
      /\ Len(m.visits) = n + 1 /\ \A j \in 1 .. n + 1 : m.visits[j].at = l.visits[j].at
      /\ m.visits[n + 1].returned = v /\ n + 1 \in 1 .. n + 1
  BY DEF HasReturned, Same
<1>4. FirstPast(r)
  BY <1>2, <1>3 DEF Waiting, FirstPast
<1>5. ~Reduces(r) /\ Chained(r) /\ r.method \notin {"map", "filter"}
  BY <1>2, <1>3 DEF Reduces, Chained
<1>6. r.method = "every" => r.acc = FALSE /\ \E j \in 1 .. Len(r.visits) : r.visits[j].returned = FALSE
  <2>1. SUFFICES ASSUME r.method = "every"
                 PROVE  r.acc = FALSE /\ \E j \in 1 .. Len(r.visits) : r.visits[j].returned = FALSE
    OBVIOUS
  <2>2. l.method # "some"
    BY <1>2, <1>3, <2>1
  <2>3. v = FALSE
    BY <2>2, Zenon
  <2>. QED BY <1>2, <1>3, <2>3
<1>7. r.method = "some" => r.acc = TRUE /\ \E j \in 1 .. Len(r.visits) : r.visits[j].returned = TRUE
  <2>1. SUFFICES ASSUME r.method = "some"
                 PROVE  r.acc = TRUE /\ \E j \in 1 .. Len(r.visits) : r.visits[j].returned = TRUE
    OBVIOUS
  <2>2. l.method = "some"
    BY <1>2, <1>3, <2>1
  <2>3. v = TRUE
    BY <2>2, Zenon
  <2>. QED BY <1>2, <1>3, <2>3
<1>. QED BY <1>2, <1>4, <1>5, <1>6, <1>7 DEF Resulted

-----------------------------------------------------------------------------
(* All of the steps of a loop.                                            *)
ResultInv == loop # None => Settled(loop)

LEMMA BegunReady ==
  ASSUME NEW o, o.length \in Nat, NEW method, NEW initial, NEW l, Begins(o, method, initial, l)
  PROVE  Ready(l)
<1>1. /\ l.visits = <<>> /\ l.first = None /\ l.method = method /\ l.len = o.length
      /\ l.k = IF method = "reduceRight" THEN o.length - 1 ELSE 0
      /\ l.acc = IF method \in {"map", "filter"} THEN Methods!EmptyArray ELSE initial
  BY BegunFine
<1>2. Len(l.visits) = 0
  BY <1>1
<1>3. \A n \in 1 .. 0 : FALSE
  OBVIOUS
<1>4. method = "map" => Mapped(l.acc, l.visits, 0, l.k) /\ l.k <= l.len
  <2>1. SUFFICES ASSUME method = "map" PROVE Mapped(l.acc, l.visits, 0, l.k) /\ l.k <= l.len
    OBVIOUS
  <2>2. l.acc = Methods!EmptyArray /\ l.k = 0
    BY <1>1, <2>1
  <2>3. IsObject(l.acc) /\ l.acc.array /\ l.acc.length = 0
    BY <2>2, EmptyIs
  <2>4. \A i \in 0 .. 0 - 1 : FALSE
    OBVIOUS
  <2>. QED BY <1>1, <1>3, <2>2, <2>3, <2>4 DEF Mapped
<1>5. method = "filter" => Filtered(l.acc, l.visits, 0)
  <2>1. SUFFICES ASSUME method = "filter" PROVE Filtered(l.acc, l.visits, 0)
    OBVIOUS
  <2>2. l.acc = Methods!EmptyArray
    BY <1>1, <2>1
  <2>3. IsObject(l.acc) /\ l.acc.array /\ l.acc.length = 0
    BY <2>2, EmptyIs
  <2>4. Chosen(l.visits, 0) = 0
    <3>1. 0 \in Nat
      OBVIOUS
    <3>. QED BY <3>1, ChosenCounts
  <2>. QED BY <1>3, <2>3, <2>4 DEF Filtered
<1>6. Results(l, 0, l.k)
  BY <1>1, <1>3, <1>4, <1>5 DEF Results
<1>7. Chained(l) /\ FirstPast(l)
  BY <1>1, <1>2 DEF Chained, FirstPast
<1>. QED BY <1>1, <1>2, <1>4, <1>6, <1>7 DEF Ready

LEMMA FirstReady ==
  ASSUME NEW l, Reduces(l), l.visits = <<>>
  PROVE  Ready(l)
<1>1. Len(l.visits) = 0 /\ l.method \notin {"every", "some", "map", "filter"}
  BY DEF Reduces
<1>2. Results(l, 0, l.k)
  BY <1>1 DEF Results
<1>. QED BY <1>1, <1>2 DEF Ready, Chained, FirstPast

LEMMA BeginResults == ASSUME LoopConstants, Methods!Begin PROVE ResultInv'
<1>1. PICK o, r : o = object /\ r = loop'
  OBVIOUS
<1>2. o.length \in Nat
  BY <1>1 DEF LoopConstants, Methods!Begin
<1>3. PICK method \in Methods!LoopMethods, initial \in {None} \cup Values :
        LET l == Methods!Begun(o, method, initial) IN
        IF method \in {"reduce", "reduceRight"} /\ initial = None
        THEN Methods!Ahead(o, l) # {} /\ r = Methods!GoOn(o, Methods!WithFirst(o, l))
        ELSE r = Methods!GoOn(o, l)
  BY <1>1, Zenon DEF Methods!Begin
<1>4. PICK l : Begins(o, method, initial, l)
  BY DEF Begins
<1>5. Fine(o, l) /\ l.running /\ l.visits = <<>> /\ l.first = None /\ l.method = method
  BY <1>2, <1>4, BegunFine
<1>6. CASE method \in {"reduce", "reduceRight"} /\ initial = None
  <2>1. PICK m : TakesFirst(o, l, m)
    BY DEF TakesFirst
  <2>2. Methods!Ahead(o, l) # {} /\ GoesOn(o, m, r)
    BY <1>3, <1>4, <1>6, <2>1 DEF Begins, TakesFirst, GoesOn
  <2>3. Fine(o, m) /\ m.running /\ m.method = l.method /\ m.visits = <<>>
    BY <1>5, <2>1, <2>2, FirstFine DEF LoopConstants
  <2>4. Ready(m)
    BY <1>5, <1>6, <2>3, FirstReady DEF Reduces
  <2>5. Settled(r)
    BY <2>2, <2>3, <2>4, GoOnResults
  <2>. QED BY <1>1, <2>5 DEF ResultInv, Settled, Waiting, Resulted
<1>7. CASE ~(method \in {"reduce", "reduceRight"} /\ initial = None)
  <2>1. GoesOn(o, l, r)
    BY <1>3, <1>4, <1>7 DEF Begins, GoesOn
  <2>2. Ready(l)
    BY <1>2, <1>4, BegunReady
  <2>3. Settled(r)
    BY <1>5, <2>1, <2>2, GoOnResults
  <2>. QED BY <1>1, <2>3 DEF ResultInv
<1>. QED BY <1>6, <1>7

LEMMA ReturnResults ==
  ASSUME LoopInv, ResultInv,
         \/ Methods!ReturnTest \/ Methods!ReturnEach \/ Methods!ReturnMapped
         \/ Methods!ReturnSelected \/ Methods!ReturnReduced
  PROVE  ResultInv'
<1>1. PICK o, l, r : o = object /\ l = loop /\ r = loop'
  OBVIOUS
<1>2. Fine(o, l) /\ Called(l) /\ l.running /\ IsLoop(l) /\ Waiting(l)
  BY <1>1 DEF LoopInv, ResultInv, Settled, Fine, Methods!InCallback, Methods!ReturnTest,
       Methods!ReturnEach, Methods!ReturnMapped, Methods!ReturnSelected, Methods!ReturnReduced
<1>3. PICK n : n = Len(l.visits) - 1
  OBVIOUS
<1>4. Methods!LastVisit = l.visits[n + 1]
  <2>1. Len(l.visits) = n + 1
    BY <1>2, <1>3 DEF Called
  <2>. QED BY <1>1, <2>1 DEF Methods!LastVisit
<1>5. ASSUME NEW v, NEW m, Returns(l, v, m)
      PROVE  /\ HasReturned(l, n, v, l.acc, m) /\ IsLoop(m) /\ Alike(l, m)
  <2>1. HasReturned(l, n, v, l.acc, m)
    BY <1>2, <1>3, <1>5, ReturnsGives
  <2>2. Alike(l, m)
    BY <1>2, <1>5, ReturnsAlike
  <2>3. IsLoop(m)
    BY <2>2 DEF Alike
  <2>. QED BY <2>1, <2>2, <2>3
<1>6. ASSUME NEW v, NEW a, NEW q, Alike(l, q), HasReturned(l, n, v, a, q), Takes(l, n, v, a),
             r = Methods!GoOn(o, q)
      PROVE  ResultInv'
  <2>1. Fine(o, q) /\ q.running
    BY <1>2, <1>6, AlikeFine DEF Alike
  <2>2. Ready(q)
    BY <1>2, <1>6, ReturnedReady
  <2>3. GoesOn(o, q, r)
    BY <1>6 DEF GoesOn
  <2>4. Settled(r)
    BY <2>1, <2>2, <2>3, GoOnResults
  <2>. QED BY <1>1, <2>4 DEF ResultInv
<1>7. ASSUME NEW v, NEW a, Takes(l, n, v, a),
             r = Methods!GoOn(o, [Methods!Returned(v) EXCEPT !.acc = a])
      PROVE  ResultInv'
  <2>1. PICK m : Returns(l, v, m)
    BY DEF Returns
  <2>2. PICK q : Gathers(m, a, q)
    BY DEF Gathers
  <2>3. HasReturned(l, n, v, l.acc, m) /\ IsLoop(m) /\ Alike(l, m)
    BY <1>5, <2>1
  <2>4. HasReturned(l, n, v, a, q)
    BY <2>2, <2>3, GathersGives
  <2>5. Alike(l, q)
    BY <2>2, <2>3, GathersAlike, AlikeTwice
  <2>6. r = Methods!GoOn(o, q)
    BY <1>1, <1>7, <2>1, <2>2, Zenon DEF Returns, Gathers, Methods!Returned
  <2>. QED BY <1>6, <1>7, <2>4, <2>5, <2>6
<1>8. ASSUME NEW v, Takes(l, n, v, l.acc), r = Methods!GoOn(o, Methods!Returned(v))
      PROVE  ResultInv'
  <2>1. PICK m : Returns(l, v, m)
    BY DEF Returns
  <2>2. r = Methods!GoOn(o, m)
    BY <1>1, <1>8, <2>1, Zenon DEF Returns, Methods!Returned
  <2>. QED BY <1>5, <1>6, <1>8, <2>1, <2>2
<1>9. CASE Methods!ReturnTest
  <2>1. PICK v \in BOOLEAN :
          r = IF v = (l.method = "some")
              THEN [Methods!Returned(v) EXCEPT !.running = FALSE, !.acc = v]
              ELSE Methods!GoOn(o, Methods!Returned(v))
    BY <1>1, <1>9, Zenon DEF Methods!ReturnTest
  <2>2. l.method \in {"every", "some"}
    BY <1>1, <1>9 DEF Methods!ReturnTest
  <2>3. CASE v = (l.method = "some")
    <3>1. PICK m : Returns(l, v, m)
      BY DEF Returns
    <3>2. Stops(m, v, r)
      BY <1>1, <2>1, <2>3, <3>1, Zenon DEF Returns, Stops, Methods!Returned
    <3>3. HasReturned(l, n, v, l.acc, m) /\ IsLoop(m)
      BY <1>5, <3>1
    <3>4. ~r.running /\ Resulted(r)
      BY <1>2, <2>2, <2>3, <3>2, <3>3, StopResults
    <3>5. Settled(r)
      BY <3>4 DEF Settled
    <3>. QED BY <1>1, <3>5 DEF ResultInv
  <2>4. CASE ~(v = (l.method = "some"))
    <3>1. r = Methods!GoOn(o, Methods!Returned(v))
      BY <2>1, <2>4, Zenon
    <3>2. l.method = "every" => v = TRUE
      <4>1. SUFFICES ASSUME l.method = "every" PROVE v = TRUE
        OBVIOUS
      <4>2. l.method # "some"
        BY <4>1
      <4>. QED BY <2>1, <2>4, <4>2, Zenon
    <3>3. l.method = "some" => v = FALSE
      BY <2>1, <2>4, Zenon
    <3>4. Takes(l, n, v, l.acc)
      BY <2>2, <3>2, <3>3 DEF Takes, Reduces
    <3>. QED BY <1>8, <3>1, <3>4
  <2>. QED BY <2>3, <2>4
<1>10. CASE Methods!ReturnEach
  <2>1. r = Methods!GoOn(o, Methods!Returned(Undefined)) /\ l.method = "forEach"
    BY <1>1, <1>10, Zenon DEF Methods!ReturnEach
  <2>2. Takes(l, n, Undefined, l.acc)
    BY <2>1 DEF Takes, Reduces
  <2>. QED BY <1>8, <2>1, <2>2
<1>11. CASE Methods!ReturnMapped
  <2>1. PICK v \in Values :
          r = Methods!GoOn(o, [Methods!Returned(v) EXCEPT
                                 !.acc = Methods!Put(@, Methods!LastVisit.at, v)])
    BY <1>1, <1>11, Zenon DEF Methods!ReturnMapped
  <2>2. PICK m : Returns(l, v, m)
    BY DEF Returns
  <2>3. HasReturned(l, n, v, l.acc, m) /\ IsLoop(m) /\ Alike(l, m)
    BY <1>5, <2>2
  <2>4. m.acc = l.acc
    BY <2>3 DEF HasReturned
  <2>5. PICK a : a = Methods!Put(l.acc, l.visits[n + 1].at, v)
    OBVIOUS
  <2>6. PICK q : Gathers(m, a, q)
    BY DEF Gathers
  <2>7. r = Methods!GoOn(o, q)
    BY <1>1, <1>4, <2>1, <2>2, <2>4, <2>5, <2>6, Zenon DEF Returns, Gathers, Methods!Returned
  <2>8. l.method = "map"
    BY <1>1, <1>11 DEF Methods!ReturnMapped
  <2>9. Takes(l, n, v, a)
    BY <2>5, <2>8 DEF Takes, Reduces
  <2>10. HasReturned(l, n, v, a, q) /\ Alike(l, q)
    BY <2>3, <2>6, GathersGives, GathersAlike, AlikeTwice
  <2>. QED BY <1>6, <2>7, <2>9, <2>10
<1>12. CASE Methods!ReturnSelected
  <2>1. PICK v \in BOOLEAN :
          r = Methods!GoOn(o, [Methods!Returned(v) EXCEPT
                !.acc = IF v THEN Methods!Put(@, @.length, Methods!LastVisit.value) ELSE @])
    BY <1>1, <1>12, Zenon DEF Methods!ReturnSelected
  <2>2. PICK m : Returns(l, v, m)
    BY DEF Returns
  <2>3. HasReturned(l, n, v, l.acc, m) /\ IsLoop(m) /\ Alike(l, m)
    BY <1>5, <2>2
  <2>4. m.acc = l.acc
    BY <2>3 DEF HasReturned
  <2>5. PICK a : a = IF v THEN Methods!Put(l.acc, l.acc.length, l.visits[n + 1].value) ELSE l.acc
    OBVIOUS
  <2>6. PICK q : Gathers(m, a, q)
    BY DEF Gathers
  <2>7. r = Methods!GoOn(o, q)
    BY <1>1, <1>4, <2>1, <2>2, <2>4, <2>5, <2>6, Zenon DEF Returns, Gathers, Methods!Returned
  <2>8. l.method = "filter"
    BY <1>1, <1>12 DEF Methods!ReturnSelected
  <2>9. Takes(l, n, v, a)
    BY <2>1, <2>5, <2>8 DEF Takes, Reduces
  <2>10. HasReturned(l, n, v, a, q) /\ Alike(l, q)
    BY <2>3, <2>6, GathersGives, GathersAlike, AlikeTwice
  <2>. QED BY <1>6, <2>7, <2>9, <2>10
<1>13. CASE Methods!ReturnReduced
  <2>1. PICK v \in Values : r = Methods!GoOn(o, [Methods!Returned(v) EXCEPT !.acc = v])
    BY <1>1, <1>13, Zenon DEF Methods!ReturnReduced
  <2>2. l.method \in {"reduce", "reduceRight"}
    BY <1>1, <1>13 DEF Methods!ReturnReduced
  <2>3. Takes(l, n, v, v)
    BY <2>2 DEF Takes
  <2>. QED BY <1>7, <2>1, <2>3
<1>. QED BY <1>9, <1>10, <1>11, <1>12, <1>13

LEMMA WriteResults == ASSUME LoopInv, ResultInv, Methods!Writes PROVE ResultInv'
<1>1. PICK l, p, r : l = loop /\ p = object' /\ r = loop'
  OBVIOUS
<1>2. Fine(object, l) /\ l.running /\ Waiting(l)
  BY <1>1 DEF LoopInv, ResultInv, Settled, Methods!InCallback, Methods!Writes
<1>3. PICK q : Methods!Changed(q)
  BY DEF Methods!Writes
<1>4. PICK kept : kept = Methods!Restrict(l.kept,
        {i \in DOMAIN l.kept : Methods!Has(p, i) /\ Methods!Get(p, i) = l.kept[i]})
  OBVIOUS
<1>5. PICK absent : absent = {i \in l.absent : ~Methods!Has(p, i)}
  OBVIOUS
<1>6. PICK writes : writes = l.writes + 1
  OBVIOUS
<1>7. r = [l EXCEPT !.writes = writes, !.kept = kept, !.absent = absent]
  BY <1>1, <1>3, <1>4, <1>5, <1>6 DEF Methods!Changed
<1>8. r = [method |-> l.method, len |-> l.len, running |-> l.running, writes |-> writes,
           k |-> l.k, acc |-> l.acc, first |-> l.first, visits |-> l.visits,
           kept |-> kept, absent |-> absent]
  BY <1>2, <1>7 DEF IsLoop, Fine
<1>9. /\ r.method = l.method /\ r.len = l.len /\ r.running /\ r.k = l.k /\ r.first = l.first
      /\ r.visits = l.visits /\ r.acc = l.acc
  BY <1>2, <1>8
<1>10. Waiting(r)
  BY <1>2, <1>9 DEF Waiting, Results, Chained, FirstPast, Reduces
<1>11. Settled(r)
  BY <1>9, <1>10 DEF Settled
<1>. QED BY <1>1, <1>11 DEF ResultInv

LEMMA ResultStep ==
  ASSUME LoopConstants, LoopInv, ResultInv, [Methods!Next]_(Methods!vars)
  PROVE  ResultInv'
<1>1. CASE UNCHANGED loop
  <2>1. PICK l : l = loop /\ l = loop'
    BY <1>1
  <2>2. l # None => Settled(l)
    BY <2>1 DEF ResultInv
  <2>. QED BY <2>1, <2>2 DEF ResultInv
<1>2. CASE loop' = None
  BY <1>2 DEF ResultInv
<1>3. Methods!Next \/ UNCHANGED loop
  BY DEF Methods!vars
<1>. QED BY <1>1, <1>2, <1>3, BeginResults, ReturnResults, WriteResults
     DEF Methods!Next, Methods!DoCall, Methods!Make, Methods!Take, Methods!Throw

LEMMA OwnedIs ==
  ASSUME NEW o, NEW i, NEW v, Own(o, i) = {v}
  PROVE  Methods!Get(o, i) = v
<1>1. View(o, i) = {v} /\ Methods!Has(o, i) /\ View(o, i) = {Methods!Get(o, i)}
  BY ViewIs
<1>. QED BY <1>1

LEMMA ResultsAre == ResultInv => LoopResult
<1>. SUFFICES ASSUME ResultInv, loop # None, ~loop.running
              PROVE  LoopResult
  BY DEF LoopResult, Methods!LoopResult
<1>1. PICK l : l = loop
  OBVIOUS
<1>2. Resulted(l)
  BY <1>1 DEF ResultInv, Settled
<1>3. PICK s : s = l.visits
  OBVIOUS
<1>4. PICK last : last = Len(s)
  OBVIOUS
<1>5. l.method = "every" => l.acc = \A n \in 1 .. last : s[n].returned
  <2>1. SUFFICES ASSUME l.method = "every" PROVE l.acc = \A n \in 1 .. last : s[n].returned
    OBVIOUS
  <2>2. \/ l.acc = TRUE /\ \A m \in 1 .. last : s[m].returned = TRUE
        \/ l.acc = FALSE /\ \E m \in 1 .. last : s[m].returned = FALSE
    BY <1>2, <1>3, <1>4, <2>1 DEF Resulted
  <2>. QED BY <2>2, Zenon
<1>6. l.method = "some" => l.acc = \E n \in 1 .. last : s[n].returned
  <2>1. SUFFICES ASSUME l.method = "some" PROVE l.acc = \E n \in 1 .. last : s[n].returned
    OBVIOUS
  <2>2. \/ l.acc = FALSE /\ \A m \in 1 .. last : s[m].returned = FALSE
        \/ l.acc = TRUE /\ \E m \in 1 .. last : s[m].returned = TRUE
    BY <1>2, <1>3, <1>4, <2>1 DEF Resulted
  <2>. QED BY <2>2, Zenon
<1>7. l.method = "map" =>
        /\ l.acc.length = l.len
        /\ \A i \in 0 .. l.len - 1 :
             IF \E n \in 1 .. last : s[n].at = i
             THEN \A n \in 1 .. last : s[n].at = i => Methods!Get(l.acc, i) = s[n].returned
             ELSE Methods!Get(l.acc, i) = Undefined
  <2>1. SUFFICES ASSUME l.method = "map"
        PROVE /\ l.acc.length = l.len
              /\ \A i \in 0 .. l.len - 1 :
                   IF \E n \in 1 .. last : s[n].at = i
                   THEN \A n \in 1 .. last : s[n].at = i => Methods!Get(l.acc, i) = s[n].returned
                   ELSE Methods!Get(l.acc, i) = Undefined
    OBVIOUS
  <2>2. Mapped(l.acc, s, last, l.len)
    BY <1>2, <1>3, <1>4, <2>1 DEF Resulted
  <2>3. \A n \in 1 .. last : Methods!Get(l.acc, s[n].at) = s[n].returned
    <3>1. ASSUME NEW n \in 1 .. last PROVE Methods!Get(l.acc, s[n].at) = s[n].returned
      <4>1. Own(l.acc, s[n].at) = {s[n].returned}
        BY <2>2 DEF Mapped
      <4>. QED BY <4>1, OwnedIs
    <3>. QED BY <3>1
  <2>4. \A i \in 0 .. l.len - 1 :
          Methods!Get(l.acc, i) = Undefined \/ \E n \in 1 .. last : s[n].at = i
    <3>1. ASSUME NEW i \in 0 .. l.len - 1, ~\E n \in 1 .. last : s[n].at = i
          PROVE  Methods!Get(l.acc, i) = Undefined
      <4>1. Own(l.acc, i) = {Undefined}
        BY <2>2, <3>1 DEF Mapped
      <4>. QED BY <4>1, OwnedIs
    <3>. QED BY <3>1
  <2>. QED BY <2>2, <2>3, <2>4 DEF Mapped
<1>8. l.method = "filter" =>
        /\ l.acc.length = Chosen(s, last)
        /\ \A n \in 1 .. last : s[n].returned => Methods!Get(l.acc, Chosen(s, n - 1)) = s[n].value
  <2>1. SUFFICES ASSUME l.method = "filter"
        PROVE /\ l.acc.length = Chosen(s, last)
              /\ \A n \in 1 .. last : s[n].returned =>
                   Methods!Get(l.acc, Chosen(s, n - 1)) = s[n].value
    OBVIOUS
  <2>2. Filtered(l.acc, s, last)
    BY <1>2, <1>3, <1>4, <2>1 DEF Resulted
  <2>. QED BY <2>2, OwnedIs DEF Filtered
<1>9. Reduces(l) =>
        /\ \A n \in 2 .. last : s[n].given = s[n - 1].returned
        /\ last > 0 => l.acc = s[last].returned
        /\ l.first # None => l.first \notin {s[n].at : n \in 1 .. last}
  BY <1>2, <1>3, <1>4 DEF Resulted, Chained, FirstPast
<1>10. \A n : Methods!Chosen(n) = Chosen(s, n)
  BY <1>1, <1>3, CardinalitySame DEF Methods!Chosen, Chosen
<1>11. loop = l /\ l.visits = s /\ Len(s) = last /\ loop # None /\ ~loop.running
  BY <1>1, <1>3, <1>4
<1>12. CASE l.method = "every"
  BY <1>5, <1>11, <1>12, Zenon DEF LoopResult, Methods!LoopResult
<1>13. CASE l.method = "some"
  BY <1>6, <1>11, <1>13 DEF LoopResult, Methods!LoopResult
<1>14. CASE l.method = "map"
  BY <1>7, <1>11, <1>14 DEF LoopResult, Methods!LoopResult
<1>15. CASE l.method = "filter"
  BY <1>8, <1>10, <1>11, <1>15 DEF LoopResult, Methods!LoopResult
<1>16. CASE Reduces(l)
  BY <1>9, <1>11, <1>16 DEF LoopResult, Methods!LoopResult, Reduces
<1>17. CASE l.method \notin {"every", "some", "map", "filter", "reduce", "reduceRight"}
  BY <1>11, <1>17 DEF LoopResult, Methods!LoopResult
<1>. QED BY <1>12, <1>13, <1>14, <1>15, <1>16, <1>17 DEF Reduces

(* What a loop returns is what the calls of its callback make: every, some, *)
(* map, filter and the two reduces, whatever the callback does to the       *)
(* object.                                                                  *)
THEOREM LoopResultAlways ==
  ASSUME LoopConstants
  PROVE  Methods!Spec => []LoopResult
<1>1. Methods!Init => LoopInv /\ ResultInv
  BY DEF Methods!Init, LoopInv, ResultInv
<1>2. LoopInv /\ ResultInv /\ [Methods!Next]_(Methods!vars) => LoopInv' /\ ResultInv'
  BY LoopStep, ResultStep
<1>. QED BY <1>1, <1>2, ResultsAre, PTL DEF Methods!Spec
=============================================================================

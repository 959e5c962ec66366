--------------------------- MODULE HashTableProofs ---------------------------
(***************************************************************************)
(* What add, remove and replace do to the names and descriptors that a     *)
(* coalesced hash table holds, and that they keep its chains, for tables   *)
(* of every size.                                                          *)
(*                                                                         *)
(* Linked says what a table is like between two operations: every entry    *)
(* has a depth, its distance from the head of the chain of its hash, which *)
(* stands in its ideal position.  The operations are shown to do to names  *)
(* and values what a map promises, and to have depths after they are done. *)
(***************************************************************************)
EXTENDS HashTable, FiniteSetTheorems, FunctionTheorems, WellFoundedInduction, TLAPS

Entries == [valid : BOOLEAN, name : Nat, value : BOOLEAN, next : Int]

IsTable(t, n) ==
  /\ n \in Nat \ {0} /\ t = [entries |-> t.entries, count |-> t.count]
  /\ t.entries \in [0 .. n - 1 -> Entries] /\ t.count \in Nat

Used(t, n) == {i \in 0 .. n - 1 : t.entries[i].valid}
Home(t, n, i) == t.entries[i].name % n

(* The entry at i has the depth d[i] in the chain of its hash.             *)
Linked(t, n, d) ==
  /\ IsTable(t, n) /\ d \in [0 .. n - 1 -> Nat]
  /\ t.count = Cardinality(Used(t, n))
  /\ \A i \in Used(t, n) :
       /\ Home(t, n, i) \in Used(t, n)
       /\ Home(t, n, Home(t, n, i)) = Home(t, n, i) /\ d[Home(t, n, i)] = 0
  /\ \A i, j \in Used(t, n) : Home(t, n, i) = Home(t, n, j) /\ d[i] = d[j] => i = j
  /\ \A i \in Used(t, n) :
       \/ t.entries[i].next = -1
       \/ /\ t.entries[i].next \in Used(t, n)
          /\ Home(t, n, t.entries[i].next) = Home(t, n, i)
          /\ d[t.entries[i].next] = d[i] + 1
  /\ \A i \in Used(t, n) : d[i] = 0 \/ \E j \in Used(t, n) : t.entries[j].next = i
  /\ \A i, j \in Used(t, n) : t.entries[i].name = t.entries[j].name => i = j

(* What a table tells of a name.                                           *)
Holds(t, n, name, value) ==
  \E i \in Used(t, n) : t.entries[i].name = name /\ t.entries[i].value = value

-----------------------------------------------------------------------------
(* Numbers                                                                 *)
LEMMA LeastExists ==
  ASSUME NEW S, S \subseteq Nat, S # {}
  PROVE  Least(S) \in S /\ \A y \in S : Least(S) <= y
<1>1. PICK t \in S : \A y \in S : ~(<<y, t>> \in OpToRel(<, Nat))
  BY NatLessThanWellFounded, WFMin
<1>2. OpToRel(<, Nat) = {ss \in Nat \X Nat : ss[1] < ss[2]}
  BY Zenon DEF OpToRel
<1>3. \A y \in S : t <= y
  <2>1. ASSUME NEW y \in S, y < t
        PROVE  FALSE
    <3>1. <<y, t>> \in {ss \in Nat \X Nat : ss[1] < ss[2]}
      BY <2>1
    <3>. QED BY <1>1, <1>2, <3>1
  <2>. QED BY <2>1
<1>4. \E x \in S : \A y \in S : x <= y
  BY <1>3
<1>. QED BY <1>4, Zenon DEF Least

(* Induction over a set of numbers: a set that holds 0 and, with a number  *)
(* below n, the next one holds every number up to n.                       *)
LEMMA UpInduction ==
  ASSUME NEW n \in Nat, NEW S, 0 \in S,
         \A i \in 0 .. n - 1 : i \in S => i + 1 \in S
  PROVE  \A i \in 0 .. n : i \in S
<1>. DEFINE T == {i \in 0 .. n : i \notin S}
<1>. SUFFICES ASSUME T # {} PROVE FALSE
  OBVIOUS
<1>1. T \subseteq Nat
  OBVIOUS
<1>. HIDE DEF T
<1>2. PICK t : t = Least(T)
  OBVIOUS
<1>3. t \in T /\ \A y \in T : t <= y
  BY <1>1, <1>2, LeastExists
<1>4. t \in 0 .. n /\ t \notin S
  BY <1>3 DEF T
<1>5. t - 1 \in 0 .. n - 1 /\ t - 1 \notin S /\ ~(t <= t - 1)
  BY <1>4
<1>6. t - 1 \in T
  BY <1>5 DEF T
<1>. QED BY <1>3, <1>5, <1>6

LEMMA DownInduction ==
  ASSUME NEW n \in Nat, NEW S, n \in S,
         \A i \in 0 .. n - 1 : i + 1 \in S => i \in S
  PROVE  \A i \in 0 .. n : i \in S
<1>. DEFINE T == {i \in 0 .. n : n - i \in S}
<1>1. 0 \in T
  OBVIOUS
<1>2. ASSUME NEW i \in 0 .. n - 1, i \in T PROVE i + 1 \in T
  <2>1. n - (i + 1) \in 0 .. n - 1 /\ n - (i + 1) + 1 = n - i
    OBVIOUS
  <2>2. n - i \in S
    BY <1>2
  <2>. QED BY <2>1, <2>2
<1>. HIDE DEF T
<1>3. \A i \in 0 .. n : i \in T
  BY <1>1, <1>2, UpInduction
<1>4. ASSUME NEW i \in 0 .. n PROVE i \in S
  <2>1. n - i \in 0 .. n /\ n - (n - i) = i
    OBVIOUS
  <2>. QED BY <1>3, <2>1 DEF T
<1>. QED BY <1>4

(* A size that is asked for is there, whether or not it is a prime.        *)
LEMMA PrimeFacts ==
  ASSUME NEW m \in Nat
  PROVE  GetPrime(m) \in Nat /\ GetPrime(m) >= m /\ GetPrime(m) >= 1
<1>. DEFINE listed == {p \in Primes : p >= m}
            others == {p \in m .. 2^32 - 2 : IsOddPrime(p)}
<1>1. \A p \in Primes : p \in Nat /\ p >= 1
  BY DEF Primes
<1>2. listed \subseteq Nat /\ others \subseteq Nat
  <2>1. \A p \in listed : p \in Nat
    BY <1>1
  <2>2. \A p \in others : p \in Nat
    OBVIOUS
  <2>. QED BY <2>1, <2>2
<1>3. CASE listed # {}
  <2>1. Least(listed) \in listed
    BY <1>2, <1>3, LeastExists
  <2>2. GetPrime(m) = Least(listed)
    BY <1>3 DEF GetPrime
  <2>. QED BY <1>1, <2>1, <2>2
<1>4. CASE listed = {}
  <2>1. 3 \in Primes
    BY DEF Primes
  <2>2. m > 3
    BY <1>4, <2>1
  <2>3. CASE others # {}
    <3>1. Least(others) \in others
      BY <1>2, <2>3, LeastExists
    <3>2. GetPrime(m) = Least(others)
      BY <1>4, <2>3 DEF GetPrime
    <3>. QED BY <2>2, <3>1, <3>2
  <2>4. CASE others = {}
    <3>1. GetPrime(m) = m
      BY <1>4, <2>4 DEF GetPrime
    <3>. QED BY <2>2, <3>1
  <2>. QED BY <2>3, <2>4
<1>. QED BY <1>3, <1>4

LEMMA ModFacts ==
  ASSUME NEW a \in Nat, NEW n \in Nat \ {0}
  PROVE  a % n \in 0 .. n - 1
OBVIOUS

(* Around the end of a table.                                              *)
LEMMA AroundFacts ==
  ASSUME NEW n \in Nat \ {0}, NEW i \in 0 .. n - 1, NEW j \in 0 .. n - 1
  PROVE  \E k \in 1 .. n : (i + k) % n = j
<1>1. CASE i < j
  <2>1. j - i \in 1 .. n /\ i + (j - i) = j /\ j % n = j
    BY <1>1
  <2>. QED BY <2>1
<1>2. CASE ~(i < j)
  <2>1. j - i + n \in 1 .. n /\ i + (j - i + n) = j + n
    BY <1>2
  <2>2. (j + n) % n = j
    OBVIOUS
  <2>. QED BY <2>1, <2>2
<1>. QED BY <1>1, <1>2

-----------------------------------------------------------------------------
(* Tables                                                                  *)
LEMMA SizeFacts ==
  ASSUME NEW t, NEW n, IsTable(t, n)
  PROVE  /\ Size(t) = n /\ DOMAIN t.entries = 0 .. n - 1 /\ n \in Nat \ {0}
         /\ \A i \in 0 .. n - 1 : t.entries[i] \in Entries
         /\ \A i \in 0 .. n - 1 : t.entries[i].name \in Nat /\ t.entries[i].next \in Int
         /\ t.count \in Nat
<1>1. n \in Nat \ {0} /\ t.entries \in [0 .. n - 1 -> Entries] /\ t.count \in Nat
  BY DEF IsTable
<1>2. DOMAIN t.entries = 0 .. n - 1
  BY <1>1
<1>3. Cardinality(0 .. n - 1) = n
  BY <1>1, FS_Interval
<1>4. Size(t) = n
  BY <1>2, <1>3 DEF Size
<1>5. \A i \in 0 .. n - 1 : t.entries[i] \in Entries
  BY <1>1
<1>6. \A e \in Entries : e.name \in Nat /\ e.next \in Int
  BY DEF Entries
<1>. QED BY <1>1, <1>2, <1>4, <1>5, <1>6

LEMMA UsedFacts ==
  ASSUME NEW t, NEW n, IsTable(t, n)
  PROVE  /\ IsFiniteSet(Used(t, n)) /\ Cardinality(Used(t, n)) \in Nat
         /\ Cardinality(Used(t, n)) <= n /\ Used(t, n) \subseteq 0 .. n - 1
         /\ Cardinality(Used(t, n)) < n => \E i \in 0 .. n - 1 : i \notin Used(t, n)
         /\ \A i \in Used(t, n) : Home(t, n, i) \in 0 .. n - 1
<1>1. n \in Nat \ {0}
  BY DEF IsTable
<1>2. IsFiniteSet(0 .. n - 1) /\ Cardinality(0 .. n - 1) = n
  BY <1>1, FS_Interval
<1>3. Used(t, n) \subseteq 0 .. n - 1
  BY DEF Used
<1>4. IsFiniteSet(Used(t, n)) /\ Cardinality(Used(t, n)) <= n
  BY <1>2, <1>3, FS_Subset
<1>5. Cardinality(Used(t, n)) \in Nat
  BY <1>4, FS_CardinalityType
<1>6. ASSUME Cardinality(Used(t, n)) < n
      PROVE  \E i \in 0 .. n - 1 : i \notin Used(t, n)
  <2>1. Used(t, n) # 0 .. n - 1
    BY <1>1, <1>2, <1>6
  <2>. QED BY <1>3, <2>1
<1>7. ASSUME NEW i \in Used(t, n) PROVE Home(t, n, i) \in 0 .. n - 1
  <2>1. t.entries[i].name \in Nat
    BY <1>3, <1>7, SizeFacts
  <2>. QED BY <1>1, <2>1, ModFacts DEF Home
<1>. QED BY <1>3, <1>4, <1>5, <1>6, <1>7

(* One entry is written.                                                   *)
Wrote(t, i, e, u) == u = Put(t, i, e)
Adds(t, m, u) == u = Counted(t, m)

LEMMA WroteFacts ==
  ASSUME NEW t, NEW n, IsTable(t, n), NEW k \in 0 .. n - 1, NEW e \in Entries,
         NEW u, Wrote(t, k, e, u)
  PROVE  /\ IsTable(u, n) /\ u.count = t.count /\ u.entries[k] = e
         /\ \A i \in 0 .. n - 1 : i # k => u.entries[i] = t.entries[i]
<1>1. /\ t = [entries |-> t.entries, count |-> t.count]
      /\ t.entries \in [0 .. n - 1 -> Entries]
  BY DEF IsTable
<1>2. PICK es : es = t.entries
  OBVIOUS
<1>3. u = [entries |-> [es EXCEPT ![k] = e], count |-> t.count]
  BY <1>1, <1>2 DEF Wrote, Put
<1>4. u.entries = [es EXCEPT ![k] = e] /\ u.count = t.count
      /\ u = [entries |-> u.entries, count |-> u.count]
  BY <1>3
<1>5. [es EXCEPT ![k] = e] \in [0 .. n - 1 -> Entries]
      /\ [es EXCEPT ![k] = e][k] = e
      /\ \A i \in 0 .. n - 1 : i # k => [es EXCEPT ![k] = e][i] = es[i]
  BY <1>1, <1>2
<1>. QED BY <1>2, <1>4, <1>5 DEF IsTable

LEMMA AddsFacts ==
  ASSUME NEW t, NEW n, IsTable(t, n), NEW m \in Int, t.count + m \in Nat, NEW u, Adds(t, m, u)
  PROVE  IsTable(u, n) /\ u.count = t.count + m /\ u.entries = t.entries
<1>1. /\ t = [entries |-> t.entries, count |-> t.count]
      /\ t.entries \in [0 .. n - 1 -> Entries] /\ t.count \in Nat
  BY DEF IsTable
<1>2. u = [entries |-> t.entries, count |-> t.count + m]
  BY <1>1 DEF Adds, Counted
<1>3. u.entries = t.entries /\ u.count = t.count + m
  BY <1>2
<1>. QED BY <1>1, <1>2, <1>3 DEF IsTable
-----------------------------------------------------------------------------
(* Chains                                                                  *)
LEMMA LinkedFacts ==
  ASSUME NEW t, NEW n, NEW d, Linked(t, n, d)
  PROVE  /\ IsTable(t, n) /\ n \in Nat \ {0} /\ t.count \in Nat
         /\ t.count = Cardinality(Used(t, n)) /\ Used(t, n) \subseteq 0 .. n - 1
         /\ IsFiniteSet(Used(t, n))
         /\ \A i \in Used(t, n) : /\ d[i] \in Nat /\ i \in 0 .. n - 1 /\ i # -1
                                  /\ t.entries[i].name \in Nat /\ t.entries[i].next \in Int
                                  /\ t.entries[i] \in Entries
<1>1. IsTable(t, n) /\ d \in [0 .. n - 1 -> Nat] /\ t.count = Cardinality(Used(t, n))
  BY DEF Linked
<1>2. /\ n \in Nat \ {0} /\ t.count \in Nat
      /\ \A i \in 0 .. n - 1 : t.entries[i] \in Entries
      /\ \A i \in 0 .. n - 1 : t.entries[i].name \in Nat /\ t.entries[i].next \in Int
  BY <1>1, SizeFacts
<1>3. Used(t, n) \subseteq 0 .. n - 1 /\ IsFiniteSet(Used(t, n))
  BY <1>1, UsedFacts
<1>4. \A i \in 0 .. n - 1 : d[i] \in Nat /\ i # -1
  BY <1>1, <1>2
<1>. QED BY <1>1, <1>2, <1>3, <1>4

LEMMA OneLess ==
  ASSUME NEW S, IsFiniteSet(S), NEW x \in S
  PROVE  Cardinality(S \ {x}) = Cardinality(S) - 1
BY FS_RemoveElement

LEMMA OneMore ==
  ASSUME NEW S, IsFiniteSet(S), NEW x, x \notin S
  PROVE  Cardinality(S \cup {x}) = Cardinality(S) + 1
BY FS_AddElement

(* No two entries of a chain have one depth.                               *)
LEMMA OneSpot ==
  ASSUME NEW t, NEW n, NEW d, Linked(t, n, d), NEW i \in Used(t, n), NEW j \in Used(t, n),
         Home(t, n, i) = Home(t, n, j), d[i] = d[j]
  PROVE  i = j
BY DEF Linked

LEMMA NextSpot ==
  ASSUME NEW t, NEW n, NEW d, Linked(t, n, d), NEW i \in Used(t, n), t.entries[i].next # -1
  PROVE  /\ t.entries[i].next \in Used(t, n)
         /\ Home(t, n, t.entries[i].next) = Home(t, n, i)
         /\ d[t.entries[i].next] = d[i] + 1
BY DEF Linked

LEMMA HeadSpot ==
  ASSUME NEW t, NEW n, NEW d, Linked(t, n, d), NEW i \in Used(t, n)
  PROVE  /\ Home(t, n, i) \in Used(t, n) /\ Home(t, n, Home(t, n, i)) = Home(t, n, i)
         /\ d[Home(t, n, i)] = 0
BY DEF Linked

(* The entry before another one in its chain.                              *)
LEMMA Before ==
  ASSUME NEW t, NEW n, NEW d, Linked(t, n, d), NEW i \in Used(t, n), d[i] # 0
  PROVE  \E j \in Used(t, n) : /\ t.entries[j].next = i /\ Home(t, n, j) = Home(t, n, i)
                               /\ d[i] = d[j] + 1
<1>1. PICK j \in Used(t, n) : t.entries[j].next = i
  BY DEF Linked
<1>2. i # -1
  BY LinkedFacts
<1>3. Home(t, n, j) = Home(t, n, i) /\ d[i] = d[j] + 1
  BY <1>1, <1>2 DEF Linked
<1>. QED BY <1>1, <1>3

LEMMA After ==
  ASSUME NEW t, NEW n, NEW d, Linked(t, n, d), NEW i \in Used(t, n),
         NEW j \in Used(t, n), Home(t, n, j) = Home(t, n, i), d[j] = d[i] + 1
  PROVE  t.entries[i].next = j
<1>1. d[i] \in Nat /\ d[j] \in Nat
  BY LinkedFacts
<1>2. d[j] # 0
  BY <1>1
<1>3. PICK k \in Used(t, n) : /\ t.entries[k].next = j /\ Home(t, n, k) = Home(t, n, j)
                              /\ d[j] = d[k] + 1
  BY <1>2, Before
<1>4. d[k] = d[i]
  <2>1. d[k] \in Nat
    BY LinkedFacts
  <2>. QED BY <1>1, <1>3, <2>1
<1>5. k = i
  BY <1>3, <1>4 DEF Linked
<1>. QED BY <1>3, <1>5

LEMMA Ancestors ==
  ASSUME NEW t, NEW n, NEW d, Linked(t, n, d), NEW i \in Used(t, n)
  PROVE  \A e \in 0 .. d[i] : \E j \in Used(t, n) : Home(t, n, j) = Home(t, n, i) /\ d[j] = e
<1>. DEFINE S == {e \in Nat : \E j \in Used(t, n) : Home(t, n, j) = Home(t, n, i) /\ d[j] = e}
<1>1. PICK m \in Nat : m = d[i]
  BY LinkedFacts
<1>2. m \in S
  BY <1>1
<1>3. ASSUME NEW e \in 0 .. m - 1, e + 1 \in S PROVE e \in S
  <2>1. PICK j \in Used(t, n) : Home(t, n, j) = Home(t, n, i) /\ d[j] = e + 1
    BY <1>3
  <2>2. d[j] # 0 /\ e \in Nat
    BY <2>1
  <2>3. PICK k \in Used(t, n) : Home(t, n, k) = Home(t, n, j) /\ d[j] = d[k] + 1
    BY <2>2, Before
  <2>4. d[k] = e
    <3>1. d[k] \in Nat
      BY LinkedFacts
    <3>. QED BY <2>1, <2>2, <2>3, <3>1
  <2>. QED BY <2>1, <2>2, <2>3, <2>4
<1>. HIDE DEF S
<1>4. \A e \in 0 .. m : e \in S
  BY <1>2, <1>3, DownInduction
<1>. QED BY <1>1, <1>4 DEF S

(* A chain is no longer than the table has entries: the bound of Chain.    *)
LEMMA DepthBound ==
  ASSUME NEW t, NEW n, NEW d, Linked(t, n, d), NEW i \in Used(t, n)
  PROVE  d[i] < t.count
<1>1. PICK m \in Nat : m = d[i]
  BY LinkedFacts
<1>. DEFINE f == [e \in 0 .. m |-> CHOOSE j \in Used(t, n) : d[j] = e]
<1>2. \A e \in 0 .. m : f[e] \in Used(t, n) /\ d[f[e]] = e
  <2>1. \A e \in 0 .. m : \E j \in Used(t, n) : d[j] = e
    BY <1>1, Ancestors
  <2>. QED BY <2>1, Zenon
<1>3. f \in [0 .. m -> Used(t, n)]
  BY <1>2
<1>. HIDE DEF f
<1>4. IsFiniteSet(0 .. m) /\ Cardinality(0 .. m) = m + 1
  BY FS_Interval
<1>5. IsFiniteSet(Used(t, n)) /\ t.count = Cardinality(Used(t, n)) /\ t.count \in Nat
  BY LinkedFacts
<1>6. ASSUME Cardinality(Used(t, n)) < Cardinality(0 .. m) PROVE FALSE
  <2>1. \E x, y \in 0 .. m : x # y /\ f[x] = f[y]
    BY <1>3, <1>4, <1>5, <1>6, FS_PigeonHole
  <2>. QED BY <1>2, <2>1
<1>. QED BY <1>1, <1>4, <1>5, <1>6

(* The place k steps after h, or none.                                     *)
IsSpot(t, n, d, h, k, i) == i \in Used(t, n) /\ Home(t, n, i) = Home(t, n, h) /\ d[i] = d[h] + k
Spot(t, n, d, h, k) ==
  IF \E i \in Used(t, n) : IsSpot(t, n, d, h, k, i)
  THEN CHOOSE i \in Used(t, n) : IsSpot(t, n, d, h, k, i) ELSE -1

LEMMA SpotFacts ==
  ASSUME NEW t, NEW n, NEW d, Linked(t, n, d), NEW h \in Used(t, n), NEW k \in Nat
  PROVE  /\ Spot(t, n, d, h, k) = -1 \/ IsSpot(t, n, d, h, k, Spot(t, n, d, h, k))
         /\ \A i \in Used(t, n) : IsSpot(t, n, d, h, k, i) => Spot(t, n, d, h, k) = i
<1>1. Spot(t, n, d, h, k) = -1 \/ IsSpot(t, n, d, h, k, Spot(t, n, d, h, k))
  BY Zenon DEF Spot
<1>2. ASSUME NEW i \in Used(t, n), IsSpot(t, n, d, h, k, i)
      PROVE  Spot(t, n, d, h, k) = i
  <2>1. IsSpot(t, n, d, h, k, Spot(t, n, d, h, k))
    BY <1>2, Zenon DEF Spot
  <2>2. PICK j : j = Spot(t, n, d, h, k)
    OBVIOUS
  <2>3. j \in Used(t, n) /\ Home(t, n, j) = Home(t, n, i) /\ d[j] = d[i]
    BY <1>2, <2>1, <2>2 DEF IsSpot
  <2>4. j = i
    BY <2>3 DEF Linked
  <2>. QED BY <2>2, <2>4
<1>. QED BY <1>1, <1>2

LEMMA SpotSteps ==
  ASSUME NEW t, NEW n, NEW d, Linked(t, n, d), NEW h \in Used(t, n)
  PROVE  /\ Spot(t, n, d, h, 0) = h
         /\ \A k \in Nat : Spot(t, n, d, h, k + 1) = NextOf(t, Spot(t, n, d, h, k))
<1>1. d[h] \in Nat
  BY LinkedFacts
<1>2. Spot(t, n, d, h, 0) = h
  <2>1. IsSpot(t, n, d, h, 0, h)
    BY <1>1 DEF IsSpot
  <2>. QED BY <2>1, SpotFacts
<1>3. ASSUME NEW k \in Nat
      PROVE  Spot(t, n, d, h, k + 1) = NextOf(t, Spot(t, n, d, h, k))
  <2>1. PICK i, j : i = Spot(t, n, d, h, k) /\ j = Spot(t, n, d, h, k + 1)
    OBVIOUS
  <2>2. /\ i = -1 \/ IsSpot(t, n, d, h, k, i)
        /\ \A x \in Used(t, n) : IsSpot(t, n, d, h, k, x) => i = x
    BY <2>1, SpotFacts
  <2>3. /\ j = -1 \/ IsSpot(t, n, d, h, k + 1, j)
        /\ \A x \in Used(t, n) : IsSpot(t, n, d, h, k + 1, x) => j = x
    <3>1. k + 1 \in Nat
      OBVIOUS
    <3>. QED BY <2>1, <3>1, SpotFacts
  <2>4. ASSUME IsSpot(t, n, d, h, k + 1, j)
        PROVE  IsSpot(t, n, d, h, k, i) /\ t.entries[i].next = j
    <3>1. j \in Used(t, n) /\ Home(t, n, j) = Home(t, n, h) /\ d[j] = d[h] + (k + 1)
      BY <2>4 DEF IsSpot
    <3>2. d[j] # 0
      BY <1>1, <3>1
    <3>3. PICK x \in Used(t, n) : /\ t.entries[x].next = j /\ Home(t, n, x) = Home(t, n, j)
                                  /\ d[j] = d[x] + 1
      BY <3>1, <3>2, Before
    <3>4. d[x] = d[h] + k
      <4>1. d[x] \in Nat
        BY LinkedFacts
      <4>. QED BY <1>1, <3>1, <3>3, <4>1
    <3>5. IsSpot(t, n, d, h, k, x)
      BY <3>1, <3>3, <3>4 DEF IsSpot
    <3>. QED BY <2>2, <3>3, <3>5
  <2>5. CASE i = -1
    <3>1. ~IsSpot(t, n, d, h, k + 1, j)
      <4>1. ASSUME IsSpot(t, n, d, h, k, i) PROVE FALSE
        <5>1. i \in Used(t, n)
          BY <4>1 DEF IsSpot
        <5>. QED BY <2>5, <5>1, LinkedFacts
      <4>. QED BY <2>4, <4>1
    <3>2. j = -1
      BY <2>3, <3>1
    <3>. QED BY <2>1, <2>5, <3>2 DEF NextOf
  <2>6. CASE IsSpot(t, n, d, h, k, i)
    <3>1. i \in Used(t, n) /\ Home(t, n, i) = Home(t, n, h) /\ d[i] = d[h] + k /\ i # -1
      <4>1. i \in Used(t, n) /\ Home(t, n, i) = Home(t, n, h) /\ d[i] = d[h] + k
        BY <2>6 DEF IsSpot
      <4>. QED BY <4>1, LinkedFacts
    <3>2. NextOf(t, i) = t.entries[i].next
      BY <3>1 DEF NextOf
    <3>3. PICK x : x = t.entries[i].next
      OBVIOUS
    <3>4. CASE x = -1
      <4>1. ~IsSpot(t, n, d, h, k + 1, j)
        <5>1. ASSUME IsSpot(t, n, d, h, k + 1, j) PROVE FALSE
          <6>1. j = -1 /\ j \in Used(t, n)
            BY <2>4, <3>3, <3>4, <5>1 DEF IsSpot
          <6>. QED BY <6>1, LinkedFacts
        <5>. QED BY <5>1
      <4>2. j = -1
        BY <2>3, <4>1
      <4>. QED BY <2>1, <3>2, <3>3, <3>4, <4>2
    <3>5. CASE x # -1
      <4>1. x \in Used(t, n) /\ Home(t, n, x) = Home(t, n, i) /\ d[x] = d[i] + 1
        BY <3>1, <3>3, <3>5 DEF Linked
      <4>2. d[x] = d[h] + (k + 1)
        BY <1>1, <3>1, <4>1
      <4>3. IsSpot(t, n, d, h, k + 1, x)
        BY <3>1, <4>1, <4>2 DEF IsSpot
      <4>4. j = x
        BY <2>3, <4>1, <4>3
      <4>. QED BY <2>1, <3>2, <3>3, <4>4
    <3>. QED BY <3>4, <3>5
  <2>. QED BY <2>2, <2>5, <2>6
<1>. QED BY <1>2, <1>3

Stepping(t, h, at) ==
  at = [k \in 0 .. t.count |-> IF k = 0 THEN h ELSE NextOf(t, at[k - 1])]

LEMMA SteppingExists ==
  ASSUME NEW t, NEW n, NEW d, Linked(t, n, d), NEW h \in Used(t, n)
  PROVE  \E at : Stepping(t, h, at)
<1>. DEFINE f == [k \in 0 .. t.count |-> Spot(t, n, d, h, k)]
<1>1. t.count \in Nat
  BY LinkedFacts
<1>2. ASSUME NEW k \in 0 .. t.count
      PROVE  Spot(t, n, d, h, k) = IF k = 0 THEN h ELSE NextOf(t, f[k - 1])
  <2>1. CASE k = 0
    BY <2>1, SpotSteps
  <2>2. CASE k # 0
    <3>1. k - 1 \in Nat /\ (k - 1) + 1 = k /\ k - 1 \in 0 .. t.count
      BY <1>1, <2>2
    <3>2. f[k - 1] = Spot(t, n, d, h, k - 1)
      BY <3>1
    <3>. HIDE DEF f
    <3>3. Spot(t, n, d, h, (k - 1) + 1) = NextOf(t, Spot(t, n, d, h, k - 1))
      BY <3>1, SpotSteps
    <3>. QED BY <2>2, <3>1, <3>2, <3>3
  <2>. QED BY <2>1, <2>2
<1>3. f = [k \in 0 .. t.count |-> IF k = 0 THEN h ELSE NextOf(t, f[k - 1])]
  BY <1>2
<1>. HIDE DEF f
<1>. QED BY <1>3 DEF Stepping

LEMMA SteppingIs ==
  ASSUME NEW t, NEW n, NEW d, Linked(t, n, d), NEW h \in Used(t, n), NEW at, Stepping(t, h, at)
  PROVE  DOMAIN at = 0 .. t.count /\ \A k \in 0 .. t.count : at[k] = Spot(t, n, d, h, k)
<1>1. PICK c \in Nat : c = t.count
  BY LinkedFacts
<1>2. /\ DOMAIN at = 0 .. c
      /\ \A k \in 0 .. c : at[k] = IF k = 0 THEN h ELSE NextOf(t, at[k - 1])
  BY <1>1, Zenon DEF Stepping
<1>. DEFINE S == {k \in 0 .. c : at[k] = Spot(t, n, d, h, k)}
<1>3. 0 \in S
  <2>1. at[0] = h
    BY <1>2
  <2>. QED BY <2>1, SpotSteps
<1>4. ASSUME NEW k \in 0 .. c - 1, k \in S PROVE k + 1 \in S
  <2>1. k + 1 \in 0 .. c /\ k + 1 # 0 /\ (k + 1) - 1 = k /\ k \in Nat
    OBVIOUS
  <2>2. at[k + 1] = NextOf(t, at[k])
    BY <1>2, <2>1
  <2>3. at[k] = Spot(t, n, d, h, k)
    BY <1>4
  <2>. QED BY <2>1, <2>2, <2>3, SpotSteps
<1>. HIDE DEF S
<1>5. \A k \in 0 .. c : k \in S
  BY <1>3, <1>4, UpInduction
<1>. QED BY <1>1, <1>2, <1>5 DEF S

(* The entries that following next visits are those of the chain from      *)
(* there on.                                                               *)
LEMMA ChainIs ==
  ASSUME NEW t, NEW n, NEW d, Linked(t, n, d), NEW name, NEW h \in Used(t, n),
         h = Hash(t, name)
  PROVE  Chain(t, name) = {i \in Used(t, n) : Home(t, n, i) = Home(t, n, h) /\ d[i] >= d[h]}
<1>. DEFINE at == CHOOSE f : Stepping(t, Hash(t, name), f)
<1>1. Stepping(t, h, at)
  <2>1. \E f : Stepping(t, Hash(t, name), f)
    BY SteppingExists
  <2>. QED BY <2>1, Zenon
<1>2. Chain(t, name) = {at[k] : k \in DOMAIN at} \ {-1}
  BY Zenon DEF Chain, Stepping
<1>. HIDE DEF at
<1>3. PICK c \in Nat : c = t.count
  BY LinkedFacts
<1>4. DOMAIN at = 0 .. c /\ \A k \in 0 .. c : at[k] = Spot(t, n, d, h, k)
  BY <1>1, <1>3, SteppingIs
<1>5. d[h] \in Nat
  BY LinkedFacts
<1>6. ASSUME NEW k \in 0 .. c, at[k] # -1
      PROVE  at[k] \in Used(t, n) /\ Home(t, n, at[k]) = Home(t, n, h) /\ d[at[k]] >= d[h]
  <2>1. k \in Nat
    OBVIOUS
  <2>2. IsSpot(t, n, d, h, k, at[k])
    BY <1>4, <1>6, <2>1, SpotFacts
  <2>. QED BY <1>5, <2>1, <2>2 DEF IsSpot
<1>7. ASSUME NEW i \in Used(t, n), Home(t, n, i) = Home(t, n, h), d[i] >= d[h]
      PROVE  \E k \in 0 .. c : at[k] = i /\ i # -1
  <2>1. d[i] \in Nat /\ d[i] < c /\ i # -1
    BY <1>3, LinkedFacts, DepthBound
  <2>2. PICK k : k = d[i] - d[h]
    OBVIOUS
  <2>3. k \in 0 .. c /\ k \in Nat /\ d[i] = d[h] + k
    BY <1>5, <1>7, <2>1, <2>2
  <2>4. IsSpot(t, n, d, h, k, i)
    BY <1>7, <2>3 DEF IsSpot
  <2>5. at[k] = i
    BY <1>4, <2>3, <2>4, SpotFacts
  <2>. QED BY <2>1, <2>3, <2>5
<1>. QED BY <1>2, <1>4, <1>6, <1>7
-----------------------------------------------------------------------------
(* find_entry                                                              *)
LEMMA HashIs ==
  ASSUME NEW t, NEW n, NEW d, Linked(t, n, d), NEW name \in Nat
  PROVE  Hash(t, name) = name % n /\ Hash(t, name) \in 0 .. n - 1
<1>1. Size(t) = n /\ n \in Nat \ {0}
  BY LinkedFacts, SizeFacts
<1>. QED BY <1>1, ModFacts DEF Hash

LEMMA HeadChain ==
  ASSUME NEW t, NEW n, NEW d, Linked(t, n, d), NEW i \in Used(t, n)
  PROVE  /\ Hash(t, t.entries[i].name) = Home(t, n, i)
         /\ Chain(t, t.entries[i].name) = {j \in Used(t, n) : Home(t, n, j) = Home(t, n, i)}
<1>1. PICK h, name : h = Home(t, n, i) /\ name = t.entries[i].name
  OBVIOUS
<1>2. h \in Used(t, n) /\ Home(t, n, h) = h /\ d[h] = 0
  BY <1>1 DEF Linked
<1>3. name \in Nat /\ \A j \in Used(t, n) : d[j] \in Nat
  BY <1>1, LinkedFacts
<1>4. h = Hash(t, name)
  BY <1>1, <1>3, HashIs DEF Home
<1>5. Chain(t, name) = {j \in Used(t, n) : Home(t, n, j) = Home(t, n, h) /\ d[j] >= d[h]}
  BY <1>2, <1>4, ChainIs
<1>6. \A j \in Used(t, n) : d[j] >= d[h]
  BY <1>2, <1>3
<1>7. Chain(t, name) = {j \in Used(t, n) : Home(t, n, j) = h}
  BY <1>2, <1>5, <1>6
<1>. QED BY <1>1, <1>4, <1>7

LEMMA FoundIs ==
  ASSUME NEW t, NEW n, NEW d, Linked(t, n, d), NEW name \in Nat
  PROVE  Found(t, name) = {i \in Used(t, n) : t.entries[i].name = name}
<1>1. PICK h \in 0 .. n - 1 : h = Hash(t, name)
  BY HashIs
<1>2. t.entries[h].valid <=> h \in Used(t, n)
  BY DEF Used
<1>3. ASSUME NEW i \in Used(t, n), t.entries[i].name = name
      PROVE  t.entries[h].valid /\ i \in Chain(t, name)
  <2>1. /\ Hash(t, name) = Home(t, n, i)
        /\ Chain(t, name) = {j \in Used(t, n) : Home(t, n, j) = Home(t, n, i)}
    BY <1>3, HeadChain
  <2>2. h \in Used(t, n)
    <3>1. Home(t, n, i) \in Used(t, n)
      BY DEF Linked
    <3>. QED BY <1>1, <2>1, <3>1
  <2>. QED BY <1>2, <2>1, <2>2
<1>4. ASSUME t.entries[h].valid PROVE Chain(t, name) \subseteq Used(t, n)
  <2>1. h \in Used(t, n)
    BY <1>2, <1>4
  <2>2. Chain(t, name) = {i \in Used(t, n) : Home(t, n, i) = Home(t, n, h) /\ d[i] >= d[h]}
    BY <1>1, <2>1, ChainIs
  <2>. QED BY <2>2
<1>5. CASE t.entries[h].valid
  <2>1. Found(t, name) = {i \in Chain(t, name) : t.entries[i].name = name}
    BY <1>1, <1>5 DEF Found
  <2>. QED BY <1>3, <1>4, <1>5, <2>1
<1>6. CASE ~t.entries[h].valid
  <2>1. Found(t, name) = {}
    BY <1>1, <1>6 DEF Found
  <2>. QED BY <1>3, <1>6, <2>1
<1>. QED BY <1>5, <1>6

LEMMA HasIs ==
  ASSUME NEW t, NEW n, NEW d, Linked(t, n, d), NEW name \in Nat
  PROVE  /\ Has(t, name) <=> \E i \in Used(t, n) : t.entries[i].name = name
         /\ \A i \in Used(t, n) : t.entries[i].name = name => EntryOf(t, name) = t.entries[i]
<1>1. Found(t, name) = {i \in Used(t, n) : t.entries[i].name = name}
  BY FoundIs
<1>2. Has(t, name) <=> \E i \in Used(t, n) : t.entries[i].name = name
  BY <1>1 DEF Has
<1>3. ASSUME NEW i \in Used(t, n), t.entries[i].name = name
      PROVE  EntryOf(t, name) = t.entries[i]
  <2>1. PICK j : j = CHOOSE x \in Found(t, name) : TRUE
    OBVIOUS
  <2>2. i \in Found(t, name)
    BY <1>1, <1>3
  <2>3. j \in Found(t, name)
    BY <2>1, <2>2
  <2>4. j \in Used(t, n) /\ t.entries[j].name = name
    BY <1>1, <2>3
  <2>5. j = i
    BY <1>3, <2>4 DEF Linked
  <2>. QED BY <2>1, <2>5 DEF EntryOf
<1>. QED BY <1>2, <1>3

-----------------------------------------------------------------------------
(* remove                                                                  *)

(* An entry k that is not a head: l was before it.                         *)
LEMMA TakenOut ==
  ASSUME NEW t, NEW n, NEW d, Linked(t, n, d), NEW k \in Used(t, n), NEW l \in Used(t, n),
         t.entries[l].next = k, NEW u, IsTable(u, n), u.count = t.count - 1,
         ~u.entries[k].valid, u.entries[l].valid,
         u.entries[l].name = t.entries[l].name, u.entries[l].next = t.entries[k].next,
         \A i \in 0 .. n - 1 : i # k /\ i # l => u.entries[i] = t.entries[i]
  PROVE  /\ Used(u, n) = Used(t, n) \ {k}
         /\ \E e : Linked(u, n, e)
<1>. DEFINE e == [i \in 0 .. n - 1 |->
                    IF i \in Used(t, n) /\ Home(t, n, i) = Home(t, n, k) /\ d[i] > d[k]
                    THEN d[i] - 1 ELSE d[i]]
<1>1. /\ n \in Nat \ {0} /\ Used(t, n) \subseteq 0 .. n - 1 /\ IsFiniteSet(Used(t, n))
      /\ t.count = Cardinality(Used(t, n))
      /\ \A i \in Used(t, n) : d[i] \in Nat /\ i # -1
      /\ \A i \in 0 .. n - 1 : d[i] \in Nat
  <2>1. \A i \in 0 .. n - 1 : d[i] \in Nat
    BY DEF Linked
  <2>. QED BY <2>1, LinkedFacts
<1>2. k # -1 /\ Home(t, n, k) = Home(t, n, l) /\ d[k] = d[l] + 1
  <2>1. k # -1
    BY <1>1
  <2>. QED BY <2>1 DEF Linked
<1>3. k # l /\ d[k] # 0
  BY <1>1, <1>2
<1>4. Used(u, n) = Used(t, n) \ {k}
  <2>1. \A i \in 0 .. n - 1 : u.entries[i].valid <=> (t.entries[i].valid /\ i # k)
    BY <1>3 DEF Used
  <2>. QED BY <2>1 DEF Used
<1>5. \A i \in Used(u, n) : /\ i \in Used(t, n) /\ i # k /\ i \in 0 .. n - 1
                            /\ u.entries[i].name = t.entries[i].name
                            /\ Home(u, n, i) = Home(t, n, i)
  <2>1. \A i \in Used(u, n) : i \in Used(t, n) /\ i # k /\ i \in 0 .. n - 1
    BY <1>1, <1>4
  <2>2. \A i \in Used(u, n) : u.entries[i].name = t.entries[i].name
    BY <2>1
  <2>. QED BY <2>1, <2>2 DEF Home
<1>6. \A i \in Used(t, n) : e[i] = IF Home(t, n, i) = Home(t, n, k) /\ d[i] > d[k]
                                   THEN d[i] - 1 ELSE d[i]
  BY <1>1
<1>7. e \in [0 .. n - 1 -> Nat]
  <2>1. ASSUME NEW i \in 0 .. n - 1, d[i] > d[k] PROVE d[i] - 1 \in Nat
    BY <1>1, <2>1
  <2>. QED BY <1>1, <2>1
<1>. HIDE DEF e
<1>8. u.count = Cardinality(Used(u, n))
  <2>1. Cardinality(Used(t, n) \ {k}) = Cardinality(Used(t, n)) - 1
    BY <1>1, OneLess
  <2>. QED BY <1>1, <1>4, <2>1
<1>9. ASSUME NEW i \in Used(u, n)
      PROVE  /\ Home(u, n, i) \in Used(u, n)
             /\ Home(u, n, Home(u, n, i)) = Home(u, n, i) /\ e[Home(u, n, i)] = 0
  <2>1. PICK h : h = Home(t, n, i)
    OBVIOUS
  <2>2. h \in Used(t, n) /\ Home(t, n, h) = h /\ d[h] = 0
    BY <1>5, <2>1 DEF Linked
  <2>3. h # k /\ ~(d[h] > d[k])
    BY <1>1, <1>3, <2>2
  <2>4. h \in Used(u, n) /\ e[h] = 0
    BY <1>4, <1>6, <2>2, <2>3
  <2>. QED BY <1>5, <2>1, <2>2, <2>4
<1>10. ASSUME NEW i \in Used(u, n), NEW j \in Used(u, n),
              Home(u, n, i) = Home(u, n, j), e[i] = e[j]
       PROVE  i = j
  <2>1. /\ i \in Used(t, n) /\ j \in Used(t, n) /\ i # k /\ j # k
        /\ Home(t, n, i) = Home(t, n, j)
    BY <1>5, <1>10
  <2>2. Home(t, n, i) = Home(t, n, k) => d[i] # d[k] /\ d[j] # d[k]
    <3>1. Home(t, n, i) = Home(t, n, k) => d[i] # d[k]
      BY <2>1, OneSpot
    <3>2. Home(t, n, j) = Home(t, n, k) => d[j] # d[k]
      BY <2>1, OneSpot
    <3>. QED BY <2>1, <3>1, <3>2
  <2>3. d[i] = d[j]
    <3>1. d[i] \in Nat /\ d[j] \in Nat /\ d[k] \in Nat
      BY <1>1, <2>1
    <3>2. CASE Home(t, n, i) = Home(t, n, k)
      <4>1. PICK a, b, c : a = d[i] /\ b = d[j] /\ c = d[k]
        OBVIOUS
      <4>2. /\ e[i] = IF a > c THEN a - 1 ELSE a
            /\ e[j] = IF b > c THEN b - 1 ELSE b
        BY <1>6, <2>1, <3>2, <4>1
      <4>3. (IF a > c THEN a - 1 ELSE a) = IF b > c THEN b - 1 ELSE b
        BY <1>10, <4>2
      <4>4. a \in Nat /\ b \in Nat /\ c \in Nat /\ a # c /\ b # c
        BY <2>2, <3>1, <3>2, <4>1
      <4>5. a = b
        BY <4>3, <4>4
      <4>. QED BY <4>1, <4>5
    <3>3. CASE Home(t, n, i) # Home(t, n, k)
      BY <1>6, <1>10, <2>1, <3>3
    <3>. QED BY <3>2, <3>3
  <2>. QED BY <2>1, <2>3 DEF Linked
<1>11. ASSUME NEW i \in Used(u, n), u.entries[i].next # -1
       PROVE  /\ u.entries[i].next \in Used(u, n)
              /\ Home(u, n, u.entries[i].next) = Home(u, n, i)
              /\ e[u.entries[i].next] = e[i] + 1
  <2>1. PICK x : x = u.entries[i].next
    OBVIOUS
  <2>2. i \in Used(t, n) /\ i # k /\ i \in 0 .. n - 1
    BY <1>5
  <2>3. CASE i = l
    <3>1. x = t.entries[k].next /\ x # -1
      BY <1>11, <2>1, <2>3
    <3>2. x \in Used(t, n) /\ Home(t, n, x) = Home(t, n, k) /\ d[x] = d[k] + 1
      BY <3>1 DEF Linked
    <3>3. d[x] \in Nat /\ d[k] \in Nat /\ d[l] \in Nat
      BY <1>1, <3>2
    <3>4. e[x] = d[k] /\ e[l] = d[l]
      <4>1. d[x] > d[k] /\ ~(d[l] > d[k]) /\ d[x] - 1 = d[k]
        BY <1>2, <3>2, <3>3
      <4>. QED BY <1>6, <3>2, <4>1
    <3>5. x # k
      BY <3>2, <3>3
    <3>6. x \in Used(u, n)
      BY <1>4, <3>2, <3>5
    <3>. QED BY <1>2, <1>5, <2>1, <2>3, <3>2, <3>4, <3>6
  <2>4. CASE i # l
    <3>1. x = t.entries[i].next /\ x # -1
      BY <1>11, <2>1, <2>2, <2>4
    <3>2. x \in Used(t, n) /\ Home(t, n, x) = Home(t, n, i) /\ d[x] = d[i] + 1
      BY <2>2, <3>1 DEF Linked
    <3>3. d[x] \in Nat /\ d[i] \in Nat /\ d[k] \in Nat /\ d[l] \in Nat
      BY <1>1, <2>2, <3>2
    <3>4. x # k
      <4>1. ASSUME x = k PROVE FALSE
        <5>1. Home(t, n, i) = Home(t, n, l) /\ d[i] = d[l]
          BY <1>2, <3>2, <3>3, <4>1
        <5>. QED BY <2>2, <2>4, <5>1 DEF Linked
      <4>. QED BY <4>1
    <3>5. Home(t, n, i) = Home(t, n, k) => d[i] # d[k]
      BY <2>2 DEF Linked
    <3>6. e[x] = e[i] + 1
      <4>1. CASE Home(t, n, i) = Home(t, n, k)
        <5>1. /\ e[x] = IF d[x] > d[k] THEN d[x] - 1 ELSE d[x]
              /\ e[i] = IF d[i] > d[k] THEN d[i] - 1 ELSE d[i]
          BY <1>6, <2>2, <3>2, <4>1
        <5>2. x = k \/ d[x] # d[k]
          BY <3>2, <4>1 DEF Linked
        <5>. QED BY <3>2, <3>3, <3>4, <3>5, <4>1, <5>1, <5>2
      <4>2. CASE Home(t, n, i) # Home(t, n, k)
        BY <1>6, <2>2, <3>2, <4>2
      <4>. QED BY <4>1, <4>2
    <3>7. x \in Used(u, n)
      BY <1>4, <3>2, <3>4
    <3>. QED BY <1>5, <2>1, <3>2, <3>6, <3>7
  <2>. QED BY <2>3, <2>4
<1>12. ASSUME NEW i \in Used(u, n), e[i] # 0
       PROVE  \E j \in Used(u, n) : u.entries[j].next = i
  <2>1. i \in Used(t, n) /\ i # k
    BY <1>5
  <2>2. d[i] # 0
    <3>1. ASSUME d[i] = 0 PROVE FALSE
      <4>1. ~(d[i] > d[k])
        BY <1>1, <3>1
      <4>2. e[i] = 0
        BY <1>6, <2>1, <3>1, <4>1
      <4>. QED BY <1>12, <4>2
    <3>. QED BY <3>1
  <2>3. PICK j \in Used(t, n) : t.entries[j].next = i
    BY <2>1, <2>2 DEF Linked
  <2>4. CASE j = k
    <3>1. u.entries[l].next = i /\ l \in Used(u, n)
      BY <1>3, <1>4, <2>3, <2>4
    <3>. QED BY <3>1
  <2>5. CASE j # k
    <3>1. j # l /\ j \in 0 .. n - 1 /\ j \in Used(u, n)
      BY <1>1, <1>4, <2>1, <2>3, <2>5
    <3>2. u.entries[j].next = i
      BY <2>3, <2>5, <3>1
    <3>. QED BY <3>1, <3>2
  <2>. QED BY <2>4, <2>5
<1>13. ASSUME NEW i \in Used(u, n), NEW j \in Used(u, n), u.entries[i].name = u.entries[j].name
       PROVE  i = j
  <2>1. i \in Used(t, n) /\ j \in Used(t, n) /\ t.entries[i].name = t.entries[j].name
    BY <1>5, <1>13
  <2>. QED BY <2>1 DEF Linked
<1>14. Linked(u, n, e)
  BY <1>7, <1>8, <1>9, <1>10, <1>11, <1>12, <1>13 DEF Linked
<1>. QED BY <1>4, <1>14
(* A head k: the entry q after it takes its place.                         *)
LEMMA HeadReplaced ==
  ASSUME NEW t, NEW n, NEW d, Linked(t, n, d), NEW k \in Used(t, n), d[k] = 0,
         NEW q, q = t.entries[k].next, q # -1,
         NEW u, IsTable(u, n), u.count = t.count - 1,
         ~u.entries[q].valid, u.entries[k] = t.entries[q],
         \A i \in 0 .. n - 1 : i # k /\ i # q => u.entries[i] = t.entries[i]
  PROVE  /\ q \in Used(t, n) /\ q # k
         /\ Used(u, n) = Used(t, n) \ {q}
         /\ \E e : Linked(u, n, e)
<1>. DEFINE from(i) == IF i = k THEN q ELSE i
            e == [i \in 0 .. n - 1 |->
                    IF i \in Used(t, n) /\ Home(t, n, i) = Home(t, n, k)
                    THEN IF i = k THEN 0 ELSE IF d[i] = 0 THEN 0 ELSE d[i] - 1
                    ELSE d[i]]
<1>1. /\ n \in Nat \ {0} /\ Used(t, n) \subseteq 0 .. n - 1 /\ IsFiniteSet(Used(t, n))
      /\ t.count = Cardinality(Used(t, n))
      /\ \A i \in Used(t, n) : d[i] \in Nat /\ i # -1
      /\ \A i \in 0 .. n - 1 : d[i] \in Nat
  <2>1. \A i \in 0 .. n - 1 : d[i] \in Nat
    BY DEF Linked
  <2>. QED BY <2>1, LinkedFacts
<1>2. q \in Used(t, n) /\ Home(t, n, q) = Home(t, n, k) /\ d[q] = 1
  <2>1. q \in Used(t, n) /\ Home(t, n, q) = Home(t, n, k) /\ d[q] = d[k] + 1
    BY NextSpot
  <2>. QED BY <2>1
<1>3. k # q
  BY <1>2
<1>4. Home(t, n, k) = k
  <2>1. PICK h : h = Home(t, n, k)
    OBVIOUS
  <2>2. h \in Used(t, n) /\ Home(t, n, h) = h /\ d[h] = 0
    BY <2>1, HeadSpot
  <2>3. h = k
    BY <2>1, <2>2, OneSpot
  <2>. QED BY <2>1, <2>3
<1>5. Used(u, n) = Used(t, n) \ {q}
  <2>1. \A i \in 0 .. n - 1 : u.entries[i].valid <=> (t.entries[i].valid /\ i # q)
    BY <1>2, <1>3 DEF Used
  <2>. QED BY <2>1 DEF Used
<1>6. \A i \in Used(u, n) : /\ i \in Used(t, n) /\ i # q /\ i \in 0 .. n - 1
                            /\ from(i) \in Used(t, n) /\ from(i) # k
                            /\ u.entries[i] = t.entries[from(i)]
                            /\ Home(u, n, i) = Home(t, n, from(i))
                            /\ Home(u, n, i) = Home(t, n, i)
  <2>1. \A i \in Used(u, n) : /\ i \in Used(t, n) /\ i # q /\ i \in 0 .. n - 1
                              /\ from(i) \in Used(t, n) /\ from(i) # k
    BY <1>1, <1>2, <1>3, <1>5
  <2>2. \A i \in Used(u, n) : u.entries[i] = t.entries[from(i)]
    BY <2>1
  <2>3. \A i \in Used(u, n) : Home(u, n, i) = Home(t, n, from(i))
    BY <2>2 DEF Home
  <2>4. \A i \in Used(u, n) : Home(t, n, from(i)) = Home(t, n, i)
    BY <1>2
  <2>. HIDE DEF from
  <2>. QED BY <2>1, <2>2, <2>3, <2>4
<1>7. \A i, j : from(i) = from(j) /\ i # q /\ j # q => i = j
  OBVIOUS
<1>8. \A i \in Used(u, n) : IF Home(t, n, i) = Home(t, n, k)
                            THEN d[from(i)] = e[i] + 1 /\ e[i] \in Nat
                            ELSE e[i] = d[i] /\ from(i) = i
  <2>1. ASSUME NEW i \in Used(u, n), Home(t, n, i) = Home(t, n, k), i = k
        PROVE  d[from(i)] = e[i] + 1 /\ e[i] \in Nat
    <3>1. e[i] = 0
      BY <1>1, <1>6, <2>1
    <3>. QED BY <1>2, <2>1, <3>1
  <2>2. ASSUME NEW i \in Used(u, n), Home(t, n, i) = Home(t, n, k), i # k
        PROVE  d[from(i)] = e[i] + 1 /\ e[i] \in Nat
    <3>1. i \in Used(t, n) /\ i \in 0 .. n - 1
      BY <1>6
    <3>2. d[i] # 0 /\ d[i] \in Nat
      <4>1. d[i] = 0 => i = k
        BY <2>2, <3>1, OneSpot
      <4>. QED BY <1>1, <2>2, <3>1, <4>1
    <3>3. e[i] = d[i] - 1
      BY <2>2, <3>1, <3>2
    <3>. QED BY <2>2, <3>2, <3>3
  <2>3. ASSUME NEW i \in Used(u, n), Home(t, n, i) # Home(t, n, k)
        PROVE  e[i] = d[i] /\ from(i) = i
    BY <1>6, <2>3
  <2>. QED BY <2>1, <2>2, <2>3
<1>9. e \in [0 .. n - 1 -> Nat] /\ e[k] = 0
  <2>1. ASSUME NEW i \in 0 .. n - 1, d[i] # 0 PROVE d[i] - 1 \in Nat
    BY <1>1, <2>1
  <2>2. k \in 0 .. n - 1
    BY <1>1
  <2>. QED BY <1>1, <2>1, <2>2
<1>10. \A i : i # k => from(i) = i
  OBVIOUS
<1>. HIDE DEF e, from
<1>11. u.count = Cardinality(Used(u, n))
  <2>1. Cardinality(Used(t, n) \ {q}) = Cardinality(Used(t, n)) - 1
    BY <1>1, <1>2, OneLess
  <2>. QED BY <1>1, <1>5, <2>1
<1>12. k \in Used(u, n)
  BY <1>3, <1>5
<1>13. ASSUME NEW i \in Used(u, n)
       PROVE  /\ Home(u, n, i) \in Used(u, n)
              /\ Home(u, n, Home(u, n, i)) = Home(u, n, i) /\ e[Home(u, n, i)] = 0
  <2>1. PICK h : h = Home(t, n, i)
    OBVIOUS
  <2>2. h \in Used(t, n) /\ Home(t, n, h) = h /\ d[h] = 0 /\ i \in Used(t, n)
    <3>1. i \in Used(t, n)
      BY <1>6
    <3>. QED BY <2>1, <3>1, HeadSpot
  <2>3. h \in Used(u, n)
    BY <1>2, <1>5, <2>2
  <2>4. e[h] = 0
    <3>1. CASE h = k
      BY <1>9, <3>1
    <3>2. CASE h # k
      BY <1>4, <1>8, <2>2, <2>3, <3>2
    <3>. QED BY <3>1, <3>2
  <2>. QED BY <1>6, <2>1, <2>2, <2>3, <2>4
<1>14. ASSUME NEW i \in Used(u, n), NEW j \in Used(u, n),
              Home(u, n, i) = Home(u, n, j), e[i] = e[j]
       PROVE  i = j
  <2>1. PICK x, y : x = from(i) /\ y = from(j)
    OBVIOUS
  <2>2. /\ x \in Used(t, n) /\ y \in Used(t, n) /\ Home(t, n, x) = Home(t, n, y)
        /\ Home(t, n, i) = Home(t, n, j) /\ i # q /\ j # q
    BY <1>6, <1>14, <2>1
  <2>3. d[x] = d[y]
    <3>1. CASE Home(t, n, i) = Home(t, n, k)
      BY <1>8, <1>14, <2>1, <2>2, <3>1
    <3>2. CASE Home(t, n, i) # Home(t, n, k)
      BY <1>8, <1>14, <2>1, <2>2, <3>2
    <3>. QED BY <3>1, <3>2
  <2>4. x = y
    BY <2>2, <2>3, OneSpot
  <2>. QED BY <1>7, <2>1, <2>2, <2>4
<1>15. ASSUME NEW i \in Used(u, n), u.entries[i].next # -1
       PROVE  /\ u.entries[i].next \in Used(u, n)
              /\ Home(u, n, u.entries[i].next) = Home(u, n, i)
              /\ e[u.entries[i].next] = e[i] + 1
  <2>1. PICK x, f : x = u.entries[i].next /\ f = from(i)
    OBVIOUS
  <2>2. /\ f \in Used(t, n) /\ f # k /\ x = t.entries[f].next /\ x # -1
        /\ Home(u, n, i) = Home(t, n, f) /\ Home(t, n, f) = Home(t, n, i)
    BY <1>6, <1>15, <2>1
  <2>3. x \in Used(t, n) /\ Home(t, n, x) = Home(t, n, f) /\ d[x] = d[f] + 1
    BY <2>2, NextSpot
  <2>4. d[f] \in Nat /\ d[x] \in Nat
    BY <1>1, <2>2, <2>3
  <2>5. x # k
    BY <2>3, <2>4
  <2>6. x # q
    <3>1. ASSUME x = q PROVE FALSE
      <4>1. d[f] = d[k] /\ Home(t, n, f) = Home(t, n, k)
        BY <1>2, <2>3, <2>4, <3>1
      <4>. QED BY <2>2, <4>1, OneSpot
    <3>. QED BY <3>1
  <2>7. x \in Used(u, n) /\ from(x) = x /\ Home(u, n, x) = Home(t, n, x)
    BY <1>5, <1>6, <1>10, <2>3, <2>5, <2>6
  <2>8. e[x] = e[i] + 1
    <3>1. CASE Home(t, n, i) = Home(t, n, k)
      <4>1. d[f] = e[i] + 1 /\ e[i] \in Nat /\ d[x] = e[x] + 1 /\ e[x] \in Nat
        BY <1>8, <2>1, <2>2, <2>3, <2>7, <3>1
      <4>. QED BY <2>3, <4>1
    <3>2. CASE Home(t, n, i) # Home(t, n, k)
      <4>1. e[i] = d[f] /\ e[x] = d[x]
        BY <1>8, <2>1, <2>2, <2>3, <2>7, <3>2
      <4>. QED BY <2>3, <4>1
    <3>. QED BY <3>1, <3>2
  <2>. QED BY <2>1, <2>2, <2>3, <2>7, <2>8
<1>16. ASSUME NEW i \in Used(u, n), e[i] # 0
       PROVE  \E j \in Used(u, n) : u.entries[j].next = i
  <2>1. PICK f : f = from(i)
    OBVIOUS
  <2>2. i \in Used(t, n) /\ i # q /\ f \in Used(t, n) /\ Home(t, n, f) = Home(t, n, i)
    BY <1>6, <2>1
  <2>3. i # k
    BY <1>9, <1>16
  <2>4. f = i
    BY <1>10, <2>1, <2>3
  <2>5. d[i] # 0
    <3>1. CASE Home(t, n, i) = Home(t, n, k)
      <4>1. d[i] = e[i] + 1 /\ e[i] \in Nat
        BY <1>8, <2>1, <2>4, <3>1
      <4>. QED BY <4>1
    <3>2. CASE Home(t, n, i) # Home(t, n, k)
      BY <1>8, <1>16, <3>2
    <3>. QED BY <3>1, <3>2
  <2>6. PICK j \in Used(t, n) : t.entries[j].next = i
    BY <2>2, <2>5, Before
  <2>7. j # k
    BY <2>2, <2>6
  <2>8. CASE j = q
    BY <1>12, <2>6, <2>8
  <2>9. CASE j # q
    <3>1. j \in Used(u, n) /\ u.entries[j] = t.entries[j]
      BY <1>1, <1>5, <2>7, <2>9
    <3>. QED BY <2>6, <3>1
  <2>. QED BY <2>8, <2>9
<1>17. ASSUME NEW i \in Used(u, n), NEW j \in Used(u, n), u.entries[i].name = u.entries[j].name
       PROVE  i = j
  <2>1. PICK x, y : x = from(i) /\ y = from(j)
    OBVIOUS
  <2>2. /\ x \in Used(t, n) /\ y \in Used(t, n) /\ t.entries[x].name = t.entries[y].name
        /\ i # q /\ j # q
    BY <1>6, <1>17, <2>1
  <2>3. x = y
    BY <2>2 DEF Linked
  <2>. QED BY <1>7, <2>1, <2>2, <2>3
<1>18. Linked(u, n, e)
  BY <1>9, <1>11, <1>13, <1>14, <1>15, <1>16, <1>17 DEF Linked
<1>. QED BY <1>2, <1>3, <1>5, <1>18

(* A head k with no entry after it.                                        *)
LEMMA HeadAlone ==
  ASSUME NEW t, NEW n, NEW d, Linked(t, n, d), NEW k \in Used(t, n), d[k] = 0,
         t.entries[k].next = -1
  PROVE  \A i \in Used(t, n) : i # k => Home(t, n, i) # Home(t, n, k) /\ Home(t, n, i) # k
<1>1. ASSUME NEW i \in Used(t, n), Home(t, n, i) = Home(t, n, k) PROVE i = k
  <2>1. CASE d[i] = 0
    BY <1>1, <2>1, OneSpot
  <2>2. CASE d[i] # 0
    <3>1. d[i] \in Nat
      BY LinkedFacts
    <3>2. 1 \in 0 .. d[i]
      BY <2>2, <3>1
    <3>3. PICK j \in Used(t, n) : Home(t, n, j) = Home(t, n, i) /\ d[j] = 1
      BY <3>2, Ancestors
    <3>4. t.entries[k].next = j
      BY <1>1, <3>3, After
    <3>. QED BY <3>4, LinkedFacts
  <2>. QED BY <2>1, <2>2
<1>2. Home(t, n, k) = k
  <2>1. PICK h : h = Home(t, n, k)
    OBVIOUS
  <2>2. h \in Used(t, n) /\ Home(t, n, h) = h /\ d[h] = 0
    BY <2>1, HeadSpot
  <2>3. h = k
    BY <2>1, <2>2, OneSpot
  <2>. QED BY <2>1, <2>3
<1>. QED BY <1>1, <1>2

LEMMA HeadRemoved ==
  ASSUME NEW t, NEW n, NEW d, Linked(t, n, d), NEW k \in Used(t, n), d[k] = 0,
         t.entries[k].next = -1, NEW u, IsTable(u, n), u.count = t.count - 1,
         ~u.entries[k].valid,
         \A i \in 0 .. n - 1 : i # k => u.entries[i] = t.entries[i]
  PROVE  /\ Used(u, n) = Used(t, n) \ {k}
         /\ Linked(u, n, d)
<1>1. /\ n \in Nat \ {0} /\ Used(t, n) \subseteq 0 .. n - 1 /\ IsFiniteSet(Used(t, n))
      /\ t.count = Cardinality(Used(t, n)) /\ d \in [0 .. n - 1 -> Nat]
      /\ \A i \in Used(t, n) : d[i] \in Nat /\ i # -1
  <2>1. d \in [0 .. n - 1 -> Nat]
    BY DEF Linked
  <2>. QED BY <2>1, LinkedFacts
<1>2. Used(u, n) = Used(t, n) \ {k}
  <2>1. \A i \in 0 .. n - 1 : u.entries[i].valid <=> (t.entries[i].valid /\ i # k)
    OBVIOUS
  <2>. QED BY <2>1 DEF Used
<1>3. \A i \in Used(u, n) : /\ i \in Used(t, n) /\ i # k
                            /\ u.entries[i] = t.entries[i] /\ Home(u, n, i) = Home(t, n, i)
  <2>1. \A i \in Used(u, n) : i \in Used(t, n) /\ i # k /\ u.entries[i] = t.entries[i]
    BY <1>1, <1>2
  <2>. QED BY <2>1 DEF Home
<1>4. u.count = Cardinality(Used(u, n))
  <2>1. Cardinality(Used(t, n) \ {k}) = Cardinality(Used(t, n)) - 1
    BY <1>1, OneLess
  <2>. QED BY <1>1, <1>2, <2>1
<1>5. ASSUME NEW i \in Used(u, n)
      PROVE  /\ Home(u, n, i) \in Used(u, n)
             /\ Home(u, n, Home(u, n, i)) = Home(u, n, i) /\ d[Home(u, n, i)] = 0
  <2>1. PICK h : h = Home(t, n, i)
    OBVIOUS
  <2>2. i \in Used(t, n) /\ i # k
    BY <1>3
  <2>3. h \in Used(t, n) /\ Home(t, n, h) = h /\ d[h] = 0
    BY <2>1, <2>2, HeadSpot
  <2>4. h # k
    BY <2>1, <2>2, HeadAlone
  <2>5. h \in Used(u, n)
    BY <1>2, <2>3, <2>4
  <2>. QED BY <1>3, <2>1, <2>3, <2>5
<1>6. ASSUME NEW i \in Used(u, n), NEW j \in Used(u, n),
             Home(u, n, i) = Home(u, n, j), d[i] = d[j]
      PROVE  i = j
  <2>1. i \in Used(t, n) /\ j \in Used(t, n) /\ Home(t, n, i) = Home(t, n, j)
    BY <1>3, <1>6
  <2>. QED BY <1>6, <2>1, OneSpot
<1>7. ASSUME NEW i \in Used(u, n), u.entries[i].next # -1
      PROVE  /\ u.entries[i].next \in Used(u, n)
             /\ Home(u, n, u.entries[i].next) = Home(u, n, i)
             /\ d[u.entries[i].next] = d[i] + 1
  <2>1. PICK x : x = u.entries[i].next
    OBVIOUS
  <2>2. i \in Used(t, n) /\ x = t.entries[i].next /\ x # -1
    BY <1>3, <1>7, <2>1
  <2>3. x \in Used(t, n) /\ Home(t, n, x) = Home(t, n, i) /\ d[x] = d[i] + 1
    BY <2>2, NextSpot
  <2>4. x # k
    <3>1. d[i] \in Nat
      BY <1>1, <2>2
    <3>. QED BY <2>3, <3>1
  <2>5. x \in Used(u, n)
    BY <1>2, <2>3, <2>4
  <2>. QED BY <1>3, <2>1, <2>3, <2>5
<1>8. ASSUME NEW i \in Used(u, n), d[i] # 0
      PROVE  \E j \in Used(u, n) : u.entries[j].next = i
  <2>1. i \in Used(t, n)
    BY <1>3
  <2>2. PICK j \in Used(t, n) : t.entries[j].next = i
    BY <1>8, <2>1, Before
  <2>3. j # k
    BY <1>1, <2>1, <2>2
  <2>4. j \in Used(u, n)
    BY <1>2, <2>3
  <2>. QED BY <1>3, <2>2, <2>4
<1>9. ASSUME NEW i \in Used(u, n), NEW j \in Used(u, n), u.entries[i].name = u.entries[j].name
      PROVE  i = j
  <2>1. i \in Used(t, n) /\ j \in Used(t, n) /\ t.entries[i].name = t.entries[j].name
    BY <1>3, <1>9
  <2>. QED BY <2>1 DEF Linked
<1>10. Linked(u, n, d)
  BY <1>1, <1>4, <1>5, <1>6, <1>7, <1>8, <1>9 DEF Linked
<1>. QED BY <1>2, <1>10
LEMMA EntryFacts ==
  /\ Empty \in Entries /\ ~Empty.valid
  /\ \A name \in Nat, value \in BOOLEAN, next \in Int :
       /\ Entry(name, value, next) \in Entries /\ Entry(name, value, next).valid
       /\ Entry(name, value, next).name = name /\ Entry(name, value, next).value = value
       /\ Entry(name, value, next).next = next
BY DEF Empty, Entry, Entries

LEMMA NextFacts ==
  ASSUME NEW e \in Entries, NEW x \in Int
  PROVE  /\ [e EXCEPT !.next = x] \in Entries /\ [e EXCEPT !.next = x].valid = e.valid
         /\ [e EXCEPT !.next = x].name = e.name /\ [e EXCEPT !.next = x].value = e.value
         /\ [e EXCEPT !.next = x].next = x
BY DEF Entries

LEMMA ValueFacts ==
  ASSUME NEW e \in Entries, NEW x \in BOOLEAN
  PROVE  /\ [e EXCEPT !.value = x] \in Entries /\ [e EXCEPT !.value = x].valid = e.valid
         /\ [e EXCEPT !.value = x].name = e.name /\ [e EXCEPT !.value = x].value = x
         /\ [e EXCEPT !.value = x].next = e.next
BY DEF Entries

(* The name is gone, and no other one is touched.                          *)
Forgets(t, u, n, name) ==
  \A m, v : Holds(u, n, m, v) <=> m # name /\ Holds(t, n, m, v)

Removes(t, name, u) == u = RemoveName(t, name)

(* The three things that remove does to the entries.                       *)
TakesOut(t, l, k, u) ==
  u = Counted(Put(Put(t, l, [t.entries[l] EXCEPT !.next = t.entries[k].next]), k, Empty), -1)
Advances(t, k, q, u) == u = Counted(Put(Put(t, k, t.entries[q]), q, Empty), -1)
Clears(t, k, u) == u = Counted(Put(t, k, Empty), -1)

LEMMA RemoveLooks ==
  ASSUME NEW t, NEW n, NEW d, Linked(t, n, d), NEW k \in Used(t, n),
         NEW u, Removes(t, t.entries[k].name, u)
  PROVE  \/ d[k] # 0 /\ \E l \in Used(t, n) : t.entries[l].next = k /\ TakesOut(t, l, k, u)
         \/ d[k] = 0 /\ t.entries[k].next # -1 /\ Advances(t, k, t.entries[k].next, u)
         \/ d[k] = 0 /\ t.entries[k].next = -1 /\ Clears(t, k, u)
<1>. DEFINE name == t.entries[k].name
            chain == Chain(t, name)
            index == CHOOSE i \in chain : t.entries[i].name = name
            last(i) == {j \in chain : t.entries[j].next = i}
            outcome(i) ==
              Counted(
                CASE last(i) # {} ->
                       LET l == CHOOSE j \in last(i) : TRUE IN
                       Put(Put(t, l, [t.entries[l] EXCEPT !.next = t.entries[i].next]), i, Empty)
                  [] last(i) = {} /\ t.entries[i].next # -1 ->
                       Put(Put(t, i, t.entries[t.entries[i].next]), t.entries[i].next, Empty)
                  [] OTHER -> Put(t, i, Empty), -1)
<1>1. u = outcome(index)
  BY DEF Removes, RemoveName
<1>2. chain = {j \in Used(t, n) : Home(t, n, j) = Home(t, n, k)}
  BY HeadChain
<1>. HIDE DEF chain
<1>3. index = k
  <2>1. k \in chain
    BY <1>2
  <2>2. index \in chain /\ t.entries[index].name = name
    BY <2>1
  <2>. HIDE DEF index
  <2>. QED BY <1>2, <2>2 DEF Linked
<1>4. u = outcome(k)
  BY <1>1, <1>3
<1>5. last(k) = {j \in Used(t, n) : t.entries[j].next = k}
  <2>1. ASSUME NEW j \in Used(t, n), t.entries[j].next = k
        PROVE  Home(t, n, j) = Home(t, n, k)
    <3>1. k # -1
      BY LinkedFacts
    <3>. QED BY <2>1, <3>1, NextSpot
  <2>. QED BY <1>2, <2>1
<1>6. last(k) # {} <=> d[k] # 0
  <2>1. ASSUME NEW j \in Used(t, n), t.entries[j].next = k PROVE d[k] # 0
    <3>1. k # -1 /\ d[j] \in Nat
      BY LinkedFacts
    <3>2. d[k] = d[j] + 1
      BY <2>1, <3>1, NextSpot
    <3>. QED BY <3>1, <3>2
  <2>2. d[k] # 0 => \E j \in Used(t, n) : t.entries[j].next = k
    BY Before
  <2>. QED BY <1>5, <2>1, <2>2
<1>. HIDE DEF last
<1>7. CASE last(k) # {}
  <2>1. PICK l : l = CHOOSE j \in last(k) : TRUE
    OBVIOUS
  <2>2. l \in last(k)
    BY <1>7, <2>1
  <2>3. l \in Used(t, n) /\ t.entries[l].next = k
    BY <1>5, <2>2
  <2>4. TakesOut(t, l, k, u)
    BY <1>4, <1>7, <2>1 DEF TakesOut
  <2>. QED BY <1>6, <1>7, <2>3, <2>4
<1>8. CASE last(k) = {} /\ t.entries[k].next # -1
  <2>1. Advances(t, k, t.entries[k].next, u)
    BY <1>4, <1>8 DEF Advances
  <2>. QED BY <1>6, <1>8, <2>1
<1>9. CASE last(k) = {} /\ t.entries[k].next = -1
  <2>1. Clears(t, k, u)
    BY <1>4, <1>9 DEF Clears
  <2>. QED BY <1>6, <1>9, <2>1
<1>. QED BY <1>7, <1>8, <1>9

LEMMA NameRemoved ==
  ASSUME NEW t, NEW n, NEW d, Linked(t, n, d), NEW k \in Used(t, n),
         NEW u, Removes(t, t.entries[k].name, u)
  PROVE  /\ \E e : Linked(u, n, e)
         /\ u.count = t.count - 1 /\ Forgets(t, u, n, t.entries[k].name)
         /\ d[k] # 0 => /\ Used(u, n) = Used(t, n) \ {k}
                        /\ \A i \in Used(u, n) : u.entries[i].name = t.entries[i].name
<1>1. /\ IsTable(t, n) /\ Used(t, n) \subseteq 0 .. n - 1 /\ t.count \in Nat
      /\ k \in 0 .. n - 1
      /\ \A i \in Used(t, n) : t.entries[i] \in Entries /\ t.entries[i].next \in Int
  BY LinkedFacts
<1>2. t.count - 1 \in Nat /\ t.count + -1 = t.count - 1
  <2>1. d[k] < t.count /\ d[k] \in Nat
    BY DepthBound, LinkedFacts
  <2>. QED BY <1>1, <2>1
<1>3. -1 \in Int
  OBVIOUS
<1>4. \A i, j \in Used(t, n) : t.entries[i].name = t.entries[j].name => i = j
  BY DEF Linked
<1>5. PICK name : name = t.entries[k].name
  OBVIOUS
<1>6. ASSUME d[k] # 0, NEW l \in Used(t, n), t.entries[l].next = k, TakesOut(t, l, k, u)
      PROVE  /\ \E e : Linked(u, n, e)
             /\ u.count = t.count - 1 /\ Forgets(t, u, n, name)
             /\ Used(u, n) = Used(t, n) \ {k}
             /\ \A i \in Used(u, n) : u.entries[i].name = t.entries[i].name
  <2>1. PICK a, b, c : /\ c = [t.entries[l] EXCEPT !.next = t.entries[k].next]
                       /\ Wrote(t, l, c, a) /\ Wrote(a, k, Empty, b) /\ Adds(b, -1, u)
    BY <1>6 DEF Wrote, Adds, TakesOut
  <2>2. /\ c \in Entries /\ c.valid = t.entries[l].valid /\ c.name = t.entries[l].name
        /\ c.value = t.entries[l].value /\ c.next = t.entries[k].next
    <3>1. t.entries[l] \in Entries /\ t.entries[k].next \in Int
      BY <1>1
    <3>. QED BY <2>1, <3>1, NextFacts
  <2>3. /\ IsTable(a, n) /\ a.count = t.count /\ a.entries[l] = c
        /\ \A i \in 0 .. n - 1 : i # l => a.entries[i] = t.entries[i]
    <3>1. l \in 0 .. n - 1
      BY <1>1
    <3>. QED BY <1>1, <2>1, <2>2, <3>1, WroteFacts
  <2>4. /\ IsTable(b, n) /\ b.count = t.count /\ b.entries[k] = Empty
        /\ \A i \in 0 .. n - 1 : i # k => b.entries[i] = a.entries[i]
    BY <1>1, <2>1, <2>3, EntryFacts, WroteFacts
  <2>5. IsTable(u, n) /\ u.count = t.count - 1 /\ u.entries = b.entries
    <3>1. b.count + -1 \in Nat /\ b.count + -1 = t.count - 1
      BY <1>2, <2>4
    <3>. QED BY <1>3, <2>1, <2>4, <3>1, AddsFacts
  <2>6. k # l
    <3>1. d[l] \in Nat /\ k # -1
      BY LinkedFacts
    <3>2. d[k] = d[l] + 1
      BY <1>6, <3>1, NextSpot
    <3>. QED BY <3>1, <3>2
  <2>7. /\ ~u.entries[k].valid /\ u.entries[l].valid
        /\ u.entries[l].name = t.entries[l].name /\ u.entries[l].next = t.entries[k].next
        /\ u.entries[l].value = t.entries[l].value
        /\ \A i \in 0 .. n - 1 : i # k /\ i # l => u.entries[i] = t.entries[i]
    <3>1. u.entries[l] = c
      BY <1>1, <2>3, <2>4, <2>5, <2>6
    <3>2. t.entries[l].valid
      BY DEF Used
    <3>3. u.entries[k] = Empty
      BY <2>4, <2>5
    <3>4. \A i \in 0 .. n - 1 : i # k /\ i # l => u.entries[i] = t.entries[i]
      BY <2>3, <2>4, <2>5
    <3>. QED BY <2>2, <3>1, <3>2, <3>3, <3>4, EntryFacts
  <2>8. Used(u, n) = Used(t, n) \ {k} /\ \E e : Linked(u, n, e)
    BY <1>6, <2>5, <2>7, TakenOut
  <2>9. \A i \in Used(u, n) : /\ i \in Used(t, n) /\ i # k
                              /\ u.entries[i].name = t.entries[i].name
                              /\ u.entries[i].value = t.entries[i].value
    BY <1>1, <2>7, <2>8
  <2>10. Forgets(t, u, n, name)
    <3>1. \A i \in Used(u, n) : t.entries[i].name # name
      BY <1>4, <1>5, <2>9
    <3>2. \A i \in Used(t, n) : t.entries[i].name # name => i \in Used(u, n)
      BY <1>5, <2>8
    <3>. QED BY <2>9, <3>1, <3>2 DEF Forgets, Holds
  <2>. QED BY <2>5, <2>8, <2>9, <2>10
<1>7. ASSUME d[k] = 0, NEW q, q = t.entries[k].next, q # -1, Advances(t, k, q, u)
      PROVE  /\ \E e : Linked(u, n, e)
             /\ u.count = t.count - 1 /\ Forgets(t, u, n, name)
  <2>1. PICK a, b : Wrote(t, k, t.entries[q], a) /\ Wrote(a, q, Empty, b) /\ Adds(b, -1, u)
    BY <1>7 DEF Wrote, Adds, Advances
  <2>2. q \in Used(t, n) /\ q \in 0 .. n - 1 /\ t.entries[q] \in Entries /\ d[q] = d[k] + 1
    <3>1. q \in Used(t, n) /\ d[q] = d[k] + 1
      BY <1>7, NextSpot
    <3>. QED BY <1>1, <3>1
  <2>3. /\ IsTable(a, n) /\ a.count = t.count /\ a.entries[k] = t.entries[q]
        /\ \A i \in 0 .. n - 1 : i # k => a.entries[i] = t.entries[i]
    BY <1>1, <2>1, <2>2, WroteFacts
  <2>4. /\ IsTable(b, n) /\ b.count = t.count /\ b.entries[q] = Empty
        /\ \A i \in 0 .. n - 1 : i # q => b.entries[i] = a.entries[i]
    BY <2>1, <2>2, <2>3, EntryFacts, WroteFacts
  <2>5. IsTable(u, n) /\ u.count = t.count - 1 /\ u.entries = b.entries
    <3>1. b.count + -1 \in Nat /\ b.count + -1 = t.count - 1
      BY <1>2, <2>4
    <3>. QED BY <1>3, <2>1, <2>4, <3>1, AddsFacts
  <2>6. k # q
    BY <1>7, <2>2
  <2>7. /\ ~u.entries[q].valid /\ u.entries[k] = t.entries[q]
        /\ \A i \in 0 .. n - 1 : i # k /\ i # q => u.entries[i] = t.entries[i]
    <3>1. u.entries[k] = t.entries[q]
      BY <1>1, <2>3, <2>4, <2>5, <2>6
    <3>2. u.entries[q] = Empty
      BY <2>4, <2>5
    <3>3. \A i \in 0 .. n - 1 : i # k /\ i # q => u.entries[i] = t.entries[i]
      BY <2>3, <2>4, <2>5
    <3>. QED BY <3>1, <3>2, <3>3, EntryFacts
  <2>8. Used(u, n) = Used(t, n) \ {q} /\ \E e : Linked(u, n, e)
    BY <1>7, <2>5, <2>7, HeadReplaced
  <2>9. \A i \in Used(u, n) :
          i \in Used(t, n) /\ i # q /\ u.entries[i] = t.entries[IF i = k THEN q ELSE i]
    BY <1>1, <2>7, <2>8
  <2>10. Forgets(t, u, n, name)
    <3>1. ASSUME NEW i \in Used(u, n)
          PROVE  \E j \in Used(t, n) : t.entries[j].name # name /\ u.entries[i] = t.entries[j]
      <4>1. CASE i = k
        BY <1>4, <1>5, <2>2, <2>6, <2>9, <4>1
      <4>2. CASE i # k
        BY <1>4, <1>5, <2>9, <4>2
      <4>. QED BY <4>1, <4>2
    <3>2. ASSUME NEW j \in Used(t, n), t.entries[j].name # name
          PROVE  \E i \in Used(u, n) : u.entries[i] = t.entries[j]
      <4>1. CASE j = q
        BY <2>6, <2>7, <2>8, <4>1
      <4>2. CASE j # q
        BY <1>1, <1>5, <2>7, <2>8, <3>2, <4>2
      <4>. QED BY <4>1, <4>2
    <3>. QED BY <3>1, <3>2 DEF Forgets, Holds
  <2>. QED BY <2>5, <2>8, <2>10
<1>8. ASSUME d[k] = 0, t.entries[k].next = -1, Clears(t, k, u)
      PROVE  /\ \E e : Linked(u, n, e)
             /\ u.count = t.count - 1 /\ Forgets(t, u, n, name)
  <2>1. PICK b : Wrote(t, k, Empty, b) /\ Adds(b, -1, u)
    BY <1>8 DEF Wrote, Adds, Clears
  <2>2. /\ IsTable(b, n) /\ b.count = t.count /\ b.entries[k] = Empty
        /\ \A i \in 0 .. n - 1 : i # k => b.entries[i] = t.entries[i]
    BY <1>1, <2>1, EntryFacts, WroteFacts
  <2>3. IsTable(u, n) /\ u.count = t.count - 1 /\ u.entries = b.entries
    <3>1. b.count + -1 \in Nat /\ b.count + -1 = t.count - 1
      BY <1>2, <2>2
    <3>. QED BY <1>3, <2>1, <2>2, <3>1, AddsFacts
  <2>4. ~u.entries[k].valid /\ \A i \in 0 .. n - 1 : i # k => u.entries[i] = t.entries[i]
    BY <2>2, <2>3, EntryFacts
  <2>5. Used(u, n) = Used(t, n) \ {k} /\ Linked(u, n, d)
    BY <1>8, <2>3, <2>4, HeadRemoved
  <2>6. \A i \in Used(u, n) : i \in Used(t, n) /\ i # k /\ u.entries[i] = t.entries[i]
    BY <1>1, <2>4, <2>5
  <2>7. Forgets(t, u, n, name)
    <3>1. \A i \in Used(u, n) : t.entries[i].name # name
      BY <1>4, <1>5, <2>6
    <3>2. \A i \in Used(t, n) : t.entries[i].name # name => i \in Used(u, n)
      BY <1>5, <2>5
    <3>. QED BY <2>6, <3>1, <3>2 DEF Forgets, Holds
  <2>. QED BY <2>3, <2>5, <2>7
<1>9. \/ d[k] # 0 /\ \E l \in Used(t, n) : t.entries[l].next = k /\ TakesOut(t, l, k, u)
      \/ d[k] = 0 /\ t.entries[k].next # -1 /\ Advances(t, k, t.entries[k].next, u)
      \/ d[k] = 0 /\ t.entries[k].next = -1 /\ Clears(t, k, u)
  BY RemoveLooks
<1>10. CASE d[k] # 0 /\ \E l \in Used(t, n) : t.entries[l].next = k /\ TakesOut(t, l, k, u)
  BY <1>5, <1>6, <1>10
<1>11. CASE d[k] = 0 /\ t.entries[k].next # -1 /\ Advances(t, k, t.entries[k].next, u)
  BY <1>5, <1>7, <1>11
<1>12. CASE d[k] = 0 /\ t.entries[k].next = -1 /\ Clears(t, k, u)
  BY <1>5, <1>8, <1>12
<1>. QED BY <1>9, <1>10, <1>11, <1>12
-----------------------------------------------------------------------------
(* add                                                                     *)
(* A first entry of its chain, in its ideal position.                      *)
LEMMA HeadAdded ==
  ASSUME NEW t, NEW n, NEW d, Linked(t, n, d), NEW k \in 0 .. n - 1, k \notin Used(t, n),
         NEW u, IsTable(u, n), u.count = t.count + 1,
         u.entries[k].valid, u.entries[k].name % n = k, u.entries[k].next = -1,
         \A i \in Used(t, n) : t.entries[i].name # u.entries[k].name,
         \A i \in 0 .. n - 1 : i # k => u.entries[i] = t.entries[i]
  PROVE  /\ Used(u, n) = Used(t, n) \cup {k}
         /\ \E e : Linked(u, n, e)
<1>. DEFINE e == [d EXCEPT ![k] = 0]
<1>1. /\ n \in Nat \ {0} /\ Used(t, n) \subseteq 0 .. n - 1 /\ IsFiniteSet(Used(t, n))
      /\ t.count = Cardinality(Used(t, n)) /\ \A i \in Used(t, n) : i # -1
  BY LinkedFacts
<1>2. d \in [0 .. n - 1 -> Nat]
  BY DEF Linked
<1>3. Used(u, n) = Used(t, n) \cup {k}
  <2>1. \A i \in 0 .. n - 1 : u.entries[i].valid <=> (t.entries[i].valid \/ i = k)
    OBVIOUS
  <2>. QED BY <2>1 DEF Used
<1>4. \A i \in Used(t, n) : /\ i # k /\ i \in 0 .. n - 1 /\ u.entries[i] = t.entries[i]
                            /\ Home(u, n, i) = Home(t, n, i)
  <2>1. \A i \in Used(t, n) : i # k /\ i \in 0 .. n - 1 /\ u.entries[i] = t.entries[i]
    BY <1>1
  <2>. QED BY <2>1 DEF Home
<1>5. Home(u, n, k) = k
  BY DEF Home
<1>6. e \in [0 .. n - 1 -> Nat] /\ e[k] = 0 /\ \A i \in Used(t, n) : e[i] = d[i]
  BY <1>2, <1>4
<1>. HIDE DEF e
<1>7. u.count = Cardinality(Used(u, n))
  BY <1>1, <1>3, OneMore
<1>8. \A i \in Used(t, n) : Home(t, n, i) # k
  BY HeadSpot
<1>9. ASSUME NEW i \in Used(u, n)
      PROVE  /\ Home(u, n, i) \in Used(u, n)
             /\ Home(u, n, Home(u, n, i)) = Home(u, n, i) /\ e[Home(u, n, i)] = 0
  <2>1. CASE i = k
    BY <1>3, <1>5, <1>6, <2>1
  <2>2. CASE i # k
    <3>1. i \in Used(t, n)
      BY <1>3, <2>2
    <3>2. PICK h : h = Home(t, n, i)
      OBVIOUS
    <3>3. h \in Used(t, n) /\ Home(t, n, h) = h /\ d[h] = 0
      BY <3>1, <3>2, HeadSpot
    <3>4. h \in Used(u, n) /\ Home(u, n, h) = h /\ e[h] = 0 /\ Home(u, n, i) = h
      BY <1>3, <1>4, <1>6, <3>1, <3>2, <3>3
    <3>. QED BY <3>4
  <2>. QED BY <2>1, <2>2
<1>10. ASSUME NEW i \in Used(u, n), NEW j \in Used(u, n),
              Home(u, n, i) = Home(u, n, j), e[i] = e[j]
       PROVE  i = j
  <2>1. CASE i = k \/ j = k
    BY <1>3, <1>4, <1>5, <1>8, <1>10, <2>1
  <2>2. CASE i # k /\ j # k
    <3>1. /\ i \in Used(t, n) /\ j \in Used(t, n)
          /\ Home(t, n, i) = Home(t, n, j) /\ d[i] = d[j]
      BY <1>3, <1>4, <1>6, <1>10, <2>2
    <3>. QED BY <3>1, OneSpot
  <2>. QED BY <2>1, <2>2
<1>11. ASSUME NEW i \in Used(u, n), u.entries[i].next # -1
       PROVE  /\ u.entries[i].next \in Used(u, n)
              /\ Home(u, n, u.entries[i].next) = Home(u, n, i)
              /\ e[u.entries[i].next] = e[i] + 1
  <2>1. i \in Used(t, n)
    BY <1>3, <1>11
  <2>2. PICK x : x = t.entries[i].next
    OBVIOUS
  <2>3. u.entries[i].next = x /\ x # -1
    BY <1>4, <1>11, <2>1, <2>2
  <2>4. x \in Used(t, n) /\ Home(t, n, x) = Home(t, n, i) /\ d[x] = d[i] + 1
    BY <2>1, <2>2, <2>3, NextSpot
  <2>. QED BY <1>3, <1>4, <1>6, <2>1, <2>3, <2>4
<1>12. ASSUME NEW i \in Used(u, n), e[i] # 0
       PROVE  \E j \in Used(u, n) : u.entries[j].next = i
  <2>1. i \in Used(t, n) /\ d[i] # 0
    BY <1>3, <1>6, <1>12
  <2>2. PICK j \in Used(t, n) : t.entries[j].next = i
    BY <2>1, Before
  <2>. QED BY <1>3, <1>4, <2>2
<1>13. ASSUME NEW i \in Used(u, n), NEW j \in Used(u, n), u.entries[i].name = u.entries[j].name
       PROVE  i = j
  <2>1. CASE i = k \/ j = k
    BY <1>3, <1>4, <1>13, <2>1
  <2>2. CASE i # k /\ j # k
    <3>1. i \in Used(t, n) /\ j \in Used(t, n) /\ t.entries[i].name = t.entries[j].name
      BY <1>3, <1>4, <1>13, <2>2
    <3>. QED BY <3>1 DEF Linked
  <2>. QED BY <2>1, <2>2
<1>14. Linked(u, n, e)
  BY <1>6, <1>7, <1>9, <1>10, <1>11, <1>12, <1>13 DEF Linked
<1>. QED BY <1>3, <1>14

(* A last entry f of a chain, after l.                                     *)
LEMMA TailAdded ==
  ASSUME NEW t, NEW n, NEW d, Linked(t, n, d), NEW l \in Used(t, n), t.entries[l].next = -1,
         NEW f \in 0 .. n - 1, f \notin Used(t, n),
         NEW u, IsTable(u, n), u.count = t.count + 1,
         u.entries[f].valid, u.entries[f].name % n = Home(t, n, l), u.entries[f].next = -1,
         \A i \in Used(t, n) : t.entries[i].name # u.entries[f].name,
         u.entries[l].valid, u.entries[l].name = t.entries[l].name, u.entries[l].next = f,
         \A i \in 0 .. n - 1 : i # f /\ i # l => u.entries[i] = t.entries[i]
  PROVE  /\ Used(u, n) = Used(t, n) \cup {f}
         /\ \E e : Linked(u, n, e)
<1>. DEFINE e == [d EXCEPT ![f] = d[l] + 1]
<1>1. /\ n \in Nat \ {0} /\ Used(t, n) \subseteq 0 .. n - 1 /\ IsFiniteSet(Used(t, n))
      /\ t.count = Cardinality(Used(t, n))
      /\ \A i \in Used(t, n) : i # -1 /\ i # f /\ i \in 0 .. n - 1
      /\ \A i \in Used(t, n) : d[i] \in Nat
  <2>1. /\ n \in Nat \ {0} /\ Used(t, n) \subseteq 0 .. n - 1 /\ IsFiniteSet(Used(t, n))
        /\ t.count = Cardinality(Used(t, n))
        /\ \A i \in Used(t, n) : i # -1 /\ i \in 0 .. n - 1
        /\ \A i \in Used(t, n) : d[i] \in Nat
    BY LinkedFacts
  <2>. QED BY <2>1
<1>2. d \in [0 .. n - 1 -> Nat] /\ d[l] \in Nat
  BY <1>1 DEF Linked
<1>3. Used(u, n) = Used(t, n) \cup {f}
  <2>1. \A i \in 0 .. n - 1 : u.entries[i].valid <=> (t.entries[i].valid \/ i = f)
    BY DEF Used
  <2>. QED BY <2>1 DEF Used
<1>4. \A i \in Used(t, n) : /\ u.entries[i].name = t.entries[i].name
                            /\ u.entries[i].next = IF i = l THEN f ELSE t.entries[i].next
                            /\ Home(u, n, i) = Home(t, n, i)
  <2>1. \A i \in Used(t, n) : /\ u.entries[i].name = t.entries[i].name
                              /\ u.entries[i].next = IF i = l THEN f ELSE t.entries[i].next
    BY <1>1
  <2>. QED BY <2>1 DEF Home
<1>5. Home(u, n, f) = Home(t, n, l)
  BY DEF Home
<1>6. e \in [0 .. n - 1 -> Nat] /\ e[f] = d[l] + 1 /\ \A i \in Used(t, n) : e[i] = d[i]
  <2>1. d[l] + 1 \in Nat
    BY <1>2
  <2>. QED BY <1>1, <1>2, <2>1
<1>. HIDE DEF e
<1>7. u.count = Cardinality(Used(u, n))
  BY <1>1, <1>3, OneMore
<1>8. \A i \in Used(t, n) : Home(t, n, i) = Home(t, n, l) => d[i] # d[l] + 1
  <2>1. ASSUME NEW i \in Used(t, n), Home(t, n, i) = Home(t, n, l), d[i] = d[l] + 1
        PROVE  FALSE
    <3>1. t.entries[l].next = i
      BY <2>1, After
    <3>. QED BY <1>1, <3>1
  <2>. QED BY <2>1
<1>9. ASSUME NEW i \in Used(u, n)
      PROVE  /\ Home(u, n, i) \in Used(u, n)
             /\ Home(u, n, Home(u, n, i)) = Home(u, n, i) /\ e[Home(u, n, i)] = 0
  <2>1. PICK j \in Used(t, n) : Home(u, n, i) = Home(t, n, j)
    BY <1>3, <1>4, <1>5
  <2>2. PICK h : h = Home(t, n, j)
    OBVIOUS
  <2>3. h \in Used(t, n) /\ Home(t, n, h) = h /\ d[h] = 0
    BY <2>2, HeadSpot
  <2>4. h \in Used(u, n) /\ Home(u, n, h) = h /\ e[h] = 0 /\ Home(u, n, i) = h
    BY <1>3, <1>4, <1>6, <2>1, <2>2, <2>3
  <2>. QED BY <2>4
<1>10. ASSUME NEW i \in Used(u, n), NEW j \in Used(u, n),
              Home(u, n, i) = Home(u, n, j), e[i] = e[j]
       PROVE  i = j
  <2>1. CASE i = f /\ j # f
    BY <1>3, <1>4, <1>5, <1>6, <1>8, <1>10, <2>1
  <2>2. CASE j = f /\ i # f
    BY <1>3, <1>4, <1>5, <1>6, <1>8, <1>10, <2>2
  <2>3. CASE i # f /\ j # f
    <3>1. /\ i \in Used(t, n) /\ j \in Used(t, n)
          /\ Home(t, n, i) = Home(t, n, j) /\ d[i] = d[j]
      BY <1>3, <1>4, <1>6, <1>10, <2>3
    <3>. QED BY <3>1, OneSpot
  <2>. QED BY <2>1, <2>2, <2>3
<1>11. ASSUME NEW i \in Used(u, n), u.entries[i].next # -1
       PROVE  /\ u.entries[i].next \in Used(u, n)
              /\ Home(u, n, u.entries[i].next) = Home(u, n, i)
              /\ e[u.entries[i].next] = e[i] + 1
  <2>1. i \in Used(t, n)
    BY <1>3, <1>11
  <2>2. CASE i = l
    BY <1>3, <1>4, <1>5, <1>6, <2>1, <2>2
  <2>3. CASE i # l
    <3>1. PICK x : x = t.entries[i].next
      OBVIOUS
    <3>2. u.entries[i].next = x /\ x # -1
      BY <1>4, <1>11, <2>1, <2>3, <3>1
    <3>3. x \in Used(t, n) /\ Home(t, n, x) = Home(t, n, i) /\ d[x] = d[i] + 1
      BY <2>1, <3>1, <3>2, NextSpot
    <3>. QED BY <1>3, <1>4, <1>6, <2>1, <3>2, <3>3
  <2>. QED BY <2>2, <2>3
<1>12. ASSUME NEW i \in Used(u, n), e[i] # 0
       PROVE  \E j \in Used(u, n) : u.entries[j].next = i
  <2>1. CASE i = f
    BY <1>3, <2>1
  <2>2. CASE i # f
    <3>1. i \in Used(t, n) /\ d[i] # 0
      BY <1>3, <1>6, <1>12, <2>2
    <3>2. PICK j \in Used(t, n) : t.entries[j].next = i
      BY <3>1, Before
    <3>3. j # l
      BY <1>1, <3>1, <3>2
    <3>. QED BY <1>3, <1>4, <3>2, <3>3
  <2>. QED BY <2>1, <2>2
<1>13. ASSUME NEW i \in Used(u, n), NEW j \in Used(u, n), u.entries[i].name = u.entries[j].name
       PROVE  i = j
  <2>1. CASE i = f \/ j = f
    BY <1>3, <1>4, <1>13, <2>1
  <2>2. CASE i # f /\ j # f
    <3>1. i \in Used(t, n) /\ j \in Used(t, n) /\ t.entries[i].name = t.entries[j].name
      BY <1>3, <1>4, <1>13, <2>2
    <3>. QED BY <3>1 DEF Linked
  <2>. QED BY <2>1, <2>2
<1>14. Linked(u, n, e)
  BY <1>6, <1>7, <1>9, <1>10, <1>11, <1>12, <1>13 DEF Linked
<1>. QED BY <1>3, <1>14

(* The entry that every chain ends with, and a free one for the next.      *)
LEMMA TailExists ==
  ASSUME NEW t, NEW n, NEW d, Linked(t, n, d), NEW h \in Used(t, n), Home(t, n, h) = h
  PROVE  \E i \in Used(t, n) : Home(t, n, i) = h /\ t.entries[i].next = -1
<1>1. SUFFICES ASSUME \A i \in Used(t, n) : Home(t, n, i) = h => t.entries[i].next # -1
               PROVE  FALSE
  OBVIOUS
<1>. DEFINE S == {k \in Nat : \E i \in Used(t, n) : Home(t, n, i) = h /\ d[i] = k}
<1>2. t.count \in Nat
  BY LinkedFacts
<1>3. 0 \in S
  BY HeadSpot
<1>4. ASSUME NEW k \in 0 .. t.count - 1, k \in S PROVE k + 1 \in S
  <2>1. PICK i \in Used(t, n) : Home(t, n, i) = h /\ d[i] = k
    BY <1>4
  <2>2. PICK x : x = t.entries[i].next /\ x # -1
    BY <1>1, <2>1
  <2>3. x \in Used(t, n) /\ Home(t, n, x) = h /\ d[x] = k + 1
    BY <2>1, <2>2, NextSpot
  <2>. QED BY <2>3
<1>. HIDE DEF S
<1>5. t.count \in S
  <2>1. \A k \in 0 .. t.count : k \in S
    BY <1>2, <1>3, <1>4, UpInduction
  <2>. QED BY <1>2, <2>1
<1>6. PICK i \in Used(t, n) : d[i] = t.count
  BY <1>5 DEF S
<1>7. d[i] < t.count
  BY DepthBound
<1>. QED BY <1>2, <1>6, <1>7

LEMMA FreeFacts ==
  ASSUME NEW t, NEW n, IsTable(t, n), Cardinality(Used(t, n)) < n, NEW l \in 0 .. n - 1
  PROVE  FirstFree(t, l) \in 0 .. n - 1 /\ FirstFree(t, l) \notin Used(t, n)
<1>. DEFINE free == {k \in 1 .. n : ~t.entries[(l + k) % n].valid}
<1>1. n \in Nat \ {0} /\ Size(t) = n
  BY SizeFacts
<1>2. PICK j \in 0 .. n - 1 : j \notin Used(t, n)
  BY UsedFacts
<1>3. PICK k \in 1 .. n : (l + k) % n = j
  <2>. HIDE DEF free
  <2>1. n \in Nat \ {0} /\ l \in 0 .. n - 1 /\ j \in 0 .. n - 1
    BY <1>1
  <2>2. \A i, q \in 0 .. n - 1 : \E k \in 1 .. n : (i + k) % n = q
    BY <1>1, AroundFacts
  <2>. QED BY <2>1, <2>2
<1>4. k \in free
  BY <1>2, <1>3 DEF Used
<1>5. free \subseteq Nat
  BY <1>1
<1>6. FirstFree(t, l) = (l + Least(free)) % n
  BY <1>1 DEF FirstFree, Least
<1>7. Least(free) \in free
  <2>. HIDE DEF free
  <2>. QED BY <1>4, <1>5, LeastExists
<1>8. PICK m \in 1 .. n : m = Least(free) /\ ~t.entries[(l + m) % n].valid
  BY <1>7
<1>9. (l + m) % n \in 0 .. n - 1
  <2>1. l + m \in Nat
    BY <1>1
  <2>. QED BY <1>1, <2>1, ModFacts
<1>. QED BY <1>6, <1>8, <1>9 DEF Used
(* The name is there with its descriptor, and no other one is touched.     *)
Gains(t, u, n, name, value) ==
  \A m, v : Holds(u, n, m, v) <=> (m = name /\ v = value) \/ Holds(t, n, m, v)

Heads(t, k, name, value, u) == u = Counted(Put(t, k, Entry(name, value, -1)), 1)
Appends(t, l, f, name, value, u) ==
  u = Counted(Put(Put(t, f, Entry(name, value, -1)), l, [t.entries[l] EXCEPT !.next = f]), 1)
Links(t, name, value, u) == u = Link(t, name, value)
Inserts(t, name, value, u) == u = Insert(t, name, value)
Lacks(t, n, name) == \A i \in Used(t, n) : t.entries[i].name # name

LEMMA HeadWritten ==
  ASSUME NEW t, NEW n, NEW d, Linked(t, n, d), NEW name \in Nat, NEW value \in BOOLEAN,
         Lacks(t, n, name), NEW k \in 0 .. n - 1, k \notin Used(t, n), name % n = k,
         NEW u, Heads(t, k, name, value, u)
  PROVE  /\ \E e : Linked(u, n, e)
         /\ u.count = t.count + 1 /\ Gains(t, u, n, name, value)
         /\ Used(u, n) = Used(t, n) \cup {k}
         /\ \A i \in Used(t, n) : u.entries[i].name = t.entries[i].name
<1>1. IsTable(t, n) /\ Used(t, n) \subseteq 0 .. n - 1 /\ t.count \in Nat
  BY LinkedFacts
<1>2. PICK x : x = Entry(name, value, -1)
  OBVIOUS
<1>3. x \in Entries /\ x.valid /\ x.name = name /\ x.value = value /\ x.next = -1
  <2>1. -1 \in Int
    OBVIOUS
  <2>. QED BY <1>2, <2>1, EntryFacts
<1>4. PICK b : Wrote(t, k, x, b) /\ Adds(b, 1, u)
  BY <1>2 DEF Heads, Wrote, Adds
<1>5. /\ IsTable(b, n) /\ b.count = t.count /\ b.entries[k] = x
      /\ \A i \in 0 .. n - 1 : i # k => b.entries[i] = t.entries[i]
  BY <1>1, <1>3, <1>4, WroteFacts
<1>6. IsTable(u, n) /\ u.count = t.count + 1 /\ u.entries = b.entries
  <2>1. 1 \in Int /\ b.count + 1 \in Nat
    BY <1>1, <1>5
  <2>. QED BY <1>4, <1>5, <2>1, AddsFacts
<1>7. u.entries[k] = x /\ \A i \in 0 .. n - 1 : i # k => u.entries[i] = t.entries[i]
  BY <1>5, <1>6
<1>8. Used(u, n) = Used(t, n) \cup {k} /\ \E e : Linked(u, n, e)
  <2>1. /\ u.entries[k].valid /\ u.entries[k].name % n = k /\ u.entries[k].next = -1
        /\ \A i \in Used(t, n) : t.entries[i].name # u.entries[k].name
    BY <1>3, <1>7 DEF Lacks
  <2>. QED BY <1>6, <1>7, <2>1, HeadAdded
<1>9. \A i \in Used(t, n) : i # k /\ u.entries[i] = t.entries[i]
  BY <1>1, <1>7
<1>10. Gains(t, u, n, name, value)
  BY <1>3, <1>7, <1>8, <1>9 DEF Gains, Holds
<1>. QED BY <1>6, <1>8, <1>9, <1>10

LEMMA TailWritten ==
  ASSUME NEW t, NEW n, NEW d, Linked(t, n, d), NEW name \in Nat, NEW value \in BOOLEAN,
         Lacks(t, n, name), NEW l \in Used(t, n), t.entries[l].next = -1,
         NEW f \in 0 .. n - 1, f \notin Used(t, n), name % n = Home(t, n, l),
         NEW u, Appends(t, l, f, name, value, u)
  PROVE  /\ \E e : Linked(u, n, e)
         /\ u.count = t.count + 1 /\ Gains(t, u, n, name, value)
<1>1. /\ IsTable(t, n) /\ t.count \in Nat /\ f \in Int
      /\ \A i \in Used(t, n) : i \in 0 .. n - 1 /\ t.entries[i] \in Entries /\ i # f
  BY LinkedFacts
<1>2. PICK x, y : x = Entry(name, value, -1) /\ y = [t.entries[l] EXCEPT !.next = f]
  OBVIOUS
<1>3. x \in Entries /\ x.valid /\ x.name = name /\ x.value = value /\ x.next = -1
  <2>1. -1 \in Int
    OBVIOUS
  <2>. QED BY <1>2, <2>1, EntryFacts
<1>4. /\ y \in Entries /\ y.valid /\ y.name = t.entries[l].name
      /\ y.value = t.entries[l].value /\ y.next = f
  <2>1. t.entries[l] \in Entries /\ t.entries[l].valid
    BY <1>1 DEF Used
  <2>. QED BY <1>1, <1>2, <2>1, NextFacts
<1>5. PICK a, b : Wrote(t, f, x, a) /\ Wrote(a, l, y, b) /\ Adds(b, 1, u)
  BY <1>2 DEF Appends, Wrote, Adds
<1>6. /\ IsTable(a, n) /\ a.count = t.count /\ a.entries[f] = x
      /\ \A i \in 0 .. n - 1 : i # f => a.entries[i] = t.entries[i]
  BY <1>1, <1>3, <1>5, WroteFacts
<1>7. /\ IsTable(b, n) /\ b.count = t.count /\ b.entries[l] = y
      /\ \A i \in 0 .. n - 1 : i # l => b.entries[i] = a.entries[i]
  <2>1. l \in 0 .. n - 1
    BY <1>1
  <2>. QED BY <1>4, <1>5, <1>6, <2>1, WroteFacts
<1>8. IsTable(u, n) /\ u.count = t.count + 1 /\ u.entries = b.entries
  <2>1. 1 \in Int /\ b.count + 1 \in Nat
    BY <1>1, <1>6, <1>7
  <2>. QED BY <1>5, <1>6, <1>7, <2>1, AddsFacts
<1>9. /\ u.entries[f] = x /\ u.entries[l] = y
      /\ \A i \in 0 .. n - 1 : i # f /\ i # l => u.entries[i] = t.entries[i]
  <2>1. l # f
    BY <1>1
  <2>. QED BY <1>6, <1>7, <1>8, <2>1
<1>10. Used(u, n) = Used(t, n) \cup {f} /\ \E e : Linked(u, n, e)
  <2>1. /\ u.entries[f].valid /\ u.entries[f].name % n = Home(t, n, l)
        /\ u.entries[f].next = -1
        /\ \A i \in Used(t, n) : t.entries[i].name # u.entries[f].name
    BY <1>3, <1>9 DEF Lacks
  <2>2. u.entries[l].valid /\ u.entries[l].name = t.entries[l].name /\ u.entries[l].next = f
    BY <1>4, <1>9
  <2>. QED BY <1>8, <1>9, <2>1, <2>2, TailAdded
<1>11. \A i \in Used(t, n) : /\ u.entries[i].name = t.entries[i].name
                             /\ u.entries[i].value = t.entries[i].value
  BY <1>1, <1>4, <1>9
<1>12. u.entries[f].name = name /\ u.entries[f].value = value
  BY <1>3, <1>9
<1>13. Gains(t, u, n, name, value)
  BY <1>10, <1>11, <1>12 DEF Gains, Holds
<1>. QED BY <1>8, <1>10, <1>13

(* add, where no other chain is in the way.                                *)
LEMMA NameLinked ==
  ASSUME NEW t, NEW n, NEW d, Linked(t, n, d), t.count < n,
         NEW name \in Nat, NEW value \in BOOLEAN, Lacks(t, n, name),
         name % n \in Used(t, n) => Home(t, n, name % n) = name % n,
         NEW u, Links(t, name, value, u)
  PROVE  /\ \E e : Linked(u, n, e)
         /\ u.count = t.count + 1 /\ Gains(t, u, n, name, value)
<1>1. PICK h : h = name % n
  OBVIOUS
<1>2. Hash(t, name) = h /\ h \in 0 .. n - 1
  BY <1>1, HashIs
<1>3. h \in Used(t, n) <=> t.entries[h].valid
  BY <1>2 DEF Used
<1>4. CASE h \notin Used(t, n)
  <2>1. Heads(t, h, name, value, u)
    BY <1>2, <1>3, <1>4 DEF Links, Link, Heads
  <2>. QED BY <1>1, <1>2, <1>4, <2>1, HeadWritten
<1>5. CASE h \in Used(t, n)
  <2>. DEFINE chain == Chain(t, name)
              tail == CHOOSE i \in chain : t.entries[i].next = -1
  <2>1. Home(t, n, h) = h /\ d[h] = 0
    BY <1>1, <1>5, HeadSpot
  <2>2. chain = {i \in Used(t, n) : Home(t, n, i) = h}
    <3>1. chain = {i \in Used(t, n) : Home(t, n, i) = Home(t, n, h) /\ d[i] >= d[h]}
      BY <1>2, <1>5, ChainIs
    <3>2. \A i \in Used(t, n) : d[i] >= d[h]
      BY <2>1, LinkedFacts
    <3>. QED BY <2>1, <3>1, <3>2
  <2>3. \E i \in Used(t, n) : Home(t, n, i) = h /\ t.entries[i].next = -1
    BY <1>5, <2>1, TailExists
  <2>. HIDE DEF chain
  <2>4. tail \in chain /\ t.entries[tail].next = -1
    BY <2>2, <2>3
  <2>5. Appends(t, tail, FirstFree(t, tail), name, value, u)
    BY <1>2, <1>3, <1>5 DEF Links, Link, Appends, chain
  <2>6. PICK l : l = tail
    OBVIOUS
  <2>. HIDE DEF tail
  <2>7. l \in Used(t, n) /\ Home(t, n, l) = h /\ t.entries[l].next = -1
    BY <2>2, <2>4, <2>6
  <2>8. PICK f : f = FirstFree(t, l)
    OBVIOUS
  <2>9. f \in 0 .. n - 1 /\ f \notin Used(t, n)
    <3>1. IsTable(t, n) /\ Cardinality(Used(t, n)) < n /\ l \in 0 .. n - 1
      BY <2>7, LinkedFacts
    <3>. QED BY <2>8, <3>1, FreeFacts
  <2>10. Appends(t, l, f, name, value, u)
    BY <2>5, <2>6, <2>8
  <2>. QED BY <1>1, <2>7, <2>9, <2>10, TailWritten
<1>. QED BY <1>4, <1>5

(* The relocation of an entry that stands in the way.                      *)
LEMMA NameMoved ==
  ASSUME NEW t, NEW n, NEW d, Linked(t, n, d), t.count < n,
         NEW name \in Nat, NEW value \in BOOLEAN, Lacks(t, n, name),
         NEW k \in Used(t, n), k = name % n, Home(t, n, k) # k,
         NEW a, Removes(t, t.entries[k].name, a), NEW b, Heads(a, k, name, value, b),
         NEW u, Links(b, t.entries[k].name, t.entries[k].value, u)
  PROVE  /\ \E e : Linked(u, n, e)
         /\ u.count = t.count + 1 /\ Gains(t, u, n, name, value)
<1>1. PICK moved, flag : moved = t.entries[k].name /\ flag = t.entries[k].value
  OBVIOUS
<1>2. PICK g : g = Home(t, n, k)
  OBVIOUS
<1>3. /\ moved \in Nat /\ flag \in BOOLEAN /\ t.count \in Nat
      /\ k \in 0 .. n - 1 /\ moved # name /\ g = moved % n
  <2>1. t.entries[k] \in Entries /\ t.entries[k].name \in Nat /\ t.count \in Nat /\ k \in 0 .. n - 1
    BY LinkedFacts
  <2>2. t.entries[k].value \in BOOLEAN
    BY <2>1 DEF Entries
  <2>. QED BY <1>1, <1>2, <2>1, <2>2 DEF Lacks, Home
<1>4. g \in Used(t, n) /\ Home(t, n, g) = g /\ d[g] = 0 /\ g # k
  BY <1>2, HeadSpot
<1>5. d[k] # 0
  <2>1. ASSUME d[k] = 0 PROVE FALSE
    <3>1. g = k
      BY <1>2, <1>4, <2>1, OneSpot
    <3>. QED BY <1>4, <3>1
  <2>. QED BY <2>1
<1>6. /\ \E e : Linked(a, n, e)
      /\ a.count = t.count - 1 /\ Forgets(t, a, n, moved)
      /\ Used(a, n) = Used(t, n) \ {k}
      /\ \A i \in Used(a, n) : a.entries[i].name = t.entries[i].name
  BY <1>1, <1>5, NameRemoved
<1>7. PICK e : Linked(a, n, e)
  BY <1>6
<1>8. Lacks(a, n, name)
  BY <1>6 DEF Lacks
<1>9. /\ \E x : Linked(b, n, x)
      /\ b.count = a.count + 1 /\ Gains(a, b, n, name, value)
      /\ Used(b, n) = Used(a, n) \cup {k}
      /\ \A i \in Used(a, n) : b.entries[i].name = a.entries[i].name
  <2>1. k \notin Used(a, n) /\ k \in 0 .. n - 1 /\ name % n = k
    BY <1>3, <1>6
  <2>. QED BY <1>7, <1>8, <2>1, HeadWritten
<1>10. PICK x : Linked(b, n, x)
  BY <1>9
<1>11. Lacks(b, n, moved)
  <2>1. ASSUME NEW i \in Used(b, n), b.entries[i].name = moved PROVE FALSE
    <3>1. Holds(b, n, moved, b.entries[i].value)
      BY <2>1 DEF Holds
    <3>2. Holds(a, n, moved, b.entries[i].value)
      BY <1>3, <1>9, <3>1 DEF Gains
    <3>. QED BY <1>6, <3>2 DEF Forgets
  <2>. QED BY <2>1 DEF Lacks
<1>12. g \in Used(b, n) /\ Home(b, n, g) = g
  <2>1. g \in Used(a, n) /\ g \in Used(b, n)
    BY <1>4, <1>6, <1>9
  <2>2. b.entries[g].name = t.entries[g].name
    BY <1>6, <1>9, <2>1
  <2>. QED BY <1>4, <2>1, <2>2 DEF Home
<1>13. /\ \E y : Linked(u, n, y)
       /\ u.count = b.count + 1 /\ Gains(b, u, n, moved, flag)
  <2>1. b.count < n
    BY <1>3, <1>6, <1>9
  <2>2. Links(b, moved, flag, u)
    BY <1>1
  <2>3. moved % n \in Used(b, n) => Home(b, n, moved % n) = moved % n
    BY <1>3, <1>12
  <2>. QED BY <1>3, <1>10, <1>11, <2>1, <2>2, <2>3, NameLinked
<1>14. u.count = t.count + 1
  BY <1>3, <1>6, <1>9, <1>13
<1>15. \A v : Holds(t, n, moved, v) <=> v = flag
  <2>1. Holds(t, n, moved, flag)
    BY <1>1 DEF Holds
  <2>2. \A i \in Used(t, n) : t.entries[i].name = moved => i = k
    BY <1>1 DEF Linked
  <2>. QED BY <1>1, <2>1, <2>2 DEF Holds
<1>16. Gains(t, u, n, name, value)
  BY <1>6, <1>9, <1>13, <1>15 DEF Gains, Forgets
<1>. QED BY <1>13, <1>14, <1>16

(* add, into a table that has room.                                        *)
LEMMA NameInserted ==
  ASSUME NEW t, NEW n, NEW d, Linked(t, n, d), t.count < n,
         NEW name \in Nat, NEW value \in BOOLEAN, Lacks(t, n, name),
         NEW u, Inserts(t, name, value, u)
  PROVE  /\ \E e : Linked(u, n, e)
         /\ u.count = t.count + 1 /\ Gains(t, u, n, name, value)
<1>1. PICK k : k = name % n
  OBVIOUS
<1>2. Hash(t, name) = k /\ k \in 0 .. n - 1
  BY <1>1, HashIs
<1>3. k \in Used(t, n) <=> t.entries[k].valid
  BY <1>2 DEF Used
<1>4. k \in Used(t, n) => Hash(t, t.entries[k].name) = Home(t, n, k)
  BY HeadChain
<1>5. CASE k \in Used(t, n) /\ Home(t, n, k) # k
  <2>1. PICK a : Removes(t, t.entries[k].name, a)
    BY DEF Removes
  <2>2. PICK b : Heads(a, k, name, value, b)
    BY DEF Heads
  <2>3. Links(b, t.entries[k].name, t.entries[k].value, u)
    BY <1>2, <1>3, <1>4, <1>5, <2>1, <2>2 DEF Inserts, Insert, Links, Removes, Heads
  <2>. QED BY <1>1, <1>5, <2>1, <2>2, <2>3, NameMoved
<1>6. CASE ~(k \in Used(t, n) /\ Home(t, n, k) # k)
  <2>1. Links(t, name, value, u)
    BY <1>2, <1>3, <1>4, <1>6 DEF Inserts, Insert, Links
  <2>. QED BY <1>1, <1>6, <2>1, NameLinked
<1>. QED BY <1>5, <1>6
-----------------------------------------------------------------------------
(* An empty table                                                          *)
LEMMA EmptyLinked ==
  ASSUME NEW m \in Nat
  PROVE  /\ GetPrime(m) \in Nat /\ GetPrime(m) >= m /\ GetPrime(m) >= 1
         /\ \E d : Linked(EmptyTable(m), GetPrime(m), d)
         /\ EmptyTable(m).count = 0 /\ Used(EmptyTable(m), GetPrime(m)) = {}
<1>1. PICK n : n = GetPrime(m)
  OBVIOUS
<1>2. n \in Nat /\ n >= m /\ n >= 1
  BY <1>1, PrimeFacts
<1>3. PICK es : es = [i \in 0 .. n - 1 |-> Empty]
  OBVIOUS
<1>4. PICK t : t = [entries |-> es, count |-> 0]
  OBVIOUS
<1>5. EmptyTable(m) = t
  BY <1>1, <1>3, <1>4 DEF EmptyTable
<1>6. t.entries = es /\ t.count = 0 /\ t = [entries |-> t.entries, count |-> t.count]
  BY <1>4
<1>7. es \in [0 .. n - 1 -> Entries] /\ \A i \in 0 .. n - 1 : ~es[i].valid
  BY <1>3, EntryFacts
<1>8. IsTable(t, n)
  BY <1>2, <1>6, <1>7 DEF IsTable
<1>9. Used(t, n) = {}
  BY <1>6, <1>7 DEF Used
<1>10. Cardinality(Used(t, n)) = 0
  BY <1>9, FS_EmptySet
<1>. DEFINE d == [i \in 0 .. n - 1 |-> 0]
<1>11. d \in [0 .. n - 1 -> Nat]
  OBVIOUS
<1>. HIDE DEF d
<1>12. Linked(t, n, d)
  BY <1>6, <1>8, <1>9, <1>10, <1>11 DEF Linked
<1>. QED BY <1>1, <1>2, <1>5, <1>6, <1>9, <1>12

-----------------------------------------------------------------------------
(* grow_entries                                                            *)
(* What is done with the entry i of the old table.                         *)
Carried(t, i, u) ==
  IF t.entries[i].valid THEN Insert(u, t.entries[i].name, t.entries[i].value) ELSE u
Carrying(t, n, m, at) ==
  at = [i \in 0 .. m |-> IF i = 0 THEN EmptyTable(2 * n) ELSE Carried(t, i - 1, at[i - 1])]

LEMMA CarryingExists ==
  ASSUME NEW t, NEW n \in Nat
  PROVE  \E at : Carrying(t, n, n, at)
<1>. DEFINE S == {m \in 0 .. n : \E at : Carrying(t, n, m, at)}
<1>1. 0 \in S
  <2>. DEFINE at == [i \in 0 .. 0 |-> EmptyTable(2 * n)]
  <2>1. at = [i \in 0 .. 0 |->
               IF i = 0 THEN EmptyTable(2 * n) ELSE Carried(t, i - 1, at[i - 1])]
    <3>1. \A i \in 0 .. 0 : i = 0
      OBVIOUS
    <3>. QED BY <3>1
  <2>. HIDE DEF at
  <2>. QED BY <2>1 DEF Carrying
<1>2. ASSUME NEW m \in 0 .. n - 1, m \in S PROVE m + 1 \in S
  <2>1. PICK f : f = [i \in 0 .. m |->
                       IF i = 0 THEN EmptyTable(2 * n) ELSE Carried(t, i - 1, f[i - 1])]
    BY <1>2 DEF Carrying
  <2>. DEFINE at == [i \in 0 .. m + 1 |-> IF i = m + 1 THEN Carried(t, m, f[m]) ELSE f[i]]
  <2>2. \A i \in 0 .. m + 1 : /\ i # m + 1 => i \in 0 .. m
                              /\ i # 0 => i - 1 \in 0 .. m + 1 /\ i - 1 # m + 1 /\ i - 1 \in 0 .. m
                              /\ i = m + 1 => i # 0 /\ i - 1 = m
    OBVIOUS
  <2>3. \A i \in 0 .. m + 1 :
          (IF i = m + 1 THEN Carried(t, m, f[m]) ELSE f[i])
            = IF i = 0 THEN EmptyTable(2 * n) ELSE Carried(t, i - 1, at[i - 1])
    <3>1. ASSUME NEW i \in 0 .. m + 1, i # 0 PROVE at[i - 1] = f[i - 1]
      BY <2>2, <3>1
    <3>. HIDE DEF at
    <3>2. ASSUME NEW i \in 0 .. m
          PROVE  f[i] = IF i = 0 THEN EmptyTable(2 * n) ELSE Carried(t, i - 1, f[i - 1])
      BY <2>1, <3>2
    <3>. QED BY <2>2, <3>1, <3>2
  <2>4. at = [i \in 0 .. m + 1 |->
               IF i = 0 THEN EmptyTable(2 * n) ELSE Carried(t, i - 1, at[i - 1])]
    BY <2>3
  <2>5. m + 1 \in 0 .. n
    OBVIOUS
  <2>. HIDE DEF at
  <2>. QED BY <2>4, <2>5 DEF Carrying
<1>. HIDE DEF S
<1>3. \A m \in 0 .. n : m \in S
  BY <1>1, <1>2, UpInduction
<1>4. n \in 0 .. n
  OBVIOUS
<1>. QED BY <1>3, <1>4 DEF S

(* The first i entries of t are in u.                                      *)
Loaded(t, n, i, u, s) ==
  /\ \E d : Linked(u, s, d)
  /\ u.count <= i
  /\ \A m, v : Holds(u, s, m, v) <=>
       \E j \in Used(t, n) : j < i /\ t.entries[j].name = m /\ t.entries[j].value = v

LEMMA LoadedNext ==
  ASSUME NEW t, NEW n, NEW d, Linked(t, n, d), NEW i \in 0 .. n - 1,
         NEW s, s > i, NEW u, Loaded(t, n, i, u, s)
  PROVE  Loaded(t, n, i + 1, Carried(t, i, u), s)
<1>1. IsTable(t, n) /\ n \in Nat /\ Used(t, n) \subseteq 0 .. n - 1
  BY LinkedFacts
<1>2. PICK e : Linked(u, s, e)
  BY DEF Loaded
<1>3. u.count \in Nat /\ u.count <= i /\ s \in Nat
  BY <1>2, LinkedFacts DEF Loaded
<1>4. i \in Used(t, n) <=> t.entries[i].valid
  BY DEF Used
<1>5. \A j \in Used(t, n) : j < i + 1 <=> (j < i \/ j = i)
  BY <1>1
<1>6. CASE i \notin Used(t, n)
  <2>1. Carried(t, i, u) = u
    BY <1>4, <1>6 DEF Carried
  <2>2. u.count <= i + 1
    BY <1>3
  <2>3. \A j \in Used(t, n) : j < i + 1 <=> j < i
    BY <1>5, <1>6
  <2>. QED BY <1>2, <2>1, <2>2, <2>3 DEF Loaded
<1>7. CASE i \in Used(t, n)
  <2>1. PICK name, value : name = t.entries[i].name /\ value = t.entries[i].value
    OBVIOUS
  <2>2. name \in Nat /\ value \in BOOLEAN
    <3>1. t.entries[i] \in Entries
      BY <1>1, SizeFacts
    <3>. QED BY <2>1, <3>1 DEF Entries
  <2>3. Lacks(u, s, name)
    <3>1. ASSUME NEW k \in Used(u, s), u.entries[k].name = name PROVE FALSE
      <4>1. Holds(u, s, name, u.entries[k].value)
        BY <3>1 DEF Holds
      <4>2. PICK j \in Used(t, n) : j < i /\ t.entries[j].name = name
        BY <4>1 DEF Loaded
      <4>3. j = i
        BY <1>7, <2>1, <4>2 DEF Linked
      <4>. QED BY <4>2, <4>3
    <3>. QED BY <3>1 DEF Lacks
  <2>4. PICK w : w = Carried(t, i, u)
    OBVIOUS
  <2>5. Inserts(u, name, value, w)
    BY <1>4, <1>7, <2>1, <2>4 DEF Inserts, Carried
  <2>6. u.count < s
    BY <1>3
  <2>7. /\ \E x : Linked(w, s, x)
        /\ w.count = u.count + 1 /\ Gains(u, w, s, name, value)
    BY <1>2, <2>2, <2>3, <2>5, <2>6, NameInserted
  <2>8. w.count <= i + 1
    BY <1>3, <2>7
  <2>9. \A m, v : Holds(w, s, m, v) <=>
          \E j \in Used(t, n) : j < i + 1 /\ t.entries[j].name = m /\ t.entries[j].value = v
    <3>1. \A m, v : Holds(u, s, m, v) <=>
            \E j \in Used(t, n) : j < i /\ t.entries[j].name = m /\ t.entries[j].value = v
      BY DEF Loaded
    <3>. QED BY <1>5, <1>7, <2>1, <2>7, <3>1 DEF Gains
  <2>. QED BY <2>4, <2>7, <2>8, <2>9 DEF Loaded
<1>. QED BY <1>6, <1>7

Grows(t, u) == u = Grow(t)

(* A larger table with the same names and values.                          *)
LEMMA TableGrown ==
  ASSUME NEW t, NEW n, NEW d, Linked(t, n, d), NEW u, Grows(t, u)
  PROVE  \E s : /\ \E e : Linked(u, s, e)
                /\ u.count < s
                /\ \A m, v : Holds(u, s, m, v) <=> Holds(t, n, m, v)
<1>1. IsTable(t, n) /\ n \in Nat \ {0} /\ Used(t, n) \subseteq 0 .. n - 1 /\ Size(t) = n
  BY LinkedFacts, SizeFacts
<1>2. PICK at : at = CHOOSE f : Carrying(t, n, n, f)
  OBVIOUS
<1>3. u = at[n]
  <2>1. u = (CHOOSE into : into = [i \in 0 .. n |->
               IF i = 0 THEN EmptyTable(2 * n)
               ELSE IF t.entries[i - 1].valid
                    THEN Insert(into[i - 1], t.entries[i - 1].name, t.entries[i - 1].value)
                    ELSE into[i - 1]])[n]
    BY <1>1 DEF Grows, Grow
  <2>. QED BY <1>2, <2>1 DEF Carrying, Carried
<1>4. Carrying(t, n, n, at)
  BY <1>1, <1>2, CarryingExists
<1>5. /\ at[0] = EmptyTable(2 * n)
      /\ \A i \in 0 .. n : i # 0 => at[i] = Carried(t, i - 1, at[i - 1])
  <2>1. \A i \in 0 .. n : at[i] = IF i = 0 THEN EmptyTable(2 * n) ELSE Carried(t, i - 1, at[i - 1])
    BY <1>4, Zenon DEF Carrying
  <2>2. 0 \in 0 .. n
    BY <1>1
  <2>. QED BY <2>1, <2>2
<1>6. PICK s : s = GetPrime(2 * n)
  OBVIOUS
<1>7. /\ s \in Nat /\ s > n
      /\ \E e : Linked(at[0], s, e)
      /\ at[0].count = 0 /\ Used(at[0], s) = {}
  <2>1. 2 * n \in Nat /\ 2 * n > n
    BY <1>1
  <2>2. /\ s \in Nat /\ s >= 2 * n
        /\ \E e : Linked(EmptyTable(2 * n), s, e)
        /\ EmptyTable(2 * n).count = 0 /\ Used(EmptyTable(2 * n), s) = {}
    BY <1>6, <2>1, EmptyLinked
  <2>3. s > n
    BY <1>1, <2>1, <2>2
  <2>. QED BY <1>5, <2>2, <2>3
<1>. DEFINE S == {i \in 0 .. n : Loaded(t, n, i, at[i], s)}
<1>8. 0 \in S
  <2>1. \A j \in Used(t, n) : ~(j < 0)
    BY <1>1
  <2>. QED BY <1>1, <1>7, <2>1 DEF Loaded, Holds
<1>9. ASSUME NEW i \in 0 .. n - 1, i \in S PROVE i + 1 \in S
  <2>1. i + 1 \in 0 .. n /\ i + 1 # 0 /\ (i + 1) - 1 = i /\ s > i /\ i \in 0 .. n - 1
    BY <1>1, <1>7
  <2>2. at[i + 1] = Carried(t, i, at[i])
    BY <1>5, <2>1
  <2>3. Loaded(t, n, i, at[i], s)
    BY <1>9
  <2>4. Loaded(t, n, i + 1, Carried(t, i, at[i]), s)
    BY <2>1, <2>3, LoadedNext
  <2>. QED BY <2>1, <2>2, <2>4
<1>. HIDE DEF S
<1>10. n \in S
  <2>1. \A i \in 0 .. n : i \in S
    BY <1>1, <1>8, <1>9, UpInduction
  <2>. QED BY <1>1, <2>1
<1>11. Loaded(t, n, n, u, s)
  BY <1>3, <1>10 DEF S
<1>12. u.count < s
  <2>1. PICK e : Linked(u, s, e)
    BY <1>11 DEF Loaded
  <2>2. u.count \in Nat /\ u.count <= n
    BY <1>11, <2>1, LinkedFacts DEF Loaded
  <2>. QED BY <1>1, <1>7, <2>2
<1>13. \A j \in Used(t, n) : j < n
  BY <1>1
<1>. QED BY <1>11, <1>12, <1>13 DEF Loaded, Holds

-----------------------------------------------------------------------------
(* The operations, for tables of any size                                  *)
(* A table whose chains are whole, and what it tells of a name.            *)
Sound(t) == \E n, d : Linked(t, n, d)
Tells(t, name, value) == Has(t, name) /\ EntryOf(t, name).value = value

LEMMA TellsIs ==
  ASSUME NEW t, NEW n, NEW d, Linked(t, n, d), NEW name \in Nat
  PROVE  /\ \A value : Tells(t, name, value) <=> Holds(t, n, name, value)
         /\ Has(t, name) <=> ~Lacks(t, n, name)
         /\ Has(t, name) => EntryOf(t, name).value \in BOOLEAN
         /\ Has(t, name) <=> \E value : Tells(t, name, value)
<1>1. /\ Has(t, name) <=> \E i \in Used(t, n) : t.entries[i].name = name
      /\ \A i \in Used(t, n) : t.entries[i].name = name => EntryOf(t, name) = t.entries[i]
  BY HasIs
<1>2. \A i \in Used(t, n) : t.entries[i].value \in BOOLEAN
  <2>1. \A i \in Used(t, n) : t.entries[i] \in Entries
    BY LinkedFacts
  <2>. QED BY <2>1 DEF Entries
<1>. QED BY <1>1, <1>2 DEF Tells, Holds, Lacks

LEMMA EmptyFacts ==
  ASSUME NEW m \in Nat
  PROVE  Sound(EmptyTable(m)) /\ \A name \in Nat : ~Has(EmptyTable(m), name)
<1>1. PICK d : Linked(EmptyTable(m), GetPrime(m), d)
  BY EmptyLinked
<1>2. \A name \in Nat : Lacks(EmptyTable(m), GetPrime(m), name)
  BY EmptyLinked DEF Lacks
<1>3. \A name \in Nat : ~Has(EmptyTable(m), name)
  BY <1>1, <1>2, TellsIs
<1>. QED BY <1>1, <1>3 DEF Sound

(* add                                                                     *)
LEMMA AddFacts ==
  ASSUME NEW t, Sound(t), NEW name \in Nat, NEW value \in BOOLEAN, ~Has(t, name)
  PROVE  /\ Sound(AddName(t, name, value))
         /\ \A m \in Nat : \A v : Tells(AddName(t, name, value), m, v)
                                <=> (m = name /\ v = value) \/ Tells(t, m, v)
<1>1. PICK n, d : Linked(t, n, d)
  BY DEF Sound
<1>2. PICK base : base = IF t.count > MaxLoadFactor(t) THEN Grow(t) ELSE t
  OBVIOUS
<1>3. PICK s, e : /\ Linked(base, s, e) /\ base.count < s
                  /\ \A m, v : Holds(base, s, m, v) <=> Holds(t, n, m, v)
  <2>1. CASE t.count > MaxLoadFactor(t)
    <3>1. Grows(t, base)
      BY <1>2, <2>1 DEF Grows
    <3>2. \E s : /\ \E e : Linked(base, s, e)
                 /\ base.count < s
                 /\ \A m, v : Holds(base, s, m, v) <=> Holds(t, n, m, v)
      BY <1>1, <3>1, TableGrown
    <3>. QED BY <3>2
  <2>2. CASE ~(t.count > MaxLoadFactor(t))
    <3>1. base = t
      BY <1>2, <2>2
    <3>2. IsTable(t, n) /\ n \in Nat \ {0} /\ t.count \in Nat /\ Size(t) = n
      BY <1>1, LinkedFacts, SizeFacts
    <3>3. (n * 7) \div 10 < n /\ (n * 7) \div 10 \in Int
      BY <3>2
    <3>4. ~(t.count > (n * 7) \div 10)
      BY <2>2, <3>2 DEF MaxLoadFactor
    <3>5. t.count < n
      BY <3>2, <3>3, <3>4
    <3>. QED BY <1>1, <3>1, <3>5
  <2>. QED BY <2>1, <2>2
<1>4. PICK u : u = AddName(t, name, value)
  OBVIOUS
<1>5. Inserts(base, name, value, u)
  BY <1>2, <1>4 DEF AddName, Inserts
<1>6. Lacks(base, s, name)
  <2>1. Lacks(t, n, name)
    BY <1>1, TellsIs
  <2>. QED BY <1>3, <2>1 DEF Lacks, Holds
<1>7. (\E x : Linked(u, s, x)) /\ Gains(base, u, s, name, value)
  BY <1>3, <1>5, <1>6, NameInserted
<1>8. PICK x : Linked(u, s, x)
  BY <1>7
<1>9. \A m \in Nat : \A v : Tells(u, m, v) <=> (m = name /\ v = value) \/ Tells(t, m, v)
  BY <1>1, <1>3, <1>7, <1>8, TellsIs DEF Gains
<1>. QED BY <1>4, <1>8, <1>9 DEF Sound

(* remove                                                                  *)
LEMMA RemoveFacts ==
  ASSUME NEW t, Sound(t), NEW name \in Nat, Has(t, name)
  PROVE  /\ Sound(RemoveName(t, name))
         /\ \A m \in Nat : \A v : Tells(RemoveName(t, name), m, v) <=> m # name /\ Tells(t, m, v)
<1>1. PICK n, d : Linked(t, n, d)
  BY DEF Sound
<1>2. PICK k \in Used(t, n) : t.entries[k].name = name
  BY <1>1, HasIs
<1>3. PICK u : Removes(t, name, u)
  BY DEF Removes
<1>4. Removes(t, t.entries[k].name, u)
  BY <1>2, <1>3
<1>5. (\E e : Linked(u, n, e)) /\ Forgets(t, u, n, t.entries[k].name)
  BY <1>1, <1>4, NameRemoved
<1>6. PICK e : Linked(u, n, e)
  BY <1>5
<1>7. \A m \in Nat : \A v : Tells(u, m, v) <=> m # name /\ Tells(t, m, v)
  BY <1>1, <1>2, <1>5, <1>6, TellsIs DEF Forgets
<1>8. u = RemoveName(t, name)
  BY <1>3 DEF Removes
<1>. QED BY <1>6, <1>7, <1>8 DEF Sound

(* replace                                                                 *)
LEMMA ReplaceFacts ==
  ASSUME NEW t, Sound(t), NEW name \in Nat, NEW value \in BOOLEAN, Has(t, name)
  PROVE  /\ Sound(ReplaceValue(t, name, value))
         /\ \A m \in Nat : \A v : Tells(ReplaceValue(t, name, value), m, v)
                                <=> IF m = name THEN v = value ELSE Tells(t, m, v)
<1>1. PICK n, d : Linked(t, n, d)
  BY DEF Sound
<1>2. PICK u : u = ReplaceValue(t, name, value)
  OBVIOUS
<1>3. PICK k : k = CHOOSE i \in Found(t, name) : TRUE
  OBVIOUS
<1>4. k \in Used(t, n) /\ t.entries[k].name = name
  <2>1. Found(t, name) = {i \in Used(t, n) : t.entries[i].name = name}
    BY <1>1, FoundIs
  <2>2. \E i \in Used(t, n) : t.entries[i].name = name
    BY <1>1, HasIs
  <2>. QED BY <1>3, <2>1, <2>2
<1>5. PICK x : x = [t.entries[k] EXCEPT !.value = value]
  OBVIOUS
<1>6. Wrote(t, k, x, u)
  BY <1>2, <1>3, <1>5 DEF ReplaceValue, Wrote
<1>7. /\ IsTable(t, n) /\ t.entries[k] \in Entries /\ k \in 0 .. n - 1 /\ t.entries[k].valid
      /\ Used(t, n) \subseteq 0 .. n - 1
  BY <1>1, <1>4, LinkedFacts DEF Used
<1>8. /\ x \in Entries /\ x.valid = t.entries[k].valid /\ x.name = t.entries[k].name
      /\ x.value = value /\ x.next = t.entries[k].next
  BY <1>5, <1>7, ValueFacts
<1>9. /\ IsTable(u, n) /\ u.count = t.count /\ u.entries[k] = x
      /\ \A i \in 0 .. n - 1 : i # k => u.entries[i] = t.entries[i]
  BY <1>6, <1>7, <1>8, WroteFacts
<1>10. \A i \in 0 .. n - 1 : /\ u.entries[i].valid = t.entries[i].valid
                             /\ u.entries[i].name = t.entries[i].name
                             /\ u.entries[i].next = t.entries[i].next
                             /\ u.entries[i].value = IF i = k THEN value ELSE t.entries[i].value
  BY <1>8, <1>9
<1>11. Used(u, n) = Used(t, n)
  BY <1>10 DEF Used
<1>12. \A i \in Used(t, n) : /\ Home(u, n, i) = Home(t, n, i)
                             /\ u.entries[i].name = t.entries[i].name
                             /\ u.entries[i].next = t.entries[i].next
                             /\ u.entries[i].value = IF i = k THEN value ELSE t.entries[i].value
  BY <1>7, <1>10 DEF Home
<1>13. Linked(u, n, d)
  <2>1. d \in [0 .. n - 1 -> Nat] /\ u.count = Cardinality(Used(u, n))
    BY <1>1, <1>9, <1>11 DEF Linked
  <2>2. \A i \in Used(u, n) :
          /\ Home(u, n, i) \in Used(u, n)
          /\ Home(u, n, Home(u, n, i)) = Home(u, n, i) /\ d[Home(u, n, i)] = 0
    BY <1>1, <1>11, <1>12, HeadSpot
  <2>3. \A i, j \in Used(u, n) : Home(u, n, i) = Home(u, n, j) /\ d[i] = d[j] => i = j
    BY <1>1, <1>11, <1>12, OneSpot
  <2>4. \A i \in Used(u, n) :
          \/ u.entries[i].next = -1
          \/ /\ u.entries[i].next \in Used(u, n)
             /\ Home(u, n, u.entries[i].next) = Home(u, n, i)
             /\ d[u.entries[i].next] = d[i] + 1
    BY <1>1, <1>11, <1>12, NextSpot
  <2>5. \A i \in Used(u, n) : d[i] = 0 \/ \E j \in Used(u, n) : u.entries[j].next = i
    BY <1>1, <1>11, <1>12, Before
  <2>6. \A i, j \in Used(u, n) : u.entries[i].name = u.entries[j].name => i = j
    BY <1>1, <1>11, <1>12 DEF Linked
  <2>. QED BY <1>9, <2>1, <2>2, <2>3, <2>4, <2>5, <2>6 DEF Linked
<1>14. \A i \in Used(t, n) : t.entries[i].name = name => i = k
  BY <1>1, <1>4 DEF Linked
<1>15. \A m, v : Holds(u, n, m, v) <=> IF m = name THEN v = value ELSE Holds(t, n, m, v)
  BY <1>4, <1>11, <1>12, <1>14 DEF Holds
<1>16. \A m \in Nat : \A v : Tells(u, m, v) <=> IF m = name THEN v = value ELSE Tells(t, m, v)
  BY <1>1, <1>13, <1>15, TellsIs
<1>. QED BY <1>2, <1>13, <1>16 DEF Sound
=============================================================================

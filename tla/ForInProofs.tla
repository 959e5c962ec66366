----------------------------- MODULE ForInProofs -----------------------------
(***************************************************************************)
(* A for-in statement runs its body once at most for every name, and only  *)
(* for properties that are there then, for all objects and whatever the    *)
(* body does to them; and for all of them if it leaves the object alone.   *)
(***************************************************************************)
EXTENDS ForIn, HashTableProofs, SequenceTheorems

\* The names visited are among those seen, each at one place.
Noted(v, s) == \A k \in 1 .. Len(v) : v[k] \in s
Distinct(v) == \A i, j \in 1 .. Len(v) : v[i] = v[j] => i = j

IInv ==
  /\ \E S : visited \in Seq(S)
  /\ Noted(visited, seen) /\ Distinct(visited)

-----------------------------------------------------------------------------
Added(v, n, w) == w = Append(v, n)

LEMMA AddedFacts ==
  ASSUME NEW S, NEW v \in Seq(S), NEW n, NEW w, Added(v, n, w)
  PROVE  /\ \E T : w \in Seq(T)
         /\ Len(v) \in Nat /\ Len(w) = Len(v) + 1 /\ w[Len(v) + 1] = n
         /\ \A i \in 1 .. Len(v) : w[i] = v[i]
<1>. DEFINE T == S \union {n}
<1>1. \A x \in S : x \in T
  OBVIOUS
<1>2. Len(v) \in Nat /\ v \in [1 .. Len(v) -> S]
  BY LenProperties
<1>3. v \in [1 .. Len(v) -> T]
  BY <1>1, <1>2
<1>4. v \in Seq(T) /\ n \in T
  BY <1>2, <1>3, SeqDef
<1>. HIDE DEF T
<1>5. /\ Append(v, n) \in Seq(T) /\ Len(Append(v, n)) = Len(v) + 1
      /\ Append(v, n)[Len(v) + 1] = n
      /\ \A i \in 1 .. Len(v) : Append(v, n)[i] = v[i]
  BY <1>4, AppendProperties
<1>. QED BY <1>2, <1>5 DEF Added

LEMMA AddedKeeps ==
  ASSUME IInv, NEW n, n \notin seen, NEW w, Added(visited, n, w)
  PROVE  (\E S : w \in Seq(S)) /\ Noted(w, seen \union {n}) /\ Distinct(w)
<1>1. PICK S : visited \in Seq(S)
  BY DEF IInv
<1>2. PICK l : l = Len(visited)
  OBVIOUS
<1>3. /\ \E T : w \in Seq(T)
      /\ l \in Nat /\ Len(w) = l + 1 /\ w[l + 1] = n
      /\ \A i \in 1 .. l : w[i] = visited[i]
  BY <1>1, <1>2, AddedFacts
<1>4. \A i \in 1 .. Len(w) : i \in 1 .. l \/ i = l + 1
  BY <1>3
<1>5. /\ \A i \in 1 .. l : visited[i] \in seen
      /\ \A i, j \in 1 .. l : visited[i] = visited[j] => i = j
  BY <1>2 DEF IInv, Noted, Distinct
<1>6. Noted(w, seen \union {n})
  BY <1>3, <1>4, <1>5 DEF Noted
<1>7. \A i \in 1 .. l : w[i] # n
  BY <1>3, <1>5
<1>8. Distinct(w)
  BY <1>3, <1>4, <1>5, <1>7 DEF Distinct
<1>. QED BY <1>3, <1>6, <1>8

-----------------------------------------------------------------------------
LEMMA InitInv == Init => IInv
<1>. SUFFICES ASSUME Init PROVE IInv
  OBVIOUS
<1>1. visited \in Seq({}) /\ Len(visited) = 0
  BY EmptySeq DEF Init
<1>. QED BY <1>1 DEF IInv, Noted, Distinct

LEMMA SameInv == ASSUME IInv, visited' = visited, seen' = seen PROVE IInv'
BY DEF IInv, Noted, Distinct

LEMMA KeyInv == ASSUME IInv, Key PROVE IInv'
<1>1. PICK n : n = At.name
  OBVIOUS
<1>2. seen' = seen \union {n}
  BY <1>1 DEF Key
<1>3. CASE n \notin seen /\ At.value
  <2>1. Added(visited, n, visited')
    BY <1>1, <1>3 DEF Key, Added
  <2>. QED BY <1>2, <1>3, <2>1, AddedKeeps DEF IInv
<1>4. CASE ~(n \notin seen /\ At.value)
  <2>1. visited' = visited
    BY <1>1, <1>4 DEF Key
  <2>. QED BY <1>2, <2>1 DEF IInv, Noted, Distinct
<1>. QED BY <1>3, <1>4

LEMMA NextInv == ASSUME IInv, [Next]_vars PROVE IInv'
<1>1. ASSUME Missing PROVE IInv'
  BY <1>1, SameInv DEF Missing
<1>2. ASSUME Key PROVE IInv'
  BY <1>2, KeyInv
<1>3. ASSUME End PROVE IInv'
  BY <1>3, SameInv DEF End
<1>4. ASSUME AddProperty PROVE IInv'
  BY <1>4, SameInv DEF AddProperty, iterator
<1>5. ASSUME DeleteProperty PROVE IInv'
  BY <1>5, SameInv DEF DeleteProperty, iterator
<1>6. ASSUME Continue PROVE IInv'
  BY <1>6, SameInv DEF Continue, iterator
<1>7. ASSUME UNCHANGED vars PROVE IInv'
  BY <1>7, SameInv DEF vars, iterator
<1>. QED BY <1>1, <1>2, <1>3, <1>4, <1>5, <1>6, <1>7 DEF Next

(* JsIterator::next never gives the body of a loop a name it has given it  *)
(* before, whatever the body adds to the table under it or deletes.        *)
THEOREM VisitsOnce == Spec => []VisitedOnce
<1>1. IInv => VisitedOnce
  <2>1. ASSUME NEW S, visited \in Seq(S) PROVE DOMAIN visited = 1 .. Len(visited)
    BY <2>1, LenProperties
  <2>. QED BY <2>1 DEF IInv, Distinct, VisitedOnce
<1>. QED BY InitInv, NextInv, <1>1, PTL DEF Spec

-----------------------------------------------------------------------------
(* The tables of the objects are sound, and what was found hidden was seen.*)
Tables ==
  /\ \E T : objs \in Seq(T)
  /\ Len(objs) >= 1 /\ \A i \in 1 .. Len(objs) : Sound(objs[i])
  /\ target \in 0 .. Len(objs) /\ offset \in Nat
  /\ hidden \subseteq seen

(* The properties given to an object at the start.                         *)
Filling(props, m, t) ==
  t = [k \in 0 .. m |-> IF k = 0 THEN EmptyTable(InitialSize)
                        ELSE AddName(t[k - 1], props[k].name, props[k].value)]

LEMMA FillingExists ==
  ASSUME NEW props, NEW n \in Nat
  PROVE  \E t : Filling(props, n, t)
<1>. DEFINE S == {m \in 0 .. n : \E t : Filling(props, m, t)}
            E == EmptyTable(InitialSize)
<1>1. 0 \in S
  <2>. DEFINE t == [k \in 0 .. 0 |-> E]
  <2>. HIDE DEF E
  <2>1. t = [k \in 0 .. 0 |->
              IF k = 0 THEN E ELSE AddName(t[k - 1], props[k].name, props[k].value)]
    <3>1. \A k \in 0 .. 0 : k = 0
      OBVIOUS
    <3>. QED BY <3>1
  <2>. HIDE DEF t
  <2>. QED BY <2>1 DEF Filling, E
<1>. HIDE DEF E
<1>2. ASSUME NEW m \in 0 .. n - 1, m \in S PROVE m + 1 \in S
  <2>1. PICK f : f = [k \in 0 .. m |->
                       IF k = 0 THEN E ELSE AddName(f[k - 1], props[k].name, props[k].value)]
    BY <1>2 DEF Filling, E
  <2>. DEFINE last == AddName(f[m], props[m + 1].name, props[m + 1].value)
              t == [k \in 0 .. m + 1 |-> IF k = m + 1 THEN last ELSE f[k]]
  <2>2. \A k \in 0 .. m + 1 : /\ k # m + 1 => k \in 0 .. m
                              /\ k # 0 => k - 1 \in 0 .. m + 1 /\ k - 1 # m + 1 /\ k - 1 \in 0 .. m
                              /\ k = m + 1 => k # 0 /\ k - 1 = m
    OBVIOUS
  <2>3. \A k \in 0 .. m + 1 :
          (IF k = m + 1 THEN last ELSE f[k])
            = IF k = 0 THEN E ELSE AddName(t[k - 1], props[k].name, props[k].value)
    <3>1. ASSUME NEW k \in 0 .. m + 1, k # 0 PROVE t[k - 1] = f[k - 1]
      BY <2>2, <3>1
    <3>. HIDE DEF t
    <3>2. ASSUME NEW k \in 0 .. m
          PROVE  f[k] = IF k = 0 THEN E ELSE AddName(f[k - 1], props[k].name, props[k].value)
      BY <2>1, <3>2
    <3>. QED BY <2>2, <3>1, <3>2
  <2>4. t = [k \in 0 .. m + 1 |->
              IF k = 0 THEN E ELSE AddName(t[k - 1], props[k].name, props[k].value)]
    <3>. HIDE DEF last
    <3>. QED BY <2>3
  <2>5. m + 1 \in 0 .. n
    OBVIOUS
  <2>. HIDE DEF t
  <2>. QED BY <2>4, <2>5 DEF Filling, E
<1>. HIDE DEF S
<1>3. \A m \in 0 .. n : m \in S
  BY <1>1, <1>2, UpInduction
<1>4. n \in 0 .. n
  OBVIOUS
<1>. QED BY <1>3, <1>4 DEF S

LEMMA FilledSound ==
  ASSUME NEW i \in DOMAIN Start
  PROVE  /\ Sound(Filled(Start[i]))
         /\ \A m \in Nat : \A v : Tells(Filled(Start[i]), m, v) <=>
              \E j \in DOMAIN Start[i] : Start[i][j].name = m /\ Start[i][j].value = v
<1>1. PICK props, n : props = Start[i] /\ n = Len(props)
  OBVIOUS
<1>2. /\ n \in Nat
      /\ \A k \in 1 .. n : props[k].name \in Nat /\ props[k].value \in BOOLEAN
      /\ \A j, k \in 1 .. n : props[j].name = props[k].name => j = k
      /\ DOMAIN props = 1 .. n
  <2>1. props \in Seq([name : Names, value : BOOLEAN])
    BY <1>1, StartAssumption
  <2>2. n \in Nat /\ DOMAIN props = 1 .. n /\ props \in [1 .. n -> [name : Names, value : BOOLEAN]]
    BY <1>1, <2>1, LenProperties
  <2>3. \A k \in 1 .. n : props[k].name \in Nat /\ props[k].value \in BOOLEAN
    BY <2>2, NamesAssumption
  <2>4. \A j, k \in 1 .. n : props[j].name = props[k].name => j = k
    BY <1>1, <2>2, StartAssumption
  <2>. QED BY <2>2, <2>3, <2>4
<1>3. PICK t : t = CHOOSE f : Filling(props, n, f)
  OBVIOUS
<1>4. Filled(props) = t[n]
  BY <1>1, <1>3 DEF Filled, Filling
<1>5. Filling(props, n, t)
  BY <1>2, <1>3, FillingExists
<1>6. \A k \in 0 .. n : t[k] = IF k = 0 THEN EmptyTable(InitialSize)
                               ELSE AddName(t[k - 1], props[k].name, props[k].value)
  BY <1>5, Zenon DEF Filling
<1>. DEFINE S == {k \in 0 .. n : /\ Sound(t[k])
                                 /\ \A m \in Nat : \A v : Tells(t[k], m, v) <=>
                                      \E j \in 1 .. n : /\ j <= k
                                                        /\ props[j].name = m /\ props[j].value = v}
<1>7. 0 \in S
  <2>1. 0 \in 0 .. n /\ \A j \in 1 .. n : ~(j <= 0)
    BY <1>2
  <2>2. t[0] = EmptyTable(InitialSize)
    BY <1>6, <2>1
  <2>3. Sound(t[0]) /\ \A m \in Nat : ~Has(t[0], m)
    BY <2>2, EmptyFacts, NamesAssumption
  <2>4. \A m \in Nat : \A v : ~Tells(t[0], m, v)
    BY <2>3 DEF Tells
  <2>. QED BY <2>1, <2>3, <2>4
<1>8. ASSUME NEW k \in 0 .. n - 1, k \in S PROVE k + 1 \in S
  <2>1. /\ k + 1 \in 0 .. n /\ k + 1 # 0 /\ (k + 1) - 1 = k /\ k + 1 \in 1 .. n
        /\ \A j \in 1 .. n : j <= k + 1 <=> (j <= k \/ j = k + 1)
        /\ ~(k + 1 <= k)
    BY <1>2
  <2>2. PICK name, value, a, u :
          /\ name = props[k + 1].name /\ value = props[k + 1].value
          /\ a = t[k] /\ u = AddName(a, name, value)
    OBVIOUS
  <2>3. t[k + 1] = u
    BY <1>6, <2>1, <2>2
  <2>4. /\ name \in Nat /\ value \in BOOLEAN /\ Sound(a)
        /\ \A m \in Nat : \A v : Tells(a, m, v) <=>
             \E j \in 1 .. n : j <= k /\ props[j].name = m /\ props[j].value = v
    BY <1>2, <1>8, <2>1, <2>2
  <2>5. ~Has(a, name)
    <3>1. ASSUME Has(a, name) PROVE FALSE
      <4>1. Tells(a, name, EntryOf(a, name).value)
        BY <3>1 DEF Tells
      <4>2. PICK j \in 1 .. n : j <= k /\ props[j].name = name
        BY <2>4, <4>1
      <4>3. j = k + 1
        BY <1>2, <2>1, <2>2, <4>2
      <4>. QED BY <2>1, <4>2, <4>3
    <3>. QED BY <3>1
  <2>6. /\ Sound(u)
        /\ \A m \in Nat : \A v : Tells(u, m, v) <=> (m = name /\ v = value) \/ Tells(a, m, v)
    <3>. HIDE DEF S
    <3>1. /\ Sound(AddName(a, name, value))
          /\ \A m \in Nat : \A v : Tells(AddName(a, name, value), m, v)
                                     <=> (m = name /\ v = value) \/ Tells(a, m, v)
      BY <2>4, <2>5, AddFacts
    <3>. QED BY <2>2, <3>1
  <2>7. ASSUME NEW m \in Nat, NEW v
        PROVE  Tells(u, m, v) <=>
                 \E j \in 1 .. n : j <= k + 1 /\ props[j].name = m /\ props[j].value = v
    BY <2>1, <2>2, <2>4, <2>6
  <2>. QED BY <2>1, <2>3, <2>6, <2>7
<1>. HIDE DEF S
<1>9. n \in S
  <2>1. \A k \in 0 .. n : k \in S
    BY <1>2, <1>7, <1>8, UpInduction
  <2>. QED BY <1>2, <2>1
<1>10. \A j \in 1 .. n : j <= n
  BY <1>2
<1>. QED BY <1>1, <1>2, <1>4, <1>9, <1>10 DEF S

LEMMA InitTables == Init => Tables
<1>. SUFFICES ASSUME Init PROVE Tables
  OBVIOUS
<1>1. PICK l : l = Len(Start)
  OBVIOUS
<1>2. l \in Nat /\ l >= 1 /\ DOMAIN Start = 1 .. l
  <2>1. Start \in Seq(Seq([name : Names, value : BOOLEAN])) /\ Len(Start) >= 1
    BY StartAssumption
  <2>. QED BY <1>1, <2>1, LenProperties
<1>3. PICK T : T = {Filled(Start[i]) : i \in 1 .. l}
  OBVIOUS
<1>4. objs = [i \in 1 .. l |-> Filled(Start[i])]
  BY <1>2 DEF Init
<1>5. objs \in [1 .. l -> T] /\ \A i \in 1 .. l : objs[i] = Filled(Start[i])
  BY <1>3, <1>4
<1>6. objs \in Seq(T) /\ Len(objs) = l
  <2>1. objs \in Seq(T)
    BY <1>2, <1>5, SeqDef
  <2>2. DOMAIN objs = 1 .. Len(objs) /\ Len(objs) \in Nat
    BY <2>1, LenProperties
  <2>3. 1 .. l = 1 .. Len(objs)
    BY <1>5, <2>2
  <2>4. PICK m \in Nat : m = Len(objs) /\ 1 .. l = 1 .. m
    BY <2>2, <2>3
  <2>5. 1 \in 1 .. m /\ l \in 1 .. m
    BY <1>2, <2>4
  <2>6. m \in 1 .. l
    BY <2>4, <2>5
  <2>7. m = l
    BY <1>2, <2>5, <2>6
  <2>. QED BY <2>1, <2>4, <2>7
<1>7. \A i \in 1 .. l : Sound(objs[i])
  BY <1>2, <1>5, FilledSound
<1>8. target = 1 /\ offset = 0 /\ seen = {} /\ hidden = {}
  BY DEF Init
<1>. QED BY <1>2, <1>6, <1>7, <1>8 DEF Tables

(* The body has changed the table of the object.                           *)
LEMMA BodyTables ==
  ASSUME Tables, NEW u, Sound(u), objs' = [objs EXCEPT ![1] = u],
         target' = target, offset' = offset, hidden' = hidden, seen' = seen
  PROVE  Tables'
<1>1. PICK T : objs \in Seq(T)
  BY DEF Tables
<1>2. PICK l : l = Len(objs)
  OBVIOUS
<1>. DEFINE R == T \union {u}
<1>3. objs \in Seq(R) /\ u \in R
  <2>1. T \subseteq R /\ u \in R
    OBVIOUS
  <2>. HIDE DEF R
  <2>. QED BY <1>1, <2>1, SeqMonotonic
<1>. HIDE DEF R
<1>4. 1 \in 1 .. l /\ l \in Nat
  <2>1. l \in Nat /\ l >= 1
    BY <1>1, <1>2, LenProperties DEF Tables
  <2>. QED BY <2>1
<1>5. /\ [objs EXCEPT ![1] = u] \in Seq(R) /\ Len([objs EXCEPT ![1] = u]) = l
      /\ \A j \in 1 .. l : [objs EXCEPT ![1] = u][j] = IF j = 1 THEN u ELSE objs[j]
  BY <1>2, <1>3, <1>4, ExceptSeq
<1>6. /\ objs' \in Seq(R) /\ Len(objs') = l
      /\ \A j \in 1 .. l : objs'[j] = IF j = 1 THEN u ELSE objs[j]
  BY <1>5
<1>7. l >= 1 /\ \A i \in 1 .. l : Sound(objs[i])
  BY <1>2 DEF Tables
<1>. QED BY <1>2, <1>6, <1>7 DEF Tables

LEMMA NextTables == ASSUME Tables, [Next]_vars PROVE Tables'
<1>1. PICK T : objs \in Seq(T)
  BY DEF Tables
<1>2. Len(objs) \in Nat /\ offset \in Nat /\ offset + 1 \in Nat
  <2>1. Len(objs) \in Nat
    BY <1>1, LenProperties
  <2>. QED BY <2>1 DEF Tables
<1>3. 1 \in 1 .. Len(objs) /\ Sound(objs[1])
  <2>1. 1 \in 1 .. Len(objs)
    BY <1>2 DEF Tables
  <2>. QED BY <2>1 DEF Tables
<1>4. ASSUME Missing PROVE Tables'
  BY <1>2, <1>4 DEF Missing, Tables
<1>5. ASSUME Key PROVE Tables'
  <2>1. UNCHANGED <<objs, target>> /\ offset' = offset + 1
    BY <1>5 DEF Key
  <2>2. hidden' \subseteq seen'
    BY <1>5 DEF Key, Tables
  <2>. QED BY <1>2, <2>1, <2>2 DEF Tables
<1>6. ASSUME End PROVE Tables'
  <2>1. UNCHANGED <<objs, seen, hidden>> /\ offset' = 0
    BY <1>6 DEF End
  <2>2. target' = 0 \/ (target < Len(objs) /\ target' = target + 1)
    BY <1>6 DEF End
  <2>3. target' \in 0 .. Len(objs)
    BY <1>2, <2>2 DEF Tables
  <2>. QED BY <2>1, <2>3 DEF Tables
<1>7. ASSUME AddProperty PROVE Tables'
  <2>1. PICK n \in Names, v \in BOOLEAN :
          ~Has(objs[1], n) /\ objs' = [objs EXCEPT ![1] = AddName(objs[1], n, v)]
    BY <1>7 DEF AddProperty
  <2>2. PICK u : u = AddName(objs[1], n, v)
    OBVIOUS
  <2>3. Sound(u)
    <3>1. n \in Nat
      BY NamesAssumption
    <3>. QED BY <1>3, <2>1, <2>2, <3>1, AddFacts
  <2>4. objs' = [objs EXCEPT ![1] = u]
    BY <2>1, <2>2
  <2>5. target' = target /\ offset' = offset /\ hidden' = hidden /\ seen' = seen
    BY <1>7 DEF AddProperty, iterator
  <2>. QED BY <2>3, <2>4, <2>5, BodyTables
<1>8. ASSUME DeleteProperty PROVE Tables'
  <2>1. PICK n \in Names :
          Has(objs[1], n) /\ objs' = [objs EXCEPT ![1] = RemoveName(objs[1], n)]
    BY <1>8 DEF DeleteProperty
  <2>2. PICK u : u = RemoveName(objs[1], n)
    OBVIOUS
  <2>3. Sound(u)
    <3>1. n \in Nat
      BY NamesAssumption
    <3>. QED BY <1>3, <2>1, <2>2, <3>1, RemoveFacts
  <2>4. objs' = [objs EXCEPT ![1] = u]
    BY <2>1, <2>2
  <2>5. target' = target /\ offset' = offset /\ hidden' = hidden /\ seen' = seen
    BY <1>8 DEF DeleteProperty, iterator
  <2>. QED BY <2>3, <2>4, <2>5, BodyTables
<1>9. ASSUME Continue PROVE Tables'
  BY <1>9 DEF Continue, iterator, Tables
<1>10. ASSUME UNCHANGED vars PROVE Tables'
  BY <1>10 DEF vars, iterator, Tables
<1>. QED BY <1>4, <1>5, <1>6, <1>7, <1>8, <1>9, <1>10 DEF Next

-----------------------------------------------------------------------------
(* get_key finds at an offset what get finds under the name there.         *)
LEMMA KeyIsThere ==
  ASSUME NEW t, Sound(t), NEW i \in Nat, i < Size(t), t.entries[i].valid
  PROVE  /\ t.entries[i].name \in Nat
         /\ Has(t, t.entries[i].name) /\ EntryOf(t, t.entries[i].name) = t.entries[i]
<1>1. PICK n, d : Linked(t, n, d)
  BY DEF Sound
<1>2. Size(t) = n /\ n \in Nat
  BY <1>1, LinkedFacts, SizeFacts
<1>3. i \in Used(t, n)
  BY <1>2 DEF Used
<1>4. t.entries[i].name \in Nat
  BY <1>1, <1>3, LinkedFacts
<1>. QED BY <1>1, <1>3, <1>4, HasIs

LEMMA KeyVisits ==
  ASSUME IInv, Tables, Key, visited' # visited
  PROVE  /\ Has(objs[target], Visiting) /\ EntryOf(objs[target], Visiting).value
         /\ Visiting \notin hidden
<1>1. PICK t : t = objs[target]
  OBVIOUS
<1>2. Sound(t)
  <2>1. PICK T : objs \in Seq(T)
    BY DEF Tables
  <2>2. Len(objs) \in Nat /\ target \in 0 .. Len(objs) /\ target # 0
    BY <2>1, LenProperties DEF Tables, Key, InNext
  <2>3. target \in 1 .. Len(objs)
    BY <2>2
  <2>. QED BY <1>1, <2>3 DEF Tables
<1>3. PICK e : e = t.entries[offset]
  OBVIOUS
<1>4. At = e
  BY <1>1, <1>3 DEF At
<1>5. /\ e.valid /\ e.value /\ e.name \notin seen
      /\ visited' = Append(visited, e.name)
  BY <1>4 DEF Key
<1>6. ~AtEnd
  BY DEF Key
<1>7. offset \in Nat /\ offset < Size(t)
  <2>1. offset \in Nat /\ ~(offset >= Size(t))
    BY <1>1, <1>6 DEF AtEnd, Tables
  <2>2. Size(t) \in Nat
    <3>1. PICK n, d : Linked(t, n, d)
      BY <1>2 DEF Sound
    <3>. QED BY <3>1, LinkedFacts, SizeFacts
  <2>. QED BY <2>1, <2>2
<1>8. Has(t, e.name) /\ EntryOf(t, e.name) = e
  BY <1>2, <1>3, <1>5, <1>7, KeyIsThere
<1>9. Visiting = e.name
  <2>1. PICK S : visited \in Seq(S)
    BY DEF IInv
  <2>2. Added(visited, e.name, visited')
    BY <1>5 DEF Added
  <2>3. Len(visited') = Len(visited) + 1 /\ visited'[Len(visited) + 1] = e.name
    BY <2>1, <2>2, AddedFacts
  <2>. QED BY <2>3 DEF Visiting
<1>10. e.name \notin hidden
  BY <1>5 DEF Tables
<1>. QED BY <1>1, <1>5, <1>8, <1>9, <1>10

(* JsIterator::next gives the body only names of properties that the       *)
(* object it has come to has then, that are enumerable there, and that no  *)
(* property it found not to be enumerable shadows.                         *)
THEOREM VisitsThere == Spec => VisitsWhatIsThere
<1>1. ASSUME IInv, Tables, [Next]_vars
      PROVE  [visited' # visited =>
               /\ Has(objs[target], Visiting) /\ EntryOf(objs[target], Visiting).value
               /\ Visiting \notin hidden]_vars
  <2>1. CASE Key
    BY <1>1, <2>1, KeyVisits
  <2>2. CASE ~Key
    <3>1. visited' = visited
      BY <1>1, <2>2 DEF Next, Missing, End, AddProperty, DeleteProperty, Continue, vars
    <3>. QED BY <3>1
  <2>. QED BY <2>1, <2>2
<1>2. Spec => [](IInv /\ Tables)
  BY InitInv, NextInv, InitTables, NextTables, PTL DEF Spec
<1>. QED BY <1>1, <1>2, PTL DEF Spec, VisitsWhatIsThere

-----------------------------------------------------------------------------
(* What the object had at the start was visited or is ahead.               *)
Ahead(m) ==
  /\ target = 1 /\ m \notin seen
  /\ \E i \in Nat : /\ offset <= i /\ i < Size(objs[1]) /\ objs[1].entries[i].valid
                    /\ objs[1].entries[i].name = m /\ objs[1].entries[i].value

AllInv ==
  /\ pc = "done" => target = 0
  /\ \A m \in kept : Ahead(m) \/ \E k \in DOMAIN visited : visited[k] = m

LEMMA ThereIsKey ==
  ASSUME NEW t, Sound(t), NEW m \in Nat, NEW v, Tells(t, m, v)
  PROVE  \E i \in Nat : /\ i < Size(t) /\ t.entries[i].valid
                        /\ t.entries[i].name = m /\ t.entries[i].value = v
<1>1. PICK n, d : Linked(t, n, d)
  BY DEF Sound
<1>2. Size(t) = n /\ n \in Nat
  BY <1>1, LinkedFacts, SizeFacts
<1>3. PICK i \in Used(t, n) : t.entries[i].name = m /\ t.entries[i].value = v
  BY <1>1, TellsIs DEF Holds
<1>4. i \in Nat /\ i < n /\ t.entries[i].valid
  BY <1>2, <1>3 DEF Used
<1>. QED BY <1>2, <1>3, <1>4

LEMMA OneKey ==
  ASSUME NEW t, Sound(t), NEW i \in Nat, i < Size(t), t.entries[i].valid,
         NEW j \in Nat, j < Size(t), t.entries[j].valid, t.entries[i].name = t.entries[j].name
  PROVE  i = j
<1>1. PICK n, d : Linked(t, n, d)
  BY DEF Sound
<1>2. Size(t) = n /\ n \in Nat
  BY <1>1, LinkedFacts, SizeFacts
<1>3. i \in Used(t, n) /\ j \in Used(t, n)
  BY <1>2 DEF Used
<1>. QED BY <1>1, <1>3 DEF Linked

LEMMA InitAll == Init => AllInv
<1>. SUFFICES ASSUME Init PROVE AllInv
  OBVIOUS
<1>1. /\ pc = "next" /\ target = 1 /\ offset = 0 /\ seen = {}
      /\ kept = {Start[1][k].name : k \in {j \in DOMAIN Start[1] : Start[1][j].value}}
      /\ objs = [i \in DOMAIN Start |-> Filled(Start[i])]
  BY DEF Init
<1>2. /\ 1 \in DOMAIN Start
      /\ \A k \in DOMAIN Start[1] : Start[1][k].name \in Nat /\ Start[1][k].value \in BOOLEAN
  <2>1. Start \in Seq(Seq([name : Names, value : BOOLEAN])) /\ Len(Start) >= 1
    BY StartAssumption
  <2>2. 1 \in 1 .. Len(Start) /\ DOMAIN Start = 1 .. Len(Start)
    BY <2>1, LenProperties
  <2>3. Start[1] \in Seq([name : Names, value : BOOLEAN])
    BY <2>1, <2>2, ElementOfSeq
  <2>4. /\ DOMAIN Start[1] = 1 .. Len(Start[1])
        /\ \A k \in 1 .. Len(Start[1]) : Start[1][k] \in [name : Names, value : BOOLEAN]
    BY <2>3, LenProperties, ElementOfSeq
  <2>. QED BY <2>2, <2>4, NamesAssumption
<1>3. PICK t : t = Filled(Start[1])
  OBVIOUS
<1>4. objs[1] = t
  BY <1>1, <1>2, <1>3
<1>5. /\ Sound(t)
      /\ \A m \in Nat : \A v : Tells(t, m, v) <=>
           \E j \in DOMAIN Start[1] : Start[1][j].name = m /\ Start[1][j].value = v
  BY <1>2, <1>3, FilledSound
<1>6. ASSUME NEW m \in kept PROVE Ahead(m)
  <2>1. PICK k \in DOMAIN Start[1] : m = Start[1][k].name /\ Start[1][k].value
    BY <1>1
  <2>. DEFINE v == Start[1][k].value
  <2>2. m \in Nat /\ Tells(t, m, v)
    BY <1>2, <1>5, <2>1
  <2>3. PICK i \in Nat :
          i < Size(t) /\ t.entries[i].valid /\ t.entries[i].name = m /\ t.entries[i].value
    <3>1. v
      BY <2>1
    <3>. HIDE DEF v
    <3>2. \E i \in Nat : /\ i < Size(t) /\ t.entries[i].valid
                         /\ t.entries[i].name = m /\ t.entries[i].value = v
      BY <1>5, <2>2, ThereIsKey
    <3>. QED BY <3>1, <3>2
  <2>4. offset <= i
    BY <1>1
  <2>. QED BY <1>1, <1>4, <2>3, <2>4 DEF Ahead
<1>. QED BY <1>1, <1>6 DEF AllInv

LEMMA KeyAll == ASSUME IInv, Tables, AllInv, Key PROVE AllInv'
<1>1. PICK n : n = At.name
  OBVIOUS
<1>2. /\ pc = "next" /\ pc' \in {"next", "body"} /\ ~AtEnd /\ At.valid
      /\ offset' = offset + 1 /\ seen' = seen \union {n}
      /\ UNCHANGED <<objs, target, kept>>
  BY <1>1 DEF Key, InNext
<1>3. PICK S : visited \in Seq(S)
  BY DEF IInv
<1>4. PICK l : l = Len(visited)
  OBVIOUS
<1>5. l \in Nat /\ DOMAIN visited = 1 .. l
  BY <1>3, <1>4, LenProperties
<1>6. n \notin seen /\ At.value =>
        /\ DOMAIN visited' = 1 .. l + 1 /\ visited'[l + 1] = n
        /\ \A k \in 1 .. l : visited'[k] = visited[k]
  <2>1. ASSUME n \notin seen, At.value PROVE Added(visited, n, visited')
    BY <1>1, <2>1 DEF Key, Added
  <2>2. ASSUME Added(visited, n, visited')
        PROVE  /\ DOMAIN visited' = 1 .. l + 1 /\ visited'[l + 1] = n
               /\ \A k \in 1 .. l : visited'[k] = visited[k]
    <3>1. /\ \E T : visited' \in Seq(T)
          /\ Len(visited') = l + 1 /\ visited'[l + 1] = n
          /\ \A k \in 1 .. l : visited'[k] = visited[k]
      BY <1>3, <1>4, <2>2, AddedFacts
    <3>. QED BY <3>1, LenProperties
  <2>. QED BY <2>1, <2>2
<1>7. ~(n \notin seen /\ At.value) => visited' = visited
  BY <1>1 DEF Key
<1>8. ASSUME NEW m, NEW k \in DOMAIN visited, visited[k] = m
      PROVE  \E j \in DOMAIN visited' : visited'[j] = m
  <2>1. CASE n \notin seen /\ At.value
    <3>1. k \in 1 .. l + 1 /\ k \in 1 .. l
      BY <1>5, <1>8
    <3>. QED BY <1>6, <1>8, <2>1, <3>1
  <2>2. CASE ~(n \notin seen /\ At.value)
    BY <1>7, <1>8, <2>2
  <2>. QED BY <2>1, <2>2
<1>9. ASSUME NEW m \in kept, Ahead(m)
      PROVE  Ahead(m)' \/ \E j \in DOMAIN visited' : visited'[j] = m
  <2>1. PICK t : t = objs[1]
    OBVIOUS
  <2>2. PICK i \in Nat : /\ offset <= i /\ i < Size(t) /\ t.entries[i].valid
                         /\ t.entries[i].name = m /\ t.entries[i].value
    BY <1>9, <2>1 DEF Ahead
  <2>3. target = 1 /\ m \notin seen /\ At = t.entries[offset]
    BY <1>9, <2>1 DEF Ahead, At
  <2>4. CASE i = offset
    <3>1. n = m /\ n \notin seen /\ At.value
      BY <1>1, <2>2, <2>3, <2>4
    <3>2. l + 1 \in 1 .. l + 1
      BY <1>5
    <3>. QED BY <1>6, <3>1, <3>2
  <2>5. CASE i # offset
    <3>1. offset \in Nat
      BY DEF Tables
    <3>2. Sound(t)
      <4>1. PICK T : objs \in Seq(T)
        BY DEF Tables
      <4>2. 1 \in 1 .. Len(objs)
        BY <4>1, LenProperties DEF Tables
      <4>. QED BY <2>1, <4>2 DEF Tables
    <3>3. n # m
      <4>1. ASSUME n = m PROVE FALSE
        <5>1. Size(t) \in Nat
          <6>1. PICK p, d : Linked(t, p, d)
            BY <3>2 DEF Sound
          <6>. QED BY <6>1, LinkedFacts, SizeFacts
        <5>2. offset < Size(t)
          BY <2>2, <3>1, <5>1
        <5>3. i = offset
          BY <1>1, <1>2, <2>2, <2>3, <3>1, <3>2, <4>1, <5>2, OneKey
        <5>. QED BY <2>5, <5>3
      <4>. QED BY <4>1
    <3>4. offset + 1 <= i
      BY <2>2, <2>5, <3>1
    <3>. QED BY <1>2, <2>1, <2>2, <2>3, <3>3, <3>4 DEF Ahead
  <2>. QED BY <2>4, <2>5
<1>10. \A m \in kept' : Ahead(m)' \/ \E j \in DOMAIN visited' : visited'[j] = m
  BY <1>2, <1>8, <1>9 DEF AllInv
<1>. QED BY <1>2, <1>10 DEF AllInv

LEMMA NextAll == ASSUME IInv, Tables, AllInv, [Next]_vars PROVE AllInv'
<1>1. ASSUME Missing PROVE AllInv'
  <2>1. /\ pc = "next" /\ ~At.valid /\ offset' = offset + 1 /\ offset \in Nat
        /\ UNCHANGED <<objs, target, seen, pc, visited, kept>>
    BY <1>1 DEF Missing, InNext, Tables
  <2>2. ASSUME NEW m \in kept, Ahead(m) PROVE Ahead(m)'
    <3>1. PICK i \in Nat : /\ offset <= i /\ i < Size(objs[1]) /\ objs[1].entries[i].valid
                           /\ objs[1].entries[i].name = m /\ objs[1].entries[i].value
      BY <2>2 DEF Ahead
    <3>2. target = 1 /\ At = objs[1].entries[offset]
      BY <2>2 DEF Ahead, At
    <3>3. offset + 1 <= i
      BY <2>1, <3>1, <3>2
    <3>. QED BY <2>1, <2>2, <3>1, <3>3 DEF Ahead
  <2>. QED BY <2>1, <2>2 DEF AllInv
<1>2. ASSUME Key PROVE AllInv'
  BY <1>2, KeyAll
<1>3. ASSUME End PROVE AllInv'
  <2>1. /\ UNCHANGED <<objs, seen, visited, kept>> /\ AtEnd
        /\ pc' = "done" => target' = 0
    BY <1>3 DEF End, InNext
  <2>2. ASSUME NEW m \in kept, Ahead(m) PROVE FALSE
    <3>1. PICK i \in Nat : offset <= i /\ i < Size(objs[1])
      BY <2>2 DEF Ahead
    <3>2. offset >= Size(objs[1]) /\ offset \in Nat
      BY <2>1, <2>2 DEF Ahead, AtEnd, Tables
    <3>3. Size(objs[1]) \in Nat
      <4>1. PICK T : objs \in Seq(T)
        BY DEF Tables
      <4>2. 1 \in 1 .. Len(objs)
        BY <4>1, LenProperties DEF Tables
      <4>3. PICK p, d : Linked(objs[1], p, d)
        BY <4>2 DEF Tables, Sound
      <4>. QED BY <4>3, LinkedFacts, SizeFacts
    <3>. QED BY <3>1, <3>2, <3>3
  <2>. QED BY <2>1, <2>2 DEF AllInv
<1>4. ASSUME AddProperty PROVE AllInv'
  BY <1>4 DEF AddProperty, InBody, AllInv
<1>5. ASSUME DeleteProperty PROVE AllInv'
  BY <1>5 DEF DeleteProperty, InBody, AllInv
<1>6. ASSUME Continue PROVE AllInv'
  BY <1>6 DEF Continue, iterator, AllInv, Ahead
<1>7. ASSUME UNCHANGED vars PROVE AllInv'
  BY <1>7 DEF vars, iterator, AllInv, Ahead
<1>. QED BY <1>1, <1>2, <1>3, <1>4, <1>5, <1>6, <1>7 DEF Next

(* When the loop ends and the body has added and deleted nothing, it has   *)
(* run for every enumerable property of the object: whatever the places    *)
(* the properties have in the table, the walk of get_key over its offsets  *)
(* misses none, and none is taken for one it has seen.                     *)
THEOREM MissesNone == Spec => []VisitsAll
<1>1. Spec => [](IInv /\ Tables /\ AllInv)
  BY InitInv, NextInv, InitTables, NextTables, InitAll, NextAll, PTL DEF Spec
<1>2. IInv /\ Tables /\ AllInv => VisitsAll
  <2>1. ASSUME NEW m, Ahead(m), target = 0 PROVE FALSE
    BY <2>1 DEF Ahead
  <2>. QED BY <2>1 DEF AllInv, VisitsAll
<1>. QED BY <1>1, <1>2, PTL
=============================================================================

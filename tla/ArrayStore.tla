----------------------------- MODULE ArrayStore -----------------------------
(***************************************************************************)
(* The properties of an array (rt/object/array_store.rs): the indexes in a *)
(* SparseArray, all other names in a HashStore.  An offset of get_key, at  *)
(* which an iterator stands, is a position of the first as long as it is   *)
(* below its capacity, and one of the second beyond.                       *)
(***************************************************************************)
EXTENDS SparseArray, HashStore, Sequences

CONSTANT
  MixedCount               \* bound on the properties where both stores are written

VARIABLE
  using                    \* what the program writes: "elements", "names" or "both"

storeVars == <<vars, table, using>>

Index(i) == <<"index", i>>
Name(n) == <<"name", n>>

Present(a, t) ==
  {Index(i) : i \in {j \in Indexes : GetValue(a, j) # Missing}}
    \cup {Name(n) : n \in {m \in Names : Has(t, m)}}

WriteElement ==
  /\ using # "names"
  /\ Next
  /\ UNCHANGED <<table, using>>

WriteName ==
  /\ using # "elements"
  /\ TableNext
  /\ UNCHANGED <<vars, using>>

StoreInit ==
  /\ Init /\ TableInit
  /\ using \in {"elements", "names", "both"}

Mixed == using = "both" => Cardinality(Present(array, table)) <= MixedCount

StoreNext == (WriteElement \/ WriteName) /\ Mixed'

StoreSpec == StoreInit /\ [][StoreNext]_storeVars

-----------------------------------------------------------------------------
\* What the searches of both stores take for granted and do not check: the
\* chunks are sorted, the chains of the table are those of one hash and end,
\* and a scan for a free entry finds one.
Represented == Sorted /\ Chains /\ Counts

\* get_key: the name at an offset, if there is one.
KeyAt(a, t, offset) ==
  LET count == Capacity(a) IN
  IF offset < count
  THEN IF KeyEntry(a, offset) = Missing THEN {} ELSE {Index(KeyName(a, offset))}
  ELSE IF t.entries[offset - count].valid THEN {Name(t.entries[offset - count].name)} ELSE {}

\* The first offset at which get_key says End.
EndOf(a, t) == Capacity(a) + Cardinality(DOMAIN t.entries)

\* All that get_key answers, as pairs of an offset and a name.
Keys(a, t) == UNION {{<<p, key>> : key \in KeyAt(a, t, p)} : p \in 0 .. EndOf(a, t) - 1}

\* get_key names, over all offsets to the end, each property once: the indexes
\* in ascending order (the order in which a shorter length deletes them),
\* whatever representation the elements have.
EachKeyOnce ==
  LET keys == Keys(array, table) IN
  /\ {k[2] : k \in keys} = Present(array, table)
  /\ \A k, l \in keys : k[1] < l[1] =>
       /\ k[2] # l[2]
       /\ k[2][1] = "index" /\ l[2][1] = "index" => k[2][2] < l[2][2]

\* iterator.rs keeps an offset while the body of a for-in writes elements: the
\* array grows, goes over to chunks, and chunks are inserted, but no property
\* that stays comes to lie at a lower offset than before, where the iterator
\* would miss it.
NeverBack ==
  [][array' # array =>
       LET keys == Keys(array, table)
           after == Keys(array', table')
       IN \A k \in keys, l \in after : k[2] = l[2] => k[1] <= l[1]
    ]_storeVars

\* What is read under a name or an index is what was last written there: no
\* growth, relocation, transfer or insertion loses an entry or gives it to
\* another.
AllNames == {Index(i) : i \in Indexes} \cup {Name(n) : n \in Names}
AllContents ==
  [key \in AllNames |-> IF key[1] = "index" THEN GetValue(array, key[2])
                          ELSE IF Has(table, key[2]) THEN EntryOf(table, key[2]).value
                          ELSE Missing]
Object == INSTANCE PropertyMap
  WITH Names <- AllNames, Values <- BOOLEAN, Absent <- Missing, props <- AllContents
ReadsWhatWasWritten ==
  /\ Object!Init
  /\ [][<<array, table>>' # <<array, table>> => [Object!Next]_AllContents]_storeVars
=============================================================================

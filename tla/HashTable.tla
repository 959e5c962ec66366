------------------------------ MODULE HashTable ------------------------------
(***************************************************************************)
(* The entries of a HashStore (rt/object/hash_store.rs): a coalesced hash  *)
(* table.  The entries of one hash form a chain that begins at their ideal *)
(* position; an entry that stands in a later one's ideal position is moved.*)
(* A name is its number; a descriptor is its enumerable flag.              *)
(***************************************************************************)
EXTENDS Integers, FiniteSets

CONSTANTS
  Names,        \* the values of the names in use (Name::value)
  InitialSize   \* the argument of the first get_prime (20 in the code)

ASSUME NamesAssumption == Names \subseteq Nat /\ InitialSize \in Nat

Entry(name, value, next) == [valid |-> TRUE, name |-> name, value |-> value, next |-> next]

\* Entry::empty, and every entry of a fresh array: all bits are 0.
Empty == [valid |-> FALSE, name |-> 0, value |-> FALSE, next |-> 0]

Primes ==
  {3, 7, 11, 17, 23, 29, 37, 47, 59, 71, 89, 107, 131, 163, 197, 239, 293, 353, 431, 521,
   631, 761, 919, 1103, 1327, 1597, 1931, 2333, 2801, 3371, 4049, 4861, 5839, 7013, 8419,
   10103, 12143, 14591, 17519, 21023, 25229, 30293, 36353, 43627, 52361, 62851, 75431,
   90523, 108631, 130363, 156437, 187751, 225307, 270371, 324449, 389357, 467237, 560689,
   672827, 807403, 968897, 1162687, 1395263, 1674319, 2009191, 2411033, 2893249, 3471899,
   4166287, 4999559, 5999471, 7199369}
IsOddPrime(n) == n % 2 = 1 /\ \A d \in 3 .. n - 1 : n % d # 0
Least(S) == CHOOSE p \in S : \A q \in S : p <= q

\* From the list, or the next odd prime; the minimum itself when there is none.
GetPrime(minimum) ==
  LET listed == {p \in Primes : p >= minimum}
      others == {p \in minimum .. 2^32 - 2 : IsOddPrime(p)}
  IN IF listed # {} THEN Least(listed)
     ELSE IF others # {} THEN Least(others) ELSE minimum

EmptyTable(minimum) == [entries |-> [i \in 0 .. GetPrime(minimum) - 1 |-> Empty], count |-> 0]

Size(t) == Cardinality(DOMAIN t.entries)
Hash(t, name) == name % Size(t)
MaxLoadFactor(t) == (Size(t) * 7) \div 10
Put(t, offset, entry) == [t EXCEPT !.entries[offset] = entry]
Counted(t, n) == [t EXCEPT !.count = @ + n]

NextOf(t, offset) == IF offset = -1 THEN -1 ELSE t.entries[offset].next

\* The offsets that following next from the ideal position of a name visits.
Chain(t, name) ==
  LET at[k \in 0 .. t.count] ==
        IF k = 0 THEN Hash(t, name) ELSE NextOf(t, at[k - 1])
  IN {at[k] : k \in DOMAIN at} \ {-1}

\* find_entry
Found(t, name) ==
  IF t.entries[Hash(t, name)].valid
  THEN {i \in Chain(t, name) : t.entries[i].name = name}
  ELSE {}
Has(t, name) == Found(t, name) # {}
EntryOf(t, name) == t.entries[CHOOSE i \in Found(t, name) : TRUE]

\* remove: the head of a chain is replaced by its successor, any other entry
\* is taken out.  For a name that is there: delete looks first (object/mod.rs:450).
RemoveName(t, name) ==
  LET chain == Chain(t, name)
      index == CHOOSE i \in chain : t.entries[i].name = name
      next  == t.entries[index].next
      last  == {i \in chain : t.entries[i].next = index}
  IN Counted(
       CASE last # {} ->
              LET l == CHOOSE i \in last : TRUE IN
              Put(Put(t, l, [t.entries[l] EXCEPT !.next = next]), index, Empty)
         [] last = {} /\ next # -1 -> Put(Put(t, index, t.entries[next]), next, Empty)
         [] OTHER -> Put(t, index, Empty), -1)

\* The free entry after an offset, around the end of the table.
FirstFree(t, offset) ==
  LET free == {d \in 1 .. Size(t) : ~t.entries[(offset + d) % Size(t)].valid}
  IN (offset + (CHOOSE d \in free : \A e \in free : d <= e)) % Size(t)

\* add, where the ideal position is empty or holds the head of the own chain.
Link(t, name, value) ==
  LET head == Hash(t, name) IN
  IF ~t.entries[head].valid THEN Counted(Put(t, head, Entry(name, value, -1)), 1)
  ELSE LET tail == CHOOSE i \in Chain(t, name) : t.entries[i].next = -1
           free == FirstFree(t, tail)
           new  == Put(t, free, Entry(name, value, -1))
       IN Counted(Put(new, tail, [t.entries[tail] EXCEPT !.next = free]), 1)

\* mutant: the name is chained to the entry in its ideal position, whatever it is
InsertUnmoved(t, name, value) == Link(t, name, value)

\* mutant: the descriptor of the entry that makes room is read from its place
\* after that was overwritten
InsertOverwritten(t, name, value) ==
  LET ideal == Hash(t, name)
      there == t.entries[ideal]
  IN IF there.valid /\ Hash(t, there.name) # ideal
     THEN LET without == RemoveName(t, there.name)
              with    == Counted(Put(without, ideal, Entry(name, value, -1)), 1)
          IN Link(with, there.name, value)
     ELSE Link(t, name, value)

\* add, after growing: an entry of another chain makes room and is added
\* again; the head of its chain is in place then.
Insert(t, name, value) ==
  LET ideal == Hash(t, name)
      there == t.entries[ideal]
  IN IF there.valid /\ Hash(t, there.name) # ideal
     THEN LET without == RemoveName(t, there.name)
              with    == Counted(Put(without, ideal, Entry(name, value, -1)), 1)
          IN Link(with, there.name, there.value)
     ELSE Link(t, name, value)

\* grow_entries: every entry is added to a larger table, in table order.
Grow(t) ==
  LET into[i \in 0 .. Size(t)] ==
        IF i = 0 THEN EmptyTable(2 * Size(t))
        ELSE LET so_far == into[i - 1]
                 e      == t.entries[i - 1]
             IN IF e.valid THEN Insert(so_far, e.name, e.value) ELSE so_far
  IN into[Size(t)]

AddName(t, name, value) ==
  Insert(IF t.count > MaxLoadFactor(t) THEN Grow(t) ELSE t, name, value)

ReplaceValue(t, name, value) ==
  LET index == CHOOSE i \in Found(t, name) : TRUE
  IN Put(t, index, [t.entries[index] EXCEPT !.value = value])
=============================================================================

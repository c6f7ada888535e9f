------------------------------ MODULE CelloTable ------------------------------
(***************************************************************************)
(* The Table of libCello (4/src/Table.c): buckets of keys and, in step     *)
(* with them, of values, and beside them an array of all the keys in the   *)
(* order in which they were put.  put and discard fit the number of        *)
(* buckets to the number of keys.  Dictionary.c is the same program over   *)
(* lists of references.                                                    *)
(***************************************************************************)
EXTENDS Integers, Sequences, FiniteSets, SequencesExt, TLC

CONSTANTS Keys, Vals,
          Hash,        \* a function on Keys: hash
          Primes       \* Hash_Primes, in order

VARIABLES
    tab,       \* the TableData: size, key_buckets, val_buckets and keys
    thrown     \* whether the last call threw a KeyError

vars == <<tab, thrown>>

HashTableSize(n) ==
    LET larger == {i \in DOMAIN Primes : Primes[i] > n}
    IN  IF larger = {} THEN n * 2
        ELSE Primes[CHOOSE i \in larger : \A j \in larger : i <= j]

NoBuckets(size) == [i \in 0 .. size - 1 |-> <<>>]
New == [size |-> HashTableSize(0), keys |-> <<>>,
        key_buckets |-> NoBuckets(HashTableSize(0)),
        val_buckets |-> NoBuckets(HashTableSize(0))]

Init == tab = New /\ thrown = FALSE

-----------------------------------------------------------------------------
\* Arrays of keys and values: push, pop_at and discard.
Bucket(t, k) == Hash[k] % t.size
Places(s, x) == {i \in DOMAIN s : s[i] = x}
First(s, x)  == CHOOSE i \in Places(s, x) : \A j \in Places(s, x) : i <= j
Without(s, x) == IF Places(s, x) = {} THEN s ELSE RemoveAt(s, First(s, x))

Pushed(t, b, k, v) ==
    [t EXCEPT !.key_buckets[b] = Append(@, k), !.val_buckets[b] = Append(@, v)]
PoppedAt(t, b, j) ==
    [t EXCEPT !.key_buckets[b] = RemoveAt(@, j), !.val_buckets[b] = RemoveAt(@, j)]

\* Table_Rehash: bucket by bucket into those of the new size.
Entries(t) ==
    FlattenSeq([b \in 1 .. t.size |->
        [j \in DOMAIN t.key_buckets[b - 1] |->
            <<t.key_buckets[b - 1][j], t.val_buckets[b - 1][j]>>]])
RehashedInPlace(t) ==
    LET size == HashTableSize(Len(t.keys) \div 2)
    IN  [t EXCEPT !.size = size,
                  !.key_buckets = [i \in 0 .. size - 1 |-> IF i < t.size THEN @[i] ELSE <<>>],
                  !.val_buckets = [i \in 0 .. size - 1 |-> IF i < t.size THEN @[i] ELSE <<>>]]
Rehashed(t) ==
    LET size  == HashTableSize(Len(t.keys) \div 2)
        blank == [t EXCEPT !.size = size, !.key_buckets = NoBuckets(size),
                           !.val_buckets = NoBuckets(size)]
        Move(u, e) == Pushed(u, Bucket(u, e[1]), e[1], e[2])
    IN  IF size = t.size THEN t ELSE FoldLeft(Move, blank, Entries(t))

Holds(t, k) == Places(t.key_buckets[Bucket(t, k)], k) # {}
Get(t, k) ==
    LET b == Bucket(t, k)
    IN  t.val_buckets[b][First(t.key_buckets[b], k)]

\* Table_Put.  The key may not be one of tab->keys: the discard would move
\* another key to its place before it is copied.
Replaced(t, k, v) ==
    LET b    == Bucket(t, k)
        gone == IF Holds(t, k)
                THEN PoppedAt([t EXCEPT !.keys = Without(@, k)], b, First(t.key_buckets[b], k))
                ELSE t
    IN  [Pushed(gone, b, k, v) EXCEPT !.keys = Append(@, k)]

Put(k, v) ==
    /\ tab' = Replaced(Rehashed(tab), k, v)
    /\ thrown' = FALSE

Discard(k) ==
    IF Holds(tab, k)
    THEN LET b == Bucket(tab, k)
         IN  /\ tab' = Rehashed(PoppedAt([tab EXCEPT !.keys = Without(@, k)],
                                         b, First(tab.key_buckets[b], k)))
             /\ thrown' = FALSE
    ELSE thrown' = TRUE /\ UNCHANGED tab

\* Table_Clear keeps the size.
Clear ==
    /\ tab' = [tab EXCEPT !.keys = <<>>, !.key_buckets = NoBuckets(tab.size),
                          !.val_buckets = NoBuckets(tab.size)]
    /\ thrown' = FALSE

\* delete, with the arrays in every bucket, and another table in its place.
Delete == tab' = New /\ thrown' = FALSE

\* foreach goes over the array of keys.
Visits(t) == t.keys

\* Table_Copy, and Table_Assign to a table that has nothing to clear.
Copy(t) ==
    LET Take(u, k) == Replaced(Rehashed(u), k, Get(t, k))
    IN  FoldLeft(Take, New, Visits(t))

\* Table_Eq: both ways, by the arrays of keys.
Covers(t, u) ==
    \A k \in ToSet(Visits(u)) : k \in ToSet(t.keys) /\ Holds(t, k) /\ Get(u, k) = Get(t, k)
Eq(t, u) == Covers(t, u) /\ Covers(u, t)

Next ==
    \/ \E k \in Keys :
        \/ Discard(k)
        \/ \E v \in Vals : Put(k, v)
    \/ Clear \/ Delete

Spec == Init /\ [][Next]_vars

-----------------------------------------------------------------------------
Bindings(t) == [k \in {k \in Keys : Holds(t, k)} |-> Get(t, k)]

\* TableWhole: every key that contains, len and iteration see is found by get,
\* and the other way round; a key is in one bucket once, with its value beside
\* it; a copy has the same bindings and is equal.
TableWhole ==
    /\ ToSet(tab.keys) = DOMAIN Bindings(tab)
    /\ Len(Entries(tab)) = Len(tab.keys) /\ Len(tab.keys) = Cardinality(ToSet(tab.keys))
    /\ \A b \in DOMAIN tab.key_buckets :
        Len(tab.key_buckets[b]) = Len(tab.val_buckets[b])
    /\ Bindings(Copy(tab)) = Bindings(tab) /\ Eq(tab, Copy(tab))

\* IsTable: put binds one key and no other, whatever moves between buckets;
\* discard unbinds one; a call that throws changes nothing.
Map == INSTANCE KeyedMap WITH bindings <- Bindings(tab)
IsTable ==
    /\ \A k \in Keys :
        /\ \A v \in Vals : Put(k, v) => Map!Put(k, v)
        /\ Discard(k) /\ ~thrown' => Map!Discard(k)
    /\ Clear \/ Delete => Bindings(tab') = << >>
    /\ thrown' => Bindings(tab') = Bindings(tab)
=============================================================================

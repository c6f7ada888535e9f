--------------------------- MODULE CelloDictionary ---------------------------
(***************************************************************************)
(* The Dictionary of libCello (4/src/Dictionary.c): the buckets of Table.c *)
(* as lists that refer to the caller's own keys and values instead of      *)
(* copying them.  Two objects may be equal and not the same: lookups go by *)
(* eq, and what iteration yields is the object that was put last.          *)
(***************************************************************************)
EXTENDS Integers, Sequences, FiniteSets, SequencesExt

CONSTANTS Objects,      \* the objects that serve as keys
          Value,        \* a function on Objects: eq compares this
          HashOf,       \* a function on the values: hash
          Vals, Primes

VARIABLES
    dict,      \* the DictionaryData: size, keys, and buckets of <<key, val>>
    thrown     \* whether the last call threw a KeyError

vars == <<dict, thrown>>

Sizes == INSTANCE CelloTable WITH tab <- dict, Keys <- Objects, Hash <- HashOf

Blank(size) == [i \in 0 .. size - 1 |-> <<>>]
New == [size |-> Sizes!HashTableSize(0), keys |-> <<>>,
        buckets |-> Blank(Sizes!HashTableSize(0))]

Init == dict = New /\ thrown = FALSE

-----------------------------------------------------------------------------
Same(k, l) == Value[k] = Value[l]
\* discard on dict->keys takes the first that is equal.
Struck(keys, k) ==
    LET at == {i \in DOMAIN keys : Same(keys[i], k)}
    IN  IF at = {} THEN keys ELSE RemoveAt(keys, CHOOSE i \in at : \A j \in at : i <= j)

Bucket(d, k) == HashOf[Value[k]] % d.size
Place(d, k)  ==     \* in its bucket, or 0
    LET b  == d.buckets[Bucket(d, k)]
        at == {j \in DOMAIN b : Same(b[j][1], k)}
    IN  IF at = {} THEN 0 ELSE CHOOSE j \in at : \A i \in at : j <= i
Holds(d, k) == Place(d, k) # 0
Get(d, k)   == d.buckets[Bucket(d, k)][Place(d, k)][2]

Dropped(d, k) ==
    IF ~Holds(d, k) THEN d
    ELSE [d EXCEPT !.keys = Struck(@, k),
                   !.buckets[Bucket(d, k)] = RemoveAt(@, Place(d, k))]

\* Dictionary_Rehash: every pair to its bucket of the new size, in order.
Rehashed(d) ==
    LET size    == Sizes!HashTableSize(Len(d.keys) \div 2)
        blank   == [d EXCEPT !.size = size, !.buckets = Blank(size)]
        entries == FlattenSeq([i \in 1 .. d.size |-> d.buckets[i - 1]])
    IN  IF size = d.size THEN d
        ELSE FoldLeft(LAMBDA e, x : [e EXCEPT !.buckets[Bucket(e, x[1])] = Append(@, x)],
                      blank, entries)

Stored(d, k, v) ==
    LET free == Dropped(Rehashed(d), k)
    IN  [free EXCEPT !.keys = Append(@, k),
                     !.buckets[Bucket(free, k)] = Append(@, <<k, v>>)]

Put(k, v) == dict' = Stored(dict, k, v) /\ thrown' = FALSE

Discard(k) ==
    \/ Holds(dict, k) /\ dict' = Rehashed(Dropped(dict, k)) /\ thrown' = FALSE
    \/ ~Holds(dict, k) /\ thrown' = TRUE /\ UNCHANGED dict

Clear ==
    /\ dict' = [dict EXCEPT !.keys = <<>>, !.buckets = Blank(dict.size)]
    /\ thrown' = FALSE

\* delete, with the lists in every bucket, and another in its place.
Delete == dict' = New /\ thrown' = FALSE

\* foreach goes over the list of keys.
Visits(d) == d.keys

\* Dictionary_Copy, and Dictionary_Assign to one with nothing to clear.
Copy(d) == FoldLeft(LAMBDA e, k : Stored(e, k, Get(d, k)), New, Visits(d))

Covers(d, e) ==
    \A k \in ToSet(Visits(e)) :
        /\ \E j \in ToSet(d.keys) : Same(j, k)
        /\ Holds(d, k) /\ Get(e, k) = Get(d, k)
Eq(d, e) == Covers(d, e) /\ Covers(e, d)

Next ==
    \/ \E k \in Objects : Discard(k) \/ \E v \in Vals : Put(k, v)
    \/ Clear \/ Delete

Spec == Init /\ [][Next]_vars

-----------------------------------------------------------------------------
Entries == UNION {ToSet(dict.buckets[i]) : i \in DOMAIN dict.buckets}

\* DictionaryWhole: the keys that iteration yields are the very objects in the
\* buckets, each once and no two of them equal, however often the table was
\* rehashed and equal keys replaced each other; a copy is equal.
DictionaryWhole ==
    /\ {x[1] : x \in Entries} = ToSet(dict.keys)
    /\ \A i, j \in DOMAIN dict.keys : Same(dict.keys[i], dict.keys[j]) => i = j
    /\ Cardinality(Entries) = Len(dict.keys)
    /\ \A x \in Entries : Get(dict, x[1]) = x[2]
    /\ Eq(dict, Copy(dict))

\* IsDictionary: by the values of the keys put and discard are those of a map,
\* and the object put last is the one that is kept; a call that throws changes
\* nothing.
Bindings == [n \in {Value[x[1]] : x \in Entries} |-> (CHOOSE x \in Entries : Value[x[1]] = n)[2]]
Map == INSTANCE KeyedMap WITH bindings <- Bindings, Keys <- {Value[k] : k \in Objects}
IsDictionary ==
    /\ \A k \in Objects :
        /\ \A v \in Vals : Put(k, v) => Map!Put(Value[k], v) /\ Last(dict'.keys) = k
        /\ Discard(k) /\ ~thrown' => Map!Discard(Value[k])
    /\ thrown' => UNCHANGED dict
=============================================================================

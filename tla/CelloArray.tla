------------------------------ MODULE CelloArray ------------------------------
(***************************************************************************)
(* The Array of libCello (4/src/Array.c), which owns its items, and the    *)
(* growing and shrinking of its memory.  An item of the model is the value *)
(* that assign copies; places start at 1.                                  *)
(***************************************************************************)
EXTENDS Integers, Sequences, FiniteSets, SequencesExt

CONSTANTS Items,      \* integers
          MaxItems    \* a bound on the length

VARIABLES
    ad,        \* the ArrayData: items, and the room for them in num_slots
    thrown     \* whether the last call threw

vars == <<ad, thrown>>

Empty == [items |-> <<>>, num_slots |-> 0]
Init  == ad = Empty /\ thrown = FALSE

-----------------------------------------------------------------------------
\* ceil(x * 1.5) and floor(x / 1.5), and slots > pow(items + 1, 1.5).
ReserveMore(slots, num_items) ==
    IF num_items > slots THEN (3 * (slots + 1) + 1) \div 2 ELSE slots
ReserveLess(slots, num_items) ==
    IF slots ^ 2 > (num_items + 1) ^ 3 THEN (2 * (slots - 1)) \div 3 ELSE slots

PushAt(i, x) ==
    /\ Len(ad.items) < MaxItems
    /\ ad' = [items     |-> InsertAt(ad.items, i, x),
              num_slots |-> ReserveMore(ad.num_slots, Len(ad.items) + 1)]
    /\ thrown' = FALSE
PushBack(x)  == PushAt(Len(ad.items) + 1, x)
PushFront(x) == PushAt(1, x)

Throw == thrown' = TRUE /\ UNCHANGED ad

PopAt(i) ==
    IF ad.items = <<>> THEN Throw
    ELSE /\ ad' = [items     |-> RemoveAt(ad.items, i),
                   num_slots |-> ReserveLess(ad.num_slots, Len(ad.items) - 1)]
         /\ thrown' = FALSE
PopBack  == PopAt(Len(ad.items))
PopFront == PopAt(1)

\* The first item that is equal; none is no error.
Discard(x) ==
    LET at == {i \in DOMAIN ad.items : ad.items[i] = x}
    IN  IF at = {} THEN thrown' = FALSE /\ UNCHANGED ad
        ELSE PopAt(CHOOSE i \in at : \A j \in at : i <= j)

SetAt(i, x) ==
    IF i \notin DOMAIN ad.items THEN Throw
    ELSE ad' = [ad EXCEPT !.items[i] = x] /\ thrown' = FALSE

Clear == ad' = Empty /\ thrown' = FALSE

\* delete, which destructs every item, and another array in its place.
Delete == ad' = Empty /\ thrown' = FALSE

\* Array_Reverse and Array_Sort, in place.
Swapped(s, i, j) == [s EXCEPT ![i] = s[j], ![j] = s[i]]
ReversedItems(s) == FoldLeft(LAMBDA t, i : Swapped(t, i, Len(t) + 1 - i), s,
                             [i \in 1 .. Len(s) \div 2 |-> i])

\* Array_Sort_Partition: storei is where the next smaller item goes; nothing
\* is swapped until an item that is not smaller was seen.
PartitionStep(st, i) ==
    IF st.items[i] >= st.pival THEN [st EXCEPT !.fix = TRUE]
    ELSE [st EXCEPT !.items = IF st.fix THEN Swapped(@, i, st.storei) ELSE @,
                    !.storei = @ + 1]
Partition(s, left, right) ==
    LET pivot == left + (right - left) \div 2
        begin == [items |-> Swapped(s, pivot, right), pival |-> s[pivot],
                  storei |-> left, fix |-> FALSE]
        done  == FoldLeft(PartitionStep, begin, [i \in 1 .. right - left |-> left + i - 1])
    IN  [items  |-> IF done.fix THEN Swapped(done.items, done.storei, right) ELSE done.items,
         storei |-> done.storei]
RECURSIVE SortPart(_, _, _)
SortPart(s, left, right) ==
    IF left >= right THEN s
    ELSE LET p == Partition(s, left, right)
         IN  SortPart(SortPart(p.items, left, p.storei - 1), p.storei + 1, right)

SortItems == ad' = [ad EXCEPT !.items = SortPart(@, 1, Len(@))] /\ thrown' = FALSE
ReverseItems == ad' = [ad EXCEPT !.items = ReversedItems(@)] /\ thrown' = FALSE

-----------------------------------------------------------------------------
\* foreach: item by item, until it is the last; copy and contains go by it.
Visits(a) ==
    LET From[i \in DOMAIN a.items] ==
            IF i = Len(a.items) THEN <<a.items[i]>> ELSE <<a.items[i]>> \o From[i + 1]
    IN  IF a.items = <<>> THEN <<>> ELSE From[1]
Pushed(a, x) ==
    [items |-> Append(a.items, x), num_slots |-> ReserveMore(a.num_slots, Len(a.items) + 1)]
Copy(a)   == FoldLeft(Pushed, Empty, Visits(a))
Has(a, x) == \E item \in ToSet(Visits(a)) : item = x
Eq(a, b)  ==
    /\ Len(a.items) = Len(b.items)
    /\ \A i \in DOMAIN a.items : a.items[i] = b.items[i]

\* Array_Assign of another array clears first.
Assign(b) == ad' = FoldLeft(Pushed, Empty, Visits(b)) /\ thrown' = FALSE

Next ==
    \/ \E x \in Items :
        \/ \E i \in DOMAIN ad.items : PushAt(i, x)
        \/ \E i \in 1 .. Len(ad.items) + 1 : SetAt(i, x)
        \/ PushBack(x) \/ PushFront(x) \/ Discard(x)
        \/ Assign([items |-> <<x, x>>, num_slots |-> 3])
    \/ \E i \in DOMAIN ad.items : PopAt(i)
    \/ PopBack \/ PopFront \/ Clear \/ Delete \/ SortItems \/ ReverseItems

Spec == Init /\ [][Next]_vars

-----------------------------------------------------------------------------
\* RoomForAll: whatever was pushed and popped, the memory has room for every
\* item; a copy is equal, though it may have other room, and has the items.
RoomForAll ==
    /\ Len(ad.items) <= ad.num_slots
    /\ Eq(ad, Copy(ad)) /\ Len(Copy(ad).items) <= Copy(ad).num_slots
    /\ \A x \in Items : Has(Copy(ad), x) = (x \in ToSet(ad.items))

Count(s, x) == Cardinality({i \in DOMAIN s : s[i] = x})
SameItems(s, t) == Len(s) = Len(t) /\ \A x \in Items : Count(s, x) = Count(t, x)

\* SortsInPlace: sort gives the same items in order, and reverse the same
\* items backwards; a call that throws changes nothing.
SortsInPlace ==
    /\ SortItems =>
         /\ SameItems(ad.items, ad'.items)
         /\ \A i, j \in DOMAIN ad'.items : i < j => ad'.items[i] <= ad'.items[j]
    /\ ReverseItems => ad'.items = [i \in DOMAIN ad.items |-> ad.items[Len(ad.items) + 1 - i]]
    /\ thrown' => ad' = ad
=============================================================================

------------------------------ MODULE CelloList ------------------------------
(***************************************************************************)
(* The List of libCello (4/src/List.c): an array of references that grows  *)
(* and shrinks, and one cursor, which every iteration over the list moves. *)
(* The memory behind the last item still has what was popped.              *)
(***************************************************************************)
EXTENDS Integers, Sequences, FiniteSets, SequencesExt

CONSTANTS Objects,     \* what the list refers to, integers, compared as such
          MaxItems,    \* a bound on the length
          Junk,        \* memory that was never written, equal to no object
          MayNest      \* whether a foreach has another iteration in its body

VARIABLES
    lo,        \* the ListData: slots, num_items and cursor
    looping,   \* whether a foreach over the list is going on
    seen,      \* what it has given out so far
    thrown     \* whether the last call threw

vars == <<lo, looping, seen, thrown>>

Empty == [slots |-> <<>>, num_items |-> 0, cursor |-> 0]
Items(l) == SubSeq(l.slots, 1, l.num_items)

Init == lo = Empty /\ looping = FALSE /\ seen = <<>> /\ thrown = FALSE

-----------------------------------------------------------------------------
\* List_Reserve_More and List_Reserve_Less, on the slots themselves.
ReserveMore(slots, num_items) ==
    IF num_items <= Len(slots) THEN slots
    ELSE slots \o [i \in 1 .. ((3 * (Len(slots) + 1) + 1) \div 2) - Len(slots) |-> Junk]
ReserveLess(slots, num_items) ==
    IF Len(slots) ^ 2 <= (num_items + 1) ^ 3 THEN slots
    ELSE SubSeq(slots, 1, (2 * (Len(slots) - 1)) \div 3)

PushedAt(l, i, x) ==
    LET slots == ReserveMore(l.slots, l.num_items + 1)
    IN  [l EXCEPT !.num_items = @ + 1,
                  !.slots = [j \in DOMAIN slots |->
                      IF j = i THEN x
                      ELSE IF i < j /\ j <= l.num_items + 1 THEN slots[j - 1] ELSE slots[j]]]
PoppedAt(l, i) ==
    [l EXCEPT !.num_items = @ - 1,
              !.slots = ReserveLess([j \in DOMAIN @ |->
                            IF i <= j /\ j < l.num_items THEN @[j + 1] ELSE @[j]],
                            l.num_items - 1)]

\* A program that changes the list in a foreach over it leaves the loop.
Changes(l) == lo' = l /\ looping' = FALSE /\ seen' = <<>> /\ thrown' = FALSE
Throw      == thrown' = TRUE /\ UNCHANGED <<lo, looping, seen>>

PushAt(i, x) == lo.num_items < MaxItems /\ Changes(PushedAt(lo, i, x))
PushBack(x)  == PushAt(lo.num_items + 1, x)
PopAt(i)     == IF i \in 1 .. lo.num_items THEN Changes(PoppedAt(lo, i)) ELSE Throw
PopBack      == PopAt(lo.num_items)
\* List_Set does not throw.
SetAt(i, x)  == i \in 1 .. lo.num_items /\ Changes([lo EXCEPT !.slots[i] = x])
Discard(x) ==
    LET at == {i \in 1 .. lo.num_items : lo.slots[i] = x}
    IN  at # {} /\ Changes(PoppedAt(lo, CHOOSE i \in at : \A j \in at : i <= j))
\* List_Clear pops until nothing is left, and leaves the cursor.
Clear == lo.num_items > 0 /\ Changes(FoldLeft(LAMBDA l, i : PoppedAt(l, l.num_items), lo, Items(lo)))
\* delete, and another list in its place.
Delete == Changes(Empty)
\* List_Assign of a sequence of objects frees the slots first.
Assign(s) == Changes(FoldLeft(LAMBDA l, x : PushedAt(l, l.num_items + 1, x), Empty, s))

\* List_Copy, of what a foreach gives out, and List_Eq.
Copy(l)  == FoldLeft(LAMBDA m, x : PushedAt(m, m.num_items + 1, x), Empty, Items(l))
Eq(l, m) ==
    /\ l.num_items = m.num_items
    /\ \A i \in 1 .. l.num_items : l.slots[i] = m.slots[i]

\* List_Reverse and List_Sort swap items in place.
Swapped(s, i, j) == [s EXCEPT ![i] = s[j], ![j] = s[i]]
Reversal(s, n)   == FoldLeft(LAMBDA t, i : Swapped(t, i, n + 1 - i), s, [i \in 1 .. n \div 2 |-> i])
PartitionStep(st, i) ==
    IF st.slots[i] >= st.pival THEN [st EXCEPT !.fix = TRUE]
    ELSE [st EXCEPT !.slots = IF st.fix THEN Swapped(@, i, st.storei) ELSE @, !.storei = @ + 1]
Partition(s, left, right) ==
    LET pivot == left + (right - left) \div 2
        begin == [slots |-> Swapped(s, pivot, right), pival |-> s[pivot],
                  storei |-> left, fix |-> FALSE]
        done  == FoldLeft(PartitionStep, begin, [i \in 1 .. right - left |-> left + i - 1])
    IN  [done EXCEPT !.slots = IF done.fix THEN Swapped(@, done.storei, right) ELSE @]
RECURSIVE SortPart(_, _, _)
SortPart(s, left, right) ==
    IF left >= right THEN s
    ELSE LET p == Partition(s, left, right)
         IN  SortPart(SortPart(p.slots, left, p.storei - 1), p.storei + 1, right)
SortItems    == Changes([lo EXCEPT !.slots = SortPart(@, 1, lo.num_items)])
ReverseItems == Changes([lo EXCEPT !.slots = Reversal(@, lo.num_items)])

-----------------------------------------------------------------------------
\* Iteration.  A place that is read past the slots may have anything.
Reads(l, i) == IF i < Len(l.slots) THEN {l.slots[i + 1]} ELSE Objects \cup {Junk}
IterEnd     == -1     \* the object Iter_End, in no list

IterStart ==
    /\ ~looping /\ lo.num_items > 0
    /\ lo' = [lo EXCEPT !.cursor = 0]
    /\ looping' = TRUE /\ seen' = <<lo.slots[1]>> /\ thrown' = FALSE

\* List_Iter_Next: by the cursor if that is on curr, or else by the first item
\* that is curr.  The answers are a new cursor and the item there.
Step(c, x)   == [cursor |-> c, item |-> x]
ByCursor(l) ==
    IF l.cursor + 1 = l.num_items THEN {Step(l.cursor + 1, IterEnd)}
    ELSE {Step(l.cursor + 1, x) : x \in Reads(l, l.cursor + 1)}
BySearch(l, curr) ==
    LET at == {i \in 1 .. l.num_items - 1 : l.slots[i] = curr}
    IN  IF at = {} THEN {Step(l.cursor, IterEnd)}
        ELSE LET i == CHOOSE i \in at : \A j \in at : i <= j
             IN  {Step(i, l.slots[i + 1])}
NextsAlwaysBySearch(l, curr) == BySearch(l, curr)
Nexts(l, curr) ==
    UNION {IF x = curr THEN ByCursor(l) ELSE BySearch(l, curr) : x \in Reads(l, l.cursor)}

IterNext ==
    /\ looping
    /\ \E next \in Nexts(lo, Last(seen)) :
        /\ lo' = [lo EXCEPT !.cursor = next.cursor]
        /\ looping' = (next.item # IterEnd)
        /\ seen' = IF next.item = IterEnd THEN <<>> ELSE Append(seen, next.item)
    /\ thrown' = FALSE

\* List_Contains, or any other iteration, in the body of a foreach: it stops
\* at the object, or at the end.
LookFor(x) ==
    /\ lo.num_items > 0 /\ (looping => MayNest)
    /\ LET at == {i \in 1 .. lo.num_items : lo.slots[i] = x}
       IN  lo' = [lo EXCEPT !.cursor = IF at = {} THEN lo.num_items
                                       ELSE (CHOOSE i \in at : \A j \in at : i <= j) - 1]
    /\ thrown' = FALSE /\ UNCHANGED <<looping, seen>>

Next ==
    \/ \E x \in Objects :
        \/ PushBack(x) \/ Discard(x) \/ LookFor(x)
        \/ \E i \in 1 .. lo.num_items : PushAt(i, x) \/ SetAt(i, x)
    \/ \E i \in 0 .. lo.num_items + 1 : PopAt(i)
    \/ PopBack \/ Clear \/ Delete \/ SortItems \/ ReverseItems
    \/ \E x \in Objects : Assign(<<x>>)
    \/ IterStart \/ IterNext

Spec == Init /\ [][Next]_vars

-----------------------------------------------------------------------------
\* ListWhole: the slots have room for every item, and every item is an object
\* that was put in; a copy is equal, whatever is behind the last item.
ListWhole ==
    /\ lo.num_items <= Len(lo.slots)
    /\ ToSet(Items(lo)) \subseteq Objects
    /\ Eq(lo, Copy(lo)) /\ Eq(Copy(lo), lo)

\* LoopFollows: a foreach gives out the items of the list in their order, and
\* no other.
LoopFollows == looping => IsPrefix(seen, Items(lo))

\* LoopComplete: and it ends after the last.
LoopComplete ==
    looping /\ IterNext /\ ~looping' => seen = Items(lo)
=============================================================================

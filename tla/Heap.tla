-------------------------------- MODULE Heap --------------------------------
(***************************************************************************)
(* The heap of Cbasic (heap.c), which is its priority queue (pqueue.h),    *)
(* and the parcels sorted with it (parcels.c).  The tree is an array: the  *)
(* children of position i are at 2i + 1 and 2i + 2.  compare looks at the  *)
(* priority of an item alone.                                              *)
(***************************************************************************)
EXTENDS Integers, Sequences, FiniteSets, TLC

CONSTANTS Items,     \* records with a priority
          Memory     \* how many items realloc has room for

VARIABLES
    heap,     \* the Heap: size and tree
    ret       \* of the last call: its code, and the items it gave away

vars == <<heap, ret>>

Empty == [size |-> 0, tree |-> [i \in {} |-> 0]]

Answer(code, given) == [code |-> code, given |-> given]

Init ==
    /\ heap = Empty
    /\ ret = Answer(0, {})

-----------------------------------------------------------------------------
\* heap_parent is truncated by its conversion to int, and never asked of 0.
Parent(i)  == (i - 1) \div 2
LeftPos(i)  == 2 * i + 1
RightPos(i) == 2 * i + 2

Compare(x, y)    == x.priority - y.priority
Swapped(t, i, j) == [t EXCEPT ![i] = t[j], ![j] = t[i]]

RECURSIVE PushedUp(_, _)
PushedUp(t, i) ==
    IF i > 0 /\ Compare(t[Parent(i)], t[i]) < 0
    THEN PushedUp(Swapped(t, Parent(i), i), Parent(i))
    ELSE t

\* One node is compared with its children, up to positions below size.
LargestOfLeft(t, size, i) ==
    IF LeftPos(i) < size /\ Compare(t[LeftPos(i)], t[i]) > 0 THEN LeftPos(i) ELSE i
Largest(t, size, i) ==
    LET m == IF LeftPos(i) < size /\ Compare(t[LeftPos(i)], t[i]) > 0 THEN LeftPos(i) ELSE i
    IN  IF RightPos(i) < size /\ Compare(t[RightPos(i)], t[m]) > 0 THEN RightPos(i) ELSE m

RECURSIVE PushedDown(_, _, _)
PushedDown(t, size, i) ==
    LET m == Largest(t, size, i)
    IN  IF m = i THEN t ELSE PushedDown(Swapped(t, m, i), size, m)

Insert(x) ==
    IF heap.size = Memory
    THEN ret' = Answer(-1, {}) /\ UNCHANGED heap
    ELSE /\ heap' = [size |-> heap.size + 1,
                     tree |-> PushedUp((heap.size :> x) @@ heap.tree, heap.size)]
         /\ ret' = Answer(0, {})

\* The last item takes the place of the first.  realloc may refuse to shrink:
\* the heap is as before then, though *data has been set.
Extract ==
    \/ /\ heap.size = 0
       /\ ret' = Answer(-1, {}) /\ UNCHANGED heap
    \/ /\ heap.size = 1
       /\ heap' = Empty /\ ret' = Answer(0, {heap.tree[0]})
    \/ /\ heap.size > 1
       /\ LET last == heap.size - 1
          IN  heap' = [size |-> last,
                       tree |-> PushedDown([i \in 0 .. last - 1 |->
                                    heap.tree[IF i = 0 THEN last ELSE i]], last, 0)]
       /\ ret' = Answer(0, {heap.tree[0]})
    \/ /\ heap.size > 1
       /\ ret' = Answer(-1, {}) /\ UNCHANGED heap

Contents(h) == {h.tree[i] : i \in DOMAIN h.tree}

Destroy ==
    /\ ret' = Answer(0, Contents(heap))
    /\ heap' = Empty

\* parcels.c keeps copies of the parcels in a priority queue.
PutParcel(x) == Insert(x)
GetParcel    == Extract

Next ==
    \/ \E x \in Items \ Contents(heap) : Insert(x) \/ PutParcel(x)
    \/ Extract \/ GetParcel
    \/ Destroy

Spec == Init /\ [][Next]_vars

-----------------------------------------------------------------------------
\* HeapOrdered: no item has a greater priority than its parent, and the array
\* has exactly size items.
HeapOrdered ==
    /\ DOMAIN heap.tree = 0 .. heap.size - 1
    /\ \A i \in 1 .. heap.size - 1 : Compare(heap.tree[Parent(i)], heap.tree[i]) >= 0

\* IsPriorityQueue: an insertion adds its item and loses none, and an
\* extraction that succeeds takes an item of the greatest priority.
IsPriorityQueue ==
    /\ \A x \in Items \ Contents(heap) :
         Insert(x) /\ ret'.code = 0 => Contents(heap') = Contents(heap) \cup {x}
    /\ Extract /\ ret'.code = 0 =>
         \E x \in Contents(heap) :
             /\ ret'.given = {x} /\ Contents(heap') = Contents(heap) \ {x}
             /\ \A y \in Contents(heap) : Compare(x, y) >= 0
    /\ Cardinality(Contents(heap')) = heap'.size
=============================================================================

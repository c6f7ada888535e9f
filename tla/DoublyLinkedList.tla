-------------------------- MODULE DoublyLinkedList --------------------------
(***************************************************************************)
(* The doubly-linked list of Cbasic (dlist.c).  An element argument is     *)
(* NULL or a node of the list; NULL is a legal place to insert only in an  *)
(* empty list, and never one to remove.                                    *)
(***************************************************************************)
EXTENDS Integers, SequencesExt, FiniteSets, TLC

CONSTANTS Nodes, Data, NULL

VARIABLES
    list,     \* the DList, with the blocks of its elements
    ret       \* what the last call returned, and the data it gave away

vars == <<list, ret>>

NoLinks == [n \in {} |-> NULL]
Empty   == [size |-> 0, head |-> NULL, tail |-> NULL,
            next |-> NoLinks, prev |-> NoLinks, data |-> NoLinks]

Answer(code, given) == [code |-> code, given |-> given]

Elements(l) == DOMAIN l.next
Malloc(l)   == CHOOSE n \in Nodes : n \notin Elements(l)

Init ==
    /\ list = Empty
    /\ ret = Answer(0, <<>>)

-----------------------------------------------------------------------------
\* What makes either insertion return -1: no place, or no memory.
NotInserted(l, element) ==
    \/ element = NULL /\ l.size # 0
    \/ Elements(l) = Nodes

\* The new element between before and after; NULL stands for an end.
InsertedBetween(l, before, after, d) ==
    LET new == Malloc(l)
    IN  [size |-> l.size + 1,
         head |-> IF before = NULL THEN new ELSE l.head,
         tail |-> IF after = NULL THEN new ELSE l.tail,
         next |-> [n \in Elements(l) \cup {new} |->
                      IF n = new THEN after ELSE IF n = before THEN new ELSE l.next[n]],
         prev |-> [n \in Elements(l) \cup {new} |->
                      IF n = new THEN before ELSE IF n = after THEN new ELSE l.prev[n]],
         data |-> (new :> d) @@ l.data]

InsNext(element, d) ==
    IF NotInserted(list, element)
    THEN ret' = Answer(-1, <<>>) /\ UNCHANGED list
    ELSE /\ list' = IF list.size = 0 THEN InsertedBetween(list, NULL, NULL, d)
                    ELSE InsertedBetween(list, element, list.next[element], d)
         /\ ret' = Answer(0, <<>>)

InsPrev(element, d) ==
    IF NotInserted(list, element)
    THEN ret' = Answer(-1, <<>>) /\ UNCHANGED list
    ELSE /\ list' = IF list.size = 0 THEN InsertedBetween(list, NULL, NULL, d)
                    ELSE InsertedBetween(list, list.prev[element], element, d)
         /\ ret' = Answer(0, <<>>)

\* dlist_remove: the head by comparison with list->head, the tail by its next.
RemovedPrevKept(l, element) ==
    LET rest == Elements(l) \ {element}
    IN  [size |-> l.size - 1,
         head |-> IF element = l.head THEN l.next[element] ELSE l.head,
         tail |-> IF l.next[element] = NULL THEN l.prev[element] ELSE l.tail,
         next |-> [n \in rest |-> IF n = l.prev[element] THEN l.next[element] ELSE l.next[n]],
         prev |-> Restrict(l.prev, rest),
         data |-> Restrict(l.data, rest)]
Removed(l, element) ==
    LET rest   == Elements(l) \ {element}
        before == IF element = l.head THEN NULL ELSE l.prev[element]
        after  == l.next[element]
    IN  [size |-> l.size - 1,
         head |-> IF element = l.head THEN after ELSE l.head,
         tail |-> IF after = NULL THEN before ELSE l.tail,
         next |-> [n \in rest |-> IF n = before THEN after ELSE l.next[n]],
         prev |-> [n \in rest |-> IF n = after THEN before ELSE l.prev[n]],
         data |-> Restrict(l.data, rest)]

RemoveElement(element) ==
    IF element = NULL \/ list.size = 0
    THEN ret' = Answer(-1, <<>>) /\ UNCHANGED list
    ELSE list' = Removed(list, element) /\ ret' = Answer(0, <<list.data[element]>>)

\* dlist_destroy removes from the tail.
Emptied(l) ==
    LET from[k \in 0 .. l.size] ==
            IF k = 0 THEN [list |-> l, given |-> <<>>]
            ELSE LET rest == from[k - 1].list
                 IN  [list  |-> Removed(rest, rest.tail),
                      given |-> Append(from[k - 1].given, rest.data[rest.tail])]
    IN  from[l.size]
Destroy ==
    /\ list' = Empty
    /\ ret' = Answer(0, Emptied(list).given)

Next ==
    \/ \E element \in Elements(list) \cup {NULL} :
        \/ \E d \in Data : InsNext(element, d) \/ InsPrev(element, d)
        \/ RemoveElement(element)
    \/ Destroy

Spec == Init /\ [][Next]_vars

-----------------------------------------------------------------------------
\* The elements as dlist_next visits them from the head, and as dlist_prev
\* does from the tail; an element that is not there ends the walk.
Follow(l, first, link) ==
    LET at[k \in 1 .. Cardinality(Nodes) + 1] ==
            IF k = 1 THEN first
            ELSE IF at[k - 1] \in Elements(l) THEN link[at[k - 1]] ELSE NULL
    IN  SelectSeq(at, LAMBDA n : n # NULL)
Walk(l)  == Follow(l, l.head, l.next)
Texts(l) == [i \in 1 .. Len(Walk(l)) |-> l.data[Walk(l)[i]]]
Place(walk, element) == SelectInSeq(walk, LAMBDA n : n = element)

\* WellLinked: both directions visit every block that is allocated, once, in
\* opposite orders; size counts them.
WellLinked ==
    /\ Follow(list, list.tail, list.prev) = Reverse(Walk(list))
    /\ ToSet(Walk(list)) = Elements(list)
    /\ Len(Walk(list)) = list.size /\ Cardinality(Elements(list)) = list.size

\* IsSequence: an insertion puts its element directly after or before the one
\* it was given, a removal takes that one, and none of them touches another.
IsSequence ==
    /\ \A element \in Elements(list) \cup {NULL}, d \in Data :
         LET at == IF element = NULL THEN 0 ELSE Place(Walk(list), element)
         IN  /\ InsNext(element, d) /\ ret'.code = 0 =>
                   /\ Texts(list') = InsertAt(Texts(list), at + 1, d)
                   /\ RemoveAt(Walk(list'), at + 1) = Walk(list)
             /\ InsPrev(element, d) /\ ret'.code = 0 =>
                   LET to == IF element = NULL THEN 1 ELSE at
                   IN  /\ Texts(list') = InsertAt(Texts(list), to, d)
                       /\ RemoveAt(Walk(list'), to) = Walk(list)
    /\ \A element \in Elements(list) :
         RemoveElement(element) =>
             LET at == Place(Walk(list), element)
             IN  /\ Walk(list') = RemoveAt(Walk(list), at)
                 /\ ret'.given = <<Texts(list)[at]>>
    /\ Destroy => ret'.given = Reverse(Texts(list))
=============================================================================

---------------------------- MODULE CircularList ----------------------------
(***************************************************************************)
(* The circular list of Cbasic (clist.c), and the page replacement that    *)
(* goes round one (page.c).  It has a head and no tail; the element        *)
(* argument is a node of the list, and is not looked at when an element is *)
(* inserted in an empty list.  The data of a page is its reference bit, 0  *)
(* or 1; the block of its element stands for its number.                   *)
(*                                                                         *)
(* clist_rem_next frees the element after the one it is given, whichever   *)
(* that is.  When it is the head, list->head is left pointing at it.       *)
(***************************************************************************)
EXTENDS Integers, SequencesExt, FiniteSets, TLC

CONSTANTS Nodes, Data, NULL,
          MayRemoveHead   \* whether callers remove the element after the last

VARIABLES
    list,     \* the CList, with the blocks of its elements
    ret       \* what the last call returned, and the data it gave away

vars == <<list, ret>>

Empty == [size |-> 0, head |-> NULL,
          next |-> [n \in {} |-> NULL], data |-> [n \in {} |-> NULL]]

Answer(code, given) == [code |-> code, given |-> given]

Elements(l) == DOMAIN l.next
Malloc(l)   == CHOOSE n \in Nodes : n \notin Elements(l)

Init ==
    /\ list = Empty
    /\ ret = Answer(0, <<>>)

-----------------------------------------------------------------------------
Inserted(l, element, d) ==
    LET new == Malloc(l)
    IN  [size |-> l.size + 1,
         head |-> IF l.size = 0 THEN new ELSE l.head,
         next |-> IF l.size = 0 THEN new :> new
                  ELSE (new :> l.next[element]) @@ (element :> new) @@ l.next,
         data |-> (new :> d) @@ l.data]

InsNext(element, d) ==
    IF Elements(list) = Nodes
    THEN ret' = Answer(-1, <<>>) /\ UNCHANGED list
    ELSE list' = Inserted(list, element, d) /\ ret' = Answer(0, <<>>)

Removed(l, element) ==
    LET old  == l.next[element]
        rest == Elements(l) \ {old}
    IN  [size |-> l.size - 1,
         head |-> IF old = element THEN NULL ELSE l.head,
         next |-> Restrict([l.next EXCEPT ![element] = l.next[old]], rest),
         data |-> Restrict(l.data, rest)]

RemNext(element) ==
    IF list.size = 0
    THEN ret' = Answer(-1, <<>>) /\ UNCHANGED list
    ELSE /\ list' = Removed(list, element)
         /\ ret' = Answer(0, <<list.data[list.next[element]]>>)

\* clist_destroy removes after the head until the head is alone.
Emptied(l) ==
    LET from[k \in 0 .. l.size] ==
            IF k = 0 THEN [list |-> l, given |-> <<>>]
            ELSE LET rest == from[k - 1].list
                 IN  [list  |-> Removed(rest, rest.head),
                      given |-> Append(from[k - 1].given, rest.data[rest.next[rest.head]])]
    IN  from[l.size]
Destroy ==
    /\ list' = Empty
    /\ ret' = Answer(0, Emptied(list).given)

\* replace_page goes on from current, and takes back the references it meets.
Clock(l, current) ==
    LET from[k \in 0 .. l.size] ==
            IF k = 0 THEN [current |-> current, data |-> l.data]
            ELSE LET c == from[k - 1]
                 IN  IF c.data[c.current] = 0 THEN c
                     ELSE [current |-> l.next[c.current], data |-> [c.data EXCEPT ![c.current] = 0]]
    IN  from[l.size]
ReplacePage(current) ==
    /\ list' = [list EXCEPT !.data = Clock(list, current).data]
    /\ ret' = Answer(0, <<Clock(list, current).current>>)

Next ==
    \/ \E current \in Elements(list) : ReplacePage(current)
    \/ \E element \in Elements(list) :
        \/ \E d \in Data : InsNext(element, d)
        \/ /\ \/ MayRemoveHead
              \/ list.next[element] # list.head
              \/ list.next[element] = element
           /\ RemNext(element)
    \/ /\ list.size = 0
       /\ RemNext(NULL) \/ \E d \in Data : InsNext(NULL, d)
    \/ list.head \in Elements(list) \cup {NULL} /\ Destroy

Spec == Init /\ [][Next]_vars

-----------------------------------------------------------------------------
\* One turn of clist_next from an element.
Walk(l, first) ==
    LET at[k \in 1 .. l.size] ==
            IF k = 1 THEN first
            ELSE IF at[k - 1] \in Elements(l) THEN l.next[at[k - 1]] ELSE NULL
    IN  at
Texts(l, first) == [i \in 1 .. l.size |-> l.data[Walk(l, first)[i]]]

\* HeadLive: the head of a list that is not empty is an element of it.  It is
\* where clist_destroy, and every walk, begins.
HeadLive == list.head \in Elements(list) \/ (list.head = NULL /\ list.size = 0)

\* WellLinked: from any element, size steps visit every block that is
\* allocated and come back.
WellLinked ==
    /\ HeadLive /\ Cardinality(Elements(list)) = list.size
    /\ \A n \in Elements(list) :
        /\ ToSet(Walk(list, n)) = Elements(list)
        /\ list.next[Last(Walk(list, n))] = n

\* IsSequence: an insertion puts its element directly after the one it was
\* given, a removal takes the one after; the others keep their cyclic order.
\* The page to replace is the first on the way that was not referenced, or the
\* one it began at if all were, and only those before it lose their reference.
IsSequence ==
    /\ \A element \in Elements(list), d \in Data :
         InsNext(element, d) /\ ret'.code = 0 =>
             /\ Texts(list', element) = InsertAt(Texts(list, element), 2, d)
             /\ RemoveAt(Walk(list', element), 2) = Walk(list, element)
    /\ \A element \in Elements(list) :
         RemNext(element) =>
             /\ ret'.given = <<list.data[list.next[element]]>>
             /\ list'.size > 0 => Walk(list', element) = RemoveAt(Walk(list, element), 2)
    /\ \A current \in Elements(list) :
         ReplacePage(current) =>
             LET walk == Walk(list, current)
                 free == {i \in DOMAIN walk : list.data[walk[i]] = 0}
                 turn == IF free = {} THEN Len(walk) + 1 ELSE CHOOSE i \in free : \A j \in free : i <= j
             IN  /\ ret'.given = <<(walk \o <<current>>)[turn]>>
                 /\ \A i \in DOMAIN walk :
                        list'.data[walk[i]] = IF i < turn THEN 0 ELSE list.data[walk[i]]
    /\ Destroy /\ list.size > 0 =>
             ret'.given = Tail(Texts(list, list.head)) \o <<list.data[list.head]>>
=============================================================================

----------------------------- MODULE LinkedList -----------------------------
(***************************************************************************)
(* The singly-linked list of Cbasic (list.c), its two clients that are     *)
(* lists under another name, the stack (stack.c) and the queue (queue.c),  *)
(* and the programs that keep memory of their own in them: a stack of free *)
(* page frames (frames.c) and a queue of events (events.c).                *)
(*                                                                         *)
(* Nodes are the blocks that malloc may return; next and data are defined  *)
(* on those that are allocated.  An element argument is NULL or a node of  *)
(* the list, as the caller got it from list_head, list_tail or list_next.  *)
(***************************************************************************)
EXTENDS Integers, SequencesExt, FiniteSets, TLC

CONSTANTS Nodes, Data, NULL

VARIABLES
    list,     \* the List, with the blocks of its elements
    ret       \* what the last call returned, the data it gave away, and
              \* whether it lost memory that it had allocated

vars == <<list, ret>>

Empty == [size |-> 0, head |-> NULL, tail |-> NULL,
          next |-> [n \in {} |-> NULL], data |-> [n \in {} |-> NULL]]

Answer(code, given) == [code |-> code, given |-> given, lost |-> FALSE]

Elements(l) == DOMAIN l.next
IsFull(l)   == Elements(l) = Nodes
Malloc(l)   == CHOOSE n \in Nodes : n \notin Elements(l)
Freed(l, n) == [l EXCEPT !.next = Restrict(@, DOMAIN @ \ {n}),
                         !.data = Restrict(@, DOMAIN @ \ {n})]

Init ==
    /\ list = Empty
    /\ ret = Answer(0, <<>>)

-----------------------------------------------------------------------------
\* list_ins_next, once malloc has returned new.
InsertedFirst(l, new) ==
    [l EXCEPT !.tail = IF l.size = 0 THEN new ELSE @,
              !.next = (new :> l.head) @@ @,
              !.head = new]
InsertedAfter(l, element, new) ==
    [l EXCEPT !.tail = IF l.next[element] = NULL THEN new ELSE @,
              !.next = (new :> l.next[element]) @@ (element :> new) @@ @]
Inserted(l, element, d) ==
    LET new    == Malloc(l)
        linked == IF element = NULL THEN InsertedFirst(l, new)
                                    ELSE InsertedAfter(l, element, new)
    IN  [linked EXCEPT !.data = (new :> d) @@ @, !.size = @ + 1]

InsNext(element, d) ==
    IF IsFull(list)
    THEN ret' = Answer(-1, <<>>) /\ UNCHANGED list
    ELSE list' = Inserted(list, element, d) /\ ret' = Answer(0, <<>>)

\* list_rem_next, and the two calls that it refuses.
Refused(l, element) ==
    \/ l.size = 0
    \/ element # NULL /\ l.next[element] = NULL
Removal(l, element) == IF element = NULL THEN l.head ELSE l.next[element]

Removed(l, element) ==
    LET old    == Removal(l, element)
        isLast == IF element = NULL THEN l.size = 1 ELSE l.next[old] = NULL
    IN  Freed([l EXCEPT !.head = IF element = NULL THEN l.next[old] ELSE @,
                        !.next = IF element = NULL THEN @
                                 ELSE [@ EXCEPT ![element] = l.next[old]],
                        !.tail = IF isLast THEN element ELSE @,
                        !.size = @ - 1], old)

RemNext(element) ==
    IF Refused(list, element)
    THEN ret' = Answer(-1, <<>>) /\ UNCHANGED list
    ELSE /\ list' = Removed(list, element)
         /\ ret' = Answer(0, <<list.data[Removal(list, element)]>>)

\* list_destroy hands every element to the destroy function, and clears.
Emptied(l) ==
    LET from[k \in 0 .. l.size] ==
            IF k = 0 THEN [list |-> l, given |-> <<>>]
            ELSE [list  |-> Removed(from[k - 1].list, NULL),
                  given |-> Append(from[k - 1].given,
                                from[k - 1].list.data[from[k - 1].list.head])]
    IN  from[l.size]
Destroy ==
    /\ list' = Empty
    /\ ret' = Answer(0, Emptied(list).given)

\* stack.c and queue.c.
Push(d)    == InsNext(NULL, d)
Pop        == RemNext(NULL)
Enqueue(d) == InsNext(list.tail, d)
Dequeue    == RemNext(NULL)

\* free_frame and receive_event copy what they are given to memory of their
\* own, for which malloc may fail; when the insertion fails it is not freed.
Stored(element, d) ==
    \/ ret' = Answer(-1, <<>>) /\ UNCHANGED list
    \/ ~IsFull(list) /\ InsNext(element, d)
    \/ IsFull(list) /\ ret' = [Answer(-1, <<>>) EXCEPT !.lost = TRUE] /\ UNCHANGED list
FreeFrame(d)    == Stored(NULL, d)
ReceiveEvent(d) == Stored(list.tail, d)

\* alloc_frame and process_event look at the size first, and free the memory
\* once the frame number is read and the event dispatched.
AllocFrame ==
    IF list.size = 0 THEN ret' = Answer(-1, <<>>) /\ UNCHANGED list ELSE Pop
ProcessEvent ==
    IF list.size = 0 THEN ret' = Answer(-1, <<>>) /\ UNCHANGED list ELSE Dequeue

Next ==
    \/ \E element \in Elements(list) \cup {NULL} :
        \/ \E d \in Data : InsNext(element, d)
        \/ RemNext(element)
    \/ \E d \in Data : Push(d) \/ Enqueue(d) \/ FreeFrame(d) \/ ReceiveEvent(d)
    \/ Pop \/ Dequeue \/ AllocFrame \/ ProcessEvent
    \/ Destroy

Spec == Init /\ [][Next]_vars

-----------------------------------------------------------------------------
\* The elements in the order in which list_next visits them; an element that
\* is not there ends the walk.
Walk(l) ==
    LET at[k \in 1 .. Cardinality(Nodes) + 1] ==
            IF k = 1 THEN l.head
            ELSE IF at[k - 1] \in Elements(l) THEN l.next[at[k - 1]] ELSE NULL
    IN  SelectSeq(at, LAMBDA n : n # NULL)
Texts(l) == [i \in 1 .. Len(Walk(l)) |-> l.data[Walk(l)[i]]]
Place(walk, element) == SelectInSeq(walk, LAMBDA n : n = element)

\* WellLinked: the walk from head visits every block that is allocated, once,
\* and ends at tail; size counts it.
WellLinked ==
    /\ ToSet(Walk(list)) = Elements(list)
    /\ Len(Walk(list)) = list.size /\ Cardinality(Elements(list)) = list.size
    /\ list.tail = IF list.size = 0 THEN NULL ELSE Last(Walk(list))

\* IsSequence: an insertion puts its element directly after the one it was
\* given, a removal takes the one after, and neither touches another element;
\* a refused call changes nothing.  A stack is last in first out and a queue
\* first in first out, and so are the frames and the events: the frame that
\* was freed last is allocated next, the oldest event is dispatched next, and a
\* call that fails takes none away.
IsSequence ==
    /\ \A element \in Elements(list) \cup {NULL}, d \in Data :
         InsNext(element, d) /\ ret'.code = 0 =>
             LET at == IF element = NULL THEN 0 ELSE Place(Walk(list), element)
             IN  /\ Texts(list') = InsertAt(Texts(list), at + 1, d)
                 /\ RemoveAt(Walk(list'), at + 1) = Walk(list)
    /\ \A element \in Elements(list) \cup {NULL} :
         RemNext(element) /\ ret'.code = 0 =>
             LET at == IF element = NULL THEN 1 ELSE Place(Walk(list), element) + 1
             IN  /\ Walk(list') = RemoveAt(Walk(list), at)
                 /\ ret'.given = <<Texts(list)[at]>>
    /\ \A d \in Data :
         /\ Push(d) /\ ret'.code = 0 => Texts(list') = <<d>> \o Texts(list)
         /\ Enqueue(d) /\ ret'.code = 0 => Texts(list') = Append(Texts(list), d)
         /\ FreeFrame(d) => Texts(list') = IF ret'.code = 0 THEN <<d>> \o Texts(list) ELSE Texts(list)
         /\ ReceiveEvent(d) =>
                Texts(list') = IF ret'.code = 0 THEN Append(Texts(list), d) ELSE Texts(list)
    /\ AllocFrame \/ ProcessEvent => ret'.given \o Texts(list') = Texts(list)
    /\ Destroy => ret'.given = Texts(list)
=============================================================================

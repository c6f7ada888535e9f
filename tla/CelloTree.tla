------------------------------ MODULE CelloTree ------------------------------
(***************************************************************************)
(* The Tree of libCello (4/src/Tree.c): the binary search tree of Map.c,   *)
(* but one that owns its keys and values, with the keys in an Array.  A    *)
(* clear and an assignment hand the Array's own first key to discard, as   *)
(* an address that is good only as long as the Array stays where it is.    *)
(***************************************************************************)
EXTENDS Integers, Sequences, FiniteSets, SequencesExt

CONSTANTS Keys, Vals, Less,    \* as in CelloMap
          Sources,             \* the trees that may be assigned
          MayMove              \* whether a realloc to a smaller size moves

VARIABLES
    td,           \* the TreeData: root, a function on paths; keys and num_slots of the Array
    inorder_opt,  \* the static of Tree_Next_Inorder
    phase,        \* "idle", or the loop of Tree_Assign and Tree_Clear it is in
    pending       \* what Tree_Assign still has to put

vars == <<td, inorder_opt, phase, pending>>

\* The descent, the nodes and the splicing are those of Map.c; the Array is that
\* of Array.c.
Nodes == INSTANCE CelloMap WITH md <- [root |-> td.root, keys |-> td.keys],
                                loop <- phase, source <- pending
Slots == INSTANCE CelloArray WITH ad <- [items |-> td.keys, num_slots |-> td.num_slots],
                                  thrown <- FALSE, Items <- Keys, MaxItems <- 0

Empty == [root |-> Nodes!Empty.root, keys |-> <<>>, num_slots |-> 0]

Init ==
    /\ td = Empty
    /\ inorder_opt = TRUE
    /\ phase = "idle"
    /\ pending = <<>>

-----------------------------------------------------------------------------
\* push and discard on td->keys.
Pushed(t, key) ==
    [t EXCEPT !.keys = Append(@, key),
              !.num_slots = Slots!ReserveMore(@, Len(t.keys) + 1)]
Struck(t, key) ==
    IF key \notin ToSet(t.keys) THEN t
    ELSE [t EXCEPT !.keys = RemoveFirst(@, key),
                   !.num_slots = Slots!ReserveLess(@, Len(t.keys) - 1)]

Found(t, key) == Nodes!End(t.root, key) \in DOMAIN t.root
Get(t, key)   == t.root[Nodes!End(t.root, key)].leaf_val

\* Tree_Node_New copies the key and the value.
Put(t, key, val) ==
    LET node == [t EXCEPT !.root = Nodes!WithNode(@, Nodes!End(@, key), key, val)]
    IN  IF Found(t, key) THEN node ELSE Pushed(node, key)

NextInorder(p, opt) == Nodes!NextInorder(td.root, p, opt)

\* A node with at most one child is deleted before the key is struck.
Unlinked(t, p, key) == Struck([t EXCEPT !.root = Nodes!Spliced(@, p)], key)

\* A node with two is given copies of its neighbour's key and value after the
\* neighbour was discarded.  An address that the discard left behind may be
\* that of anything, or still of the key.
Replacements(t, p, q, first) ==
    LET key    == t.root[p].leaf_key
        less   == Unlinked(t, q, t.root[q].leaf_key)
        filled == [less EXCEPT !.root[p] = t.root[q]]
        moved  == MayMove /\ less.num_slots # t.num_slots
    IN  {Struck(filled, key)} \cup (IF first /\ moved THEN {filled} ELSE {})

\* first: the key is given as the first item of td->keys.
DiscardAt(p, key, first) ==
    \/ /\ p \notin DOMAIN td.root
       /\ UNCHANGED <<td, inorder_opt>>
    \/ /\ p \in DOMAIN td.root
       /\ Nodes!Children(td.root, p) # {"left", "right"}
       /\ td' = Unlinked(td, p, key)
       /\ UNCHANGED inorder_opt
    \/ /\ p \in DOMAIN td.root
       /\ Nodes!Children(td.root, p) = {"left", "right"}
       /\ inorder_opt' = ~inorder_opt
       /\ \E q \in {Nodes!End(td.root, NextInorder(p, ~inorder_opt))} :
            td' \in Replacements(td, p, q, first)
Discard(key, first) == \E p \in {Nodes!End(td.root, key)} : DiscardAt(p, key, first)

-----------------------------------------------------------------------------
\* The calls.
PutCall(key, val) ==
    /\ phase = "idle"
    /\ td' = Put(td, key, val)
    /\ UNCHANGED <<inorder_opt, phase, pending>>

DiscardCall(key) ==
    /\ phase = "idle"
    /\ Discard(key, FALSE)
    /\ UNCHANGED <<phase, pending>>

AssignCall(src) ==
    /\ phase = "idle"
    /\ phase' = "clearing" /\ pending' = src
    /\ UNCHANGED <<td, inorder_opt>>

ClearStep ==
    /\ phase = "clearing" /\ td.keys # <<>>
    /\ \E key \in {Head(td.keys)} : Discard(key, TRUE)
    /\ UNCHANGED <<phase, pending>>

ClearDone ==
    /\ phase = "clearing" /\ td.keys = <<>>
    /\ phase' = "putting"
    /\ UNCHANGED <<td, inorder_opt, pending>>

AssignStep ==
    /\ phase = "putting" /\ pending # <<>>
    /\ td' = Put(td, Head(pending)[1], Head(pending)[2])
    /\ pending' = Tail(pending)
    /\ UNCHANGED <<inorder_opt, phase>>

AssignDone ==
    /\ phase = "putting" /\ pending = <<>>
    /\ phase' = "idle"
    /\ UNCHANGED <<td, inorder_opt, pending>>

Loop == ClearStep \/ ClearDone \/ AssignStep \/ AssignDone

Next ==
    \/ \E key \in Keys :
        \/ DiscardCall(key)
        \/ \E val \in Vals : PutCall(key, val)
    \/ \E src \in Sources : AssignCall(src)
    \/ Loop

Spec     == Init /\ [][Next]_vars
FairSpec == Spec /\ WF_vars(Loop)

-----------------------------------------------------------------------------
\* foreach, copy and == go by the Array.
Visits(t) ==
    LET From[i \in 1 .. Len(t.keys) + 1] ==
            IF i > Len(t.keys) THEN <<>> ELSE <<t.keys[i]>> \o From[i + 1]
    IN  From[1]
Copy(t) == FoldLeft(LAMBDA new, k : Put(new, k, Get(t, k)), Empty, Visits(t))
Eq(t, u) ==
    /\ \A k \in ToSet(Visits(u)) : k \in ToSet(t.keys) /\ Get(u, k) = Get(t, k)
    /\ \A k \in ToSet(Visits(t)) : k \in ToSet(u.keys) /\ Get(u, k) = Get(t, k)

\* TreeWhole: the search for the key of a node ends there; the Array names no
\* key twice, none that the tree lacks, and has room for all; a copy is equal.
TreeWhole ==
    /\ \A p \in DOMAIN td.root : Nodes!End(td.root, td.root[p].leaf_key) = p
    /\ IsInjective(td.keys) /\ Len(td.keys) <= td.num_slots
    /\ \A k \in ToSet(td.keys) : Found(td, k)
    /\ Eq(td, Copy(td))

\* IsTree: put, get and discard are those of a map, whichever neighbour took
\* the place of a node.
Bindings ==
    LET root   == td.root
        at(k)  == CHOOSE p \in DOMAIN root : root[p].leaf_key = k
    IN  [k \in {root[p].leaf_key : p \in DOMAIN root} |-> root[at(k)].leaf_val]
Dict     == INSTANCE KeyedMap WITH bindings <- Bindings
IsTree   == Dict!Next \/ UNCHANGED Bindings
InLoop   == phase # "idle"
=============================================================================

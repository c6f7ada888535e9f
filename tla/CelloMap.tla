------------------------------ MODULE CelloMap ------------------------------
(***************************************************************************)
(* The Map of libCello (4/src/Map.c): a binary search tree of keys and     *)
(* values, and beside it a list of the keys in the order in which they     *)
(* were put.  put, get and discard work on the tree; contains, len,        *)
(* iteration, copy, == and clear go by the list.                           *)
(*                                                                         *)
(* A node is known by the path that leads to it from the root, a sequence  *)
(* of LEFT and RIGHT, so that moving a subtree up renames the nodes in it. *)
(***************************************************************************)
EXTENDS Integers, Sequences, FiniteSets, SequencesExt

CONSTANTS Keys, Vals,
          Less,     \* the pairs of keys for which lt holds
          Sources   \* the maps that may be assigned: sequences of <<key, val>>

VARIABLES
    md,           \* the MapData: its root, as a function on paths, and keys
    inorder_opt,  \* the static of Map_Next_Inorder, shared by all maps
    loop,        \* "idle", or the loop of Map_Assign and Map_Clear it is in
    source       \* what Map_Assign still has to put

mvars == <<md, inorder_opt, loop, source>>

LEFT  == "left"
RIGHT == "right"

Node  == [leaf_key : Keys, leaf_val : Vals]
Empty == [root |-> [p \in {} |-> p], keys |-> <<>>]

\* MapTypeOK: the tree hangs together, and the list is never longer than there
\* are keys.
MapTypeOK ==
    /\ \A p \in DOMAIN md.root :
        /\ p \in Seq({LEFT, RIGHT})
        /\ \A i \in 0 .. Len(p) : SubSeq(p, 1, i) \in DOMAIN md.root
        /\ md.root[p] \in Node
    /\ md.keys \in Seq(Keys) /\ Len(md.keys) <= Cardinality(Keys)
    /\ inorder_opt \in BOOLEAN
    /\ loop \in {"idle", "clearing", "putting"}
    /\ source \in Seq(Keys \X Vals)

MapInit ==
    /\ md = Empty
    /\ inorder_opt = TRUE
    /\ loop = "idle"
    /\ source = <<>>

-----------------------------------------------------------------------------
\* The descent.
Side(k, key) == IF <<k, key>> \in Less THEN LEFT ELSE RIGHT

\* Where it ends: at the node of key, or at the NULL where that would hang.
End(root, key) ==
    LET Down[p \in DOMAIN root] ==
            LET next == Append(p, Side(root[p].leaf_key, key))
            IN  IF root[p].leaf_key = key THEN p
                ELSE IF next \in DOMAIN root THEN Down[next] ELSE next
    IN  IF <<>> \in DOMAIN root THEN Down[<<>>] ELSE <<>>

Bound(m)  == {k \in Keys : End(m.root, k) \in DOMAIN m.root}
Get(m, k) == m.root[End(m.root, k)].leaf_val

\* The root with key and val at p, in the node that is there or in a new one.
WithNode(root, p, key, val) ==
    [q \in DOMAIN root \cup {p} |->
        IF q = p THEN [leaf_key |-> key, leaf_val |-> val] ELSE root[q]]

Put(m, key, val) ==
    LET p == End(m.root, key)
    IN  [root |-> WithNode(m.root, p, key, val),
         keys |-> IF p \in DOMAIN m.root THEN m.keys ELSE Append(m.keys, key)]

-----------------------------------------------------------------------------
\* Deletion.
Children(root, p) == {s \in {LEFT, RIGHT} : Append(p, s) \in DOMAIN root}

\* *parent = NULL, node->left or node->right: the only subtree of p, if it
\* has one, takes its place.
Spliced(root, p) ==
    LET kept == {q \in DOMAIN root : ~IsPrefix(p, q)}
        Down(q) == p \o (CHOOSE s \in {<<LEFT>>, <<RIGHT>>} : p \o s \in DOMAIN root)
                     \o SubSeq(q, Len(p) + 1, Len(q))
        moved == {p \o SubSeq(q, Len(p) + 2, Len(q)) :
                    q \in {r \in DOMAIN root : IsStrictPrefix(p, r)}}
    IN  [q \in kept \cup moved |-> IF q \in kept THEN root[q] ELSE root[Down(q)]]

\* The first node on side a of p, and from there to side b as far as it goes.
Extreme(root, p, a, b) ==
    LET walk == {q \in DOMAIN root :
                    /\ IsPrefix(Append(p, a), q)
                    /\ \A i \in Len(p) + 2 .. Len(q) : q[i] = b}
    IN  CHOOSE q \in walk : \A r \in walk : Len(r) <= Len(q)

\* The neighbour in order that takes the place of a node with two children,
\* from the left if opt holds.
NextInorderNoWalk(root, p, opt) ==
    root[Append(p, IF opt THEN LEFT ELSE RIGHT)].leaf_key
NextInorder(root, p, opt) ==
    root[IF opt THEN Extreme(root, p, LEFT, RIGHT)
                ELSE Extreme(root, p, RIGHT, LEFT)].leaf_key

\* Map_Discard of a node that has at most one child.
Unlink(m, p) ==
    [root |-> Spliced(m.root, p),
     keys |-> RemoveFirst(m.keys, m.root[p].leaf_key)]

\* Map_Discard of a node p that has two: the neighbour q is discarded, from
\* the tree and from the list, and its key and value move into the node.
ReplaceKeyOnly(m, p, q) ==
    LET less == Unlink(m, q)
    IN  [root |-> [less.root EXCEPT ![p].leaf_key = m.root[q].leaf_key],
         keys |-> RemoveFirst(less.keys, m.root[p].leaf_key)]
Replace(m, p, q) ==
    LET less == Unlink(m, q)
    IN  [root |-> [less.root EXCEPT ![p] = m.root[q]],
         keys |-> RemoveFirst(less.keys, m.root[p].leaf_key)]

\* p is where the search for the key ends; q, where Map_Get and Map_Discard
\* find the neighbour's key when they search for it again.
DiscardAbsent(p) ==
    /\ p \notin DOMAIN md.root
    /\ UNCHANGED <<md, inorder_opt>>

DiscardOuter(p) ==
    /\ p \in DOMAIN md.root
    /\ Children(md.root, p) # {LEFT, RIGHT}
    /\ md' = Unlink(md, p)
    /\ UNCHANGED inorder_opt

DiscardInner(p) ==
    /\ p \in DOMAIN md.root
    /\ Children(md.root, p) = {LEFT, RIGHT}
    /\ inorder_opt' = ~inorder_opt
    /\ \E q \in {End(md.root, NextInorder(md.root, p, ~inorder_opt))} :
        md' = Replace(md, p, q)

Discard(key) ==
    \E p \in {End(md.root, key)} :
        DiscardAbsent(p) \/ DiscardOuter(p) \/ DiscardInner(p)

-----------------------------------------------------------------------------
\* The calls.
PutCall(key, val) ==
    /\ loop = "idle"
    /\ md' = Put(md, key, val)
    /\ UNCHANGED <<inorder_opt, loop, source>>

DiscardCall(key) ==
    /\ loop = "idle"
    /\ Discard(key)
    /\ UNCHANGED <<loop, source>>

\* Map_Clear is the first half of Map_Assign, and Map_Assign of an empty map.
AssignCall(src) ==
    /\ loop = "idle"
    /\ loop' = "clearing"
    /\ source' = src
    /\ UNCHANGED <<md, inorder_opt>>

ClearStep ==
    /\ loop = "clearing"
    /\ md.keys # <<>>
    /\ \E key \in {Head(md.keys)} : Discard(key)
    /\ UNCHANGED <<loop, source>>

ClearDoneWithTree ==
    /\ loop = "clearing"
    /\ DOMAIN md.root = {}
    /\ loop' = "putting"
    /\ UNCHANGED <<md, inorder_opt, source>>
ClearDone ==
    /\ loop = "clearing"
    /\ md.keys = <<>>
    /\ loop' = "putting"
    /\ UNCHANGED <<md, inorder_opt, source>>

AssignStep ==
    /\ loop = "putting"
    /\ source # <<>>
    /\ md' = Put(md, Head(source)[1], Head(source)[2])
    /\ source' = Tail(source)
    /\ UNCHANGED <<inorder_opt, loop>>

AssignDone ==
    /\ loop = "putting"
    /\ source = <<>>
    /\ loop' = "idle"
    /\ UNCHANGED <<md, inorder_opt, source>>

\* Another map deletes a node with two children.
OtherMap ==
    /\ loop = "idle"
    /\ inorder_opt' = ~inorder_opt
    /\ UNCHANGED <<md, loop, source>>

Loop == ClearStep \/ ClearDone \/ AssignStep \/ AssignDone

MapNext ==
    \/ \E key \in Keys :
        \/ DiscardCall(key)
        \/ \E val \in Vals : PutCall(key, val)
    \/ \E src \in Sources : AssignCall(src)
    \/ Loop
    \/ OtherMap

MapSpec     == MapInit /\ [][MapNext]_mvars
MapFairSpec == MapSpec /\ WF_mvars(Loop)

-----------------------------------------------------------------------------
\* foreach goes over the list of keys.
Visits(m) == m.keys

\* What copy makes of the list and the tree.
Copy(m) == FoldLeft(LAMBDA new, k : Put(new, k, Get(m, k)), Empty, Visits(m))

\* ==: every key in the list of one is in that of the other, with its value.
Covers(m, n) ==
    \A k \in ToSet(Visits(n)) : k \in ToSet(m.keys) /\ Get(n, k) = Get(m, k)
Eq(m, n) == Covers(m, n) /\ Covers(n, m)

\* EveryNodeFound: the search for the key of a node ends at that node, whatever
\* was put and discarded before.  Discarding a node with two children keeps
\* the order only because its neighbour in order takes its place.
EveryNodeFound ==
    \A p \in DOMAIN md.root : End(md.root, md.root[p].leaf_key) = p

\* ListedBound: the list names no key twice and none that the tree does not
\* have, so that iteration, copy, == and show, which get the value of each key
\* they find in the list, never meet a KeyError; and a copy iterates over the
\* same keys in the same order and is equal, although its tree may have another
\* shape.
ListedBound ==
    /\ IsInjective(md.keys)
    /\ ToSet(md.keys) \subseteq Bound(md)
    /\ \E copy \in {Copy(md)} : copy.keys = md.keys /\ Eq(md, copy)

\* IsKeyedMap: put, get and discard, and the loops made of them, implement the
\* abstract map, also for keys that the list has lost.
Bindings ==
    LET end == [k \in Keys |-> End(md.root, k)]
    IN  [k \in {j \in Keys : end[j] \in DOMAIN md.root} |->
            md.root[end[k]].leaf_val]
Dict == INSTANCE KeyedMap WITH bindings <- Bindings
IsKeyedMap == Dict!Spec

\* In a loop of Map_Assign or Map_Clear.
InLoop == loop # "idle"

\* TakesOne: discarding a key takes no other key off the list.  The test of
\* Map says so: "PT_ASSERT(len(m0) is 2)" and "PT_ASSERT(contains(m0, mk2))"
\* after one of three keys was discarded (4/tests/data.c:1402,1404).
TakesOne ==
    \A key \in Keys : \A other \in Keys \ {key} :
        DiscardCall(key) /\ other \in ToSet(md.keys) => other \in ToSet(md'.keys)
=============================================================================

----------------------------- MODULE BinaryTree -----------------------------
(***************************************************************************)
(* The binary tree of Cbasic (bitree.c) and its traversals (traverse.c).   *)
(* Trees share the blocks that malloc gives; a node stands for the data in *)
(* it.  A node argument is NULL or a node of the tree it is passed with.   *)
(***************************************************************************)
EXTENDS Integers, Sequences, FiniteSets, SequencesExt, TLC

CONSTANTS Nodes, Trees, NULL

VARIABLES
    heap,     \* the allocated nodes: [left, right]
    trees,    \* of each BiTree: root and size
    ret       \* of the last call: its code, and the nodes whose data it
              \* gave to destroy, in order

vars == <<heap, trees, ret>>

EmptyTree == [root |-> NULL, size |-> 0]
NewNode   == [left |-> NULL, right |-> NULL]

Answer(code, given) == [code |-> code, given |-> given]

Allocated == DOMAIN heap
Malloc    == CHOOSE n \in Nodes : n \notin Allocated

Init ==
    /\ heap = [n \in {} |-> NewNode]
    /\ trees = [t \in Trees |-> EmptyTree]
    /\ ret = Answer(0, <<>>)

-----------------------------------------------------------------------------
\* The nodes below n, n included.
Below(h, n) ==
    LET RECURSIVE From(_)
        From(S) == LET T == S \cup (UNION {{h[m].left, h[m].right} : m \in S} \ {NULL})
                   IN  IF T = S THEN S ELSE From(T)
    IN  IF n = NULL THEN {} ELSE From({n})

\* preorder, inorder, postorder.
RECURSIVE Preorder(_, _), Inorder(_, _), Postorder(_, _)
Preorder(h, n) ==
    IF n = NULL THEN <<>>
    ELSE <<n>> \o Preorder(h, h[n].left) \o Preorder(h, h[n].right)
Inorder(h, n) ==
    IF n = NULL THEN <<>>
    ELSE Inorder(h, h[n].left) \o <<n>> \o Inorder(h, h[n].right)
Postorder(h, n) ==
    IF n = NULL THEN <<>>
    ELSE Postorder(h, h[n].left) \o Postorder(h, h[n].right) \o <<n>>

-----------------------------------------------------------------------------
\* The position that bitree_ins_left, bitree_ins_right and the removals work
\* on: the root for NULL, otherwise that child of node.
At(t, node, side) == IF node = NULL THEN trees[t].root ELSE heap[node][side]

\* Insertion is refused where there is a node; for NULL, by the size.
Refused(t, node, side) ==
    \/ IF node = NULL THEN trees[t].size > 0 ELSE heap[node][side] # NULL
    \/ Allocated = Nodes

Ins(t, node, side) ==
    IF Refused(t, node, side)
    THEN ret' = Answer(-1, <<>>) /\ UNCHANGED <<heap, trees>>
    ELSE /\ heap' = (Malloc :> NewNode) @@
                    (IF node = NULL THEN heap ELSE [heap EXCEPT ![node][side] = Malloc])
         /\ trees' = [trees EXCEPT ![t] =
                        [root |-> IF node = NULL THEN Malloc ELSE @.root, size |-> @.size + 1]]
         /\ ret' = Answer(0, <<>>)
InsLeft(t, node)  == Ins(t, node, "left")
InsRight(t, node) == Ins(t, node, "right")

\* The removals take the whole subtree, children first.
Rem(t, node, side) ==
    IF trees[t].size = 0 \/ At(t, node, side) = NULL
    THEN ret' = Answer(0, <<>>) /\ UNCHANGED <<heap, trees>>
    ELSE LET gone == Postorder(heap, At(t, node, side))
             kept == Allocated \ ToSet(gone)
         IN  /\ heap' = [n \in kept |-> IF n = node THEN [heap[n] EXCEPT ![side] = NULL]
                                                    ELSE heap[n]]
             /\ trees' = [trees EXCEPT ![t] =
                            [root |-> IF node = NULL THEN NULL ELSE @.root,
                             size |-> @.size - Len(gone)]]
             /\ ret' = Answer(0, gone)
RemLeft(t, node)  == Rem(t, node, "left")
RemRight(t, node) == Rem(t, node, "right")
Destroy(t)        == RemLeft(t, NULL)

\* bitree_merge takes over the nodes of two trees under a new root.
Merge(m, l, r) ==
    IF Allocated = Nodes
    THEN ret' = Answer(-1, <<>>) /\ UNCHANGED <<heap, trees>>
    ELSE /\ heap' = (Malloc :> [left |-> trees[l].root, right |-> trees[r].root]) @@ heap
         /\ trees' = [trees EXCEPT
                        ![m] = [root |-> Malloc, size |-> 1 + trees[l].size + trees[r].size],
                        ![l] = EmptyTree, ![r] = EmptyTree]
         /\ ret' = Answer(0, <<>>)

Next ==
    \/ \E t \in Trees : \E node \in Below(heap, trees[t].root) \cup {NULL} :
        InsLeft(t, node) \/ InsRight(t, node) \/ RemLeft(t, node) \/ RemRight(t, node)
    \/ \E t \in Trees : Destroy(t)
    \/ \E m, l, r \in Trees :
        /\ Cardinality({m, l, r}) = 3 /\ trees[m] = EmptyTree
        /\ Merge(m, l, r)

Spec == Init /\ [][Next]_vars

-----------------------------------------------------------------------------
\* NodesOwned: every allocated node is in one tree, by one path from its
\* root, and the size of a tree counts its nodes, through insertions, removals
\* of subtrees and merges.
Parents(n) == {<<p, side>> \in Allocated \X {"left", "right"} : heap[p][side] = n}
NodesOwned ==
    /\ \A n \in Allocated :
        LET roots == {t \in Trees : trees[t].root = n}
        IN  Cardinality(Parents(n)) + Cardinality(roots) = 1
    /\ \A t \in Trees : trees[t].size = Cardinality(Below(heap, trees[t].root))
    /\ UNION {Below(heap, trees[t].root) : t \in Trees} = Allocated

\* TraversalsVisitAll: each traversal visits every node of a tree once; a node
\* comes before, between or after the subtrees on its left and right.
Before(s, a, b) == \E i, j \in DOMAIN s : i < j /\ s[i] = a /\ s[j] = b
TraversalsVisitAll ==
    \A t \in Trees :
        LET all  == Below(heap, trees[t].root)
            pre  == Preorder(heap, trees[t].root)
            in   == Inorder(heap, trees[t].root)
            post == Postorder(heap, trees[t].root)
        IN  /\ \A s \in {pre, in, post} : ToSet(s) = all /\ Len(s) = Cardinality(all)
            /\ \A n \in all :
                /\ \A m \in Below(heap, heap[n].left) :
                    Before(pre, n, m) /\ Before(in, m, n) /\ Before(post, m, n)
                /\ \A m \in Below(heap, heap[n].right) :
                    Before(pre, n, m) /\ Before(in, n, m) /\ Before(post, m, n)
                /\ \A l \in Below(heap, heap[n].left), r \in Below(heap, heap[n].right) :
                    Before(pre, l, r) /\ Before(post, l, r)
=============================================================================

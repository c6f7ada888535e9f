------------------------------- MODULE AvlTree -------------------------------
(***************************************************************************)
(* The binary search tree of Cbasic (bistree.c): an AVL tree whose removal *)
(* only hides a node, and whose insertion shows it again.                  *)
(*                                                                         *)
(* A subtree is NULL or a record of its AvlNode's fields and its two       *)
(* children; insert, hide and lookup recurse as the code does.  An item    *)
(* has a key, which compare looks at, and an id.                           *)
(***************************************************************************)
EXTENDS Integers, Sequences, FiniteSets, FiniteSetsExt

CONSTANTS Items, NULL,
          Memory,     \* how many nodes malloc has to give
          Removable   \* the items that callers remove: a bound

VARIABLES
    tree,     \* the BisTree: root and size
    ret       \* of the last call: code, the item it gave, and what it gave
              \* to destroy

vars == <<tree, ret>>

LFT_HEAVY == 1
BALANCED  == 0
RGT_HEAVY == -1

Answer(code, given, destroyed) == [code |-> code, given |-> given, destroyed |-> destroyed]

Leaf(x) == [data |-> x, hidden |-> FALSE, factor |-> BALANCED, left |-> NULL, right |-> NULL]

Init ==
    /\ tree = [root |-> NULL, size |-> 0]
    /\ ret = Answer(0, {}, {})

-----------------------------------------------------------------------------
WithLeft(n, child)  == [n EXCEPT !.left = child]
WithRight(n, child) == [n EXCEPT !.right = child]
WithFactor(n, f)    == [n EXCEPT !.factor = f]

\* rotate_left: n is heavy on the left by two.
LLThirdEdition(n) ==
    WithRight(n.left, WithFactor(WithFactor(WithLeft(n, n.left.right), BALANCED), BALANCED))
LL(n) ==
    WithRight(WithFactor(n.left, BALANCED), WithFactor(WithLeft(n, n.left.right), BALANCED))
LR(n) ==
    LET left == n.left
        grandchild == left.right
    IN  [grandchild EXCEPT
            !.factor = BALANCED,
            !.left = WithFactor(WithRight(left, grandchild.left),
                        IF grandchild.factor = RGT_HEAVY THEN LFT_HEAVY ELSE BALANCED),
            !.right = WithFactor(WithLeft(n, grandchild.right),
                        IF grandchild.factor = LFT_HEAVY THEN RGT_HEAVY ELSE BALANCED)]
RotateLeft(n) == IF n.left.factor = LFT_HEAVY THEN LL(n) ELSE LR(n)

\* rotate_right, its mirror image.
RR(n) ==
    WithLeft(WithFactor(n.right, BALANCED), WithFactor(WithRight(n, n.right.left), BALANCED))
RL(n) ==
    LET right == n.right
        grandchild == right.left
    IN  [grandchild EXCEPT
            !.factor = BALANCED,
            !.right = WithFactor(WithLeft(right, grandchild.right),
                        IF grandchild.factor = LFT_HEAVY THEN RGT_HEAVY ELSE BALANCED),
            !.left = WithFactor(WithRight(n, grandchild.left),
                        IF grandchild.factor = RGT_HEAVY THEN LFT_HEAVY ELSE BALANCED)]
RotateRight(n) == IF n.right.factor = RGT_HEAVY THEN RR(n) ELSE RL(n)

\* What insert does with a node when the subtree on one side came back
\* higher: the node, and whether the height above is as it was.
Step(node, balanced) == [node |-> node, balanced |-> balanced]
LeftGrown(n) ==
    CASE n.factor = LFT_HEAVY -> Step(RotateLeft(n), TRUE)
      [] n.factor = BALANCED  -> Step(WithFactor(n, LFT_HEAVY), FALSE)
      [] n.factor = RGT_HEAVY -> Step(WithFactor(n, BALANCED), TRUE)
RightGrown(n) ==
    CASE n.factor = LFT_HEAVY -> Step(WithFactor(n, BALANCED), TRUE)
      [] n.factor = BALANCED  -> Step(WithFactor(n, RGT_HEAVY), FALSE)
      [] n.factor = RGT_HEAVY -> Step(RotateRight(n), TRUE)

\* insert, where there is memory for a node.
RECURSIVE Inserted(_, _)
Inserted(n, x) ==
    IF n = NULL THEN Step(Leaf(x), FALSE)
    ELSE IF x.key < n.data.key
    THEN LET sub == Inserted(n.left, x)
         IN  IF sub.balanced THEN Step(WithLeft(n, sub.node), TRUE)
             ELSE LeftGrown(WithLeft(n, sub.node))
    ELSE IF x.key > n.data.key
    THEN LET sub == Inserted(n.right, x)
         IN  IF sub.balanced THEN Step(WithRight(n, sub.node), TRUE)
             ELSE RightGrown(WithRight(n, sub.node))
    ELSE Step([n EXCEPT !.data = x, !.hidden = FALSE], TRUE)

\* The node with a key, as hide and lookup find it: none, or one.
RECURSIVE Find(_, _)
Find(n, key) ==
    IF n = NULL THEN {}
    ELSE IF key < n.data.key THEN Find(n.left, key)
    ELSE IF key > n.data.key THEN Find(n.right, key)
    ELSE {n}

Insert(x) ==
    \E at \in {Find(tree.root, x.key)} :
        \/ /\ \E n \in at : ~n.hidden
           /\ ret' = Answer(1, {}, {}) /\ UNCHANGED tree
        \/ /\ at = {} /\ tree.size = Memory
           /\ ret' = Answer(-1, {}, {}) /\ UNCHANGED tree
        \/ /\ at = {} /\ tree.size < Memory
           /\ tree' = [root |-> Inserted(tree.root, x).node, size |-> tree.size + 1]
           /\ ret' = Answer(0, {}, {})
        \/ \E n \in at :
            /\ n.hidden
            /\ tree' = [tree EXCEPT !.root = Inserted(@, x).node]
            /\ ret' = Answer(0, {}, {n.data})

\* hide.  It does not look whether the node is hidden already.
RECURSIVE Hidden(_, _)
Hidden(n, key) ==
    IF key < n.data.key THEN [n EXCEPT !.left = Hidden(@, key)]
    ELSE IF key > n.data.key THEN [n EXCEPT !.right = Hidden(@, key)]
    ELSE [n EXCEPT !.hidden = TRUE]

Remove(x) ==
    IF Find(tree.root, x.key) = {}
    THEN ret' = Answer(-1, {}, {}) /\ UNCHANGED tree
    ELSE /\ tree' = [tree EXCEPT !.root = Hidden(@, x.key)]
         /\ ret' = Answer(0, {}, {})

Shown(x) == {n \in Find(tree.root, x.key) : ~n.hidden}
Lookup(x) ==
    /\ ret' = Answer(IF Shown(x) = {} THEN -1 ELSE 0, {n.data : n \in Shown(x)}, {})
    /\ UNCHANGED tree

\* destroy_left and destroy_right, from the root.
RECURSIVE NodesOf(_)
NodesOf(n) == IF n = NULL THEN {} ELSE {n} \cup NodesOf(n.left) \cup NodesOf(n.right)

Destroy ==
    /\ ret' = Answer(0, {}, {n.data : n \in NodesOf(tree.root)})
    /\ tree' = [root |-> NULL, size |-> 0]

Next ==
    \/ \E x \in Items : Insert(x) \/ Lookup(x)
    \/ \E x \in Removable : Remove(x)
    \/ Destroy

Spec == Init /\ [][Next]_vars

-----------------------------------------------------------------------------
RECURSIVE Height(_)
Height(n) == IF n = NULL THEN 0 ELSE 1 + Max({Height(n.left), Height(n.right)})

\* AvlBalanced: in every node the keys to the left are smaller and those to
\* the right greater, and its factor is the difference of the heights of its
\* children, at most one; size counts the nodes, hidden ones too.
AvlBalanced ==
    /\ \A n \in NodesOf(tree.root) :
        /\ \A m \in NodesOf(n.left) : m.data.key < n.data.key
        /\ \A m \in NodesOf(n.right) : m.data.key > n.data.key
        /\ Height(n.left) - Height(n.right) = n.factor
        /\ n.factor \in {LFT_HEAVY, BALANCED, RGT_HEAVY}
    /\ Cardinality(NodesOf(tree.root)) = tree.size

\* IsKeySet: insertion, removal and lookup act on the items that are not
\* hidden as on a set with distinct keys, though the tree keeps the hidden
\* ones; a hidden item is destroyed once, when its key is inserted again or
\* with the tree.
Visible(t) == {n.data : n \in {m \in NodesOf(t.root) : ~m.hidden}}
Kept(t)    == {n.data : n \in NodesOf(t.root)}
IsKeySet ==
    /\ \A x \in Items :
         LET same == {y \in Visible(tree) : y.key = x.key}
         IN  /\ Insert(x) =>
                 /\ ret'.code = 1 <=> same # {}
                 /\ Visible(tree') = Visible(tree) \cup (IF ret'.code = 0 THEN {x} ELSE {})
             /\ x \in Removable /\ Remove(x) => Visible(tree') = Visible(tree) \ same
             /\ Lookup(x) => ret'.given = same
    /\ Kept(tree') \cup ret'.destroyed = Kept(tree) \cup Visible(tree')
    /\ ret'.destroyed \cap Visible(tree) # {} => tree'.root = NULL
=============================================================================

---------------------------- MODULE SetsAndGraphs ----------------------------
(***************************************************************************)
(* The sets of Cbasic (set.c), linked lists without repetitions, the       *)
(* covering of a set by subsets (cover.c), and the graph that is built     *)
(* from sets (graph.c): a list of adjacency lists, each a vertex and the   *)
(* set of those that its edges lead to.  match is equality.                *)
(*                                                                         *)
(* A set is the sequence of the data in its list.  The operators on sets   *)
(* give what the calls compute when malloc does not fail.                  *)
(***************************************************************************)
EXTENDS Integers, Sequences, FiniteSets, SequencesExt, FiniteSetsExt, TLC

\* set_is_member
IsMember(set, d) == \E i \in DOMAIN set : set[i] = d

\* set_insert: 1 and no change if d is a member, otherwise 0 and d is last.
InsertCode(set, d)   == IF IsMember(set, d) THEN 1 ELSE 0
SetInserted(set, d)  == IF IsMember(set, d) THEN set ELSE Append(set, d)

\* set_remove: -1 and no change if d is not a member, otherwise 0.
RemoveCode(set, d)  == IF IsMember(set, d) THEN 0 ELSE -1
SetRemoved(set, d) ==
    LET at == {i \in DOMAIN set : set[i] = d}
    IN  IF at = {} THEN set ELSE RemoveAt(set, Min(at))

\* set_union, set_intersection, set_difference: in the order of their lists.
SetUnion(set1, set2) ==
    set1 \o SelectSeq(set2, LAMBDA d : ~IsMember(set1, d))
SetIntersection(set1, set2) == SelectSeq(set1, LAMBDA d : IsMember(set2, d))
SetDifference(set1, set2)   == SelectSeq(set1, LAMBDA d : ~IsMember(set2, d))

\* set_is_subset and set_is_equal compare sizes first.
IsSubset(set1, set2) ==
    /\ Len(set1) <= Len(set2)
    /\ \A i \in DOMAIN set1 : IsMember(set2, set1[i])
IsEqual(set1, set2) == Len(set1) = Len(set2) /\ IsSubset(set1, set2)

-----------------------------------------------------------------------------
\* cover.  subsets is a sequence of sets; each round takes the first of those
\* that have most of the members that are left.
Gain(members, subset) == Len(SetIntersection(subset, members))
BestSubset(members, subsets) ==
    CHOOSE i \in DOMAIN subsets :
        /\ \A j \in DOMAIN subsets : Gain(members, subsets[j]) <= Gain(members, subsets[i])
        /\ \A j \in 1 .. i - 1 : Gain(members, subsets[j]) < Gain(members, subsets[i])

\* One round: what is left of the members and of the subsets, and the subsets
\* chosen so far.  The code is 1 once no subset has any of the members.
Round(c) ==
    LET best == BestSubset(c.members, c.subsets)
    IN  IF c.code = 1 \/ c.members = <<>> \/ c.subsets = <<>> THEN c
        ELSE IF Gain(c.members, c.subsets[best]) = 0 THEN [c EXCEPT !.code = 1]
        ELSE [c EXCEPT !.members = FoldLeft(SetRemoved, @, c.subsets[best]),
                       !.subsets = RemoveAt(@, best),
                       !.chosen  = Append(@, c.subsets[best])]
Cover(members, subsets) ==
    LET round[k \in 0 .. Len(subsets)] ==
            IF k = 0 THEN [code |-> 0, members |-> members, subsets |-> subsets, chosen |-> <<>>]
            ELSE Round(round[k - 1])
        done == round[Len(subsets)]
    IN  [code   |-> IF done.code = 0 /\ done.members # <<>> THEN -1 ELSE done.code,
         chosen |-> done.chosen]

-----------------------------------------------------------------------------
\* AlgebraRight: the operations on the lists of two sets without repetitions
\* are those on the sets, and give lists without repetitions again.
AlgebraRight(set1, set2) ==
    LET A == ToSet(set1)
        B == ToSet(set2)
        Lists(list, S) == ToSet(list) = S /\ IsInjective(list)
    IN  /\ Lists(SetUnion(set1, set2), A \cup B)
        /\ Lists(SetIntersection(set1, set2), A \cap B)
        /\ Lists(SetDifference(set1, set2), A \ B)
        /\ IsSubset(set1, set2) <=> A \subseteq B
        /\ IsEqual(set1, set2) <=> A = B
        /\ \A d \in A \cup B :
            /\ Lists(SetInserted(set1, d), A \cup {d})
            /\ Lists(SetRemoved(set1, d), A \ {d})
            /\ InsertCode(set1, d) = 0 <=> d \notin A
            /\ RemoveCode(set1, d) = 0 <=> d \in A

\* CoverRight: cover answers 0 exactly when the subsets together have every
\* member, and has then chosen subsets that do, each of them for a member
\* that no earlier one has.
CoverRight(members, subsets) ==
    LET covering == Cover(members, subsets)
        All(s)   == UNION {ToSet(s[i]) : i \in DOMAIN s}
    IN  /\ covering.code = 0 <=> ToSet(members) \subseteq All(subsets)
        /\ covering.code = 0 => ToSet(members) \subseteq All(covering.chosen)
        /\ \A i \in DOMAIN covering.chosen :
            (ToSet(covering.chosen[i]) \cap ToSet(members))
                \ All(SubSeq(covering.chosen, 1, i - 1)) # {}

-----------------------------------------------------------------------------
\* The graph.
CONSTANTS Vertices,
          Memory      \* how many adjacency lists and edges malloc has room for

VARIABLES
    graph,    \* the Graph: vcount, ecount and adjlists
    ret       \* what the last call returned

vars == <<graph, ret>>

Empty == [vcount |-> 0, ecount |-> 0, adjlists |-> <<>>]

Init ==
    /\ graph = Empty
    /\ ret = 0

-----------------------------------------------------------------------------
\* The place of a vertex's adjacency list, and those adjacent to it: none if
\* the vertex is not in the graph.
ListsOf(g, v) == {i \in DOMAIN g.adjlists : g.adjlists[i].vertex = v}
AdjList(g, v) == Min(ListsOf(g, v))
Adjacent(g, v) == IF ListsOf(g, v) = {} THEN <<>> ELSE g.adjlists[AdjList(g, v)].adjacent

\* graph_is_adjacent
IsAdjacent(g, v, w) == IsMember(Adjacent(g, v), w)

Full(g)   == g.vcount + g.ecount = Memory
Refuse(c) == ret' = c /\ UNCHANGED graph

InsVertex(v) ==
    \/ ListsOf(graph, v) # {} /\ Refuse(1)
    \/ ListsOf(graph, v) = {} /\ Full(graph) /\ Refuse(-1)
    \/ /\ ListsOf(graph, v) = {} /\ ~Full(graph)
       /\ graph' = [graph EXCEPT !.vcount = @ + 1,
                                 !.adjlists = Append(@, [vertex |-> v, adjacent |-> <<>>])]
       /\ ret' = 0

\* Both vertices must be there; the edge is refused with 1 if it is.
InsEdge(v, w) ==
    \/ (ListsOf(graph, w) = {} \/ ListsOf(graph, v) = {}) /\ Refuse(-1)
    \/ /\ ListsOf(graph, w) # {} /\ ListsOf(graph, v) # {}
       /\ \/ IsMember(Adjacent(graph, v), w) /\ Refuse(1)
          \/ ~IsMember(Adjacent(graph, v), w) /\ Full(graph) /\ Refuse(-1)
          \/ /\ ~IsMember(Adjacent(graph, v), w) /\ ~Full(graph)
             /\ graph' = [graph EXCEPT !.ecount = @ + 1,
                            !.adjlists[AdjList(graph, v)].adjacent = SetInserted(@, w)]
             /\ ret' = 0

\* No edge may lead to the vertex, nor from it.
RemVertex(v) ==
    LET inUse == \E i \in DOMAIN graph.adjlists : IsMember(graph.adjlists[i].adjacent, v)
    IN  \/ /\ inUse \/ ListsOf(graph, v) = {} \/ Adjacent(graph, v) # <<>>
           /\ Refuse(-1)
        \/ /\ ~inUse /\ ListsOf(graph, v) # {} /\ Adjacent(graph, v) = <<>>
           /\ graph' = [graph EXCEPT !.vcount = @ - 1,
                                     !.adjlists = RemoveAt(@, AdjList(graph, v))]
           /\ ret' = 0

RemEdge(v, w) ==
    \/ ~IsAdjacent(graph, v, w) /\ Refuse(-1)
    \/ /\ IsAdjacent(graph, v, w)
       /\ graph' = [graph EXCEPT !.ecount = @ - 1,
                        !.adjlists[AdjList(graph, v)].adjacent = SetRemoved(@, w)]
       /\ ret' = 0

Destroy ==
    /\ graph' = Empty
    /\ ret' = 0

Next ==
    \/ \E v \in Vertices : InsVertex(v) \/ RemVertex(v)
    \/ \E v, w \in Vertices : InsEdge(v, w) \/ RemEdge(v, w)
    \/ Destroy

Spec == Init /\ [][Next]_vars

-----------------------------------------------------------------------------
VertexSet(g) == {g.adjlists[i].vertex : i \in DOMAIN g.adjlists}
EdgeSet(g)   == {e \in VertexSet(g) \X VertexSet(g) : IsAdjacent(g, e[1], e[2])}

\* GraphWellFormed: no vertex has two adjacency lists and no list repeats a
\* vertex; every edge leads to a vertex of the graph; the counts are right.
GraphWellFormed ==
    /\ Cardinality(VertexSet(graph)) = Len(graph.adjlists)
    /\ graph.vcount = Len(graph.adjlists)
    /\ graph.ecount = Cardinality(EdgeSet(graph))
    /\ \A i \in DOMAIN graph.adjlists :
        /\ IsInjective(graph.adjlists[i].adjacent)
        /\ ToSet(graph.adjlists[i].adjacent) \subseteq VertexSet(graph)

\* IsGraph: a call that answers 0 makes the change its name says to the sets
\* of vertices and edges, and no other; a call that does not makes none.
Changes(vertices, edges) ==
    IF ret' = 0 THEN VertexSet(graph') = vertices /\ EdgeSet(graph') = edges
    ELSE UNCHANGED graph
IsGraph ==
    /\ \A v \in Vertices :
         /\ InsVertex(v) => Changes(VertexSet(graph) \cup {v}, EdgeSet(graph))
         /\ RemVertex(v) => Changes(VertexSet(graph) \ {v}, EdgeSet(graph))
    /\ \A v, w \in Vertices :
         /\ InsEdge(v, w) => Changes(VertexSet(graph), EdgeSet(graph) \cup {<<v, w>>})
         /\ RemEdge(v, w) => Changes(VertexSet(graph), EdgeSet(graph) \ {<<v, w>>})
=============================================================================

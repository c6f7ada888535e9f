--------------------------- MODULE GraphAlgorithms ---------------------------
(***************************************************************************)
(* The graph algorithms of Cbasic: breadth-first and depth-first search    *)
(* (bfs.c, dfs.c), minimum spanning trees (mst.c), shortest paths          *)
(* (shortest.c), the next hop of a route (route.c) and the nearest-        *)
(* neighbour tour (tsp.c).                                                 *)
(*                                                                         *)
(* A graph is a square matrix of weights over 1 .. n, 0 where there is no  *)
(* edge; its adjacency lists are in the order of the numbers.  The fields  *)
(* that an algorithm keeps in the vertices are functions in a record, and  *)
(* each operator is one of the loops of the code.                          *)
(***************************************************************************)
EXTENDS Integers, Sequences, FiniteSets, SequencesExt, FiniteSetsExt, TLC

CONSTANTS Inputs     \* records with an algorithm and its arguments

VARIABLES
    input,    \* what the algorithm was called with
    output    \* what it returned, or NotYet

vars == <<input, output>>

NotYet == [code |-> 1]
Inf    == 1000       \* DBL_MAX: more than any path can weigh

Order(g)        == [i \in 1 .. Len(g) |-> i]
Adjacent(g, v)  == SelectSeq(Order(g), LAMBDA w : g[v][w] # 0)
Edges(g)        == {<<v, w>> \in (DOMAIN g) \X (DOMAIN g) : g[v][w] # 0}

-----------------------------------------------------------------------------
\* bfs: the queue, and the color and hops of each vertex.
BfsStart(g, start) ==
    [queue |-> <<start>>,
     color |-> [v \in DOMAIN g |-> IF v = start THEN "gray" ELSE "white"],
     hops  |-> [v \in DOMAIN g |-> IF v = start THEN 0 ELSE -1]]
BfsSee(s, w) ==
    IF s.color[w] # "white" THEN s
    ELSE [s EXCEPT !.color[w] = "gray", !.queue = Append(@, w),
                   !.hops[w] = s.hops[Head(s.queue)] + 1]
RECURSIVE BfsLoop(_, _)
BfsLoop(g, s) ==
    IF s.queue = <<>> THEN s.hops
    ELSE LET seen == FoldLeft(BfsSee, s, Adjacent(g, Head(s.queue)))
         IN  BfsLoop(g, [seen EXCEPT !.color[Head(s.queue)] = "black", !.queue = Tail(@)])
Bfs(g, start) == BfsLoop(g, BfsStart(g, start))

\* dfs: the vertices in the reverse of the order in which they are finished.
RECURSIVE DfsMain(_, _, _)
DfsMain(g, s, v) ==
    LET Visit(t, w) == IF t.color[w] = "white" THEN DfsMain(g, t, w) ELSE t
        seen == FoldLeft(Visit, [s EXCEPT !.color[v] = "gray"], Adjacent(g, v))
    IN  [color |-> [seen.color EXCEPT ![v] = "black"], ordered |-> <<v>> \o seen.ordered]
Dfs(g) ==
    LET Visit(t, v) == IF t.color[v] = "white" THEN DfsMain(g, t, v) ELSE t
    IN  FoldLeft(Visit, [color |-> [v \in DOMAIN g |-> "white"], ordered |-> <<>>],
                 Order(g)).ordered

-----------------------------------------------------------------------------
\* mst and shortest choose the white vertex with the least key, the first of
\* them in the list.  When every white vertex is out of reach, adjlist is
\* still the one of the round before.
Nearest(g, s) ==
    LET reached == {v \in DOMAIN g : s.color[v] = "white" /\ s.key[v] < Inf}
    IN  IF reached = {} THEN s.adjlist
        ELSE CHOOSE v \in reached : \A w \in reached :
                s.key[v] < s.key[w] \/ (s.key[v] = s.key[w] /\ v <= w)

VertexData(g, start) ==
    [color   |-> [v \in DOMAIN g |-> "white"],
     key     |-> [v \in DOMAIN g |-> IF v = start THEN 0 ELSE Inf],
     parent  |-> [v \in DOMAIN g |-> 0],
     adjlist |-> start]

\* mst: a white vertex takes the lighter edge.
MstSeeFirst(g, s, w) ==
    IF s.color[w] = "white" /\ s.key[w] = Inf
    THEN [s EXCEPT !.key[w] = g[s.adjlist][w], !.parent[w] = s.adjlist]
    ELSE s
MstSee(g, s, w) ==
    IF s.color[w] = "white" /\ g[s.adjlist][w] < s.key[w]
    THEN [s EXCEPT !.key[w] = g[s.adjlist][w], !.parent[w] = s.adjlist]
    ELSE s
RECURSIVE MstLoop(_, _, _)
MstLoop(g, s, i) ==
    IF i = Len(g) THEN s
    ELSE LET u    == Nearest(g, s)
             See(t, w) == MstSee(g, t, w)
         IN  MstLoop(g, FoldLeft(See, [s EXCEPT !.color[u] = "black", !.adjlist = u],
                                 Adjacent(g, u)), i + 1)
Mst(g, start) == MstLoop(g, VertexData(g, start), 0)

\* shortest: relax, whatever the color.
Relax(g, s, w) ==
    LET d == s.key[s.adjlist] + g[s.adjlist][w]
    IN  IF s.key[w] > d THEN [s EXCEPT !.key[w] = d, !.parent[w] = s.adjlist] ELSE s
RECURSIVE ShortestLoop(_, _, _)
ShortestLoop(g, s, i) ==
    IF i = Len(g) THEN s
    ELSE LET u == Nearest(g, s)
             See(t, w) == Relax(g, t, w)
         IN  ShortestLoop(g, FoldLeft(See, [s EXCEPT !.color[u] = "black", !.adjlist = u],
                                      Adjacent(g, u)), i + 1)
Shortest(g, start) == ShortestLoop(g, VertexData(g, start), 0)

\* Either gives its caller the black vertices alone.
Listed(s) == {v \in DOMAIN s.color : s.color[v] = "black"}

\* route: from the destination up the parents, as long as they are listed;
\* temp is the vertex of the round before.
RECURSIVE RouteUp(_, _, _)
RouteUp(s, temp, element) ==
    IF s.parent[element] = 0 THEN temp
    ELSE RouteUp(s, element, s.parent[element])
Route(s, destination) == RouteUp(s, destination, destination)

-----------------------------------------------------------------------------
\* tsp: points are pairs of coordinates; distances compare as their squares.
Distance(p, q) == (p[1] - q[1]) * (p[1] - q[1]) + (p[2] - q[2]) * (p[2] - q[2])

RECURSIVE TourOn(_, _, _)
TourOn(points, tour, white) ==
    IF white = {} THEN Append(tour, tour[1])
    ELSE LET at == points[Last(tour)]
             Closer(v, w) == \/ Distance(points[v], at) < Distance(points[w], at)
                             \/ Distance(points[v], at) = Distance(points[w], at) /\ v <= w
             selection == CHOOSE v \in white : \A w \in white : Closer(v, w)
         IN  TourOn(points, Append(tour, selection), white \ {selection})
Tsp(points, start) == TourOn(points, <<start>>, DOMAIN points \ {start})

-----------------------------------------------------------------------------
\* A start that is not there is refused.
Known(in) == in.start \in IF in.alg = "tsp" THEN DOMAIN in.points ELSE DOMAIN in.graph

Result(in) ==
    CASE ~Known(in) -> [code |-> -1]
      [] Known(in) /\ in.alg = "search" ->
            [code |-> 0, hops |-> Bfs(in.graph, in.start), ordered |-> Dfs(in.graph)]
      [] Known(in) /\ in.alg = "mst" ->
            LET s == Mst(in.graph, in.start)
            IN  [code |-> 0, key |-> s.key, parent |-> s.parent, span |-> Listed(s)]
      [] Known(in) /\ in.alg = "shortest" ->
            LET s == Shortest(in.graph, in.start)
            IN  [code |-> 0, d |-> s.key, parent |-> s.parent, paths |-> Listed(s),
                 next |-> [v \in Listed(s) |-> Route(s, v)]]
      [] Known(in) /\ in.alg = "tsp" -> [code |-> 0, tour |-> Tsp(in.points, in.start)]

Init == input \in Inputs /\ output = NotYet
Run  == output = NotYet /\ output' = Result(input) /\ UNCHANGED input
Next == Run

Spec == Init /\ [][Next]_vars

-----------------------------------------------------------------------------
\* Reference definitions: the weight of the lightest walk between any two
\* vertices by the vertices it may pass (Inf if there is none), and the
\* weight of the lightest tree that spans what the start reaches.
Distances(g) ==
    LET via[k \in 0 .. Len(g)] ==
            IF k = 0
            THEN [v \in DOMAIN g |-> [w \in DOMAIN g |->
                    IF v = w THEN 0 ELSE IF g[v][w] = 0 THEN Inf ELSE g[v][w]]]
            ELSE [v \in DOMAIN g |-> [w \in DOMAIN g |->
                    Min({via[k - 1][v][w], via[k - 1][v][k] + via[k - 1][k][w]})]]
    IN  [v \in DOMAIN g |-> [w \in DOMAIN g |-> Min({Inf, via[Len(g)][v][w]})]]
Unweighted(g) == [v \in DOMAIN g |-> [w \in DOMAIN g |-> IF g[v][w] = 0 THEN 0 ELSE 1]]

Connects(tree, vertices) ==
    \A S \in SUBSET vertices :
        S # {} /\ S # vertices =>
            \E e \in tree : Cardinality({e[1], e[2]} \cap S) = 1
Weight(g, tree) == FoldSet(LAMBDA e, n : g[e[1]][e[2]] + n, 0, tree)
SpanningTrees(g, vertices) ==
    {tree \in kSubset(Cardinality(vertices) - 1,
                      {e \in Edges(g) : e[1] < e[2] /\ e[1] \in vertices}) :
        Connects(tree, vertices)}

\* SearchesRight: bfs finds how many edges away each vertex is and leaves -1
\* on those out of reach; dfs lists each vertex once, and before those it has
\* an edge to unless the edge is on a cycle.
SearchesRight ==
    input.alg = "search" /\ output.code = 0 =>
        LET g == input.graph
            dist == Distances(Unweighted(g))
            ordered == output.ordered
        IN  /\ \A v \in DOMAIN g :
                output.hops[v] = IF dist[input.start][v] = Inf THEN -1
                                 ELSE dist[input.start][v]
            /\ Len(ordered) = Len(g) /\ ToSet(ordered) = DOMAIN g
            /\ \A e \in Edges(g) : dist[e[2]][e[1]] = Inf =>
                \E i, j \in DOMAIN ordered : i < j /\ ordered[i] = e[1] /\ ordered[j] = e[2]

\* SpanMinimal: mst lists what the start reaches, and the parents form a tree
\* over it that weighs no more than any other.
SpanMinimal ==
    input.alg = "mst" /\ output.code = 0 =>
        LET g       == input.graph
            reached == {v \in DOMAIN g : Distances(g)[input.start][v] < Inf}
            tree    == {<<output.parent[v], v>> : v \in reached \ {input.start}}
        IN  /\ output.span = reached
            /\ tree \subseteq Edges(g) /\ Connects(tree, reached)
            /\ \A other \in SpanningTrees(g, reached) : Weight(g, tree) <= Weight(g, other)

\* PathsShortest: shortest lists what the start reaches, each vertex with the
\* least distance and a parent that is one edge nearer on a lightest path;
\* route gives the first vertex after the start on such a path.
PathsShortest ==
    input.alg = "shortest" /\ output.code = 0 =>
        LET g    == input.graph
            s    == input.start
            dist == Distances(g)
        IN  /\ output.paths = {v \in DOMAIN g : dist[s][v] < Inf}
            /\ \A v \in output.paths :
                /\ output.d[v] = dist[s][v]
                /\ v # s =>
                    LET p == output.parent[v]
                        n == output.next[v]
                    IN  /\ g[p][v] # 0 /\ dist[s][p] + g[p][v] = dist[s][v]
                        /\ g[s][n] # 0 /\ dist[s][n] + dist[n][v] = dist[s][v]

\* TourClosed: tsp visits every point once and returns to the start.
TourClosed ==
    input.alg = "tsp" /\ output.code = 0 =>
        /\ Len(output.tour) = Len(input.points) + 1
        /\ ToSet(output.tour) = DOMAIN input.points
        /\ output.tour[1] = input.start /\ Last(output.tour) = input.start
=============================================================================

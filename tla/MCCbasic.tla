------------------------------- MODULE MCCbasic -------------------------------
(***************************************************************************)
(* The structures and algorithms of Cbasic, which run in one thread and    *)
(* share nothing.  A behaviour is one of a single component, the one that  *)
(* part names; the components lend their variables from the three others.  *)
(***************************************************************************)
EXTENDS Integers, Sequences, FiniteSets, SequencesExt, TLC

CONSTANTS n1, n2, n3, n4, \* blocks of memory
          t1, t2, t3,     \* binary trees
          NULL, VACATED

VARIABLES part, mem, ret, more

svars == <<part, mem, ret, more>>

Unused == <<>>

Blocks == {n1, n2, n3}
Item(k, id) == [key |-> k, id |-> id]

-----------------------------------------------------------------------------
\* Linked lists of two values in at most three blocks, the values of the
\* circular list being the reference bits of pages.
List  == INSTANCE LinkedList WITH list <- mem, ret <- ret, Nodes <- Blocks, Data <- 1 .. 2
DList == INSTANCE DoublyLinkedList
            WITH list <- mem, ret <- ret, Nodes <- Blocks, Data <- 1 .. 2
CList == INSTANCE CircularList
            WITH list <- mem, ret <- ret, Nodes <- Blocks, Data <- 0 .. 1, MayRemoveHead <- FALSE

\* Hash tables: keys that share a bucket, two items with one key, and a
\* memory that runs out.  In the open table the steps of the keys differ, and
\* the key 0, whose step is 2, reaches half of the four places.
ChItems == {Item(k, 1) : k \in 1 .. 3} \cup {Item(1, 2)}
ChHash  == [k \in 1 .. 3 |-> 2 * k + (k \div 3)]
Chained == INSTANCE ChainedHash
            WITH htbl <- mem, last <- ret, Items <- ChItems, Buckets <- 2,
                 Hash <- ChHash, Memory <- 2
OhItems == {Item(k, 1) : k \in 0 .. 3} \cup {Item(1, 2)}
OhFirst == [k \in 0 .. 3 |-> IF k = 0 THEN 3 ELSE 5 - k]
OhStep  == [k \in 0 .. 3 |-> IF k = 0 THEN 2 ELSE 2 * k - 1]
Open    == INSTANCE OpenHash
            WITH htbl <- mem, last <- ret, Items <- OhItems, Positions <- 4,
                 H1 <- OhFirst, H2 <- OhStep, Alike <- {}

\* Three binary trees in four nodes; a search tree of six nodes, as many as
\* every double rotation needs, and seven keys; a heap whose memory runs out,
\* with two items of equal priority.
BiTree == INSTANCE BinaryTree
            WITH heap <- mem, trees <- more, ret <- ret, Nodes <- Blocks \cup {n4}, Trees <- {t1, t2, t3}
AvlItems == {Item(k, 1) : k \in 1 .. 7} \cup {Item(4, 2)}
BisTree == INSTANCE AvlTree
            WITH tree <- mem, ret <- ret, Items <- AvlItems, Memory <- 6,
                 Removable <- {Item(4, 1)}
Parcels == {[priority |-> p, id |-> 1] : p \in 1 .. 4} \cup {[priority |-> 2, id |-> 2]}
PQueue == INSTANCE Heap WITH heap <- mem, ret <- ret, Items <- Parcels, Memory <- 4

-----------------------------------------------------------------------------
\* Sets, and graphs of three vertices.
Graph == INSTANCE SetsAndGraphs WITH graph <- mem, ret <- ret, Vertices <- 1 .. 3, Memory <- 5

\* Sets as lists, and coverings: every pair of sets of three, and every choice
\* of three subsets.
Lists(n) == {s \in UNION {[1 .. k -> 1 .. n] : k \in 0 .. n} : IsInjective(s)}
SetCalls == {[set1 |-> s, set2 |-> t] : s, t \in Lists(3)}
CoverCalls ==
    {[members |-> m, subsets |-> s] :
        m \in {<<>>, <<1>>, <<2, 1, 3>>},
        s \in {u \in UNION {[1 .. k -> Lists(3)] : k \in 0 .. 2} : IsInjective(u)}}

\* Graph algorithms: every graph of four vertices for the searches and the
\* trees but some that are alike, weighted ones that are not connected, and a
\* start that is not there.
Cells == {c \in (1 .. 4) \X (1 .. 4) : c[1] # c[2]}
Matrix(f) ==
    [v \in 1 .. 4 |-> [w \in 1 .. 4 |-> IF <<v, w>> \in DOMAIN f THEN f[<<v, w>>] ELSE 0]]
Symmetric(f) == Matrix([c \in Cells |-> f[IF c[1] < c[2] THEN c ELSE <<c[2], c[1]>>]])
SearchCells == Cells \ {<<3, 1>>, <<4, 1>>, <<2, 1>>}
PathCells   == {<<1, 2>>, <<1, 3>>, <<2, 3>>, <<3, 4>>, <<2, 4>>, <<3, 2>>}
AlgorithmCalls ==
    {[alg |-> "search", graph |-> Matrix(f), start |-> 2] : f \in [SearchCells -> {0, 1}]}
    \cup {[alg |-> "mst", graph |-> Symmetric(f), start |-> 1] :
            f \in [{c \in Cells : c[1] < c[2]} -> 0 .. 2]}
    \cup {[alg |-> "shortest", graph |-> Matrix(f), start |-> 1] :
            f \in [PathCells -> {0, 1, 3}]}
    \cup {[alg |-> "tsp", points |-> p, start |-> s] :
            p \in [1 .. 3 -> (0 .. 2) \X (0 .. 1)], s \in 1 .. 4}
Algorithms == INSTANCE GraphAlgorithms
                WITH input <- mem, output <- ret, Inputs <- AlgorithmCalls

-----------------------------------------------------------------------------
\* Sorts of up to four elements with repeated keys.
Tagged(s) == [i \in DOMAIN s |-> [key |-> s[i], tag |-> i]]
Arrays    == UNION {[1 .. n -> 0 .. 2] : n \in 0 .. 4}
Rising    == {s \in Arrays : \A i, j \in DOMAIN s : i < j => s[i] <= s[j]}
SortCalls ==
    {[alg |-> a, data |-> Tagged(s)] : a \in {"qksort", "issort", "mgsort", "ctsort"}, s \in Arrays}
    \cup {[alg |-> "directls", data |-> Tagged(s)] : s \in {u \in Arrays : IsInjective(u)}}
    \cup {[alg |-> "rxsort", data |-> Tagged(s), p |-> 2, k |-> 2] : s \in [1 .. 4 -> {0, 1, 3}]}
    \cup {[alg |-> a, data |-> Tagged(s)] :
              a \in {"insert_sort", "heap_sort", "counting_sort", "quick_sort"},
              s \in Arrays}
    \cup {[alg |-> "radix_sort", data |-> Tagged(s), max |-> 4, k |-> 2] : s \in [1 .. 4 -> {0, 1, 3, 4}]}
    \cup {[alg |-> "bisearch", data |-> Tagged(s), target |-> t] : s \in Rising, t \in -1 .. 3}
Sorts == INSTANCE Sorting WITH input <- mem, data <- more, calls <- ret, Inputs <- SortCalls

\* Compression of up to six of three symbols: a window that fills and slides,
\* a phrase cut short by the end, frequencies that are scaled down.
DataUpTo(n) == UNION {[1 .. k -> 0 .. 2] : k \in 0 .. n}
CodecCalls  == [alg : {"huffman", "lz77"}, data : DataUpTo(6)]
Codecs == INSTANCE Compression
            WITH input <- mem, stream <- more, output <- ret, CharMax <- 3, CodeBits <- 16,
                 WindowSize <- 4, BufferSize <- 3, LongWords <- 1, Inputs <- CodecCalls

\* Ciphers: some blocks and keys without a pattern, every number below two
\* moduli, and strings of two bytes.
Block(n) == [i \in 1 .. 64 |-> (i * i * n + i \div (n + 1)) % 2]
DesKeys  == {Block(1), [i \in 1 .. 64 |-> IF i % 3 = 0 THEN 1 ELSE 0],
                       [i \in 1 .. 64 |-> IF i % 8 = 0 THEN 1 ELSE 0]}
Messages == {<<Block(2)>>, <<Block(3), Block(2)>>, <<Block(2), Block(5), Block(2)>>}
Bytes    == {0, 1, 127, 128, 170, 255}
RsaNumbers   == [n : {33}, e : {3}, d : {7}, m : 0 .. 32] \cup [n : {15}, e : {3}, d : {3}, m : 0 .. 14]
Ciphers == INSTANCE Encryption
            WITH subkeys <- mem, cbc <- ret, HugeBits <- 11,
                 Texts <- Messages, Keys <- DesKeys, RsaCalls <- RsaNumbers

\* Points on small grids, factorials past the width of an int, words long
\* enough that hashpjw folds their bits, letters below 0 as a signed char has
\* them among them, places on the axes of the earth and out of range, and up
\* to three points for a polynomial or a line.
Ints(s) == [i \in DOMAIN s |-> <<s[i], 1>>]
Bases   == {Ints(s) : s \in {u \in UNION {[1 .. n -> -1 .. 2] : n \in 1 .. 3} : IsInjective(u)}}
Fits(n) == {Ints(s) : s \in [1 .. n -> -1 .. 2]}
Grid(m, n)  == (0 .. m) \X (0 .. n)
NumberCalls ==
    [fun : {"cvxhull"}, points : [1 .. 3 -> Grid(2, 2)]
                                 \cup [1 .. 5 -> {<<0, 0>>, <<1, 1>>, <<2, 2>>, <<2, 1>>}]]
    \cup [fun : {"lint"}, points : [1 .. 4 -> Grid(2, 1)]]
    \cup [fun : {"fact"}, n : -1 .. 20]
    \cup [fun : {"factor"}, n : 1 .. 40]
    \cup [fun : {"geodist"}, p : (-2 .. 1) \X (-2 .. 2), q : (-1 .. 1) \X (-2 .. 3)]
    \cup {[fun |-> "interpol", x |-> s, fx |-> u, z |-> Ints(<<-1, 0, 1, 2, 3>>)] :
            s \in Bases, u \in Fits(3)}
    \cup [fun : {"lsqe"}, x : Fits(3), y : Fits(3)]
    \cup [fun : {"root"}, x : {0, 1}, step : [0 .. 2 -> -2 .. 2], n : 0 .. 4, delta : {1, 2}]
    \cup [fun : {"hashpjw"}, word : [1 .. 4 -> {-9, 1, 17, 30}] \cup [1 .. 2 -> (-8 .. 31) \ {0}]]
Numbers == INSTANCE Numerics
            WITH input <- mem, output <- ret, IntBits <- 12, Shift <- 3, TableSize <- 7,
                 Inputs <- NumberCalls

-----------------------------------------------------------------------------
Init ==
    \/ /\ more = Unused
       /\ \/ part = "list"     /\ List!Init
          \/ part = "dlist"    /\ DList!Init
          \/ part = "clist"    /\ CList!Init
          \/ part = "chtbl"    /\ Chained!Init
          \/ part = "ohtbl"    /\ Open!Init
          \/ part = "bistree"  /\ BisTree!Init
          \/ part = "heap"     /\ PQueue!Init
          \/ part = "graph"    /\ Graph!Init
          \/ part = "set"      /\ mem \in SetCalls /\ ret = Unused
          \/ part = "cover"    /\ mem \in CoverCalls /\ ret = Unused
          \/ part = "graphalg" /\ Algorithms!Init
          \/ part = "cipher"   /\ Ciphers!Init
          \/ part = "number"   /\ Numbers!Init
          \/ part = "tables"   /\ mem = Unused /\ ret = Unused
          \/ part = "bytes"    /\ mem \in Bytes \X Bytes /\ ret = Unused
    \/ part = "bitree" /\ BiTree!Init
    \/ part = "sort"   /\ Sorts!Init
    \/ part = "codec"  /\ Codecs!Init

MoreKept == UNCHANGED <<part, more>>
PartKept == UNCHANGED part

ListStep      == part = "list" /\ List!Next /\ MoreKept
DListStep     == part = "dlist" /\ DList!Next /\ MoreKept
CListStep     == part = "clist" /\ CList!Next /\ MoreKept
ChainedStep   == part = "chtbl" /\ Chained!Next /\ MoreKept
OpenStep      == part = "ohtbl" /\ Open!Next /\ MoreKept
BisTreeStep   == part = "bistree" /\ BisTree!Next /\ MoreKept
PQueueStep    == part = "heap" /\ PQueue!Next /\ MoreKept
GraphStep     == part = "graph" /\ Graph!Next /\ MoreKept
AlgorithmStep == part = "graphalg" /\ Algorithms!Next /\ MoreKept
CipherStep    == part = "cipher" /\ Ciphers!Next /\ MoreKept
NumberStep    == part = "number" /\ Numbers!Next /\ MoreKept
BiTreeStep    == part = "bitree" /\ BiTree!Next /\ PartKept
SortStep      == part = "sort" /\ Sorts!Next /\ PartKept
CodecStep     == part = "codec" /\ Codecs!Next /\ PartKept

Next ==
    \/ ListStep \/ DListStep \/ CListStep
    \/ ChainedStep \/ OpenStep
    \/ BiTreeStep \/ BisTreeStep \/ PQueueStep \/ GraphStep
    \/ AlgorithmStep \/ SortStep \/ CodecStep \/ CipherStep \/ NumberStep

Spec == Init /\ [][Next]_svars

-----------------------------------------------------------------------------
\* The structures of Cbasic are whole after every call: every element of a
\* list, node of a tree and item of a table is reached, once, in each way there
\* is, none is freed while it is, and the sizes count them; balance factors are
\* true and heaps ordered; no edge leads out of a graph.
StructuresWhole ==
    /\ part = "list"    => List!WellLinked
    /\ part = "dlist"   => DList!WellLinked
    /\ part = "clist"   => CList!WellLinked
    /\ part = "chtbl"   => Chained!SizeCounts
    /\ part = "ohtbl"   => Open!SizeCounts
    /\ part = "bitree"  => BiTree!NodesOwned /\ BiTree!TraversalsVisitAll
    /\ part = "bistree" => BisTree!AvlBalanced
    /\ part = "heap"    => PQueue!HeapOrdered
    /\ part = "graph"   => Graph!GraphWellFormed

\* In the lists of list.c, dlist.c and clist.c an insertion or removal is where
\* the caller asked, and moves no other element; a stack is last in first out
\* and a queue first in first out.
ListsAreSequences ==
    [][/\ part = "list"  => List!IsSequence
       /\ part = "dlist" => DList!IsSequence
       /\ part = "clist" => CList!IsSequence]_svars

\* The tables of chtbl.c and ohtbl.c answer as a set of items with distinct
\* keys would, whatever collides and whatever was removed before.
TablesAreSets ==
    [][/\ part = "chtbl" => Chained!IsItemTable /\ Chained!LexKnows
       /\ part = "ohtbl" => Open!IsItemTable]_svars

\* The search tree of bistree.c answers as a set of keys, the hidden ones not
\* in it; the heap of heap.c gives its items by their priority and loses none;
\* and the graph of graph.c is its sets of vertices and edges, which a call
\* changes as it says or not at all.
TreesAndGraphsAnswer ==
    [][/\ part = "bistree" => BisTree!IsKeySet
       /\ part = "heap"    => PQueue!IsPriorityQueue
       /\ part = "graph"   => Graph!IsGraph]_svars

\* bfs.c, dfs.c, mst.c, shortest.c with route.c, and tsp.c agree with their
\* definitions: distances, a topological order, a lightest tree, lightest
\* paths and the first hop on them, and a closed tour; the operations of set.c
\* are those on sets, and cover.c covers when it can.
AlgorithmsRight ==
    /\ part = "graphalg" => /\ Algorithms!SearchesRight /\ Algorithms!SpanMinimal
                            /\ Algorithms!PathsShortest /\ Algorithms!TourClosed
    /\ part = "set"   => Graph!AlgebraRight(mem.set1, mem.set2)
    /\ part = "cover" => Graph!CoverRight(mem.members, mem.subsets)

\* The sorts give the same elements in order, the quick sort whatever its
\* pivots and after each partition; the binary search finds what is there.
SortsAndSearches == part = "sort" => Sorts!SortsRight /\ Sorts!SearchFinds

\* huffman.c, with the transfer, and lz77.c give back the data they were
\* given; des.c, cbc.c and rsa.c the text, unless the subkeys were changed, and
\* the tables of des.c are those of a cipher; bit.c sets the bit it is asked to.
CodecsRestore ==
    /\ part = "codec"  => Codecs!Restored /\ Codecs!Accepted
    /\ part = "cipher" => Ciphers!Deciphers
    /\ part = "tables" => Ciphers!TablesRight
    /\ part = "bytes"  => Ciphers!BitsRight(mem)

\* cvxhull.c and lint.c agree with the definitions of a hull and of segments
\* that meet, fact.c with facttail.c, factor.c with the product of primes;
\* hashpjw.c stays in its table until the sign bit is reached; geodist.c is a
\* distance; interpol.c is the polynomial through its points, lsqe.c their
\* line, and root.c stops where it says.
NumbersRight ==
    part = "number" => /\ Numbers!HullRight /\ Numbers!MeetsRight
                       /\ Numbers!FactorsRight /\ Numbers!HashInTable
                         /\ Numbers!DistancesRight /\ Numbers!MethodsRight
=============================================================================

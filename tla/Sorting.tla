------------------------------- MODULE Sorting -------------------------------
(***************************************************************************)
(* The sorts of Cbasic (issort.c, qksort.c, mgsort.c, ctsort.c, rxsort.c)  *)
(* and its binary search (bisearch.c), with the listing of a directory     *)
(* that uses the one (directls.c) and the spelling checker that uses the   *)
(* other (spell.c).  Their strings are keys too, which strcmp compares.    *)
(* The drafts of the first edition are sorts of their own (1/temp).        *)
(*                                                                         *)
(* An element is a record with the key that compare looks at and a tag     *)
(* that it does not.  Arrays start at 0 in the code and at 1 here.  qksort *)
(* draws its pivots with rand, so it is a machine of its own: calls is the *)
(* stack of the ranges it has still to sort.  The others take one step.    *)
(***************************************************************************)
EXTENDS Integers, Sequences, FiniteSets, SequencesExt, FiniteSetsExt, TLC

CONSTANTS Inputs     \* records: alg, data, and what else the sort takes

VARIABLES
    input,    \* the call
    data,     \* the array
    calls     \* the ranges that are still to be sorted, the next one first

vars == <<input, data, calls>>

Whole(a)      == <<1, Len(a)>>
Swapped(a, i, j) == [a EXCEPT ![i] = a[j], ![j] = a[i]]
Digit(e, n, k)   == (e.key \div k ^ n) % k

-----------------------------------------------------------------------------
\* issort: each element is put behind the last of the sorted ones before it
\* that is not greater.
InsertSorted(sorted, e) ==
    LET greater == {i \in DOMAIN sorted :
                      \A j \in i .. Len(sorted) : sorted[j].key > e.key}
    IN  InsertAt(sorted, IF greater = {} THEN Len(sorted) + 1 ELSE Min(greater), e)
InsertionSorted(a) == FoldLeft(InsertSorted, <<>>, a)

\* mgsort: merge takes the right half's element first when keys are equal.
RECURSIVE Merge(_, _)
Merge(left, right) ==
    IF left = <<>> THEN right
    ELSE IF right = <<>> THEN left
    ELSE IF Head(left).key < Head(right).key
         THEN <<Head(left)>> \o Merge(Tail(left), right)
         ELSE <<Head(right)>> \o Merge(left, Tail(right))
RECURSIVE MgSorted(_)
MgSorted(a) ==
    IF Len(a) <= 1 THEN a
    ELSE LET j == Len(a) \div 2
         IN  Merge(MgSorted(SubSeq(a, 1, j)), MgSorted(SubSeq(a, j + 1, Len(a))))

\* ctsort and each round of rxsort: count the digits, add the counts up, and
\* put the elements at the places the counts say, from the last to the first.
CountUpTo(idx, d) == Cardinality({i \in DOMAIN idx : idx[i] <= d})
PlaceByUnder(idx, i) ==
    CountUpTo(idx, idx[i]) - Cardinality({j \in 1 .. i - 1 : idx[j] = idx[i]})
PlaceBy(idx, i) ==
    CountUpTo(idx, idx[i]) - Cardinality({j \in i + 1 .. Len(idx) : idx[j] = idx[i]})
Counted(a, idx) ==
    [p \in DOMAIN a |-> a[CHOOSE i \in DOMAIN a : PlaceBy(idx, i) = p]]
CtSorted(a) == Counted(a, [i \in DOMAIN a |-> a[i].key])
RxSorted(a, p, k) ==
    FoldLeft(LAMBDA b, n : Counted(b, [i \in DOMAIN b |-> Digit(b[i], n - 1, k)]),
             a, [n \in 1 .. p |-> n])

\* The drafts.  insert_sort shifts what is greater than the element to the
\* right and puts the element over the first that is not.
RECURSIVE Shifted(_, _, _)
Shifted(a, flag, j) ==
    IF j = 1 THEN a
    ELSE IF a[j - 1].key > flag.key
    THEN Shifted([a EXCEPT ![j] = a[j - 1], ![j - 1] = flag], flag, j - 1)
    ELSE [a EXCEPT ![j - 1] = flag]
InsertSort(a) == FoldLeft(LAMBDA b, i : Shifted(b, b[i], i), a, [i \in 1 .. Len(a) |-> i])

\* heap_sort: an element sinks until it is greater than both its children,
\* the right one of two equal ones first; then the first and the last of the
\* heap change places until one is left.
RECURSIVE Sunk(_, _, _)
Sunk(a, parent, n) ==
    LET left == 2 * parent
        max_pos == IF left < n /\ a[left].key <= a[left + 1].key THEN left + 1 ELSE left
    IN  IF left > n THEN a
        ELSE IF a[parent].key > a[max_pos].key THEN a
        ELSE Sunk(Swapped(a, parent, max_pos), max_pos, n)
Heaped(a) ==
    FoldLeft(LAMBDA b, i : Sunk(b, Len(a) \div 2 + 1 - i, Len(a)), a,
             [i \in 1 .. Len(a) \div 2 |-> i])
HeapSort(a) ==
    FoldLeft(LAMBDA b, i : LET len == Len(a) + 1 - i
                           IN  Sunk(Swapped(b, 1, len), 1, len - 1),
             Heaped(a), [i \in 1 .. Len(a) - 1 |-> i])

\* counting_sort has a count for each of some keys, and radix_sort a round for
\* each digit of its greatest number.
RECURSIVE Loops(_, _)
Loops(t, k) == IF t = 0 THEN 0 ELSE 1 + Loops(t \div k, k)
CountingSort(a)      == Counted(a, [i \in DOMAIN a |-> a[i].key])
RadixSort(a, max, k) == RxSorted(a, Loops(max, k), k)

\* bisearch: a position of the target in a sorted array, or -1.
RECURSIVE Bisearch(_, _, _, _)
Bisearch(a, target, left, right) ==
    LET middle == (left + right) \div 2
    IN  IF left > right THEN -1
        ELSE IF a[middle + 1].key < target THEN Bisearch(a, target, middle + 1, right)
        ELSE IF a[middle + 1].key > target THEN Bisearch(a, target, left, middle - 1)
        ELSE middle

\* spell: bisearch with a comparison of strings.
Spell(dictionary, word) ==
    IF Bisearch(dictionary, word, 0, Len(dictionary) - 1) >= 0 THEN 1 ELSE 0

-----------------------------------------------------------------------------
\* partition: the two indices walk towards each other and swap what is on the
\* wrong side of the pivot; the boundary is where k stops.
RECURSIVE Parted(_, _, _, _)
Parted(a, i, k, pval) ==
    LET kk == Max({x \in 1 .. k - 1 : a[x].key <= pval})
        ii == Min({x \in i + 1 .. Len(a) : a[x].key >= pval})
    IN  IF ii >= kk THEN [data |-> a, j |-> kk]
        ELSE Parted(Swapped(a, ii, kk), ii, kk, pval)

\* The three draws are sorted by place, so any place of the range may be the
\* middle one.
Partition(i, k, r) == Parted(data, i - 1, k + 1, data[r].key)

\* The draft's partition puts what is smaller than the last element before it.
RECURSIVE Pivoted(_, _, _, _)
Pivoted(a, i, j, last) ==
    IF j = last THEN [data |-> Swapped(a, i + 1, last), center |-> i + 1]
    ELSE IF a[j].key < a[last].key
    THEN Pivoted(Swapped(a, i + 1, j), i + 1, j + 1, last)
    ELSE Pivoted(a, i, j + 1, last)

\* A call on fewer than two elements returns at once, and is left out.
Proper(range) == range[1] < range[2]

\* A directory is read before it is sorted; when realloc fails, directls gives
\* back what it has and returns -1, as it does without a directory.
Reading == <<0, 0>>
Failed  == <<0, -1>>

Init ==
    /\ input \in Inputs
    /\ data = IF input.alg = "directls" THEN <<>> ELSE input.data
    /\ calls = CASE input.alg = "bisearch" -> <<>>
                 [] input.alg = "directls" -> <<Reading>>
                 [] OTHER -> SelectSeq(<<Whole(data)>>, Proper)

ReadEntry ==
    /\ calls = <<Reading>>
    /\ \/ /\ Len(data) < Len(input.data)
          /\ data' = Append(data, input.data[Len(data) + 1]) /\ UNCHANGED calls
       \/ /\ Len(data) < Len(input.data)
          /\ data' = <<>> /\ calls' = <<Failed>>
       \/ /\ Len(data) = Len(input.data)
          /\ calls' = SelectSeq(<<Whole(data)>>, Proper) /\ UNCHANGED data
    /\ UNCHANGED input

SortRange ==
    /\ calls \notin {<<>>, <<Reading>>, <<Failed>>} /\ input.alg \in {"qksort", "directls"}
    /\ \E r \in calls[1][1] .. calls[1][2] :
        LET i == calls[1][1]
            k == calls[1][2]
            p == Partition(i, k, r)
        IN  /\ data' = p.data
            /\ calls' = SelectSeq(<<<<i, p.j>>, <<p.j + 1, k>>>>, Proper) \o Tail(calls)
    /\ UNCHANGED input

QuickSort ==
    /\ calls # <<>> /\ input.alg = "quick_sort"
    /\ \E rand_pos \in calls[1][1] .. calls[1][2] :
        LET first == calls[1][1]
            last  == calls[1][2]
            p == Pivoted(Swapped(data, rand_pos, last), first - 1, first, last)
        IN  /\ data' = p.data
            /\ calls' = SelectSeq(<<<<first, p.center - 1>>, <<p.center + 1, last>>>>, Proper)
                           \o Tail(calls)
    /\ UNCHANGED input

SortAtOnce ==
    /\ calls # <<>> /\ input.alg \notin {"qksort", "directls", "quick_sort"}
    /\ data' = CASE input.alg = "issort" -> InsertionSorted(data)
                 [] input.alg = "mgsort" -> MgSorted(data)
                 [] input.alg = "ctsort" -> CtSorted(data)
                 [] input.alg = "rxsort" -> RxSorted(data, input.p, input.k)
                 [] input.alg = "insert_sort"   -> InsertSort(data)
                 [] input.alg = "heap_sort"     -> HeapSort(data)
                 [] input.alg = "counting_sort" -> CountingSort(data)
                 [] input.alg = "radix_sort"    -> RadixSort(data, input.max, input.k)
    /\ calls' = <<>>
    /\ UNCHANGED input

Next == ReadEntry \/ SortRange \/ QuickSort \/ SortAtOnce

Spec == Init /\ [][Next]_vars

-----------------------------------------------------------------------------
Ordered(a)   == \A i, j \in DOMAIN a : i < j => a[i].key <= a[j].key
Stable(a)    == \A i, j \in DOMAIN a : i < j /\ a[i].key = a[j].key => a[i].tag < a[j].tag
Covers(c, i) == c[1] <= i /\ i <= c[2]

\* SortsRight: no step loses or duplicates an element; whatever pivots rand
\* gives, an element that no pending range covers is where it belongs, and a
\* pending range holds what belongs there.  The insertion sort and the
\* counting sorts keep equal elements in their order.  The merge sort does
\* not, and the quick sorts and the heap sort need not.  A directory is listed
\* as a whole or not at all.  The insertion sort of the drafts always leaves an
\* ordered array, but one with every element only of what was descending.
Descending(a) == \A i, j \in DOMAIN a : i < j => a[i].key > a[j].key
SortsRight ==
    IF calls \in {<<Reading>>, <<Failed>>} THEN IsPrefix(data, input.data) ELSE
    /\ (ToSet(data) = ToSet(input.data))
          <=> (input.alg = "insert_sort" /\ calls = <<>> => Descending(input.data))
    /\ Len(data) = Len(input.data)
    /\ \A i, j \in DOMAIN data :
        /\ i < j /\ data[i].key > data[j].key
        => \E c \in ToSet(calls) : Covers(c, i) /\ Covers(c, j)
    /\ calls = <<>> /\ input.alg \in {"issort", "ctsort", "rxsort", "counting_sort", "radix_sort"} => Stable(data)

\* SearchFinds: the binary search answers a position of the target exactly
\* when the array has one, and the spelling checker 1.
SearchFinds ==
    input.alg = "bisearch" =>
        LET at == Bisearch(input.data, input.target, 0, Len(input.data) - 1)
        IN  IF \E i \in DOMAIN input.data : input.data[i].key = input.target
            THEN /\ at + 1 \in DOMAIN input.data /\ input.data[at + 1].key = input.target
                 /\ Spell(input.data, input.target) = 1
            ELSE at = -1 /\ Spell(input.data, input.target) = 0
=============================================================================

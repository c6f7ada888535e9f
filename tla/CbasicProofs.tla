----------------------------- MODULE CbasicProofs -----------------------------
(***************************************************************************)
(* The hash tables and the graph of Cbasic, for any size and any memory.   *)
(*                                                                         *)
(* The two hash tables implement the abstract table: the chained one for   *)
(* any number of buckets and any hash function; the open one for any       *)
(* number of places and any two hash functions.  What makes the first      *)
(* inductive is that an item is in the bucket of its key and that no       *)
(* bucket has a key twice, so that a search of one bucket is one of the    *)
(* whole table; the second, that the probes for an item do not meet a NULL *)
(* before they come to it, whatever was removed on the way, and that no    *)
(* key is there twice.                                                     *)
(*                                                                         *)
(* The graph is its sets of vertices and edges: a vertex has one adjacency *)
(* list, a list repeats no vertex and has none that the graph lacks, so    *)
(* that a change of one list is one of a single edge.                      *)
(***************************************************************************)
EXTENDS ChainedHash, SequenceTheorems, FunctionTheorems, FiniteSetTheorems,
        WellFoundedInduction, TLAPS

\* The parameters of OpenHash; its items and variables are those of ChainedHash.
CONSTANTS Positions, H1, H2, Alike, NULL, VACATED

Open == INSTANCE OpenHash

\* The graph of graph.c, its vertices and what it keeps.
CONSTANT Vertices
VARIABLES graph, ret

Graph == INSTANCE SetsAndGraphs

-----------------------------------------------------------------------------
\* The chained table.
Bins == 0 .. Buckets - 1

HashAssumption == /\ Buckets \in Nat \ {0}
                  /\ \A x \in Items : Hash[x.key] \in Nat

Typed == /\ htbl \in [size : Nat, table : [Bins -> Seq(Items)]]
         /\ last.code \in {-1, 0, 1}
Placed == \A b \in Bins : \A i \in DOMAIN htbl.table[b] : Bucket(htbl.table[b][i]) = b
Single ==
    \A b \in Bins : \A i, j \in DOMAIN htbl.table[b] :
        htbl.table[b][i].key = htbl.table[b][j].key => i = j
Counted == IsFiniteSet(Contents) /\ htbl.size = Cardinality(Contents)

IInv == Typed /\ Placed /\ Single /\ Counted

-----------------------------------------------------------------------------
\* What a sequence is after an element is put first, or one is taken out.
LEMMA FirstPut ==
    ASSUME NEW S, NEW x \in S, NEW s \in Seq(S)
    PROVE  /\ <<x>> \o s \in Seq(S)
           /\ DOMAIN (<<x>> \o s) = 1 .. Len(s) + 1
           /\ \A i \in 1 .. Len(s) + 1 : (<<x>> \o s)[i] = IF i = 1 THEN x ELSE s[i - 1]
<1>1. <<x>> \in Seq(S) /\ Len(<<x>>) = 1 /\ <<x>>[1] = x
  OBVIOUS
<1>2. /\ <<x>> \o s \in Seq(S)
      /\ Len(<<x>> \o s) = 1 + Len(s)
      /\ \A i \in 1 .. 1 + Len(s) : (<<x>> \o s)[i] = IF i <= 1 THEN <<x>>[i] ELSE s[i - 1]
  BY <1>1, ConcatProperties
<1>3. DOMAIN (<<x>> \o s) = 1 .. Len(s) + 1
  BY <1>2, LenProperties
<1>. QED
  BY <1>1, <1>2, <1>3

LEMMA OneOut ==
    ASSUME NEW S, NEW s \in Seq(S), NEW k \in DOMAIN s
    PROVE  /\ RemoveAt(s, k) \in Seq(S)
           /\ DOMAIN RemoveAt(s, k) = 1 .. Len(s) - 1
           /\ \A i \in 1 .. Len(s) - 1 :
                RemoveAt(s, k)[i] = IF i < k THEN s[i] ELSE s[i + 1]
<1>. DEFINE before == SubSeq(s, 1, k - 1)
            after  == SubSeq(s, k + 1, Len(s))
<1>1. Len(s) \in Nat /\ DOMAIN s = 1 .. Len(s) /\ k \in 1 .. Len(s)
  BY LenProperties
<1>2. \A i \in 1 .. Len(s) : s[i] \in S
  BY <1>1, ElementOfSeq
<1>3. /\ before \in Seq(S) /\ Len(before) = k - 1
      /\ \A i \in 1 .. k - 1 : before[i] = s[i]
  <2>1. \A i \in 1 .. k - 1 : s[i] \in S
    BY <1>1, <1>2
  <2>2. /\ before \in Seq(S)
        /\ Len(before) = IF 1 <= k - 1 THEN k - 1 - 1 + 1 ELSE 0
        /\ \A i \in 1 .. k - 1 - 1 + 1 : before[i] = s[1 + i - 1]
    BY <1>1, <2>1, SubSeqProperties
  <2>. QED
    BY <2>2, <1>1
<1>4. /\ after \in Seq(S) /\ Len(after) = Len(s) - k
      /\ \A i \in 1 .. Len(s) - k : after[i] = s[k + i]
  <2>1. \A i \in k + 1 .. Len(s) : s[i] \in S
    BY <1>1, <1>2
  <2>2. /\ after \in Seq(S)
        /\ Len(after) = IF k + 1 <= Len(s) THEN Len(s) - (k + 1) + 1 ELSE 0
        /\ \A i \in 1 .. Len(s) - (k + 1) + 1 : after[i] = s[k + 1 + i - 1]
    BY <1>1, <2>1, SubSeqProperties
  <2>. HIDE DEF after
  <2>3. Len(after) = Len(s) - k
    BY <2>2, <1>1
  <2>4. ASSUME NEW i \in 1 .. Len(s) - k PROVE after[i] = s[k + i]
    <3>1. i \in 1 .. Len(s) - (k + 1) + 1 /\ k + 1 + i - 1 = k + i
      BY <1>1
    <3>. QED
      BY <3>1, <2>2
  <2>. QED
    BY <2>2, <2>3, <2>4
<1>5. /\ before \o after \in Seq(S)
      /\ Len(before \o after) = Len(s) - 1
      /\ \A i \in 1 .. Len(s) - 1 :
            (before \o after)[i] = IF i <= k - 1 THEN before[i] ELSE after[i - (k - 1)]
  <2>. HIDE DEF before, after
  <2>1. /\ before \o after \in Seq(S)
        /\ Len(before \o after) = Len(before) + Len(after)
        /\ \A i \in 1 .. Len(before) + Len(after) :
              (before \o after)[i]
                = IF i <= Len(before) THEN before[i] ELSE after[i - Len(before)]
    BY <1>3, <1>4, ConcatProperties
  <2>2. Len(before) + Len(after) = Len(s) - 1
    BY <1>1, <1>3, <1>4
  <2>. QED
    BY <2>1, <2>2, <1>3
<1>. HIDE DEF before, after
<1>6. ASSUME NEW i \in 1 .. Len(s) - 1
      PROVE  (before \o after)[i] = IF i < k THEN s[i] ELSE s[i + 1]
  <2>1. CASE i < k
    <3>1. i <= k - 1 /\ i \in 1 .. k - 1
      BY <2>1, <1>1
    <3>. QED
      BY <2>1, <3>1, <1>3, <1>5
  <2>2. CASE ~(i < k)
    <3>1. ~(i <= k - 1) /\ i - (k - 1) \in 1 .. Len(s) - k /\ k + (i - (k - 1)) = i + 1
      BY <2>2, <1>1
    <3>2. after[i - (k - 1)] = s[i + 1]
      BY <3>1, <1>4
    <3>. QED
      BY <2>2, <3>1, <3>2, <1>5
  <2>. QED
    BY <2>1, <2>2
<1>7. DOMAIN (before \o after) = 1 .. Len(s) - 1
  BY <1>5, LenProperties
<1>. QED
  BY <1>5, <1>6, <1>7 DEF RemoveAt, before, after

-----------------------------------------------------------------------------
LEMMA BucketInRange == ASSUME HashAssumption, NEW x \in Items PROVE Bucket(x) \in Bins
BY DEF HashAssumption, Bucket, Bins

\* What is in the table, by place.
LEMMA InTable ==
    ASSUME IInv, NEW y
    PROVE  y \in Contents <=> \E b \in Bins : \E i \in DOMAIN htbl.table[b] : y = htbl.table[b][i]
BY DEF Contents, ToSet, Bins

\* A search of the bucket of a key is a search of the table.
LEMMA SearchIsWhole ==
    ASSUME HashAssumption, IInv, NEW x \in Items
    PROVE  /\ A!SameKey(x) = Given(x)
           /\ Matches(x) = {} <=> A!SameKey(x) = {}
           /\ Matches(x) # {} => /\ Found(x) \in Matches(x)
                                 /\ \A i \in Matches(x) : i = Found(x)
<1>. DEFINE b == Bucket(x)
            s == htbl.table[b]
<1>1. b \in Bins
  BY BucketInRange
<1>2. s \in Seq(Items) /\ DOMAIN s \subseteq Int
  BY <1>1, LenProperties DEF IInv, Typed
<1>3. \A i, j \in Matches(x) : i = j
  BY <1>1 DEF Matches, IInv, Single
<1>4. Matches(x) # {} => Found(x) \in Matches(x) /\ \A i \in Matches(x) : i = Found(x)
  <2>. SUFFICES ASSUME Matches(x) # {} PROVE Found(x) \in Matches(x)
    BY <1>3
  <2>1. PICK k \in Matches(x) : TRUE
    OBVIOUS
  <2>2. \A j \in Matches(x) : k <= j
    <3>. SUFFICES ASSUME NEW j \in Matches(x) PROVE k <= j
      OBVIOUS
    <3>1. k = j /\ k \in Int
      BY <1>2, <1>3 DEF Matches
    <3>. QED
      BY <3>1
  <2>. QED
    BY <2>2 DEF Found
<1>5. ASSUME NEW y \in Contents, y.key = x.key PROVE \E i \in Matches(x) : y = s[i]
  <2>1. PICK c \in Bins : \E i \in DOMAIN htbl.table[c] : y = htbl.table[c][i]
    BY InTable
  <2>2. PICK i \in DOMAIN htbl.table[c] : y = htbl.table[c][i]
    BY <2>1
  <2>3. Bucket(y) = c
    BY <2>2 DEF IInv, Placed
  <2>4. c = b
    BY <2>3, <1>5 DEF Bucket
  <2>. QED
    BY <2>2, <2>4, <1>5 DEF Matches
<1>6. \A i \in Matches(x) : s[i] \in Contents /\ s[i].key = x.key
  BY <1>1, InTable DEF Matches
<1>7. CASE Matches(x) = {}
  BY <1>5, <1>7 DEF Given, A!SameKey
<1>8. CASE Matches(x) # {}
  <2>1. Given(x) = {s[Found(x)]}
    BY <1>8 DEF Given
  <2>2. A!SameKey(x) = {s[Found(x)]}
    BY <1>4, <1>5, <1>6, <1>8 DEF A!SameKey
  <2>. QED
    BY <2>1, <2>2, <1>4, <1>8
<1>. QED
  BY <1>7, <1>8

\* The step of an insertion that finds room.
InsertNew(x) ==
    /\ Matches(x) = {}
    /\ htbl' = [size  |-> htbl.size + 1,
                table |-> [htbl.table EXCEPT ![Bucket(x)] = <<x>> \o @]]
LEMMA Inserts ==
    ASSUME HashAssumption, IInv, NEW x \in Items, InsertNew(x)
    PROVE  /\ htbl' \in [size : Nat, table : [Bins -> Seq(Items)]]
           /\ Placed' /\ Single' /\ Counted'
           /\ Contents' = Contents \cup {x}
<1>. DEFINE b == Bucket(x)
            s == htbl.table[b]
            t == <<x>> \o s
<1>1. b \in Bins /\ s \in Seq(Items) /\ htbl.size \in Nat
  BY BucketInRange DEF IInv, Typed
<1>2. /\ t \in Seq(Items) /\ DOMAIN t = 1 .. Len(s) + 1
      /\ \A i \in 1 .. Len(s) + 1 : t[i] = IF i = 1 THEN x ELSE s[i - 1]
  BY <1>1, FirstPut
<1>3. Len(s) \in Nat /\ DOMAIN s = 1 .. Len(s)
  BY <1>1, LenProperties
<1>4. /\ htbl'.size = htbl.size + 1
      /\ htbl'.table \in [Bins -> Seq(Items)]
      /\ htbl'.table[b] = t /\ \A c \in Bins \ {b} : htbl'.table[c] = htbl.table[c]
      /\ htbl' \in [size : Nat, table : [Bins -> Seq(Items)]]
  BY <1>1, <1>2 DEF InsertNew, IInv, Typed
<1>. HIDE DEF t, s
<1>5. \A i \in DOMAIN t : t[i] = x \/ \E j \in DOMAIN s : t[i] = s[j]
  <2>. SUFFICES ASSUME NEW i \in DOMAIN t, i # 1 PROVE \E j \in DOMAIN s : t[i] = s[j]
    BY <1>2, <1>3
  <2>1. i - 1 \in DOMAIN s /\ t[i] = s[i - 1]
    BY <1>2, <1>3
  <2>. QED
    BY <2>1
<1>6. Placed'
  <2>. SUFFICES ASSUME NEW c \in Bins, NEW i \in DOMAIN htbl'.table[c]
                PROVE  Bucket(htbl'.table[c][i]) = c
    BY DEF Placed, Bucket
  <2>1. CASE c = b
    BY <2>1, <1>4, <1>5, <1>1 DEF IInv, Placed, s
  <2>2. CASE c # b
    BY <2>2, <1>4 DEF IInv, Placed
  <2>. QED
    BY <2>1, <2>2
<1>7. \A j \in DOMAIN s : s[j].key # x.key
  BY DEF InsertNew, Matches, s
<1>8. Single'
  <2>. SUFFICES ASSUME NEW c \in Bins,
                       NEW i \in DOMAIN htbl'.table[c], NEW j \in DOMAIN htbl'.table[c],
                       htbl'.table[c][i].key = htbl'.table[c][j].key
                PROVE  i = j
    BY DEF Single
  <2>1. CASE c = b
    <3>1. i \in 1 .. Len(s) + 1 /\ j \in 1 .. Len(s) + 1 /\ t[i].key = t[j].key
      BY <2>1, <1>2, <1>4
    <3>2. CASE i = 1 /\ j # 1
      <4>1. j - 1 \in DOMAIN s /\ t[j] = s[j - 1] /\ t[i] = x
        BY <3>1, <3>2, <1>2, <1>3
      <4>. QED
        BY <4>1, <3>1, <1>7
    <3>3. CASE i # 1 /\ j = 1
      <4>1. i - 1 \in DOMAIN s /\ t[i] = s[i - 1] /\ t[j] = x
        BY <3>1, <3>3, <1>2, <1>3
      <4>. QED
        BY <4>1, <3>1, <1>7
    <3>4. CASE i # 1 /\ j # 1
      <4>1. /\ i - 1 \in DOMAIN s /\ j - 1 \in DOMAIN s
            /\ s[i - 1].key = s[j - 1].key
        BY <3>1, <3>4, <1>2, <1>3
      <4>2. i - 1 = j - 1
        BY <4>1, <1>1 DEF IInv, Single, s
      <4>. QED
        BY <4>2, <3>1, <1>3
    <3>. QED
      BY <3>2, <3>3, <3>4
  <2>2. CASE c # b
    BY <2>2, <1>4 DEF IInv, Single
  <2>. QED
    BY <2>1, <2>2
<1>9. Contents' = Contents \cup {x}
  <2>1. ToSet(t) = ToSet(s) \cup {x}
    <3>1. \A j \in DOMAIN s : \E i \in DOMAIN t : t[i] = s[j]
      <4>. SUFFICES ASSUME NEW j \in DOMAIN s PROVE \E i \in DOMAIN t : t[i] = s[j]
        OBVIOUS
      <4>1. j + 1 \in DOMAIN t /\ t[j + 1] = s[j]
        BY <1>2, <1>3
      <4>. QED
        BY <4>1
    <3>2. 1 \in DOMAIN t /\ t[1] = x
      BY <1>2, <1>3
    <3>. QED
      BY <3>1, <3>2, <1>5 DEF ToSet
  <2>. QED
    BY <2>1, <1>1, <1>4 DEF Contents, Bins, s
<1>10. x \notin Contents
  <2>1. Given(x) = {}
    BY DEF InsertNew, Given
  <2>2. A!SameKey(x) = {}
    BY <2>1, SearchIsWhole
  <2>. QED
    BY <2>2 DEF A!SameKey
<1>11. Counted'
  BY <1>4, <1>9, <1>10, FS_AddElement DEF IInv, Counted
<1>. QED
  BY <1>4, <1>6, <1>8, <1>9, <1>11

\* The step of a removal that finds its item.
Take(x) ==
    /\ Matches(x) # {}
    /\ htbl' = [size  |-> htbl.size - 1,
                table |-> [htbl.table EXCEPT ![Bucket(x)] = RemoveAt(@, Found(x))]]
LEMMA Takes ==
    ASSUME HashAssumption, IInv, NEW x \in Items, Take(x)
    PROVE  /\ htbl' \in [size : Nat, table : [Bins -> Seq(Items)]]
           /\ Placed' /\ Single' /\ Counted'
           /\ Contents' = Contents \ A!SameKey(x)
<1>. DEFINE b == Bucket(x)
            s == htbl.table[b]
            k == Found(x)
            t == RemoveAt(s, k)
<1>1. b \in Bins /\ s \in Seq(Items)
  BY BucketInRange DEF IInv, Typed
<1>2. k \in DOMAIN s /\ s[k].key = x.key
  BY SearchIsWhole DEF Take, Matches
<1>3. /\ t \in Seq(Items) /\ DOMAIN t = 1 .. Len(s) - 1
      /\ \A i \in 1 .. Len(s) - 1 : t[i] = IF i < k THEN s[i] ELSE s[i + 1]
  BY <1>1, <1>2, OneOut
<1>4. Len(s) \in Nat /\ DOMAIN s = 1 .. Len(s)
  BY <1>1, LenProperties
<1>5. A!SameKey(x) = {s[k]}
  BY SearchIsWhole DEF Take, Given
<1>6. s[k] \in Contents
  BY <1>5 DEF A!SameKey
<1>7. /\ Cardinality(Contents) \in Nat /\ Cardinality(Contents) # 0
      /\ IsFiniteSet(Contents) /\ htbl.size = Cardinality(Contents)
  BY <1>6, FS_CardinalityType, FS_EmptySet DEF IInv, Counted
<1>8. /\ htbl'.size = htbl.size - 1
      /\ htbl'.table \in [Bins -> Seq(Items)]
      /\ htbl'.table[b] = t /\ \A c \in Bins \ {b} : htbl'.table[c] = htbl.table[c]
      /\ htbl' \in [size : Nat, table : [Bins -> Seq(Items)]]
  BY <1>1, <1>3, <1>7 DEF Take, IInv, Typed
<1>. HIDE DEF t, s, k
\* Every place after the removal has the item of another before it.
<1>. DEFINE Old(i) == IF i < k THEN i ELSE i + 1
<1>9. \A i \in DOMAIN t : Old(i) \in DOMAIN s /\ Old(i) # k /\ t[i] = s[Old(i)]
  BY <1>2, <1>3, <1>4
<1>10. \A i, j \in DOMAIN t : Old(i) = Old(j) => i = j
  BY <1>2, <1>3, <1>4
<1>11. \A n \in DOMAIN s : n # k => \E i \in DOMAIN t : Old(i) = n
  <2>. SUFFICES ASSUME NEW n \in DOMAIN s, n # k PROVE \E i \in DOMAIN t : Old(i) = n
    OBVIOUS
  <2>1. CASE n < k
    BY <2>1, <1>2, <1>3, <1>4
  <2>2. CASE n > k
    <3>1. n - 1 \in DOMAIN t /\ Old(n - 1) = n
      BY <2>2, <1>2, <1>3, <1>4
    <3>. QED
      BY <3>1
  <2>. QED
    BY <2>1, <2>2, <1>2, <1>4
<1>. HIDE DEF Old
<1>12. Placed'
  <2>. SUFFICES ASSUME NEW c \in Bins, NEW i \in DOMAIN htbl'.table[c]
                PROVE  Bucket(htbl'.table[c][i]) = c
    BY DEF Placed, Bucket
  <2>1. CASE c = b
    BY <2>1, <1>1, <1>8, <1>9 DEF IInv, Placed, s
  <2>2. CASE c # b
    BY <2>2, <1>8 DEF IInv, Placed
  <2>. QED
    BY <2>1, <2>2
<1>13. Single'
  <2>. SUFFICES ASSUME NEW c \in Bins,
                       NEW i \in DOMAIN htbl'.table[c], NEW j \in DOMAIN htbl'.table[c],
                       htbl'.table[c][i].key = htbl'.table[c][j].key
                PROVE  i = j
    BY DEF Single
  <2>1. CASE c = b
    <3>1. /\ i \in DOMAIN t /\ j \in DOMAIN t
          /\ s[Old(i)].key = s[Old(j)].key
      BY <2>1, <1>8, <1>9
    <3>2. Old(i) = Old(j)
      BY <3>1, <1>1, <1>9 DEF IInv, Single, s
    <3>. QED
      BY <3>1, <3>2, <1>10
  <2>2. CASE c # b
    BY <2>2, <1>8 DEF IInv, Single
  <2>. QED
    BY <2>1, <2>2
<1>14. Contents' = Contents \ {s[k]}
  <2>1. ASSUME NEW c \in Bins, NEW n \in DOMAIN htbl.table[c], htbl.table[c][n] = s[k]
        PROVE  c = b /\ n = k
    <3>1. c = b
      BY <2>1, <1>1, <1>2 DEF IInv, Placed, s
    <3>. QED
      BY <2>1, <3>1, <1>1, <1>2 DEF IInv, Single, s
  <2>2. ASSUME NEW y \in Contents', y \notin Contents \ {s[k]} PROVE FALSE
    <3>1. PICK c \in Bins : \E i \in DOMAIN htbl'.table[c] : y = htbl'.table[c][i]
      BY DEF Contents, ToSet, Bins
    <3>2. PICK i \in DOMAIN htbl'.table[c] : y = htbl'.table[c][i]
      BY <3>1
    <3>3. CASE c = b
      <4>1. y = s[Old(i)] /\ Old(i) \in DOMAIN s /\ Old(i) # k
        BY <3>2, <3>3, <1>8, <1>9
      <4>2. y \in Contents
        BY <4>1, <1>1, InTable DEF s
      <4>. QED
        BY <4>1, <4>2, <2>1, <2>2, <1>1 DEF s
    <3>4. CASE c # b
      <4>1. i \in DOMAIN htbl.table[c] /\ y = htbl.table[c][i]
        BY <3>2, <3>4, <1>8
      <4>2. y \in Contents
        BY <4>1, InTable
      <4>. QED
        BY <4>1, <4>2, <2>1, <2>2, <3>4
    <3>. QED
      BY <3>3, <3>4
  <2>3. ASSUME NEW y \in Contents, y # s[k] PROVE y \in Contents'
    <3>1. PICK c \in Bins : \E i \in DOMAIN htbl.table[c] : y = htbl.table[c][i]
      BY InTable
    <3>2. PICK n \in DOMAIN htbl.table[c] : y = htbl.table[c][n]
      BY <3>1
    <3>3. \E i \in DOMAIN htbl'.table[c] : y = htbl'.table[c][i]
      <4>1. CASE c = b
        <5>1. n \in DOMAIN s /\ n # k /\ y = s[n]
          BY <4>1, <3>2, <2>3 DEF s
        <5>2. PICK i \in DOMAIN t : Old(i) = n
          BY <5>1, <1>11
        <5>. QED
          BY <4>1, <5>1, <5>2, <1>8, <1>9
      <4>2. CASE c # b
        BY <4>2, <3>2, <1>8
      <4>. QED
        BY <4>1, <4>2
    <3>. QED
      BY <3>3 DEF Contents, ToSet, Bins
  <2>. QED
    BY <2>2, <2>3, <1>2, <2>1, <1>1
<1>15. Counted'
  BY <1>6, <1>7, <1>8, <1>14, FS_RemoveElement DEF Counted
<1>. QED
  BY <1>5, <1>8, <1>12, <1>13, <1>14, <1>15

-----------------------------------------------------------------------------
LEMMA NothingIn ==
    ASSUME HashAssumption, htbl = Empty
    PROVE  /\ htbl \in [size : Nat, table : [Bins -> Seq(Items)]]
           /\ Placed /\ Single /\ Counted /\ Contents = {}
<1>1. /\ htbl \in [size : Nat, table : [Bins -> Seq(Items)]] /\ htbl.size = 0
      /\ \A b \in Bins : htbl.table[b] = <<>>
  BY DEF Empty, Bins
<1>2. \A b \in Bins : DOMAIN htbl.table[b] = {}
  BY <1>1
<1>3. Placed /\ Single
  BY <1>2 DEF Placed, Single
<1>4. Contents = {}
  BY <1>2 DEF Contents, ToSet, Bins
<1>5. Counted
  BY <1>1, <1>4, FS_EmptySet DEF Counted
<1>. QED
  BY <1>1, <1>3, <1>4, <1>5

LEMMA InitTable == ASSUME HashAssumption, Init PROVE IInv /\ A!Init
BY NothingIn DEF Init, IInv, Typed, Call, A!Init, A!Call

\* Every call keeps the invariant and answers as the abstract table does.
LEMMA StepTable ==
    ASSUME HashAssumption, IInv, [Next]_vars
    PROVE  IInv' /\ [A!Next]_<<Contents, last>>
<1>1. ASSUME UNCHANGED htbl PROVE Placed' /\ Single' /\ Counted' /\ UNCHANGED Contents
  BY <1>1 DEF IInv, Placed, Single, Counted, Contents, Bucket
<1>2. ASSUME NEW x \in Items, Lookup(x) PROVE IInv' /\ A!Lookup(x)
  <2>1. last' = A!Call("lookup", x, IF A!SameKey(x) = {} THEN -1 ELSE 0, A!SameKey(x))
    BY <1>2, SearchIsWhole DEF Lookup, Call, A!Call
  <2>. QED
    BY <1>1, <1>2, <2>1 DEF Lookup, A!Lookup, Call, IInv, Typed
<1>3. ASSUME NEW x \in Items, Insert(x) PROVE IInv' /\ A!Insert(x)
  <2>1. CASE Matches(x) # {} /\ last' = Call("insert", x, 1, {}) /\ UNCHANGED htbl
    BY <2>1, <1>1, SearchIsWhole DEF A!Insert, Call, A!Call, IInv, Typed
  <2>2. CASE InsertNew(x) /\ last' = Call("insert", x, 0, {})
    BY <2>2, Inserts, SearchIsWhole DEF InsertNew, A!Insert, Call, A!Call, IInv, Typed
  <2>3. CASE /\ Matches(x) = {} /\ htbl.size = Memory
             /\ last' = Call("insert", x, -1, {}) /\ UNCHANGED htbl
    <3>1. Cardinality(Contents) >= Memory /\ A!Cardinality(Contents) = Cardinality(Contents)
      BY <2>3 DEF IInv, Counted, Typed, A!Cardinality, Cardinality
    <3>. QED
      BY <2>3, <3>1, <1>1 DEF A!Insert, Call, A!Call, IInv, Typed
  <2>. QED
    BY <1>3, <2>1, <2>2, <2>3 DEF Insert, InsertNew
<1>4. ASSUME NEW x \in Items, Delete(x) PROVE IInv' /\ A!Delete(x)
  <2>1. CASE Matches(x) = {}
    <3>1. last' = Call("remove", x, -1, {}) /\ UNCHANGED htbl /\ A!SameKey(x) = {}
      BY <2>1, <1>4, SearchIsWhole DEF Delete
    <3>. QED
      BY <3>1, <1>1 DEF A!Delete, Call, A!Call, IInv, Typed
  <2>2. CASE Matches(x) # {}
    <3>1. Take(x) /\ last' = Call("remove", x, 0, Given(x))
      BY <2>2, <1>4 DEF Delete, Take
    <3>2. A!SameKey(x) = Given(x) /\ A!SameKey(x) # {}
      BY <2>2, SearchIsWhole
    <3>. QED
      BY <3>1, <3>2, Takes DEF A!Delete, Call, A!Call, IInv, Typed
  <2>. QED
    BY <2>1, <2>2
<1>5. ASSUME Destroy PROVE IInv' /\ A!Destroy
  <2>1. htbl' = Empty /\ last' = Call("destroy", {}, 0, Contents)
    BY <1>5 DEF Destroy, Contents
  <2>2. /\ htbl' \in [size : Nat, table : [Bins -> Seq(Items)]]
        /\ Placed' /\ Single' /\ Counted' /\ Contents' = {}
    <3>1. /\ htbl' \in [size : Nat, table : [Bins -> Seq(Items)]] /\ htbl'.size = 0
          /\ \A b \in Bins : htbl'.table[b] = <<>>
      BY <2>1 DEF Empty, Bins
    <3>2. \A b \in Bins : DOMAIN htbl'.table[b] = {}
      BY <3>1
    <3>3. Placed' /\ Single'
      BY <3>2 DEF Placed, Single
    <3>4. Contents' = {}
      BY <3>2 DEF Contents, ToSet, Bins
    <3>5. Counted'
      BY <3>1, <3>4, FS_EmptySet DEF Counted
    <3>. QED
      BY <3>1, <3>3, <3>4, <3>5
  <2>. QED
    BY <2>1, <2>2 DEF A!Destroy, Call, A!Call, IInv, Typed
<1>6. ASSUME UNCHANGED vars PROVE IInv' /\ UNCHANGED <<Contents, last>>
  BY <1>6, <1>1 DEF vars, IInv, Typed
<1>. QED
  BY <1>2, <1>3, <1>4, <1>5, <1>6 DEF Next, A!Next

\* A table of any number of buckets, under any hash function and with any
\* memory, answers every call as a set of items with distinct keys would, and
\* its size is the number of the items (chtbl_insert, chtbl_remove,
\* chtbl_lookup, chtbl_destroy).
THEOREM ChainedIsItemTable == ASSUME HashAssumption PROVE Spec => A!Spec
<1>1. Init => IInv /\ A!Init
  BY InitTable
<1>2. IInv /\ [Next]_vars => IInv' /\ [A!Next]_<<Contents, last>>
  BY StepTable
<1>. QED
  BY <1>1, <1>2, PTL DEF Spec, A!Spec

\* And the size that callers read is the number of the items.
THEOREM SizeIsCardinality ==
    ASSUME HashAssumption PROVE Spec => [](htbl.size = Cardinality(Contents))
<1>1. Init => IInv
  BY InitTable
<1>2. IInv /\ [Next]_vars => IInv'
  BY StepTable
<1>3. IInv => htbl.size = Cardinality(Contents)
  BY DEF IInv, Counted
<1>. QED
  BY <1>1, <1>2, <1>3, PTL DEF Spec
-----------------------------------------------------------------------------
(* The open-addressed table.                                               *)

Places == 0 .. Positions - 1

\* A table has a place, and hashes are not negative.  No user's match finds
\* the sentinel equal to an item: see Alike.
OpenAssumption ==
    /\ Positions \in Nat \ {0}
    /\ \A x \in Items : H1[x.key] \in Nat /\ H2[x.key] \in Nat /\ x.key \notin Alike
    /\ NULL \notin Items /\ VACATED \notin Items /\ NULL # VACATED

Used == {p \in Places : htbl.table[p] \in Items}

OpenTyped == htbl \in [size : Nat, table : [Places -> Items \cup {NULL, VACATED}]]
Reached ==
    \A p \in Used : \E i \in Open!Steps :
        /\ Open!Probe(htbl.table[p], i) = p
        /\ \A j \in 0 .. i - 1 : Open!At(htbl.table[p], j) # NULL
OneKey == \A p, q \in Used : htbl.table[p].key = htbl.table[q].key => p = q
OpenCounted == htbl.size = Cardinality(Used)

OpenInv == OpenTyped /\ Reached /\ OneKey /\ OpenCounted

-----------------------------------------------------------------------------
(* The least element of a set of numbers, and of the sizes of the reaches. *)

LEMMA HasLeast ==
    ASSUME NEW S \in SUBSET Nat, S # {}
    PROVE  \E i \in S : \A j \in S : i <= j
<1>. DEFINE R == OpToRel(<, Nat)
<1>1. PICK i \in S : \A j \in S : <<j, i>> \notin R
  BY NatLessThanWellFounded, WFMin
<1>2. \A j \in S : ~(j < i)
  BY <1>1 DEF OpToRel
<1>. QED
  BY <1>2

LEMMA FirstIs ==
    ASSUME NEW S \in SUBSET Nat
    PROVE  /\ S # {} => Open!FirstStep(S) # {}
           /\ \A i \in Open!FirstStep(S) : i \in S /\ \A j \in S : i <= j
           /\ \A i, j \in Open!FirstStep(S) : i = j
BY HasLeast DEF Open!FirstStep

LEMMA ProbeInTable ==
    ASSUME OpenAssumption, NEW x \in Items, NEW i \in Open!Steps
    PROVE  Open!Probe(x, i) \in Places
<1>1. H1[x.key] \in Nat /\ H2[x.key] \in Nat /\ i \in Nat /\ Positions \in Nat \ {0}
  BY DEF OpenAssumption, Open!Steps
<1>2. H1[x.key] + i * H2[x.key] \in Nat
  BY <1>1
<1>3. \A n \in Nat : n % Positions \in 0 .. Positions - 1
  BY <1>1
<1>. QED
  BY <1>2, <1>3 DEF Open!Probe, Places

LEMMA ReachFinite ==
    ASSUME OpenAssumption, NEW x \in Items
    PROVE  /\ Open!Reach(x) \subseteq Places /\ IsFiniteSet(Open!Reach(x))
           /\ Cardinality(Open!Reach(x)) \in 0 .. Positions
<1>1. Open!Reach(x) \subseteq Places
  BY ProbeInTable DEF Open!Reach
<1>2. IsFiniteSet(Places) /\ Cardinality(Places) = Positions
  BY FS_Interval DEF Places, OpenAssumption
<1>. QED
  BY <1>1, <1>2, FS_Subset, FS_CardinalityType DEF OpenAssumption

LEMMA GuaranteeIs ==
    ASSUME OpenAssumption, NEW x \in Items
    PROVE  Open!Guarantee \in 0 .. Positions /\ Cardinality(Open!Reach(x)) >= Open!Guarantee
<1>. DEFINE Sizes == {Cardinality(Open!Reach(y)) : y \in Items}
            Good(n) == /\ \A y \in Items : Cardinality(Open!Reach(y)) >= n
                       /\ \E y \in Items : Cardinality(Open!Reach(y)) = n
<1>1. Sizes \subseteq 0 .. Positions /\ Sizes # {}
  BY ReachFinite
<1>2. PICK n \in Sizes : \A m \in Sizes : n <= m
  <2>1. Sizes \in SUBSET Nat
    BY <1>1 DEF OpenAssumption
  <2>. HIDE DEF Sizes
  <2>. QED
    BY <2>1, <1>1, HasLeast
<1>3. n \in 0 .. Positions /\ Good(n)
  BY <1>1, <1>2
<1>4. Open!Guarantee \in 0 .. Positions /\ Good(Open!Guarantee)
  BY <1>3 DEF Open!Guarantee, Open!Cardinality, Cardinality
<1>. QED
  BY <1>4

-----------------------------------------------------------------------------
(* A search ends at the place of the item with its key, or at a NULL.      *)

Stops(x) == {i \in Open!Steps : \/ Open!At(x, i) = NULL
                                \/ Open!At(x, i) \in Items /\ Open!At(x, i).key = x.key}
Hits(x)  == {i \in Open!FirstStep(Stops(x)) : Open!At(x, i) # NULL}
Bound(x) == {p \in Used : htbl.table[p].key = x.key}

LEMMA Ends ==
    ASSUME OpenAssumption, OpenTyped, NEW x \in Items
    PROVE  Open!LookupEnd(x) = Open!FirstStep(Stops(x)) /\ Open!RemoveEnd(x) = Open!FirstStep(Stops(x))
<1>1. \A i \in Open!Steps : Open!At(x, i) \in Items \cup {NULL, VACATED}
  BY ProbeInTable DEF OpenTyped, Open!At
<1>2. \A i \in Open!Steps : (Open!At(x, i) = NULL \/ Open!Matches(x, Open!At(x, i))) <=> i \in Stops(x)
  BY <1>1 DEF Stops, Open!Matches, OpenAssumption
<1>3. {i \in Open!Steps : Open!At(x, i) = NULL \/ Open!Matches(x, Open!At(x, i))} = Stops(x)
  BY <1>2 DEF Stops
<1>4. {i \in Open!Steps : \/ Open!At(x, i) = NULL
                          \/ Open!At(x, i) # VACATED /\ Open!At(x, i).key = x.key} = Stops(x)
  BY <1>1 DEF Stops, OpenAssumption
<1>. QED
  BY <1>3, <1>4 DEF Open!LookupEnd, Open!RemoveEnd

LEMMA Finds ==
    ASSUME OpenAssumption, OpenTyped, Reached, OneKey, NEW x \in Items
    PROVE  /\ \A i \in Hits(x) : i \in Open!Steps /\ Open!Probe(x, i) \in Bound(x)
           /\ \A i, j \in Hits(x) : i = j
           /\ {Open!Probe(x, i) : i \in Hits(x)} = Bound(x)
           /\ {Open!At(x, i) : i \in Hits(x)} = Open!A!SameKey(x)
<1>1. Stops(x) \subseteq Nat /\ Stops(x) \subseteq Open!Steps
  BY DEF Stops, Open!Steps
<1>2. /\ Stops(x) # {} => Open!FirstStep(Stops(x)) # {}
      /\ \A i \in Open!FirstStep(Stops(x)) : i \in Stops(x) /\ \A j \in Stops(x) : i <= j
      /\ \A i, j \in Open!FirstStep(Stops(x)) : i = j
  BY <1>1, FirstIs
<1>3. ASSUME NEW i \in Hits(x) PROVE i \in Open!Steps /\ Open!Probe(x, i) \in Bound(x)
  <2>1. i \in Open!Steps /\ Open!At(x, i) \in Items /\ Open!At(x, i).key = x.key
    BY <1>2 DEF Hits, Stops
  <2>. QED
    BY <2>1, ProbeInTable DEF Bound, Used, Open!At
<1>4. ASSUME NEW p \in Bound(x) PROVE \E i \in Hits(x) : Open!Probe(x, i) = p
  <2>1. p \in Used /\ htbl.table[p].key = x.key
    BY DEF Bound
  <2>2. PICK i \in Open!Steps : /\ Open!Probe(htbl.table[p], i) = p
                           /\ \A j \in 0 .. i - 1 : Open!At(htbl.table[p], j) # NULL
    BY <2>1 DEF Reached
  <2>3. /\ Open!Probe(x, i) = p /\ Open!At(x, i) = htbl.table[p]
        /\ \A j \in 0 .. i - 1 : Open!At(x, j) # NULL
    BY <2>1, <2>2 DEF Open!Probe, Open!At
  <2>4. i \in Stops(x) /\ Open!At(x, i) # NULL
    BY <2>1, <2>3 DEF Stops, Used, OpenAssumption
  <2>5. PICK k \in Open!FirstStep(Stops(x)) : k \in Stops(x) /\ k <= i
    BY <2>4, <1>2
  <2>6. Open!At(x, k) # NULL
    <3>1. k \in 0 .. i - 1 \/ k = i
      BY <2>5 DEF Stops, Open!Steps
    <3>. QED
      BY <3>1, <2>3, <2>4
  <2>7. k \in Hits(x)
    BY <2>5, <2>6 DEF Hits
  <2>8. Open!Probe(x, k) = p
    BY <2>7, <1>3, <2>1 DEF OneKey, Bound
  <2>. QED
    BY <2>7, <2>8
<1>5. {Open!Probe(x, i) : i \in Hits(x)} = Bound(x)
  BY <1>3, <1>4
<1>6. Open!A!SameKey(x) = {htbl.table[p] : p \in Bound(x)}
  BY DEF Open!A!SameKey, Open!Contents, Bound, Used, OpenTyped, OpenAssumption
<1>7. {Open!At(x, i) : i \in Hits(x)} = Open!A!SameKey(x)
  BY <1>3, <1>4, <1>6 DEF Open!At
<1>. QED
  BY <1>2, <1>3, <1>5, <1>7 DEF Hits

LEMMA LookupFinds ==
    ASSUME OpenAssumption, OpenInv, NEW x \in Items
    PROVE  Open!LookedUp(x) = Open!A!SameKey(x)
BY Ends, Finds DEF OpenInv, Open!LookedUp, Hits

-----------------------------------------------------------------------------
(* The items, counted by their places.                                     *)

LEMMA UsedFinite ==
    ASSUME OpenAssumption
    PROVE  IsFiniteSet(Used) /\ Cardinality(Used) \in Nat
<1>1. IsFiniteSet(Places)
  BY FS_Interval DEF Places, OpenAssumption
<1>2. Used \in SUBSET Places
  BY DEF Used
<1>. QED
  BY <1>1, <1>2, FS_Subset, FS_CardinalityType

LEMMA ContentsAre ==
    ASSUME OpenAssumption, OpenTyped
    PROVE  Open!Contents = {htbl.table[p] : p \in Used}
BY DEF Open!Contents, Used, OpenTyped, OpenAssumption

LEMMA CountsItems ==
    ASSUME OpenAssumption, OpenTyped, OneKey
    PROVE  Cardinality(Open!Contents) = Cardinality(Used)
<1>. DEFINE f == [p \in Used |-> htbl.table[p]]
<1>1. Open!Contents = {htbl.table[p] : p \in Used}
  BY ContentsAre
<1>2. f \in [Used -> Open!Contents]
  BY <1>1
<1>3. \A p, q \in Used : f[p] = f[q] => p = q
  BY DEF OneKey
<1>4. \A y \in Open!Contents : \E p \in Used : f[p] = y
  BY <1>1
<1>. HIDE DEF f
<1>5. f \in Bijection(Used, Open!Contents)
  BY <1>2, <1>3, <1>4 DEF Bijection, Injection, IsInjective, Surjection
<1>. QED
  BY <1>5, UsedFinite, FS_Bijection DEF ExistsBijection

\* A table that refuses an item has at least Open!Guarantee.
LEMMA Refuses ==
    ASSUME OpenAssumption, OpenInv, NEW x \in Items,
           \/ htbl.size = Positions
           \/ Open!FreeSteps(x) = {}
    PROVE  Cardinality(Open!Contents) >= Open!Guarantee
<1>1. Cardinality(Open!Contents) = Cardinality(Used) /\ Cardinality(Used) \in Nat
  BY CountsItems, UsedFinite DEF OpenInv
<1>2. Open!Guarantee \in 0 .. Positions /\ Cardinality(Open!Reach(x)) >= Open!Guarantee
  BY GuaranteeIs
<1>3. CASE htbl.size = Positions
  BY <1>1, <1>2, <1>3 DEF OpenInv, OpenCounted, OpenAssumption
<1>4. CASE Open!FreeSteps(x) = {}
  <2>. DEFINE F == {i \in Open!Steps : Open!At(x, i) \in {NULL, VACATED}}
  <2>1. F = {}
    <3>1. F \in SUBSET Nat /\ Open!FirstStep(F) = {}
      BY <1>4 DEF Open!FreeSteps, Open!Steps
    <3>. HIDE DEF F
    <3>. QED
      BY <3>1, FirstIs
  <2>2. \A i \in Open!Steps : Open!At(x, i) \in Items
    BY <2>1, ProbeInTable DEF OpenInv, OpenTyped, Open!At
  <2>3. Open!Reach(x) \subseteq Used
    BY <2>2, ProbeInTable DEF Open!Reach, Used, Open!At
  <2>4. Cardinality(Open!Reach(x)) <= Cardinality(Used) /\ Cardinality(Open!Reach(x)) \in Nat
    BY <2>3, UsedFinite, FS_Subset, ReachFinite
  <2>. QED
    BY <2>4, <1>1, <1>2
<1>. QED
  BY <1>3, <1>4

-----------------------------------------------------------------------------
(* What a call that changes the table leaves.                              *)

\* The item goes to the first place of its probe that has none.
Put(x, i) ==
    /\ i \in Open!FreeSteps(x) /\ Open!LookedUp(x) = {}
    /\ htbl' = [size  |-> htbl.size + 1,
                table |-> [htbl.table EXCEPT ![Open!Probe(x, i)] = x]]

LEMMA Puts ==
    ASSUME OpenAssumption, OpenInv, NEW x \in Items, NEW i, Put(x, i)
    PROVE  OpenInv' /\ Open!Contents' = Open!Contents \cup {x}
<1>. DEFINE p == Open!Probe(x, i)
<1>0. OpenTyped /\ Reached /\ OneKey /\ OpenCounted
  BY DEF OpenInv
<1>1. /\ i \in Open!Steps /\ Open!At(x, i) \in {NULL, VACATED}
      /\ \A j \in 0 .. i - 1 : Open!At(x, j) # NULL
  <2>. DEFINE F == {j \in Open!Steps : Open!At(x, j) \in {NULL, VACATED}}
  <2>1. F \in SUBSET Nat /\ i \in Open!FirstStep(F)
    BY DEF Put, Open!FreeSteps, Open!Steps
  <2>2. i \in F /\ \A j \in F : i <= j
    <3>. HIDE DEF F
    <3>. QED
      BY <2>1, FirstIs
  <2>3. ASSUME NEW j \in 0 .. i - 1, Open!At(x, j) = NULL PROVE FALSE
    <3>1. j \in F
      BY <2>2, <2>3 DEF Open!Steps, OpenAssumption
    <3>. QED
      BY <3>1, <2>2 DEF Open!Steps
  <2>. QED
    BY <2>2, <2>3
<1>2. p \in Places /\ p \notin Used
  BY <1>1, ProbeInTable DEF Open!At, Used, OpenAssumption
<1>3. /\ htbl' \in [size : Nat, table : [Places -> Items \cup {NULL, VACATED}]]
      /\ htbl'.size = htbl.size + 1
      /\ \A q \in Places : htbl'.table[q] = IF q = p THEN x ELSE htbl.table[q]
  BY <1>0, <1>2 DEF Put, OpenTyped
<1>4. Used' = Used \cup {p}
  BY <1>2, <1>3 DEF Used
<1>5. Open!Contents' = Open!Contents \cup {x}
  <2>1. OpenTyped'
    BY <1>3 DEF OpenTyped
  <2>2. Open!Contents' = {htbl'.table[q] : q \in Used'}
    BY <2>1, ContentsAre DEF Open!Contents, Used, OpenTyped, OpenAssumption
  <2>. QED
    BY <2>2, <1>0, <1>2, <1>3, <1>4, ContentsAre DEF Used
<1>6. OneKey'
  <2>1. \A q \in Used : htbl.table[q].key # x.key
    BY LookupFinds, ContentsAre, <1>0 DEF Put, Open!A!SameKey
  <2>. QED
    BY <2>1, <1>0, <1>2, <1>3, <1>4 DEF OneKey, Used
<1>7. OpenCounted'
  <2>1. Cardinality(Used \cup {p}) = Cardinality(Used) + 1
    <3>. HIDE DEF p
    <3>. QED
      BY <1>2, UsedFinite, FS_AddElement
  <2>. QED
    BY <2>1, <1>0, <1>3, <1>4 DEF OpenCounted
<1>8. Reached'
  <2>. SUFFICES ASSUME NEW q \in Used'
                PROVE  \E k \in Open!Steps :
                        /\ Open!Probe(htbl'.table[q], k) = q
                        /\ \A j \in 0 .. k - 1 : htbl'.table[Open!Probe(htbl'.table[q], j)] # NULL
    BY DEF Reached, Open!At, Open!Probe, Open!Steps
  <2>1. \A y \in Items : \A j \in Open!Steps : Open!At(y, j) # NULL => htbl'.table[Open!Probe(y, j)] # NULL
    BY <1>3, ProbeInTable DEF Open!At, OpenAssumption
  <2>2. CASE q = p
    <3>1. htbl'.table[q] = x
      BY <2>2, <1>2, <1>3
    <3>2. \A j \in 0 .. i - 1 : htbl'.table[Open!Probe(x, j)] # NULL
      BY <1>1, <2>1 DEF Open!Steps, OpenAssumption
    <3>. QED
      BY <3>1, <3>2, <2>2, <1>1
  <2>3. CASE q # p
    <3>1. q \in Used /\ htbl'.table[q] = htbl.table[q]
      BY <2>3, <1>3, <1>4 DEF Used
    <3>2. PICK k \in Open!Steps : /\ Open!Probe(htbl.table[q], k) = q
                             /\ \A j \in 0 .. k - 1 : Open!At(htbl.table[q], j) # NULL
      BY <3>1, <1>0 DEF Reached
    <3>3. \A j \in 0 .. k - 1 : htbl'.table[Open!Probe(htbl.table[q], j)] # NULL
      BY <3>1, <3>2, <2>1 DEF Open!Steps, OpenAssumption, Used
    <3>. QED
      BY <3>1, <3>2, <3>3
  <2>. QED
    BY <2>2, <2>3
<1>. QED
  BY <1>3, <1>5, <1>6, <1>7, <1>8 DEF OpenInv, OpenTyped

\* The place of the item that is removed becomes vacated, never NULL.
Vacate(x) ==
    /\ htbl'.size = htbl.size - Cardinality(Hits(x))
    /\ htbl' = [size |-> htbl'.size,
                table |-> [p \in DOMAIN htbl.table |->
                    IF p \in {Open!Probe(x, i) : i \in Hits(x)} THEN VACATED ELSE htbl.table[p]]]

LEMMA Vacates ==
    ASSUME OpenAssumption, OpenInv, NEW x \in Items, Vacate(x)
    PROVE  OpenInv' /\ Open!Contents' = Open!Contents \ Open!A!SameKey(x)
<1>0. OpenTyped /\ Reached /\ OneKey /\ OpenCounted
  BY DEF OpenInv
<1>1. /\ \A i \in Hits(x) : i \in Open!Steps /\ Open!Probe(x, i) \in Bound(x)
      /\ \A i, j \in Hits(x) : i = j
      /\ {Open!Probe(x, i) : i \in Hits(x)} = Bound(x)
  BY <1>0, Finds
<1>2. Bound(x) \subseteq Used /\ \A p, q \in Bound(x) : p = q
  BY <1>0 DEF Bound, OneKey
<1>3. /\ Cardinality(Hits(x)) = Cardinality(Bound(x)) /\ Cardinality(Bound(x)) \in Nat
      /\ Cardinality(Used \ Bound(x)) = Cardinality(Used) - Cardinality(Bound(x))
  <2>1. CASE Bound(x) = {}
    <3>1. Hits(x) = {} /\ Used \ Bound(x) = Used
      BY <2>1, <1>1
    <3>. QED
      BY <3>1, <2>1, FS_EmptySet, UsedFinite
  <2>2. ASSUME NEW p \in Bound(x)
        PROVE  /\ Cardinality(Hits(x)) = 1 /\ Cardinality(Bound(x)) = 1
               /\ Cardinality(Used \ Bound(x)) = Cardinality(Used) - 1
    <3>1. PICK i \in Hits(x) : p = Open!Probe(x, i)
      BY <1>1
    <3>2. Hits(x) = {i} /\ Bound(x) = {p}
      BY <3>1, <1>1, <1>2
    <3>3. Cardinality({i}) = 1 /\ Cardinality({p}) = 1
      BY FS_Singleton
    <3>4. Cardinality(Used \ {p}) = Cardinality(Used) - 1
      BY <1>2, UsedFinite, FS_RemoveElement
    <3>. QED
      BY <3>2, <3>3, <3>4
  <2>. QED
    BY <2>1, <2>2
<1>4. /\ htbl'.size = Cardinality(Used \ Bound(x)) /\ htbl'.size \in Nat
      /\ htbl' \in [size : Nat, table : [Places -> Items \cup {NULL, VACATED}]]
      /\ \A p \in Places :
            htbl'.table[p] = IF p \in Bound(x) THEN VACATED ELSE htbl.table[p]
  <2>1. htbl'.size = Cardinality(Used \ Bound(x))
    BY <1>0, <1>3 DEF Vacate, OpenCounted
  <2>2. htbl'.size \in Nat
    <3>1. IsFiniteSet(Used \ Bound(x))
      BY UsedFinite, FS_Subset
    <3>. QED
      BY <3>1, <2>1, FS_CardinalityType
  <2>. QED
    BY <2>1, <2>2, <1>0, <1>1 DEF Vacate, OpenTyped
<1>5. Used' = Used \ Bound(x)
  BY <1>4, <1>0 DEF Used, OpenAssumption, OpenTyped
<1>6. Open!Contents' = Open!Contents \ Open!A!SameKey(x)
  <2>1. OpenTyped'
    BY <1>4 DEF OpenTyped
  <2>2. Open!Contents' = {htbl'.table[q] : q \in Used'}
    BY <2>1, ContentsAre DEF Open!Contents, Used, OpenTyped, OpenAssumption
  <2>3. \A q \in Used' : htbl'.table[q] = htbl.table[q]
    BY <1>4, <1>5 DEF Used
  <2>4. Open!Contents = {htbl.table[q] : q \in Used} /\ Open!A!SameKey(x) = {htbl.table[q] : q \in Bound(x)}
    BY <1>0, ContentsAre DEF Open!A!SameKey, Bound
  <2>. QED
    BY <2>2, <2>3, <2>4, <1>2, <1>5, <1>0 DEF Bound
<1>7. OneKey'
  BY <1>0, <1>4, <1>5 DEF OneKey, Used
<1>8. OpenCounted'
  BY <1>4, <1>5 DEF OpenCounted
<1>9. Reached'
  <2>. SUFFICES ASSUME NEW q \in Used'
                PROVE  \E k \in Open!Steps :
                        /\ Open!Probe(htbl'.table[q], k) = q
                        /\ \A j \in 0 .. k - 1 : htbl'.table[Open!Probe(htbl'.table[q], j)] # NULL
    BY DEF Reached, Open!At, Open!Probe, Open!Steps
  <2>1. q \in Used /\ htbl'.table[q] = htbl.table[q]
    BY <1>4, <1>5 DEF Used
  <2>2. PICK k \in Open!Steps : /\ Open!Probe(htbl.table[q], k) = q
                           /\ \A j \in 0 .. k - 1 : Open!At(htbl.table[q], j) # NULL
    BY <2>1, <1>0 DEF Reached
  <2>3. ASSUME NEW j \in 0 .. k - 1 PROVE htbl'.table[Open!Probe(htbl.table[q], j)] # NULL
    <3>1. htbl.table[q] \in Items /\ j \in Open!Steps
      BY <2>1 DEF Used, Open!Steps, OpenAssumption
    <3>2. Open!Probe(htbl.table[q], j) \in Places
      BY <3>1, ProbeInTable
    <3>. QED
      BY <3>2, <2>2, <1>4 DEF Open!At, OpenAssumption
  <2>. QED
    BY <2>1, <2>2, <2>3
<1>. QED
  BY <1>4, <1>6, <1>7, <1>8, <1>9 DEF OpenInv, OpenTyped

LEMMA NothingOpen ==
    ASSUME OpenAssumption, htbl = Open!Empty
    PROVE  OpenInv /\ Open!Contents = {}
<1>1. /\ htbl \in [size : Nat, table : [Places -> Items \cup {NULL, VACATED}]]
      /\ htbl.size = 0 /\ \A p \in Places : htbl.table[p] = NULL
  BY DEF Open!Empty, Places
<1>2. OpenTyped /\ Used = {}
  BY <1>1 DEF OpenTyped, Used, OpenAssumption
<1>. QED
  BY <1>1, <1>2, ContentsAre, FS_EmptySet DEF OpenInv, Reached, OneKey, OpenCounted

-----------------------------------------------------------------------------
\* Every call keeps the invariant and answers as the abstract table does.
LEMMA OpenStep ==
    ASSUME OpenAssumption, OpenInv, [Open!Next]_(Open!vars)
    PROVE  OpenInv' /\ [Open!A!Next]_<<Open!Contents, last>>
<1>1. ASSUME UNCHANGED htbl PROVE OpenInv' /\ UNCHANGED Open!Contents
  BY <1>1 DEF OpenInv, OpenTyped, Reached, OneKey, OpenCounted, Used, Open!At, Open!Contents
<1>2. ASSUME NEW x \in Items, Open!Lookup(x) PROVE OpenInv' /\ Open!A!Lookup(x)
  BY <1>1, <1>2, LookupFinds DEF Open!Lookup, Open!A!Lookup, Open!Call, Open!A!Call
<1>3. ASSUME NEW x \in Items, Open!Insert(x) PROVE OpenInv' /\ Open!A!Insert(x)
  <2>1. CASE /\ htbl.size = Positions \/ Open!FreeSteps(x) = {}
             /\ last' = Open!Call("insert", x, -1, {}) /\ UNCHANGED htbl
    <3>1. Cardinality(Open!Contents) >= Open!Guarantee /\ Open!A!Cardinality(Open!Contents) = Cardinality(Open!Contents)
      BY <2>1, Refuses DEF Open!A!Cardinality, Cardinality
    <3>. QED
      BY <2>1, <3>1, <1>1 DEF Open!A!Insert, Open!Call, Open!A!Call
  <2>2. CASE Open!LookedUp(x) # {} /\ last' = Open!Call("insert", x, 1, {}) /\ UNCHANGED htbl
    BY <2>2, <1>1, LookupFinds DEF Open!A!Insert, Open!Call, Open!A!Call
  <2>3. CASE (\E i : Put(x, i)) /\ last' = Open!Call("insert", x, 0, {})
    <3>1. OpenInv' /\ Open!Contents' = Open!Contents \cup {x}
      BY <2>3, Puts
    <3>2. Open!A!SameKey(x) = {}
      BY <2>3, LookupFinds DEF Put
    <3>. QED
      BY <2>3, <3>1, <3>2 DEF Open!A!Insert, Open!Call, Open!A!Call
  <2>. QED
    BY <1>3, <2>1, <2>2, <2>3 DEF Open!Insert, Put
<1>4. ASSUME NEW x \in Items, Open!Delete(x) PROVE OpenInv' /\ Open!A!Delete(x)
  <2>1. {i \in Open!RemoveEnd(x) : Open!At(x, i) # NULL} = Hits(x)
    BY Ends DEF OpenInv, Hits
  <2>2. /\ last' = Open!Call("remove", x, IF Hits(x) = {} THEN -1 ELSE 0, {Open!At(x, i) : i \in Hits(x)})
        /\ Vacate(x)
    BY <1>4, <2>1 DEF Open!Delete, Vacate, Open!Cardinality, Cardinality
  <2>3. {Open!At(x, i) : i \in Hits(x)} = Open!A!SameKey(x) /\ (Hits(x) = {} <=> Open!A!SameKey(x) = {})
    BY Finds DEF OpenInv
  <2>4. OpenInv' /\ Open!Contents' = Open!Contents \ Open!A!SameKey(x)
    BY <2>2, Vacates
  <2>. QED
    BY <2>2, <2>3, <2>4 DEF Open!A!Delete, Open!Call, Open!A!Call
<1>5. ASSUME Open!Destroy PROVE OpenInv' /\ Open!A!Destroy
  <2>1. (htbl = Open!Empty => OpenInv /\ Open!Contents = {})'
    BY NothingOpen, PTL
  <2>. QED
    BY <2>1, <1>5 DEF Open!Destroy, Open!A!Destroy, Open!Call, Open!A!Call, Open!Empty
<1>6. ASSUME UNCHANGED Open!vars PROVE OpenInv' /\ UNCHANGED <<Open!Contents, last>>
  BY <1>6, <1>1 DEF Open!vars
<1>. QED
  BY <1>2, <1>3, <1>4, <1>5, <1>6 DEF Open!Next, Open!A!Next

LEMMA OpenInit == ASSUME OpenAssumption, Open!Init PROVE OpenInv /\ Open!A!Init
BY NothingOpen DEF Open!Init, Open!Call, Open!A!Init, Open!A!Call

\* A table of any number of places, under any two hash functions, answers
\* every call as a set of items with distinct keys would, after any number of
\* removals: no item becomes unreachable behind one that was removed, none is
\* inserted twice, and an item is refused only when there are as many as the
\* least number of places that a key's probes reach (ohtbl_insert,
\* ohtbl_remove, ohtbl_lookup, ohtbl_destroy).
THEOREM OpenIsItemTable == ASSUME OpenAssumption PROVE Open!Spec => Open!A!Spec
<1>1. Open!Init => OpenInv /\ Open!A!Init
  BY OpenInit
<1>2. OpenInv /\ [Open!Next]_(Open!vars) => OpenInv' /\ [Open!A!Next]_<<Open!Contents, last>>
  BY OpenStep
<1>. QED
  BY <1>1, <1>2, PTL DEF Open!Spec, Open!A!Spec

\* The size, by which ohtbl_insert knows a full table, is the number of the
\* items, and a call never takes it below zero.
THEOREM SizeIsCounted == ASSUME OpenAssumption PROVE Open!Spec => []Open!SizeCounts
<1>1. Open!Init => OpenInv
  BY OpenInit
<1>2. OpenInv /\ [Open!Next]_(Open!vars) => OpenInv'
  BY OpenStep
<1>3. OpenInv => Open!SizeCounts
  <2>. SUFFICES ASSUME OpenInv PROVE Open!SizeCounts
    OBVIOUS
  <2>1. {p \in DOMAIN htbl.table : htbl.table[p] \notin {NULL, VACATED}} = Used
    BY DEF OpenInv, OpenTyped, Used, OpenAssumption
  <2>. QED
    BY <2>1 DEF Open!SizeCounts, OpenInv, OpenCounted, Open!Cardinality, Cardinality
<1>. QED
  BY <1>1, <1>2, <1>3, PTL DEF Open!Spec

-----------------------------------------------------------------------------
\* The graph.  What must be true of any graph g: that of a call, or the one a
\* call makes of it.
AdjLists == [vertex : Vertices, adjacent : Seq(Vertices)]
GraphTyped(g) == g \in [vcount : Nat, ecount : Nat, adjlists : Seq(AdjLists)]

\* A vertex has one list, and a list names no vertex twice and none that the
\* graph lacks.
OneList(g) ==
    \A i, j \in DOMAIN g.adjlists : g.adjlists[i].vertex = g.adjlists[j].vertex => i = j
NoRepeats(g) ==
    \A i \in DOMAIN g.adjlists : \A m, n \in DOMAIN g.adjlists[i].adjacent :
        g.adjlists[i].adjacent[m] = g.adjlists[i].adjacent[n] => m = n
HasVertex(g, v) == \E i \in DOMAIN g.adjlists : g.adjlists[i].vertex = v
Closed(g) ==
    \A i \in DOMAIN g.adjlists : \A m \in DOMAIN g.adjlists[i].adjacent :
        HasVertex(g, g.adjlists[i].adjacent[m])
Linked(g) == GraphTyped(g) /\ OneList(g) /\ NoRepeats(g) /\ Closed(g)

Names(s, w) == \E m \in DOMAIN s : s[m] = w
HasEdge(g, v, w) ==
    \E i \in DOMAIN g.adjlists : g.adjlists[i].vertex = v /\ Names(g.adjlists[i].adjacent, w)
Numbered(g) ==
    /\ g.vcount = Len(g.adjlists)
    /\ IsFiniteSet(Graph!EdgeSet(g)) /\ g.ecount = Cardinality(Graph!EdgeSet(g))

GraphInv == Linked(graph) /\ Numbered(graph)

LEMMA ListTyped ==
    ASSUME NEW g, GraphTyped(g)
    PROVE  /\ DOMAIN g.adjlists = 1 .. Len(g.adjlists) /\ Len(g.adjlists) \in Nat
           /\ g.adjlists \in Seq(AdjLists) /\ g.vcount \in Nat /\ g.ecount \in Nat
           /\ \A i \in DOMAIN g.adjlists :
                /\ i \in Nat
                /\ g.adjlists[i] = [vertex |-> g.adjlists[i].vertex,
                                    adjacent |-> g.adjlists[i].adjacent]
                /\ g.adjlists[i].vertex \in Vertices
                /\ g.adjlists[i].adjacent \in Seq(Vertices)
  <1>1. g.adjlists \in Seq(AdjLists) /\ g.vcount \in Nat /\ g.ecount \in Nat
    BY DEF GraphTyped
  <1>2. DOMAIN g.adjlists = 1 .. Len(g.adjlists) /\ Len(g.adjlists) \in Nat
    BY <1>1, LenProperties
  <1>3. \A i \in DOMAIN g.adjlists : g.adjlists[i] \in AdjLists
    BY <1>1, <1>2, ElementOfSeq
  <1> QED
    BY <1>1, <1>2, <1>3 DEF AdjLists

LEMMA ListOfVertex ==
    ASSUME NEW g, GraphTyped(g), OneList(g), NEW i \in DOMAIN g.adjlists
    PROVE  /\ Graph!ListsOf(g, g.adjlists[i].vertex) = {i}
           /\ Graph!AdjList(g, g.adjlists[i].vertex) = i
           /\ Graph!Adjacent(g, g.adjlists[i].vertex) = g.adjlists[i].adjacent
  <1> DEFINE v == g.adjlists[i].vertex
  <1>1. Graph!ListsOf(g, v) = {i}
    BY DEF Graph!ListsOf, OneList
  <1>2. i \in Nat
    BY ListTyped
  <1> HIDE DEF v
  <1>3. Graph!AdjList(g, v) = i
    BY <1>1, <1>2 DEF Graph!AdjList, Graph!Min
  <1>4. Graph!Adjacent(g, v) = g.adjlists[i].adjacent
    BY <1>1, <1>3 DEF Graph!Adjacent
  <1> QED
    BY <1>1, <1>3, <1>4 DEF v

LEMMA ListsAre ==
    ASSUME NEW g, NEW v
    PROVE  /\ Graph!ListsOf(g, v) # {} <=> HasVertex(g, v)
           /\ v \in Graph!VertexSet(g) <=> HasVertex(g, v)
           /\ ~HasVertex(g, v) => Graph!Adjacent(g, v) = <<>>
  <1>1. Graph!ListsOf(g, v) # {} <=> HasVertex(g, v)
    BY DEF Graph!ListsOf, HasVertex
  <1>2. v \in Graph!VertexSet(g) <=> HasVertex(g, v)
    BY DEF Graph!VertexSet, HasVertex
  <1> QED
    BY <1>1, <1>2 DEF Graph!Adjacent

LEMMA AdjacentAre ==
    ASSUME NEW g, GraphTyped(g), OneList(g), NEW v, NEW w
    PROVE  Graph!IsAdjacent(g, v, w) <=> HasEdge(g, v, w)
  <1>1. CASE HasVertex(g, v)
    <2>1. PICK i \in DOMAIN g.adjlists : g.adjlists[i].vertex = v
      BY <1>1 DEF HasVertex
    <2>2. Graph!Adjacent(g, v) = g.adjlists[i].adjacent
      BY <2>1, ListOfVertex
    <2>3. HasEdge(g, v, w) <=> Names(g.adjlists[i].adjacent, w)
      BY <2>1 DEF HasEdge, OneList
    <2> QED
      BY <2>2, <2>3 DEF Graph!IsAdjacent, Graph!IsMember, Names
  <1>2. CASE ~HasVertex(g, v)
    <2>1. ~HasEdge(g, v, w)
      BY <1>2 DEF HasEdge, HasVertex
    <2>2. ~Graph!IsAdjacent(g, v, w)
      BY <1>2, ListsAre DEF Graph!IsAdjacent, Graph!IsMember
    <2> QED
      BY <2>1, <2>2
  <1> QED
    BY <1>1, <1>2

LEMMA EdgesAre ==
    ASSUME NEW g, Linked(g)
    PROVE  /\ \A v, w : <<v, w>> \in Graph!EdgeSet(g) <=> HasEdge(g, v, w)
           /\ \A e \in Graph!EdgeSet(g) : e = <<e[1], e[2]>>
  <1>1. ASSUME NEW v, NEW w, HasEdge(g, v, w) PROVE HasVertex(g, v) /\ HasVertex(g, w)
    BY <1>1 DEF HasEdge, HasVertex, Names, Linked, Closed
  <1>2. \A v, w : Graph!IsAdjacent(g, v, w) <=> HasEdge(g, v, w)
    BY AdjacentAre DEF Linked
  <1>3. \A v : v \in Graph!VertexSet(g) <=> HasVertex(g, v)
    BY ListsAre
  <1>4. \A e \in Graph!EdgeSet(g) : e = <<e[1], e[2]>>
    BY DEF Graph!EdgeSet
  <1>5. ASSUME NEW v, NEW w
        PROVE  <<v, w>> \in Graph!EdgeSet(g)
                <=> v \in Graph!VertexSet(g) /\ w \in Graph!VertexSet(g) /\ Graph!IsAdjacent(g, v, w)
    BY DEF Graph!EdgeSet
  <1> QED
    BY <1>1, <1>2, <1>3, <1>4, <1>5

\* Two graphs have the same edges, or one has one more.
LEMMA EdgesSame ==
    ASSUME NEW g, Linked(g), NEW h, Linked(h),
           \A v, w : HasEdge(h, v, w) <=> HasEdge(g, v, w)
    PROVE  Graph!EdgeSet(h) = Graph!EdgeSet(g)
  <1>1. \A e : e \in Graph!EdgeSet(h) => e \in Graph!EdgeSet(g)
    BY EdgesAre
  <1>2. \A e : e \in Graph!EdgeSet(g) => e \in Graph!EdgeSet(h)
    BY EdgesAre
  <1> QED
    BY <1>1, <1>2

LEMMA EdgeMore ==
    ASSUME NEW g, Linked(g), NEW h, Linked(h), NEW x, NEW y,
           \A v, w : HasEdge(h, v, w) <=> HasEdge(g, v, w) \/ (v = x /\ w = y)
    PROVE  Graph!EdgeSet(h) = Graph!EdgeSet(g) \cup {<<x, y>>}
  <1>1. ASSUME NEW e \in Graph!EdgeSet(h) PROVE e \in Graph!EdgeSet(g) \cup {<<x, y>>}
    <2>1. e = <<e[1], e[2]>> /\ HasEdge(h, e[1], e[2])
      BY EdgesAre
    <2>2. HasEdge(g, e[1], e[2]) \/ (e[1] = x /\ e[2] = y)
      BY <2>1
    <2>3. CASE HasEdge(g, e[1], e[2])
      BY <2>1, <2>3, EdgesAre
    <2>4. CASE e[1] = x /\ e[2] = y
      BY <2>1, <2>4
    <2> QED
      BY <2>2, <2>3, <2>4
  <1>2. ASSUME NEW e \in Graph!EdgeSet(g) PROVE e \in Graph!EdgeSet(h)
    <2>1. e = <<e[1], e[2]>> /\ HasEdge(g, e[1], e[2])
      BY EdgesAre
    <2>2. HasEdge(h, e[1], e[2])
      BY <2>1
    <2> QED
      BY <2>1, <2>2, EdgesAre
  <1>3. <<x, y>> \in Graph!EdgeSet(h)
    <2>1. HasEdge(h, x, y)
      OBVIOUS
    <2> QED
      BY <2>1, EdgesAre
  <1> QED
    BY <1>1, <1>2, <1>3

-----------------------------------------------------------------------------
\* A new vertex has an empty list, behind the others.
Widened(g, v) ==
    [g EXCEPT !.vcount = @ + 1, !.adjlists = Append(@, [vertex |-> v, adjacent |-> <<>>])]

LEMMA VertexAdded ==
    ASSUME NEW g, Linked(g), NEW v \in Vertices, ~HasVertex(g, v),
           NEW h, h = Widened(g, v)
    PROVE  /\ Linked(h)
           /\ h.vcount = g.vcount + 1 /\ h.ecount = g.ecount
           /\ Len(h.adjlists) = Len(g.adjlists) + 1
           /\ \A u : HasVertex(h, u) <=> HasVertex(g, u) \/ u = v
           /\ Graph!EdgeSet(h) = Graph!EdgeSet(g)
  <1> DEFINE s == g.adjlists
             new == [vertex |-> v, adjacent |-> <<>>]
             t == Append(s, new)
  <1>1. GraphTyped(g)
    BY DEF Linked
  <1>2. /\ s \in Seq(AdjLists) /\ Len(s) \in Nat /\ DOMAIN s = 1 .. Len(s)
        /\ g.vcount \in Nat /\ g.ecount \in Nat
    BY <1>1, ListTyped
  <1>3. new \in AdjLists
    BY DEF AdjLists
  <1>4. h.adjlists = t /\ h.vcount = g.vcount + 1 /\ h.ecount = g.ecount
        /\ h = [vcount |-> g.vcount + 1, ecount |-> g.ecount, adjlists |-> t]
    BY <1>1 DEF GraphTyped, Widened
  <1> HIDE DEF new
  <1>5. /\ t \in Seq(AdjLists) /\ Len(t) = Len(s) + 1
        /\ \A i \in 1 .. Len(s) : t[i] = s[i]
        /\ t[Len(s) + 1] = new
    BY <1>2, <1>3, AppendProperties
  <1>6. DOMAIN t = 1 .. Len(s) + 1
    BY <1>5, LenProperties
  <1> HIDE DEF t
  <1>7. GraphTyped(h)
    BY <1>2, <1>4, <1>5 DEF GraphTyped
  <1>8. /\ \A i \in DOMAIN t : i \in DOMAIN s \/ i = Len(s) + 1
        /\ \A i \in DOMAIN s : i \in DOMAIN t /\ t[i] = s[i]
        /\ Len(s) + 1 \in DOMAIN t
    BY <1>2, <1>5, <1>6
  <1>9. new.vertex = v /\ new.adjacent = <<>> /\ DOMAIN new.adjacent = {}
    BY DEF new
  <1>10. \A i \in DOMAIN s : s[i].vertex # v
    BY DEF HasVertex
  <1>11. OneList(h)
    <2>1. ASSUME NEW i \in DOMAIN t, NEW j \in DOMAIN t, t[i].vertex = t[j].vertex
          PROVE  i = j
      <3>1. CASE i \in DOMAIN s /\ j \in DOMAIN s
        BY <2>1, <3>1, <1>8 DEF Linked, OneList
      <3>2. CASE i = Len(s) + 1 /\ j = Len(s) + 1
        BY <3>2
      <3>3. CASE i \in DOMAIN s /\ j = Len(s) + 1
        BY <2>1, <3>3, <1>5, <1>8, <1>9, <1>10
      <3>4. CASE i = Len(s) + 1 /\ j \in DOMAIN s
        BY <2>1, <3>4, <1>5, <1>8, <1>9, <1>10
      <3> QED
        BY <3>1, <3>2, <3>3, <3>4, <1>8
    <2> QED
      BY <2>1, <1>4 DEF OneList
  <1>12. NoRepeats(h)
    <2>1. ASSUME NEW i \in DOMAIN t, NEW m \in DOMAIN t[i].adjacent,
                 NEW n \in DOMAIN t[i].adjacent, t[i].adjacent[m] = t[i].adjacent[n]
          PROVE  m = n
      <3>1. i \in DOMAIN s /\ t[i] = s[i]
        BY <1>5, <1>8, <1>9
      <3> QED
        BY <2>1, <3>1 DEF Linked, NoRepeats
    <2> QED
      BY <2>1, <1>4 DEF NoRepeats
  <1>13. \A u : HasVertex(h, u) <=> HasVertex(g, u) \/ u = v
    <2>1. ASSUME NEW u, HasVertex(h, u) PROVE HasVertex(g, u) \/ u = v
      BY <2>1, <1>4, <1>5, <1>8, <1>9 DEF HasVertex
    <2>2. ASSUME NEW u, HasVertex(g, u) PROVE HasVertex(h, u)
      BY <2>2, <1>4, <1>8 DEF HasVertex
    <2>3. HasVertex(h, v)
      BY <1>4, <1>5, <1>8, <1>9 DEF HasVertex
    <2> QED
      BY <2>1, <2>2, <2>3
  <1>14. Closed(h)
    <2>1. ASSUME NEW i \in DOMAIN t, NEW m \in DOMAIN t[i].adjacent
          PROVE  HasVertex(h, t[i].adjacent[m])
      <3>1. i \in DOMAIN s /\ t[i] = s[i]
        BY <1>5, <1>8, <1>9
      <3>2. HasVertex(g, s[i].adjacent[m])
        BY <2>1, <3>1 DEF Linked, Closed
      <3> QED
        BY <3>1, <3>2, <1>13
    <2> QED
      BY <2>1, <1>4 DEF Closed
  <1>15. Linked(h)
    BY <1>7, <1>11, <1>12, <1>14 DEF Linked
  <1>16. ASSUME NEW u, NEW w PROVE HasEdge(h, u, w) <=> HasEdge(g, u, w)
    <2>1. ASSUME HasEdge(h, u, w) PROVE HasEdge(g, u, w)
      <3>1. PICK i \in DOMAIN t : t[i].vertex = u /\ Names(t[i].adjacent, w)
        BY <2>1, <1>4 DEF HasEdge
      <3>2. i \in DOMAIN s /\ t[i] = s[i]
        BY <3>1, <1>5, <1>8, <1>9 DEF Names
      <3> QED
        BY <3>1, <3>2 DEF HasEdge
    <2>2. ASSUME HasEdge(g, u, w) PROVE HasEdge(h, u, w)
      BY <2>2, <1>4, <1>8 DEF HasEdge
    <2> QED
      BY <2>1, <2>2
  <1>17. Graph!EdgeSet(h) = Graph!EdgeSet(g)
    BY <1>15, <1>16, EdgesSame
  <1> QED
    BY <1>4, <1>5, <1>13, <1>15, <1>17

\* A vertex that no edge leads to nor from takes its list with it.
Narrowed(g, k) == [g EXCEPT !.vcount = @ - 1, !.adjlists = Graph!RemoveAt(@, k)]

LEMMA VertexTaken ==
    ASSUME NEW g, Linked(g), NEW k \in DOMAIN g.adjlists, g.adjlists[k].adjacent = <<>>,
           g.vcount = Len(g.adjlists),
           \A i \in DOMAIN g.adjlists : ~Names(g.adjlists[i].adjacent, g.adjlists[k].vertex),
           NEW h, h = Narrowed(g, k)
    PROVE  /\ Linked(h)
           /\ h.vcount = Len(h.adjlists) /\ h.ecount = g.ecount
           /\ \A u : HasVertex(h, u) <=> HasVertex(g, u) /\ u # g.adjlists[k].vertex
           /\ Graph!EdgeSet(h) = Graph!EdgeSet(g)
  <1> DEFINE s == g.adjlists
             t == RemoveAt(s, k)
             v == s[k].vertex
  <1>1. GraphTyped(g)
    BY DEF Linked
  <1>2. /\ s \in Seq(AdjLists) /\ Len(s) \in Nat /\ DOMAIN s = 1 .. Len(s)
        /\ g.vcount \in Nat /\ g.ecount \in Nat
    BY <1>1, ListTyped
  <1>3. k \in 1 .. Len(s) /\ Len(s) - 1 \in Nat
    BY <1>2
  <1>4. Graph!RemoveAt(s, k) = t
    BY DEF Graph!RemoveAt, RemoveAt
  <1>5. h.adjlists = t /\ h.vcount = g.vcount - 1 /\ h.ecount = g.ecount
        /\ h = [vcount |-> g.vcount - 1, ecount |-> g.ecount, adjlists |-> t]
    BY <1>1, <1>4 DEF GraphTyped, Narrowed
  <1>6. /\ t \in Seq(AdjLists)
        /\ DOMAIN t = 1 .. Len(s) - 1
        /\ \A i \in 1 .. Len(s) - 1 : t[i] = IF i < k THEN s[i] ELSE s[i + 1]
    BY <1>2, OneOut
  <1>7. Len(t) = Len(s) - 1
    BY <1>3, <1>6, LenProperties
  <1> HIDE DEF t
  <1>8. GraphTyped(h)
    BY <1>2, <1>3, <1>5, <1>6 DEF GraphTyped
  <1> DEFINE at(i) == IF i < k THEN i ELSE i + 1
  <1>9. \A i \in DOMAIN t : at(i) \in DOMAIN s /\ at(i) # k /\ t[i] = s[at(i)]
    BY <1>2, <1>3, <1>6
  <1>10. \A i, j \in DOMAIN t : at(i) = at(j) => i = j
    BY <1>2, <1>3, <1>6
  <1>11. \A j \in DOMAIN s \ {k} : \E i \in DOMAIN t : t[i] = s[j]
    <2> TAKE j \in DOMAIN s \ {k}
    <2>1. CASE j < k
      <3>1. j \in 1 .. Len(s) - 1 /\ t[j] = s[j]
        BY <2>1, <1>2, <1>3, <1>6
      <3> QED
        BY <3>1, <1>6
    <2>2. CASE ~(j < k)
      <3>1. j - 1 \in 1 .. Len(s) - 1 /\ ~(j - 1 < k) /\ j - 1 + 1 = j
        BY <2>2, <1>2, <1>3
      <3>2. t[j - 1] = s[j]
        BY <3>1, <1>6
      <3> QED
        BY <3>1, <3>2, <1>6
    <2> QED
      BY <2>1, <2>2
  <1> HIDE DEF at
  <1>12. OneList(h)
    <2>1. ASSUME NEW i \in DOMAIN t, NEW j \in DOMAIN t, t[i].vertex = t[j].vertex
          PROVE  i = j
      BY <2>1, <1>9, <1>10 DEF Linked, OneList
    <2> QED
      BY <2>1, <1>5 DEF OneList
  <1>13. NoRepeats(h)
    <2>1. ASSUME NEW i \in DOMAIN t, NEW m \in DOMAIN t[i].adjacent,
                 NEW n \in DOMAIN t[i].adjacent, t[i].adjacent[m] = t[i].adjacent[n]
          PROVE  m = n
      BY <2>1, <1>9 DEF Linked, NoRepeats
    <2> QED
      BY <2>1, <1>5 DEF NoRepeats
  <1>14. \A u : HasVertex(h, u) <=> HasVertex(g, u) /\ u # v
    <2>1. ASSUME NEW u, HasVertex(h, u) PROVE HasVertex(g, u) /\ u # v
      <3>1. PICK i \in DOMAIN t : t[i].vertex = u
        BY <2>1, <1>5 DEF HasVertex
      <3>2. at(i) \in DOMAIN s /\ at(i) # k /\ s[at(i)].vertex = u
        BY <3>1, <1>9
      <3> QED
        BY <3>2 DEF HasVertex, Linked, OneList
    <2>2. ASSUME NEW u, HasVertex(g, u), u # v PROVE HasVertex(h, u)
      <3>1. PICK j \in DOMAIN s : s[j].vertex = u
        BY <2>2 DEF HasVertex
      <3>2. PICK i \in DOMAIN t : t[i] = s[j]
        BY <2>2, <3>1, <1>11
      <3> QED
        BY <3>1, <3>2, <1>5 DEF HasVertex
    <2> QED
      BY <2>1, <2>2
  <1>15. Closed(h)
    <2>1. ASSUME NEW i \in DOMAIN t, NEW m \in DOMAIN t[i].adjacent
          PROVE  HasVertex(h, t[i].adjacent[m])
      <3>1. at(i) \in DOMAIN s /\ t[i] = s[at(i)]
        BY <1>9
      <3>2. HasVertex(g, t[i].adjacent[m])
        BY <2>1, <3>1 DEF Linked, Closed
      <3>3. t[i].adjacent[m] # v
        BY <2>1, <3>1 DEF Names
      <3> QED
        BY <3>2, <3>3, <1>14
    <2> QED
      BY <2>1, <1>5 DEF Closed
  <1>16. Linked(h)
    BY <1>8, <1>12, <1>13, <1>15 DEF Linked
  <1>17. ASSUME NEW u, NEW w PROVE HasEdge(h, u, w) <=> HasEdge(g, u, w)
    <2>1. ASSUME HasEdge(h, u, w) PROVE HasEdge(g, u, w)
      BY <2>1, <1>5, <1>9 DEF HasEdge
    <2>2. ASSUME HasEdge(g, u, w) PROVE HasEdge(h, u, w)
      <3>1. PICK j \in DOMAIN s : s[j].vertex = u /\ Names(s[j].adjacent, w)
        BY <2>2 DEF HasEdge
      <3>2. j # k
        BY <3>1 DEF Names
      <3>3. PICK i \in DOMAIN t : t[i] = s[j]
        BY <3>1, <3>2, <1>11
      <3> QED
        BY <3>1, <3>3, <1>5 DEF HasEdge
    <2> QED
      BY <2>1, <2>2
  <1>18. Graph!EdgeSet(h) = Graph!EdgeSet(g)
    BY <1>16, <1>17, EdgesSame
  <1>19. h.vcount = Len(h.adjlists)
    BY <1>5, <1>7
  <1> QED
    BY <1>5, <1>14, <1>16, <1>18, <1>19

\* An edge more or less is a change in the list of one vertex.
Relisted(g, k, c, s) == [g EXCEPT !.ecount = c, !.adjlists[k].adjacent = s]

LEMMA ListChanged ==
    ASSUME NEW g, Linked(g), NEW k \in DOMAIN g.adjlists, NEW s \in Seq(Vertices),
           \A m, n \in DOMAIN s : s[m] = s[n] => m = n,
           \A m \in DOMAIN s : HasVertex(g, s[m]),
           NEW c \in Nat,
           NEW h, h = Relisted(g, k, c, s)
    PROVE  /\ Linked(h) /\ h.vcount = g.vcount /\ h.ecount = c
           /\ Len(h.adjlists) = Len(g.adjlists)
           /\ \A u : HasVertex(h, u) <=> HasVertex(g, u)
           /\ \A u, w : HasEdge(h, u, w) <=>
                IF u = g.adjlists[k].vertex THEN Names(s, w) ELSE HasEdge(g, u, w)
  <1> DEFINE a == g.adjlists
             b == [a EXCEPT ![k].adjacent = s]
  <1>1. GraphTyped(g) /\ OneList(g)
    BY DEF Linked
  <1>2. /\ a \in Seq(AdjLists) /\ Len(a) \in Nat /\ DOMAIN a = 1 .. Len(a)
        /\ g.vcount \in Nat /\ g.ecount \in Nat
        /\ a[k].vertex \in Vertices
        /\ a[k] = [vertex |-> a[k].vertex, adjacent |-> a[k].adjacent]
    BY <1>1, ListTyped
  <1>3. h.adjlists = b /\ h.vcount = g.vcount /\ h.ecount = c
        /\ h = [vcount |-> g.vcount, ecount |-> c, adjlists |-> b]
    BY <1>1 DEF GraphTyped, Relisted
  <1> DEFINE r == [vertex |-> a[k].vertex, adjacent |-> s]
  <1>4. r \in AdjLists
    BY <1>2 DEF AdjLists
  <1>5. b = [a EXCEPT ![k] = r]
    <2>1. [a[k] EXCEPT !.adjacent = s] = r
      BY <1>2
    <2> HIDE DEF r, a
    <2>2. b = [a EXCEPT ![k] = [a[k] EXCEPT !.adjacent = s]]
      OBVIOUS
    <2> QED
      BY <2>1, <2>2
  <1> HIDE DEF r
  <1>6. /\ b \in Seq(AdjLists) /\ DOMAIN b = DOMAIN a /\ Len(b) = Len(a)
        /\ \A i \in DOMAIN a : b[i] = IF i = k THEN r ELSE a[i]
    <2> HIDE DEF a, b
    <2>1. k \in 1 .. Len(a)
      BY <1>2 DEF a
    <2>2. /\ [a EXCEPT ![k] = r] \in Seq(AdjLists) /\ Len([a EXCEPT ![k] = r]) = Len(a)
          /\ \A i \in 1 .. Len(a) : [a EXCEPT ![k] = r][i] = IF i = k THEN r ELSE a[i]
      BY <1>2, <1>4, <2>1, ExceptSeq
    <2>3. DOMAIN [a EXCEPT ![k] = r] = DOMAIN a
      OBVIOUS
    <2> QED
      BY <1>2, <1>5, <2>2, <2>3
  <1> HIDE DEF b
  <1>7. r.vertex = a[k].vertex /\ r.adjacent = s
    BY DEF r
  <1>8. \A i \in DOMAIN a : b[i].vertex = a[i].vertex /\ (i # k => b[i] = a[i])
    BY <1>6, <1>7
  <1>9. b[k].adjacent = s
    BY <1>6, <1>7
  <1>10. GraphTyped(h)
    BY <1>2, <1>3, <1>6 DEF GraphTyped
  <1>11. OneList(h)
    BY <1>1, <1>3, <1>6, <1>8 DEF OneList
  <1>12. \A u : HasVertex(h, u) <=> HasVertex(g, u)
    BY <1>3, <1>6, <1>8 DEF HasVertex
  <1>13. NoRepeats(h)
    <2>1. ASSUME NEW i \in DOMAIN a, NEW m \in DOMAIN b[i].adjacent,
                 NEW n \in DOMAIN b[i].adjacent, b[i].adjacent[m] = b[i].adjacent[n]
          PROVE  m = n
      <3>1. CASE i = k
        BY <2>1, <3>1, <1>9
      <3>2. CASE i # k
        BY <2>1, <3>2, <1>8 DEF Linked, NoRepeats
      <3> QED
        BY <3>1, <3>2
    <2> QED
      BY <2>1, <1>3, <1>6 DEF NoRepeats
  <1>14. Closed(h)
    <2>1. ASSUME NEW i \in DOMAIN a, NEW m \in DOMAIN b[i].adjacent
          PROVE  HasVertex(h, b[i].adjacent[m])
      <3>1. CASE i = k
        BY <2>1, <3>1, <1>9, <1>12
      <3>2. CASE i # k
        BY <2>1, <3>2, <1>8, <1>12 DEF Linked, Closed
      <3> QED
        BY <3>1, <3>2
    <2> QED
      BY <2>1, <1>3, <1>6 DEF Closed
  <1>15. Linked(h)
    BY <1>10, <1>11, <1>13, <1>14 DEF Linked
  <1>16. ASSUME NEW u, NEW w
         PROVE  HasEdge(h, u, w) <=> IF u = a[k].vertex THEN Names(s, w) ELSE HasEdge(g, u, w)
    <2>1. HasEdge(h, u, w) <=> \E i \in DOMAIN a : a[i].vertex = u /\ Names(b[i].adjacent, w)
      BY <1>3, <1>6, <1>8 DEF HasEdge
    <2>2. CASE u = a[k].vertex
      BY <2>1, <2>2, <1>1, <1>9 DEF OneList
    <2>3. CASE u # a[k].vertex
      BY <2>1, <2>3, <1>8 DEF HasEdge
    <2> QED
      BY <2>2, <2>3
  <1> QED
    BY <1>3, <1>6, <1>12, <1>15, <1>16

LEMMA EdgeAdded ==
    ASSUME NEW g, Linked(g), Numbered(g), NEW k \in DOMAIN g.adjlists,
           NEW w \in Vertices, HasVertex(g, w), ~Names(g.adjlists[k].adjacent, w),
           NEW h, h = Relisted(g, k, g.ecount + 1, Graph!SetInserted(g.adjlists[k].adjacent, w))
    PROVE  /\ Linked(h) /\ Numbered(h)
           /\ Graph!VertexSet(h) = Graph!VertexSet(g)
           /\ Graph!EdgeSet(h) = Graph!EdgeSet(g) \cup {<<g.adjlists[k].vertex, w>>}
  <1> DEFINE old == g.adjlists[k].adjacent
             v == g.adjlists[k].vertex
             new == Append(old, w)
             count == g.ecount + 1
  <1>1. GraphTyped(g) /\ OneList(g)
    BY DEF Linked
  <1>2. old \in Seq(Vertices) /\ g.ecount \in Nat
    BY <1>1, ListTyped
  <1>3. Len(old) \in Nat /\ DOMAIN old = 1 .. Len(old)
    BY <1>2, LenProperties
  <1>4. Graph!SetInserted(old, w) = new
    BY DEF Graph!SetInserted, Graph!IsMember, Names
  <1>5. h = Relisted(g, k, count, new)
    BY <1>4
  <1>6. /\ new \in Seq(Vertices) /\ Len(new) = Len(old) + 1
        /\ \A i \in 1 .. Len(old) : new[i] = old[i]
        /\ new[Len(old) + 1] = w
    BY <1>2, AppendProperties
  <1>7. DOMAIN new = 1 .. Len(old) + 1
    BY <1>6, LenProperties
  <1>8. \A m, n \in DOMAIN old : old[m] = old[n] => m = n
    BY DEF Linked, NoRepeats
  <1>9. \A m \in DOMAIN old : old[m] # w /\ HasVertex(g, old[m])
    BY DEF Linked, Closed, Names
  <1> HIDE DEF new, old, v
  <1>10. /\ \A m \in DOMAIN new : m \in DOMAIN old \/ m = Len(old) + 1
         /\ \A m \in DOMAIN old : m \in DOMAIN new /\ new[m] = old[m]
         /\ Len(old) + 1 \in DOMAIN new
    BY <1>3, <1>6, <1>7
  <1>11. \A m, n \in DOMAIN new : new[m] = new[n] => m = n
    BY <1>6, <1>8, <1>9, <1>10
  <1>12. \A m \in DOMAIN new : HasVertex(g, new[m])
    BY <1>6, <1>9, <1>10
  <1>13. \A x : Names(new, x) <=> Names(old, x) \/ x = w
    <2>1. ASSUME NEW x, Names(new, x) PROVE Names(old, x) \/ x = w
      BY <2>1, <1>6, <1>10 DEF Names
    <2>2. ASSUME NEW x, Names(old, x) PROVE Names(new, x)
      BY <2>2, <1>10 DEF Names
    <2>3. Names(new, w)
      BY <1>6, <1>10 DEF Names
    <2> QED
      BY <2>1, <2>2, <2>3
  <1>14. count \in Nat
    BY <1>2
  <1> HIDE DEF count
  <1>15. /\ Linked(h) /\ h.vcount = g.vcount /\ h.ecount = count
         /\ Len(h.adjlists) = Len(g.adjlists)
         /\ \A u : HasVertex(h, u) <=> HasVertex(g, u)
         /\ \A u, x : HasEdge(h, u, x) <=>
              IF u = g.adjlists[k].vertex THEN Names(new, x) ELSE HasEdge(g, u, x)
    BY <1>5, <1>6, <1>11, <1>12, <1>14, ListChanged
  <1>16. \A x : HasEdge(g, v, x) <=> Names(old, x)
    BY <1>1 DEF HasEdge, OneList, v, old
  <1>17. \A u, x : HasEdge(h, u, x) <=> HasEdge(g, u, x) \/ (u = v /\ x = w)
    BY <1>13, <1>15, <1>16 DEF v
  <1>18. Graph!EdgeSet(h) = Graph!EdgeSet(g) \cup {<<v, w>>}
    <2>1. Linked(h)
      BY <1>15
    <2> QED
      BY <2>1, <1>17, EdgeMore
  <1>19. <<v, w>> \notin Graph!EdgeSet(g)
    BY <1>16, EdgesAre DEF old
  <1>20. Numbered(h)
    BY <1>15, <1>18, <1>19, FS_AddElement DEF Numbered, count
  <1>21. Graph!VertexSet(h) = Graph!VertexSet(g)
    BY <1>15, ListsAre
  <1> QED
    BY <1>15, <1>18, <1>20, <1>21 DEF v

LEMMA EdgeTaken ==
    ASSUME NEW g, Linked(g), Numbered(g), NEW k \in DOMAIN g.adjlists,
           NEW w, Names(g.adjlists[k].adjacent, w),
           NEW h, h = Relisted(g, k, g.ecount - 1, Graph!SetRemoved(g.adjlists[k].adjacent, w))
    PROVE  /\ Linked(h) /\ Numbered(h)
           /\ Graph!VertexSet(h) = Graph!VertexSet(g)
           /\ Graph!EdgeSet(h) = Graph!EdgeSet(g) \ {<<g.adjlists[k].vertex, w>>}
  <1> DEFINE old == g.adjlists[k].adjacent
             v == g.adjlists[k].vertex
  <1>1. GraphTyped(g) /\ OneList(g)
    BY DEF Linked
  <1>2. old \in Seq(Vertices) /\ g.ecount \in Nat
    BY <1>1, ListTyped
  <1>3. Len(old) \in Nat /\ DOMAIN old = 1 .. Len(old)
    BY <1>2, LenProperties
  <1>4. \A m, n \in DOMAIN old : old[m] = old[n] => m = n
    BY DEF Linked, NoRepeats
  <1>5. \A m \in DOMAIN old : HasVertex(g, old[m])
    BY DEF Linked, Closed
  <1>6. PICK at \in DOMAIN old : old[at] = w
    BY DEF Names
  <1> DEFINE new == RemoveAt(old, at)
             count == g.ecount - 1
  <1>7. Graph!SetRemoved(old, w) = new
    <2>1. {i \in DOMAIN old : old[i] = w} = {at}
      BY <1>4, <1>6
    <2>2. Graph!Min({at}) = at
      BY <1>3, <1>6 DEF Graph!Min
    <2>3. Graph!RemoveAt(old, at) = new
      BY DEF Graph!RemoveAt, RemoveAt
    <2> HIDE DEF old, new
    <2> QED
      BY <2>1, <2>2, <2>3 DEF Graph!SetRemoved
  <1>8. h = Relisted(g, k, count, new)
    BY <1>7
  <1> HIDE DEF old
  <1>9. /\ new \in Seq(Vertices)
        /\ DOMAIN new = 1 .. Len(old) - 1
        /\ \A i \in 1 .. Len(old) - 1 : new[i] = IF i < at THEN old[i] ELSE old[i + 1]
    BY <1>2, <1>3, <1>6, OneOut
  <1> HIDE DEF new, v
  <1> DEFINE from(i) == IF i < at THEN i ELSE i + 1
  <1>10. \A i \in DOMAIN new : from(i) \in DOMAIN old /\ from(i) # at /\ new[i] = old[from(i)]
    BY <1>3, <1>6, <1>9
  <1>11. \A i, j \in DOMAIN new : from(i) = from(j) => i = j
    BY <1>3, <1>6, <1>9
  <1>12. \A j \in DOMAIN old \ {at} : \E i \in DOMAIN new : new[i] = old[j]
    <2> TAKE j \in DOMAIN old \ {at}
    <2>1. CASE j < at
      <3>1. j \in 1 .. Len(old) - 1 /\ new[j] = old[j]
        BY <2>1, <1>3, <1>6, <1>9
      <3> QED
        BY <3>1, <1>9
    <2>2. CASE ~(j < at)
      <3>1. j - 1 \in 1 .. Len(old) - 1 /\ ~(j - 1 < at) /\ j - 1 + 1 = j
        BY <2>2, <1>3, <1>6
      <3>2. new[j - 1] = old[j]
        BY <3>1, <1>9
      <3> QED
        BY <3>1, <3>2, <1>9
    <2> QED
      BY <2>1, <2>2
  <1> HIDE DEF from
  <1>13. \A m, n \in DOMAIN new : new[m] = new[n] => m = n
    BY <1>4, <1>10, <1>11
  <1>14. \A m \in DOMAIN new : HasVertex(g, new[m])
    BY <1>5, <1>10
  <1>15. \A x : Names(new, x) <=> Names(old, x) /\ x # w
    <2>1. ASSUME NEW x, Names(new, x) PROVE Names(old, x) /\ x # w
      BY <2>1, <1>4, <1>6, <1>10 DEF Names
    <2>2. ASSUME NEW x, Names(old, x), x # w PROVE Names(new, x)
      BY <2>2, <1>6, <1>12 DEF Names
    <2> QED
      BY <2>1, <2>2
  <1>16. \A x : HasEdge(g, v, x) <=> Names(old, x)
    BY <1>1 DEF HasEdge, OneList, v, old
  <1>17. <<v, w>> \in Graph!EdgeSet(g)
    BY <1>16, EdgesAre DEF old
  <1>18. count \in Nat
    <2>1. Cardinality(Graph!EdgeSet(g)) # 0
      BY <1>17, FS_EmptySet DEF Numbered
    <2> QED
      BY <2>1, <1>2 DEF Numbered
  <1> HIDE DEF count
  <1>19. /\ Linked(h) /\ h.vcount = g.vcount /\ h.ecount = count
         /\ Len(h.adjlists) = Len(g.adjlists)
         /\ \A u : HasVertex(h, u) <=> HasVertex(g, u)
         /\ \A u, x : HasEdge(h, u, x) <=>
              IF u = g.adjlists[k].vertex THEN Names(new, x) ELSE HasEdge(g, u, x)
    <2>1. new \in Seq(Vertices)
      BY <1>9
    <2> QED
      BY <2>1, <1>8, <1>13, <1>14, <1>18, ListChanged
  <1>20. \A u, x : HasEdge(g, u, x) <=> HasEdge(h, u, x) \/ (u = v /\ x = w)
    BY <1>15, <1>16, <1>19 DEF v, old
  <1>21. Graph!EdgeSet(g) = Graph!EdgeSet(h) \cup {<<v, w>>}
    <2>1. Linked(h)
      BY <1>19
    <2> QED
      BY <2>1, <1>20, EdgeMore
  <1>22. ~HasEdge(h, v, w)
    BY <1>15, <1>19 DEF v
  <1>23. <<v, w>> \notin Graph!EdgeSet(h)
    BY <1>19, <1>22, EdgesAre
  <1>24. Graph!EdgeSet(h) = Graph!EdgeSet(g) \ {<<v, w>>}
    BY <1>21, <1>23
  <1>25. Numbered(h)
    BY <1>17, <1>19, <1>24, FS_RemoveElement DEF Numbered, count
  <1>26. Graph!VertexSet(h) = Graph!VertexSet(g)
    BY <1>19, ListsAre
  <1> QED
    BY <1>19, <1>24, <1>25, <1>26 DEF v

-----------------------------------------------------------------------------
LEMMA EmptyGraph == Linked(Graph!Empty) /\ Numbered(Graph!Empty)
  <1> DEFINE g == Graph!Empty
  <1>1. g = [vcount |-> 0, ecount |-> 0, adjlists |-> <<>>] /\ <<>> \in Seq(AdjLists)
    BY DEF Graph!Empty
  <1> HIDE DEF g
  <1>2. Len(g.adjlists) = 0 /\ DOMAIN g.adjlists = {}
    BY <1>1
  <1>3. GraphTyped(g)
    BY <1>1 DEF GraphTyped
  <1>4. Linked(g)
    BY <1>2, <1>3 DEF Linked, OneList, NoRepeats, Closed
  <1>5. \A v, w : ~HasEdge(g, v, w)
    BY <1>2 DEF HasEdge
  <1>6. Graph!EdgeSet(g) = {}
    BY <1>4, <1>5, EdgesAre
  <1>7. Numbered(g)
    BY <1>1, <1>2, <1>6, FS_EmptySet DEF Numbered
  <1> QED
    BY <1>4, <1>7 DEF g

LEMMA Unchanged ==
    ASSUME GraphInv, NEW c, c # 0, Graph!Refuse(c), NEW vs, NEW es
    PROVE  GraphInv' /\ Graph!Changes(vs, es)
  BY DEF GraphInv, Graph!Refuse, Graph!Changes

LEMMA InsVertexStep ==
    ASSUME GraphInv, NEW v \in Vertices, Graph!InsVertex(v)
    PROVE  GraphInv' /\ Graph!Changes(Graph!VertexSet(graph) \cup {v}, Graph!EdgeSet(graph))
  <1>1. CASE Graph!Refuse(1) \/ Graph!Refuse(-1)
    BY <1>1, Unchanged
  <1>2. CASE /\ Graph!ListsOf(graph, v) = {} /\ ret' = 0
             /\ graph' = [graph EXCEPT !.vcount = @ + 1,
                                 !.adjlists = Append(@, [vertex |-> v, adjacent |-> <<>>])]
    <2>1. ~HasVertex(graph, v)
      BY <1>2, ListsAre
    <2>2. Linked(graph) /\ Numbered(graph) /\ graph' = Widened(graph, v)
      BY <1>2 DEF GraphInv, Widened
    <2>3. /\ Linked(graph')
          /\ graph'.vcount = graph.vcount + 1 /\ graph'.ecount = graph.ecount
          /\ Len(graph'.adjlists) = Len(graph.adjlists) + 1
          /\ \A u : HasVertex(graph', u) <=> HasVertex(graph, u) \/ u = v
          /\ Graph!EdgeSet(graph') = Graph!EdgeSet(graph)
      BY <2>1, <2>2, VertexAdded
    <2>4. Numbered(graph')
      BY <2>2, <2>3 DEF Numbered
    <2>5. Graph!VertexSet(graph') = Graph!VertexSet(graph) \cup {v}
      BY <2>3, ListsAre
    <2> QED
      BY <1>2, <2>3, <2>4, <2>5 DEF GraphInv, Graph!Changes
  <1> QED
    BY <1>1, <1>2 DEF Graph!InsVertex

LEMMA RemVertexStep ==
    ASSUME GraphInv, NEW v \in Vertices, Graph!RemVertex(v)
    PROVE  GraphInv' /\ Graph!Changes(Graph!VertexSet(graph) \ {v}, Graph!EdgeSet(graph))
  <1>1. CASE Graph!Refuse(-1)
    BY <1>1, Unchanged
  <1>2. CASE /\ ~\E i \in DOMAIN graph.adjlists : Graph!IsMember(graph.adjlists[i].adjacent, v)
             /\ Graph!ListsOf(graph, v) # {} /\ Graph!Adjacent(graph, v) = <<>>
             /\ graph' = [graph EXCEPT !.vcount = @ - 1,
                            !.adjlists = Graph!RemoveAt(@, Graph!AdjList(graph, v))]
             /\ ret' = 0
    <2>1. Linked(graph) /\ Numbered(graph) /\ GraphTyped(graph) /\ OneList(graph)
      BY DEF GraphInv, Linked
    <2>2. PICK k \in DOMAIN graph.adjlists : graph.adjlists[k].vertex = v
      BY <1>2 DEF Graph!ListsOf
    <2>3. Graph!AdjList(graph, v) = k /\ Graph!Adjacent(graph, v) = graph.adjlists[k].adjacent
      BY <2>1, <2>2, ListOfVertex
    <2>4. graph' = Narrowed(graph, k) /\ graph.adjlists[k].adjacent = <<>>
      BY <1>2, <2>3 DEF Narrowed
    <2>5. \A i \in DOMAIN graph.adjlists :
            ~Names(graph.adjlists[i].adjacent, graph.adjlists[k].vertex)
      BY <1>2, <2>2 DEF Names, Graph!IsMember
    <2>6. graph.vcount = Len(graph.adjlists)
      BY <2>1 DEF Numbered
    <2>7. /\ Linked(graph')
          /\ graph'.vcount = Len(graph'.adjlists) /\ graph'.ecount = graph.ecount
          /\ \A u : HasVertex(graph', u) <=> HasVertex(graph, u) /\ u # graph.adjlists[k].vertex
          /\ Graph!EdgeSet(graph') = Graph!EdgeSet(graph)
      BY <2>1, <2>4, <2>5, <2>6, VertexTaken
    <2>8. Numbered(graph')
      BY <2>1, <2>7 DEF Numbered
    <2>9. Graph!VertexSet(graph') = Graph!VertexSet(graph) \ {v}
      BY <2>2, <2>7, ListsAre
    <2> QED
      BY <1>2, <2>7, <2>8, <2>9 DEF GraphInv, Graph!Changes
  <1> QED
    BY <1>1, <1>2 DEF Graph!RemVertex

LEMMA InsEdgeStep ==
    ASSUME GraphInv, NEW v \in Vertices, NEW w \in Vertices, Graph!InsEdge(v, w)
    PROVE  GraphInv' /\ Graph!Changes(Graph!VertexSet(graph),
                                      Graph!EdgeSet(graph) \cup {<<v, w>>})
  <1>1. CASE Graph!Refuse(1) \/ Graph!Refuse(-1)
    BY <1>1, Unchanged
  <1>2. CASE /\ Graph!ListsOf(graph, w) # {} /\ Graph!ListsOf(graph, v) # {}
             /\ ~Graph!IsMember(Graph!Adjacent(graph, v), w)
             /\ graph' = [graph EXCEPT !.ecount = @ + 1,
                            !.adjlists[Graph!AdjList(graph, v)].adjacent = Graph!SetInserted(@, w)]
             /\ ret' = 0
    <2>1. Linked(graph) /\ Numbered(graph) /\ GraphTyped(graph) /\ OneList(graph)
      BY DEF GraphInv, Linked
    <2>2. PICK k \in DOMAIN graph.adjlists : graph.adjlists[k].vertex = v
      BY <1>2 DEF Graph!ListsOf
    <2>3. Graph!AdjList(graph, v) = k /\ Graph!Adjacent(graph, v) = graph.adjlists[k].adjacent
      BY <2>1, <2>2, ListOfVertex
    <2>4. graph' = Relisted(graph, k, graph.ecount + 1,
                            Graph!SetInserted(graph.adjlists[k].adjacent, w))
      BY <1>2, <2>3 DEF Relisted
    <2>5. ~Names(graph.adjlists[k].adjacent, w) /\ HasVertex(graph, w)
      BY <1>2, <2>3, ListsAre DEF Names, Graph!IsMember
    <2>6. /\ Linked(graph') /\ Numbered(graph')
          /\ Graph!VertexSet(graph') = Graph!VertexSet(graph)
          /\ Graph!EdgeSet(graph') = Graph!EdgeSet(graph) \cup {<<graph.adjlists[k].vertex, w>>}
      BY <2>1, <2>4, <2>5, EdgeAdded
    <2> QED
      BY <1>2, <2>2, <2>6 DEF GraphInv, Graph!Changes
  <1> QED
    BY <1>1, <1>2 DEF Graph!InsEdge

LEMMA RemEdgeStep ==
    ASSUME GraphInv, NEW v \in Vertices, NEW w \in Vertices, Graph!RemEdge(v, w)
    PROVE  GraphInv' /\ Graph!Changes(Graph!VertexSet(graph),
                                      Graph!EdgeSet(graph) \ {<<v, w>>})
  <1>1. CASE Graph!Refuse(-1)
    BY <1>1, Unchanged
  <1>2. CASE /\ Graph!IsAdjacent(graph, v, w)
             /\ graph' = [graph EXCEPT !.ecount = @ - 1,
                            !.adjlists[Graph!AdjList(graph, v)].adjacent = Graph!SetRemoved(@, w)]
             /\ ret' = 0
    <2>1. Linked(graph) /\ Numbered(graph) /\ GraphTyped(graph) /\ OneList(graph)
      BY DEF GraphInv, Linked
    <2>2. PICK k \in DOMAIN graph.adjlists :
            graph.adjlists[k].vertex = v /\ Names(graph.adjlists[k].adjacent, w)
      BY <1>2, <2>1, AdjacentAre DEF HasEdge
    <2>3. Graph!AdjList(graph, v) = k
      BY <2>1, <2>2, ListOfVertex
    <2>4. graph' = Relisted(graph, k, graph.ecount - 1,
                            Graph!SetRemoved(graph.adjlists[k].adjacent, w))
      BY <1>2, <2>3 DEF Relisted
    <2>5. /\ Linked(graph') /\ Numbered(graph')
          /\ Graph!VertexSet(graph') = Graph!VertexSet(graph)
          /\ Graph!EdgeSet(graph') = Graph!EdgeSet(graph) \ {<<graph.adjlists[k].vertex, w>>}
      BY <2>1, <2>2, <2>4, EdgeTaken
    <2> QED
      BY <1>2, <2>2, <2>5 DEF GraphInv, Graph!Changes
  <1> QED
    BY <1>1, <1>2 DEF Graph!RemEdge

LEMMA GraphStep ==
    ASSUME GraphInv, [Graph!Next]_(Graph!vars)
    PROVE  GraphInv' /\ Graph!IsGraph
  <1>1. Graph!IsGraph
    BY InsVertexStep, RemVertexStep, InsEdgeStep, RemEdgeStep DEF Graph!IsGraph
  <1>2. ASSUME NEW v \in Vertices, Graph!InsVertex(v) \/ Graph!RemVertex(v) PROVE GraphInv'
    BY <1>2, InsVertexStep, RemVertexStep
  <1>3. ASSUME NEW v \in Vertices, NEW w \in Vertices,
               Graph!InsEdge(v, w) \/ Graph!RemEdge(v, w)
        PROVE  GraphInv'
    BY <1>3, InsEdgeStep, RemEdgeStep
  <1>4. ASSUME Graph!Destroy PROVE GraphInv'
    <2>1. graph' = Graph!Empty
      BY <1>4 DEF Graph!Destroy
    <2> QED
      BY <2>1, EmptyGraph DEF GraphInv
  <1>5. ASSUME UNCHANGED Graph!vars PROVE GraphInv'
    BY <1>5 DEF GraphInv, Graph!vars
  <1> QED
    BY <1>1, <1>2, <1>3, <1>4, <1>5 DEF Graph!Next

\* What is true of the lists is true of the sets they are read as.
LEMMA GraphIsWellFormed == GraphInv => Graph!GraphWellFormed
  <1> SUFFICES ASSUME GraphInv PROVE Graph!GraphWellFormed
    OBVIOUS
  <1> DEFINE at == [i \in DOMAIN graph.adjlists |-> graph.adjlists[i].vertex]
  <1>1. Linked(graph) /\ Numbered(graph) /\ GraphTyped(graph) /\ OneList(graph)
    BY DEF GraphInv, Linked
  <1>2. DOMAIN graph.adjlists = 1 .. Len(graph.adjlists) /\ Len(graph.adjlists) \in Nat
    BY <1>1, ListTyped
  <1>3. at \in Bijection(1 .. Len(graph.adjlists), Graph!VertexSet(graph))
    BY <1>1, <1>2, Fun_IsBij DEF OneList, Graph!VertexSet
  <1>4. ExistsBijection(1 .. Len(graph.adjlists), Graph!VertexSet(graph))
    BY <1>3 DEF ExistsBijection
  <1>5. IsFiniteSet(Graph!VertexSet(graph)) /\ Cardinality(Graph!VertexSet(graph)) = Len(graph.adjlists)
    <2>1. IsFiniteSet(1 .. Len(graph.adjlists)) /\ Cardinality(1 .. Len(graph.adjlists)) = Len(graph.adjlists)
      <3> DEFINE n == Len(graph.adjlists)
      <3>1. n \in Nat /\ (IF 1 > n THEN 0 ELSE n - 1 + 1) = n
        BY <1>2
      <3> HIDE DEF n
      <3>2. /\ IsFiniteSet(1 .. n)
            /\ Cardinality(1 .. n) = IF 1 > n THEN 0 ELSE n - 1 + 1
        BY <3>1, FS_Interval
      <3> QED
        BY <3>1, <3>2 DEF n
    <2> QED
      BY <2>1, <1>4, FS_Bijection
  <1>6. ASSUME NEW i \in DOMAIN graph.adjlists
        PROVE  /\ Graph!IsInjective(graph.adjlists[i].adjacent)
               /\ Graph!ToSet(graph.adjlists[i].adjacent) \subseteq Graph!VertexSet(graph)
    <2>1. Graph!IsInjective(graph.adjlists[i].adjacent)
      BY <1>1 DEF Linked, NoRepeats, Graph!IsInjective
    <2>2. \A m \in DOMAIN graph.adjlists[i].adjacent : graph.adjlists[i].adjacent[m] \in Graph!VertexSet(graph)
      BY <1>1, ListsAre DEF Linked, Closed
    <2> QED
      BY <2>1, <2>2 DEF Graph!ToSet
  <1> QED
    BY <1>1, <1>5, <1>6 DEF Numbered, Graph!GraphWellFormed, Graph!Cardinality, Cardinality

\* GraphWellFormed: the graph of graph.c, after any calls, has one adjacency
\* list for a vertex, no edge that repeats or leads out of it, and counts that
\* are right; for any vertices and any memory.
THEOREM GraphIsWhole == Graph!Spec => []Graph!GraphWellFormed
  <1>1. Graph!Init => GraphInv
    BY EmptyGraph DEF Graph!Init, GraphInv
  <1>2. GraphInv /\ [Graph!Next]_(Graph!vars) => GraphInv'
    BY GraphStep
  <1> QED
    BY <1>1, <1>2, GraphIsWellFormed, PTL DEF Graph!Spec

\* IsGraph: a call changes the sets of vertices and edges as its name says
\* when it answers 0, and otherwise nothing.
THEOREM GraphIsItsSets == Graph!Spec => [][Graph!IsGraph]_(Graph!vars)
  <1>1. Graph!Init => GraphInv
    BY EmptyGraph DEF Graph!Init, GraphInv
  <1>2. GraphInv /\ [Graph!Next]_(Graph!vars) => GraphInv' /\ Graph!IsGraph
    BY GraphStep
  <1> QED
    BY <1>1, <1>2, PTL DEF Graph!Spec
=============================================================================

--------------------------- MODULE CelloMapProofs ---------------------------
(***************************************************************************)
(* A Map with any keys that lt orders: the search tree stays one whatever  *)
(* is put and discarded, and the map answers as the abstract map does.     *)
(* What makes it inductive: the search for a key has one way to go         *)
(* (OneEnd); no key stands on the wrong side of another (Ordered); and the *)
(* subtree that moves up keeps the order of its nodes (Raises).            *)
(***************************************************************************)
EXTENDS CelloMap, FiniteSetTheorems, WellFoundedInduction, TLAPS

\* lt is a strict total order.
LtOrders ==
    /\ \A j, k \in Keys : j # k => (<<j, k>> \in Less \/ <<k, j>> \in Less)
    /\ \A j, k \in Keys : <<j, k>> \in Less => <<k, j>> \notin Less
    /\ \A i, j, k \in Keys : <<i, j>> \in Less /\ <<j, k>> \in Less => <<i, k>> \in Less
SourcesAreMaps == Sources \subseteq Seq(Keys \X Vals)

-----------------------------------------------------------------------------
\* Paths.
Sides == {LEFT, RIGHT}
Paths == Seq(Sides)
Cut(q, i)      == SubSeq(q, 1, i)
Within(p, q)   == Len(p) <= Len(q) /\ \A i \in 1 .. Len(p) : q[i] = p[i]
Below(p, s, q) == Len(p) < Len(q) /\ Within(p, q) /\ q[Len(p) + 1] = s

LEMMA SamePath ==
    ASSUME NEW p \in Paths, NEW q \in Paths, Len(p) = Len(q),
           \A i \in 1 .. Len(p) : p[i] = q[i]
    PROVE  p = q
BY DEF Paths

LEMMA CutPath ==
    ASSUME NEW q \in Paths, NEW i \in 0 .. Len(q)
    PROVE  /\ Cut(q, i) \in Paths /\ Len(Cut(q, i)) = i
           /\ \A j \in 1 .. i : Cut(q, i)[j] = q[j]
BY DEF Paths, Cut

LEMMA CutWhole ==
    ASSUME NEW q \in Paths
    PROVE  Cut(q, Len(q)) = q /\ Cut(q, 0) = <<>>
<1>1. Len(q) \in 0 .. Len(q) /\ 0 \in 0 .. Len(q)
  BY DEF Paths
<1>2. Cut(q, Len(q)) = q
  BY <1>1, CutPath, SamePath
<1>3. <<>> \in Paths /\ Len(<<>>) = 0
  BY DEF Paths
<1>4. Cut(q, 0) = <<>>
  BY <1>1, <1>3, CutPath, SamePath
<1> QED BY <1>2, <1>4

LEMMA CutTwice ==
    ASSUME NEW q \in Paths, NEW i \in 0 .. Len(q), NEW j \in 0 .. i
    PROVE  Cut(Cut(q, i), j) = Cut(q, j)
<1>1. j \in 0 .. Len(q) /\ j \in 0 .. Len(Cut(q, i)) /\ Cut(q, i) \in Paths
  BY CutPath DEF Paths
<1> QED BY <1>1, CutPath, SamePath

LEMMA CutSame ==
    ASSUME NEW p \in Paths, NEW q \in Paths, NEW n \in Nat, n <= Len(p), n <= Len(q),
           \A i \in 1 .. n : p[i] = q[i]
    PROVE  Cut(p, n) = Cut(q, n)
<1>1. n \in 0 .. Len(p) /\ n \in 0 .. Len(q)
  BY DEF Paths
<1> QED BY <1>1, CutPath, SamePath

LEMMA WithinIsCut ==
    ASSUME NEW p \in Paths, NEW q \in Paths, Within(p, q)
    PROVE  Cut(q, Len(p)) = p
<1>1. Len(p) \in Nat /\ Len(p) <= Len(q) /\ \A i \in 1 .. Len(p) : q[i] = p[i]
  BY DEF Within, Paths
<1>2. Cut(q, Len(p)) = Cut(p, Len(p))
  BY <1>1, CutSame
<1> QED BY <1>2, CutWhole

LEMMA PrefixIsWithin ==
    ASSUME NEW p \in Paths, NEW q \in Paths
    PROVE  IsPrefix(p, q) <=> Within(p, q)
<1>1. Len(p) \in Nat /\ Len(q) \in Nat
  BY DEF Paths
<1>2. ASSUME Len(p) <= Len(q) PROVE Cut(p, Len(p)) = Cut(q, Len(p)) <=> Within(p, q)
  <2>1. Len(p) \in 0 .. Len(q) /\ Len(p) \in 0 .. Len(p)
    BY <1>1, <1>2
  <2>2. ASSUME Cut(p, Len(p)) = Cut(q, Len(p)) PROVE Within(p, q)
    BY <1>2, <2>1, <2>2, CutPath, CutWhole DEF Within
  <2> QED BY <2>2, WithinIsCut, CutWhole
<1> QED BY <1>1, <1>2 DEF IsPrefix, Cut, Within

LEMMA AppendPath ==
    ASSUME NEW p \in Paths, NEW s \in Sides
    PROVE  /\ Append(p, s) \in Paths /\ Len(Append(p, s)) = Len(p) + 1
           /\ Append(p, s)[Len(p) + 1] = s
           /\ \A i \in 1 .. Len(p) : Append(p, s)[i] = p[i]
BY DEF Paths

LEMMA WithinAppend ==
    ASSUME NEW p \in Paths, NEW s \in Sides, NEW q \in Paths
    PROVE  IsPrefix(Append(p, s), q) <=> Below(p, s, q)
<1>1. Len(p) \in Nat /\ Len(q) \in Nat
  BY DEF Paths
<1>2. IsPrefix(Append(p, s), q) <=> Within(Append(p, s), q)
  BY AppendPath, PrefixIsWithin
<1> DEFINE a == Append(p, s)
<1>2a. Len(a) = Len(p) + 1 /\ a[Len(p) + 1] = s /\ \A i \in 1 .. Len(p) : a[i] = p[i]
  BY AppendPath
<1>3. ASSUME Within(a, q) PROVE Below(p, s, q)
  <2>1. \A i \in 1 .. Len(p) + 1 : q[i] = a[i]
    BY <1>2a, <1>3 DEF Within
  <2>2. Len(p) + 1 \in 1 .. Len(p) + 1 /\ \A i \in 1 .. Len(p) : i \in 1 .. Len(p) + 1
    BY <1>1
  <2> HIDE DEF a
  <2>3. q[Len(p) + 1] = s /\ \A i \in 1 .. Len(p) : q[i] = p[i]
    BY <1>2a, <2>1, <2>2
  <2> QED BY <1>1, <1>2a, <1>3, <2>3 DEF Within, Below
<1>4. ASSUME Below(p, s, q) PROVE Within(a, q)
  <2> HIDE DEF a
  <2>1. ASSUME NEW i \in 1 .. Len(p) + 1 PROVE q[i] = a[i]
    <3>1. i = Len(p) + 1 \/ i \in 1 .. Len(p)
      BY <1>1
    <3> QED BY <1>2a, <1>4, <3>1 DEF Below, Within
  <2> QED BY <1>1, <1>2a, <1>4, <2>1 DEF Within, Below
<1> QED BY <1>2, <1>3, <1>4

LEMMA HasLeast ==
    ASSUME NEW S \in SUBSET Nat, S # {}
    PROVE  \E i \in S : \A j \in S : i <= j
<1> DEFINE R == OpToRel(<, Nat)
<1>1. PICK i \in S : \A j \in S : <<j, i>> \notin R
  BY NatLessThanWellFounded, WFMin
<1>2. \A j \in S : ~(j < i)
  BY <1>1 DEF OpToRel
<1> QED BY <1>2

LEMMA HasGreatest ==
    ASSUME NEW S \in SUBSET Nat, S # {}, NEW n \in Nat, \A i \in S : i <= n
    PROVE  \E i \in S : \A j \in S : j <= i
<1> DEFINE T == {k \in Nat : \E i \in S : k = n - i}
<1>1. T \in SUBSET Nat
  OBVIOUS
<1>2. T # {}
  <2>1. PICK i \in S : TRUE
    OBVIOUS
  <2>2. n - i \in Nat
    BY <2>1
  <2>3. n - i \in T
    BY <2>2
  <2> QED BY <2>3
<1>3. PICK k \in T : \A l \in T : k <= l
  <2> HIDE DEF T
  <2> QED BY <1>1, <1>2, HasLeast
<1>4. PICK i \in S : k = n - i
  BY <1>3
<1>5. ASSUME NEW j \in S PROVE j <= i
  <2>1. n - j \in Nat
    OBVIOUS
  <2>2. n - j \in T
    BY <2>1
  <2>3. i \in Nat /\ j \in Nat /\ k = n - i
    BY <1>4
  <2>4. k <= n - j
    <3> HIDE DEF T
    <3> QED BY <1>3, <2>2
  <2> HIDE DEF T
  <2> QED BY <2>1, <2>3, <2>4
<1> QED BY <1>5

-----------------------------------------------------------------------------
\* Trees: every prefix of a path is a path in the tree, and no path is longer
\* than some number.
IsTree(root) ==
    /\ root = [p \in DOMAIN root |-> root[p]]
    /\ DOMAIN root \subseteq Paths
    /\ \A p \in DOMAIN root : root[p] \in Node
    /\ \A p \in DOMAIN root : \A i \in 0 .. Len(p) : Cut(p, i) \in DOMAIN root
    /\ \E n \in Nat : \A p \in DOMAIN root : Len(p) <= n
Key(root, p) == root[p].leaf_key

\* A search for key that is at p goes on to q.
LeadsTo(root, key, p, q) ==
    /\ Within(p, q)
    /\ \A i \in Len(p) .. Len(q) - 1 :
        /\ Cut(q, i) \in DOMAIN root /\ Key(root, Cut(q, i)) # key
        /\ q[i + 1] = Side(Key(root, Cut(q, i)), key)
EndsAt(root, key, q) == q \in DOMAIN root => Key(root, q) = key

LEMMA SideIsSide == \A k, key : Side(k, key) \in Sides
BY DEF Side, Sides

LEMMA SameWay ==
    ASSUME NEW root, NEW key, NEW p \in Paths, NEW q \in Paths, NEW r \in Paths,
           LeadsTo(root, key, p, q), LeadsTo(root, key, p, r)
    PROVE  \A i \in 1 .. Len(q) : i <= Len(r) => q[i] = r[i]
<1> DEFINE S == {i \in 1 .. Len(q) : i <= Len(r) /\ q[i] # r[i]}
<1>0. Len(p) \in Nat /\ Len(q) \in Nat /\ Len(r) \in Nat
  BY DEF Paths
<1>1. SUFFICES ASSUME S # {} PROVE FALSE
  OBVIOUS
<1>2. S \in SUBSET Nat
  BY <1>0
<1>3. PICK i \in S : \A j \in S : i <= j
  <2> HIDE DEF S
  <2> QED BY <1>1, <1>2, HasLeast
<1>4. i \in 1 .. Len(q) /\ i <= Len(r) /\ q[i] # r[i]
  BY <1>3
<1>5. \A j \in 1 .. i - 1 : q[j] = r[j]
  BY <1>0, <1>3, <1>4
<1>6. i > Len(p)
  BY <1>0, <1>4 DEF LeadsTo, Within
<1>7. i - 1 \in Len(p) .. Len(q) - 1 /\ i - 1 \in Len(p) .. Len(r) - 1 /\ i - 1 \in Nat
  BY <1>0, <1>4, <1>6
<1>8. Cut(q, i - 1) = Cut(r, i - 1)
  BY <1>0, <1>4, <1>5, <1>7, CutSame
<1>9. q[i - 1 + 1] = r[i - 1 + 1]
  BY <1>7, <1>8 DEF LeadsTo
<1> QED BY <1>0, <1>4, <1>9

LEMMA NoShorter ==
    ASSUME NEW root, NEW key, NEW p \in Paths, NEW q \in Paths, NEW r \in Paths,
           LeadsTo(root, key, p, q), LeadsTo(root, key, p, r), EndsAt(root, key, q)
    PROVE  Len(r) <= Len(q)
<1>0. Len(p) \in Nat /\ Len(q) \in Nat /\ Len(r) \in Nat
  BY DEF Paths
<1>1. SUFFICES ASSUME Len(q) < Len(r) PROVE FALSE
  BY <1>0
<1>2. \A i \in 1 .. Len(q) : q[i] = r[i]
  BY <1>0, <1>1, SameWay
<1>3. Cut(q, Len(q)) = Cut(r, Len(q))
  BY <1>0, <1>1, <1>2, CutSame
<1>4. Cut(r, Len(q)) = q
  BY <1>3, CutWhole
<1>5. Len(q) \in Len(p) .. Len(r) - 1
  BY <1>0, <1>1 DEF LeadsTo, Within
<1> QED BY <1>4, <1>5 DEF LeadsTo, EndsAt

\* A search has one way to go.
LEMMA OneEnd ==
    ASSUME NEW root, NEW key, NEW p \in Paths, NEW q \in Paths, NEW r \in Paths,
           LeadsTo(root, key, p, q), EndsAt(root, key, q),
           LeadsTo(root, key, p, r), EndsAt(root, key, r)
    PROVE  q = r
<1>1. Len(q) \in Nat /\ Len(r) \in Nat
  BY DEF Paths
<1>2. Len(q) = Len(r)
  BY <1>1, NoShorter
<1>3. \A i \in 1 .. Len(q) : q[i] = r[i]
  BY <1>1, <1>2, SameWay
<1> QED BY <1>2, <1>3, SamePath

LEMMA StaysThere ==
    ASSUME NEW root, NEW key, NEW p \in Paths PROVE LeadsTo(root, key, p, p)
<1>1. Len(p) \in Nat
  BY DEF Paths
<1> QED BY <1>1 DEF LeadsTo, Within

\* One step more, at either end.
LEMMA GoesOn ==
    ASSUME NEW root, NEW key, NEW p \in Paths, NEW r \in Paths,
           LeadsTo(root, key, p, r), r \in DOMAIN root, Key(root, r) # key
    PROVE  LeadsTo(root, key, p, Append(r, Side(Key(root, r), key)))
<1> DEFINE q == Append(r, Side(Key(root, r), key))
<1>0. Len(p) \in Nat /\ Len(r) \in Nat
  BY DEF Paths
<1>1. /\ q \in Paths /\ Len(q) = Len(r) + 1
      /\ q[Len(r) + 1] = Side(Key(root, r), key)
      /\ \A i \in 1 .. Len(r) : q[i] = r[i]
  BY SideIsSide, AppendPath
<1> HIDE DEF q
<1>2. Within(p, q)
  BY <1>0, <1>1 DEF LeadsTo, Within
<1>3. ASSUME NEW i \in Len(p) .. Len(q) - 1
      PROVE  /\ Cut(q, i) \in DOMAIN root /\ Key(root, Cut(q, i)) # key
             /\ q[i + 1] = Side(Key(root, Cut(q, i)), key)
  <2>1. Cut(q, i) = Cut(r, i)
    BY <1>0, <1>1, CutSame
  <2>2. CASE i = Len(r)
    BY <1>1, <2>1, <2>2, CutWhole
  <2>3. CASE i # Len(r)
    <3>1. i \in Len(p) .. Len(r) - 1 /\ i + 1 \in 1 .. Len(r)
      BY <1>0, <1>1, <2>3
    <3> QED BY <1>1, <2>1, <3>1 DEF LeadsTo
  <2> QED BY <2>2, <2>3
<1>4. LeadsTo(root, key, p, q)
  BY <1>2, <1>3 DEF LeadsTo
<1> QED BY <1>4 DEF q

LEMMA ComesFrom ==
    ASSUME NEW root, NEW key, NEW p \in Paths, NEW q \in Paths,
           p \in DOMAIN root, Key(root, p) # key,
           LeadsTo(root, key, Append(p, Side(Key(root, p), key)), q)
    PROVE  LeadsTo(root, key, p, q)
<1> DEFINE r == Append(p, Side(Key(root, p), key))
<1>0. Len(p) \in Nat /\ Len(q) \in Nat
  BY DEF Paths
<1>1. /\ r \in Paths /\ Len(r) = Len(p) + 1
      /\ r[Len(p) + 1] = Side(Key(root, p), key)
      /\ \A i \in 1 .. Len(p) : r[i] = p[i]
  BY SideIsSide, AppendPath
<1>2. LeadsTo(root, key, r, q)
  OBVIOUS
<1> HIDE DEF r
<1>3. Len(r) <= Len(q) /\ \A i \in 1 .. Len(p) + 1 : q[i] = r[i]
  BY <1>1, <1>2 DEF LeadsTo, Within
<1>4. Within(p, q)
  BY <1>0, <1>1, <1>3 DEF Within
<1>5. Cut(q, Len(p)) = p /\ q[Len(p) + 1] = Side(Key(root, p), key)
  BY <1>0, <1>1, <1>3, <1>4, WithinIsCut
<1>6. ASSUME NEW i \in Len(p) .. Len(q) - 1
      PROVE  /\ Cut(q, i) \in DOMAIN root /\ Key(root, Cut(q, i)) # key
             /\ q[i + 1] = Side(Key(root, Cut(q, i)), key)
  <2>1. CASE i = Len(p)
    BY <1>5, <2>1
  <2>2. CASE i # Len(p)
    <3>1. i \in Len(r) .. Len(q) - 1
      BY <1>0, <1>1, <2>2
    <3> QED BY <1>2, <3>1 DEF LeadsTo
  <2> QED BY <2>1, <2>2
<1> QED BY <1>4, <1>6 DEF LeadsTo

LEMMA HasEnd ==
    ASSUME NEW root, IsTree(root), NEW key, NEW p \in DOMAIN root
    PROVE  \E q \in Paths : LeadsTo(root, key, p, q) /\ EndsAt(root, key, q)
<1> DEFINE S == {i \in Nat : \E q \in Paths : LeadsTo(root, key, p, q) /\ Len(q) = i}
<1>1. p \in Paths /\ Len(p) \in Nat
  BY DEF IsTree, Paths
<1>2. PICK n \in Nat : \A q \in DOMAIN root : Len(q) <= n
  BY DEF IsTree
<1>3. ASSUME NEW q \in Paths, LeadsTo(root, key, p, q) PROVE Len(q) <= n + 1
  <2>0. Len(q) \in Nat
    BY DEF Paths
  <2>1. CASE Len(q) = Len(p)
    BY <1>2, <2>0, <2>1
  <2>2. CASE Len(q) # Len(p)
    <3>1. Len(q) - 1 \in Len(p) .. Len(q) - 1 /\ Len(q) - 1 \in 0 .. Len(q)
      BY <1>1, <1>3, <2>0, <2>2 DEF LeadsTo, Within
    <3>2. Cut(q, Len(q) - 1) \in DOMAIN root
      BY <1>3, <3>1 DEF LeadsTo
    <3>3. Len(Cut(q, Len(q) - 1)) = Len(q) - 1
      BY <3>1, CutPath
    <3> QED BY <1>2, <2>0, <3>2, <3>3
  <2> QED BY <2>1, <2>2
<1>4. S \in SUBSET Nat /\ \A i \in S : i <= n + 1
  BY <1>3
<1>5. Len(p) \in S
  BY <1>1, StaysThere
<1>6. PICK i \in S : \A j \in S : j <= i
  <2> HIDE DEF S
  <2>1. n + 1 \in Nat
    OBVIOUS
  <2> QED BY <1>4, <1>5, <2>1, HasGreatest
<1>7. PICK q \in Paths : LeadsTo(root, key, p, q) /\ Len(q) = i
  BY <1>6
<1>8. ASSUME q \in DOMAIN root, Key(root, q) # key PROVE FALSE
  <2> DEFINE r == Append(q, Side(Key(root, q), key))
  <2>1. r \in Paths /\ Len(r) = i + 1
    BY <1>7, SideIsSide, AppendPath
  <2>2. LeadsTo(root, key, p, r)
    BY <1>1, <1>7, <1>8, GoesOn
  <2>3. i \in Nat /\ Len(r) \in S
    <3>1. i \in Nat
      BY <1>6
    <3>2. Len(r) \in Nat
      BY <2>1, <3>1
    <3> HIDE DEF r
    <3>3. \E t \in Paths : LeadsTo(root, key, p, t) /\ Len(t) = Len(r)
      BY <2>1, <2>2
    <3> QED BY <3>1, <3>2, <3>3
  <2> HIDE DEF r, S
  <2>4. Len(r) <= i
    BY <1>6, <2>3
  <2> QED BY <2>1, <2>3, <2>4
<1> QED BY <1>7, <1>8 DEF EndsAt

\* The search as the recursion in End does it: what a function on the nodes
\* must satisfy to be it, that there is one, and where it leads.
Searches(root, key, f) ==
    f = [p \in DOMAIN root |->
            IF root[p].leaf_key = key THEN p
            ELSE IF Append(p, Side(root[p].leaf_key, key)) \in DOMAIN root
            THEN f[Append(p, Side(root[p].leaf_key, key))]
            ELSE Append(p, Side(root[p].leaf_key, key))]

LEMMA SearchExists ==
    ASSUME NEW root, IsTree(root), NEW key
    PROVE  \E f : Searches(root, key, f)
<1> DEFINE Ends(p, q) == q \in Paths /\ LeadsTo(root, key, p, q) /\ EndsAt(root, key, q)
           f == [p \in DOMAIN root |-> CHOOSE q : Ends(p, q)]
           next(p) == Append(p, Side(root[p].leaf_key, key))
<1>1. ASSUME NEW p \in DOMAIN root
      PROVE  f[p] = IF root[p].leaf_key = key THEN p
                    ELSE IF next(p) \in DOMAIN root THEN f[next(p)] ELSE next(p)
  <2>1. p \in Paths /\ next(p) \in Paths
    BY SideIsSide, AppendPath DEF IsTree
  <2>2. Ends(p, f[p])
    BY HasEnd
  <2>3. ASSUME NEW q, Ends(p, q) PROVE f[p] = q
    BY <2>1, <2>2, <2>3, OneEnd
  <2>4. CASE root[p].leaf_key = key
    <3>1. Ends(p, p)
      BY <2>1, <2>4, StaysThere DEF EndsAt, Key
    <3> QED BY <2>3, <2>4, <3>1
  <2>5. CASE root[p].leaf_key # key /\ next(p) \notin DOMAIN root
    <3>1. LeadsTo(root, key, p, next(p))
      BY <2>1, <2>5, StaysThere, GoesOn DEF Key
    <3>2. Ends(p, next(p))
      BY <2>1, <2>5, <3>1 DEF EndsAt
    <3> QED BY <2>3, <2>5, <3>2
  <2>6. CASE root[p].leaf_key # key /\ next(p) \in DOMAIN root
    <3>1. Ends(next(p), f[next(p)])
      BY <2>6, HasEnd
    <3>2. Ends(p, f[next(p)])
      BY <2>1, <2>6, <3>1, ComesFrom DEF Key
    <3>3. f[p] = f[next(p)]
      <4> HIDE DEF f, next, Ends
      <4> QED BY <2>3, <3>2
    <3> QED BY <2>6, <3>3
  <2> QED BY <2>4, <2>5, <2>6
<1>2. Searches(root, key, f)
  BY <1>1 DEF Searches
<1> QED BY <1>2

LEMMA SearchEnds ==
    ASSUME NEW root, IsTree(root), NEW key, NEW f, Searches(root, key, f), NEW p \in DOMAIN root
    PROVE  f[p] \in Paths /\ LeadsTo(root, key, p, f[p]) /\ EndsAt(root, key, f[p])
<1> DEFINE Good(q) == f[q] \in Paths /\ LeadsTo(root, key, q, f[q]) /\ EndsAt(root, key, f[q])
           S == {i \in Nat : \E q \in DOMAIN root : ~Good(q) /\ Len(q) = i}
           next(q) == Append(q, Side(root[q].leaf_key, key))
<1>0. \A q \in DOMAIN root : q \in Paths /\ Len(q) \in Nat
  BY DEF IsTree, Paths
<1>1. SUFFICES ASSUME ~Good(p) PROVE FALSE
  OBVIOUS
<1>2. PICK n \in Nat : \A q \in DOMAIN root : Len(q) <= n
  BY DEF IsTree
<1>3. S \in SUBSET Nat /\ \A i \in S : i <= n
  BY <1>2
<1>4. Len(p) \in S
  BY <1>0, <1>1
<1>5. PICK i \in S : \A j \in S : j <= i
  <2> HIDE DEF S
  <2> QED BY <1>3, <1>4, HasGreatest
<1>6. PICK q \in DOMAIN root : ~Good(q) /\ Len(q) = i
  BY <1>5
<1>7. f[q] = IF root[q].leaf_key = key THEN q
             ELSE IF next(q) \in DOMAIN root THEN f[next(q)] ELSE next(q)
  BY DEF Searches
<1>8. q \in Paths /\ next(q) \in Paths /\ Len(next(q)) = i + 1 /\ i \in Nat
  BY <1>0, <1>6, SideIsSide, AppendPath
<1>9. CASE root[q].leaf_key = key
  BY <1>6, <1>7, <1>8, <1>9, StaysThere DEF EndsAt, Key
<1>10. CASE root[q].leaf_key # key /\ next(q) \notin DOMAIN root
  <2>1. LeadsTo(root, key, q, next(q))
    BY <1>8, <1>10, StaysThere, GoesOn DEF Key
  <2> QED BY <1>6, <1>7, <1>8, <1>10, <2>1 DEF EndsAt
<1>11. CASE root[q].leaf_key # key /\ next(q) \in DOMAIN root
  <2>1. ~ (i + 1 <= i)
    BY <1>8
  <2>2. i + 1 \notin S
    <3> HIDE DEF S
    <3> QED BY <1>5, <2>1
  <2>3. Good(next(q))
    <3>1. i + 1 \in Nat
      BY <1>8
    <3> HIDE DEF Good, next
    <3> QED BY <1>8, <1>11, <2>2, <3>1
  <2>4. LeadsTo(root, key, q, f[next(q)])
    BY <1>8, <1>11, <2>3, ComesFrom DEF Key
  <2> QED BY <1>6, <1>7, <1>11, <2>3, <2>4
<1> QED BY <1>9, <1>10, <1>11

LEMMA EndIs ==
    ASSUME NEW root, IsTree(root), NEW key
    PROVE  /\ End(root, key) \in Paths
           /\ LeadsTo(root, key, <<>>, End(root, key))
           /\ EndsAt(root, key, End(root, key))
<1>1. CASE <<>> \in DOMAIN root
  <2> DEFINE f == CHOOSE f : Searches(root, key, f)
  <2>1. Searches(root, key, f)
    BY SearchExists
  <2>2. End(root, key) = f[<<>>]
    BY <1>1 DEF End, Searches
  <2> QED BY <1>1, <2>1, <2>2, SearchEnds
<1>2. CASE <<>> \notin DOMAIN root
  <2>1. End(root, key) = <<>> /\ <<>> \in Paths
    BY <1>2 DEF End, Paths
  <2> QED BY <1>2, <2>1, StaysThere DEF EndsAt
<1> QED BY <1>1, <1>2

-----------------------------------------------------------------------------
\* Order: every node stands where the search for its key from above goes.
Ordered(root) ==
    \A p, q \in DOMAIN root : \A s \in Sides :
        Below(p, s, q) => /\ Key(root, p) # Key(root, q)
                          /\ Side(Key(root, p), Key(root, q)) = s
SearchTree(root) == IsTree(root) /\ Ordered(root)

LEMMA Node_is ==
    ASSUME NEW root, IsTree(root), NEW p \in DOMAIN root
    PROVE  /\ p \in Paths /\ Key(root, p) \in Keys /\ root[p].leaf_val \in Vals
           /\ root[p] = [leaf_key |-> Key(root, p), leaf_val |-> root[p].leaf_val]
BY DEF IsTree, Node, Key

LEMMA BelowCut ==
    ASSUME NEW q \in Paths, NEW i \in 0 .. Len(q) - 1
    PROVE  Below(Cut(q, i), q[i + 1], q) /\ q[i + 1] \in Sides
<1>1. i \in 0 .. Len(q) /\ i + 1 \in 1 .. Len(q) /\ Len(q) \in Nat
  BY DEF Paths
<1>2. Len(Cut(q, i)) = i /\ \A j \in 1 .. i : Cut(q, i)[j] = q[j]
  BY <1>1, CutPath
<1>3. q[i + 1] \in Sides
  BY <1>1 DEF Paths
<1> QED BY <1>1, <1>2, <1>3 DEF Below, Within

LEMMA Found ==
    ASSUME NEW root, SearchTree(root), NEW p \in DOMAIN root
    PROVE  End(root, Key(root, p)) = p
<1>1. IsTree(root) /\ Ordered(root) /\ p \in Paths /\ <<>> \in Paths /\ Len(<<>>) = 0
  BY DEF SearchTree, IsTree, Paths
<1>2. ASSUME NEW i \in 0 .. Len(p) - 1
      PROVE  /\ Cut(p, i) \in DOMAIN root /\ Key(root, Cut(p, i)) # Key(root, p)
             /\ p[i + 1] = Side(Key(root, Cut(p, i)), Key(root, p))
  <2>1. i \in 0 .. Len(p)
    BY <1>1 DEF Paths
  <2>2. Cut(p, i) \in DOMAIN root
    BY <1>1, <2>1 DEF IsTree
  <2> QED BY <1>1, <2>2, BelowCut DEF Ordered
<1>3. Within(<<>>, p)
  BY <1>1 DEF Within, Paths
<1>4. LeadsTo(root, Key(root, p), <<>>, p)
  BY <1>1, <1>2, <1>3 DEF LeadsTo
<1> QED BY <1>1, <1>4, EndIs, OneEnd DEF EndsAt

LEMMA EndOfKey ==
    ASSUME NEW root, SearchTree(root), NEW k
    PROVE  /\ End(root, k) \in DOMAIN root => Key(root, End(root, k)) = k
           /\ End(root, k) \in DOMAIN root <=> \E p \in DOMAIN root : Key(root, p) = k
BY EndIs, Found DEF SearchTree, EndsAt

LEMMA OneNode ==
    ASSUME NEW root, SearchTree(root), NEW p \in DOMAIN root, NEW q \in DOMAIN root,
           Key(root, p) = Key(root, q)
    PROVE  p = q
BY Found

\* What keeps the order: a map to the nodes of an ordered tree that keeps the
\* keys and what is below what.
LEMMA StaysOrdered ==
    ASSUME NEW root, NEW new, Ordered(root), NEW was,
           \A q \in DOMAIN new : was[q] \in DOMAIN root /\ Key(new, q) = Key(root, was[q]),
           \A p, q \in DOMAIN new : \A s \in Sides :
                Below(p, s, q) => Below(was[p], s, was[q])
    PROVE  Ordered(new)
BY DEF Ordered

-----------------------------------------------------------------------------
\* put.
LEMMA PutIsTree ==
    ASSUME NEW root, IsTree(root), NEW key \in Keys, NEW val \in Vals
    PROVE  IsTree(WithNode(root, End(root, key), key, val))
<1> DEFINE p == End(root, key)
           new == WithNode(root, p, key, val)
<1> SUFFICES IsTree(new)
  OBVIOUS
<1>1. p \in Paths /\ LeadsTo(root, key, <<>>, p) /\ <<>> \in Paths /\ Len(<<>>) = 0
  BY EndIs DEF Paths
<1>2. /\ DOMAIN new = DOMAIN root \cup {p}
      /\ new[p] = [leaf_key |-> key, leaf_val |-> val]
      /\ \A q \in DOMAIN root \ {p} : new[q] = root[q]
  <2> HIDE DEF p
  <2> QED BY DEF WithNode, Key
<1>3. new = [q \in DOMAIN new |-> new[q]]
  BY DEF WithNode
<1> HIDE DEF new, p
<1>4. Len(p) \in Nat
  BY <1>1 DEF Paths
<1>5. \A i \in 0 .. Len(p) - 1 : Cut(p, i) \in DOMAIN root
  BY <1>1 DEF LeadsTo
<1>6. DOMAIN new \subseteq Paths /\ \A q \in DOMAIN new : new[q] \in Node
  BY <1>1, <1>2 DEF IsTree, Node
<1>7. ASSUME NEW q \in DOMAIN new, NEW i \in 0 .. Len(q) PROVE Cut(q, i) \in DOMAIN new
  <2>1. CASE q \in DOMAIN root
    BY <1>2, <2>1 DEF IsTree
  <2>2. CASE q = p /\ i = Len(p)
    BY <1>1, <1>2, <2>2, CutWhole
  <2>3. CASE q = p /\ i # Len(p)
    <3>1. i \in 0 .. Len(p) - 1
      BY <1>4, <2>3
    <3> QED BY <1>2, <1>5, <2>3, <3>1
  <2> QED BY <1>2, <2>1, <2>2, <2>3
<1>8. \E n \in Nat : \A q \in DOMAIN new : Len(q) <= n
  <2>1. PICK n \in Nat : \A q \in DOMAIN root : Len(q) <= n
    BY DEF IsTree
  <2>2. n + Len(p) \in Nat /\ \A q \in DOMAIN root : q \in Paths /\ Len(q) \in Nat
    BY <1>4 DEF IsTree, Paths
  <2>3. \A q \in DOMAIN new : Len(q) <= n + Len(p)
    BY <1>2, <1>4, <2>1, <2>2
  <2> QED BY <2>2, <2>3
<1> QED BY <1>3, <1>6, <1>7, <1>8 DEF IsTree

LEMMA PutIsOrdered ==
    ASSUME NEW root, SearchTree(root), NEW key \in Keys, NEW val \in Vals
    PROVE  Ordered(WithNode(root, End(root, key), key, val))
<1> DEFINE p == End(root, key)
           new == WithNode(root, p, key, val)
<1> SUFFICES Ordered(new)
  OBVIOUS
<1>0. IsTree(root) /\ Ordered(root)
  BY DEF SearchTree
<1>1. /\ p \in Paths /\ LeadsTo(root, key, <<>>, p) /\ Len(p) \in Nat
      /\ Len(<<>>) = 0 /\ EndsAt(root, key, p)
  BY <1>0, EndIs DEF Paths
<1>2. /\ DOMAIN new = DOMAIN root \cup {p} /\ Key(new, p) = key
      /\ \A q \in DOMAIN root \ {p} : Key(new, q) = Key(root, q)
  <2> HIDE DEF p
  <2> QED BY DEF WithNode, Key
<1> HIDE DEF new, p
<1>3. CASE p \in DOMAIN root
  <2>1. DOMAIN new = DOMAIN root /\ \A q \in DOMAIN root : Key(new, q) = Key(root, q)
    BY <1>1, <1>2, <1>3 DEF EndsAt
  <2> QED BY <1>0, <2>1 DEF Ordered
<1>4. CASE p \notin DOMAIN root
  <2>1. SUFFICES ASSUME NEW a \in DOMAIN new, NEW b \in DOMAIN new, NEW s \in Sides, Below(a, s, b)
                 PROVE  Key(new, a) # Key(new, b) /\ Side(Key(new, a), Key(new, b)) = s
    BY DEF Ordered
  <2>2. a \in Paths /\ b \in Paths
    BY <1>0, <1>1, <1>2 DEF IsTree
  <2>3. Len(a) \in 0 .. Len(b) - 1 /\ Len(a) \in 0 .. Len(b) /\ Cut(b, Len(a)) = a
        /\ b[Len(a) + 1] = s
    BY <2>1, <2>2, WithinIsCut DEF Below, Paths
  <2>4. CASE b = p
    BY <1>1, <1>2, <1>4, <2>3, <2>4 DEF LeadsTo
  <2>5. CASE b # p
    <3>1. a \in DOMAIN root /\ b \in DOMAIN root
      BY <1>0, <1>2, <2>3, <2>5 DEF IsTree
    <3> QED BY <1>0, <1>2, <1>4, <2>1, <3>1 DEF Ordered
  <2> QED BY <2>4, <2>5
<1> QED BY <1>3, <1>4

-----------------------------------------------------------------------------
\* discard of a node p with at most one child: the paths under p lose the
\* step after p.
Raised(p, q) == p \o SubSeq(q, Len(p) + 2, Len(q))
Lowered(p, x, q) == p \o x \o SubSeq(q, Len(p) + 1, Len(q))
Under(root, p) == {q \in DOMAIN root : Within(p, q) /\ p # q}
Kept(root, p)  == {q \in DOMAIN root : ~Within(p, q)}
AtMostOne(root, p) == ~(Append(p, LEFT) \in DOMAIN root /\ Append(p, RIGHT) \in DOMAIN root)

LEMMA ConcatIs ==
    ASSUME NEW a \in Paths, NEW t \in Paths
    PROVE  /\ a \o t \in Paths /\ Len(a \o t) = Len(a) + Len(t)
           /\ \A i \in 1 .. Len(a) : (a \o t)[i] = a[i]
           /\ \A i \in Len(a) + 1 .. Len(a) + Len(t) : (a \o t)[i] = t[i - Len(a)]
BY DEF Paths

LEMMA RaisedIs ==
    ASSUME NEW p \in Paths, NEW q \in Paths, Len(p) < Len(q)
    PROVE  /\ Raised(p, q) \in Paths /\ Len(Raised(p, q)) = Len(q) - 1
           /\ \A i \in 1 .. Len(p) : Raised(p, q)[i] = p[i]
           /\ \A i \in Len(p) + 1 .. Len(q) - 1 : Raised(p, q)[i] = q[i + 1]
<1> DEFINE t == SubSeq(q, Len(p) + 2, Len(q))
<1>0. Len(p) \in Nat /\ Len(q) \in Nat
  BY DEF Paths
<1>1. /\ t \in Paths /\ Len(t) = Len(q) - Len(p) - 1
      /\ \A i \in 1 .. Len(q) - Len(p) - 1 : t[i] = q[Len(p) + 1 + i]
  BY <1>0 DEF Paths
<1> HIDE DEF t
<1>2. /\ p \o t \in Paths /\ Len(p \o t) = Len(p) + Len(t)
      /\ \A i \in 1 .. Len(p) : (p \o t)[i] = p[i]
      /\ \A i \in Len(p) + 1 .. Len(p) + Len(t) : (p \o t)[i] = t[i - Len(p)]
  BY <1>0, <1>1 DEF Paths
<1>3. \A i \in Len(p) + 1 .. Len(q) - 1 : (p \o t)[i] = q[i + 1]
  BY <1>0, <1>1, <1>2
<1>4. Raised(p, q) = p \o t
  BY DEF Raised, t
<1> QED BY <1>0, <1>1, <1>2, <1>3, <1>4

LEMMA LoweredIs ==
    ASSUME NEW p \in Paths, NEW q \in Paths, Len(p) <= Len(q), NEW c \in Sides
    PROVE  /\ Lowered(p, <<c>>, q) \in Paths /\ Len(Lowered(p, <<c>>, q)) = Len(q) + 1
           /\ \A i \in 1 .. Len(p) : Lowered(p, <<c>>, q)[i] = p[i]
           /\ Lowered(p, <<c>>, q)[Len(p) + 1] = c
           /\ \A i \in Len(p) + 2 .. Len(q) + 1 : Lowered(p, <<c>>, q)[i] = q[i - 1]
<1> DEFINE t == SubSeq(q, Len(p) + 1, Len(q))
           a == p \o <<c>>
<1>0. Len(p) \in Nat /\ Len(q) \in Nat
  BY DEF Paths
<1>1. /\ t \in Paths /\ Len(t) = Len(q) - Len(p)
      /\ \A i \in 1 .. Len(q) - Len(p) : t[i] = q[Len(p) + i]
  BY <1>0 DEF Paths
<1>2. /\ a \in Paths /\ Len(a) = Len(p) + 1 /\ a[Len(p) + 1] = c
      /\ \A i \in 1 .. Len(p) : a[i] = p[i]
  BY <1>0 DEF Paths
<1> HIDE DEF t, a
<1>3. /\ a \o t \in Paths /\ Len(a \o t) = Len(a) + Len(t)
      /\ \A i \in 1 .. Len(a) : (a \o t)[i] = a[i]
      /\ \A i \in Len(a) + 1 .. Len(a) + Len(t) : (a \o t)[i] = t[i - Len(a)]
  BY <1>1, <1>2, ConcatIs
<1>4. ASSUME NEW i \in Len(p) + 2 .. Len(q) + 1 PROVE (a \o t)[i] = q[i - 1]
  <2>1. i \in Len(a) + 1 .. Len(a) + Len(t) /\ i - Len(a) \in 1 .. Len(q) - Len(p)
    BY <1>0, <1>1, <1>2
  <2>2. Len(p) + (i - Len(a)) = i - 1
    BY <1>0, <1>2
  <2>3. (a \o t)[i] = t[i - Len(a)]
    BY <1>3, <2>1
  <2>4. t[i - Len(a)] = q[Len(p) + (i - Len(a))]
    BY <1>1, <2>1
  <2> QED BY <2>2, <2>3, <2>4
<1>5. (a \o t)[Len(p) + 1] = c /\ \A i \in 1 .. Len(p) : (a \o t)[i] = p[i]
  BY <1>0, <1>2, <1>3
<1>6. Lowered(p, <<c>>, q) = a \o t
  BY DEF Lowered, t, a
<1>7. Len(a \o t) = Len(q) + 1
  BY <1>0, <1>1, <1>2, <1>3
<1> QED BY <1>3, <1>4, <1>5, <1>6, <1>7

LEMMA UnderLonger ==
    ASSUME NEW p \in Paths, NEW q \in Paths, Within(p, q), p # q
    PROVE  Len(p) < Len(q) /\ q[Len(p) + 1] \in Sides /\ Cut(q, Len(p) + 1) = Append(p, q[Len(p) + 1])
<1>0. Len(p) \in Nat /\ Len(q) \in Nat
  BY DEF Paths
<1>1. Len(p) # Len(q)
  BY SamePath DEF Within
<1>2. Len(p) < Len(q)
  BY <1>0, <1>1 DEF Within
<1>3. q[Len(p) + 1] \in Sides
  BY <1>0, <1>2 DEF Paths
<1> DEFINE a == Append(p, q[Len(p) + 1])
           b == Cut(q, Len(p) + 1)
<1>4. /\ a \in Paths /\ Len(a) = Len(p) + 1 /\ a[Len(p) + 1] = q[Len(p) + 1]
      /\ \A i \in 1 .. Len(p) : a[i] = p[i]
  BY <1>3, AppendPath
<1>5. Len(p) + 1 \in 0 .. Len(q)
  BY <1>0, <1>2
<1>6. b \in Paths /\ Len(b) = Len(p) + 1 /\ \A i \in 1 .. Len(p) + 1 : b[i] = q[i]
  BY <1>5, CutPath
<1> HIDE DEF a, b
<1>7. ASSUME NEW i \in 1 .. Len(p) + 1 PROVE b[i] = a[i]
  <2>1. i = Len(p) + 1 \/ i \in 1 .. Len(p)
    BY <1>0
  <2> QED BY <1>4, <1>6, <2>1 DEF Within
<1>8. a = b
  BY <1>4, <1>6, <1>7, SamePath
<1> QED BY <1>2, <1>3, <1>8 DEF a, b

LEMMA LoweredRaised ==
    ASSUME NEW p \in Paths, NEW q \in Paths, Within(p, q), p # q
    PROVE  Lowered(p, <<q[Len(p) + 1]>>, Raised(p, q)) = q
<1> DEFINE r == Raised(p, q)
           c == q[Len(p) + 1]
           t == Lowered(p, <<c>>, r)
<1>0. Len(p) \in Nat /\ Len(q) \in Nat /\ Len(p) < Len(q) /\ c \in Sides
  BY UnderLonger DEF Paths
<1>1. /\ r \in Paths /\ Len(r) = Len(q) - 1
      /\ \A i \in Len(p) + 1 .. Len(q) - 1 : r[i] = q[i + 1]
  BY <1>0, RaisedIs
<1> HIDE DEF r
<1>2. Len(p) <= Len(r)
  BY <1>0, <1>1
<1>3. /\ t \in Paths /\ Len(t) = Len(r) + 1
      /\ \A i \in 1 .. Len(p) : t[i] = p[i]
      /\ t[Len(p) + 1] = c
      /\ \A i \in Len(p) + 2 .. Len(r) + 1 : t[i] = r[i - 1]
  BY <1>0, <1>1, <1>2, LoweredIs
<1> HIDE DEF t
<1>4. ASSUME NEW i \in 1 .. Len(q) PROVE t[i] = q[i]
  <2>1. CASE i \in 1 .. Len(p)
    BY <1>3, <2>1 DEF Within
  <2>2. CASE i = Len(p) + 1
    BY <1>3, <2>2
  <2>3. CASE i \in Len(p) + 2 .. Len(q)
    <3>1. t[i] = r[i - 1]
      BY <1>0, <1>1, <1>3, <2>3
    <3>2. i - 1 \in Len(p) + 1 .. Len(q) - 1 /\ i - 1 + 1 = i
      BY <1>0, <2>3
    <3>3. r[i - 1] = q[i - 1 + 1]
      BY <1>1, <3>2
    <3> QED BY <3>1, <3>2, <3>3
  <2> QED BY <1>0, <2>1, <2>2, <2>3
<1>5. Len(t) = Len(q)
  BY <1>0, <1>1, <1>3
<1>6. t = q
  BY <1>3, <1>4, <1>5, SamePath
<1> QED BY <1>6 DEF t, r

Moved(root, p) == {Raised(p, q) : q \in Under(root, p)}

LEMMA SplicedForm ==
    ASSUME NEW root, IsTree(root), NEW p \in DOMAIN root, AtMostOne(root, p)
    PROVE  \E x : /\ Spliced(root, p) =
                        [q \in Kept(root, p) \cup Moved(root, p) |->
                            IF q \in Kept(root, p) THEN root[q] ELSE root[Lowered(p, x, q)]]
                  /\ \A q \in Under(root, p) : x = <<q[Len(p) + 1]>>
<1> DEFINE x == CHOOSE s \in {<<LEFT>>, <<RIGHT>>} : p \o s \in DOMAIN root
<1>1. p \in Paths /\ Len(p) \in Nat /\ DOMAIN root \subseteq Paths
  BY DEF IsTree, Paths
<1>2. \A s \in Sides : p \o <<s>> = Append(p, s)
  BY <1>1 DEF Paths
<1>3. ASSUME NEW q \in Under(root, p) PROVE x = <<q[Len(p) + 1]>>
  <2> DEFINE c == q[Len(p) + 1]
  <2>1. q \in DOMAIN root /\ q \in Paths /\ Within(p, q) /\ p # q
    BY <1>1 DEF Under
  <2>2. Len(p) < Len(q) /\ c \in Sides /\ Cut(q, Len(p) + 1) = Append(p, c)
    BY <1>1, <2>1, UnderLonger
  <2>3. Len(p) + 1 \in 0 .. Len(q)
    BY <1>1, <2>1, <2>2 DEF Paths
  <2>4. Append(p, c) \in DOMAIN root
    BY <2>1, <2>2, <2>3 DEF IsTree
  <2>5. ASSUME NEW s \in Sides, p \o <<s>> \in DOMAIN root PROVE s = c
    <3> HIDE DEF c, x
    <3>1. Append(p, s) \in DOMAIN root /\ s \in {LEFT, RIGHT} /\ c \in {LEFT, RIGHT}
      BY <1>2, <2>2, <2>5 DEF Sides
    <3> QED BY <2>4, <3>1 DEF AtMostOne
  <2>6. p \o <<c>> \in DOMAIN root /\ <<c>> \in {<<LEFT>>, <<RIGHT>>}
    BY <1>2, <2>2, <2>4 DEF Sides
  <2>7. x \in {<<LEFT>>, <<RIGHT>>} /\ p \o x \in DOMAIN root
    BY <2>6
  <2>8. PICK s \in Sides : x = <<s>>
    BY <2>7 DEF Sides
  <2>9. s = c
    BY <2>5, <2>7, <2>8
  <2> QED BY <2>8, <2>9
<1> DEFINE K == {q \in DOMAIN root : ~IsPrefix(p, q)}
           M == {p \o SubSeq(q, Len(p) + 2, Len(q)) :
                    q \in {r \in DOMAIN root : IsStrictPrefix(p, r)}}
<1>4. K = Kept(root, p)
  BY <1>1, PrefixIsWithin DEF Kept
<1>5. Under(root, p) = {r \in DOMAIN root : IsStrictPrefix(p, r)}
  BY <1>1, PrefixIsWithin DEF Under, IsStrictPrefix
<1>6. M = Moved(root, p)
  BY <1>5 DEF Moved, Raised
<1>7. Spliced(root, p) =
        [q \in K \cup M |-> IF q \in K THEN root[q] ELSE root[Lowered(p, x, q)]]
  BY DEF Spliced, Lowered
<1> HIDE DEF x, K, M
<1>8. Spliced(root, p) =
        [q \in Kept(root, p) \cup Moved(root, p) |->
            IF q \in Kept(root, p) THEN root[q] ELSE root[Lowered(p, x, q)]]
  BY <1>4, <1>6, <1>7
<1> QED BY <1>3, <1>8

\* What becomes of the nodes: each but p has its place, which was[q] is the
\* former path of, and what was below on a side still is.
Places(root, p, new, was) ==
    /\ new = [q \in DOMAIN was |-> root[was[q]]]
    /\ \A q \in DOMAIN was : was[q] \in DOMAIN root \ {p}
    /\ \A q, r \in DOMAIN was : was[q] = was[r] => q = r
    /\ \A r \in DOMAIN root \ {p} : \E q \in DOMAIN was : was[q] = r
    /\ \A q \in Kept(root, p) : q \in DOMAIN was /\ was[q] = q
    /\ \A q, r \in DOMAIN was : \A s \in Sides : Below(q, s, r) => Below(was[q], s, was[r])

LEMMA RaisedNotKept ==
    ASSUME NEW p \in Paths, NEW q \in Paths, Len(p) < Len(q)
    PROVE  Within(p, Raised(p, q))
<1>1. Len(p) \in Nat /\ Len(q) \in Nat
  BY DEF Paths
<1> QED BY <1>1, RaisedIs DEF Within

LEMMA WithinWithin ==
    ASSUME NEW p \in Paths, NEW q \in Paths, NEW r \in Paths, Within(p, q), Within(q, r)
    PROVE  Within(p, r)
<1>1. Len(p) \in Nat /\ Len(q) \in Nat /\ Len(r) \in Nat
  BY DEF Paths
<1> QED BY <1>1 DEF Within

LEMMA BelowRaised ==
    ASSUME NEW p \in Paths, NEW a \in Paths, NEW r \in Paths, NEW s \in Sides,
           ~Within(p, a), Within(p, r), p # r, Below(a, s, Raised(p, r))
    PROVE  Below(a, s, r)
<1> DEFINE b == Raised(p, r)
<1>0. Len(p) \in Nat /\ Len(a) \in Nat /\ Len(r) \in Nat /\ Len(p) < Len(r)
  BY UnderLonger DEF Paths
<1>1. b \in Paths /\ Len(b) = Len(r) - 1 /\ \A i \in 1 .. Len(p) : b[i] = p[i]
  BY <1>0, RaisedIs
<1>2. Below(a, s, b)
  OBVIOUS
<1> HIDE DEF b
<1>3. Len(a) < Len(p)
  <2>1. ASSUME Len(p) <= Len(a) PROVE Within(p, a)
    <3>1. ASSUME NEW i \in 1 .. Len(p) PROVE a[i] = p[i]
      <4>1. i \in 1 .. Len(a)
        BY <1>0, <2>1
      <4> QED BY <1>1, <1>2, <4>1 DEF Below, Within
    <3> QED BY <2>1, <3>1 DEF Within
  <2> QED BY <1>0, <2>1
<1>4. \A i \in 1 .. Len(a) + 1 : r[i] = b[i]
  BY <1>0, <1>1, <1>3 DEF Within
<1>5. Len(a) + 1 \in 1 .. Len(a) + 1 /\ \A i \in 1 .. Len(a) : i \in 1 .. Len(a) + 1
  BY <1>0
<1>6. r[Len(a) + 1] = s /\ \A i \in 1 .. Len(a) : r[i] = a[i]
  BY <1>2, <1>4, <1>5 DEF Below, Within
<1> QED BY <1>0, <1>3, <1>6 DEF Below, Within

LEMMA BothRaised ==
    ASSUME NEW p \in Paths, NEW q \in Paths, NEW r \in Paths, NEW s \in Sides,
           Within(p, q), p # q, Within(p, r), p # r, q[Len(p) + 1] = r[Len(p) + 1],
           Below(Raised(p, q), s, Raised(p, r))
    PROVE  Below(q, s, r)
<1> DEFINE a == Raised(p, q)
           b == Raised(p, r)
<1>0. Len(p) \in Nat /\ Len(q) \in Nat /\ Len(r) \in Nat /\ Len(p) < Len(r) /\ Len(p) < Len(q)
  BY UnderLonger DEF Paths
<1>1. Len(a) = Len(q) - 1 /\ \A i \in Len(p) + 1 .. Len(q) - 1 : a[i] = q[i + 1]
  BY <1>0, RaisedIs
<1>2. Len(b) = Len(r) - 1 /\ \A i \in Len(p) + 1 .. Len(r) - 1 : b[i] = r[i + 1]
  BY <1>0, RaisedIs
<1>3. Len(a) < Len(b) /\ b[Len(a) + 1] = s /\ \A i \in 1 .. Len(a) : b[i] = a[i]
  BY DEF Below, Within
<1> HIDE DEF a, b
<1>4. Len(q) < Len(r)
  BY <1>0, <1>1, <1>2, <1>3
<1>5. ASSUME NEW i \in 1 .. Len(q) PROVE r[i] = q[i]
  <2>1. CASE i \in 1 .. Len(p)
    BY <2>1 DEF Within
  <2>2. CASE i = Len(p) + 1
    BY <2>2
  <2>3. CASE i \in Len(p) + 2 .. Len(q)
    <3>1. /\ i - 1 \in Len(p) + 1 .. Len(q) - 1 /\ i - 1 \in Len(p) + 1 .. Len(r) - 1
          /\ i - 1 \in 1 .. Len(a) /\ i - 1 + 1 = i
      BY <1>0, <1>1, <1>4, <2>3
    <3>2. a[i - 1] = q[i - 1 + 1] /\ b[i - 1] = r[i - 1 + 1] /\ b[i - 1] = a[i - 1]
      BY <1>1, <1>2, <1>3, <3>1
    <3> QED BY <3>1, <3>2
  <2> QED BY <1>0, <2>1, <2>2, <2>3
<1>6. r[Len(q) + 1] = s
  <2>1. Len(a) + 1 = Len(q) /\ Len(q) \in Len(p) + 1 .. Len(r) - 1
    BY <1>0, <1>1, <1>4
  <2> QED BY <1>2, <1>3, <2>1
<1> QED BY <1>0, <1>4, <1>5, <1>6 DEF Below, Within

LEMMA SplicedPlaces ==
    ASSUME NEW root, IsTree(root), NEW p \in DOMAIN root, AtMostOne(root, p)
    PROVE  \E was : /\ DOMAIN was = Kept(root, p) \cup Moved(root, p)
                    /\ Places(root, p, Spliced(root, p), was)
<1>1. p \in Paths /\ Len(p) \in Nat /\ DOMAIN root \subseteq Paths
  BY DEF IsTree, Paths
<1>2. PICK x : /\ Spliced(root, p) =
                        [q \in Kept(root, p) \cup Moved(root, p) |->
                            IF q \in Kept(root, p) THEN root[q] ELSE root[Lowered(p, x, q)]]
               /\ \A q \in Under(root, p) : x = <<q[Len(p) + 1]>>
  BY SplicedForm
<1> DEFINE D == Kept(root, p) \cup Moved(root, p)
           was == [q \in D |-> IF q \in Kept(root, p) THEN q ELSE Lowered(p, x, q)]
<1>3. Within(p, p)
  BY <1>1 DEF Within
<1>4. ASSUME NEW q \in Kept(root, p)
      PROVE  q \in D /\ was[q] = q /\ q \in DOMAIN root \ {p} /\ ~Within(p, q) /\ q \in Paths
  BY <1>1, <1>3 DEF Kept
<1>5. ASSUME NEW r \in Under(root, p)
      PROVE  /\ Raised(p, r) \in D /\ was[Raised(p, r)] = r /\ r \in DOMAIN root \ {p}
             /\ Within(p, Raised(p, r)) /\ r \in Paths /\ Within(p, r) /\ p # r
             /\ Raised(p, r) \in Paths
  <2>1. r \in Paths /\ r \in DOMAIN root \ {p} /\ Within(p, r) /\ p # r
    BY <1>1 DEF Under
  <2>2. Len(p) < Len(r)
    BY <1>1, <2>1, UnderLonger
  <2>3. Within(p, Raised(p, r)) /\ Raised(p, r) \in Paths
    BY <1>1, <2>1, <2>2, RaisedNotKept, RaisedIs
  <2>4. Raised(p, r) \in D /\ Raised(p, r) \notin Kept(root, p)
    BY <2>3 DEF Moved, Kept
  <2>5. x = <<r[Len(p) + 1]>>
    BY <1>2
  <2>6. Lowered(p, x, Raised(p, r)) = r
    BY <1>1, <2>1, <2>5, LoweredRaised
  <2> QED BY <2>1, <2>3, <2>4, <2>6
<1>6. ASSUME NEW q \in D, q \notin Kept(root, p)
      PROVE  \E r \in Under(root, p) : q = Raised(p, r)
  BY <1>6 DEF Moved
<1>7. Spliced(root, p) = [q \in D |-> root[was[q]]]
  BY <1>2
<1>8. ASSUME NEW q \in D PROVE was[q] \in DOMAIN root \ {p}
  <2>1. CASE q \in Kept(root, p)
    BY <1>4, <2>1
  <2>2. CASE q \notin Kept(root, p)
    <3> HIDE DEF was, D
    <3> QED BY <1>5, <1>6, <2>2
  <2> QED BY <2>1, <2>2
<1>9. ASSUME NEW r \in DOMAIN root \ {p} PROVE \E q \in D : was[q] = r
  <2>1. CASE Within(p, r)
    <3>1. r \in Under(root, p)
      BY <2>1 DEF Under
    <3> HIDE DEF was, D
    <3> QED BY <1>5, <3>1
  <2>2. CASE ~Within(p, r)
    <3>1. r \in Kept(root, p)
      BY <2>2 DEF Kept
    <3> HIDE DEF was, D
    <3> QED BY <1>4, <3>1
  <2> QED BY <2>1, <2>2
<1>10. DOMAIN was = D
  OBVIOUS
<1> HIDE DEF was, D
<1>11. ASSUME NEW a \in D, NEW b \in D, NEW s \in Sides, Below(a, s, b)
       PROVE  Below(was[a], s, was[b])
  <2>0. Within(a, b)
    BY <1>11 DEF Below
  <2>1. CASE a \in Kept(root, p) /\ b \in Kept(root, p)
    BY <1>4, <1>11, <2>1
  <2>2. CASE a \in Kept(root, p) /\ b \notin Kept(root, p)
    <3>1. PICK r \in Under(root, p) : b = Raised(p, r)
      BY <1>6, <2>2
    <3> QED BY <1>1, <1>4, <1>5, <1>11, <2>2, <3>1, BelowRaised
  <2>3. CASE a \notin Kept(root, p) /\ b \in Kept(root, p)
    <3>1. PICK r \in Under(root, p) : a = Raised(p, r)
      BY <1>6, <2>3
    <3> QED BY <1>1, <1>4, <1>5, <2>0, <2>3, <3>1, WithinWithin
  <2>4. CASE a \notin Kept(root, p) /\ b \notin Kept(root, p)
    <3>1. PICK q \in Under(root, p) : a = Raised(p, q)
      BY <1>6, <2>4
    <3>2. PICK r \in Under(root, p) : b = Raised(p, r)
      BY <1>6, <2>4
    <3>3. <<q[Len(p) + 1]>> = <<r[Len(p) + 1]>>
      BY <1>2
    <3>4. q[Len(p) + 1] = r[Len(p) + 1]
      BY <3>3
    <3>5. Below(q, s, r)
      BY <1>1, <1>5, <1>11, <3>1, <3>2, <3>4, BothRaised
    <3> QED BY <1>5, <3>1, <3>2, <3>5
  <2> QED BY <2>1, <2>2, <2>3, <2>4
<1>12. ASSUME NEW a \in D, NEW b \in D, was[a] = was[b] PROVE a = b
  <2>1. CASE a \in Kept(root, p) /\ b \in Kept(root, p)
    BY <1>4, <1>12, <2>1
  <2>2. ASSUME NEW q \in D, NEW r \in D, q \in Kept(root, p), r \notin Kept(root, p)
        PROVE  was[q] # was[r]
    <3>1. PICK t \in Under(root, p) : r = Raised(p, t)
      BY <1>6, <2>2
    <3> QED BY <1>4, <1>5, <2>2, <3>1
  <2>3. CASE a \notin Kept(root, p) /\ b \notin Kept(root, p)
    <3>1. PICK q \in Under(root, p) : a = Raised(p, q)
      BY <1>6, <2>3
    <3>2. PICK r \in Under(root, p) : b = Raised(p, r)
      BY <1>6, <2>3
    <3> QED BY <1>5, <1>12, <3>1, <3>2
  <2> QED BY <1>12, <2>1, <2>2, <2>3
<1>13. Places(root, p, Spliced(root, p), was)
  BY <1>4, <1>7, <1>8, <1>9, <1>10, <1>11, <1>12 DEF Places
<1>14. DOMAIN was = Kept(root, p) \cup Moved(root, p)
  BY <1>10 DEF D
<1> QED BY <1>13, <1>14

LEMMA SplicedIsTree ==
    ASSUME NEW root, IsTree(root), NEW p \in DOMAIN root, AtMostOne(root, p)
    PROVE  IsTree(Spliced(root, p))
<1>1. p \in Paths /\ Len(p) \in Nat /\ DOMAIN root \subseteq Paths
  BY DEF IsTree, Paths
<1>2. PICK was : /\ DOMAIN was = Kept(root, p) \cup Moved(root, p)
                 /\ Places(root, p, Spliced(root, p), was)
  BY SplicedPlaces
<1> DEFINE new == Spliced(root, p)
           D == Kept(root, p) \cup Moved(root, p)
<1>3. DOMAIN new = D /\ new = [q \in D |-> new[q]]
  BY <1>2 DEF Places
<1>4. ASSUME NEW q \in D PROVE new[q] \in Node
  <2>1. new[q] = root[was[q]] /\ was[q] \in DOMAIN root
    BY <1>2 DEF Places
  <2> QED BY <2>1 DEF IsTree
<1> HIDE DEF new
<1>5. ASSUME NEW q \in D
      PROVE  \/ q \in Kept(root, p) /\ q \in DOMAIN root /\ q \in Paths /\ ~Within(p, q)
             \/ \E r \in DOMAIN root :
                    /\ r \in Paths /\ Within(p, r) /\ p # r /\ Len(p) < Len(r) /\ q = Raised(p, r)
  BY <1>1, UnderLonger DEF Kept, Moved, Under
<1>6. D \subseteq Paths
  BY <1>1, <1>5, RaisedIs
<1>7. ASSUME NEW q \in D, NEW i \in 0 .. Len(q) PROVE Cut(q, i) \in D
  <2>1. CASE q \in Kept(root, p) /\ q \in DOMAIN root /\ q \in Paths /\ ~Within(p, q)
    <3>1. Cut(q, i) \in DOMAIN root /\ Cut(q, i) \in Paths
      BY <2>1, CutPath DEF IsTree
    <3>2. Within(Cut(q, i), q)
      <4>1. Len(q) \in Nat
        BY <2>1 DEF Paths
      <4> QED BY <2>1, <4>1, CutPath DEF Within
    <3>3. ~Within(p, Cut(q, i))
      BY <1>1, <2>1, <3>1, <3>2, WithinWithin
    <3> QED BY <3>1, <3>3 DEF Kept
  <2>2. ASSUME NEW r \in DOMAIN root, r \in Paths, Within(p, r), p # r, Len(p) < Len(r), q = Raised(p, r)
        PROVE  Cut(q, i) \in D
    <3>0. Len(r) \in Nat
      BY <2>2 DEF Paths
    <3>1. /\ q \in Paths /\ Len(q) = Len(r) - 1
          /\ \A j \in 1 .. Len(p) : q[j] = p[j]
          /\ \A j \in Len(p) + 1 .. Len(r) - 1 : q[j] = r[j + 1]
      BY <1>1, <2>2, RaisedIs
    <3>2. CASE i < Len(p)
      <4>1. i \in 0 .. Len(p) /\ i \in Nat /\ i <= Len(q) /\ \A j \in 1 .. i : j \in 1 .. Len(p)
        BY <1>1, <3>0, <3>1, <3>2
      <4>2. Cut(q, i) = Cut(p, i)
        BY <1>1, <3>1, <4>1, CutSame
      <4>3. Cut(p, i) \in DOMAIN root /\ Len(Cut(p, i)) = i
        BY <1>1, <4>1, CutPath DEF IsTree
      <4>4. ~Within(p, Cut(p, i))
        BY <1>1, <3>2, <4>1, <4>3 DEF Within
      <4> QED BY <4>2, <4>3, <4>4 DEF Kept
    <3>3. CASE i >= Len(p)
      <4> DEFINE t == Cut(r, i + 1)
      <4>1. i + 1 \in 0 .. Len(r)
        BY <1>1, <3>0, <3>1
      <4>2. t \in DOMAIN root /\ t \in Paths /\ Len(t) = i + 1 /\ \A j \in 1 .. i + 1 : t[j] = r[j]
        BY <2>2, <4>1, CutPath DEF IsTree
      <4> HIDE DEF t
      <4>3. Len(p) < Len(t) /\ p # t
        BY <1>1, <3>3, <4>1, <4>2
      <4>4. Within(p, t)
        <5>1. \A j \in 1 .. Len(p) : j \in 1 .. i + 1
          BY <1>1, <3>3, <4>1
        <5> QED BY <1>1, <2>2, <4>2, <4>3, <5>1 DEF Within
      <4>5. /\ Raised(p, t) \in Paths /\ Len(Raised(p, t)) = i
            /\ \A j \in 1 .. Len(p) : Raised(p, t)[j] = p[j]
            /\ \A j \in Len(p) + 1 .. i : Raised(p, t)[j] = t[j + 1]
        <5>1. Len(t) - 1 = i
          BY <4>1, <4>2
        <5>2. /\ Raised(p, t) \in Paths /\ Len(Raised(p, t)) = Len(t) - 1
              /\ \A j \in 1 .. Len(p) : Raised(p, t)[j] = p[j]
              /\ \A j \in Len(p) + 1 .. Len(t) - 1 : Raised(p, t)[j] = t[j + 1]
          BY <1>1, <4>2, <4>3, RaisedIs
        <5> QED BY <5>1, <5>2
      <4>6. Cut(q, i) \in Paths /\ Len(Cut(q, i)) = i /\ \A j \in 1 .. i : Cut(q, i)[j] = q[j]
        BY <3>1, CutPath
      <4>7. ASSUME NEW j \in 1 .. i PROVE Cut(q, i)[j] = Raised(p, t)[j]
        <5>1. CASE j \in 1 .. Len(p)
          BY <3>1, <4>5, <4>6, <5>1
        <5>2. CASE j \in Len(p) + 1 .. i
          <6>1. j \in Len(p) + 1 .. Len(r) - 1 /\ j + 1 \in 1 .. i + 1
            BY <1>1, <3>0, <3>1, <4>1, <5>2
          <6> QED BY <3>1, <4>2, <4>5, <4>6, <5>2, <6>1
        <5> QED BY <1>1, <5>1, <5>2
      <4>8. Cut(q, i) = Raised(p, t)
        BY <4>5, <4>6, <4>7, SamePath
      <4> QED BY <4>2, <4>3, <4>4, <4>8 DEF Moved, Under
    <3> QED BY <1>1, <3>1, <3>2, <3>3
  <2> QED BY <1>5, <2>1, <2>2
<1>8. \E n \in Nat : \A q \in D : Len(q) <= n
  <2>1. PICK n \in Nat : \A q \in DOMAIN root : Len(q) <= n
    BY DEF IsTree
  <2>2. ASSUME NEW q \in D PROVE Len(q) <= n
    <3>1. CASE q \in DOMAIN root
      BY <2>1, <3>1
    <3>2. ASSUME NEW r \in DOMAIN root, r \in Paths, Len(p) < Len(r), q = Raised(p, r)
          PROVE  Len(q) <= n
      <4>1. Len(q) = Len(r) - 1 /\ Len(r) \in Nat /\ Len(r) <= n
        BY <1>1, <2>1, <3>2, RaisedIs DEF Paths
      <4> QED BY <4>1
    <3> QED BY <1>5, <3>1, <3>2
  <2> QED BY <2>2
<1> HIDE DEF D
<1>9. IsTree(new)
  BY <1>3, <1>4, <1>6, <1>7, <1>8 DEF IsTree
<1> QED BY <1>9 DEF new

LEMMA SplicedIsOrdered ==
    ASSUME NEW root, SearchTree(root), NEW p \in DOMAIN root, AtMostOne(root, p)
    PROVE  SearchTree(Spliced(root, p))
<1>1. IsTree(root) /\ Ordered(root)
  BY DEF SearchTree
<1>2. PICK was : Places(root, p, Spliced(root, p), was)
  BY <1>1, SplicedPlaces
<1> DEFINE new == Spliced(root, p)
<1>3. /\ DOMAIN new = DOMAIN was
      /\ \A q \in DOMAIN new : was[q] \in DOMAIN root /\ Key(new, q) = Key(root, was[q])
      /\ \A q, r \in DOMAIN new : \A s \in Sides : Below(q, s, r) => Below(was[q], s, was[r])
  BY <1>2 DEF Places, Key
<1> HIDE DEF new
<1>4. Ordered(new)
  BY <1>1, <1>3, StaysOrdered
<1>5. IsTree(new)
  BY <1>1, SplicedIsTree DEF new
<1> QED BY <1>4, <1>5 DEF SearchTree, new

-----------------------------------------------------------------------------
\* discard of a node with two children: the neighbour in order.
Other(s) == IF s = LEFT THEN RIGHT ELSE LEFT

LEMMA SideOf ==
    ASSUME LtOrders, NEW j \in Keys, NEW k \in Keys, j # k
    PROVE  /\ Side(j, k) = LEFT <=> <<j, k>> \in Less
           /\ Side(j, k) = RIGHT <=> <<k, j>> \in Less
BY DEF LtOrders, Side, LEFT, RIGHT

LEMMA Across ==
    ASSUME LtOrders, NEW j \in Keys, NEW k \in Keys, j # k
    PROVE  Side(k, j) = Other(Side(j, k))
BY DEF LtOrders, Side, LEFT, RIGHT, Other

\* Of two keys on different sides of a third.
LEMMA Between ==
    ASSUME LtOrders, NEW c \in Keys, NEW j \in Keys, NEW k \in Keys, c # j, c # k,
           NEW s \in Sides, Side(c, j) = Other(s), Side(c, k) = s
    PROVE  j # k /\ Side(j, k) = s
<1>1. CASE s = LEFT
  <2>1. <<c, k>> \in Less /\ <<j, c>> \in Less
    BY <1>1, SideOf DEF Other, LEFT, RIGHT
  <2>2. <<j, k>> \in Less /\ j # k
    BY <2>1 DEF LtOrders
  <2> QED BY <1>1, <2>2, SideOf
<1>2. CASE s = RIGHT
  <2>1. <<k, c>> \in Less /\ <<c, j>> \in Less
    BY <1>2, SideOf DEF Other, LEFT, RIGHT
  <2>2. <<k, j>> \in Less /\ j # k
    BY <2>1 DEF LtOrders
  <2> QED BY <1>2, <2>2, SideOf
<1> QED BY <1>1, <1>2 DEF Sides

\* q is the last node on side b of the first one on side a of p.
Farthest(root, p, a, b, q) ==
    /\ q \in DOMAIN root /\ Below(p, a, q)
    /\ \A i \in Len(p) + 2 .. Len(q) : q[i] = b
    /\ Append(q, b) \notin DOMAIN root

LEMMA ExtremeIs ==
    ASSUME NEW root, IsTree(root), NEW p \in DOMAIN root, NEW a \in Sides, NEW b \in Sides,
           Append(p, a) \in DOMAIN root
    PROVE  Farthest(root, p, a, b, Extreme(root, p, a, b))
<1> DEFINE walk == {q \in DOMAIN root : /\ IsPrefix(Append(p, a), q)
                                       /\ \A i \in Len(p) + 2 .. Len(q) : q[i] = b}
           S == {n \in Nat : \E q \in walk : Len(q) = n}
<1>1. p \in Paths /\ Len(p) \in Nat /\ DOMAIN root \subseteq Paths
  BY DEF IsTree, Paths
<1>2. ASSUME NEW q \in walk
      PROVE  /\ q \in Paths /\ Len(q) \in Nat /\ q \in DOMAIN root /\ Below(p, a, q)
             /\ \A i \in Len(p) + 2 .. Len(q) : q[i] = b
  BY <1>1, WithinAppend DEF Paths
<1>3. Append(p, a) \in walk
  <2>1. /\ Append(p, a) \in Paths /\ Len(Append(p, a)) = Len(p) + 1
    BY <1>1, AppendPath
  <2>2. Within(Append(p, a), Append(p, a))
    BY <1>1, <2>1 DEF Within
  <2>3. IsPrefix(Append(p, a), Append(p, a))
    BY <2>1, <2>2, PrefixIsWithin
  <2>4. Len(p) + 2 .. Len(Append(p, a)) = {}
    BY <1>1, <2>1
  <2> QED BY <2>3, <2>4
<1> HIDE DEF walk
<1>4. PICK n \in Nat : \A q \in DOMAIN root : Len(q) <= n
  BY DEF IsTree
<1>5. S \in SUBSET Nat /\ \A i \in S : i <= n
  BY <1>2, <1>4
<1>6. Len(Append(p, a)) \in S
  BY <1>2, <1>3
<1>7. PICK i \in S : \A j \in S : j <= i
  <2> HIDE DEF S
  <2> QED BY <1>5, <1>6, HasGreatest
<1>8. \E q \in walk : \A r \in walk : Len(r) <= Len(q)
  <2>1. PICK q \in walk : Len(q) = i
    BY <1>7
  <2>2. \A r \in walk : Len(r) \in S
    BY <1>2
  <2> HIDE DEF S
  <2> QED BY <1>7, <2>1, <2>2
<1> DEFINE q == Extreme(root, p, a, b)
<1>9. q = CHOOSE t \in walk : \A r \in walk : Len(r) <= Len(t)
  BY DEF Extreme, walk
<1>10. q \in walk /\ \A r \in walk : Len(r) <= Len(q)
  BY <1>8, <1>9
<1> HIDE DEF q
<1>11. ASSUME Append(q, b) \in DOMAIN root PROVE FALSE
  <2> DEFINE t == Append(q, b)
  <2>1. /\ t \in Paths /\ Len(t) = Len(q) + 1 /\ t[Len(q) + 1] = b
        /\ \A j \in 1 .. Len(q) : t[j] = q[j]
    BY <1>2, <1>10, AppendPath
  <2> HIDE DEF t
  <2>2. Len(q) \in Nat /\ Len(p) < Len(q) /\ q[Len(p) + 1] = a /\ \A j \in 1 .. Len(p) : q[j] = p[j]
    BY <1>2, <1>10 DEF Below, Within
  <2>3. Below(p, a, t)
    <3>1. Len(p) + 1 \in 1 .. Len(q) /\ \A j \in 1 .. Len(p) : j \in 1 .. Len(q)
      BY <1>1, <2>2
    <3> QED BY <1>1, <2>1, <2>2, <3>1 DEF Below, Within
  <2>4. ASSUME NEW j \in Len(p) + 2 .. Len(t) PROVE t[j] = b
    <3>1. CASE j = Len(q) + 1
      BY <2>1, <3>1
    <3>2. CASE j # Len(q) + 1
      <4>1. j \in Len(p) + 2 .. Len(q) /\ j \in 1 .. Len(q)
        BY <1>1, <2>1, <2>2, <3>2
      <4> QED BY <1>2, <1>10, <2>1, <4>1
    <3> QED BY <3>1, <3>2
  <2>5. t \in walk
    <3>1. IsPrefix(Append(p, a), t)
      BY <1>1, <2>1, <2>3, WithinAppend
    <3>2. t \in DOMAIN root
      BY <1>11 DEF t
    <3> QED BY <2>4, <3>1, <3>2 DEF walk
  <2>6. Len(t) <= Len(q)
    BY <1>10, <2>5
  <2> QED BY <2>1, <2>2, <2>6
<1> QED BY <1>2, <1>10, <1>11 DEF Farthest, q

LEMMA TwoPaths ==
    ASSUME NEW q \in Paths, NEW r \in Paths, q # r
    PROVE  \/ \E s \in Sides : Below(q, s, r) \/ Below(r, s, q)
           \/ \E i \in 0 .. Len(q) - 1 : /\ i < Len(r) /\ q[i + 1] # r[i + 1]
                                         /\ \A j \in 1 .. i : q[j] = r[j]
<1> DEFINE S == {i \in 1 .. Len(q) : i <= Len(r) /\ q[i] # r[i]}
<1>0. Len(q) \in Nat /\ Len(r) \in Nat
  BY DEF Paths
<1>1. CASE S = {}
  <2>1. \A i \in 1 .. Len(q) : i <= Len(r) => q[i] = r[i]
    BY <1>1
  <2>2. CASE Len(q) < Len(r)
    <3>1. \A i \in 1 .. Len(q) : r[i] = q[i]
      BY <1>0, <2>1, <2>2
    <3>2. r[Len(q) + 1] \in Sides
      BY <1>0, <2>2 DEF Paths
    <3> QED BY <1>0, <2>2, <3>1, <3>2 DEF Below, Within
  <2>3. CASE Len(r) < Len(q)
    <3>1. \A i \in 1 .. Len(r) : q[i] = r[i]
      BY <1>0, <2>1, <2>3
    <3>2. q[Len(r) + 1] \in Sides
      BY <1>0, <2>3 DEF Paths
    <3> QED BY <1>0, <2>3, <3>1, <3>2 DEF Below, Within
  <2>4. Len(q) # Len(r)
    BY <1>0, <2>1, SamePath
  <2> QED BY <1>0, <2>2, <2>3, <2>4
<1>2. CASE S # {}
  <2>1. S \in SUBSET Nat
    BY <1>0
  <2>2. PICK k \in S : \A j \in S : k <= j
    <3> HIDE DEF S
    <3> QED BY <1>2, <2>1, HasLeast
  <2> DEFINE i == k - 1
  <2>3. k \in 1 .. Len(q) /\ k <= Len(r) /\ q[k] # r[k]
    BY <2>2
  <2>4. \A j \in 1 .. i : q[j] = r[j]
    BY <1>0, <2>2, <2>3
  <2>5. i \in 0 .. Len(q) - 1 /\ i < Len(r) /\ i + 1 = k
    BY <1>0, <2>3
  <2> HIDE DEF i
  <2> QED BY <2>3, <2>4, <2>5
<1> QED BY <1>1, <1>2

LEMMA BelowBoth ==
    ASSUME NEW p \in Paths, NEW q \in Paths, NEW r \in Paths, NEW a \in Sides,
           Below(p, a, q), Below(p, a, r)
    PROVE  Len(p) + 1 <= Len(q) /\ \A i \in 1 .. Len(p) + 1 : q[i] = r[i]
<1>1. Len(p) \in Nat /\ Len(q) \in Nat /\ Len(r) \in Nat
  BY DEF Paths
<1>2. ASSUME NEW i \in 1 .. Len(p) + 1 PROVE q[i] = r[i]
  <2>1. i = Len(p) + 1 \/ i \in 1 .. Len(p)
    BY <1>1
  <2> QED BY <2>1 DEF Below, Within
<1> QED BY <1>1, <1>2 DEF Below

LEMMA CutBelow ==
    ASSUME NEW root, IsTree(root), NEW q \in DOMAIN root, NEW i \in 0 .. Len(q) - 1
    PROVE  Cut(q, i) \in DOMAIN root /\ Below(Cut(q, i), q[i + 1], q) /\ q[i + 1] \in Sides
<1>1. q \in Paths /\ i \in 0 .. Len(q)
  BY DEF IsTree, Paths
<1> QED BY <1>1, BelowCut DEF IsTree

\* The neighbour in order stands between the node and all others below it.
LEMMA FarthestOrders ==
    ASSUME LtOrders, NEW root, SearchTree(root), NEW p \in DOMAIN root, NEW a \in Sides,
           NEW q, Farthest(root, p, a, Other(a), q),
           NEW r \in DOMAIN root, r # q, NEW s \in Sides, Below(p, s, r)
    PROVE  Key(root, q) # Key(root, r) /\ Side(Key(root, q), Key(root, r)) = s
<1>1. IsTree(root) /\ Ordered(root)
  BY DEF SearchTree
<1>2. /\ q \in DOMAIN root /\ Below(p, a, q) /\ Append(q, Other(a)) \notin DOMAIN root
      /\ \A i \in Len(p) + 2 .. Len(q) : q[i] = Other(a)
  BY DEF Farthest
<1>3. /\ p \in Paths /\ q \in Paths /\ r \in Paths
      /\ Key(root, p) \in Keys /\ Key(root, q) \in Keys /\ Key(root, r) \in Keys
  BY <1>1, <1>2, Node_is
<1>4. Len(p) \in Nat /\ Len(q) \in Nat /\ Len(r) \in Nat
  BY <1>3 DEF Paths
<1>5. Other(a) \in Sides /\ Other(Other(a)) = a
  BY DEF Other, Sides, LEFT, RIGHT
<1>6. Key(root, p) # Key(root, q) /\ Side(Key(root, p), Key(root, q)) = a
  BY <1>1, <1>2 DEF Ordered
<1>7. Key(root, p) # Key(root, r) /\ Side(Key(root, p), Key(root, r)) = s
  BY <1>1 DEF Ordered
<1>8. CASE s # a
  <2>1. a = Other(s)
    BY <1>8 DEF Other, Sides, LEFT, RIGHT
  <2> QED BY <1>3, <1>6, <1>7, <2>1, Between
<1>9. CASE s = a
  <2>0. Len(p) + 1 <= Len(q) /\ \A i \in 1 .. Len(p) + 1 : q[i] = r[i]
    BY <1>2, <1>3, <1>9, BelowBoth
  <2>1. ASSUME NEW t \in Sides, Below(q, t, r) PROVE Side(Key(root, q), Key(root, r)) = s
    <3>1. Key(root, q) # Key(root, r) /\ Side(Key(root, q), Key(root, r)) = t
      BY <1>1, <1>2, <2>1 DEF Ordered
    <3>2. CASE t = Other(a)
      <4>1. q # r /\ Within(q, r) /\ r[Len(q) + 1] = t
        BY <2>1 DEF Below
      <4>2. Cut(r, Len(q) + 1) = Append(q, t)
        BY <1>3, <4>1, UnderLonger
      <4>3. Len(q) + 1 \in 0 .. Len(r)
        BY <1>4, <2>1 DEF Below
      <4>4. Append(q, t) \in DOMAIN root
        BY <1>1, <4>2, <4>3 DEF IsTree
      <4> QED BY <1>2, <3>2, <4>4
    <3>3. CASE t = a
      BY <1>9, <3>1, <3>3
    <3> QED BY <3>2, <3>3 DEF Other, Sides
  <2>2. ASSUME NEW t \in Sides, Below(r, t, q) PROVE Side(Key(root, q), Key(root, r)) = s
    <3>1. Key(root, r) # Key(root, q) /\ Side(Key(root, r), Key(root, q)) = t
      BY <1>1, <1>2, <2>2 DEF Ordered
    <3>2. Len(r) + 1 \in Len(p) + 2 .. Len(q) /\ q[Len(r) + 1] = t
      BY <1>4, <2>2 DEF Below
    <3>3. t = Other(a)
      BY <1>2, <3>2
    <3> QED BY <1>3, <1>5, <1>9, <3>1, <3>3, Across
  <2>3. ASSUME NEW i \in 0 .. Len(q) - 1, i < Len(r), q[i + 1] # r[i + 1],
               \A j \in 1 .. i : q[j] = r[j]
        PROVE  Side(Key(root, q), Key(root, r)) = s
    <3>1. i + 1 \in Len(p) + 2 .. Len(q)
      BY <1>4, <2>0, <2>3
    <3>2. q[i + 1] = Other(a)
      BY <1>2, <3>1
    <3>3. i \in 0 .. Len(r) - 1 /\ i \in Nat
      BY <1>4, <2>3
    <3>4. Cut(q, i) = Cut(r, i)
      <4>1. i <= Len(q) /\ i <= Len(r)
        BY <1>4, <2>3, <3>3
      <4> QED BY <1>3, <2>3, <3>3, <4>1, CutSame
    <3> DEFINE c == Cut(q, i)
    <3>5. c \in DOMAIN root /\ Below(c, q[i + 1], q)
      BY <1>1, <1>2, CutBelow
    <3>6. Below(c, r[i + 1], r) /\ r[i + 1] \in Sides
      BY <1>1, <3>3, <3>4, CutBelow
    <3>7. r[i + 1] = a
      BY <2>3, <3>2, <3>6 DEF Other, Sides
    <3> HIDE DEF c
    <3>8. Key(root, c) # Key(root, q) /\ Side(Key(root, c), Key(root, q)) = Other(a)
      BY <1>1, <1>2, <1>5, <3>2, <3>5 DEF Ordered
    <3>9. Key(root, c) # Key(root, r) /\ Side(Key(root, c), Key(root, r)) = a
      BY <1>1, <3>5, <3>6, <3>7 DEF Ordered
    <3>10. Key(root, c) \in Keys
      BY <1>1, <3>5, Node_is
    <3> QED BY <1>3, <1>9, <3>8, <3>9, <3>10, Between
  <2>4. Side(Key(root, q), Key(root, r)) = s
    BY <1>3, <2>1, <2>2, <2>3, TwoPaths
  <2> QED BY <1>2, <2>4, OneNode
<1> QED BY <1>8, <1>9

LEMMA BelowBelow ==
    ASSUME NEW p \in Paths, NEW q \in Paths, NEW r \in Paths, NEW s, NEW t,
           Below(p, s, q), Below(q, t, r)
    PROVE  Below(p, s, r)
<1>1. Len(p) \in Nat /\ Len(q) \in Nat /\ Len(r) \in Nat
  BY DEF Paths
<1>2. Len(p) < Len(q) /\ Len(q) < Len(r) /\ q[Len(p) + 1] = s
      /\ (\A i \in 1 .. Len(p) : q[i] = p[i]) /\ (\A i \in 1 .. Len(q) : r[i] = q[i])
  BY DEF Below, Within
<1>3. Len(p) + 1 \in 1 .. Len(q) /\ \A i \in 1 .. Len(p) : i \in 1 .. Len(q)
  BY <1>1, <1>2
<1>4. r[Len(p) + 1] = s /\ \A i \in 1 .. Len(p) : r[i] = p[i]
  BY <1>2, <1>3
<1> QED BY <1>1, <1>2, <1>4 DEF Below, Within

LEMMA FarthestHasOne ==
    ASSUME NEW root, NEW p, NEW a \in Sides, NEW q, Farthest(root, p, a, Other(a), q)
    PROVE  AtMostOne(root, q)
BY DEF Farthest, AtMostOne, Other, Sides

LEMMA ReplacedIsOrdered ==
    ASSUME LtOrders, NEW root, SearchTree(root), NEW p \in DOMAIN root, NEW a \in Sides,
           NEW q, Farthest(root, p, a, Other(a), q)
    PROVE  SearchTree([Spliced(root, q) EXCEPT ![p] = root[q]])
<1>1. IsTree(root) /\ Ordered(root)
  BY DEF SearchTree
<1>2. q \in DOMAIN root /\ Below(p, a, q) /\ AtMostOne(root, q)
  BY FarthestHasOne DEF Farthest
<1>3. p \in Paths /\ q \in Paths /\ Len(p) \in Nat /\ Len(q) \in Nat /\ root[q] \in Node
  BY <1>1, <1>2 DEF IsTree, Paths
<1>4. PICK was : Places(root, q, Spliced(root, q), was)
  BY <1>1, <1>2, SplicedPlaces
<1> DEFINE less == Spliced(root, q)
           new  == [less EXCEPT ![p] = root[q]]
<1>5. p \in DOMAIN was /\ was[p] = p
  <2>1. ~Within(q, p)
    BY <1>2, <1>3 DEF Within, Below
  <2> QED BY <1>4, <2>1 DEF Kept, Places
<1>6. /\ DOMAIN less = DOMAIN was
      /\ \A t \in DOMAIN was : less[t] = root[was[t]] /\ was[t] \in DOMAIN root /\ was[t] # q
      /\ \A t, u \in DOMAIN was : \A s \in Sides : Below(t, s, u) => Below(was[t], s, was[u])
  BY <1>4 DEF Places
<1>7. IsTree(less)
  BY <1>1, <1>2, SplicedIsTree
<1> HIDE DEF less
<1>8. /\ DOMAIN new = DOMAIN was /\ new = [t \in DOMAIN new |-> new[t]]
      /\ new[p] = root[q] /\ \A t \in DOMAIN was \ {p} : new[t] = less[t]
  BY <1>5, <1>6
<1> HIDE DEF new
<1>9. \A t \in DOMAIN new : new[t] \in Node
  BY <1>3, <1>6, <1>7, <1>8 DEF IsTree
<1>10. IsTree(new)
  BY <1>6, <1>7, <1>8, <1>9 DEF IsTree
<1>11. Key(new, p) = Key(root, q) /\ \A t \in DOMAIN was \ {p} : Key(new, t) = Key(root, was[t])
  BY <1>6, <1>8 DEF Key
<1>12. ASSUME NEW t \in DOMAIN was, NEW u \in DOMAIN was, NEW s \in Sides, Below(t, s, u)
       PROVE  Key(new, t) # Key(new, u) /\ Side(Key(new, t), Key(new, u)) = s
  <2>1. Below(was[t], s, was[u]) /\ was[t] \in DOMAIN root /\ was[u] \in DOMAIN root /\ was[u] # q
    BY <1>6, <1>12
  <2>2. was[t] \in Paths /\ was[u] \in Paths /\ t \in Paths /\ u \in Paths
    BY <1>1, <1>8, <1>10, <2>1 DEF IsTree
  <2>3. CASE t # p /\ u # p
    BY <1>1, <1>11, <2>1, <2>3 DEF Ordered
  <2>4. CASE t = p /\ u # p
    <3>1. Below(p, s, was[u])
      BY <1>5, <2>1, <2>4
    <3> QED BY <1>11, <2>1, <2>4, <3>1, FarthestOrders
  <2>5. CASE t # p /\ u = p
    <3>1. Below(was[t], s, q)
      BY <1>2, <1>3, <1>5, <2>1, <2>2, <2>5, BelowBelow
    <3> QED BY <1>1, <1>2, <1>11, <2>1, <2>5, <3>1 DEF Ordered
  <2>6. CASE t = p /\ u = p
    BY <1>3, <1>12, <2>6 DEF Below
  <2> QED BY <2>3, <2>4, <2>5, <2>6
<1>13. Ordered(new)
  BY <1>8, <1>12 DEF Ordered
<1>14. SearchTree(new)
  BY <1>10, <1>13 DEF SearchTree
<1> QED BY <1>14 DEF new, less

-----------------------------------------------------------------------------
\* What the map answers.
Binds(root) ==
    LET end == [k \in Keys |-> End(root, k)]
    IN  [k \in {j \in Keys : end[j] \in DOMAIN root} |-> root[end[k]].leaf_val]

LEMMA BindsIs ==
    ASSUME NEW root, SearchTree(root)
    PROVE  /\ \A p \in DOMAIN root : /\ Key(root, p) \in DOMAIN Binds(root)
                                   /\ Binds(root)[Key(root, p)] = root[p].leaf_val
           /\ \A k \in DOMAIN Binds(root) : \E p \in DOMAIN root : Key(root, p) = k
           /\ Binds(root) = [k \in DOMAIN Binds(root) |-> Binds(root)[k]]
<1>1. IsTree(root)
  BY DEF SearchTree
<1>2. ASSUME NEW p \in DOMAIN root PROVE Key(root, p) \in Keys /\ End(root, Key(root, p)) = p
  BY <1>1, Node_is, Found
<1>3. DOMAIN Binds(root) = {k \in Keys : End(root, k) \in DOMAIN root}
  BY DEF Binds
<1>4. \A k \in DOMAIN Binds(root) : Binds(root)[k] = root[End(root, k)].leaf_val
  BY DEF Binds
<1>5. Binds(root) = [k \in DOMAIN Binds(root) |-> Binds(root)[k]]
  BY DEF Binds
<1>6. \A p \in DOMAIN root : Key(root, p) \in DOMAIN Binds(root)
  BY <1>2, <1>3
<1>7. \A p \in DOMAIN root : Binds(root)[Key(root, p)] = root[p].leaf_val
  BY <1>2, <1>4, <1>6
<1>8. \A k \in DOMAIN Binds(root) : \E p \in DOMAIN root : Key(root, p) = k
  BY <1>3, EndOfKey
<1> QED BY <1>5, <1>6, <1>7, <1>8

LEMMA SameBinds ==
    ASSUME NEW root, SearchTree(root), NEW f, f = [k \in DOMAIN f |-> f[k]],
           \A p \in DOMAIN root : Key(root, p) \in DOMAIN f /\ f[Key(root, p)] = root[p].leaf_val,
           \A k \in DOMAIN f : \E p \in DOMAIN root : Key(root, p) = k
    PROVE  Binds(root) = f
<1>1. DOMAIN Binds(root) = DOMAIN f
  BY BindsIs
<1>2. ASSUME NEW k \in DOMAIN f PROVE Binds(root)[k] = f[k]
  <2>1. PICK p \in DOMAIN root : Key(root, p) = k
    OBVIOUS
  <2> QED BY <2>1, BindsIs
<1> QED BY <1>1, <1>2, BindsIs

With(f, k, v) == [j \in DOMAIN f \cup {k} |-> IF j = k THEN v ELSE f[j]]

LEMMA PutBinds ==
    ASSUME NEW root, SearchTree(root), NEW key \in Keys, NEW val \in Vals
    PROVE  Binds(WithNode(root, End(root, key), key, val)) = With(Binds(root), key, val)
<1> DEFINE p == End(root, key)
           new == WithNode(root, p, key, val)
           f == With(Binds(root), key, val)
<1>1. SearchTree(new)
  BY PutIsTree, PutIsOrdered DEF SearchTree
<1>2. p \in DOMAIN root => Key(root, p) = key
  BY EndOfKey
<1>3. \A q \in DOMAIN root : Key(root, q) = key => q = p
  BY Found
<1> HIDE DEF p
<1>4. /\ DOMAIN new = DOMAIN root \cup {p}
      /\ Key(new, p) = key /\ new[p].leaf_val = val
      /\ \A q \in DOMAIN root \ {p} : Key(new, q) = Key(root, q) /\ new[q].leaf_val = root[q].leaf_val
  BY DEF WithNode, Key
<1> HIDE DEF new
<1>5. /\ DOMAIN f = {key} \cup DOMAIN Binds(root) /\ f = [k \in DOMAIN f |-> f[k]]
      /\ f[key] = val /\ \A k \in DOMAIN Binds(root) \ {key} : f[k] = Binds(root)[k]
  BY DEF With
<1> HIDE DEF f
<1>6. \A q \in DOMAIN new : Key(new, q) \in DOMAIN f /\ f[Key(new, q)] = new[q].leaf_val
  <2>1. ASSUME NEW q \in DOMAIN root \ {p}
        PROVE  Key(new, q) \in DOMAIN f /\ f[Key(new, q)] = new[q].leaf_val
    <3>1. Key(root, q) \in DOMAIN Binds(root) /\ Binds(root)[Key(root, q)] = root[q].leaf_val
      BY BindsIs
    <3>2. Key(root, q) # key
      BY <1>3
    <3> QED BY <1>4, <1>5, <3>1, <3>2
  <2> QED BY <1>4, <1>5, <2>1
<1>7. ASSUME NEW k \in DOMAIN f PROVE \E q \in DOMAIN new : Key(new, q) = k
  <2>1. CASE k = key
    BY <1>4, <2>1
  <2>2. CASE k # key
    <3>0. k \in DOMAIN Binds(root)
      BY <1>5, <2>2
    <3>1. PICK q \in DOMAIN root : Key(root, q) = k
      BY <3>0, BindsIs
    <3>2. q # p
      BY <1>2, <2>2, <3>1
    <3> QED BY <1>4, <3>1, <3>2
  <2> QED BY <2>1, <2>2
<1>8. Binds(new) = f
  BY <1>1, <1>5, <1>6, <1>7, SameBinds
<1> QED BY <1>8 DEF new, p, f

Without(f, k) == [j \in DOMAIN f \ {k} |-> f[j]]

LEMMA UnlinkBinds ==
    ASSUME NEW root, SearchTree(root), NEW p \in DOMAIN root, AtMostOne(root, p)
    PROVE  Binds(Spliced(root, p)) = Without(Binds(root), Key(root, p))
<1> DEFINE new == Spliced(root, p)
           f == Without(Binds(root), Key(root, p))
<1>1. SearchTree(new)
  BY SplicedIsOrdered
<1>2. PICK was : Places(root, p, new, was)
  BY SplicedPlaces DEF SearchTree
<1> HIDE DEF new
<1>3. /\ DOMAIN new = DOMAIN was
      /\ \A q \in DOMAIN was : new[q] = root[was[q]] /\ was[q] \in DOMAIN root /\ was[q] # p
      /\ \A r \in DOMAIN root \ {p} : \E q \in DOMAIN was : was[q] = r
  BY <1>2 DEF Places
<1>4. /\ DOMAIN f = DOMAIN Binds(root) \ {Key(root, p)} /\ f = [k \in DOMAIN f |-> f[k]]
      /\ \A k \in DOMAIN f : f[k] = Binds(root)[k]
  BY DEF Without
<1> HIDE DEF f
<1>5. ASSUME NEW q \in DOMAIN new
      PROVE  Key(new, q) \in DOMAIN f /\ f[Key(new, q)] = new[q].leaf_val
  <2>1. Key(new, q) = Key(root, was[q]) /\ was[q] \in DOMAIN root /\ was[q] # p /\ new[q] = root[was[q]]
    BY <1>3 DEF Key
  <2>2. Key(root, was[q]) # Key(root, p)
    BY <2>1, OneNode
  <2>3. Key(root, was[q]) \in DOMAIN Binds(root)
        /\ Binds(root)[Key(root, was[q])] = root[was[q]].leaf_val
    BY <2>1, BindsIs
  <2> QED BY <1>4, <2>1, <2>2, <2>3
<1>6. ASSUME NEW k \in DOMAIN f PROVE \E q \in DOMAIN new : Key(new, q) = k
  <2>0. k \in DOMAIN Binds(root)
    BY <1>4
  <2>1. PICK r \in DOMAIN root : Key(root, r) = k
    BY <2>0, BindsIs
  <2>2. r # p
    BY <1>4, <2>1
  <2>3. PICK q \in DOMAIN was : was[q] = r
    BY <1>3, <2>2
  <2> QED BY <1>3, <2>1, <2>3 DEF Key
<1>7. Binds(new) = f
  BY <1>1, <1>4, <1>5, <1>6, SameBinds
<1> QED BY <1>7 DEF new, f

LEMMA ReplaceBinds ==
    ASSUME LtOrders, NEW root, SearchTree(root), NEW p \in DOMAIN root, NEW a \in Sides,
           NEW q, Farthest(root, p, a, Other(a), q)
    PROVE  Binds([Spliced(root, q) EXCEPT ![p] = root[q]]) = Without(Binds(root), Key(root, p))
<1> DEFINE less == Spliced(root, q)
           new == [less EXCEPT ![p] = root[q]]
           f == Without(Binds(root), Key(root, p))
<1>1. SearchTree(new)
  BY ReplacedIsOrdered
<1>2. q \in DOMAIN root /\ AtMostOne(root, q) /\ Below(p, a, q)
  BY FarthestHasOne DEF Farthest
<1>3. PICK was : Places(root, q, less, was)
  BY <1>2, SplicedPlaces DEF SearchTree
<1> HIDE DEF less
<1>4. p \in Paths /\ q \in Paths /\ Len(p) \in Nat /\ Len(q) \in Nat
  BY <1>2 DEF SearchTree, IsTree, Paths
<1>5. p \in DOMAIN was /\ was[p] = p
  <2>1. ~Within(q, p)
    BY <1>2, <1>4 DEF Within, Below
  <2> QED BY <1>3, <2>1 DEF Kept, Places
<1>6. /\ DOMAIN less = DOMAIN was
      /\ \A t \in DOMAIN was : less[t] = root[was[t]] /\ was[t] \in DOMAIN root /\ was[t] # q
      /\ \A r \in DOMAIN root \ {q} : \E t \in DOMAIN was : was[t] = r
  BY <1>3 DEF Places
<1>7. /\ DOMAIN new = DOMAIN was /\ new[p] = root[q]
      /\ \A t \in DOMAIN was \ {p} : new[t] = root[was[t]]
  BY <1>5, <1>6
<1> HIDE DEF new
<1>8. /\ DOMAIN f = DOMAIN Binds(root) \ {Key(root, p)} /\ f = [k \in DOMAIN f |-> f[k]]
      /\ \A k \in DOMAIN f : f[k] = Binds(root)[k]
  BY DEF Without
<1> HIDE DEF f
<1>9. \A t \in DOMAIN was : was[t] = p => t = p
  BY <1>3, <1>5 DEF Places
<1>10. p # q /\ Key(root, p) # Key(root, q) /\ Key(root, q) \in DOMAIN f
       /\ f[Key(root, q)] = root[q].leaf_val
  <2>1. p # q
    BY <1>2, <1>4 DEF Below
  <2>2. Key(root, p) # Key(root, q)
    BY <1>2, <2>1, OneNode
  <2>3. Key(root, q) \in DOMAIN Binds(root) /\ Binds(root)[Key(root, q)] = root[q].leaf_val
    BY <1>2, BindsIs
  <2> QED BY <1>8, <2>1, <2>2, <2>3
<1>11. ASSUME NEW t \in DOMAIN new
       PROVE  Key(new, t) \in DOMAIN f /\ f[Key(new, t)] = new[t].leaf_val
  <2>1. CASE t = p
    BY <1>7, <1>10, <2>1 DEF Key
  <2>2. CASE t # p
    <3>1. was[t] \in DOMAIN root /\ was[t] # p /\ new[t] = root[was[t]] /\ Key(new, t) = Key(root, was[t])
      BY <1>6, <1>7, <1>9, <2>2 DEF Key
    <3>2. Key(root, was[t]) # Key(root, p)
      BY <3>1, OneNode
    <3>3. Key(root, was[t]) \in DOMAIN Binds(root)
          /\ Binds(root)[Key(root, was[t])] = root[was[t]].leaf_val
      BY <3>1, BindsIs
    <3> QED BY <1>8, <3>1, <3>2, <3>3
  <2> QED BY <2>1, <2>2
<1>12. ASSUME NEW k \in DOMAIN f PROVE \E t \in DOMAIN new : Key(new, t) = k
  <2>1. k \in DOMAIN Binds(root) /\ k # Key(root, p)
    BY <1>8
  <2>2. PICK r \in DOMAIN root : Key(root, r) = k
    BY <2>1, BindsIs
  <2>3. CASE r = q
    BY <1>5, <1>7, <2>2, <2>3 DEF Key
  <2>4. CASE r # q
    <3>1. PICK t \in DOMAIN was : was[t] = r
      BY <1>6, <2>4
    <3>2. t # p
      BY <1>5, <2>1, <2>2, <3>1
    <3> QED BY <1>7, <2>2, <3>1, <3>2 DEF Key
  <2> QED BY <2>3, <2>4
<1>13. Binds(new) = f
  BY <1>1, <1>8, <1>11, <1>12, SameBinds
<1> QED BY <1>13 DEF new, less, f

-----------------------------------------------------------------------------
\* The list of keys.
Names(s, k) == \E i \in 1 .. Len(s) : s[i] = k

LEMMA JoinIs ==
    ASSUME NEW s \in Seq(Keys), NEW t \in Seq(Keys)
    PROVE  /\ s \o t \in Seq(Keys) /\ Len(s \o t) = Len(s) + Len(t)
           /\ \A i \in 1 .. Len(s) : (s \o t)[i] = s[i]
           /\ \A i \in Len(s) + 1 .. Len(s) + Len(t) : (s \o t)[i] = t[i - Len(s)]
OBVIOUS

LEMMA RestIs ==
    ASSUME NEW s \in Seq(Keys), NEW n \in 1 .. Len(s)
    PROVE  /\ SubSeq(s, n + 1, Len(s)) \in Seq(Keys) /\ Len(SubSeq(s, n + 1, Len(s))) = Len(s) - n
           /\ \A i \in 1 .. Len(s) - n : SubSeq(s, n + 1, Len(s))[i] = s[n + i]
<1>1. \A i \in 1 .. Len(s) - n : n + 1 + i - 1 = n + i /\ i \in 1 .. Len(s) - (n + 1) + 1
  OBVIOUS
<1>2. SubSeq(s, n + 1, Len(s)) \in Seq(Keys) /\ Len(SubSeq(s, n + 1, Len(s))) = Len(s) - n
  OBVIOUS
<1>3. \A i \in 1 .. Len(s) - n : SubSeq(s, n + 1, Len(s))[i] = s[n + 1 + i - 1]
  OBVIOUS
<1> QED BY <1>1, <1>2, <1>3

LEMMA RemovedIs ==
    ASSUME NEW s \in Seq(Keys), IsInjective(s), NEW k
    PROVE  /\ RemoveFirst(s, k) \in Seq(Keys) /\ IsInjective(RemoveFirst(s, k))
           /\ \A j : Names(RemoveFirst(s, k), j) => Names(s, j) /\ j # k
<1> DEFINE new == RemoveFirst(s, k)
<1>0. Len(s) \in Nat /\ DOMAIN s = 1 .. Len(s) /\ \A i \in 1 .. Len(s) : s[i] \in Keys
  OBVIOUS
<1>1. CASE ~Names(s, k)
  <2>1. new = s
    BY <1>1 DEF RemoveFirst, Names
  <2> QED BY <1>1, <2>1 DEF Names
<1>2. CASE Names(s, k)
  <2> DEFINE I == {i \in 1 .. Len(s) : s[i] = k}
             n == CHOOSE i \in I : \A j \in I : i <= j
  <2>1. I # {} /\ I \in SUBSET Nat
    BY <1>2 DEF Names
  <2>2. \E i \in I : \A j \in I : i <= j
    <3> HIDE DEF I
    <3> QED BY <2>1, HasLeast
  <2>3. n \in 1 .. Len(s) /\ s[n] = k
    BY <2>2
  <2>4. new = SubSeq(s, 1, n - 1) \o SubSeq(s, n + 1, Len(s))
    BY <1>2, <2>1 DEF RemoveFirst, RemoveAt, SelectInSeq, Min, Names
  <2> HIDE DEF n, new
  <2> DEFINE a == SubSeq(s, 1, n - 1)
             b == SubSeq(s, n + 1, Len(s))
  <2>5. a \in Seq(Keys) /\ Len(a) = n - 1 /\ \A i \in 1 .. n - 1 : a[i] = s[i]
    BY <1>0, <2>3
  <2>6. b \in Seq(Keys) /\ Len(b) = Len(s) - n /\ \A i \in 1 .. Len(s) - n : b[i] = s[n + i]
    BY <2>3, RestIs
  <2> HIDE DEF a, b
  <2>7. new = a \o b
    BY <2>4 DEF a, b
  <2>8a. new \in Seq(Keys)
    BY <2>5, <2>6, <2>7, JoinIs
  <2>8b. DOMAIN new = 1 .. Len(new)
    BY <2>8a
  <2>8. /\ new \in Seq(Keys) /\ Len(new) = Len(a) + Len(b)
        /\ \A i \in 1 .. Len(a) : new[i] = a[i]
        /\ \A i \in Len(a) + 1 .. Len(a) + Len(b) : new[i] = b[i - Len(a)]
    BY <2>5, <2>6, <2>7, JoinIs
  <2>9. ASSUME NEW i \in 1 .. Len(new)
        PROVE  /\ i < n => i \in 1 .. Len(s) /\ new[i] = s[i]
               /\ i >= n => i + 1 \in 1 .. Len(s) /\ new[i] = s[i + 1]
    <3>1. CASE i < n
      <4>1. i \in 1 .. n - 1 /\ i \in 1 .. Len(a) /\ i \in 1 .. Len(s)
        BY <1>0, <2>3, <2>5, <2>6, <2>8, <3>1
      <4> QED BY <2>3, <2>5, <2>8, <3>1, <4>1
    <3>2. CASE i >= n
      <4>1. /\ i \in Len(a) + 1 .. Len(a) + Len(b) /\ i - Len(a) \in 1 .. Len(s) - n
            /\ n + (i - Len(a)) = i + 1 /\ i + 1 \in 1 .. Len(s)
        BY <1>0, <2>3, <2>5, <2>6, <2>8, <3>2
      <4>2. new[i] = b[i - Len(a)] /\ b[i - Len(a)] = s[n + (i - Len(a))]
        BY <2>6, <2>8, <4>1
      <4> QED BY <2>3, <3>2, <4>1, <4>2
    <3> QED BY <2>3, <3>1, <3>2
  <2>10. ASSUME NEW i \in 1 .. Len(new)
         PROVE  \E j \in 1 .. Len(s) \ {n} : new[i] = s[j]
    <3>1. CASE i < n
      <4>1. i \in 1 .. Len(s) \ {n} /\ new[i] = s[i]
        BY <2>3, <2>9, <3>1
      <4> QED BY <4>1
    <3>2. CASE i >= n
      <4>1. i + 1 \in 1 .. Len(s) \ {n} /\ new[i] = s[i + 1]
        BY <2>3, <2>9, <3>2
      <4> QED BY <4>1
    <3> QED BY <2>3, <3>1, <3>2
  <2>11. \A i, j \in 1 .. Len(s) : s[i] = s[j] => i = j
    BY <1>0 DEF IsInjective
  <2>12. ASSUME NEW i \in 1 .. Len(new), NEW j \in 1 .. Len(new), new[i] = new[j] PROVE i = j
    <3>1. CASE i < n /\ j < n
      BY <2>9, <2>11, <2>12, <3>1
    <3>2. CASE i >= n /\ j >= n
      BY <2>9, <2>11, <2>12, <3>2
    <3>3. CASE i < n /\ j >= n
      <4>1. i = j + 1
        BY <2>9, <2>11, <2>12, <3>3
      <4> QED BY <2>3, <3>3, <4>1
    <3>4. CASE i >= n /\ j < n
      <4>1. i + 1 = j
        BY <2>9, <2>11, <2>12, <3>4
      <4> QED BY <2>3, <3>4, <4>1
    <3> QED BY <2>3, <3>1, <3>2, <3>3, <3>4
  <2>13. \A j : Names(new, j) => Names(s, j) /\ j # k
    BY <2>3, <2>10, <2>11 DEF Names
  <2>14. IsInjective(new)
    BY <2>8b, <2>12 DEF IsInjective
  <2> QED BY <2>8, <2>13, <2>14 DEF new
<1> QED BY <1>1, <1>2

-----------------------------------------------------------------------------
\* The invariant: the tree is a search tree, and the list names keys of it,
\* none twice.
MapOK(m) ==
    /\ m = [root |-> m.root, keys |-> m.keys]
    /\ SearchTree(m.root)
    /\ m.keys \in Seq(Keys) /\ IsInjective(m.keys)
    /\ \A k : Names(m.keys, k) => k \in DOMAIN Binds(m.root)
MapInv ==
    /\ MapOK(md)
    /\ inorder_opt \in BOOLEAN
    /\ loop \in {"idle", "clearing", "putting"}
    /\ source \in Seq(Keys \X Vals)

LEMMA PutDoes ==
    ASSUME NEW m, MapOK(m), NEW key \in Keys, NEW val \in Vals
    PROVE  /\ MapOK(Put(m, key, val))
           /\ Binds(Put(m, key, val).root) = With(Binds(m.root), key, val)
<1> DEFINE p == End(m.root, key)
           new == Put(m, key, val)
<1> HIDE DEF p
<1>1. /\ new.root = WithNode(m.root, p, key, val)
      /\ new.keys = IF p \in DOMAIN m.root THEN m.keys ELSE Append(m.keys, key)
      /\ new = [root |-> new.root, keys |-> new.keys]
  BY DEF Put, p
<1>2. SearchTree(new.root)
  BY <1>1, PutIsTree, PutIsOrdered DEF MapOK, SearchTree, p
<1>3. Binds(new.root) = With(Binds(m.root), key, val)
  BY <1>1, PutBinds DEF MapOK, p
<1> HIDE DEF new
<1>4. DOMAIN Binds(new.root) = DOMAIN Binds(m.root) \cup {key}
  BY <1>3 DEF With
<1>5. CASE p \in DOMAIN m.root
  BY <1>1, <1>2, <1>3, <1>4, <1>5 DEF MapOK, new
<1>6. CASE p \notin DOMAIN m.root
  <2> DEFINE s == m.keys
             t == Append(s, key)
  <2>0. s \in Seq(Keys) /\ IsInjective(s) /\ \A k : Names(s, k) => k \in DOMAIN Binds(m.root)
    BY DEF MapOK
  <2>1. new.keys = t
    BY <1>1, <1>6
  <2>2. ~Names(s, key)
    <3>1. key \notin DOMAIN Binds(m.root)
      <4> DEFINE r == m.root
      <4>1. SearchTree(r) /\ End(r, key) \notin DOMAIN r
        BY <1>6 DEF MapOK, p
      <4> HIDE DEF r
      <4> QED BY <4>1, BindsIs, EndOfKey DEF r
    <3> QED BY <2>0, <3>1
  <2> HIDE DEF s
  <2>3. /\ t \in Seq(Keys) /\ Len(t) = Len(s) + 1 /\ DOMAIN t = 1 .. Len(t) /\ t[Len(s) + 1] = key
        /\ \A i \in 1 .. Len(s) : t[i] = s[i]
        /\ Len(s) \in Nat /\ DOMAIN s = 1 .. Len(s)
    BY <2>0
  <2> HIDE DEF t
  <2>4. \A i \in 1 .. Len(t) : i = Len(s) + 1 \/ i \in 1 .. Len(s)
    BY <2>3
  <2>5. \A k : Names(t, k) => k \in DOMAIN Binds(new.root)
    BY <1>4, <2>0, <2>3, <2>4 DEF Names
  <2>6. ASSUME NEW i \in 1 .. Len(t), NEW j \in 1 .. Len(t), t[i] = t[j] PROVE i = j
    <3>1. CASE i \in 1 .. Len(s) /\ j \in 1 .. Len(s)
      BY <2>0, <2>3, <2>6, <3>1 DEF IsInjective
    <3> QED BY <2>2, <2>3, <2>4, <2>6, <3>1 DEF Names
  <2>7. IsInjective(t)
    BY <2>3, <2>6 DEF IsInjective
  <2> QED BY <1>1, <1>2, <1>3, <2>1, <2>3, <2>5, <2>7 DEF MapOK, new
<1> QED BY <1>5, <1>6

LEMMA UnlinkDoes ==
    ASSUME NEW m, MapOK(m), NEW p \in DOMAIN m.root, AtMostOne(m.root, p)
    PROVE  /\ MapOK(Unlink(m, p))
           /\ Binds(Unlink(m, p).root) = Without(Binds(m.root), Key(m.root, p))
<1> DEFINE new == Unlink(m, p)
           key == Key(m.root, p)
<1>0. SearchTree(m.root)
  BY DEF MapOK
<1>1. /\ new.root = Spliced(m.root, p) /\ new.keys = RemoveFirst(m.keys, key)
      /\ new = [root |-> new.root, keys |-> new.keys]
  BY DEF Unlink, Key
<1>2. SearchTree(new.root)
  BY <1>0, <1>1, SplicedIsOrdered
<1>3. Binds(new.root) = Without(Binds(m.root), key)
  BY <1>0, <1>1, UnlinkBinds
<1> HIDE DEF new, key
<1>4. DOMAIN Binds(new.root) = DOMAIN Binds(m.root) \ {key}
  BY <1>3 DEF Without
<1>5. /\ new.keys \in Seq(Keys) /\ IsInjective(new.keys)
      /\ \A j : Names(new.keys, j) => Names(m.keys, j) /\ j # key
  BY <1>1, RemovedIs DEF MapOK
<1>6. MapOK(new)
  BY <1>1, <1>2, <1>4, <1>5 DEF MapOK
<1> QED BY <1>3, <1>6 DEF new, key

LEMMA ReplaceDoes ==
    ASSUME LtOrders, NEW m, MapOK(m), NEW p \in DOMAIN m.root, NEW a \in Sides,
           NEW q, Farthest(m.root, p, a, Other(a), q)
    PROVE  /\ MapOK(Replace(m, p, q))
           /\ Binds(Replace(m, p, q).root) = Without(Binds(m.root), Key(m.root, p))
<1> DEFINE new == Replace(m, p, q)
           key == Key(m.root, p)
           less == RemoveFirst(m.keys, Key(m.root, q))
<1>0. SearchTree(m.root)
  BY DEF MapOK
<1>1. /\ new.root = [Spliced(m.root, q) EXCEPT ![p] = m.root[q]]
      /\ new.keys = RemoveFirst(less, key)
      /\ new = [root |-> new.root, keys |-> new.keys]
  BY DEF Replace, Unlink, Key
<1>2. SearchTree(new.root)
  BY <1>0, <1>1, ReplacedIsOrdered
<1>3. Binds(new.root) = Without(Binds(m.root), key)
  BY <1>0, <1>1, ReplaceBinds
<1>4. /\ less \in Seq(Keys) /\ IsInjective(less)
      /\ \A j : Names(less, j) => Names(m.keys, j)
  BY RemovedIs DEF MapOK
<1> HIDE DEF new, key, less
<1>5. DOMAIN Binds(new.root) = DOMAIN Binds(m.root) \ {key}
  BY <1>3 DEF Without
<1>6. /\ new.keys \in Seq(Keys) /\ IsInjective(new.keys)
      /\ \A j : Names(new.keys, j) => Names(less, j) /\ j # key
  BY <1>1, <1>4, RemovedIs
<1>7. MapOK(new)
  BY <1>1, <1>2, <1>4, <1>5, <1>6 DEF MapOK
<1> QED BY <1>3, <1>7 DEF new, key

LEMMA InnerIs ==
    ASSUME NEW root, SearchTree(root), NEW p \in DOMAIN root, Children(root, p) = {LEFT, RIGHT},
           NEW opt \in BOOLEAN
    PROVE  \E a \in Sides : Farthest(root, p, a, Other(a), End(root, NextInorder(root, p, opt)))
<1>0. IsTree(root)
  BY DEF SearchTree
<1>1. Append(p, LEFT) \in DOMAIN root /\ Append(p, RIGHT) \in DOMAIN root
  BY DEF Children
<1>2. LEFT \in Sides /\ RIGHT \in Sides /\ Other(LEFT) = RIGHT /\ Other(RIGHT) = LEFT
  BY DEF Sides, Other, LEFT, RIGHT
<1>3. CASE opt
  <2> DEFINE q == Extreme(root, p, LEFT, RIGHT)
  <2>1. Farthest(root, p, LEFT, Other(LEFT), q)
    BY <1>0, <1>1, <1>2, ExtremeIs
  <2>2. NextInorder(root, p, opt) = Key(root, q)
    BY <1>3 DEF NextInorder, Key
  <2> HIDE DEF q
  <2>3. End(root, Key(root, q)) = q
    BY <2>1, Found DEF Farthest
  <2> QED BY <1>2, <2>1, <2>2, <2>3
<1>4. CASE ~opt
  <2> DEFINE q == Extreme(root, p, RIGHT, LEFT)
  <2>1. Farthest(root, p, RIGHT, Other(RIGHT), q)
    BY <1>0, <1>1, <1>2, ExtremeIs
  <2>2. NextInorder(root, p, opt) = Key(root, q)
    BY <1>4 DEF NextInorder, Key
  <2> HIDE DEF q
  <2>3. End(root, Key(root, q)) = q
    BY <2>1, Found DEF Farthest
  <2> QED BY <1>2, <2>1, <2>2, <2>3
<1> QED BY <1>3, <1>4

LEMMA DiscardDoes ==
    ASSUME LtOrders, MapInv, NEW key \in Keys, Discard(key)
    PROVE  /\ MapOK(md') /\ inorder_opt' \in BOOLEAN
           /\ Binds(md'.root) = Without(Binds(md.root), key)
<1> DEFINE p == End(md.root, key)
<1>0. MapOK(md) /\ SearchTree(md.root) /\ inorder_opt \in BOOLEAN
  BY DEF MapInv, MapOK
<1>1. DiscardAbsent(p) \/ DiscardOuter(p) \/ DiscardInner(p)
  BY DEF Discard
<1>2. /\ p \in DOMAIN md.root => Key(md.root, p) = key
      /\ p \in DOMAIN md.root <=> \E r \in DOMAIN md.root : Key(md.root, r) = key
  BY <1>0, EndOfKey
<1> HIDE DEF p
<1>3. CASE DiscardAbsent(p)
  <2>1. md' = md /\ inorder_opt' = inorder_opt /\ p \notin DOMAIN md.root
    BY <1>3 DEF DiscardAbsent
  <2> DEFINE f == Binds(md.root)
  <2>2. key \notin DOMAIN f /\ f = [k \in DOMAIN f |-> f[k]]
    BY <1>0, <1>2, <2>1, BindsIs
  <2> HIDE DEF f
  <2>3. Without(f, key) = f
    BY <2>2 DEF Without
  <2> QED BY <1>0, <2>1, <2>3 DEF f
<1>4. CASE DiscardOuter(p)
  <2>1. /\ md' = Unlink(md, p) /\ inorder_opt' = inorder_opt /\ p \in DOMAIN md.root
        /\ Children(md.root, p) # {LEFT, RIGHT}
    BY <1>4 DEF DiscardOuter
  <2>2. AtMostOne(md.root, p)
    BY <2>1 DEF Children, AtMostOne
  <2> QED BY <1>0, <1>2, <2>1, <2>2, UnlinkDoes
<1>5. CASE DiscardInner(p)
  <2> DEFINE q == End(md.root, NextInorder(md.root, p, ~inorder_opt))
  <2>1. /\ md' = Replace(md, p, q) /\ inorder_opt' = ~inorder_opt /\ p \in DOMAIN md.root
        /\ Children(md.root, p) = {LEFT, RIGHT}
    BY <1>5 DEF DiscardInner
  <2>2. PICK a \in Sides : Farthest(md.root, p, a, Other(a), q)
    <3>1. (~inorder_opt) \in BOOLEAN
      BY <1>0
    <3> QED BY <1>0, <2>1, <3>1, InnerIs
  <2> HIDE DEF q
  <2> QED BY <1>0, <1>2, <2>1, <2>2, ReplaceDoes
<1> QED BY <1>1, <1>3, <1>4, <1>5

-----------------------------------------------------------------------------
LEMMA InitialMap == MapInit => MapInv /\ Dict!Init
<1> SUFFICES ASSUME MapInit PROVE MapInv /\ Dict!Init
  OBVIOUS
<1> DEFINE root == md.root
<1>1. md = [root |-> [p \in {} |-> p], keys |-> <<>>] /\ inorder_opt = TRUE /\ loop = "idle" /\ source = <<>>
  BY DEF MapInit, Empty
<1>2. DOMAIN root = {} /\ root = [p \in DOMAIN root |-> root[p]]
  BY <1>1
<1>3. Binds(root) = [k \in {} |-> k]
  <2> HIDE DEF root
  <2> QED BY <1>2 DEF Binds
<1>4. SearchTree(root)
  <2> HIDE DEF root
  <2> QED BY <1>2 DEF SearchTree, IsTree, Ordered
<1>5. md.keys = <<>> /\ md.keys \in Seq(Keys) /\ DOMAIN md.keys = {} /\ Len(md.keys) = 0
  BY <1>1
<1>6. md = [root |-> md.root, keys |-> md.keys]
  BY <1>1
<1>7. MapOK(md)
  BY <1>4, <1>5, <1>6 DEF MapOK, IsInjective, Names
<1>8. Dict!Init
  BY <1>3 DEF Dict!Init, Bindings, Binds
<1> QED BY <1>1, <1>7, <1>8 DEF MapInv

LEMMA MapStep ==
    ASSUME LtOrders, SourcesAreMaps, MapInv, [MapNext]_mvars
    PROVE  MapInv' /\ [Dict!Next]_Bindings
<1> DEFINE f == Binds(md.root)
           g == Binds(md'.root)
<1>0. MapOK(md) /\ inorder_opt \in BOOLEAN /\ loop \in {"idle", "clearing", "putting"}
      /\ source \in Seq(Keys \X Vals)
  BY DEF MapInv
<1>1. Bindings = f /\ Bindings' = g
  BY DEF Bindings, Binds
<1>2. \A key \in Keys : g = Without(f, key) => Dict!Next
  BY <1>1 DEF Dict!Next, Dict!Discard, Without
<1>3. \A key \in Keys, val \in Vals : g = With(f, key, val) => Dict!Next
  BY <1>1 DEF Dict!Next, Dict!Put, With
<1>4. md' = md => Bindings' = Bindings
  BY <1>1
<1> HIDE DEF f, g
<1>5. ASSUME NEW key \in Keys, DiscardCall(key) PROVE MapInv' /\ Dict!Next
  BY <1>0, <1>2, <1>5, DiscardDoes DEF DiscardCall, MapInv, f, g
<1>6. ASSUME NEW key \in Keys, NEW val \in Vals, PutCall(key, val) PROVE MapInv' /\ Dict!Next
  BY <1>0, <1>3, <1>6, PutDoes DEF PutCall, MapInv, f, g
<1>7. ASSUME NEW src \in Sources, AssignCall(src) PROVE MapInv' /\ md' = md
  BY <1>0, <1>7 DEF AssignCall, MapInv, SourcesAreMaps
<1>8. CASE ClearStep
  <2> DEFINE key == Head(md.keys)
  <2>1. key \in Keys
    BY <1>0, <1>8 DEF ClearStep, MapOK
  <2>2. Discard(key) /\ UNCHANGED <<loop, source>>
    BY <1>8 DEF ClearStep
  <2> HIDE DEF key
  <2> QED BY <1>0, <1>2, <2>1, <2>2, DiscardDoes DEF MapInv, f, g
<1>9. ASSUME ClearDone PROVE MapInv'
  BY <1>0, <1>9 DEF ClearDone, MapInv
<1>10. CASE AssignStep
  <2> DEFINE key == Head(source)[1]
             val == Head(source)[2]
  <2>1. key \in Keys /\ val \in Vals /\ Tail(source) \in Seq(Keys \X Vals)
    BY <1>0, <1>10 DEF AssignStep
  <2>2. md' = Put(md, key, val) /\ source' = Tail(source) /\ UNCHANGED <<inorder_opt, loop>>
    BY <1>10 DEF AssignStep
  <2> HIDE DEF key, val
  <2> QED BY <1>0, <1>3, <2>1, <2>2, PutDoes DEF MapInv, f, g
<1>11. ASSUME AssignDone PROVE MapInv'
  BY <1>0, <1>11 DEF AssignDone, MapInv
<1>12. ASSUME OtherMap PROVE MapInv'
  BY <1>0, <1>12 DEF OtherMap, MapInv
<1>13. ASSUME UNCHANGED mvars PROVE MapInv'
  BY <1>0, <1>13 DEF mvars, MapInv
<1>14. CASE ClearDone \/ AssignDone \/ OtherMap \/ UNCHANGED mvars
  <2>1. md' = md
    BY <1>14 DEF ClearDone, AssignDone, OtherMap, mvars
  <2> QED BY <1>4, <1>9, <1>11, <1>12, <1>13, <1>14, <2>1
<1> QED BY <1>4, <1>5, <1>6, <1>7, <1>8, <1>10, <1>14 DEF MapNext, Loop

LEMMA MapIsRight == ASSUME LtOrders, SourcesAreMaps PROVE MapSpec => []MapInv
<1>1. MapInv /\ [MapNext]_mvars => MapInv'
  BY MapStep
<1> QED BY <1>1, InitialMap, PTL DEF MapSpec

\* The tree hangs together, and the list of keys is a list of keys, none longer
\* than there are keys, whatever is put, discarded, cleared and assigned.
THEOREM MapTyping ==
    ASSUME LtOrders, SourcesAreMaps, IsFiniteSet(Keys) PROVE MapSpec => []MapTypeOK
<1>1. ASSUME MapInv PROVE MapTypeOK
  <2>1. MapOK(md) /\ SearchTree(md.root) /\ IsTree(md.root)
    BY <1>1 DEF MapInv, MapOK, SearchTree
  <2>2. ASSUME NEW p \in DOMAIN md.root
        PROVE  /\ p \in Seq({LEFT, RIGHT})
               /\ \A i \in 0 .. Len(p) : SubSeq(p, 1, i) \in DOMAIN md.root
               /\ md.root[p] \in Node
    BY <2>1 DEF IsTree, Paths, Sides, Cut
  <2>3. md.keys \in Seq(Keys) /\ IsInjective(md.keys)
    BY <2>1 DEF MapOK
  <2>4. Len(md.keys) <= Cardinality(Keys)
    <3> DEFINE s == md.keys
               n == Len(s)
    <3>1. n \in Nat /\ s \in [1 .. n -> Keys] /\ IsFiniteSet(1 .. n) /\ Cardinality(1 .. n) = n
      BY <2>3, FS_Interval
    <3>2. \A i, j \in 1 .. n : s[i] = s[j] => i = j
      BY <2>3, <3>1 DEF IsInjective
    <3> HIDE DEF n, s
    <3>3. s \in Injection(1 .. n, Keys)
      BY <3>1, <3>2 DEF Injection, IsInjective
    <3>4. Cardinality(1 .. n) <= Cardinality(Keys)
      BY <3>3, FS_Injection
    <3> QED BY <3>1, <3>4 DEF n, s
  <2> QED BY <1>1, <2>2, <2>3, <2>4 DEF MapTypeOK, MapInv
<1> QED BY <1>1, MapIsRight, PTL

\* Whatever was put and discarded before, the search for the key of a node ends
\* at that node (Map_Get, Map_Put and Map_Discard, 4/src/Map.c:242): the order
\* outlives Map_Discard, whose neighbour in order takes the node's place.
THEOREM NodesFound == ASSUME LtOrders, SourcesAreMaps PROVE MapSpec => []EveryNodeFound
<1>1. ASSUME MapInv PROVE EveryNodeFound
  BY <1>1, Found DEF MapInv, MapOK, EveryNodeFound, Key
<1> QED BY <1>1, MapIsRight, PTL

\* The half of ListedBound that is about the list itself.
NamesBound == IsInjective(md.keys) /\ ToSet(md.keys) \subseteq Bound(md)

\* The list of keys names no key twice, and only keys that the tree has, so
\* that iteration, copy and == never get a key that is not there.
THEOREM ListIsBound == ASSUME LtOrders, SourcesAreMaps PROVE MapSpec => []NamesBound
<1>1. ASSUME MapInv PROVE NamesBound
  <2>1. MapOK(md) /\ SearchTree(md.root) /\ md.keys \in Seq(Keys) /\ IsInjective(md.keys)
    BY <1>1 DEF MapInv, MapOK
  <2>2. ASSUME NEW i \in DOMAIN md.keys PROVE md.keys[i] \in Bound(md)
    <3>1. md.keys[i] \in Keys /\ Names(md.keys, md.keys[i])
      BY <2>1 DEF Names
    <3>2. md.keys[i] \in DOMAIN Binds(md.root)
      BY <2>1, <3>1 DEF MapOK
    <3>3. \E p \in DOMAIN md.root : Key(md.root, p) = md.keys[i]
      BY <2>1, <3>2, BindsIs
    <3> QED BY <2>1, <3>1, <3>3, EndOfKey DEF Bound
  <2> QED BY <2>1, <2>2 DEF NamesBound, ToSet
<1> QED BY <1>1, MapIsRight, PTL

\* The map answers as the abstract one does: put binds the one key, discard
\* frees the one key (the neighbour that moves keeps its value), clear and
\* assign are made of these; every step is one of KeyedMap's or changes nothing
\* that can be asked for.
THEOREM MapIsKeyedMap == ASSUME LtOrders, SourcesAreMaps PROVE MapSpec => IsKeyedMap
<1>1. MapInv /\ [MapNext]_mvars => [Dict!Next]_Bindings
  BY MapStep
<1>2. MapInit => Dict!Init
  BY InitialMap
<1> QED BY <1>1, <1>2, MapIsRight, PTL DEF MapSpec, IsKeyedMap, Dict!Spec
=============================================================================

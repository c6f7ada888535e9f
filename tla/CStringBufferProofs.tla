-------------------------- MODULE CStringBufferProofs --------------------------
(***************************************************************************)
(* Proofs about CStringBuffer, for any number of buffers and references,   *)
(* any sizes of the pool's texts and of the stack arrays and any width of  *)
(* the count: no buffer or reference points at a freed string, the counts  *)
(* are exact until they wrap, cstring_equal compares texts, and the whole  *)
(* library implements StringValues: sharing cannot be seen.                *)
(*                                                                         *)
(* The invariant is stated for a heap and a number of uses of each block,  *)
(* because most calls change both twice: they take a new string and give   *)
(* the old one back.                                                       *)
(***************************************************************************)
EXTENDS CStringBuffer, FiniteSetTheorems, WellFoundedInduction, TLAPS

Addresses == Nodes \cup Blocks

\* A hash that is cached is that of the text.
HashRight(d) == d.hash \in {0, HashBlob(d.text)}
HeapOK(hp) ==
    /\ DOMAIN hp \subseteq Blocks
    /\ hp \in [DOMAIN hp -> Data]
    /\ \A p \in DOMAIN hp : HashRight(hp[p])

\* U[p] is how many buffers and references use p: a block in use is not
\* freed, and its count is their number, unless it is permanent or wrapped.
Counted(hp, U) ==
    \A p \in Blocks :
        /\ U[p] \in Nat
        /\ U[p] > 0 => p \in DOMAIN hp
        /\ p \in DOMAIN hp /\ hp[p].type = 0 /\ hp[p].ref # 0 => hp[p].ref = U[p]

Plus(U, a)  == [p \in Blocks |-> IF p = a THEN U[p] + 1 ELSE U[p]]
Minus(U, a) == [p \in Blocks |-> IF p = a THEN U[p] - 1 ELSE U[p]]

-----------------------------------------------------------------------------
(* Addresses.                                                              *)

LEMMA Apart ==
    /\ Nodes \subseteq Int /\ Blocks \subseteq Int
    /\ Nodes \cap Blocks = {}
    /\ NULL \notin Addresses /\ STACK \notin Addresses /\ NULL # STACK
    /\ NoText \notin Texts
    /\ Nodes \subseteq Texts
    /\ \A a \in Blocks : OnHeap(a)
    /\ \A a \in Nodes \cup {STACK, NULL} : ~OnHeap(a)
<1>1. /\ Nodes \subseteq Int /\ \A a \in Nodes : a >= 0
      /\ Blocks \subseteq Int /\ \A a \in Blocks : a < 0
  BY BufferAssumption DEF Nodes, Blocks
<1>2. Nodes \subseteq Texts /\ Texts \subseteq Int
  BY BufferAssumption DEF Nodes, Texts
<1>3. Nodes \cap Blocks = {}
  BY <1>1
<1>. QED
  BY <1>1, <1>2, <1>3, BufferAssumption DEF Addresses, OnHeap

\* Any set of blocks has a highest address.
LEMMA Highest ==
    ASSUME NEW S \in SUBSET Blocks, S # {}
    PROVE  \E p \in S : \A o \in S : o <= p
<1>. DEFINE R == OpToRel(<, Nat)
            T == {-p : p \in S}
<1>1. T \subseteq Nat /\ T # {}
  BY BufferAssumption DEF Blocks
<1>2. PICK x \in T : \A y \in T : <<y, x>> \notin R
  BY <1>1, NatLessThanWellFounded, WFMin
<1>3. \A y \in T : ~(y < x)
  BY <1>1, <1>2 DEF OpToRel
<1>4. -x \in S /\ \A o \in S : o <= -x
  BY <1>1, <1>3, BufferAssumption DEF Blocks
<1>. QED BY <1>4

-----------------------------------------------------------------------------
(* What malloc, clone, grab and release do to the heap and to the uses.    *)

\* A step of the memory keeps the text of every block that is not freed.
KeepsTexts(hp, h2) ==
    \A q \in DOMAIN hp \cap DOMAIN h2 : h2[q].text = hp[q].text

LEMMA AllocAddr ==
    ASSUME NEW hp, NEW n, Available(hp) # {}
    PROVE  /\ Alloc(hp, n).addr \in Blocks \ DOMAIN hp
           /\ Alloc(hp, n).heap = With(hp, Alloc(hp, n).addr, NewData(n))
<1>. DEFINE p == CHOOSE q \in Available(hp) : \A o \in Available(hp) : o <= q
<1>1. p \in Available(hp)
  BY Highest DEF Available
<1>2. Alloc(hp, n).addr = p /\ Alloc(hp, n).heap = With(hp, p, NewData(n))
  BY DEF Alloc
<1>. QED BY <1>1, <1>2 DEF Available

LEMMA AllocOK ==
    ASSUME NEW hp, NEW n \in Texts, NEW U, HeapOK(hp), Counted(hp, U), Available(hp) # {},
           NEW c, c = Alloc(hp, n)
    PROVE  /\ HeapOK(c.heap) /\ Counted(c.heap, Plus(U, c.addr))
           /\ c.addr \in Blocks \ DOMAIN hp
           /\ c.heap[c.addr].text = n /\ KeepsTexts(hp, c.heap)
           /\ DOMAIN hp \subseteq DOMAIN c.heap
<1>. DEFINE p == c.addr
            h2 == c.heap
<1>0. /\ p \in Blocks \ DOMAIN hp
      /\ DOMAIN h2 = DOMAIN hp \cup {p}
      /\ h2 = [q \in DOMAIN h2 |-> h2[q]]
      /\ h2[p] = NewData(n)
      /\ \A q \in DOMAIN hp : h2[q] = hp[q]
  <2>1. p \in Blocks \ DOMAIN hp /\ h2 = With(hp, p, NewData(n))
    BY AllocAddr
  <2>. HIDE DEF p, h2
  <2>. QED BY <2>1 DEF With
<1>1. NewData(n) \in Data /\ HashRight(NewData(n))
      /\ NewData(n).ref = 1 /\ NewData(n).type = 0 /\ NewData(n).text = n
  BY BufferAssumption DEF NewData, Data, HashRight, Texts
<1>. HIDE DEF p, h2
<1>2. HeapOK(h2)
  BY <1>0, <1>1 DEF HeapOK
<1>3. U[p] = 0
  BY <1>0 DEF Counted
<1>4. Counted(h2, Plus(U, p))
  BY <1>0, <1>1, <1>3 DEF Counted, Plus
<1>5. h2[p].text = n /\ KeepsTexts(hp, h2)
  BY <1>0, <1>1 DEF KeepsTexts
<1>. QED BY <1>0, <1>2, <1>4, <1>5 DEF p, h2

\* A short text is its node of the pool, which nobody counts.
LEMMA CloneOK ==
    ASSUME NEW hp, NEW n \in Texts, NEW U, HeapOK(hp), Counted(hp, U), Available(hp) # {},
           NEW c, c = Clone(hp, n)
    PROVE  /\ HeapOK(c.heap) /\ Counted(c.heap, Plus(U, c.addr))
           /\ c.addr \in Addresses
           /\ c.addr \in Blocks => c.addr \notin DOMAIN hp /\ c.heap[c.addr].text = n
           /\ c.addr \in Nodes => c.addr = n
           /\ KeepsTexts(hp, c.heap) /\ DOMAIN hp \subseteq DOMAIN c.heap
<1>1. CASE n < InternSize
  <2>1. c.addr = n /\ c.heap = hp /\ n \in Nodes
    BY <1>1, BufferAssumption DEF Clone, Nodes, Texts
  <2>2. n \notin Blocks
    BY <2>1, Apart
  <2>3. Counted(hp, Plus(U, n))
    BY <2>2 DEF Counted, Plus
  <2>. QED BY <2>1, <2>2, <2>3 DEF KeepsTexts, Addresses
<1>2. CASE ~(n < InternSize)
  <2>1. c = Alloc(hp, n)
    BY <1>2 DEF Clone
  <2>. QED BY <2>1, AllocOK, Apart DEF Addresses
<1>. QED BY <1>1, <1>2

\* The last user of a block whose count is exact frees it; no other does.
LEMMA ReleasedOK ==
    ASSUME NEW hp, NEW U, HeapOK(hp), Counted(hp, U),
           NEW a \in Addresses \cup {STACK, NULL}, a \in Blocks => U[a] > 0,
           NEW r, r = Released(hp, a)
    PROVE  /\ HeapOK(r) /\ Counted(r, Minus(U, a))
           /\ KeepsTexts(hp, r) /\ DOMAIN r \subseteq DOMAIN hp
           /\ \A q \in Blocks : U[q] > 0 /\ q # a => q \in DOMAIN r
<1>1. CASE ~OnHeap(a)
  <2>1. a \notin Blocks /\ r = hp
    BY <1>1, Apart DEF Released
  <2>2. Counted(hp, Minus(U, a))
    BY <2>1 DEF Counted, Minus
  <2>. QED BY <2>1, <2>2 DEF KeepsTexts, Counted
<1>. SUFFICES ASSUME OnHeap(a) PROVE \A x : x = Released(hp, a) =>
            /\ HeapOK(x) /\ Counted(x, Minus(U, a))
            /\ KeepsTexts(hp, x) /\ DOMAIN x \subseteq DOMAIN hp
            /\ \A q \in Blocks : U[q] > 0 /\ q # a => q \in DOMAIN x
  BY <1>1
<1>2. a \in Blocks /\ a \in DOMAIN hp
  BY Apart DEF Counted, Addresses
<1>3. U[a] \in Nat /\ hp[a] \in Data /\ hp[a].ref \in Nat /\ HashRight(hp[a])
  BY <1>2, BufferAssumption DEF Counted, HeapOK, Data
<1>4. CASE hp[a].type # 0 \/ hp[a].ref = 0
  <2>1. Released(hp, a) = hp
    BY <1>4 DEF Released
  <2>2. Counted(hp, Minus(U, a))
    BY <1>2, <1>3, <1>4 DEF Counted, Minus
  <2>. QED BY <2>1, <2>2 DEF KeepsTexts, Counted
<1>5. CASE hp[a].type = 0 /\ hp[a].ref = 1
  <2>. DEFINE f == Free(hp, a)
  <2>1. Released(hp, a) = f
    BY <1>5 DEF Released
  <2>2. /\ DOMAIN f = DOMAIN hp \ {a} /\ \A q \in DOMAIN f : f[q] = hp[q]
        /\ f = [q \in DOMAIN f |-> f[q]]
    BY DEF Free
  <2>3. U[a] = 1
    BY <1>2, <1>5 DEF Counted
  <2>. HIDE DEF f
  <2>4. HeapOK(f)
    BY <2>2 DEF HeapOK
  <2>5. Counted(f, Minus(U, a))
    BY <1>2, <2>2, <2>3 DEF Counted, Minus
  <2>6. KeepsTexts(hp, f) /\ \A q \in Blocks : U[q] > 0 /\ q # a => q \in DOMAIN f
    BY <2>2 DEF KeepsTexts, Counted
  <2>. QED BY <2>1, <2>2, <2>4, <2>5, <2>6
<1>6. CASE hp[a].type = 0 /\ hp[a].ref # 0 /\ hp[a].ref # 1
  <2>. DEFINE d == [hp[a] EXCEPT !.ref = @ - 1]
              f == [hp EXCEPT ![a] = d]
  <2>1. Released(hp, a) = f
    BY <1>6 DEF Released
  <2>2. /\ d \in Data /\ HashRight(d)
        /\ d.type = 0 /\ d.ref = hp[a].ref - 1 /\ d.text = hp[a].text
    BY <1>3, <1>6, BufferAssumption DEF Data, HashRight
  <2>3. U[a] = hp[a].ref
    BY <1>2, <1>6 DEF Counted
  <2>. HIDE DEF d
  <2>4. /\ DOMAIN f = DOMAIN hp /\ \A q \in DOMAIN f : f[q] = IF q = a THEN d ELSE hp[q]
        /\ f = [q \in DOMAIN f |-> f[q]]
    BY <1>2 DEF HeapOK
  <2>. HIDE DEF f
  <2>5. HeapOK(f)
    BY <1>2, <2>2, <2>4 DEF HeapOK
  <2>6. Counted(f, Minus(U, a))
    BY <1>2, <1>3, <2>2, <2>3, <2>4 DEF Counted, Minus
  <2>7. KeepsTexts(hp, f) /\ \A q \in Blocks : U[q] > 0 /\ q # a => q \in DOMAIN f
    BY <2>2, <2>4 DEF KeepsTexts, Counted
  <2>. QED BY <2>1, <2>4, <2>5, <2>6, <2>7
<1>. QED BY <1>3, <1>4, <1>5, <1>6

\* One more user is counted; a count that wraps is never used again.
LEMMA GrabbedOK ==
    ASSUME NEW hp, NEW U, HeapOK(hp), Counted(hp, U),
           NEW a \in Addresses, a \in Blocks => a \in DOMAIN hp,
           NEW g, g = Grabbed(hp, a)
    PROVE  /\ HeapOK(g) /\ Counted(g, Plus(U, a))
           /\ KeepsTexts(hp, g) /\ DOMAIN g = DOMAIN hp
<1>1. CASE ~OnHeap(a)
  <2>1. a \notin Blocks /\ g = hp
    BY <1>1, Apart DEF Grabbed
  <2>2. Counted(hp, Plus(U, a))
    BY <2>1 DEF Counted, Plus
  <2>. QED BY <2>1, <2>2 DEF KeepsTexts
<1>2. CASE OnHeap(a)
  <2>1. a \in Blocks /\ a \in DOMAIN hp
    BY <1>2, Apart DEF Addresses
  <2>2. U[a] \in Nat /\ hp[a] \in Data /\ hp[a].ref \in 0 .. RefMod - 1 /\ HashRight(hp[a])
    BY <2>1, BufferAssumption DEF Counted, HeapOK, Data
  <2>3. CASE hp[a].type # 0
    <3>1. g = hp
      BY <2>3 DEF Grabbed
    <3>2. Counted(hp, Plus(U, a))
      BY <2>1, <2>2, <2>3 DEF Counted, Plus
    <3>. QED BY <3>1, <3>2 DEF KeepsTexts
  <2>4. CASE hp[a].type = 0
    <3>1. PICK d : /\ g = [hp EXCEPT ![a] = d]
                   /\ d \in Data /\ HashRight(d) /\ d.text = hp[a].text
                   /\ \/ d.type = PERMANENT
                      \/ d.type = 0 /\ d.ref = 0
                      \/ d.type = 0 /\ hp[a].ref # 0 /\ d.ref = hp[a].ref + 1
      <4>1. CASE hp[a].ref = 0
        <5>. DEFINE d == [hp[a] EXCEPT !.type = PERMANENT]
        <5>1. g = [hp EXCEPT ![a] = d]
          BY <1>2, <2>4, <4>1 DEF Grabbed
        <5>2. d \in Data /\ HashRight(d) /\ d.text = hp[a].text /\ d.type = PERMANENT
          BY <2>2 DEF Data, HashRight, PERMANENT
        <5>. QED BY <5>1, <5>2
      <4>2. CASE hp[a].ref # 0
        <5>. DEFINE d == [hp[a] EXCEPT !.ref = (@ + 1) % RefMod]
        <5>1. g = [hp EXCEPT ![a] = d]
          BY <1>2, <2>4, <4>2 DEF Grabbed
        <5>2. /\ (hp[a].ref + 1) % RefMod \in 0 .. RefMod - 1
              /\ (hp[a].ref + 1) % RefMod \in {0, hp[a].ref + 1}
          <6>. DEFINE x == hp[a].ref
          <6>1. x \in 0 .. RefMod - 1 /\ RefMod \in Nat /\ RefMod > 0
            BY <2>2, BufferAssumption
          <6>. HIDE DEF x
          <6>2. x + 1 = RefMod \/ x + 1 \in 0 .. RefMod - 1
            BY <6>1
          <6>3. RefMod % RefMod = 0 /\ \A y \in 0 .. RefMod - 1 : y % RefMod = y
            BY <6>1
          <6>4. (x + 1) % RefMod \in 0 .. RefMod - 1 /\ (x + 1) % RefMod \in {0, x + 1}
            BY <6>1, <6>2, <6>3
          <6>. QED BY <6>4 DEF x
        <5>3. /\ d \in Data /\ HashRight(d) /\ d.text = hp[a].text
              /\ d.type = 0 /\ d.ref \in {0, hp[a].ref + 1}
          BY <2>2, <2>4, <5>2 DEF Data, HashRight
        <5>. QED BY <4>2, <5>1, <5>3
      <4>. QED BY <4>1, <4>2
    <3>2. /\ DOMAIN g = DOMAIN hp /\ \A q \in DOMAIN g : g[q] = IF q = a THEN d ELSE hp[q]
          /\ g = [q \in DOMAIN g |-> g[q]]
      BY <2>1, <3>1 DEF HeapOK
    <3>3. HeapOK(g)
      BY <2>1, <3>1, <3>2 DEF HeapOK
    <3>4. Counted(g, Plus(U, a))
      BY <2>1, <2>2, <2>4, <3>1, <3>2 DEF Counted, Plus, PERMANENT
    <3>5. KeepsTexts(hp, g)
      BY <3>1, <3>2 DEF KeepsTexts
    <3>. QED BY <3>2, <3>3, <3>4, <3>5
  <2>. QED BY <2>3, <2>4
<1>. QED BY <1>1, <1>2

-----------------------------------------------------------------------------
(* The uses of a block.                                                    *)

Used == [p \in Blocks |-> Uses(p)]

Places ==
    /\ str \in [Buffers -> Addresses \cup {STACK, NULL}]
    /\ handle \in [Handles -> Addresses \cup {NULL}]
    /\ stack \in [Buffers -> 0 .. StackSize - 1]

IInv == Places /\ HeapOK(heap) /\ Counted(heap, Used)

\* The places that hold p.
Holders(S, f, p) == {j \in S : f[j] = p}

\* One place changes, to x.
Moved(S, f, i, x, g) == g[i] = x /\ \A j \in S : j # i => g[j] = f[j]

\* How many places hold p, when one place changes from a to x.
LEMMA PlaceChange ==
    ASSUME NEW S, IsFiniteSet(S), NEW f, NEW i \in S, NEW x, NEW p,
           NEW g, Moved(S, f, i, x, g)
    PROVE  /\ Cardinality(Holders(S, f, p)) \in Nat
           /\ Cardinality(Holders(S, g, p)) =
                Cardinality(Holders(S, f, p))
                + (IF x = p THEN 1 ELSE 0) - (IF f[i] = p THEN 1 ELSE 0)
<1>. DEFINE A == {j \in S : f[j] = p}
            B == {j \in S : g[j] = p}
            C == {j \in S \ {i} : f[j] = p}
<1>1. IsFiniteSet(C)
  BY FS_Subset
<1>2. A = IF f[i] = p THEN C \cup {i} ELSE C
  OBVIOUS
<1>3. B = IF x = p THEN C \cup {i} ELSE C
  BY DEF Moved
<1>4. i \notin C
  OBVIOUS
<1>. HIDE DEF A, B, C
<1>5. Cardinality(C) \in Nat /\ Cardinality(C \cup {i}) = Cardinality(C) + 1
  BY <1>1, <1>4, FS_AddElement, FS_CardinalityType
<1>6. /\ Cardinality(A) \in Nat /\ Cardinality(B) \in Nat
      /\ Cardinality(B) = Cardinality(A) + (IF x = p THEN 1 ELSE 0)
                                         - (IF f[i] = p THEN 1 ELSE 0)
  BY <1>2, <1>3, <1>5
<1>. QED BY <1>6 DEF A, B, Holders

LEMMA HoldersNat ==
    ASSUME NEW S, IsFiniteSet(S), NEW f, NEW p
    PROVE  /\ Cardinality(Holders(S, f, p)) \in Nat
           /\ \A j \in S : f[j] = p => Cardinality(Holders(S, f, p)) > 0
<1>. DEFINE A == Holders(S, f, p)
<1>1. IsFiniteSet(A) /\ \A j \in S : f[j] = p => A # {}
  BY FS_Subset DEF Holders
<1>. HIDE DEF A
<1>2. Cardinality(A) \in Nat /\ (A # {} => Cardinality(A) > 0)
  BY <1>1, FS_CardinalityType, FS_EmptySet
<1>. QED BY <1>1, <1>2 DEF A

LEMMA UsesNat ==
    ASSUME Places, NEW p
    PROVE  /\ Uses(p) \in Nat
           /\ \A b \in Buffers : str[b] = p => Uses(p) > 0
           /\ \A h \in Handles : handle[h] = p => Uses(p) > 0
<1>1. Uses(p) = Cardinality(Holders(Buffers, str, p)) + Cardinality(Holders(Handles, handle, p))
  BY DEF Uses, Holders
<1>2. /\ Cardinality(Holders(Buffers, str, p)) \in Nat
      /\ \A b \in Buffers : str[b] = p => Cardinality(Holders(Buffers, str, p)) > 0
      /\ Cardinality(Holders(Handles, handle, p)) \in Nat
      /\ \A h \in Handles : handle[h] = p => Cardinality(Holders(Handles, handle, p)) > 0
  BY HoldersNat, BufferAssumption
<1>. QED BY <1>1, <1>2

\* A buffer that moves from one string to another, and a reference that is
\* obtained or given back.
LEMMA BufferMoves ==
    ASSUME Places, NEW b \in Buffers, NEW x, str' = [str EXCEPT ![b] = x], handle' = handle
    PROVE  Used' = Minus(Plus(Used, x), str[b]) /\ Used' = Plus(Minus(Used, str[b]), x)
<1>1. ASSUME NEW p \in Blocks
      PROVE  /\ Uses(p)' = Uses(p) + (IF x = p THEN 1 ELSE 0) - (IF str[b] = p THEN 1 ELSE 0)
             /\ Uses(p) \in Nat
  <2>1. /\ Cardinality(Holders(Buffers, str, p)) \in Nat
        /\ Cardinality(Holders(Buffers, str', p)) =
             Cardinality(Holders(Buffers, str, p))
             + (IF x = p THEN 1 ELSE 0) - (IF str[b] = p THEN 1 ELSE 0)
    <3>1. Moved(Buffers, str, b, x, str')
      BY DEF Places, Moved
    <3>. QED BY <3>1, PlaceChange, BufferAssumption
  <2>2. Cardinality(Holders(Handles, handle, p)) \in Nat
    BY HoldersNat, BufferAssumption
  <2>. QED BY <2>1, <2>2 DEF Uses, Holders
<1>. QED BY <1>1 DEF Used, Plus, Minus

LEMMA HandleMoves ==
    ASSUME Places, NEW h \in Handles, NEW x, handle' = [handle EXCEPT ![h] = x], str' = str
    PROVE  Used' = Minus(Plus(Used, x), handle[h]) /\ Used' = Plus(Minus(Used, handle[h]), x)
<1>1. ASSUME NEW p \in Blocks
      PROVE  /\ Uses(p)' = Uses(p) + (IF x = p THEN 1 ELSE 0) - (IF handle[h] = p THEN 1 ELSE 0)
             /\ Uses(p) \in Nat
  <2>1. /\ Cardinality(Holders(Handles, handle, p)) \in Nat
        /\ Cardinality(Holders(Handles, handle', p)) =
             Cardinality(Holders(Handles, handle, p))
             + (IF x = p THEN 1 ELSE 0) - (IF handle[h] = p THEN 1 ELSE 0)
    <3>1. Moved(Handles, handle, h, x, handle')
      BY DEF Places, Moved
    <3>. QED BY <3>1, PlaceChange, BufferAssumption
  <2>2. Cardinality(Holders(Buffers, str, p)) \in Nat
    BY HoldersNat, BufferAssumption
  <2>. QED BY <2>1, <2>2 DEF Uses, Holders
<1>. QED BY <1>1 DEF Used, Plus, Minus

\* What the other places hold is still used when one place gives up its own.
LEMMA StillUsed ==
    ASSUME Places, NEW p \in Blocks
    PROVE  /\ \A b, c \in Buffers :
                c # b /\ str[c] = p => Minus(Used, str[b])[p] > 0
           /\ \A b \in Buffers, h \in Handles :
                handle[h] = p => Minus(Used, str[b])[p] > 0
           /\ \A g, h \in Handles :
                h # g /\ handle[h] = p => Minus(Used, handle[g])[p] > 0
           /\ \A g \in Handles, b \in Buffers :
                str[b] = p => Minus(Used, handle[g])[p] > 0
<1>. DEFINE S(f) == Cardinality(Holders(Buffers, f, p))
            H(f) == Cardinality(Holders(Handles, f, p))
<1>0. /\ Uses(p) = S(str) + H(handle)
      /\ \A f : S(f) \in Nat /\ \A c \in Buffers : f[c] = p => S(f) > 0
      /\ \A f : H(f) \in Nat /\ \A c \in Handles : f[c] = p => H(f) > 0
  <2>1. Uses(p) = S(str) + H(handle)
    BY DEF Uses, Holders
  <2>. QED BY <2>1, HoldersNat, BufferAssumption
<1>1. NULL # p
  BY Apart DEF Addresses
<1>2. ASSUME NEW b \in Buffers
      PROVE  /\ \A c \in Buffers : c # b /\ str[c] = p => Minus(Used, str[b])[p] > 0
             /\ \A h \in Handles : handle[h] = p => Minus(Used, str[b])[p] > 0
  <2>. DEFINE f == [str EXCEPT ![b] = NULL]
  <2>1. Moved(Buffers, str, b, NULL, f)
    BY DEF Places, Moved
  <2>2. \A c \in Buffers : c # b => f[c] = str[c]
    BY DEF Places
  <2>. HIDE DEF f
  <2>3. S(f) = S(str) - (IF str[b] = p THEN 1 ELSE 0)
    BY <1>0, <1>1, <2>1, PlaceChange, BufferAssumption
  <2>4. Minus(Used, str[b])[p] = S(f) + H(handle)
    BY <1>0, <2>3 DEF Minus, Used
  <2>. HIDE DEF S, H
  <2>. QED BY <1>0, <2>2, <2>4
<1>3. ASSUME NEW g \in Handles
      PROVE  /\ \A h \in Handles : h # g /\ handle[h] = p => Minus(Used, handle[g])[p] > 0
             /\ \A b \in Buffers : str[b] = p => Minus(Used, handle[g])[p] > 0
  <2>. DEFINE f == [handle EXCEPT ![g] = NULL]
  <2>1. Moved(Handles, handle, g, NULL, f)
    BY DEF Places, Moved
  <2>2. \A c \in Handles : c # g => f[c] = handle[c]
    BY DEF Places
  <2>. HIDE DEF f
  <2>3. H(f) = H(handle) - (IF handle[g] = p THEN 1 ELSE 0)
    BY <1>0, <1>1, <2>1, PlaceChange, BufferAssumption
  <2>4. Minus(Used, handle[g])[p] = S(str) + H(f)
    BY <1>0, <2>3 DEF Minus, Used
  <2>. HIDE DEF S, H
  <2>. QED BY <1>0, <2>2, <2>4
<1>. QED BY <1>2, <1>3

\* What is in use is there, with the text it had.
StillThere(U, hp, h2) ==
    \A q \in Blocks : U[q] > 0 => q \in DOMAIN h2 /\ h2[q].text = hp[q].text

\* CatMoves: a new string first, then the old one is released.
LEMMA CatMemory ==
    ASSUME NEW hp, NEW n \in Texts, NEW U, HeapOK(hp), Counted(hp, U), Available(hp) # {},
           NEW a \in Addresses \cup {STACK, NULL}, a \in Blocks => U[a] > 0,
           NEW c, c = Clone(hp, n), NEW r, r = Released(c.heap, a)
    PROVE  /\ HeapOK(r) /\ Counted(r, Minus(Plus(U, c.addr), a))
           /\ c.addr \in Addresses
           /\ c.addr \in Nodes => c.addr = n
           /\ c.addr \in Blocks => c.addr \in DOMAIN r /\ r[c.addr].text = n
           /\ StillThere(Minus(U, a), hp, r)
<1>. DEFINE x == c.addr
            V == Plus(U, x)
<1>1. /\ HeapOK(c.heap) /\ Counted(c.heap, V)
      /\ x \in Addresses
      /\ x \in Blocks => x \notin DOMAIN hp /\ c.heap[x].text = n
      /\ x \in Nodes => x = n
      /\ KeepsTexts(hp, c.heap) /\ DOMAIN hp \subseteq DOMAIN c.heap
  BY CloneOK
<1>2. /\ \A p \in Blocks : V[p] = (IF p = x THEN U[p] + 1 ELSE U[p])
      /\ \A p \in Blocks : Minus(V, a)[p] = (IF p = a THEN V[p] - 1 ELSE V[p])
      /\ \A p \in Blocks : Minus(U, a)[p] = (IF p = a THEN U[p] - 1 ELSE U[p])
      /\ \A p \in Blocks : U[p] \in Nat /\ (U[p] > 0 => p \in DOMAIN hp)
  BY DEF Plus, Minus, Counted
<1>. HIDE DEF x, V
<1>3. a \in Blocks => V[a] > 0
  BY <1>2
<1>4. /\ HeapOK(r) /\ Counted(r, Minus(V, a))
      /\ KeepsTexts(c.heap, r) /\ DOMAIN r \subseteq DOMAIN c.heap
  BY <1>1, <1>3, ReleasedOK
<1>5. x \in Blocks => x \in DOMAIN r /\ r[x].text = n
  <2>1. x \in Blocks => U[x] = 0 /\ x # a
    BY <1>1, <1>2
  <2>2. x \in Blocks => x \in DOMAIN r
    BY <1>2, <1>4, <2>1 DEF Counted
  <2>. QED BY <1>1, <1>4, <2>2 DEF KeepsTexts
<1>6. StillThere(Minus(U, a), hp, r)
  <2>1. \A q \in Blocks : Minus(U, a)[q] > 0 => U[q] > 0 /\ Minus(V, a)[q] > 0
    BY <1>2
  <2>2. \A q \in Blocks : Minus(U, a)[q] > 0 => q \in DOMAIN hp /\ q \in DOMAIN r
    BY <1>2, <1>4, <2>1 DEF Counted
  <2>. QED BY <1>1, <1>4, <2>2 DEF KeepsTexts, StillThere
<1>. QED BY <1>1, <1>4, <1>5, <1>6 DEF x, V

\* PrintfMoves: the old string is released first, and its block may be the
\* one that malloc returns.
LEMMA PrintfMemory ==
    ASSUME NEW hp, NEW n \in Texts, NEW U, HeapOK(hp), Counted(hp, U), Available(hp) # {},
           NEW a \in Addresses \cup {STACK, NULL}, a \in Blocks => U[a] > 0,
           NEW r, r = Released(hp, a), NEW c, c = Alloc(r, n)
    PROVE  /\ HeapOK(c.heap) /\ Counted(c.heap, Plus(Minus(U, a), c.addr))
           /\ c.addr \in Blocks /\ c.addr \in DOMAIN c.heap /\ c.heap[c.addr].text = n
           /\ StillThere(Minus(U, a), hp, c.heap)
<1>. DEFINE V == Minus(U, a)
<1>1. /\ HeapOK(r) /\ Counted(r, V)
      /\ KeepsTexts(hp, r) /\ DOMAIN r \subseteq DOMAIN hp
  BY ReleasedOK
<1>2. Available(r) # {}
  BY <1>1 DEF Available
<1>. HIDE DEF V
<1>3. /\ HeapOK(c.heap) /\ Counted(c.heap, Plus(V, c.addr))
      /\ c.addr \in Blocks \ DOMAIN r
      /\ c.heap[c.addr].text = n /\ KeepsTexts(r, c.heap)
      /\ DOMAIN r \subseteq DOMAIN c.heap
  BY <1>1, <1>2, AllocOK
<1>4. c.addr \in DOMAIN c.heap
  <2>1. V[c.addr] \in Nat /\ Plus(V, c.addr)[c.addr] = V[c.addr] + 1
    BY <1>1, <1>3 DEF Counted, Plus
  <2>. QED BY <1>3, <2>1 DEF Counted
<1>5. StillThere(V, hp, c.heap)
  <2>1. \A q \in Blocks : V[q] > 0 => q \in DOMAIN r /\ q \in DOMAIN hp /\ q \in DOMAIN c.heap
    BY <1>1, <1>3 DEF Counted
  <2>. QED BY <1>1, <1>3, <2>1 DEF KeepsTexts, StillThere
<1>. QED BY <1>3, <1>4, <1>5 DEF V

-----------------------------------------------------------------------------
(* Values.                                                                 *)

BVal == [b \in Buffers |-> IF str[b] = NULL THEN NoText ELSE TextAt(b, str[b])]
HVal == [h \in Handles |-> IF handle[h] = NULL THEN NoText ELSE TextAt(NULL, handle[h])]

\* A buffer holding a stack array, a node and a block, and a reference.
LEMMA ValueIs ==
    ASSUME Places
    PROVE  /\ \A b \in Buffers :
                /\ str[b] = NULL => BVal[b] = NoText
                /\ str[b] = STACK => BVal[b] = stack[b]
                /\ str[b] \in Nodes => BVal[b] = str[b]
                /\ str[b] \in Blocks => BVal[b] = heap[str[b]].text
           /\ \A h \in Handles :
                /\ handle[h] = NULL => HVal[h] = NoText
                /\ handle[h] \in Nodes => HVal[h] = handle[h]
                /\ handle[h] \in Blocks => HVal[h] = heap[handle[h]].text
  BY Apart DEF Places, BVal, HVal, TextAt, Addresses

LEMMA ValueIsNext ==
    ASSUME Places'
    PROVE  /\ \A b \in Buffers :
                /\ str'[b] = NULL => BVal'[b] = NoText
                /\ str'[b] = STACK => BVal'[b] = stack'[b]
                /\ str'[b] \in Nodes => BVal'[b] = str'[b]
                /\ str'[b] \in Blocks => BVal'[b] = heap'[str'[b]].text
           /\ \A h \in Handles :
                /\ handle'[h] = NULL => HVal'[h] = NoText
                /\ handle'[h] \in Nodes => HVal'[h] = handle'[h]
                /\ handle'[h] \in Blocks => HVal'[h] = heap'[handle'[h]].text
  BY Apart DEF Places, BVal, HVal, TextAt, OnHeap, Addresses

\* Every value is a text, and NoText when there is none.
LEMMA ValueText ==
    ASSUME IInv
    PROVE  /\ \A b \in Buffers : str[b] # NULL => BVal[b] \in Texts
           /\ \A h \in Handles : handle[h] # NULL => HVal[h] \in Texts
<1>1. /\ Places /\ \A p \in DOMAIN heap : heap[p].text \in Texts
      /\ 0 .. StackSize - 1 \subseteq Texts
  BY BufferAssumption DEF IInv, HeapOK, Data, Texts
<1>2. \A p \in Blocks : Used[p] > 0 => p \in DOMAIN heap
  BY DEF IInv, Counted
<1>3. \A p \in Blocks : Used[p] = Uses(p)
  BY DEF Used
<1>4. /\ \A b \in Buffers : str[b] \in Blocks => str[b] \in DOMAIN heap
      /\ \A h \in Handles : handle[h] \in Blocks => handle[h] \in DOMAIN heap
  BY <1>1, <1>2, <1>3, UsesNat
<1>. QED BY <1>1, <1>4, ValueIs, Apart DEF Places, Addresses

\* The others keep their values while a buffer, or a reference, moves.
LEMMA BufferSets ==
    ASSUME Places, Places', NEW b \in Buffers,
           \A c \in Buffers : c # b => str'[c] = str[c] /\ stack'[c] = stack[c],
           handle' = handle,
           StillThere(Minus(Used, str[b]), heap, heap')
    PROVE  /\ BVal' = [BVal EXCEPT ![b] = BVal'[b]]
           /\ HVal' = HVal
<1>1. ASSUME NEW c \in Buffers, c # b PROVE BVal'[c] = BVal[c]
  <2>1. str[c] \in Blocks => heap'[str[c]].text = heap[str[c]].text
    BY <1>1, StillUsed DEF StillThere
  <2>. QED BY <1>1, <2>1, ValueIs, ValueIsNext DEF Places, Addresses
<1>2. ASSUME NEW h \in Handles PROVE HVal'[h] = HVal[h]
  <2>1. handle[h] \in Blocks => heap'[handle[h]].text = heap[handle[h]].text
    BY StillUsed DEF StillThere
  <2>. QED BY <2>1, ValueIs, ValueIsNext DEF Places, Addresses
<1>3. /\ BVal = [c \in Buffers |-> BVal[c]] /\ BVal' = [c \in Buffers |-> BVal'[c]]
      /\ HVal = [h \in Handles |-> HVal[h]] /\ HVal' = [h \in Handles |-> HVal'[h]]
  BY DEF BVal, HVal
<1>. QED BY <1>1, <1>2, <1>3

LEMMA HandleSets ==
    ASSUME Places, Places', NEW g \in Handles,
           \A h \in Handles : h # g => handle'[h] = handle[h],
           str' = str, stack' = stack,
           StillThere(Minus(Used, handle[g]), heap, heap')
    PROVE  /\ HVal' = [HVal EXCEPT ![g] = HVal'[g]]
           /\ BVal' = BVal
<1>1. ASSUME NEW c \in Buffers PROVE BVal'[c] = BVal[c]
  <2>1. str[c] \in Blocks => heap'[str[c]].text = heap[str[c]].text
    BY StillUsed DEF StillThere
  <2>. QED BY <2>1, ValueIs, ValueIsNext DEF Places, Addresses
<1>2. ASSUME NEW h \in Handles, h # g PROVE HVal'[h] = HVal[h]
  <2>1. handle[h] \in Blocks => heap'[handle[h]].text = heap[handle[h]].text
    BY <1>2, StillUsed DEF StillThere
  <2>. QED BY <1>2, <2>1, ValueIs, ValueIsNext DEF Places, Addresses
<1>3. /\ BVal = [c \in Buffers |-> BVal[c]] /\ BVal' = [c \in Buffers |-> BVal'[c]]
      /\ HVal = [h \in Handles |-> HVal[h]] /\ HVal' = [h \in Handles |-> HVal'[h]]
  BY DEF BVal, HVal
<1>. QED BY <1>1, <1>2, <1>3

-----------------------------------------------------------------------------
(* Every call keeps the invariant and does to the values what it says.     *)

LEMMA InUse ==
    ASSUME IInv
    PROVE  /\ \A b \in Buffers :
                /\ str[b] \in Addresses \cup {STACK, NULL}
                /\ stack[b] \in 0 .. StackSize - 1
                /\ str[b] \in Blocks => Used[str[b]] > 0 /\ str[b] \in DOMAIN heap
           /\ \A h \in Handles :
                /\ handle[h] \in Addresses \cup {NULL}
                /\ handle[h] \in Blocks => Used[handle[h]] > 0 /\ handle[h] \in DOMAIN heap
           /\ \A a \in {NULL, STACK} : Minus(Used, a) = Used /\ Plus(Used, a) = Used
<1>1. /\ Places /\ \A p \in Blocks : Used[p] \in Nat /\ (Used[p] > 0 => p \in DOMAIN heap)
  BY DEF IInv, Counted
<1>2. \A p \in Blocks : Used[p] = Uses(p)
  BY DEF Used
<1>3. /\ \A b \in Buffers : str[b] \in Blocks => Used[str[b]] > 0
      /\ \A h \in Handles : handle[h] \in Blocks => Used[handle[h]] > 0
  BY <1>1, <1>2, UsesNat
<1>4. \A a \in {NULL, STACK} : Minus(Used, a) = Used /\ Plus(Used, a) = Used
  <2>1. \A a \in {NULL, STACK} : a \notin Blocks
    BY Apart DEF Addresses
  <2>. QED BY <2>1 DEF Minus, Plus, Used
<1>. QED BY <1>1, <1>3, <1>4 DEF Places

LEMMA CatMovesOK ==
    ASSUME IInv, NEW b \in Buffers, NEW n \in Texts, CatMoves(b, n)
    PROVE  /\ IInv'
           /\ BVal[b] # NoText /\ BVal[b] + n \in Texts
           /\ BVal' = [BVal EXCEPT ![b] = BVal[b] + n] /\ HVal' = HVal
<1>. DEFINE total == TextAt(b, str[b]) + n
            c == Clone(heap, total)
            r == Released(c.heap, str[b])
            x == c.addr
<1>1. /\ str[b] # NULL /\ Available(heap) # {} /\ total \in Texts
      /\ str' = [str EXCEPT ![b] = x] /\ heap' = r /\ handle' = handle
      /\ stack' = IF str[b] = STACK THEN [stack EXCEPT ![b] = StackSize - 1] ELSE stack
  BY DEF CatMoves, Room
<1>2. BVal[b] = TextAt(b, str[b])
  BY <1>1 DEF BVal
<1>3. BVal[b] \in Texts /\ BVal[b] # NoText
  BY <1>1, ValueText, Apart
<1>4. /\ HeapOK(r) /\ Counted(r, Minus(Plus(Used, x), str[b]))
      /\ x \in Addresses
      /\ x \in Nodes => x = total
      /\ x \in Blocks => x \in DOMAIN r /\ r[x].text = total
      /\ StillThere(Minus(Used, str[b]), heap, r)
  <2>. HIDE DEF total
  <2>1. /\ HeapOK(heap) /\ Counted(heap, Used)
        /\ str[b] \in Addresses \cup {STACK, NULL} /\ (str[b] \in Blocks => Used[str[b]] > 0)
    BY InUse DEF IInv
  <2>. QED BY <1>1, <2>1, CatMemory
<1>. HIDE DEF total, c, r, x
<1>5. Places'
  BY <1>1, <1>4, BufferAssumption DEF IInv, Places
<1>6. Used' = Minus(Plus(Used, x), str[b])
  BY <1>1, BufferMoves DEF IInv
<1>7. IInv'
  BY <1>1, <1>4, <1>5, <1>6 DEF IInv
<1>8. BVal'[b] = total
  <2>1. str'[b] = x
    BY <1>1 DEF IInv, Places
  <2>. QED BY <1>1, <1>4, <1>5, <2>1, ValueIsNext DEF Addresses
<1>9. BVal' = [BVal EXCEPT ![b] = BVal'[b]] /\ HVal' = HVal
  <2>1. \A d \in Buffers : d # b => str'[d] = str[d] /\ stack'[d] = stack[d]
    BY <1>1 DEF IInv, Places
  <2>2. Places /\ StillThere(Minus(Used, str[b]), heap, heap')
    BY <1>1, <1>4 DEF IInv
  <2>. QED BY <1>1, <1>5, <2>1, <2>2, BufferSets
<1>. QED BY <1>1, <1>2, <1>3, <1>7, <1>8, <1>9 DEF total

LEMMA PrintfMovesOK ==
    ASSUME IInv, NEW b \in Buffers, NEW n \in Texts, PrintfMoves(b, n)
    PROVE  /\ IInv'
           /\ BVal[b] # NoText
           /\ BVal' = [BVal EXCEPT ![b] = n] /\ HVal' = HVal
<1>. DEFINE r == Released(heap, str[b])
            c == Alloc(r, n)
            x == c.addr
<1>1. /\ str[b] # NULL /\ Available(heap) # {}
      /\ str' = [str EXCEPT ![b] = x] /\ heap' = c.heap /\ handle' = handle
      /\ stack' = IF str[b] = STACK THEN [stack EXCEPT ![b] = StackSize - 1] ELSE stack
  BY DEF PrintfMoves, Room
<1>2. BVal[b] \in Texts /\ BVal[b] # NoText
  BY <1>1, ValueText, Apart
<1>3. /\ HeapOK(c.heap) /\ Counted(c.heap, Plus(Minus(Used, str[b]), x))
      /\ x \in Blocks /\ x \in DOMAIN c.heap /\ c.heap[x].text = n
      /\ StillThere(Minus(Used, str[b]), heap, c.heap)
  <2>1. /\ HeapOK(heap) /\ Counted(heap, Used)
        /\ str[b] \in Addresses \cup {STACK, NULL} /\ (str[b] \in Blocks => Used[str[b]] > 0)
    BY InUse DEF IInv
  <2>. QED BY <1>1, <2>1, PrintfMemory
<1>. HIDE DEF c, r, x
<1>4. Places'
  BY <1>1, <1>3, BufferAssumption DEF IInv, Places, Addresses
<1>5. Used' = Plus(Minus(Used, str[b]), x)
  BY <1>1, BufferMoves DEF IInv
<1>6. IInv'
  BY <1>1, <1>3, <1>4, <1>5 DEF IInv
<1>7. BVal'[b] = n
  <2>1. str'[b] = x
    BY <1>1 DEF IInv, Places
  <2>. QED BY <1>1, <1>3, <1>4, <2>1, ValueIsNext
<1>8. BVal' = [BVal EXCEPT ![b] = BVal'[b]] /\ HVal' = HVal
  <2>1. \A d \in Buffers : d # b => str'[d] = str[d] /\ stack'[d] = stack[d]
    BY <1>1 DEF IInv, Places
  <2>2. Places /\ StillThere(Minus(Used, str[b]), heap, heap')
    BY <1>1, <1>3 DEF IInv
  <2>. QED BY <1>1, <1>4, <2>1, <2>2, BufferSets
<1>. QED BY <1>1, <1>2, <1>6, <1>7, <1>8

\* Opening a buffer, and what fits its array, touch no other memory.
LEMMA StackOK ==
    ASSUME IInv, NEW b \in Buffers, NEW n \in 0 .. StackSize - 1,
           str[b] \in {STACK, NULL},
           str' = [str EXCEPT ![b] = STACK], stack' = [stack EXCEPT ![b] = n],
           UNCHANGED <<heap, handle>>
    PROVE  /\ IInv'
           /\ BVal' = [BVal EXCEPT ![b] = n] /\ HVal' = HVal
<1>1. Places'
  BY DEF IInv, Places
<1>2. Used' = Used
  <2>1. Used' = Plus(Minus(Used, str[b]), STACK)
    BY BufferMoves DEF IInv
  <2>2. Minus(Used, str[b]) = Used /\ Plus(Used, STACK) = Used
    BY InUse
  <2>. QED BY <2>1, <2>2
<1>3. IInv'
  BY <1>1, <1>2 DEF IInv
<1>4. str'[b] = STACK /\ stack'[b] = n
  BY DEF IInv, Places
<1>5. BVal'[b] = n
  BY <1>1, <1>4, ValueIsNext
<1>6. StillThere(Minus(Used, str[b]), heap, heap')
  <2>1. Minus(Used, str[b]) = Used
    BY InUse
  <2>. QED BY <2>1 DEF StillThere, IInv, Counted
<1>7. \A d \in Buffers : d # b => str'[d] = str[d] /\ stack'[d] = stack[d]
  BY DEF IInv, Places
<1>8. BVal' = [BVal EXCEPT ![b] = BVal'[b]] /\ HVal' = HVal
  BY <1>1, <1>6, <1>7, BufferSets DEF IInv
<1>. QED BY <1>3, <1>5, <1>8

LEMMA CloseOK ==
    ASSUME IInv, NEW b \in Buffers, Close(b)
    PROVE  /\ IInv'
           /\ BVal[b] # NoText
           /\ BVal' = [BVal EXCEPT ![b] = NoText] /\ HVal' = HVal
<1>. DEFINE r == Released(heap, str[b])
<1>1. /\ str[b] # NULL
      /\ str' = [str EXCEPT ![b] = NULL] /\ heap' = r /\ handle' = handle
      /\ stack' = [stack EXCEPT ![b] = 0]
  BY DEF Close
<1>2. BVal[b] \in Texts /\ BVal[b] # NoText
  BY <1>1, ValueText, Apart
<1>3. /\ HeapOK(r) /\ Counted(r, Minus(Used, str[b]))
      /\ KeepsTexts(heap, r) /\ DOMAIN r \subseteq DOMAIN heap
  <2>1. /\ HeapOK(heap) /\ Counted(heap, Used)
        /\ str[b] \in Addresses \cup {STACK, NULL} /\ (str[b] \in Blocks => Used[str[b]] > 0)
    BY InUse DEF IInv
  <2>. QED BY <1>1, <2>1, ReleasedOK
<1>. HIDE DEF r
<1>4. StillThere(Minus(Used, str[b]), heap, r)
  BY <1>3 DEF StillThere, Counted, KeepsTexts
<1>5. Places'
  BY <1>1, BufferAssumption DEF IInv, Places
<1>6. Used' = Minus(Used, str[b])
  <2>1. Used' = Minus(Plus(Used, NULL), str[b])
    BY <1>1, BufferMoves DEF IInv
  <2>. QED BY <2>1, InUse
<1>7. IInv'
  BY <1>1, <1>3, <1>5, <1>6 DEF IInv
<1>8. BVal'[b] = NoText
  <2>1. str'[b] = NULL
    BY <1>1 DEF IInv, Places
  <2>. QED BY <1>5, <2>1, ValueIsNext
<1>9. BVal' = [BVal EXCEPT ![b] = BVal'[b]] /\ HVal' = HVal
  <2>1. \A d \in Buffers : d # b => str'[d] = str[d] /\ stack'[d] = stack[d]
    BY <1>1 DEF IInv, Places
  <2>. QED BY <1>1, <1>4, <1>5, <2>1, BufferSets DEF IInv
<1>. QED BY <1>1, <1>2, <1>7, <1>8, <1>9

-----------------------------------------------------------------------------
\* A reference that is obtained: the heap counts it, and keeps what it has.
LEMMA ObtainOK ==
    ASSUME IInv, NEW h \in Handles, handle[h] = NULL, NEW x \in Addresses, NEW n \in Texts,
           handle' = [handle EXCEPT ![h] = x], UNCHANGED <<str, stack>>,
           HeapOK(heap'), Counted(heap', Plus(Used, x)), StillThere(Used, heap, heap'),
           x \in Nodes => n = x,
           x \in Blocks => n = heap'[x].text
    PROVE  /\ IInv'
           /\ HVal[h] = NoText
           /\ HVal' = [HVal EXCEPT ![h] = n] /\ BVal' = BVal
<1>1. Places'
  BY DEF IInv, Places
<1>2. Used' = Plus(Used, x)
  <2>1. Used' = Plus(Minus(Used, handle[h]), x)
    BY HandleMoves DEF IInv
  <2>. QED BY <2>1, InUse
<1>3. IInv'
  BY <1>1, <1>2 DEF IInv
<1>4. HVal[h] = NoText
  BY DEF HVal
<1>5. HVal'[h] = n
  <2>1. handle'[h] = x
    BY DEF IInv, Places
  <2>. QED BY <1>1, <2>1, ValueIsNext DEF Addresses
<1>6. StillThere(Minus(Used, handle[h]), heap, heap')
  BY InUse
<1>7. \A g \in Handles : g # h => handle'[g] = handle[g]
  BY DEF IInv, Places
<1>8. HVal' = [HVal EXCEPT ![h] = HVal'[h]] /\ BVal' = BVal
  BY <1>1, <1>6, <1>7, HandleSets DEF IInv
<1>. QED BY <1>3, <1>4, <1>5, <1>8

LEMMA KeptThere ==
    ASSUME IInv, NEW hp, KeepsTexts(heap, hp), DOMAIN heap \subseteq DOMAIN hp
    PROVE  StillThere(Used, heap, hp)
  BY DEF IInv, Counted, KeepsTexts, StillThere

LEMMA GrabBufferOK ==
    ASSUME IInv, NEW b \in Buffers, NEW h \in Handles, GrabBuffer(b, h)
    PROVE  /\ IInv'
           /\ HVal[h] = NoText /\ BVal[b] \in Texts
           /\ HVal' = [HVal EXCEPT ![h] = BVal[b]] /\ BVal' = BVal
<1>1. /\ str[b] # NULL /\ handle[h] = NULL /\ Available(heap) # {}
      /\ UNCHANGED <<str, stack>>
  BY DEF GrabBuffer, Room
<1>2. BVal[b] \in Texts
  BY <1>1, ValueText
<1>3. HeapOK(heap) /\ Counted(heap, Used) /\ Places
  BY DEF IInv
<1>4. CASE str[b] = STACK
  <2>. DEFINE c == Clone(heap, stack[b])
  <2>1. handle' = [handle EXCEPT ![h] = c.addr] /\ heap' = c.heap
    BY <1>4 DEF GrabBuffer
  <2>2. BVal[b] = stack[b]
    BY <1>3, <1>4, ValueIs
  <2>3. /\ HeapOK(c.heap) /\ Counted(c.heap, Plus(Used, c.addr))
        /\ c.addr \in Addresses
        /\ c.addr \in Blocks => c.heap[c.addr].text = stack[b]
        /\ c.addr \in Nodes => c.addr = stack[b]
        /\ KeepsTexts(heap, c.heap) /\ DOMAIN heap \subseteq DOMAIN c.heap
    BY <1>1, <1>2, <1>3, <2>2, CloneOK
  <2>. HIDE DEF c
  <2>4. StillThere(Used, heap, heap')
    BY <2>1, <2>3, KeptThere
  <2>5. /\ HeapOK(heap') /\ Counted(heap', Plus(Used, c.addr))
        /\ c.addr \in Nodes => stack[b] = c.addr
        /\ c.addr \in Blocks => stack[b] = heap'[c.addr].text
    BY <2>1, <2>3
  <2>6. stack[b] \in Texts
    BY <1>2, <2>2
  <2>7. /\ IInv' /\ HVal[h] = NoText
        /\ HVal' = [HVal EXCEPT ![h] = stack[b]] /\ BVal' = BVal
    BY <1>1, <2>1, <2>3, <2>4, <2>5, <2>6, ObtainOK
  <2>. QED BY <1>2, <2>2, <2>7
<1>5. CASE str[b] # STACK
  <2>. DEFINE g == Grabbed(heap, str[b])
  <2>1. handle' = [handle EXCEPT ![h] = str[b]] /\ heap' = g
    BY <1>5 DEF GrabBuffer
  <2>2. str[b] \in Addresses /\ (str[b] \in Blocks => str[b] \in DOMAIN heap)
    BY <1>1, <1>5, InUse
  <2>3. /\ HeapOK(g) /\ Counted(g, Plus(Used, str[b]))
        /\ KeepsTexts(heap, g) /\ DOMAIN g = DOMAIN heap
    BY <1>3, <2>2, GrabbedOK
  <2>. HIDE DEF g
  <2>4. StillThere(Used, heap, heap')
    BY <2>1, <2>3, KeptThere
  <2>5. /\ str[b] \in Nodes => BVal[b] = str[b]
        /\ str[b] \in Blocks => BVal[b] = heap'[str[b]].text
    BY <1>3, <2>1, <2>2, <2>3, ValueIs DEF KeepsTexts
  <2>. QED BY <1>1, <1>2, <2>1, <2>2, <2>3, <2>4, <2>5, ObtainOK
<1>. QED BY <1>4, <1>5

LEMMA GrabHandleOK ==
    ASSUME IInv, NEW f \in Handles, NEW h \in Handles, GrabHandle(f, h)
    PROVE  /\ IInv'
           /\ HVal[h] = NoText /\ HVal[f] \in Texts
           /\ HVal' = [HVal EXCEPT ![h] = HVal[f]] /\ BVal' = BVal
<1>. DEFINE g == Grabbed(heap, handle[f])
<1>1. /\ handle[f] # NULL /\ handle[h] = NULL
      /\ handle' = [handle EXCEPT ![h] = handle[f]] /\ heap' = g
      /\ UNCHANGED <<str, stack>>
  BY DEF GrabHandle
<1>2. HVal[f] \in Texts
  BY <1>1, ValueText
<1>3. HeapOK(heap) /\ Counted(heap, Used) /\ Places
  BY DEF IInv
<1>4. handle[f] \in Addresses /\ (handle[f] \in Blocks => handle[f] \in DOMAIN heap)
  BY <1>1, InUse
<1>5. /\ HeapOK(g) /\ Counted(g, Plus(Used, handle[f]))
      /\ KeepsTexts(heap, g) /\ DOMAIN g = DOMAIN heap
  BY <1>3, <1>4, GrabbedOK
<1>. HIDE DEF g
<1>6. StillThere(Used, heap, heap')
  BY <1>1, <1>5, KeptThere
<1>7. /\ handle[f] \in Nodes => HVal[f] = handle[f]
      /\ handle[f] \in Blocks => HVal[f] = heap'[handle[f]].text
  BY <1>1, <1>3, <1>4, <1>5, ValueIs DEF KeepsTexts
<1>. QED BY <1>1, <1>2, <1>4, <1>5, <1>6, <1>7, ObtainOK

LEMMA PersistOK ==
    ASSUME IInv, NEW h \in Handles, NEW n \in Texts, Persist(h, n)
    PROVE  /\ IInv'
           /\ HVal[h] = NoText
           /\ HVal' = [HVal EXCEPT ![h] = n] /\ BVal' = BVal
<1>. DEFINE c == Clone(heap, n)
<1>1. /\ handle[h] = NULL /\ Available(heap) # {}
      /\ handle' = [handle EXCEPT ![h] = c.addr]
      /\ heap' = IF OnHeap(c.addr)
                 THEN [c.heap EXCEPT ![c.addr].type = PERMANENT, ![c.addr].ref = 0]
                 ELSE c.heap
      /\ UNCHANGED <<str, stack>>
  BY DEF Persist, Room
<1>2. /\ HeapOK(c.heap) /\ Counted(c.heap, Plus(Used, c.addr))
      /\ c.addr \in Addresses
      /\ c.addr \in Blocks => c.heap[c.addr].text = n
      /\ c.addr \in Nodes => c.addr = n
      /\ KeepsTexts(heap, c.heap) /\ DOMAIN heap \subseteq DOMAIN c.heap
  BY <1>1, CloneOK DEF IInv
<1>. HIDE DEF c
<1>3. CASE c.addr \in Nodes
  <2>1. heap' = c.heap /\ c.addr \notin Blocks
    BY <1>1, <1>3, Apart
  <2>2. StillThere(Used, heap, heap')
    BY <1>2, <2>1, KeptThere
  <2>. QED BY <1>1, <1>2, <2>1, <2>2, <1>3, ObtainOK
<1>4. CASE c.addr \in Blocks
  <2>. DEFINE p == c.addr
              d == [c.heap[p] EXCEPT !.type = PERMANENT, !.ref = 0]
  <2>1. OnHeap(p)
    BY <1>4, Apart
  <2>2. p \in DOMAIN c.heap /\ c.heap[p] \in Data
    <3>1. Used[p] \in Nat /\ Plus(Used, p)[p] = Used[p] + 1
      BY <1>4 DEF Plus, IInv, Counted
    <3>. QED BY <1>2, <1>4, <3>1 DEF HeapOK, Counted
  <2>3. heap' = [c.heap EXCEPT ![p] = d]
    <3>1. heap' = [c.heap EXCEPT ![p].type = PERMANENT, ![p].ref = 0]
      BY <1>1, <2>1
    <3>. QED BY <1>2, <2>2, <3>1 DEF HeapOK
  <2>4. d \in Data /\ d.type = PERMANENT /\ d.text = c.heap[p].text /\ HashRight(d)
    <3>1. HashRight(c.heap[p])
      BY <1>2, <2>2 DEF HeapOK
    <3>2. 0 \in 0 .. RefMod - 1
      BY BufferAssumption
    <3>. QED BY <2>2, <3>1, <3>2 DEF Data, HashRight, PERMANENT
  <2>. HIDE DEF p, d
  <2>5. /\ DOMAIN heap' = DOMAIN c.heap /\ heap' = [q \in DOMAIN heap' |-> heap'[q]]
        /\ \A q \in DOMAIN heap' : heap'[q] = IF q = p THEN d ELSE c.heap[q]
    BY <2>2, <2>3
  <2>6. HeapOK(heap')
    BY <1>2, <2>4, <2>5 DEF HeapOK, p
  <2>7. Counted(heap', Plus(Used, p))
    BY <1>2, <2>4, <2>5 DEF Counted, PERMANENT, p
  <2>8. KeepsTexts(heap, heap') /\ DOMAIN heap \subseteq DOMAIN heap'
    BY <1>2, <2>4, <2>5 DEF KeepsTexts
  <2>9. StillThere(Used, heap, heap')
    BY <2>8, KeptThere
  <2>10. heap'[p].text = n
    BY <1>2, <1>4, <2>2, <2>4, <2>5 DEF p
  <2>. QED BY <1>1, <1>2, <1>4, <2>6, <2>7, <2>9, <2>10, ObtainOK DEF p
<1>. QED BY <1>2, <1>3, <1>4 DEF Addresses

LEMMA ReleaseOK ==
    ASSUME IInv, NEW h \in Handles, Release(h)
    PROVE  /\ IInv'
           /\ HVal[h] # NoText
           /\ HVal' = [HVal EXCEPT ![h] = NoText] /\ BVal' = BVal
<1>. DEFINE r == Released(heap, handle[h])
<1>1. /\ handle[h] # NULL
      /\ handle' = [handle EXCEPT ![h] = NULL] /\ heap' = r
      /\ UNCHANGED <<str, stack>>
  BY DEF Release
<1>2. HVal[h] \in Texts /\ HVal[h] # NoText
  BY <1>1, ValueText, Apart
<1>3. /\ HeapOK(r) /\ Counted(r, Minus(Used, handle[h]))
      /\ KeepsTexts(heap, r) /\ DOMAIN r \subseteq DOMAIN heap
  <2>1. /\ HeapOK(heap) /\ Counted(heap, Used)
        /\ handle[h] \in Addresses \cup {NULL} /\ (handle[h] \in Blocks => Used[handle[h]] > 0)
    BY InUse DEF IInv
  <2>. QED BY <1>1, <2>1, ReleasedOK
<1>. HIDE DEF r
<1>4. StillThere(Minus(Used, handle[h]), heap, r)
  BY <1>3 DEF StillThere, Counted, KeepsTexts
<1>5. Places'
  BY <1>1 DEF IInv, Places
<1>6. Used' = Minus(Used, handle[h])
  <2>1. Used' = Minus(Plus(Used, NULL), handle[h])
    BY <1>1, HandleMoves DEF IInv
  <2>. QED BY <2>1, InUse
<1>7. IInv'
  BY <1>1, <1>3, <1>5, <1>6 DEF IInv
<1>8. HVal'[h] = NoText
  <2>1. handle'[h] = NULL
    BY <1>1 DEF IInv, Places
  <2>. QED BY <1>5, <2>1, ValueIsNext
<1>9. HVal' = [HVal EXCEPT ![h] = HVal'[h]] /\ BVal' = BVal
  <2>1. \A g \in Handles : g # h => handle'[g] = handle[g]
    BY <1>1 DEF IInv, Places
  <2>. QED BY <1>1, <1>4, <1>5, <2>1, HandleSets DEF IInv
<1>. QED BY <1>2, <1>7, <1>8, <1>9

\* No place changes, and no text: no value does.
LEMMA SameValues ==
    ASSUME IInv, UNCHANGED <<str, stack, handle>>,
           HeapOK(heap'), Counted(heap', Used), StillThere(Used, heap, heap')
    PROVE  IInv' /\ BVal' = BVal /\ HVal' = HVal
<1>1. Places'
  BY DEF IInv, Places
<1>2. Used' = Used
  BY DEF Used, Uses
<1>3. IInv'
  BY <1>1, <1>2 DEF IInv
<1>4. /\ \A b \in Buffers : BVal'[b] = BVal[b]
      /\ \A h \in Handles : HVal'[h] = HVal[h]
  BY <1>1, InUse, ValueIs, ValueIsNext DEF StillThere, Addresses, IInv
<1>5. /\ BVal = [c \in Buffers |-> BVal[c]] /\ BVal' = [c \in Buffers |-> BVal'[c]]
      /\ HVal = [h \in Handles |-> HVal[h]] /\ HVal' = [h \in Handles |-> HVal'[h]]
  BY DEF BVal, HVal
<1>. QED BY <1>3, <1>4, <1>5

LEMMA CacheHashOK ==
    ASSUME IInv, NEW p \in DOMAIN heap, CacheHash(p)
    PROVE  IInv' /\ BVal' = BVal /\ HVal' = HVal
<1>. DEFINE d == [heap[p] EXCEPT !.hash = HashOf(heap[p])]
<1>1. heap[p] \in Data /\ HashRight(heap[p]) /\ heap[p].hash = 0
  BY DEF IInv, HeapOK, CacheHash
<1>2. HashOf(heap[p]) = HashBlob(heap[p].text) /\ HashBlob(heap[p].text) \in 0 .. 2
  BY <1>1 DEF HashOf, HashBlob, Data, Texts
<1>3. heap' = [heap EXCEPT ![p] = d] /\ UNCHANGED <<str, stack, handle>>
  BY DEF CacheHash
<1>4. /\ d \in Data /\ d.text = heap[p].text /\ d.type = heap[p].type
      /\ d.ref = heap[p].ref /\ HashRight(d)
  BY <1>1, <1>2 DEF Data, HashRight
<1>. HIDE DEF d
<1>5. /\ DOMAIN heap' = DOMAIN heap /\ heap' = [q \in DOMAIN heap' |-> heap'[q]]
      /\ \A q \in DOMAIN heap' : heap'[q] = IF q = p THEN d ELSE heap[q]
  BY <1>3 DEF IInv, HeapOK
<1>6. HeapOK(heap')
  BY <1>4, <1>5 DEF IInv, HeapOK
<1>7. Counted(heap', Used)
  BY <1>4, <1>5 DEF IInv, Counted
<1>8. StillThere(Used, heap, heap')
  BY <1>4, <1>5 DEF IInv, Counted, StillThere
<1>. QED BY <1>3, <1>6, <1>7, <1>8, SameValues

-----------------------------------------------------------------------------
(* The invariant, and the theorems.                                        *)

LEMMA InitIInv == Init => IInv
<1>. SUFFICES ASSUME Init PROVE IInv
  OBVIOUS
<1>1. Places
  BY BufferAssumption DEF Init, Places
<1>2. HeapOK(heap) /\ DOMAIN heap = {}
  BY DEF Init, HeapOK
<1>3. \A p \in Blocks : Uses(p) = 0
  <2>1. \A p \in Blocks : p # NULL
    BY Apart DEF Addresses
  <2>2. \A p \in Blocks : {b \in Buffers : str[b] = p} = {} /\ {h \in Handles : handle[h] = p} = {}
    BY <2>1 DEF Init
  <2>. QED BY <2>2, FS_EmptySet DEF Uses
<1>. QED BY <1>1, <1>2, <1>3 DEF IInv, Counted, Used

LEMMA OpenOK ==
    ASSUME IInv, NEW b \in Buffers, Open(b)
    PROVE  IInv' /\ BVal[b] = NoText /\ BVal' = [BVal EXCEPT ![b] = 0] /\ HVal' = HVal
<1>1. 0 \in 0 .. StackSize - 1
  BY BufferAssumption
<1>2. BVal[b] = NoText
  BY DEF Open, BVal
<1>. QED BY <1>1, <1>2, StackOK DEF Open

LEMMA CatOnStackOK ==
    ASSUME IInv, NEW b \in Buffers, NEW n \in Texts, CatOnStack(b, n)
    PROVE  /\ IInv'
           /\ BVal[b] # NoText /\ BVal[b] + n \in Texts
           /\ BVal' = [BVal EXCEPT ![b] = BVal[b] + n] /\ HVal' = HVal
<1>1. /\ str[b] = STACK /\ stack[b] + n < StackSize - 1
      /\ stack' = [stack EXCEPT ![b] = stack[b] + n] /\ UNCHANGED <<str, heap, handle>>
  BY DEF CatOnStack, FitsStack
<1>2. stack[b] \in 0 .. StackSize - 1 /\ BVal[b] = stack[b]
  BY <1>1, ValueIs DEF IInv, Places
<1>3. stack[b] + n \in 0 .. StackSize - 1 /\ stack[b] + n \in Texts
  BY <1>1, <1>2, BufferAssumption DEF Texts
<1>4. str' = [str EXCEPT ![b] = STACK]
  BY <1>1 DEF IInv, Places
<1>5. BVal[b] # NoText
  BY <1>2, BufferAssumption
<1>. QED BY <1>1, <1>2, <1>3, <1>4, <1>5, StackOK

LEMMA PrintfOnStackOK ==
    ASSUME IInv, NEW b \in Buffers, NEW n \in Texts, PrintfOnStack(b, n)
    PROVE  IInv' /\ BVal[b] # NoText /\ BVal' = [BVal EXCEPT ![b] = n] /\ HVal' = HVal
<1>1. /\ str[b] = STACK /\ n \in 0 .. StackSize - 1
      /\ stack' = [stack EXCEPT ![b] = n] /\ UNCHANGED <<str, heap, handle>>
  BY BufferAssumption DEF PrintfOnStack, Texts
<1>2. stack[b] \in 0 .. StackSize - 1 /\ BVal[b] = stack[b]
  BY <1>1, ValueIs DEF IInv, Places
<1>3. str' = [str EXCEPT ![b] = STACK]
  BY <1>1 DEF IInv, Places
<1>4. BVal[b] # NoText
  BY <1>2, BufferAssumption
<1>. QED BY <1>1, <1>3, <1>4, StackOK

\* The values BVal and HVal are those that StringValues is about.
LEMMA ValuesAre ==
    /\ \A b \in Buffers :
         /\ BVal[b] = NoText /\ BVal' = [BVal EXCEPT ![b] = 0] /\ HVal' = HVal => Values!Open(b)
         /\ BVal[b] # NoText /\ BVal' = [BVal EXCEPT ![b] = NoText] /\ HVal' = HVal
              => Values!Close(b)
         /\ \A n \in Texts :
              /\ BVal[b] # NoText /\ BVal[b] + n \in Texts
                   /\ BVal' = [BVal EXCEPT ![b] = BVal[b] + n] /\ HVal' = HVal
                 => Values!Cat(b, n)
              /\ BVal[b] # NoText /\ BVal' = [BVal EXCEPT ![b] = n] /\ HVal' = HVal
                 => Values!Printf(b, n)
    /\ \A h \in Handles :
         /\ HVal[h] # NoText /\ HVal' = [HVal EXCEPT ![h] = NoText] /\ BVal' = BVal
              => Values!Release(h)
         /\ \A n \in Texts :
              HVal[h] = NoText /\ HVal' = [HVal EXCEPT ![h] = n] /\ BVal' = BVal
                => Values!Obtain(h, n)
BY DEF Values!Open, Values!Close, Values!Cat, Values!Printf, Values!Release, Values!Obtain,
       Values!Texts, Texts, BVal, HVal

\* Every call implements one of StringValues, but the caching of a hash,
\* which changes no value.
LEMMA Step ==
    ASSUME IInv, [Next]_vars
    PROVE  IInv' /\ (Values!Next \/ (BVal' = BVal /\ HVal' = HVal))
<1>1. ASSUME NEW b \in Buffers, Open(b) \/ Close(b)
      PROVE  IInv' /\ (Values!Open(b) \/ Values!Close(b))
  BY <1>1, OpenOK, CloseOK, ValuesAre
<1>2. ASSUME NEW b \in Buffers, NEW n \in Texts,
             \/ CatOnStack(b, n) \/ CatMoves(b, n)
             \/ PrintfOnStack(b, n) \/ PrintfMoves(b, n)
      PROVE  IInv' /\ (Values!Cat(b, n) \/ Values!Printf(b, n))
  BY <1>2, CatOnStackOK, CatMovesOK, PrintfOnStackOK, PrintfMovesOK, ValuesAre
<1>3. ASSUME NEW b \in Buffers, NEW h \in Handles, GrabBuffer(b, h)
      PROVE  IInv' /\ \E n \in Texts : Values!Obtain(h, n)
  BY <1>3, GrabBufferOK, ValuesAre
<1>4. ASSUME NEW h \in Handles, Release(h)
      PROVE  IInv' /\ Values!Release(h)
  BY <1>4, ReleaseOK, ValuesAre
<1>5. ASSUME NEW g \in Handles, NEW h \in Handles, GrabHandle(g, h)
      PROVE  IInv' /\ \E n \in Texts : Values!Obtain(h, n)
  BY <1>5, GrabHandleOK, ValuesAre
<1>6. ASSUME NEW h \in Handles, NEW n \in Texts, Persist(h, n)
      PROVE  IInv' /\ Values!Obtain(h, n)
  BY <1>6, PersistOK, ValuesAre
<1>7. ASSUME NEW p \in DOMAIN heap, CacheHash(p)
      PROVE  IInv' /\ BVal' = BVal /\ HVal' = HVal
  BY <1>7, CacheHashOK
<1>8. ASSUME UNCHANGED vars PROVE IInv' /\ BVal' = BVal /\ HVal' = HVal
  <2>1. HeapOK(heap') /\ Counted(heap', Used) /\ StillThere(Used, heap, heap')
    BY <1>8 DEF vars, IInv, Counted, StillThere
  <2>. QED BY <1>8, <2>1, SameValues DEF vars
<1>9. ASSUME Next PROVE IInv' /\ (Values!Next \/ (BVal' = BVal /\ HVal' = HVal))
  <2>1. Values!Texts = Texts
    BY DEF Values!Texts, Texts
  <2>2. CASE \E b \in Buffers : Open(b) \/ Close(b)
    BY <1>1, <2>2 DEF Values!Next
  <2>3. CASE \E b \in Buffers, n \in Texts :
                \/ CatOnStack(b, n) \/ CatMoves(b, n)
                \/ PrintfOnStack(b, n) \/ PrintfMoves(b, n)
    BY <1>2, <2>1, <2>3 DEF Values!Next
  <2>4. CASE \E b \in Buffers, h \in Handles : GrabBuffer(b, h)
    BY <1>3, <2>1, <2>4 DEF Values!Next
  <2>5. CASE \E h \in Handles : Release(h)
    BY <1>4, <2>5 DEF Values!Next
  <2>6. CASE \E g, h \in Handles : GrabHandle(g, h)
    BY <1>5, <2>1, <2>6 DEF Values!Next
  <2>7. CASE \E h \in Handles, n \in Texts : Persist(h, n)
    BY <1>6, <2>1, <2>7 DEF Values!Next
  <2>8. CASE \E p \in DOMAIN heap : CacheHash(p)
    BY <1>7, <2>8
  <2>. QED BY <1>9, <2>2, <2>3, <2>4, <2>5, <2>6, <2>7, <2>8 DEF Next
<1>. QED BY <1>8, <1>9

\* Typing: every place holds an address, and the heap well formed strings.
THEOREM Typing == Spec => []TypeOK
<1>1. Init => IInv
  BY InitIInv
<1>2. IInv /\ [Next]_vars => IInv'
  BY Step
<1>3. IInv => TypeOK
  <2>1. Addresses \cup {STACK, NULL} = Nodes \cup Blocks \cup {STACK, NULL}
        /\ Addresses \cup {NULL} = Nodes \cup Blocks \cup {NULL}
    BY DEF Addresses
  <2>. QED BY <2>1 DEF IInv, Places, HeapOK, TypeOK
<1>. QED BY <1>1, <1>2, <1>3, PTL DEF Spec

\* No buffer and no reference ever points at a freed string.
THEOREM NothingDangles == Spec => []NoDangling
<1>1. Init => IInv
  BY InitIInv
<1>2. IInv /\ [Next]_vars => IInv'
  BY Step
<1>3. IInv => NoDangling
  BY InUse, Apart DEF NoDangling, Addresses
<1>. QED BY <1>1, <1>2, <1>3, PTL DEF Spec

\* The count of a string that is neither permanent nor wrapped is the number
\* of buffers and references that use it.
THEOREM CountsExact == Spec => []CountsUses
<1>1. Init => IInv
  BY InitIInv
<1>2. IInv /\ [Next]_vars => IInv'
  BY Step
<1>3. IInv => CountsUses
  BY DEF IInv, Counted, CountsUses, Used, HeapOK
<1>. QED BY <1>1, <1>2, <1>3, PTL DEF Spec

\* A string as cstring_equal sees it: one address has one text, and the hash
\* is that of the text, whether or not it is cached.
Seen(v) ==
    /\ HashOf(v) = HashBlob(v.text)
    /\ \/ /\ v.type = ONSTACK
          /\ \E b \in Buffers : v.addr = <<b>> /\ v.text = stack[b] /\ v.hash = stack[b]
       \/ /\ v.type \in {0, PERMANENT}
          /\ \E p \in Blocks : v.addr = <<p>> /\ v.text = heap[p].text
       \/ v.type = INTERNING /\ v.text \in Nodes /\ v.addr = <<v.text>>

LEMMA SeenStack ==
    ASSUME NEW b \in Buffers PROVE Seen(View(b, STACK))
<1>. DEFINE v == View(b, STACK)
<1>1. v = [addr |-> <<b>>, type |-> ONSTACK, text |-> stack[b], hash |-> stack[b]]
  BY Apart DEF View
<1>2. v.addr = <<b>> /\ v.type = ONSTACK /\ v.text = stack[b] /\ v.hash = stack[b]
  BY <1>1
<1>. HIDE DEF v
<1>3. HashOf(v) = HashBlob(v.text)
  BY <1>2 DEF HashOf
<1>4. Seen(v)
  BY <1>2, <1>3 DEF Seen
<1>. QED BY <1>4 DEF v

LEMMA SeenHeap ==
    ASSUME HeapOK(heap), NEW b, NEW a \in Blocks, a \in DOMAIN heap PROVE Seen(View(b, a))
<1>. DEFINE v == View(b, a)
<1>1. v = [addr |-> <<a>>, type |-> heap[a].type, text |-> heap[a].text, hash |-> heap[a].hash]
  BY Apart DEF View, Addresses
<1>2. heap[a] \in Data /\ HashRight(heap[a])
  BY DEF HeapOK
<1>3. /\ v.addr = <<a>> /\ v.text = heap[a].text
      /\ v.type = heap[a].type /\ v.hash = heap[a].hash
  BY <1>1
<1>. HIDE DEF v
<1>4. v.type \in {0, PERMANENT} /\ v.type # ONSTACK
  BY <1>2, <1>3 DEF Data, PERMANENT, ONSTACK
<1>5. HashOf(v) = HashBlob(v.text)
  BY <1>2, <1>3, <1>4 DEF HashOf, HashRight
<1>6. Seen(v)
  BY <1>3, <1>4, <1>5 DEF Seen
<1>. QED BY <1>6 DEF v

LEMMA SeenNode ==
    ASSUME NEW b, NEW a \in Nodes PROVE Seen(View(b, a))
<1>. DEFINE v == View(b, a)
<1>1. v = [addr |-> <<a>>, type |-> INTERNING, text |-> a, hash |-> HashBlob(a)]
  BY Apart DEF View, Addresses
<1>2. v.addr = <<a>> /\ v.type = INTERNING /\ v.text = a /\ v.hash = HashBlob(a)
  BY <1>1
<1>. HIDE DEF v
<1>3. HashOf(v) = HashBlob(v.text)
  <2>1. HashBlob(a) # 0
    BY BufferAssumption DEF HashBlob, Nodes
  <2>. QED BY <1>2, <2>1 DEF HashOf, INTERNING, ONSTACK
<1>4. Seen(v)
  BY <1>2, <1>3 DEF Seen
<1>. QED BY <1>4 DEF v

LEMMA SeenEqual ==
    ASSUME NEW x, NEW y, Seen(x), Seen(y)
    PROVE  CEqual(x, y) <=> x.text = y.text
<1>1. ASSUME x.addr = y.addr PROVE x.text = y.text
  <2>1. /\ \/ \E b \in Buffers : x.addr = <<b>> /\ x.text = stack[b]
           \/ \E p \in Blocks : x.addr = <<p>> /\ x.text = heap[p].text
           \/ x.text \in Nodes /\ x.addr = <<x.text>>
        /\ \/ \E b \in Buffers : y.addr = <<b>> /\ y.text = stack[b]
           \/ \E p \in Blocks : y.addr = <<p>> /\ y.text = heap[p].text
           \/ y.text \in Nodes /\ y.addr = <<y.text>>
    BY DEF Seen
  <2>2. /\ \A a, c : <<a>> = <<c>> => a = c
        /\ \A b \in Buffers : b \notin Blocks /\ b \notin Nodes
        /\ \A p \in Blocks : p \notin Nodes
    BY Apart, BufferAssumption
  <2>3. CASE \E b \in Buffers : x.addr = <<b>> /\ x.text = stack[b]
    BY <1>1, <2>1, <2>2, <2>3
  <2>4. CASE \E p \in Blocks : x.addr = <<p>> /\ x.text = heap[p].text
    BY <1>1, <2>1, <2>2, <2>4
  <2>5. CASE x.text \in Nodes /\ x.addr = <<x.text>>
    BY <1>1, <2>1, <2>2, <2>5
  <2>. QED BY <2>1, <2>3, <2>4, <2>5
<1>2. x.type = INTERNING /\ y.type = INTERNING /\ x.text = y.text => x.addr = y.addr
  BY DEF Seen, INTERNING, ONSTACK, PERMANENT
<1>3. x.type = ONSTACK /\ y.type = ONSTACK => x.hash = x.text /\ y.hash = y.text
  BY DEF Seen, INTERNING, ONSTACK, PERMANENT
<1>4. HashOf(x) = HashBlob(x.text) /\ HashOf(y) = HashBlob(y.text)
  BY DEF Seen
<1>. QED BY <1>1, <1>2, <1>3, <1>4 DEF CEqual

\* cstring_equal compares texts.
THEOREM EqualIsTexts == Spec => []EqualComparesTexts
<1>1. Init => IInv
  BY InitIInv
<1>2. IInv /\ [Next]_vars => IInv'
  BY Step
<1>3. IInv => EqualComparesTexts
  <2>. SUFFICES ASSUME IInv PROVE EqualComparesTexts
    OBVIOUS
  <2>. DEFINE strings == {View(b, str[b]) : b \in {c \in Buffers : str[c] # NULL}}
                         \cup {View(NULL, a) : a \in {handle[h] : h \in Handles} \ {NULL}}
  <2>1. ASSUME NEW b \in Buffers, str[b] # NULL PROVE Seen(View(b, str[b]))
    BY <2>1, InUse, SeenStack, SeenHeap, SeenNode DEF IInv, Addresses
  <2>2. ASSUME NEW h \in Handles, handle[h] # NULL PROVE Seen(View(NULL, handle[h]))
    BY <2>2, InUse, SeenHeap, SeenNode DEF IInv, Addresses
  <2>3. \A x \in strings : Seen(x)
    BY <2>1, <2>2
  <2>4. \A x, y \in strings : CEqual(x, y) <=> x.text = y.text
    BY <2>3, SeenEqual
  <2>. QED BY <2>4 DEF EqualComparesTexts
<1>. QED BY <1>1, <1>2, <1>3, PTL DEF Spec

\* Sharing, moving and counting cannot be seen: the library implements
\* StringValues, call by call.
THEOREM Refinement == Spec => ValueSemantics
<1>1. Init => IInv
  BY InitIInv
<1>2. IInv /\ [Next]_vars => IInv'
  BY Step
<1>3. Init => Values!Init
  BY DEF Init, Values!Init
<1>4. IInv /\ [Next]_vars => [Values!Next]_(Values!vars)
  BY Step DEF Values!vars, BVal, HVal
<1>. QED BY <1>1, <1>2, <1>3, <1>4, PTL DEF Spec, ValueSemantics, Values!Spec
=============================================================================

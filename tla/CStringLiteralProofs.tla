------------------------ MODULE CStringLiteralProofs ------------------------
(***************************************************************************)
(* Proofs about the interning pool and the literals that come from it, for *)
(* any number of threads, any set of names, any hash function and any      *)
(* number of literals.                                                     *)
(*                                                                         *)
(* First the pool by itself (CStringIntern): the lock excludes, a name has *)
(* one node, and the pool is not overrun as long as there are no more      *)
(* names than nodes.  Then the literals (CStringLiteral): the pool works   *)
(* in a program with literals as it does alone, a literal is written once, *)
(* and no string is freed while a literal holds it, nor lost.              *)
(***************************************************************************)
EXTENDS CStringLiteral, FunctionTheorems, FiniteSetTheorems, TLAPS

-----------------------------------------------------------------------------
\* Every node has been chained in the bucket of its name, and no two nodes
\* have the same name.
TableOK ==
    /\ \A s \in 0 .. index - 1 :
        /\ size > 0
        /\ s \in chain[BucketOf(name[s], size)]
    /\ \A r, s \in 0 .. index - 1 : name[r] = name[s] => r = s
    /\ ~pool => index = 0

\* What a thread knows where it is: only the holder of the lock changes the
\* table, so what it has found out stays true.
PcOK(t) ==
    /\ pc[t] # "idle" => want[t] \in Names
    /\ pc[t] = "expand" => size = 0
    /\ pc[t] = "second" => size > 0
    /\ pc[t] = "insert" =>
        /\ size > 0 /\ pool
        /\ bucket[t] = BucketOf(want[t], size)
        /\ \A s \in 0 .. index - 1 : name[s] # want[t]
    /\ pc[t] \in {"unlock", "ret"} =>
        got[t] \in 0 .. index - 1 /\ name[got[t]] = want[t]

KnownOK == \A n \in Names : \A s \in known[n] : name[s] = n

IInv ==
    /\ TypeOK
    /\ MutualExclusion
    /\ TableOK
    /\ \A t \in Threads : PcOK(t)
    /\ KnownOK

-----------------------------------------------------------------------------
LEMMA ModRange ==
    ASSUME NEW a \in Nat, NEW m \in Nat, m > 0
    PROVE  a % m \in 0 .. m - 1
  BY SMT

LEMMA BucketRange ==
    ASSUME TypeOK, size > 0, NEW n \in Names
    PROVE  BucketOf(n, size) \in 0 .. size - 1
  BY InternAssumption, ModRange DEF BucketOf, TypeOK

\* total is 0 for ever, so a table that exists never refuses a name.
LEMMA NeverFull ==
    ASSUME TypeOK, NEW n \in Names
    PROVE  Refused(n) <=> size = 0
  BY DEF TypeOK, Refused, Full

\* A name with a node is found by looking in its bucket.
LEMMA MatchFinds ==
    ASSUME TypeOK, TableOK, size > 0, NEW n \in Names
    PROVE  /\ \A s \in Match(n) : s \in 0 .. index - 1 /\ name[s] = n
           /\ Match(n) = {} => \A s \in 0 .. index - 1 : name[s] # n
  BY BucketRange DEF TypeOK, TableOK, Match, SameHash

LEMMA InitIInv == Init => IInv
<1>. SUFFICES ASSUME Init PROVE IInv
  OBVIOUS
<1>. USE InternAssumption DEF Init
<1>1. TypeOK
  <2>1. chain \in [0 .. size - 1 -> SUBSET (0 .. index - 1)]
    OBVIOUS
  <2>2. name \in [0 .. index - 1 -> Names]
    OBVIOUS
  <2>3. /\ lock \in {0, 1} /\ size \in Nat /\ index \in Nat
        /\ total = 0 /\ pool \in BOOLEAN
    OBVIOUS
  <2>4. pc \in [Threads -> PCs] /\ want \in [Threads -> Names \cup {NoName}]
    BY DEF PCs
  <2>5. bucket \in [Threads -> 0 .. size]
    OBVIOUS
  <2>6. /\ got \in [Threads -> 0 .. index - 1 \cup {NULL}]
        /\ known \in [Names -> SUBSET (0 .. index - 1)]
    OBVIOUS
  <2>. QED
    BY <2>1, <2>2, <2>3, <2>4, <2>5, <2>6 DEF TypeOK
<1>2. MutualExclusion /\ TableOK /\ KnownOK
  BY DEF MutualExclusion, TableOK, KnownOK, Critical
<1>3. \A t \in Threads : PcOK(t)
  BY DEF PcOK
<1>. QED
  BY <1>1, <1>2, <1>3 DEF IInv

-----------------------------------------------------------------------------
\* The steps that leave the table alone keep what is known of it.
LEMMA SameTable ==
    ASSUME TableOK, KnownOK, UNCHANGED <<table, known>>
    PROVE  TableOK' /\ KnownOK'
  BY DEF TableOK, KnownOK, BucketOf, table

\* A thread that holds the lock is the only one that does, and while it does
\* not give it up, it stays so.
LEMMA LockKept ==
    ASSUME TypeOK, MutualExclusion, NEW t \in Threads, pc[t] \in Critical,
           NEW l \in Critical, pc' = [pc EXCEPT ![t] = l], UNCHANGED lock
    PROVE  MutualExclusion'
  BY DEF MutualExclusion, TypeOK

LEMMA StepIInv ==
    ASSUME IInv, [Next]_vars
    PROVE  IInv'
<1>. USE InternAssumption
<1>a. /\ TypeOK /\ MutualExclusion /\ TableOK /\ KnownOK
      /\ \A u \in Threads : PcOK(u)
  BY DEF IInv
<1>1. ASSUME NEW t \in Threads, NEW n \in Names, Call(t, n) PROVE IInv'
  <2>. USE <1>1 DEF Call, Goto
  <2>1. TypeOK'
    BY <1>a DEF TypeOK, PCs, table
  <2>2. MutualExclusion'
    BY <1>a DEF MutualExclusion, Critical, TypeOK
  <2>3. TableOK' /\ KnownOK'
    BY <1>a, SameTable
  <2>4. \A u \in Threads : PcOK(u)'
    BY <1>a DEF PcOK, TypeOK, BucketOf, table
  <2>. QED
    BY <2>1, <2>2, <2>3, <2>4 DEF IInv
<1>2. ASSUME NEW t \in Threads, Lock(t) PROVE IInv'
  <2>. USE <1>2 DEF Lock, Goto
  <2>1. TypeOK'
    BY <1>a DEF TypeOK, PCs, table
  <2>2. MutualExclusion'
    BY <1>a DEF MutualExclusion, Critical, TypeOK
  <2>3. TableOK' /\ KnownOK'
    BY <1>a, SameTable
  <2>4. \A u \in Threads : PcOK(u)'
    BY <1>a DEF PcOK, TypeOK, BucketOf, table
  <2>. QED
    BY <2>1, <2>2, <2>3, <2>4 DEF IInv
<1>3. ASSUME NEW t \in Threads, LookFound(t) PROVE IInv'
  <2>. USE <1>3 DEF LookFound, Goto, Looking
  <2>1. want[t] \in Names /\ size > 0
    BY <1>a, NeverFull DEF PcOK, TypeOK
  <2>2. \A s \in Match(want[t]) : s \in 0 .. index - 1 /\ name[s] = want[t]
    BY <1>a, <2>1, MatchFinds
  <2>3. TypeOK'
    BY <1>a, <2>2 DEF TypeOK, PCs, table
  <2>4. MutualExclusion'
    BY <1>a, LockKept DEF Critical
  <2>5. TableOK' /\ KnownOK'
    BY <1>a, SameTable
  <2>6. \A u \in Threads : PcOK(u)'
    BY <1>a, <2>2 DEF PcOK, TypeOK, BucketOf, table
  <2>. QED
    BY <2>3, <2>4, <2>5, <2>6 DEF IInv
<1>4. ASSUME NEW t \in Threads, LookAbsent(t) PROVE IInv'
  <2>. USE <1>4 DEF LookAbsent, Goto, Looking
  <2>1. want[t] \in Names /\ size > 0
    BY <1>a, NeverFull DEF PcOK, TypeOK
  <2>2. \A s \in 0 .. index - 1 : name[s] # want[t]
    BY <1>a, <2>1, MatchFinds
  <2>3. BucketOf(want[t], size) \in 0 .. size - 1
    BY <1>a, <2>1, BucketRange
  <2>4. index' = index
    BY <1>a DEF TableOK
  <2>5. TypeOK'
    BY <1>a, <2>3, <2>4 DEF TypeOK, PCs
  <2>6. MutualExclusion'
    BY <1>a, LockKept DEF Critical
  <2>7. TableOK' /\ KnownOK'
    BY <1>a, <2>4 DEF TableOK, KnownOK, BucketOf
  <2>8. \A u \in Threads : PcOK(u)'
    BY <1>a, <2>1, <2>2, <2>4 DEF PcOK, TypeOK, BucketOf
  <2>. QED
    BY <2>5, <2>6, <2>7, <2>8 DEF IInv
<1>5. ASSUME NEW t \in Threads, LookRefused(t) PROVE IInv'
  <2>. USE <1>5 DEF LookRefused, Goto, Looking
  <2>1. want[t] \in Names /\ size = 0 /\ pc[t] = "first"
    BY <1>a, NeverFull DEF PcOK, TypeOK
  <2>2. TypeOK'
    BY <1>a, <2>1 DEF TypeOK, PCs, table
  <2>3. MutualExclusion'
    BY <1>a, <2>1, LockKept DEF Critical
  <2>4. TableOK' /\ KnownOK'
    BY <1>a, SameTable
  <2>5. \A u \in Threads : PcOK(u)'
    BY <1>a, <2>1 DEF PcOK, TypeOK, BucketOf, table
  <2>. QED
    BY <2>2, <2>3, <2>4, <2>5 DEF IInv
<1>6. ASSUME NEW t \in Threads, Insert(t) PROVE IInv'
  <2>. USE <1>6 DEF Insert, Goto
  <2>1. /\ want[t] \in Names /\ size > 0 /\ pool
        /\ bucket[t] = BucketOf(want[t], size)
        /\ \A s \in 0 .. index - 1 : name[s] # want[t]
    BY <1>a DEF PcOK
  <2>2. index \in Nat /\ index' = index + 1 /\ index' - 1 = index
    BY <1>a DEF TypeOK
  <2>3. /\ name'[index] = want[t]
        /\ \A s \in 0 .. index - 1 : name'[s] = name[s]
        /\ name' \in [0 .. index' - 1 -> Names]
    BY <1>a, <2>1, <2>2 DEF TypeOK
  <2>4. bucket[t] \in 0 .. size - 1
    BY <1>a, <2>1, BucketRange
  <2>5. /\ chain' \in [0 .. size - 1 -> SUBSET (0 .. index' - 1)]
        /\ \A b \in 0 .. size - 1 : chain[b] \subseteq chain'[b]
        /\ index \in chain'[bucket[t]]
    BY <1>a, <2>2, <2>4 DEF TypeOK
  <2>6. /\ got' \in [Threads -> 0 .. index' - 1 \cup {NULL}]
        /\ known' \in [Names -> SUBSET (0 .. index' - 1)]
    BY <1>a, <2>2 DEF TypeOK
  <2>7. TypeOK'
    BY <1>a, <2>2, <2>3, <2>5, <2>6 DEF TypeOK, PCs
  <2>8. MutualExclusion'
    BY <1>a, LockKept DEF Critical
  <2>9. TableOK'
    <3>1. ASSUME NEW s \in 0 .. index' - 1
          PROVE  s \in chain'[BucketOf(name'[s], size)]
      <4>1. CASE s = index
        BY <4>1, <2>1, <2>3, <2>5
      <4>2. CASE s # index
        <5>1. s \in 0 .. index - 1
          BY <4>2, <2>2
        <5>2. /\ s \in chain[BucketOf(name[s], size)]
              /\ BucketOf(name[s], size) \in 0 .. size - 1
          BY <1>a, <5>1, <2>1, BucketRange DEF TableOK, TypeOK
        <5>. QED
          BY <5>1, <5>2, <2>3, <2>5
      <4>. QED
        BY <4>1, <4>2
    <3>2. ASSUME NEW r \in 0 .. index' - 1, NEW s \in 0 .. index' - 1,
                 name'[r] = name'[s]
          PROVE  r = s
      <4>1. CASE r \in 0 .. index - 1 /\ s \in 0 .. index - 1
        BY <4>1, <1>a, <3>2, <2>3 DEF TableOK
      <4>2. CASE r \in 0 .. index - 1 /\ s = index
        BY <4>2, <3>2, <2>1, <2>3
      <4>3. CASE r = index /\ s \in 0 .. index - 1
        BY <4>3, <3>2, <2>1, <2>3
      <4>. QED
        BY <4>1, <4>2, <4>3, <2>2
    <3>. QED
      BY <3>1, <3>2, <2>1 DEF TableOK, BucketOf
  <2>10. KnownOK'
    BY <1>a, <2>3 DEF KnownOK, TypeOK
  <2>11. \A u \in Threads : PcOK(u)'
    <3>. SUFFICES ASSUME NEW u \in Threads PROVE PcOK(u)'
      OBVIOUS
    <3>1. CASE u = t
      BY <3>1, <1>a, <2>1, <2>2, <2>3 DEF PcOK, TypeOK
    <3>2. CASE u # t
      <4>1. pc[u] \notin Critical
        BY <3>2, <1>a DEF MutualExclusion, Critical
      <4>2. PcOK(u) /\ pc'[u] = pc[u] /\ got'[u] = got[u] /\ want' = want
        BY <3>2, <1>a DEF TypeOK
      <4>. QED
        BY <4>1, <4>2, <2>2, <2>3 DEF PcOK, Critical
    <3>. QED
      BY <3>1, <3>2
  <2>. QED
    BY <2>7, <2>8, <2>9, <2>10, <2>11 DEF IInv
<1>7. ASSUME NEW t \in Threads, Expand(t) PROVE IInv'
  <2>. USE <1>7 DEF Expand, Goto
  <2>1. size = 0 /\ want[t] \in Names
    BY <1>a DEF PcOK
  <2>2. index = 0 /\ index' = 0
    <3>1. index # 0 => 0 \in 0 .. index - 1
      BY <1>a DEF TypeOK
    <3>2. 0 \notin 0 .. index - 1
      BY <1>a, <2>1 DEF TableOK
    <3>. QED
      BY <3>1, <3>2
  <2>3. size' \in Nat /\ size' > 0
    BY <2>1 DEF NewSize
  <2>4. chain' \in [0 .. size' - 1 -> SUBSET (0 .. index' - 1)]
    <3>1. DOMAIN chain = {}
      BY <1>a, <2>1 DEF TypeOK
    <3>2. UNION {chain[c] : c \in DOMAIN chain} = {}
      BY <3>1
    <3>. QED
      BY <3>2
  <2>5. bucket' \in [Threads -> 0 .. size']
    BY <1>a, <2>1, <2>3 DEF TypeOK
  <2>6. TypeOK'
    BY <1>a, <2>3, <2>4, <2>5 DEF TypeOK, PCs
  <2>7. MutualExclusion'
    BY <1>a, LockKept DEF Critical
  <2>8. TableOK' /\ KnownOK'
    BY <1>a, <2>2 DEF TableOK, KnownOK, TypeOK
  <2>9. \A u \in Threads : PcOK(u)'
    BY <1>a, <2>3 DEF PcOK, TypeOK, MutualExclusion, Critical
  <2>. QED
    BY <2>6, <2>7, <2>8, <2>9 DEF IInv
<1>8. ASSUME NEW t \in Threads, Unlock(t) PROVE IInv'
  <2>. USE <1>8 DEF Unlock, Goto
  <2>1. TypeOK'
    BY <1>a DEF TypeOK, PCs, table
  <2>2. MutualExclusion'
    BY <1>a DEF MutualExclusion, Critical, TypeOK
  <2>3. TableOK' /\ KnownOK'
    BY <1>a, SameTable
  <2>4. \A u \in Threads : PcOK(u)'
    BY <1>a DEF PcOK, TypeOK, BucketOf, table
  <2>. QED
    BY <2>1, <2>2, <2>3, <2>4 DEF IInv
<1>9. ASSUME NEW t \in Threads, Return(t) PROVE IInv'
  <2>. USE <1>9 DEF Return, Goto
  <2>1. /\ want[t] \in Names
        /\ got[t] \in 0 .. index - 1 /\ name[got[t]] = want[t]
    BY <1>a DEF PcOK
  <2>2. /\ index' = index /\ name' = name /\ size' = size
        /\ chain' = chain /\ pool' = pool /\ total' = total
    BY DEF table
  <2>3. known' \in [Names -> SUBSET (0 .. index - 1)]
    BY <1>a, <2>1 DEF TypeOK
  <2>4. bucket' \in [Threads -> 0 .. size]
    BY <1>a DEF TypeOK
  <2>5. TypeOK'
    BY <1>a, <2>2, <2>3, <2>4 DEF TypeOK, PCs
  <2>6. MutualExclusion'
    BY <1>a DEF MutualExclusion, Critical, TypeOK
  <2>7. TableOK'
    BY <1>a, <2>2 DEF TableOK, BucketOf
  <2>8. KnownOK'
    BY <1>a, <2>1, <2>2 DEF KnownOK, TypeOK
  <2>9. \A u \in Threads : PcOK(u)'
    BY <1>a, <2>2 DEF PcOK, TypeOK, BucketOf
  <2>. QED
    BY <2>5, <2>6, <2>7, <2>8, <2>9 DEF IInv
<1>10. ASSUME UNCHANGED vars PROVE IInv'
  BY <1>a, <1>10 DEF IInv, vars, table, TypeOK, MutualExclusion, TableOK,
                     KnownOK, PcOK, BucketOf
<1>. QED
  BY <1>1, <1>2, <1>3, <1>4, <1>5, <1>6, <1>7, <1>8, <1>9, <1>10
     DEF Next, Step

-----------------------------------------------------------------------------
LEMMA Inductive == Spec => []IInv
<1>. QED
  BY InitIInv, StepIInv, PTL DEF Spec

\* Every variable keeps the type the declarations of cstring.c give it.
THEOREM Typing == Spec => []TypeOK
<1>1. IInv => TypeOK
  BY DEF IInv
<1>. QED
  BY <1>1, Inductive, PTL

\* Two threads are never both between LOCK and UNLOCK in cstring_interning.
THEOREM Exclusion == Spec => []MutualExclusion
<1>1. IInv => MutualExclusion
  BY DEF IInv
<1>. QED
  BY <1>1, Inductive, PTL

\* The test of cstring_equal is right: over a whole run, two strings the
\* pool returns have the same address exactly when they have the same text.
THEOREM EqualAddresses == Spec => []PointerEquality
<1>1. IInv => PointerEquality
  <2>. SUFFICES ASSUME IInv, NEW m \in Names, NEW n \in Names,
                       NEW a \in known[m], NEW b \in known[n]
                PROVE  a = b <=> m = n
    BY DEF PointerEquality
  <2>1. a \in 0 .. index - 1 /\ b \in 0 .. index - 1
    BY DEF IInv, TypeOK
  <2>2. name[a] = m /\ name[b] = n
    BY DEF IInv, KnownOK
  <2>. QED
    BY <2>1, <2>2 DEF IInv, TableOK
<1>. QED
  BY <1>1, Inductive, PTL

\* interning never takes a node past the end of the pool, in a program that
\* interns no more names than INTERNING_POOL_SIZE: no name uses up two.
THEOREM PoolBound == ASSUME IsFiniteSet(Names) PROVE Spec => []IndexInPool
<1>1. IInv => IndexInPool
  <2>. SUFFICES ASSUME IInv, Cardinality(Names) <= PoolSize
                PROVE  index <= PoolSize
    BY DEF IndexInPool
  <2>1. index \in Nat /\ name \in [0 .. index - 1 -> Names]
    BY DEF IInv, TypeOK
  <2>2. name \in Injection(0 .. index - 1, Names)
    BY <2>1 DEF IInv, TableOK, Injection, IsInjective
  <2>3. Cardinality(0 .. index - 1) <= Cardinality(Names)
    BY <2>2, FS_Injection
  <2>4. Cardinality(0 .. index - 1) = index
    BY <2>1, FS_Interval
  <2>5. Cardinality(Names) \in Nat
    BY FS_CardinalityType
  <2>. QED
    BY <2>1, <2>3, <2>4, <2>5, InternAssumption
<1>. QED
  BY <1>1, Inductive, PTL

-----------------------------------------------------------------------------
\* What a thread has asked for and been answered, by where it is.
AskOK(t) ==
    /\ pc[t] = "idle" <=> want[t] = NoName
    /\ pc[t] \notin {"unlock", "ret"} => got[t] = NULL

LEMMA InitAsk == Init => \A t \in Threads : AskOK(t)
  BY DEF Init, AskOK

LEMMA StepAsk ==
    ASSUME IInv, \A t \in Threads : AskOK(t), [Next]_vars
    PROVE  \A t \in Threads : AskOK(t)'
<1>. USE InternAssumption
<1>. SUFFICES ASSUME NEW u \in Threads PROVE AskOK(u)'
  OBVIOUS
<1>a. TypeOK /\ AskOK(u) /\ \A t \in Threads : PcOK(t)
  BY DEF IInv
<1>1. ASSUME NEW t \in Threads, NEW n \in Names, Call(t, n) PROVE AskOK(u)'
  BY <1>a, <1>1 DEF Call, Goto, AskOK, TypeOK
<1>2. ASSUME NEW t \in Threads, Lock(t) PROVE AskOK(u)'
  BY <1>a, <1>2 DEF Lock, Goto, AskOK, TypeOK
<1>3. ASSUME NEW t \in Threads, LookFound(t) PROVE AskOK(u)'
  BY <1>a, <1>3 DEF LookFound, Goto, Looking, AskOK, TypeOK
<1>4. ASSUME NEW t \in Threads, LookAbsent(t) PROVE AskOK(u)'
  BY <1>a, <1>4 DEF LookAbsent, Goto, Looking, AskOK, TypeOK
<1>5. ASSUME NEW t \in Threads, LookRefused(t) PROVE AskOK(u)'
  BY <1>a, <1>5 DEF LookRefused, Goto, Looking, AskOK, TypeOK
<1>6. ASSUME NEW t \in Threads, Insert(t) PROVE AskOK(u)'
  BY <1>a, <1>6 DEF Insert, Goto, AskOK, TypeOK
<1>7. ASSUME NEW t \in Threads, Expand(t) PROVE AskOK(u)'
  BY <1>a, <1>7 DEF Expand, Goto, AskOK, TypeOK
<1>8. ASSUME NEW t \in Threads, Unlock(t) PROVE AskOK(u)'
  BY <1>a, <1>8 DEF Unlock, Goto, AskOK, TypeOK
<1>9. ASSUME NEW t \in Threads, Return(t) PROVE AskOK(u)'
  BY <1>a, <1>9 DEF Return, Goto, AskOK, TypeOK
<1>10. ASSUME UNCHANGED vars PROVE AskOK(u)'
  BY <1>a, <1>10 DEF vars, AskOK
<1>. QED
  BY <1>1, <1>2, <1>3, <1>4, <1>5, <1>6, <1>7, <1>8, <1>9, <1>10
     DEF Next, Step

\* A name is bound to the one node that has it, or to none.
LEMMA SymbolIs ==
    ASSUME TypeOK, TableOK, NEW n \in Names
    PROVE  /\ \A s \in 0 .. index - 1 : name[s] = n => SymbolOf(n) = s
           /\ (\A s \in 0 .. index - 1 : name[s] # n) => SymbolOf(n) = NULL
           /\ SymbolOf(n) \in 0 .. index - 1 => name[SymbolOf(n)] = n
<1>1. DOMAIN name = 0 .. index - 1 /\ index \in Nat /\ NULL \notin 0 .. index - 1
  BY InternAssumption DEF TypeOK
<1>2. ASSUME NEW s \in 0 .. index - 1, name[s] = n PROVE SymbolOf(n) = s
  BY <1>1, <1>2 DEF SymbolOf, TableOK
<1>3. (\A s \in 0 .. index - 1 : name[s] # n) => SymbolOf(n) = NULL
  BY <1>1 DEF SymbolOf
<1>4. SymbolOf(n) \in 0 .. index - 1 => name[SymbolOf(n)] = n
  BY <1>1, <1>2, <1>3
<1>. QED
  BY <1>2, <1>3, <1>4

\* There is a node left for a name that has none.
LEMMA NodeLeft ==
    ASSUME IInv, IsFiniteSet(Names), Cardinality(Names) <= PoolSize,
           NEW n \in Names, \A s \in 0 .. index - 1 : name[s] # n
    PROVE  index < PoolSize
<1>1. index \in Nat /\ name \in [0 .. index - 1 -> Names \ {n}]
  BY DEF IInv, TypeOK
<1>2. name \in Injection(0 .. index - 1, Names \ {n})
  BY <1>1 DEF IInv, TableOK, Injection, IsInjective
<1>3. /\ IsFiniteSet(Names \ {n})
      /\ Cardinality(Names \ {n}) = Cardinality(Names) - 1
      /\ Cardinality(Names) \in Nat
  BY FS_RemoveElement, FS_CardinalityType
<1>4. Cardinality(0 .. index - 1) <= Cardinality(Names \ {n})
  BY <1>2, <1>3, FS_Injection
<1>5. Cardinality(0 .. index - 1) = index
  BY <1>1, FS_Interval
<1>. QED
  BY <1>1, <1>3, <1>4, <1>5, InternAssumption

LEMMA InitRefines == Init => Symbols!Init
<1>. SUFFICES ASSUME Init PROVE Symbols!Init
  OBVIOUS
<1>1. \A n \in Names : SymbolOf(n) = NULL
  BY DEF Init, SymbolOf
<1>. QED
  BY <1>1 DEF Init, Symbols!Init

LEMMA StepRefines ==
    ASSUME IInv, \A t \in Threads : AskOK(t), [Next]_vars,
           IsFiniteSet(Names), Cardinality(Names) <= PoolSize
    PROVE  [Symbols!Next]_(Symbols!vars)
<1>. DEFINE sym == [n \in Names |-> SymbolOf(n)]
<1>. USE InternAssumption
<1>a. /\ TypeOK /\ TableOK
      /\ \A t \in Threads : PcOK(t) /\ AskOK(t)
  BY DEF IInv
<1>b. ASSUME UNCHANGED <<name, want, got>> PROVE [Symbols!Next]_(Symbols!vars)
  BY <1>b DEF Symbols!vars, SymbolOf
<1>1. ASSUME NEW t \in Threads, NEW n \in Names, Call(t, n)
      PROVE  [Symbols!Next]_(Symbols!vars)
  <2>. USE <1>1 DEF Call, Goto, table
  <2>1. want[t] = NoName
    BY <1>a DEF AskOK
  <2>2. UNCHANGED <<sym, got>>
    BY DEF SymbolOf
  <2>3. Symbols!Request(t)
    BY <2>1, <2>2 DEF Symbols!Request
  <2>. QED
    BY <2>3 DEF Symbols!Next
<1>2. ASSUME NEW t \in Threads, Lock(t) PROVE [Symbols!Next]_(Symbols!vars)
  BY <1>2, <1>b DEF Lock, table
<1>3. ASSUME NEW t \in Threads, LookFound(t) PROVE [Symbols!Next]_(Symbols!vars)
  <2>. USE <1>3 DEF LookFound, Goto, Looking, table
  <2>0. want[t] \in Names /\ want[t] # NoName /\ got[t] = NULL
    BY <1>a DEF PcOK, AskOK
  <2>1. size > 0
    BY <1>a, <2>0, NeverFull DEF TypeOK
  <2>2. PICK s \in Match(want[t]) : got' = [got EXCEPT ![t] = s]
    OBVIOUS
  <2>3. s \in 0 .. index - 1 /\ name[s] = want[t]
    BY <1>a, <2>0, <2>1, <2>2, MatchFinds
  <2>4. SymbolOf(want[t]) = s /\ s # NULL
    BY <1>a, <2>0, <2>3, SymbolIs DEF TypeOK
  <2>5. UNCHANGED <<sym, want>>
    BY DEF SymbolOf
  <2>6. Symbols!Find(t)
    BY <2>0, <2>2, <2>4, <2>5 DEF Symbols!Find
  <2>. QED
    BY <2>6 DEF Symbols!Next
<1>4. ASSUME NEW t \in Threads, LookAbsent(t) PROVE [Symbols!Next]_(Symbols!vars)
  BY <1>4, <1>b DEF LookAbsent
<1>5. ASSUME NEW t \in Threads, LookRefused(t) PROVE [Symbols!Next]_(Symbols!vars)
  BY <1>5, <1>b DEF LookRefused, table
<1>6. ASSUME NEW t \in Threads, Insert(t) PROVE [Symbols!Next]_(Symbols!vars)
  <2>. USE <1>6 DEF Insert, Goto
  <2>1. /\ want[t] \in Names /\ want[t] # NoName /\ got[t] = NULL
        /\ \A s \in 0 .. index - 1 : name[s] # want[t]
    BY <1>a DEF PcOK, AskOK
  <2>2. index \in 0 .. PoolSize - 1 /\ index' = index + 1
    BY <1>a, <2>1, NodeLeft DEF TypeOK
  <2>3. IInv'
    BY StepIInv
  <2>4. /\ name'[index] = want[t]
        /\ \A s \in 0 .. index - 1 : name'[s] = name[s]
    BY <1>a, <2>2 DEF TypeOK
  <2>5. SymbolOf(want[t]) = NULL
    BY <1>a, <2>1, SymbolIs
  <2>6. \A n \in Names : SymbolOf(n) # index
    <3>. SUFFICES ASSUME NEW n \in Names, SymbolOf(n) = index PROVE FALSE
      OBVIOUS
    <3>1. CASE \E s \in 0 .. index - 1 : name[s] = n
      BY <3>1, <1>a, <2>2, SymbolIs
    <3>2. CASE \A s \in 0 .. index - 1 : name[s] # n
      BY <3>2, <1>a, <2>2, SymbolIs
    <3>. QED
      BY <3>1, <3>2
  <2>7. \A n \in Names : SymbolOf(n)' = IF n = want[t] THEN index ELSE SymbolOf(n)
    <3>. SUFFICES ASSUME NEW n \in Names
                  PROVE  SymbolOf(n)' = IF n = want[t] THEN index ELSE SymbolOf(n)
      OBVIOUS
    <3>1. /\ \A s \in 0 .. index' - 1 : name'[s] = n => SymbolOf(n)' = s
          /\ (\A s \in 0 .. index' - 1 : name'[s] # n) => SymbolOf(n)' = NULL
      <4>1. TypeOK' /\ TableOK'
        BY <2>3 DEF IInv
      <4>2. (TypeOK /\ TableOK =>
                /\ \A s \in 0 .. index - 1 : name[s] = n => SymbolOf(n) = s
                /\ (\A s \in 0 .. index - 1 : name[s] # n) => SymbolOf(n) = NULL)'
        BY SymbolIs, PTL
      <4>. QED
        BY <4>1, <4>2
    <3>2. CASE n = want[t]
      <4>1. index \in 0 .. index' - 1
        BY <2>2
      <4>2. SymbolOf(n)' = index
        BY <3>1, <3>2, <4>1, <2>4
      <4>. QED
        BY <3>2, <4>2
    <3>3. CASE n # want[t] /\ \E s \in 0 .. index - 1 : name[s] = n
      <4>1. PICK s \in 0 .. index - 1 : name[s] = n
        BY <3>3
      <4>2. SymbolOf(n) = s
        BY <4>1, <1>a, SymbolIs
      <4>3. s \in 0 .. index' - 1 /\ name'[s] = n
        BY <4>1, <2>2, <2>4, <1>a DEF TypeOK
      <4>4. SymbolOf(n)' = s
        BY <4>3, <3>1
      <4>. QED
        BY <3>3, <4>2, <4>4
    <3>4. CASE n # want[t] /\ \A s \in 0 .. index - 1 : name[s] # n
      <4>1. SymbolOf(n) = NULL
        BY <3>4, <1>a, SymbolIs
      <4>2. \A s \in 0 .. index' - 1 : name'[s] # n
        <5>. SUFFICES ASSUME NEW s \in 0 .. index' - 1 PROVE name'[s] # n
          OBVIOUS
        <5>1. s \in 0 .. index - 1 \/ s = index
          BY <2>2
        <5>. QED
          BY <5>1, <3>4, <2>4
      <4>3. SymbolOf(n)' = NULL
        BY <4>2, <3>1
      <4>. QED
        BY <3>4, <4>1, <4>3
    <3>. QED
      BY <3>2, <3>3, <3>4
  <2>8. sym' = [sym EXCEPT ![want[t]] = index]
    BY <2>7, <2>1
  <2>9. Symbols!Bind(t)
    BY <2>1, <2>2, <2>5, <2>6, <2>8 DEF Symbols!Bind
  <2>. QED
    BY <2>9 DEF Symbols!Next
<1>7. ASSUME NEW t \in Threads, Expand(t) PROVE [Symbols!Next]_(Symbols!vars)
  BY <1>7, <1>b DEF Expand
<1>8. ASSUME NEW t \in Threads, Unlock(t) PROVE [Symbols!Next]_(Symbols!vars)
  BY <1>8, <1>b DEF Unlock, table
<1>9. ASSUME NEW t \in Threads, Return(t) PROVE [Symbols!Next]_(Symbols!vars)
  <2>. USE <1>9 DEF Return, Goto, table
  <2>1. got[t] # NULL
    BY <1>a DEF PcOK, TypeOK
  <2>2. UNCHANGED sym
    BY DEF SymbolOf
  <2>3. Symbols!Reply(t)
    BY <2>1, <2>2 DEF Symbols!Reply
  <2>. QED
    BY <2>3 DEF Symbols!Next
<1>10. ASSUME UNCHANGED vars PROVE [Symbols!Next]_(Symbols!vars)
  BY <1>10, <1>b DEF vars, table
<1>. QED
  BY <1>1, <1>2, <1>3, <1>4, <1>5, <1>6, <1>7, <1>8, <1>9, <1>10
     DEF Next, Step

\* The pool is a symbol table that binds each name once, in one step, for a
\* program that interns no more names than the pool has nodes.
THEOREM Implements ==
    ASSUME IsFiniteSet(Names), Cardinality(Names) <= PoolSize
    PROVE  Spec => BindsOnce
<1>1. IInv /\ (\A t \in Threads : AskOK(t)) /\ [Next]_vars
        => [Symbols!Next]_(Symbols!vars)
  BY StepRefines
<1>2. Spec => [](\A t \in Threads : AskOK(t))
  <2>1. IInv /\ (\A t \in Threads : AskOK(t)) /\ [Next]_vars
          => (\A t \in Threads : AskOK(t))'
    BY StepAsk
  <2>. QED
    BY <2>1, InitAsk, Inductive, PTL DEF Spec
<1>. QED
  BY <1>1, <1>2, InitRefines, Inductive, PTL DEF Spec, BindsOnce, Symbols!Spec

-----------------------------------------------------------------------------
\* The statement a thread is in, and the branch of cstring_clone it takes.
WhereOK ==
    /\ lpc \in [Threads -> {"out", "check", "intern", "malloc", "cas", "lost"}]
    /\ lit \in [Threads -> Literals \cup {NoLit}]
    /\ \A t \in Threads :
        /\ lpc[t] # "out" => lit[t] \in Literals
        /\ lpc[t] = "intern" => Short(lit[t])
        /\ lpc[t] = "malloc" => ~Short(lit[t])

LEMMA WhereInv == LiteralSpec => []WhereOK
<1>1. LiteralInit => WhereOK
  BY DEF LiteralInit, WhereOK
<1>2. ASSUME WhereOK, [LiteralNext]_allvars PROVE WhereOK'
  <2>1. ASSUME NEW t \in Threads, Check(t) PROVE WhereOK'
    BY <1>2, <2>1 DEF WhereOK, Check, LGoto, Short
  <2>2. ASSUME NEW t \in Threads, PersistShort(t) PROVE WhereOK'
    BY <1>2, <2>2 DEF WhereOK, PersistShort, litvars, Short
  <2>3. ASSUME NEW t \in Threads, PersistReturn(t) PROVE WhereOK'
    BY <1>2, <2>3 DEF WhereOK, PersistReturn, LGoto, Short
  <2>4. ASSUME NEW t \in Threads, PersistLong(t) PROVE WhereOK'
    BY <1>2, <2>4 DEF WhereOK, PersistLong, LGoto, Short
  <2>5. ASSUME NEW t \in Threads, Cas(t) PROVE WhereOK'
    BY <1>2, <2>5 DEF WhereOK, Cas, LGoto, Short
  <2>6. ASSUME NEW t \in Threads, FreePersist(t) PROVE WhereOK'
    BY <1>2, <2>6 DEF WhereOK, FreePersist, LGoto, Short
  <2>7. ASSUME NEW t \in Threads, NEW l \in Literals, Enter(t, l) PROVE WhereOK'
    BY <1>2, <2>7 DEF WhereOK, Enter, LGoto, Short
  <2>8. CASE UNCHANGED litvars
    BY <1>2, <2>8 DEF WhereOK, litvars, Short
  <2>. QED
    BY <1>2, <2>1, <2>2, <2>3, <2>4, <2>5, <2>6, <2>7, <2>8
       DEF LiteralNext, LiteralStep, InternStep, ClientCall, ClientReturn, allvars
<1>. QED
  BY <1>1, <1>2, PTL DEF LiteralSpec

\* The pool, seen alone, takes its own steps: what holds of it holds here.
LEMMA PoolStep ==
    ASSUME WhereOK, [LiteralNext]_allvars
    PROVE  [Next]_vars
<1>1. CASE UNCHANGED allvars
  BY <1>1 DEF allvars
<1>2. ASSUME NEW t \in Threads, LiteralStep(t) PROVE [Next]_vars
  <2>1. CASE Check(t) \/ PersistLong(t) \/ Cas(t) \/ FreePersist(t)
    BY <2>1 DEF Check, PersistLong, Cas, FreePersist
  <2>2. CASE PersistShort(t)
    <3>1. Text[lit[t]] \in Names
      BY <2>2 DEF PersistShort, WhereOK, Short
    <3>. QED
      BY <2>2, <3>1 DEF PersistShort, Next
  <2>3. CASE PersistReturn(t)
    BY <2>3 DEF PersistReturn, Next
  <2>. QED
    BY <1>2, <2>1, <2>2, <2>3 DEF LiteralStep
<1>3. ASSUME NEW t \in Threads, InternStep(t) \/ ClientCall(t) \/ ClientReturn(t)
      PROVE  [Next]_vars
  BY <1>3 DEF InternStep, ClientCall, ClientReturn, Next
<1>4. ASSUME NEW t \in Threads, NEW l \in Literals, Enter(t, l) PROVE [Next]_vars
  BY <1>4 DEF Enter
<1>. QED
  BY <1>1, <1>2, <1>3, <1>4 DEF LiteralNext

\* Literals use the pool as any caller does: every theorem about the pool
\* alone is one about the pool of a program with literals.
THEOREM PoolAlone == LiteralSpec => Spec
<1>1. LiteralInit => Init
  BY DEF LiteralInit
<1>. QED
  BY <1>1, PoolStep, WhereInv, PTL DEF LiteralSpec, Spec

-----------------------------------------------------------------------------
\* The string a thread is about to publish or to free: of the text of its
\* statement, alive, and in the case of a block known to nobody else.
TmpOK(t) ==
    /\ lpc[t] \in {"cas", "lost"} =>
        IF Short(lit[t]) THEN tmp[t] \in known[Text[lit[t]]]
        ELSE tmp[t] \in DOMAIN blocks \ freed /\ blocks[tmp[t]] = Text[lit[t]]
    /\ lpc[t] \notin {"cas", "lost"} => tmp[t] = NULL
    /\ lpc[t] = "lost" => var[lit[t]] # NULL
    /\ tmp[t] \in Blocks =>
        /\ \A l \in Literals : var[l] # tmp[t]
        /\ \A u \in Threads : tmp[u] = tmp[t] => u = t

\* The call of cstring_interning a literal makes is for its own text.
CallOK(t) ==
    /\ lpc[t] = "intern" /\ pc[t] # "idle" => want[t] = Text[lit[t]]
    /\ lpc[t] \notin {"out", "intern"} => pc[t] = "idle"

LInv ==
    /\ LiteralTypeOK
    /\ \A t \in Threads : TmpOK(t) /\ CallOK(t)
    /\ PublishedAlive
    /\ NoBlockLost

-----------------------------------------------------------------------------
\* An address is a node of the pool, a block or NULL, and one of them only.
LEMMA Addresses ==
    /\ \A b \in Blocks : b \in Int /\ b \notin Nat /\ b # NULL
    /\ NULL \notin Nat
  BY LiteralAssumption DEF Blocks

\* What a step inside the pool does not touch.
LEMMA StepFacts ==
    ASSUME TypeOK, NEW t \in Threads, Step(t)
    PROVE  /\ pc[t] # "idle" /\ want' = want /\ known' = known
           /\ \A u \in Threads : u # t => pc'[u] = pc[u]
  BY DEF Step, Lock, LookFound, LookAbsent, LookRefused, Insert, Expand,
         Unlock, Goto, Looking, TypeOK

\* A thread that has returned from the pool, or entered it.
LEMMA CallFacts ==
    ASSUME TypeOK, NEW t \in Threads, NEW n, Call(t, n)
    PROVE  /\ pc[t] = "idle" /\ want'[t] = n /\ known' = known
           /\ \A u \in Threads : u # t => pc'[u] = pc[u] /\ want'[u] = want[u]
  BY DEF Call, Goto, TypeOK

LEMMA ReturnFacts ==
    ASSUME TypeOK, NEW t \in Threads, PcOK(t), Return(t)
    PROVE  /\ pc'[t] = "idle" /\ pc[t] # "idle" /\ got[t] \in known'[want[t]]
           /\ \A m \in Names : known[m] \subseteq known'[m]
           /\ \A u \in Threads : u # t => pc'[u] = pc[u] /\ want'[u] = want[u]
  BY DEF Return, Goto, TypeOK, PcOK

LEMMA InitLInv == LiteralInit => LInv
<1>. SUFFICES ASSUME LiteralInit PROVE LInv
  OBVIOUS
<1>. USE LiteralAssumption DEF LiteralInit
<1>1. TypeOK
  BY InitIInv DEF IInv
<1>2. LiteralTypeOK
  BY <1>1 DEF LiteralTypeOK
<1>3. \A t \in Threads : TmpOK(t) /\ CallOK(t)
  BY Addresses DEF TmpOK, CallOK, Init
<1>4. PublishedAlive /\ NoBlockLost
  BY DEF PublishedAlive, NoBlockLost
<1>. QED
  BY <1>2, <1>3, <1>4 DEF LInv

\* A step of the pool that leaves the statements alone, and the thread that
\* takes it within the call it is in.
LEMMA PoolKeeps ==
    ASSUME LInv, WhereOK, IInv', UNCHANGED litvars,
           \A n \in Names : known[n] \subseteq known'[n],
           \A t \in Threads : CallOK(t)'
    PROVE  LInv'
<1>. USE LiteralAssumption DEF litvars
<1>1. LiteralTypeOK'
  BY DEF LInv, LiteralTypeOK, IInv
<1>2. \A t \in Threads : TmpOK(t)'
  BY DEF LInv, TmpOK, WhereOK, Short
<1>3. PublishedAlive'
  BY DEF LInv, PublishedAlive, Short
<1>4. NoBlockLost'
  BY DEF LInv, NoBlockLost
<1>. QED
  BY <1>1, <1>2, <1>3, <1>4 DEF LInv

LEMMA StepLInv ==
    ASSUME LInv, WhereOK, WhereOK', IInv, IInv', [LiteralNext]_allvars
    PROVE  LInv'
<1>. USE LiteralAssumption
<1>a. /\ LiteralTypeOK /\ PublishedAlive /\ NoBlockLost /\ TypeOK /\ TypeOK'
      /\ \A u \in Threads : TmpOK(u) /\ CallOK(u) /\ PcOK(u)
  BY DEF LInv, IInv
<1>1. ASSUME NEW t \in Threads, InternStep(t) PROVE LInv'
  <2>1. known' = known /\ UNCHANGED litvars
    BY <1>1, <1>a, StepFacts DEF InternStep
  <2>2. \A u \in Threads : CallOK(u)'
    BY <1>1, <1>a, StepFacts DEF InternStep, CallOK, litvars
  <2>. QED
    BY <2>1, <2>2, PoolKeeps
<1>2. ASSUME NEW t \in Threads, ClientCall(t) PROVE LInv'
  <2>1. PICK n \in Names : Call(t, n)
    BY <1>2 DEF ClientCall
  <2>2. known' = known /\ UNCHANGED litvars
    BY <1>2, <2>1, <1>a, CallFacts DEF ClientCall
  <2>3. \A u \in Threads : CallOK(u)'
    BY <1>2, <2>1, <1>a, CallFacts DEF ClientCall, CallOK, litvars
  <2>. QED
    BY <2>2, <2>3, PoolKeeps
<1>3. ASSUME NEW t \in Threads, ClientReturn(t) PROVE LInv'
  <2>1. UNCHANGED litvars /\ \A n \in Names : known[n] \subseteq known'[n]
    BY <1>3, <1>a, ReturnFacts DEF ClientReturn
  <2>2. \A u \in Threads : CallOK(u)'
    BY <1>3, <1>a, ReturnFacts DEF ClientReturn, CallOK, litvars
  <2>. QED
    BY <2>1, <2>2, PoolKeeps
<1>4. ASSUME NEW t \in Threads, PersistShort(t) PROVE LInv'
  <2>1. Call(t, Text[lit[t]])
    BY <1>4 DEF PersistShort
  <2>2. known' = known /\ UNCHANGED litvars
    BY <1>4, <2>1, <1>a, CallFacts DEF PersistShort
  <2>3. \A u \in Threads : CallOK(u)'
    BY <1>4, <2>1, <1>a, CallFacts DEF PersistShort, CallOK, litvars
  <2>. QED
    BY <2>2, <2>3, PoolKeeps
<1>5. ASSUME NEW t \in Threads, NEW l \in Literals, Enter(t, l) PROVE LInv'
  <2>. USE <1>5 DEF Enter, LGoto
  <2>1. UNCHANGED <<pc, want, known>>
    BY DEF vars
  <2>2. LiteralTypeOK'
    BY <1>a DEF LiteralTypeOK, WhereOK
  <2>3. \A u \in Threads : TmpOK(u)' /\ CallOK(u)'
    BY <1>a, <2>1 DEF TmpOK, CallOK, WhereOK, Short
  <2>4. PublishedAlive' /\ NoBlockLost'
    BY <1>a, <2>1 DEF PublishedAlive, NoBlockLost, Short
  <2>. QED
    BY <2>2, <2>3, <2>4 DEF LInv
<1>6. ASSUME NEW t \in Threads, Check(t) PROVE LInv'
  <2>. USE <1>6 DEF Check, LGoto
  <2>1. UNCHANGED <<pc, want, known, var, tmp, blocks, freed>>
    BY DEF vars
  <2>2. LiteralTypeOK'
    BY <1>a DEF LiteralTypeOK, WhereOK
  <2>3. \A u \in Threads : TmpOK(u)' /\ CallOK(u)'
    BY <1>a, <2>1 DEF TmpOK, CallOK, WhereOK, Short
  <2>4. PublishedAlive' /\ NoBlockLost'
    BY <1>a, <2>1 DEF PublishedAlive, NoBlockLost, Short
  <2>. QED
    BY <2>2, <2>3, <2>4 DEF LInv
<1>7. ASSUME NEW t \in Threads, PersistReturn(t) PROVE LInv'
  <2>. USE <1>7 DEF PersistReturn, LGoto
  <2>1. /\ pc[t] # "idle" /\ pc'[t] = "idle" /\ got[t] \in known'[want[t]]
        /\ \A n \in Names : known[n] \subseteq known'[n]
        /\ \A u \in Threads : u # t => pc'[u] = pc[u] /\ want'[u] = want[u]
    BY <1>a, ReturnFacts
  <2>2. Text[lit[t]] \in Names /\ want[t] = Text[lit[t]]
    BY <1>a, <2>1 DEF CallOK, WhereOK, Short
  <2>3. got[t] \in Nat /\ got[t] \notin Blocks
    BY <1>a, <2>1, <2>2, Addresses DEF TypeOK
  <2>4. LiteralTypeOK'
    BY <1>a, <2>3 DEF LiteralTypeOK, WhereOK
  <2>5. tmp' \in [Threads -> Nat \cup Blocks \cup {NULL}] /\ tmp'[t] = got[t]
        /\ \A u \in Threads : u # t => tmp'[u] = tmp[u] /\ lpc'[u] = lpc[u]
    BY <1>a, <2>3 DEF LiteralTypeOK, WhereOK
  <2>6. \A u \in Threads : TmpOK(u)'
    <3>1. TmpOK(t)'
      BY <2>1, <2>2, <2>3, <2>5 DEF TmpOK, WhereOK, Short
    <3>2. ASSUME NEW u \in Threads, u # t PROVE TmpOK(u)'
      BY <1>a, <3>2, <2>1, <2>3, <2>5 DEF TmpOK, WhereOK, Short
    <3>. QED
      BY <3>1, <3>2
  <2>7. \A u \in Threads : CallOK(u)'
    BY <1>a, <2>1 DEF CallOK, WhereOK
  <2>8. PublishedAlive'
    BY <1>a, <2>1 DEF PublishedAlive, Short
  <2>9. NoBlockLost'
    <3>1. tmp[t] = NULL
      BY <1>a DEF TmpOK
    <3>. QED
      BY <1>a, <3>1, <2>5, Addresses DEF NoBlockLost, LiteralTypeOK
  <2>. QED
    BY <2>4, <2>6, <2>7, <2>8, <2>9 DEF LInv
<1>8. ASSUME NEW t \in Threads, PersistLong(t) PROVE LInv'
  <2>. USE <1>8 DEF PersistLong, LGoto
  <2>0. UNCHANGED <<pc, want, known>>
    BY DEF vars
  <2>1. PICK b \in Blocks \ DOMAIN blocks :
            /\ blocks' = [c \in DOMAIN blocks \cup {b} |->
                             IF c = b THEN Text[lit[t]] ELSE blocks[c]]
            /\ tmp' = [tmp EXCEPT ![t] = b]
    OBVIOUS
  <2>2. /\ DOMAIN blocks' = DOMAIN blocks \cup {b}
        /\ blocks'[b] = Text[lit[t]]
        /\ \A c \in DOMAIN blocks : blocks'[c] = blocks[c]
    BY <2>1
  <2>3. Text[lit[t]] \notin Names
    BY DEF WhereOK, Short
  <2>4. LiteralTypeOK'
    BY <1>a, <2>1, <2>2, <2>3 DEF LiteralTypeOK, WhereOK
  <2>5. tmp'[t] = b
        /\ \A u \in Threads : u # t => tmp'[u] = tmp[u] /\ lpc'[u] = lpc[u]
    BY <1>a, <2>1 DEF LiteralTypeOK, WhereOK
  <2>6. b \notin DOMAIN blocks /\ b \notin freed /\ b # NULL /\ b \in Blocks
    BY <1>a, <2>1, Addresses DEF LiteralTypeOK
  <2>7. /\ \A l \in Literals : var[l] # b
        /\ \A u \in Threads : tmp[u] # b
    <3>1. ASSUME NEW l \in Literals, var[l] = b PROVE FALSE
      <4>1. Short(l) => b \in Nat
        BY <1>a, <3>1, <2>6 DEF PublishedAlive, TypeOK, Short
      <4>. QED
        BY <1>a, <3>1, <4>1, <2>6, Addresses DEF PublishedAlive
    <3>2. ASSUME NEW u \in Threads, tmp[u] = b PROVE FALSE
      <4>1. lpc[u] \in {"cas", "lost"}
        BY <1>a, <3>2, <2>6 DEF TmpOK
      <4>2. Short(lit[u]) => b \in Nat
        BY <1>a, <3>2, <4>1 DEF TmpOK, TypeOK, Short
      <4>. QED
        BY <1>a, <3>2, <4>1, <4>2, <2>6, Addresses DEF TmpOK
    <3>. QED
      BY <3>1, <3>2
  <2>8. \A u \in Threads : TmpOK(u)' /\ CallOK(u)'
    <3>1. TmpOK(t)'
      BY <2>0, <2>2, <2>3, <2>5, <2>6, <2>7 DEF TmpOK, WhereOK, Short
    <3>2. ASSUME NEW u \in Threads, u # t PROVE TmpOK(u)'
      BY <1>a, <3>2, <2>0, <2>2, <2>5, <2>6, <2>7 DEF TmpOK, WhereOK, Short
    <3>3. \A u \in Threads : CallOK(u)'
      BY <1>a, <2>0 DEF CallOK, WhereOK
    <3>. QED
      BY <3>1, <3>2, <3>3
  <2>9. PublishedAlive'
    BY <1>a, <2>0, <2>2 DEF PublishedAlive, Short
  <2>10. NoBlockLost'
    <3>1. tmp[t] = NULL
      BY <1>a DEF TmpOK
    <3>. QED
      BY <1>a, <3>1, <2>2, <2>5, Addresses DEF NoBlockLost, LiteralTypeOK
  <2>. QED
    BY <2>4, <2>8, <2>9, <2>10 DEF LInv
<1>9. ASSUME NEW t \in Threads, Cas(t) PROVE LInv'
  <2>. USE <1>9 DEF Cas, LGoto
  <2>0. UNCHANGED <<pc, want, known, blocks, freed>> /\ lit[t] \in Literals
    BY DEF vars, WhereOK
  <2>1. CASE var[lit[t]] # NULL
    <3>. USE <2>1
    <3>1. UNCHANGED <<var, lit, tmp>> /\ lpc' = [lpc EXCEPT ![t] = "lost"]
      OBVIOUS
    <3>2. LiteralTypeOK'
      BY <1>a, <2>0, <3>1 DEF LiteralTypeOK, WhereOK
    <3>3. \A u \in Threads : TmpOK(u)' /\ CallOK(u)'
      BY <1>a, <2>0, <3>1 DEF TmpOK, CallOK, WhereOK, Short
    <3>4. PublishedAlive' /\ NoBlockLost'
      BY <1>a, <2>0, <3>1 DEF PublishedAlive, NoBlockLost, Short
    <3>. QED
      BY <3>2, <3>3, <3>4 DEF LInv
  <2>2. CASE var[lit[t]] = NULL
    <3>. USE <2>2
    <3>1. /\ var' = [var EXCEPT ![lit[t]] = tmp[t]]
          /\ lpc' = [lpc EXCEPT ![t] = "out"]
          /\ tmp' = [tmp EXCEPT ![t] = NULL]
      OBVIOUS
    <3>2. /\ var'[lit[t]] = tmp[t]
          /\ \A l \in Literals : l # lit[t] => var'[l] = var[l]
          /\ tmp'[t] = NULL
          /\ \A u \in Threads : u # t =>
                tmp'[u] = tmp[u] /\ lpc'[u] = lpc[u] /\ lit'[u] = lit[u]
      BY <1>a, <2>0, <3>1 DEF LiteralTypeOK, WhereOK
    <3>3. tmp[t] # NULL
      <4>1. Short(lit[t]) => tmp[t] \in Nat
        BY <1>a DEF TmpOK, TypeOK, Short
      <4>2. ~Short(lit[t]) => tmp[t] \in Blocks
        BY <1>a DEF TmpOK, LiteralTypeOK
      <4>. QED
        BY <4>1, <4>2, Addresses
    <3>4. LiteralTypeOK'
      BY <1>a, <2>0, <3>1 DEF LiteralTypeOK, WhereOK
    <3>5. \A u \in Threads : TmpOK(u)'
      <4>1. TmpOK(t)'
        BY <3>1, <3>2, Addresses DEF TmpOK, WhereOK
      <4>2. ASSUME NEW u \in Threads, u # t PROVE TmpOK(u)'
        BY <1>a, <4>2, <2>0, <3>2, <3>3, Addresses DEF TmpOK, WhereOK, Short
      <4>. QED
        BY <4>1, <4>2
    <3>6. \A u \in Threads : CallOK(u)'
      BY <1>a, <2>0, <3>2 DEF CallOK, WhereOK
    <3>7. PublishedAlive'
      BY <1>a, <2>0, <3>2 DEF PublishedAlive, TmpOK, Short
    <3>8. NoBlockLost'
      BY <1>a, <2>0, <3>2, Addresses DEF NoBlockLost, LiteralTypeOK
    <3>. QED
      BY <3>4, <3>5, <3>6, <3>7, <3>8 DEF LInv
  <2>. QED
    BY <2>1, <2>2
<1>10. ASSUME NEW t \in Threads, FreePersist(t) PROVE LInv'
  <2>. USE <1>10 DEF FreePersist, LGoto
  <2>0. UNCHANGED <<pc, want, known, blocks, var>> /\ lit[t] \in Literals
    BY DEF vars, WhereOK
  <2>1. tmp[t] \in Blocks => tmp[t] \in DOMAIN blocks
    <3>1. Short(lit[t]) => tmp[t] \in Nat
      BY <1>a DEF TmpOK, TypeOK, Short
    <3>. QED
      BY <1>a, <3>1, Addresses DEF TmpOK
  <2>2. /\ tmp'[t] = NULL
        /\ \A u \in Threads : u # t =>
              tmp'[u] = tmp[u] /\ lpc'[u] = lpc[u] /\ lit'[u] = lit[u]
    BY <1>a DEF LiteralTypeOK, WhereOK
  <2>3. /\ \A x \in freed' : x \in freed \/ (x = tmp[t] /\ x \in Blocks)
        /\ freed \subseteq freed'
        /\ tmp[t] \in Blocks => tmp[t] \in freed'
    OBVIOUS
  <2>4. LiteralTypeOK'
    BY <1>a, <2>0, <2>1, <2>3 DEF LiteralTypeOK, WhereOK
  <2>5. \A u \in Threads : TmpOK(u)'
    <3>1. TmpOK(t)'
      BY <2>2, Addresses DEF TmpOK, WhereOK
    <3>2. ASSUME NEW u \in Threads, u # t PROVE TmpOK(u)'
      BY <1>a, <3>2, <2>0, <2>2, <2>3, Addresses DEF TmpOK, WhereOK, Short
    <3>. QED
      BY <3>1, <3>2
  <2>6. \A u \in Threads : CallOK(u)'
    BY <1>a, <2>0, <2>2 DEF CallOK, WhereOK
  <2>7. PublishedAlive'
    BY <1>a, <2>0, <2>3 DEF PublishedAlive, TmpOK, Short
  <2>8. NoBlockLost'
    BY <1>a, <2>0, <2>2, <2>3 DEF NoBlockLost, LiteralTypeOK
  <2>. QED
    BY <2>4, <2>5, <2>6, <2>7, <2>8 DEF LInv
<1>11. ASSUME UNCHANGED allvars PROVE LInv'
  <2>1. \A u \in Threads : CallOK(u)'
    BY <1>a, <1>11 DEF allvars, vars, litvars, CallOK
  <2>. QED
    BY <1>11, <2>1, PoolKeeps DEF allvars, vars
<1>. QED
  BY <1>1, <1>2, <1>3, <1>4, <1>5, <1>6, <1>7, <1>8, <1>9, <1>10, <1>11
     DEF LiteralNext, LiteralStep

LEMMA LiteralInductive == LiteralSpec => []LInv
<1>1. LInv /\ WhereOK /\ WhereOK' /\ IInv /\ IInv' /\ [LiteralNext]_allvars => LInv'
  BY StepLInv
<1>. QED
  BY <1>1, InitLInv, WhereInv, PoolAlone, Inductive, PTL DEF LiteralSpec

-----------------------------------------------------------------------------
\* The static variables and the locals of CSTRING_LITERAL keep their types.
THEOREM LiteralTyping == LiteralSpec => []LiteralTypeOK
<1>1. LInv => LiteralTypeOK
  BY DEF LInv
<1>. QED
  BY <1>1, LiteralInductive, PTL

\* A literal that has a value keeps it, whichever thread runs the statement
\* and whenever it does.
THEOREM Once == LiteralSpec => WrittenOnce
<1>1. ASSUME LInv, WhereOK, [LiteralNext]_allvars
      PROVE  [\A l \in Literals : var[l] # NULL => var'[l] = var[l]]_allvars
  <2>. SUFFICES ASSUME NEW l \in Literals, var[l] # NULL
                PROVE  var'[l] = var[l]
    OBVIOUS
  <2>1. ASSUME NEW t \in Threads, Cas(t) PROVE var'[l] = var[l]
    BY <1>1, <2>1 DEF Cas, LInv, LiteralTypeOK, WhereOK
  <2>. QED
    BY <1>1, <2>1 DEF LiteralNext, LiteralStep, InternStep, ClientCall,
       ClientReturn, Enter, Check, PersistShort, PersistReturn, PersistLong,
       FreePersist, allvars, litvars
<1>. QED
  BY <1>1, LiteralInductive, WhereInv, PTL DEF LiteralSpec, WrittenOnce

\* No thread frees the string a literal holds, which has the right text.
THEOREM Alive == LiteralSpec => []PublishedAlive
<1>1. LInv => PublishedAlive
  BY DEF LInv
<1>. QED
  BY <1>1, LiteralInductive, PTL

\* Every string that lost the race is freed by the thread that made it.
THEOREM NoneLost == LiteralSpec => []NoBlockLost
<1>1. LInv => NoBlockLost
  BY DEF LInv
<1>. QED
  BY <1>1, LiteralInductive, PTL
=============================================================================

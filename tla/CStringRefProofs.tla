-------------------------- MODULE CStringRefProofs --------------------------
(***************************************************************************)
(* Proofs about CStringRef, for any number of threads and any width of the *)
(* count: the reference count is exact, nothing is used after it has been  *)
(* freed, and permanent or saturated strings are never freed.  They hold   *)
(* as long as fewer references exist than the count has values; with more, *)
(* run refcount_overflow shows how they fail.                              *)
(***************************************************************************)
EXTENDS CStringRef, FiniteSetTheorems, TLAPS

-----------------------------------------------------------------------------
\* The reference a call is obtaining or giving up belongs to that call
\* alone, and a grab goes through a reference that is still owned.
Args ==
    /\ \A t \in Threads : Granting(t) => /\ arg[t] \in Handles \ held
                                         /\ via[t] \in held
    /\ \A t \in Threads : Releasing(t) => arg[t] \in Handles \ held
    /\ \A t \in Threads :
        ~Granting(t) /\ ~Releasing(t) => arg[t] = NoHandle
    /\ \A t, u \in Threads : t # u /\ arg[t] # NoHandle => arg[t] # arg[u]

\* A via is taken only by a grab; a release does not take the reference
\* another call depends on.
Lent == \A t \in Threads : via[t] # NoHandle => Granting(t)

\* The string of cstring_clone: the count is exact, and the thread that
\* brought it to 0 is the only one to touch the string again.
Counted ==
    born = "fresh" =>
        /\ type = 0
        /\ ref = Cardinality(Owners)
        /\ \A t \in Threads : pc[t] # "grab_promote"
        /\ freed => Owners = {} /\ \A t \in Threads : pc[t] # "rel_free"
        /\ \A t \in Threads : pc[t] = "rel_free" => Owners = {}
        /\ \A t, u \in Threads :
            pc[t] = "rel_free" /\ pc[u] = "rel_free" => t = u

\* Every other string stays at count 0, which no call decrements.
Saturated ==
    born # "fresh" =>
        /\ ref = 0
        /\ ~freed
        /\ \A t \in Threads : pc[t] \notin {"grab_add", "rel_sub", "rel_free"}

IInv == TypeOK /\ Args /\ Lent /\ Counted /\ Saturated

-----------------------------------------------------------------------------
\* Counting modulo RefMod is counting, below RefMod.
LEMMA ModSmall ==
    ASSUME NEW m \in Nat, m > 0, NEW a \in 0 .. m - 1
    PROVE  a % m = a
  BY SMT

\* The references that the count covers are among the handles.
LEMMA OwnersHandles ==
    ASSUME TypeOK, Args
    PROVE  /\ Owners \subseteq Handles
           /\ IsFiniteSet(Owners)
           /\ Cardinality(Owners) \in Nat
           /\ Cardinality(Owners) <= Cardinality(Handles)
           /\ Cardinality(Handles) \in Nat
<1>1. Owners \subseteq Handles
  BY DEF Owners, Args, TypeOK
<1>2. IsFiniteSet(Handles)
  BY RefAssumption
<1>3. IsFiniteSet(Owners) /\ Cardinality(Owners) <= Cardinality(Handles)
  BY <1>1, <1>2, FS_Subset
<1>. QED
  BY <1>1, <1>2, <1>3, FS_CardinalityType

\* The string is not freed, nor about to be, while someone owns it.
LEMMA OwnedAlive ==
    ASSUME IInv, Owners # {}
    PROVE  ~freed /\ \A t \in Threads : pc[t] # "rel_free"
  BY DEF IInv, Counted, Saturated, TypeOK

\* So a call in the middle of grab or release never touches freed memory.
LEMMA InCallOwned ==
    ASSUME IInv, NEW t \in Threads, Granting(t) \/ Releasing(t)
    PROVE  Owners # {}
<1>1. CASE Granting(t)
  BY <1>1 DEF IInv, Args, Owners
<1>2. CASE Releasing(t)
  BY <1>2 DEF Owners
<1>. QED
  BY <1>1, <1>2

LEMMA InitIInv == Init => IInv
<1> SUFFICES ASSUME Init PROVE IInv
  OBVIOUS
<1>1. Owners = held
  BY DEF Init, Owners, Releasing, ReleasePCs
<1>2. born = "fresh" => Cardinality(held) = 1 /\ held # {}
  BY FS_Singleton DEF Init
<1>3. TypeOK
  <2>1. type \in {0, PERMANENT} /\ freed \in BOOLEAN
        /\ born \in {"fresh", "persisted", "saturated"}
    BY DEF Init
  <2>2. ref \in 0 .. RefMod - 1
    BY RefAssumption DEF Init
  <2>3. held \subseteq Handles
    BY DEF Init
  <2>4. pc \in [Threads -> PCs]
    BY DEF Init, PCs
  <2>5. /\ arg \in [Threads -> Handles \cup {NoHandle}]
        /\ via \in [Threads -> Handles \cup {NoHandle}]
    BY DEF Init
  <2>. QED
    BY <2>1, <2>2, <2>3, <2>4, <2>5 DEF TypeOK
<1>4. Args /\ Lent
  BY RefAssumption
  DEF Init, Args, Lent, Granting, Releasing, GrabPCs, ReleasePCs
<1>5. Counted /\ Saturated
  BY <1>1, <1>2 DEF Init, Counted, Saturated
<1>. QED
  BY <1>3, <1>4, <1>5 DEF IInv

-----------------------------------------------------------------------------
\* Every step keeps the inductive invariant.  Each action first says what it
\* does to the set of owners, then to each part of the invariant.
LEMMA StepIInv ==
    ASSUME Cardinality(Handles) < RefMod, IInv, [Next]_vars
    PROVE  IInv'
<1>. USE RefAssumption
<1>a. /\ TypeOK /\ Args /\ Lent /\ Counted /\ Saturated
  BY DEF IInv
<1>b. /\ IsFiniteSet(Owners) /\ Cardinality(Owners) \in Nat
      /\ Cardinality(Owners) < RefMod
      /\ Owners # {} => Cardinality(Owners) > 0
  BY <1>a, OwnersHandles, FS_EmptySet
<1>1. ASSUME NEW t \in Threads, GrabCall(t) PROVE IInv'
  <2>. USE <1>1 DEF GrabCall, Goto
  <2>1. Owners' = Owners
    BY <1>a DEF Owners, Args, TypeOK, Granting, Releasing, GrabPCs, ReleasePCs
  <2>2. TypeOK'
    BY <1>a DEF TypeOK, PCs, GrabPCs
  <2>3. Args' /\ Lent'
    BY <1>a DEF Args, Lent, TypeOK, Granting, Releasing, GrabPCs, ReleasePCs, Owners
  <2>4. Counted' /\ Saturated'
    BY <1>a, <2>1 DEF Counted, Saturated, TypeOK
  <2>. QED
    BY <2>2, <2>3, <2>4 DEF IInv
<1>2. ASSUME NEW t \in Threads, GrabType(t) PROVE IInv'
  <2>. USE <1>2 DEF GrabType
  <2>1. born = "fresh" => Owners' = Owners
    BY <1>a DEF Counted, Owners, Goto, TypeOK, Releasing, ReleasePCs
  <2>2. TypeOK'
    BY <1>a DEF TypeOK, Args, PCs, Goto, Return, Granting, GrabPCs
  <2>3. Args' /\ Lent'
    BY <1>a DEF Args, Lent, TypeOK, Goto, Return,
                Granting, Releasing, GrabPCs, ReleasePCs
  <2>4. Counted' /\ Saturated'
    BY <1>a, <2>1 DEF Counted, Saturated, TypeOK, Goto, Return
  <2>. QED
    BY <2>2, <2>3, <2>4 DEF IInv
<1>3. ASSUME NEW t \in Threads, GrabRef(t) PROVE IInv'
  <2>. USE <1>3 DEF GrabRef
  <2>0. Owners # {}
    BY InCallOwned DEF Granting, GrabPCs
  <2>1. Owners' = Owners
    BY <1>a DEF Owners, Goto, Return, TypeOK, Releasing, ReleasePCs
  <2>2. TypeOK'
    BY <1>a DEF TypeOK, PCs, GrabPCs, ReleasePCs, Args, Goto, Return, Granting, Releasing
  <2>3. Args' /\ Lent'
    BY <1>a DEF Args, Lent, TypeOK, Goto, Return,
                Granting, Releasing, GrabPCs, ReleasePCs
  <2>4. Counted' /\ Saturated'
    BY <1>a, <2>1, <2>0, <1>b DEF Counted, Saturated, TypeOK, Goto, Return
  <2>. QED
    BY <2>2, <2>3, <2>4 DEF IInv
<1>4. ASSUME NEW t \in Threads, GrabPromote(t) PROVE IInv'
  <2>. USE <1>4 DEF GrabPromote
  <2>1. born # "fresh"
    BY <1>a DEF Counted
  <2>2. TypeOK'
    BY <1>a DEF TypeOK, PERMANENT, PCs, GrabPCs, Args, Goto, Return, Granting, Releasing
  <2>3. Args' /\ Lent'
    BY <1>a DEF Args, Lent, TypeOK, Goto, Return,
                Granting, Releasing, GrabPCs, ReleasePCs
  <2>4. Counted' /\ Saturated'
    BY <1>a, <2>1 DEF Counted, Saturated, TypeOK, Goto, Return
  <2>. QED
    BY <2>2, <2>3, <2>4 DEF IInv
<1>5. ASSUME NEW t \in Threads, GrabAdd(t) PROVE IInv'
  <2>. USE <1>5 DEF GrabAdd
  <2>1. born = "fresh"
    BY <1>a DEF Saturated
  <2>2. /\ arg[t] \in Handles /\ arg[t] \notin Owners
        /\ Owners' = Owners \cup {arg[t]}
    BY <1>a DEF Args, Owners, Return, Goto, TypeOK,
                Granting, Releasing, GrabPCs, ReleasePCs
  <2>3. /\ Cardinality(Owners') = Cardinality(Owners) + 1
        /\ Cardinality(Owners') < RefMod
    <3>1. Owners \cup {arg[t]} \subseteq Handles
      BY <1>a, <2>2, OwnersHandles
    <3>2. /\ IsFiniteSet(Owners \cup {arg[t]})
          /\ Cardinality(Owners \cup {arg[t]}) = Cardinality(Owners) + 1
      BY <1>b, <2>2, FS_AddElement
    <3>3. Cardinality(Owners \cup {arg[t]}) <= Cardinality(Handles)
      BY <3>1, FS_Subset
    <3>. QED
      BY <1>a, <1>b, <2>2, <3>2, <3>3, OwnersHandles
  <2>4. ref' = Cardinality(Owners')
    BY <1>a, <1>b, <2>1, <2>3, ModSmall DEF Counted
  <2>5. TypeOK'
    <3>1. ref' \in 0 .. RefMod - 1
      BY <1>b, <2>3, <2>4
    <3>. QED
      BY <1>a, <3>1 DEF TypeOK, PCs, Args, Return, Goto, Granting, GrabPCs
  <2>6. Args' /\ Lent'
    BY <1>a DEF Args, Lent, TypeOK, Goto, Return,
                Granting, Releasing, GrabPCs, ReleasePCs
  <2>7. Owners # {}
    BY InCallOwned DEF Granting, GrabPCs
  <2>8. Counted' /\ Saturated'
    BY <1>a, <2>1, <2>4, <2>7 DEF Counted, Saturated, TypeOK, Goto, Return
  <2>. QED
    BY <2>5, <2>6, <2>8 DEF IInv
<1>6. ASSUME NEW t \in Threads, ReleaseCall(t) PROVE IInv'
  <2>. USE <1>6 DEF ReleaseCall, Goto
  <2>1. Owners' = Owners
    BY <1>a DEF Owners, Args, TypeOK, Granting, Releasing, GrabPCs, ReleasePCs
  <2>2. TypeOK'
    BY <1>a DEF TypeOK, PCs, ReleasePCs
  <2>3. Args' /\ Lent'
    BY <1>a DEF Args, Lent, TypeOK, Granting, Releasing, GrabPCs, ReleasePCs
  <2>4. Counted' /\ Saturated'
    BY <1>a, <2>1 DEF Counted, Saturated, TypeOK
  <2>. QED
    BY <2>2, <2>3, <2>4 DEF IInv
<1>7. ASSUME NEW t \in Threads, RelType(t) PROVE IInv'
  <2>. USE <1>7 DEF RelType
  <2>1. born = "fresh" => Owners' = Owners
    BY <1>a DEF Counted, Owners, Goto, TypeOK, Releasing, ReleasePCs
  <2>2. TypeOK'
    BY <1>a DEF TypeOK, PCs, GrabPCs, ReleasePCs, Args, Goto, Return, Granting, Releasing
  <2>3. Args' /\ Lent'
    BY <1>a DEF Args, Lent, TypeOK, Goto, Return,
                Granting, Releasing, GrabPCs, ReleasePCs
  <2>4. Counted' /\ Saturated'
    BY <1>a, <2>1 DEF Counted, Saturated, TypeOK, Goto, Return
  <2>. QED
    BY <2>2, <2>3, <2>4 DEF IInv
<1>8. ASSUME NEW t \in Threads, RelRef(t) PROVE IInv'
  <2>. USE <1>8 DEF RelRef
  <2>0. Owners # {}
    BY InCallOwned DEF Releasing, ReleasePCs
  <2>1. born = "fresh" => ref # 0 /\ Owners' = Owners
    BY <1>a, <1>b, <2>0 DEF Counted, Owners, Goto, TypeOK, Releasing, ReleasePCs
  <2>2. TypeOK'
    BY <1>a DEF TypeOK, PCs, GrabPCs, ReleasePCs, Args, Goto, Return, Granting, Releasing
  <2>3. Args' /\ Lent'
    BY <1>a DEF Args, Lent, TypeOK, Goto, Return,
                Granting, Releasing, GrabPCs, ReleasePCs
  <2>4. Counted' /\ Saturated'
    BY <1>a, <2>1 DEF Counted, Saturated, TypeOK, Goto, Return
  <2>. QED
    BY <2>2, <2>3, <2>4 DEF IInv
<1>9. ASSUME NEW t \in Threads, RelSub(t) PROVE IInv'
  <2>. USE <1>9 DEF RelSub
  <2>1. born = "fresh"
    BY <1>a DEF Saturated
  <2>2. arg[t] \in Owners /\ Owners' = Owners \ {arg[t]}
    BY <1>a DEF Args, Owners, Return, Goto, TypeOK,
                Granting, Releasing, GrabPCs, ReleasePCs
  <2>3. /\ Cardinality(Owners') = Cardinality(Owners) - 1
        /\ IsFiniteSet(Owners')
    BY <1>b, <2>2, FS_RemoveElement
  <2>4. ref' = Cardinality(Owners') /\ ref' \in 0 .. RefMod - 1
    <3>1. Cardinality(Owners) - 1 \in 0 .. RefMod - 1
      BY <1>b, <2>2
    <3>. QED
      BY <1>a, <2>1, <2>3, <3>1, ModSmall DEF Counted
  <2>5. ref' = 0 <=> Owners' = {}
    BY <2>3, <2>4, FS_EmptySet
  <2>6. TypeOK'
    BY <1>a, <2>4 DEF TypeOK, PCs, Return, Goto
  <2>7. Args' /\ Lent'
    BY <1>a DEF Args, Lent, TypeOK, Goto, Return,
                Granting, Releasing, GrabPCs, ReleasePCs
  <2>8. ~freed /\ \A u \in Threads : pc[u] # "rel_free"
    BY <2>2, OwnedAlive
  <2>9. Counted' /\ Saturated'
    BY <1>a, <2>1, <2>4, <2>5, <2>8
    DEF Counted, Saturated, TypeOK, Goto, Return
  <2>. QED
    BY <2>6, <2>7, <2>9 DEF IInv
<1>10. ASSUME NEW t \in Threads, RelFree(t) PROVE IInv'
  <2>. USE <1>10 DEF RelFree
  <2>1. Owners' = Owners
    BY <1>a DEF Owners, Goto, Return, TypeOK, Releasing, ReleasePCs
  <2>2. TypeOK'
    BY <1>a DEF TypeOK, PCs, GrabPCs, ReleasePCs, Args, Goto, Return, Granting, Releasing
  <2>3. Args' /\ Lent'
    BY <1>a DEF Args, Lent, TypeOK, Goto, Return,
                Granting, Releasing, GrabPCs, ReleasePCs
  <2>4. Counted' /\ Saturated'
    BY <1>a, <2>1 DEF Counted, Saturated, TypeOK, Goto, Return
  <2>. QED
    BY <2>2, <2>3, <2>4 DEF IInv
<1>11. CASE UNCHANGED vars
  BY <1>11, <1>a DEF vars, IInv, TypeOK, Args, Lent, Counted, Saturated, Owners,
                     Granting, Releasing
<1>. QED
  BY <1>1, <1>2, <1>3, <1>4, <1>5, <1>6, <1>7, <1>8, <1>9, <1>10, <1>11
  DEF Next, Call, Step

-----------------------------------------------------------------------------
\* The state of the code keeps its types, for every number of threads.
THEOREM Typing ==
    ASSUME Cardinality(Handles) < RefMod
    PROVE  Spec => []TypeOK
<1>1. Init => IInv
  BY InitIInv
<1>2. IInv /\ [Next]_vars => IInv'
  BY StepIInv
<1>3. IInv => TypeOK
  BY DEF IInv
<1>. QED
  BY <1>1, <1>2, <1>3, PTL DEF Spec

\* Once free(s) has been called nobody owns s and no call is in the middle of
\* reading, writing or freeing it: cstring_release and cstring_grab are safe
\* for any number of threads and fewer references than the count has values.
THEOREM Safety ==
    ASSUME Cardinality(Handles) < RefMod
    PROVE  Spec => []NoUseAfterFree
<1>1. Init => IInv
  BY InitIInv
<1>2. IInv /\ [Next]_vars => IInv'
  BY StepIInv
<1>3. IInv => NoUseAfterFree
  <2>. SUFFICES ASSUME IInv, freed
                PROVE  held = {} /\ \A t \in Threads : pc[t] = "idle"
    BY DEF NoUseAfterFree
  <2>1. Owners = {} /\ \A t \in Threads : pc[t] # "rel_free"
    BY OwnedAlive DEF IInv, Counted, Saturated, TypeOK
  <2>2. \A t \in Threads : ~Granting(t) /\ ~Releasing(t)
    BY <2>1, InCallOwned
  <2>. QED
    BY <2>1, <2>2
    DEF IInv, TypeOK, PCs, Granting, Releasing, GrabPCs, ReleasePCs, Owners
<1>. QED
  BY <1>1, <1>2, <1>3, PTL DEF Spec

\* The count of a string made by cstring_clone is the number of references
\* still owned, in every intermediate state of every call.
THEOREM ExactCount ==
    ASSUME Cardinality(Handles) < RefMod
    PROVE  Spec => []CountExact
<1>1. Init => IInv
  BY InitIInv
<1>2. IInv /\ [Next]_vars => IInv'
  BY StepIInv
<1>3. IInv => CountExact
  BY DEF IInv, Counted, CountExact
<1>. QED
  BY <1>1, <1>2, <1>3, PTL DEF Spec

\* A permanent string, and one whose count has wrapped to 0, is never freed.
THEOREM NeverFreed ==
    ASSUME Cardinality(Handles) < RefMod
    PROVE  Spec => []Immortal
<1>1. Init => IInv
  BY InitIInv
<1>2. IInv /\ [Next]_vars => IInv'
  BY StepIInv
<1>3. IInv => Immortal
  BY DEF IInv, Saturated, Immortal
<1>. QED
  BY <1>1, <1>2, <1>3, PTL DEF Spec
=============================================================================

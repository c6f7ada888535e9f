------------------------------ MODULE CelloPool ------------------------------
(***************************************************************************)
(* The Pool of libCello (4/src/Pool.c): objects that are shared by count,  *)
(* and the Reference (4/src/Reference.c), which stands for an object.  The *)
(* pool is a Table from References to counts; CelloTable shows what that   *)
(* does.  Owners retain an object before they use it and release it once   *)
(* for every time they retained it; but a pool is also a dictionary, and   *)
(* what they do with it as one changes the counts under them.              *)
(***************************************************************************)
EXTENDS Integers, FiniteSets

CONSTANTS Objects, Owners,
          MaxCount    \* a bound on how often one owner retains an object

VARIABLES
    tab,        \* pd->tab: the count of each object in the pool
    deleted,    \* the objects that were deleted
    held,       \* how often each owner has retained each object
    touched     \* the objects whose count was put, discarded or cleared while
                \* somebody held them

vars == <<tab, deleted, held, touched>>

-----------------------------------------------------------------------------
\* A Reference is equal to those of the same object, and is what a Table keeps
\* a copy of.
Reference(x) == [ref |-> x]
At(r)        == r.ref
Copy(r)      == Reference(At(r))
Eq(r, s)     == At(r) = At(s)

KeysOf(x)   == {k \in DOMAIN tab : Eq(k, Reference(x))}
Contains(x) == KeysOf(x) # {}
Get(x)      == tab[CHOOSE k \in KeysOf(x) : TRUE]
With(x, c)  ==
    [k \in DOMAIN tab \cup {Copy(Reference(x))} |-> IF Eq(k, Reference(x)) THEN c ELSE tab[k]]
Without(x)  == [k \in DOMAIN tab \ KeysOf(x) |-> tab[k]]
Users(x)    == {o \in Owners : held[o][x] > 0}

Init ==
    /\ tab = [r \in {} |-> 0]
    /\ deleted = {}
    /\ held = [o \in Owners |-> [x \in Objects |-> 0]]
    /\ touched = {}

\* An object that is not in the pool has been made anew, or is one that the
\* first owner brings.
Retain(o, x) ==
    /\ held[o][x] < MaxCount /\ x \notin deleted
    /\ tab' = With(x, IF Contains(x) THEN Get(x) + 1 ELSE 1)
    /\ held' = [held EXCEPT ![o][x] = @ + 1]
    /\ UNCHANGED <<deleted, touched>>

\* if_le(c, 0): the count after the subtraction.
Released(x) ==
    \/ /\ ~Contains(x) /\ UNCHANGED <<tab, deleted>>
    \/ /\ Contains(x) /\ Get(x) - 1 <= 0
       /\ tab' = Without(x) /\ deleted' = deleted \cup {x}
    \/ /\ Contains(x) /\ Get(x) - 1 > 0
       /\ tab' = With(x, Get(x) - 1) /\ UNCHANGED deleted
Release(o, x) ==
    /\ held[o][x] > 0
    /\ held' = [held EXCEPT ![o][x] = @ - 1]
    /\ Released(x)
    /\ UNCHANGED touched

\* Pool_Put sets a count, Pool_Discard forgets an object and Pool_Clear all of
\* them, and neither deletes any.
Touched(S) == touched' = touched \cup {x \in S : Users(x) # {}}
Put(x, c) ==
    /\ Users(x) # {} /\ x \notin deleted
    /\ tab' = With(x, c)
    /\ Touched({x}) /\ UNCHANGED <<deleted, held>>
Discard(x) ==
    /\ Contains(x) /\ tab' = Without(x)
    /\ Touched({x}) /\ UNCHANGED <<deleted, held>>
Clear ==
    /\ tab' = [r \in {} |-> 0]
    /\ Touched(Objects) /\ UNCHANGED <<deleted, held>>

\* Pool_Delete deletes every object that is still there.  Nobody holds one at
\* that time.
Delete ==
    /\ \A x \in Objects : Users(x) = {}
    /\ deleted' = deleted \cup {At(k) : k \in DOMAIN tab}
    /\ tab' = [r \in {} |-> 0]
    /\ UNCHANGED <<held, touched>>

\* A Reference at the end of its with: an object that no pool has.
ExitWith(x) ==
    /\ Users(x) = {} /\ ~Contains(x) /\ x \notin deleted
    /\ deleted' = deleted \cup {x}
    /\ UNCHANGED <<tab, held, touched>>

\* A deleted object's memory is used for a new one.
Reuse(x) ==
    /\ x \in deleted /\ Users(x) = {}
    /\ deleted' = deleted \ {x} /\ touched' = touched \ {x}
    /\ UNCHANGED <<tab, held>>

Next ==
    \/ \E o \in Owners, x \in Objects : Retain(o, x) \/ Release(o, x)
    \/ \E x \in Objects : Discard(x) \/ ExitWith(x) \/ Reuse(x)
    \/ \E x \in Objects, c \in 1 .. MaxCount : Put(x, c)
    \/ Clear \/ Delete

Spec == Init /\ [][Next]_vars

-----------------------------------------------------------------------------
\* PoolCounts: an object is deleted by the release of its last owner, and not
\* while another owner holds it: the count is that of all the retains, as long
\* as nobody used the pool as a dictionary.  An object has one count, and none
\* that was deleted has one.
Retained(x) == {h \in Owners \X (1 .. MaxCount) : h[2] <= held[h[1]][x]}
PoolCounts ==
    \A x \in Objects :
        LET all == Cardinality(Retained(x))
        IN  /\ Cardinality(KeysOf(x)) <= 1
            /\ x \in deleted => ~Contains(x)
            /\ x \notin touched =>
                /\ all > 0 => Contains(x) /\ Get(x) = all /\ x \notin deleted
                /\ all = 0 => ~Contains(x)
=============================================================================

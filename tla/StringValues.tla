---------------------------- MODULE StringValues ----------------------------
(***************************************************************************)
(* What a client of the cstring library may assume: a buffer and a         *)
(* reference have a value, a text, of their own.  Changing a buffer        *)
(* changes no reference and no other buffer; a reference keeps the text it *)
(* was given until it is released.                                         *)
(***************************************************************************)
EXTENDS Naturals

CONSTANTS Buffers, Handles,
          MaxText,  \* a text is its length, at most MaxText
          NoText    \* the value of a closed buffer or an unused reference

VARIABLES bval, hval

vars == <<bval, hval>>

Texts == 0 .. MaxText

Init ==
    /\ bval = [b \in Buffers |-> NoText]
    /\ hval = [h \in Handles |-> NoText]

Open(b) ==
    /\ bval[b] = NoText
    /\ bval' = [bval EXCEPT ![b] = 0]
    /\ UNCHANGED hval

Cat(b, n) ==
    /\ bval[b] # NoText
    /\ bval[b] + n \in Texts
    /\ bval' = [bval EXCEPT ![b] = @ + n]
    /\ UNCHANGED hval

Printf(b, n) ==
    /\ bval[b] # NoText
    /\ bval' = [bval EXCEPT ![b] = n]
    /\ UNCHANGED hval

Close(b) ==
    /\ bval[b] # NoText
    /\ bval' = [bval EXCEPT ![b] = NoText]
    /\ UNCHANGED hval

Obtain(h, n) ==
    /\ hval[h] = NoText
    /\ hval' = [hval EXCEPT ![h] = n]
    /\ UNCHANGED bval

Release(h) ==
    /\ hval[h] # NoText
    /\ hval' = [hval EXCEPT ![h] = NoText]
    /\ UNCHANGED bval

Next ==
    \/ \E b \in Buffers :
        \/ Open(b) \/ Close(b)
        \/ \E n \in Texts : Cat(b, n) \/ Printf(b, n)
    \/ \E h \in Handles :
        \/ Release(h)
        \/ \E n \in Texts : Obtain(h, n)

Spec == Init /\ [][Next]_vars
=============================================================================

------------------------------ MODULE KeyedMap ------------------------------
(***************************************************************************)
(* What put, get and discard of a map promise: a key has at most one       *)
(* value, the last one put, until the key is discarded; neither operation  *)
(* touches another key.  A key that is not bound may be discarded.         *)
(***************************************************************************)
CONSTANTS Keys, Vals

VARIABLE bindings

Init == bindings = [k \in {} |-> k]

Put(k, v) ==
    LET old == bindings
    IN  bindings' = [j \in DOMAIN old \cup {k} |-> IF j = k THEN v ELSE old[j]]

Discard(k) ==
    LET old == bindings
    IN  bindings' = [j \in DOMAIN old \ {k} |-> old[j]]

Next ==
    \E k \in Keys :
        \/ Discard(k)
        \/ \E v \in Vals : Put(k, v)

Spec == Init /\ [][Next]_bindings
=============================================================================

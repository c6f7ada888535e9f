------------------------------ MODULE ItemTable ------------------------------
(***************************************************************************)
(* What the tables of Cbasic promise: a set of items, at most one for each *)
(* key.  Insertion refuses a key that is there, with 1 or, if the table    *)
(* may be full, with -1.  Lookup and removal give the item that was        *)
(* inserted, not the one that was asked with.                              *)
(***************************************************************************)
EXTENDS Integers, FiniteSets

CONSTANTS Items,        \* records with a key
          Guaranteed    \* a table with fewer items than this takes another

VARIABLES
    items,    \* the items inserted and not removed
    last      \* the last call: [op, item, code, given]

Call(op, x, code, given) == [op |-> op, item |-> x, code |-> code, given |-> given]

SameKey(x) == {y \in items : y.key = x.key}

Init ==
    /\ items = {}
    /\ last = Call("init", {}, 0, {})

Insert(x) ==
    \/ /\ SameKey(x) # {}
       /\ last' = Call("insert", x, 1, {}) /\ UNCHANGED items
    \/ /\ SameKey(x) = {}
       /\ items' = items \cup {x} /\ last' = Call("insert", x, 0, {})
    \/ /\ Cardinality(items) >= Guaranteed
       /\ last' = Call("insert", x, -1, {}) /\ UNCHANGED items

Lookup(x) ==
    /\ last' = Call("lookup", x, IF SameKey(x) = {} THEN -1 ELSE 0, SameKey(x))
    /\ UNCHANGED items

Delete(x) ==
    /\ last' = Call("remove", x, IF SameKey(x) = {} THEN -1 ELSE 0, SameKey(x))
    /\ items' = items \ SameKey(x)

Destroy ==
    /\ last' = Call("destroy", {}, 0, items)
    /\ items' = {}

Next ==
    \/ \E x \in Items : Insert(x) \/ Lookup(x) \/ Delete(x)
    \/ Destroy

Spec == Init /\ [][Next]_<<items, last>>
=============================================================================

------------------------------ MODULE OpenHash ------------------------------
(***************************************************************************)
(* The open-addressed hash table of Cbasic (ohtbl.c), with double hashing. *)
(* A removed item leaves the sentinel vacated in its place, so that probes *)
(* for others go on past it.  ohtbl_lookup gives the sentinel to the       *)
(* user's match like any item; it is a char, and Alike are the keys that   *)
(* match finds equal to it.                                                *)
(***************************************************************************)
EXTENDS Integers, Sequences, FiniteSets

CONSTANTS Items,         \* the data that callers insert: records with a key
          Positions,     \* the number of places in the table
          H1, H2,        \* the two hashes of each key
          Alike,
          NULL, VACATED

VARIABLES
    htbl,     \* the OHTbl: size and table
    last      \* the last call: [op, item, code, given]

vars == <<htbl, last>>

Empty == [size |-> 0, table |-> [p \in 0 .. Positions - 1 |-> NULL]]

Call(op, x, code, given) == [op |-> op, item |-> x, code |-> code, given |-> given]

Init ==
    /\ htbl = Empty
    /\ last = Call("init", {}, 0, {})

-----------------------------------------------------------------------------
\* The i-th place tried for x, and what is there.
Probe(x, i) == (H1[x.key] + i * H2[x.key]) % Positions
At(x, i)    == htbl.table[Probe(x, i)]
Steps       == 0 .. Positions - 1

\* The first step at which one of the conditions holds that ends a loop, if
\* there is one.
FirstStep(S) == {i \in S : \A j \in S : i <= j}

Matches(x, y) ==
    IF y = VACATED THEN x.key \in Alike ELSE y # NULL /\ y.key = x.key

\* ohtbl_lookup ends at a NULL, or at whatever matches.
LookupEnd(x) == FirstStep({i \in Steps : At(x, i) = NULL \/ Matches(x, At(x, i))})
LookedUp(x)  == {At(x, i) : i \in {j \in LookupEnd(x) : At(x, j) # NULL}}

Lookup(x) ==
    /\ last' = Call("lookup", x, IF LookedUp(x) = {} THEN -1 ELSE 0, LookedUp(x))
    /\ UNCHANGED htbl

FreeSteps(x) == FirstStep({i \in Steps : At(x, i) \in {NULL, VACATED}})
Insert(x) ==
    \/ /\ htbl.size = Positions
       /\ last' = Call("insert", x, -1, {}) /\ UNCHANGED htbl
    \/ /\ htbl.size # Positions /\ LookedUp(x) # {}
       /\ last' = Call("insert", x, 1, {}) /\ UNCHANGED htbl
    \/ /\ htbl.size # Positions /\ LookedUp(x) = {} /\ FreeSteps(x) = {}
       /\ last' = Call("insert", x, -1, {}) /\ UNCHANGED htbl
    \/ /\ htbl.size # Positions /\ LookedUp(x) = {}
       /\ \E i \in FreeSteps(x) :
            htbl' = [size |-> htbl.size + 1,
                     table |-> [htbl.table EXCEPT ![Probe(x, i)] = x]]
       /\ last' = Call("insert", x, 0, {})

\* ohtbl_remove passes vacated places over before it asks match.
RemoveEnd(x) == FirstStep({i \in Steps : \/ At(x, i) = NULL
                                         \/ /\ At(x, i) # VACATED
                                            /\ At(x, i).key = x.key})
DeleteToNull(x) ==
    LET hits == {i \in RemoveEnd(x) : At(x, i) # NULL}
    IN  /\ last' = Call("remove", x, IF hits = {} THEN -1 ELSE 0, {At(x, i) : i \in hits})
        /\ htbl' = [size  |-> htbl.size - Cardinality(hits),
                    table |-> [p \in DOMAIN htbl.table |->
                        IF p \in {Probe(x, i) : i \in hits} THEN NULL ELSE htbl.table[p]]]
Delete(x) ==
    LET hits == {i \in RemoveEnd(x) : At(x, i) # NULL}
    IN  /\ last' = Call("remove", x, IF hits = {} THEN -1 ELSE 0, {At(x, i) : i \in hits})
        /\ htbl' = [size  |-> htbl.size - Cardinality(hits),
                    table |-> [p \in DOMAIN htbl.table |->
                        IF p \in {Probe(x, i) : i \in hits} THEN VACATED ELSE htbl.table[p]]]

Contents == {htbl.table[p] : p \in DOMAIN htbl.table} \ {NULL, VACATED}

Destroy ==
    /\ last' = Call("destroy", {}, 0, Contents)
    /\ htbl' = Empty

Next ==
    \/ \E x \in Items : Insert(x) \/ Lookup(x) \/ Delete(x)
    \/ Destroy

Spec == Init /\ [][Next]_vars

-----------------------------------------------------------------------------
\* The places a key reaches.  If every key reaches all, only a full table
\* refuses an item.
Reach(x) == {Probe(x, i) : i \in Steps}
Guarantee == CHOOSE n \in 0 .. Positions :
                /\ \A x \in Items : Cardinality(Reach(x)) >= n
                /\ \E x \in Items : Cardinality(Reach(x)) = n

\* SizeCounts: the size that callers read, and by which a full table is
\* known, is the number of the items.
SizeCounts ==
    htbl.size = Cardinality({p \in DOMAIN htbl.table : htbl.table[p] \notin {NULL, VACATED}})

\* IsItemTable: the table is a set of items with distinct keys, and every call
\* answers as on that set, after any number of removals: no item becomes
\* unreachable, and none is inserted twice.  Without keys like the sentinel.
A == INSTANCE ItemTable WITH items <- Contents, Guaranteed <- Guarantee
IsItemTable == [A!Next]_<<Contents, last>>
=============================================================================

---------------------------- MODULE ChainedHash ----------------------------
(***************************************************************************)
(* The chained hash table of Cbasic (chtbl.c): an array of linked lists.   *)
(* A bucket is the sequence of the data in its list (LinkedList shows that *)
(* a list is one).  match compares keys.  The scanner (lex.c) keeps the    *)
(* symbols it meets in such a table.                                       *)
(***************************************************************************)
EXTENDS Integers, Sequences, FiniteSets, SequencesExt

CONSTANTS Items,       \* the data that callers insert: records with a key
          Buckets,     \* their number
          Hash,        \* the hash of each key
          Memory       \* how many list elements malloc has to give

VARIABLES
    htbl,     \* the CHTbl: size and table
    last      \* the last call: [op, item, code, given]

vars == <<htbl, last>>

Empty == [size |-> 0, table |-> [b \in 0 .. Buckets - 1 |-> <<>>]]

Call(op, x, code, given) == [op |-> op, item |-> x, code |-> code, given |-> given]

Init ==
    /\ htbl = Empty
    /\ last = Call("init", {}, 0, {})

-----------------------------------------------------------------------------
Bucket(x) == Hash[x.key] % Buckets

\* The places in the list of x's bucket where match holds; chtbl_lookup and
\* chtbl_remove stop at the first.
Matches(x) ==
    {i \in DOMAIN htbl.table[Bucket(x)] : htbl.table[Bucket(x)][i].key = x.key}
Found(x)   == CHOOSE i \in Matches(x) : \A j \in Matches(x) : i <= j
Given(x)   == IF Matches(x) = {} THEN {} ELSE {htbl.table[Bucket(x)][Found(x)]}

Lookup(x) ==
    /\ last' = Call("lookup", x, IF Matches(x) = {} THEN -1 ELSE 0, Given(x))
    /\ UNCHANGED htbl

Insert(x) ==
    \/ /\ Matches(x) # {}
       /\ last' = Call("insert", x, 1, {}) /\ UNCHANGED htbl
    \/ /\ Matches(x) = {} /\ htbl.size < Memory
       /\ htbl' = [size  |-> htbl.size + 1,
                   table |-> [htbl.table EXCEPT ![Bucket(x)] = <<x>> \o @]]
       /\ last' = Call("insert", x, 0, {})
    \/ /\ Matches(x) = {} /\ htbl.size = Memory
       /\ last' = Call("insert", x, -1, {}) /\ UNCHANGED htbl

\* list_rem_next, after the element before the one that matches.
Delete(x) ==
    IF Matches(x) = {}
    THEN last' = Call("remove", x, -1, {}) /\ UNCHANGED htbl
    ELSE /\ htbl' = [size  |-> htbl.size - 1,
                     table |-> [htbl.table EXCEPT ![Bucket(x)] = RemoveAt(@, Found(x))]]
         /\ last' = Call("remove", x, 0, Given(x))

\* chtbl_destroy destroys each list, and leaves no table to use.
Destroy ==
    /\ last' = Call("destroy", {}, 0, UNION {ToSet(htbl.table[b]) : b \in 0 .. Buckets - 1})
    /\ htbl' = Empty

Next ==
    \/ \E x \in Items : Insert(x) \/ Lookup(x) \/ Delete(x)
    \/ Destroy

Spec == Init /\ [][Next]_vars

\* lex: the token of the next lexeme, which may be all digits or the end;
\* there may be no memory for its symbol, whose chtbl_insert returns code.
Lex(room, end, digits, code) ==
    CASE ~room \/ (~end /\ code < 0) -> "error"
      [] room /\ end                  -> "lexit"
      [] OTHER                        -> IF digits THEN "digit" ELSE "other"

-----------------------------------------------------------------------------
Contents == UNION {ToSet(htbl.table[b]) : b \in 0 .. Buckets - 1}

\* SizeCounts: the size that callers read is the number of the elements of
\* all lists.
SizeCounts == htbl.size = FoldFunction(LAMBDA s, n : Len(s) + n, 0, htbl.table)

\* IsItemTable: the table is a set of items with distinct keys, and every
\* call answers as on that set, whatever the hash function.
A == INSTANCE ItemTable WITH items <- Contents, Guaranteed <- Memory
IsItemTable == [A!Next]_<<Contents, last>>

\* LexKnows: the scanner answers digit or other exactly when the table has the
\* lexeme afterwards, whether it did before or not.
LexKnows ==
    \A x \in Items :
        Insert(x) =>
            (Lex(TRUE, FALSE, x.key = 1, last'.code) \in {"digit", "other"}
                <=> \E y \in Contents' : y.key = x.key)
=============================================================================

---------------------------- MODULE CStringIntern ----------------------------
(***************************************************************************)
(* The interning pool of the cstring library (6/cstring.c): short strings  *)
(* are kept once, in a hash table that a spin lock protects, and a string  *)
(* is known by the address of its node.                                    *)
(*                                                                         *)
(* A node is identified by its place in the pool, a bucket is the set of   *)
(* the nodes chained in it (nothing depends on their order), and a name is *)
(* the text of a short string.  Hash is hash_blob; sizes are powers of 2.  *)
(***************************************************************************)
EXTENDS Integers, FiniteSets

CONSTANTS Threads,
          Names,      \* the texts that are interned
          NoName,
          Hash,       \* hash_blob of each name
          StartSize,  \* HASH_START_SIZE, 16 in the code
          PoolSize,   \* INTERNING_POOL_SIZE, 1024 in the code
          NULL

ASSUME InternAssumption ==
    /\ Hash \in [Names -> Nat]
    /\ StartSize \in Nat \ {0}
    /\ PoolSize \in Nat
    /\ NoName \notin Names
    /\ NULL \notin Nat

VARIABLES
    lock,    \* S.lock
    size,    \* S.size; 0 when S.hash is NULL
    chain,   \* S.hash: the nodes of each bucket
    pool,    \* S.pool has been allocated
    index,   \* S.index: the next node to use
    total,   \* S.total
    name,    \* the text of each node in use
    pc,      \* where each thread is in cstring_interning
    want,    \* its argument
    bucket,  \* the local index of interning
    got,     \* the local ret
    known    \* history: the nodes the library has returned for each name

table == <<size, chain, pool, index, total, name>>
vars  == <<lock, table, pc, want, bucket, got, known>>

PCs == {"idle", "lock", "first", "expand", "second", "insert", "unlock", "ret"}

Looking  == {"first", "second"}
Critical == {"first", "expand", "second", "insert", "unlock"}

TypeOK ==
    /\ lock \in {0, 1}
    /\ size \in Nat
    /\ index \in Nat
    /\ total = 0
    /\ pool \in BOOLEAN
    /\ chain \in [0 .. size - 1 -> SUBSET (0 .. index - 1)]
    /\ name \in [0 .. index - 1 -> Names]
    /\ pc \in [Threads -> PCs]
    /\ want \in [Threads -> Names \cup {NoName}]
    /\ bucket \in [Threads -> 0 .. size]
    /\ got \in [Threads -> 0 .. index - 1 \cup {NULL}]
    /\ known \in [Names -> SUBSET (0 .. index - 1)]

-----------------------------------------------------------------------------
\* static struct string_interning S: all zero.
Init ==
    /\ lock = 0
    /\ size = 0
    /\ chain = [b \in {} |-> {}]
    /\ pool = FALSE
    /\ index = 0
    /\ total = 0
    /\ name = [s \in {} |-> NoName]
    /\ pc = [t \in Threads |-> "idle"]
    /\ want = [t \in Threads |-> NoName]
    /\ bucket = [t \in Threads |-> 0]
    /\ got = [t \in Threads |-> NULL]
    /\ known = [n \in Names |-> {}]

Goto(t, l) == pc' = [pc EXCEPT ![t] = l]

-----------------------------------------------------------------------------
\* A caller asks for the string with text n.
Call(t, n) ==
    /\ pc[t] = "idle"
    /\ want' = [want EXCEPT ![t] = n]
    /\ Goto(t, "lock")
    /\ UNCHANGED <<lock, table, bucket, got, known>>

\* LOCK spins until it is the one to change lock from 0 to 1.
LockNotTested(t) ==
    /\ pc[t] = "lock"
    /\ lock' = 1
    /\ Goto(t, "first")
    /\ UNCHANGED <<table, want, bucket, got, known>>
Lock(t) ==
    /\ pc[t] = "lock"
    /\ lock = 0
    /\ lock' = 1
    /\ Goto(t, "first")
    /\ UNCHANGED <<table, want, bucket, got, known>>

BucketOf(n, sz) == Hash[n] % sz

\* The node of the chain with the hash and the text of n.
SameHash(n, s) == Hash[name[s]] = Hash[n]
MatchHashOnly(n) == {s \in chain[BucketOf(n, size)] : SameHash(n, s)}
Match(n) == {s \in chain[BucketOf(n, size)] : SameHash(n, s) /\ name[s] = n}

\* interning answers NULL without a table, or at the 80% threshold.
Full == total * 5 >= size * 4
Refused(n) == IF size = 0 THEN TRUE ELSE Match(n) = {} /\ Full

LookFound(t) ==
    /\ pc[t] \in Looking
    /\ ~Refused(want[t])
    /\ \E s \in Match(want[t]) : got' = [got EXCEPT ![t] = s]
    /\ Goto(t, "unlock")
    /\ UNCHANGED <<lock, table, want, bucket, known>>

\* The name is not there: the pool is allocated on first use, and the node
\* to insert goes to the bucket computed now.
LookAbsent(t) ==
    /\ pc[t] \in Looking
    /\ ~Refused(want[t]) /\ Match(want[t]) = {}
    /\ pool' = TRUE
    /\ index' = IF pool THEN index ELSE 0
    /\ bucket' = [bucket EXCEPT ![t] = BucketOf(want[t], size)]
    /\ Goto(t, "insert")
    /\ UNCHANGED <<lock, size, chain, total, name, want, got, known>>

\* The first refusal expands the table, a second one would be returned.
LookRefused(t) ==
    /\ pc[t] \in Looking
    /\ Refused(want[t])
    /\ Goto(t, IF pc[t] = "first" THEN "expand" ELSE "unlock")
    /\ UNCHANGED <<lock, table, want, bucket, got, known>>

\* The node is taken from the pool, filled and chained.
Insert(t) ==
    /\ pc[t] = "insert"
    /\ index' = index + 1
    /\ name' = [s \in 0 .. index |-> IF s = index THEN want[t] ELSE name[s]]
    /\ chain' = [chain EXCEPT ![bucket[t]] = @ \cup {index}]
    /\ got' = [got EXCEPT ![t] = index]
    /\ Goto(t, "unlock")
    /\ UNCHANGED <<lock, size, pool, total, want, bucket, known>>

\* expand: every node goes to the bucket its hash has in the new table.
NewSize == IF size * 2 < StartSize THEN StartSize ELSE size * 2
Expand(t) ==
    /\ pc[t] = "expand"
    /\ size' = NewSize
    /\ chain' = [b \in 0 .. NewSize - 1 |->
                    {s \in UNION {chain[c] : c \in DOMAIN chain} :
                        BucketOf(name[s], NewSize) = b}]
    /\ Goto(t, "second")
    /\ UNCHANGED <<lock, pool, index, total, name, want, bucket, got, known>>

UnlockForgotten(t) ==
    /\ pc[t] = "unlock"
    /\ Goto(t, "ret")
    /\ UNCHANGED <<lock, table, want, bucket, got, known>>
Unlock(t) ==
    /\ pc[t] = "unlock"
    /\ lock' = 0
    /\ Goto(t, "ret")
    /\ UNCHANGED <<table, want, bucket, got, known>>

Return(t) ==
    /\ pc[t] = "ret"
    /\ known' = [known EXCEPT ![want[t]] = @ \cup {got[t]}]
    /\ want' = [want EXCEPT ![t] = NoName]
    /\ got' = [got EXCEPT ![t] = NULL]
    /\ bucket' = [bucket EXCEPT ![t] = 0]
    /\ Goto(t, "idle")
    /\ UNCHANGED <<lock, table>>

Step(t) ==
    \/ Lock(t) \/ LookFound(t) \/ LookAbsent(t) \/ LookRefused(t)
    \/ Insert(t) \/ Expand(t) \/ Unlock(t)

Next == \E t \in Threads : Step(t) \/ Return(t) \/ \E n \in Names : Call(t, n)

Spec == Init /\ [][Next]_vars

-----------------------------------------------------------------------------
\* One thread at a time is between LOCK and UNLOCK, and the lock word says
\* whether there is one: the table is never read half changed.
MutualExclusion ==
    /\ \A t, u \in Threads : pc[t] \in Critical /\ pc[u] \in Critical => t = u
    /\ lock = 1 <=> \E t \in Threads : pc[t] \in Critical

\* cstring_equal compares two interned strings by address alone: the nodes
\* returned over the whole run are equal exactly when their texts are.
PointerEquality ==
    \A m, n \in Names : \A a \in known[m], b \in known[n] : a = b <=> m = n

\* A node is taken inside the pool, as long as the program does not intern
\* more names than the pool has nodes: no name ever uses two.
IndexInPool == Cardinality(Names) <= PoolSize => index <= PoolSize

\* What the callers see is a symbol table that binds each name once, in one
\* step, although the code looks, expands, looks again and inserts.
SymbolOf(n) ==
    IF \E s \in DOMAIN name : name[s] = n
    THEN CHOOSE s \in DOMAIN name : name[s] = n
    ELSE NULL

Symbols == INSTANCE SymbolTable
    WITH Symbols  <- 0 .. PoolSize - 1,
         NoSymbol <- NULL,
         ans      <- got,
         sym      <- [n \in Names |-> SymbolOf(n)]

BindsOnce == Symbols!Spec
=============================================================================

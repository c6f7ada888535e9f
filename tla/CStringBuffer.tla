---------------------------- MODULE CStringBuffer ----------------------------
(***************************************************************************)
(* The cstring library (6/cstring.c) as one thread of a program uses it:   *)
(* buffers that start on the stack and move to the pool or to the heap     *)
(* when they grow, and references to strings taken with cstring_grab.  One *)
(* call is one step; what calls of several threads do to one string, to    *)
(* the pool and to the scratch buffer is CStringRef, CStringIntern and     *)
(* CStringFormat.                                                          *)
(*                                                                         *)
(* A text is its length.  A string is known by its address: a natural n is *)
(* the node of the pool with text n (CStringIntern shows there is one), a  *)
(* negative number is a block of malloc, and STACK is the array of the     *)
(* buffer itself.                                                          *)
(***************************************************************************)
EXTENDS Integers, FiniteSets, TLC

CONSTANTS Buffers, Handles,
          InternSize,  \* CSTRING_INTERNING_SIZE, 32 in the code
          StackSize,   \* CSTRING_STACK_SIZE, 128 in the code
          RefMod,      \* 2^16 in the code
          MaxText,     \* bound: the longest text, too long for the stack
          MaxBlocks,   \* bound: the blocks malloc can have out at a time
          NoText, NULL, STACK

ASSUME BufferAssumption ==
    /\ InternSize \in Nat /\ StackSize \in Nat /\ RefMod \in Nat \ {0, 1}
    /\ 0 < InternSize /\ InternSize < StackSize
    /\ MaxText \in Nat /\ MaxText >= StackSize /\ MaxBlocks \in Nat
    /\ IsFiniteSet(Buffers) /\ IsFiniteSet(Handles)
    /\ NULL \notin Int /\ STACK \notin Int /\ NoText \notin Int
    /\ STACK # NULL /\ \A b \in Buffers : b \notin Int

VARIABLES
    str,    \* sb->str of each buffer; NULL when it is not open
    stack,  \* the text in each buffer's own array
    heap,   \* the blocks in use: the cstring_data in each
    handle  \* the strings the client holds references to

vars == <<str, stack, heap, handle>>

PERMANENT == 1
INTERNING == 2
ONSTACK   == 4

Texts  == 0 .. MaxText
Blocks == {-i : i \in 1 .. MaxBlocks}
Nodes  == 0 .. InternSize - 1
Data   == [type : {0, PERMANENT}, ref : 0 .. RefMod - 1,
           text : Texts, hash : 0 .. 2]

TypeOK ==
    /\ str \in [Buffers -> Nodes \cup Blocks \cup {STACK, NULL}]
    /\ stack \in [Buffers -> 0 .. StackSize - 1]
    /\ DOMAIN heap \subseteq Blocks
    /\ \A p \in DOMAIN heap : heap[p] \in Data
    /\ handle \in [Handles -> Nodes \cup Blocks \cup {NULL}]

Init ==
    /\ str = [b \in Buffers |-> NULL]
    /\ stack = [b \in Buffers |-> 0]
    /\ heap = [p \in {} |-> NULL]
    /\ handle = [h \in Handles |-> NULL]

-----------------------------------------------------------------------------
\* Memory, as functions from one heap to the next.
OnHeap(a) == a \notin Nodes \cup {STACK, NULL}
With(hp, p, d) == [q \in DOMAIN hp \cup {p} |-> IF q = p THEN d ELSE hp[q]]
Free(hp, p)    == [q \in DOMAIN hp \ {p} |-> hp[q]]

NewData(n) == [type |-> 0, ref |-> 1, text |-> n, hash |-> 0]

\* malloc: blocks are interchangeable, so which free one it returns is of no
\* consequence, except that a freed address is used again.
Available(hp) == Blocks \ DOMAIN hp
Alloc(hp, n) ==
    LET p == CHOOSE q \in Available(hp) : \A o \in Available(hp) : o <= q
    IN  [addr |-> p, heap |-> With(hp, p, NewData(n))]

\* The bound of the model: the code asserts that malloc succeeds.
Room == Available(heap) # {}

\* cstring_clone and cstring_cat2 make a short text a node of the pool and
\* give a longer one a block.
Clone(hp, n) ==
    IF n < InternSize THEN [addr |-> n, heap |-> hp] ELSE Alloc(hp, n)

\* cstring_release of the string at a.
Released(hp, a) ==
    IF ~OnHeap(a) \/ hp[a].type # 0 \/ hp[a].ref = 0 THEN hp
    ELSE IF hp[a].ref = 1 THEN Free(hp, a)
    ELSE [hp EXCEPT ![a].ref = @ - 1]

\* cstring_grab of the heap string at a.
GrabbedNoCount(hp, a) == hp
Grabbed(hp, a) ==
    IF ~OnHeap(a) \/ hp[a].type # 0 THEN hp
    ELSE IF hp[a].ref = 0 THEN [hp EXCEPT ![a].type = PERMANENT]
    ELSE [hp EXCEPT ![a].ref = (@ + 1) % RefMod]

TextAt(b, a) ==
    CASE a = STACK -> stack[b]
      [] OnHeap(a) -> heap[a].text
      [] OTHER     -> a

-----------------------------------------------------------------------------
\* CSTRING_BUFFER(b)
Open(b) ==
    /\ str[b] = NULL
    /\ str' = [str EXCEPT ![b] = STACK]
    /\ stack' = [stack EXCEPT ![b] = 0]
    /\ UNCHANGED <<heap, handle>>

\* cstring_cat, while the text and its NUL fit the loop's bound.
FitsStack(b, n) == str[b] = STACK /\ stack[b] + n < StackSize - 1
CatOnStack(b, n) ==
    /\ FitsStack(b, n)
    /\ stack' = [stack EXCEPT ![b] = @ + n]
    /\ UNCHANGED <<str, heap, handle>>

\* cstring_cat, otherwise: a full stack array keeps what the loop copied;
\* cstring_cat2 joins the two parts, then the old string is released.
CatInPlace(b, n) ==
    /\ str[b] # NULL /\ ~FitsStack(b, n) /\ Room
    /\ LET total == TextAt(b, str[b]) + n
           c     == Clone(heap, total)
       IN  /\ total \in Texts
           /\ str' = [str EXCEPT ![b] = IF OnHeap(@) THEN @ ELSE c.addr]
           /\ heap' = IF OnHeap(str[b])
                      THEN [heap EXCEPT ![str[b]].text = total]
                      ELSE c.heap
    /\ UNCHANGED <<stack, handle>>
CatMoves(b, n) ==
    /\ str[b] # NULL /\ ~FitsStack(b, n) /\ Room
    /\ LET total == TextAt(b, str[b]) + n
           c     == Clone(heap, total)
       IN  /\ total \in Texts
           /\ str' = [str EXCEPT ![b] = c.addr]
           /\ heap' = Released(c.heap, str[b])
    /\ stack' = IF str[b] = STACK THEN [stack EXCEPT ![b] = StackSize - 1]
                ELSE stack
    /\ UNCHANGED handle

\* cstring_printf: a text that fits stays on the stack; one that does not
\* leaves the array holding its beginning.
PrintfOnStack(b, n) ==
    /\ str[b] = STACK /\ n < StackSize
    /\ stack' = [stack EXCEPT ![b] = n]
    /\ UNCHANGED <<str, heap, handle>>
PrintfKeepsOld(b, n) ==
    /\ str[b] # NULL /\ ~(str[b] = STACK /\ n < StackSize) /\ Room
    /\ LET c == Alloc(heap, n)
       IN  /\ str' = [str EXCEPT ![b] = c.addr]
           /\ heap' = c.heap
    /\ UNCHANGED <<stack, handle>>
PrintfMoves(b, n) ==
    /\ str[b] # NULL /\ ~(str[b] = STACK /\ n < StackSize) /\ Room
    /\ LET c == Alloc(Released(heap, str[b]), n)
       IN  /\ str' = [str EXCEPT ![b] = c.addr]
           /\ heap' = c.heap
    /\ stack' = IF str[b] = STACK THEN [stack EXCEPT ![b] = StackSize - 1]
                ELSE stack
    /\ UNCHANGED handle

\* CSTRING_CLOSE(b): only a heap string is released.
Close(b) ==
    /\ str[b] # NULL
    /\ heap' = Released(heap, str[b])
    /\ str' = [str EXCEPT ![b] = NULL]
    /\ stack' = [stack EXCEPT ![b] = 0]
    /\ UNCHANGED handle

\* h = cstring_grab(CSTRING(b)): a string on the stack is copied.
GrabBuffer(b, h) ==
    /\ str[b] # NULL /\ handle[h] = NULL /\ Room
    /\ LET c == IF str[b] = STACK THEN Clone(heap, stack[b])
                ELSE [addr |-> str[b], heap |-> Grabbed(heap, str[b])]
       IN  /\ handle' = [handle EXCEPT ![h] = c.addr]
           /\ heap' = c.heap
    /\ UNCHANGED <<str, stack>>

\* h = cstring_grab(g)
GrabHandle(g, h) ==
    /\ handle[g] # NULL /\ handle[h] = NULL
    /\ handle' = [handle EXCEPT ![h] = handle[g]]
    /\ heap' = Grabbed(heap, handle[g])
    /\ UNCHANGED <<str, stack>>

Release(h) ==
    /\ handle[h] # NULL
    /\ heap' = Released(heap, handle[h])
    /\ handle' = [handle EXCEPT ![h] = NULL]
    /\ UNCHANGED <<str, stack>>

\* cstring_persist(text of n letters): a block becomes permanent at once.
Persist(h, n) ==
    /\ handle[h] = NULL /\ Room
    /\ LET c == Clone(heap, n)
       IN  /\ handle' = [handle EXCEPT ![h] = c.addr]
           /\ heap' = IF OnHeap(c.addr)
                      THEN [c.heap EXCEPT ![c.addr].type = PERMANENT,
                                          ![c.addr].ref = 0]
                      ELSE c.heap
    /\ UNCHANGED <<str, stack>>

-----------------------------------------------------------------------------
\* hash_blob: never 0, and different texts may share a value.
HashBlob(n) == 1 + (n % 2)

\* cstring_hash stores the hash of a heap string the first time it is asked.
HashOf(d) == IF d.type = ONSTACK \/ d.hash = 0 THEN HashBlob(d.text) ELSE d.hash
CacheHash(p) ==
    /\ p \in DOMAIN heap /\ heap[p].hash = 0
    /\ heap' = [heap EXCEPT ![p].hash = HashOf(heap[p])]
    /\ UNCHANGED <<str, stack, handle>>

\* A string as cstring_equal sees it; hash is hash_size, a length on the
\* stack.
View(b, a) ==
    CASE a = STACK -> [addr |-> <<b>>, type |-> ONSTACK,
                       text |-> stack[b], hash |-> stack[b]]
      [] OnHeap(a) -> [addr |-> <<a>>, type |-> heap[a].type,
                       text |-> heap[a].text, hash |-> heap[a].hash]
      [] OTHER     -> [addr |-> <<a>>, type |-> INTERNING,
                       text |-> a, hash |-> HashBlob(a)]

EqualByHash(x, y) ==
    \/ x.addr = y.addr
    \/ HashOf(x) = HashOf(y)
CEqual(x, y) ==
    \/ x.addr = y.addr
    \/ /\ ~(x.type = INTERNING /\ y.type = INTERNING)
       /\ IF x.type = ONSTACK /\ y.type = ONSTACK THEN x.hash = y.hash
          ELSE HashOf(x) = HashOf(y)
       /\ x.text = y.text

Next ==
    \/ \E b \in Buffers :
        \/ Open(b) \/ Close(b)
        \/ \E n \in Texts :
            \/ CatOnStack(b, n) \/ CatMoves(b, n)
            \/ PrintfOnStack(b, n) \/ PrintfMoves(b, n)
        \/ \E h \in Handles : GrabBuffer(b, h)
    \/ \E h \in Handles :
        \/ Release(h)
        \/ \E g \in Handles : GrabHandle(g, h)
        \/ \E n \in Texts : Persist(h, n)
    \/ \E p \in DOMAIN heap : CacheHash(p)

Spec == Init /\ [][Next]_vars

\* The references are interchangeable, and so are the buffers.
Symmetry == Permutations(Handles) \cup Permutations(Buffers)

-----------------------------------------------------------------------------
Uses(p) == Cardinality({b \in Buffers : str[b] = p})
           + Cardinality({h \in Handles : handle[h] = p})

\* No buffer and no reference is left pointing at a freed string, whatever
\* mix of cat, printf, grab, release and close led there; and a buffer whose
\* string other references share never frees it under them.
NoDangling ==
    /\ \A b \in Buffers : OnHeap(str[b]) => str[b] \in DOMAIN heap
    /\ \A h \in Handles : OnHeap(handle[h]) => handle[h] \in DOMAIN heap

\* A count that has not wrapped is exact, and only a permanent or wrapped
\* string can outlive the last buffer and reference to it.
CountsUses ==
    \A p \in DOMAIN heap :
        heap[p].type = 0 /\ heap[p].ref # 0 => heap[p].ref = Uses(p)

\* cstring_equal compares texts, although it looks at addresses, types and
\* hashes first, some of which are cached, some of which are lengths, and
\* although a short text may be on the heap, in the pool or on the stack.
EqualComparesTexts ==
    LET strings == {View(b, str[b]) : b \in {c \in Buffers : str[c] # NULL}}
                   \cup {View(NULL, a) : a \in {handle[h] : h \in Handles} \ {NULL}}
    IN  \A x, y \in strings : CEqual(x, y) <=> x.text = y.text

\* Sharing, moving and counting are invisible: buffers and references have
\* values of their own, and every call does to them what StringValues says.
Values == INSTANCE StringValues
    WITH bval <- [b \in Buffers |->
                    IF str[b] = NULL THEN NoText ELSE TextAt(b, str[b])],
         hval <- [h \in Handles |->
                    IF handle[h] = NULL THEN NoText ELSE TextAt(NULL, handle[h])]

ValueSemantics == Values!Spec
=============================================================================

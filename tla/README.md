# Verification of the ma_c repository

The repository is a workshop of C projects in six directories. Three hold
programs with state, protocols and algorithms that are hard to get right:

* `6/`, the **cstring** library: immutable, interned and reference-counted
  strings that threads share;
* `4/`, **libCello**: types, classes, containers, exceptions and threads on top
  of C;
* `2/source`, **Cbasic**: the data structures and algorithms of *Mastering
  Algorithms with C*. `1/` and `3/` are other editions of the same exercises.

This directory holds TLA+ modules that model them, configurations that
model-check the modules with TLC, and proofs that TLAPS checks.

Contents: 1 inventory, 2 plan, 3 the modules and the code, 4 the runs, 5
fairness, 6 proofs, 7 what the checks found, 8 what is not modelled.

## 1. Inventory

| Part | State | Operations | Interacts with | What is hard | What makes it correct |
|---|---|---|---|---|---|
| cstring: reference counting (`6/cstring.c:184-213`) | `type` and a 16-bit `ref` in each string | `cstring_grab`, `cstring_release` | every thread that holds the string | tests of `type` and `ref` are separate from the atomic update; the count wraps | no use after free, no double free, last owner frees, permanent strings stay |
| cstring: interning pool (`6/cstring.c:15-131`) | static `S`: spin lock, bucket array, pool of nodes, `index` | `cstring_interning`, `interning`, `expand`, `insert_node` | every call that makes a short string | lookup, expansion and insertion under one lock; equality by address relies on uniqueness | one node per text, mutual exclusion, the lock is always given back |
| cstring: literals (`6/cstring.h:33-42`) | one static variable per `CSTRING_LITERAL` | load, `cstring_persist`, compare-and-swap, `cstring_free_persist` | the pool, `malloc` | lock-free initialisation by several threads | written once, losers free their own string and nothing else |
| cstring: formatting (`6/cstring.c:297-347`) | static `cache`, one scratch buffer | `cstring_format` | all threads that print | lock-free hand-over of the buffer; retry with a larger one | exclusive use, no leak, the right text |
| cstring: buffers and strings (`6/cstring.c:156-182,215-295,349-369`) | a buffer's string: on its stack array, in the pool or on the heap | `CSTRING_BUFFER`, `cat`, `printf`, `CSTRING_CLOSE`, `grab`, `release`, `persist`, `hash`, `equal` | all of the above | a string moves from stack to pool to heap; several references share it | value semantics, no dangling reference, equality of texts |
| libCello: exceptions (`4/src/Exception.c`) | per thread: `exc_depth`, `exc_active`, `exc_obj`, an array of `jmp_buf` | `try`, `throw`, `catch`, signals | every libCello function that throws | non-local control; one flag for all nested tries | jumps land in live frames, innermost match first, handled once |
| libCello: threads and mutexes (`4/src/Thread.c`) | `ThreadData`, a thread key made by the first call, mutexes | `call`, `join`, `terminate`, `current`, `lock`, `with` | exceptions, through the thread's data | unlocked lazy creation of the key; a throw out of a `with` | each thread finds its own data, no update lost, joins return |
| libCello: Map, Tree (`4/src/Map.c`, `Tree.c`) | a search tree, a list or an Array of keys, a static toggle | `put`, `get`, `discard`, `contains`, `len`, iteration, `clear`, `assign`, `copy` | Array, List, exceptions, the order of the keys | deletion of a node with two children; pointers into the Array | tree and key list agree; refines a map |
| libCello: Table, Dictionary | buckets of keys and values, a list of keys | the same | Array, List, `hash`, `eq` | rehash on growth and shrinking | the same |
| libCello: Array, List | capacity, items; the cursor of a List | push, pop, at, discard, reverse, sort, iteration | allocation | reallocation and shifting; a cursor shared by all loops | room for every item; a loop visits each once |
| libCello: Pool, Reference | counts by object | retain, release; the pool as a dictionary | Table | counts changed behind the owners | balanced counts, deleted once |
| libCello: types and classes (`4/src/Type.c`) | tables of classes and methods | `Type_New`, inherit, dispatch | everything | partial classes, parents of parents | a method is the nearest one that is not NULL |
| libCello: numbers, strings, functions, lambdas | a value each | `eq`, `lt`, `hash`, `assign`, arithmetic, string search, `map`, `foldl`, `sum`, ... | each other, by class | widths, signed zero, order of strings | the laws of what they stand for |
| libCello: formatting (`4/src/Format.c`) | a position in a String or File | `print_to`, `scan_from`, `show`, `look` | types | positions passed on through nested shows | what is printed is where it should be and scans back |
| libCello: files, modules | a stream; a loaded library | open, close, read, write, seek; load, call | libc | failures; an open or an assign over an open one | what is open is held once, and let go |
| Cbasic: linked lists, stack, queue, and `frames.c`, `events.c`, `page.c` | linked elements, `head`, `tail`, `size` | insert and remove at an element | malloc; users | pointer surgery at the ends | refine sequences |
| Cbasic: hash tables | chains; open addressing with vacated slots | insert, remove, lookup, destroy | lists; `lex.c` | probing past vacated slots | refine a set of items |
| Cbasic: sets, coverings | a list without repetitions | set algebra, `cover` | lists | greedy choice | the sets they stand for |
| Cbasic: trees, heaps | linked nodes; AVL tree with hidden (lazily removed) nodes; array heap | insert, remove, merge, traversals; lookup; extract | malloc | rotations and balance factors; growth of the array | order, balance, the largest first |
| Cbasic: graphs and their algorithms | adjacency lists, vertex colours | insert, remove; BFS, DFS, MST, shortest paths, TSP, routes | lists, sets | dependent removal; greedy choice | the definitions of what they compute |
| Cbasic: sorting, searching | an array | the sorts, `bisearch`, `directls`, `spell` | compare functions | pivots, boundaries | the same elements in order |
| Cbasic: compression, encryption | streams of bits; the static subkeys of DES | `huffman`, `lz77`, `transfer`; DES, CBC, RSA | the heap, trees, `bit.c` | windows, ends of data, state between calls | what was encoded is decoded |
| Cbasic: numbers, geometry, numerical methods | none | pure functions | - | widths, degenerate inputs | a reference definition |
| `5/` | | | | the third-party dependencies of redis, without the server | |

The hazards, each at the line where it bites, are in `PROJECT.json`.

## 2. Plan

In order of importance; a module that is proved about has constants with named
assumptions, one action per operation or atomic step, and no RECURSIVE operator.

1. `CStringRef`, `CStringIntern`, `CStringLiteral`, `CStringFormat`: the code
   that threads run concurrently, at the grain of its loads, atomic operations
   and calls of `malloc` and `free`. **Done.**
2. `CStringBuffer`: the whole library as one thread sees it, one call a step,
   against the abstract `StringValues`. **Done.**
3. `CelloException`, then `CelloThread`, which has a try and a `with` in every
   thread. **Done.**
4. The containers: `CelloMap`, `CelloTree`, `CelloTable`, `CelloDictionary`
   against the abstract `KeyedMap`; `CelloArray`, `CelloList`, `CelloPool`.
   **Done.**
5. What everything in libCello goes through: `CelloType`, `CelloValue`,
   `CelloFormat`, `CelloResource`. `MCCello` composes 3 to 5. **Done.**
6. Cbasic: the structures as machines (`LinkedList` ... `SetsAndGraphs`), the
   algorithms as operators on all small inputs (`GraphAlgorithms` ...
   `Numerics`), composed by `MCCbasic`. **Done.**
7. Proofs: `CStringRefProofs`, `CStringLiteralProofs` (the pool and the literals),
   `CStringFormatProofs`, `CStringBufferProofs`, `CelloRuntimeProofs` (exceptions
   and threads), `CelloMapProofs`, `CelloResourceProofs` (with the Pool),
   `CbasicProofs` (the hash tables and the graph). **Done.** Section 6 says what
   stays with TLC, and why.

The abstract specifications: `SymbolTable` (1), `StringValues` (2), `KeyedMap`
(4), `ItemTable` for both hash tables, and for the other structures of Cbasic a
sequence, a set of keys, a priority queue and a pair of sets, stated as action
properties.

## 3. The modules and the code

`PROJECT.json` maps each definition to the lines it stands for. An address is a
model value or an integer; a text is a model value (`CStringIntern`,
`CStringLiteral`), its length (`CStringBuffer`), who wrote it (`CStringFormat`)
or, where the properties are about texts, a sequence of letters (`CelloValue`,
`CelloFormat`). A few definitions carry the name of the one that follows them
and a suffix (`LockNotTested`, `UnlockForgotten`, `EndBodyNoDec`): each is that
definition with one plausible mistake. No specification uses them; put in place
of the original, each shows that a property notices.

### cstring (`6/`)

**CStringRef**: one heap string and any number of threads. `GrabCall` and
`ReleaseCall` are the calls; `GrabType`, `GrabRef`, `GrabPromote`, `GrabAdd`,
`RelType`, `RelRef`, `RelSub`, `RelFree` are the loads, the atomic operations
and the `free` in them, so that everything another thread can do in between is
explored. A *handle* is one reference a client owns. Clients keep the protocol
of `6/README.md`: they grab a string through a reference that they keep for the
length of the call, and release a reference once. `born` tells apart strings
that were counted from the start, made permanent by `cstring_persist`, or whose
count had wrapped to 0.

**SymbolTable** is what the pool promises: a name is bound to a symbol in one
step, once. **CStringIntern** is the pool: `Lock` (spins), the first `interning`
(`LookFound`, `LookAbsent`, `LookRefused`), `Expand`, the second `interning`, `Insert`,
`Unlock`, `Return`. Nodes are numbered by their place in the pool. Chains are
sets: nothing depends on their order. `total` is modelled as the code has it:
it is never incremented, so the table expands once, from nothing to
`HASH_START_SIZE`.

**CStringLiteral** EXTENDS it with the statement `CSTRING_LITERAL`: `Enter`,
`Check` (the plain load), `PersistShort`/`PersistReturn` (through the pool) or
`PersistLong` (a new block), `Cas`, `FreePersist`. Threads also intern names on
their own, at any time.

**CStringFormat**: `ReadCache` (the plain load of `cache`), `Take` (the
compare-and-swap, whose result is what `cache` was, swapped or not), `Malloc`,
`PrintTemp`, `Grow`/`PrintBig` (the doubling loop), `Copy`, `FreeResult`, `Save`,
`FreeTemp`, `Return`. Lengths are counted in doublings; `vsnprintf` may return
another length each time, or -1, of which the code copies no letter. `fresh` says
whether the `va_list` has been consumed; a text says who printed it, and whether
from the caller's arguments, from a consumed `va_list`, or nothing.

**StringValues** is what a client may assume: every buffer and reference has a
text of its own. **CStringBuffer** implements it with strings on the stack, in
the pool and on the heap: `Open`, `CatOnStack`, `CatMoves`, `PrintfOnStack`,
`PrintfMoves`, `Close`, `GrabBuffer`, `GrabHandle`, `Release`, `Persist`, `CacheHash`.
Freed addresses are reused at once. `CEqual` is `cstring_equal`.

### libCello (`4/`)

**CelloException**: `Try` (increment, deactivate, `setjmp`), `TryOverflow`,
`Throw` with its `Jump` or, where no try is open, `Error`, `EndBody`,
`CatchNothing`, `CatchHandled`, `CatchPropagated`, `EndHandler`. `frames` is the
C stack as far as it matters: the bodies and handlers the thread is in. A
`jmp_buf` is a place in it. `thrown` is the stack as it was at the last throw,
kept to say which bodies the exception had to pass.

**CelloThread** has the statics of `Thread.c`, the `ThreadData` of each object
and where each thread is. `Call` (with `CreateKey`, `SetCreated`, `SetArgs`,
`CreateThread` or `CreateFails`) and `InitRun`, `SetRunning` are the two sides of
a start; `Current` is what a thread finds through the key. Every body is a `try`
around a `with` around `total = total + 1`, in separate loads and stores;
`ThrowInside` and `Terminate` leave the `with` without its last step. A call of a
Thread stands in a `try` too: `CreateFails` throws to its catch, from where `EndTry`
goes on, as it does at the end of the `try` of a call that made a thread. A
*starter* is a thread that libCello did not make, as the one of `main`.

**KeyedMap** is a map with `Put` and `Discard`. **CelloMap** is a search tree, a
function from the paths of LEFT and RIGHT to nodes, beside the list of keys.
`End` is the descent, at whose end the three loops of `Map_Get`, `Map_Put` and
`Map_Discard` act; `DiscardAbsent`, `DiscardOuter` (no child or one) and
`DiscardInner` (two) are the outcomes of `Map_Discard`. `AssignCall` begins
`Map_Assign`, whose loops are `ClearStep` and `AssignStep`; `Map_Clear` is
`Map_Assign` of an empty map. `inorder_opt` is a static that all maps share:
`OtherMap` is another map that turns it over. `loop` says which call's loop is
running and `source` what it has still to assign. `Less` is the order the keys'
class gives, any set of pairs. **CelloTree** is the same algorithm on keys and
values that the tree owns; a `clear` hands `discard` an address in the Array of
keys, and `MayMove` says whether a smaller `realloc` moves that Array.

**CelloTable** and **CelloDictionary** have the buckets as functions of
sequences, the array of keys, and `Rehashed` with `HashTableSize` over
`Hash_Primes`; in a Dictionary two keys may be equal and not the same object.
**CelloArray** and **CelloList** keep `num_slots` or the slots themselves, with
`ReserveMore` and `ReserveLess` (`ceil(x * 1.5)`, `pow(n + 1, 1.5)`) in integer
arithmetic, and the in-place sort with its partition. The iteration of a List is
a machine of its own (`IterStart`, `IterNext`, `LookFor`), because its cursor is
in the list. **CelloPool** has counts, owners that retain and release, and the
calls that use the pool as a dictionary; `Retained` are the retains that no
release has answered, which the count of an object must be.

**CelloType** is dispatch: `Class` and `Method` search the tables of a type and
its parents; `TypesServe` has the tables of the nineteen types of the library
and says which calls each of them can serve. **CelloValue** has the operations
of Int, Real, Char, Bool and String by what they compute: `LongBits` and
`IntBits` are the widths of `long` and `int`, a Real is a number of halves with
its own sign, a text a sequence of letters. The functions over lists
(`Lambda.c`, `Prelude.c`) are folds; where an argument list is made and deleted
around a call that may throw, the lists that stay are counted. **CelloFormat**
prints and scans piece by piece, at a position in a String and at the cursor of
a File, and has the shows of the containers, which pass positions on.
**CelloResource** is a File over `fopen`, `fclose`, `fread`, `fwrite` and `fseek`
that may fail, and a Module over `dlopen`. `Open` is a close, which may throw, and
then an `fopen`. An `fclose` that fails (`CloseThrows`) has ended the stream, but the
File keeps its address: it stands in `failed`, the next `fopen` may give it to
another File, and what the first File then reads, writes, seeks or closes is that
stream. `Copy` is `Module_Copy` as it is: `Module_New` gets the characters of the name
where it expects an object, so the copy has whatever name that comes to, or there
is a throw.

### Cbasic (`2/source`)

**LinkedList**, **DoublyLinkedList**, **CircularList** have `malloc`'s blocks with
their pointers; an operation takes any element or NULL, and `malloc` may fail.
The stack and queue are the lists' operations under other names; `frames.c`,
`events.c` and `page.c` are modelled with the list they use. **ItemTable** is
what both hash tables promise; **ChainedHash** and **OpenHash** are the tables,
with any hash functions. **BinaryTree** has the nodes and parents' pointers,
every removal and merge, and the traversals; **AvlTree** the recursive insertion
with its four rotations, the hidden nodes and `Removable`, a bound on what is
removed; **Heap** the array, with a `realloc` that fails. **SetsAndGraphs** has the
sets, functions of their lists, with the greedy covering, and the graph, whose
adjacency lists are such sets, with `malloc` failing at each place.
**GraphAlgorithms**, **Compression** and **Numerics** are functions of their input,
written loop by loop as folds or recursive operators and compared with a
definition; **Sorting** likewise, except for `qksort`, whose pivots are random and
which is a machine with a stack of ranges. **Encryption** has the tables of DES
as they are, and `subkeys`, the static array that a call without a key reuses.
The sorts in `1/temp` are in **Sorting** too.

### MC modules

**MCCello** and **MCCbasic** compose the components. A behaviour is one of one
component, chosen initially by `part`; the components lend their variables from
a few shared ones (`mem`, `ret`, `more`, `rest`) by INSTANCE ... WITH, so that a
single run covers all. Nothing is lost by this: the components share no state in
the code except the statics that their own modules have. Threads and exceptions
do interact, and are composed inside `CelloThread`. `MCCello` EXTENDS
`CelloException`, `CelloThread` and `CelloMap`, so that what it checks of these is
word for word what the theorems state. `MapAlone` and `WordsSpec` are
a Map by itself, for the two runs that show a disagreement. The modules of
`cstring` are checked as they are; `CStringLiteral` ends with the two functions
that its configuration gives to `Hash` and `Text`: `Colliding`, which puts every
name in one bucket, and `OwnWords`, by which a literal is known by its text.

## 4. The runs

| Run | Bounds | Shows |
|---|---|---|
| `refcount` | 3 threads, 3 references, count of 4 values | No interleaving of grab and release frees a string under an owner or a call, or twice; the count is exact; permanent and saturated strings are never freed; the last release frees. Three threads suffice for a test, an update and a second update to interleave; three references never saturate a count of four values. |
| `refcount_overflow` | 2 threads, 5 references, the same count | With more references than the count has values, `NoUseAfterFree` fails (section 7). |
| `intern_literal` | 2 threads, 2 names with equal hashes, a short and a long literal, table of 2 | Mutual exclusion, one node per name, equality by address, refinement of `SymbolTable` (`BindsOnce`), literals published once, nothing freed twice or leaked, the lock is passed on. Equal hashes put both names in one chain. Three blocks are more than two threads and one long literal can use. |
| `format` | 2 threads, texts up to 4 times the scratch buffer, 5 blocks | Exclusive use of the scratch buffer, no leak, own text, every call returns. Two threads own at most five blocks: one cached, and two each. |
| `format_race` | 3 threads | `ScratchExclusive` fails (section 7). |
| `format_args` | 1 thread | `ArgumentsPrinted` fails (section 7). |
| `buffer` | 2 buffers, 2 references, texts of up to 3 letters, stack of 3, pool below 2, count of 3 values, 2 blocks | Value semantics, no dangling string, exact counts until they wrap, equality of texts. The sizes keep the order of 32 < 128, so that there are texts that are interned, that fit the stack by `printf` only, and that need the heap; four owners wrap a count of three values. |
| `cello` | below | The components of libCello, each under any sequence of its calls. |
| `exception_nested` | nesting of 4, buffer of 3, 2 objects, 3 catch clauses | `HandledOnce` fails (section 7). |
| `map_discard` | 4 keys, 2 values, 2 maps to assign | `OthersStay` fails (section 7). |
| `map_strings` | the keys "b", "aa", "ab" by `String_Lt` | `EveryWordFound` fails (section 7). |
| `cbasic` | below | The structures of Cbasic, each under any sequence of its calls, and its algorithms on all small inputs. |

The bounds of `cello` (some 200,000 states):

* exceptions: nesting of 4, a buffer of 3, 2 objects, 3 clauses. Four frames
  contain a body in a handler in a body in a body; the buffer is smaller so that
  its limit is met;
* threads: one starter and 2 Thread objects, the first called up to twice and
  the second once, by the starter or by each other: nested starts, a Thread
  that is called again, three bodies that contend for the mutex, and calls that
  can make no thread and throw to the `try` they stand in;
* Map: 4 keys, 2 values, 2 maps to assign: a node with two children whose
  neighbour in order has a child of its own needs four. Tree: 5 keys, so that
  its Array also gives memory back;
* Table: 4 keys, with 1 bucket, then 2, then 4, the last after the primes have run
  out (`Prelude.c:335`); Dictionary: 5 objects of which two are equal, with 1, 2
  and 3 buckets. A call with four keys present, a put of one of them or the fifth
  object, is what takes either to its last size; both grow and shrink with
  collisions;
* Array: 5 items of 3 values; List: 3 of 3 with repetitions; Pool: 2 objects, 2
  owners, each retaining up to twice;
* types: 3, in any chain of parents, 2 methods; files: 2 over 3 streams, each
  call failing or not, so that an address may be one File's after another's;
  modules: 3 over 2 libraries; formats of up to 3 pieces; shows of seven kinds of
  leaf in containers nested twice; values of a 4-bit `long` and a 3-bit `int`, so
  that every overflow is met; texts of up to 3 of 2 letters; lists of up to 3.

Of its properties, `ThreadsApart` and `ThreadsReturn` are about the threads;
`BuffersLive`, `InnermostFirst`, `FlatHandledOnce` and `Settled` about exceptions;
`EveryNodeFound`, `IsKeyedMap` and `LoopsEnd` about the trees; `ContainersWhole`
(a state) and `ContainersAnswer` (a step) have one conjunct for each container
and each object with a resource; `ValuesRight` one for each of the pure parts.

The bounds of `cbasic` (some 70,000 states): lists of 2 values in 3 blocks; a
chained table of 2 buckets and memory for 2 items; an open one of 4 positions,
where the probes of one key reach only half; 3 binary trees in 4 nodes; a search
tree of 6 nodes, which every double rotation fits in; a heap of 4; graphs of 3
vertices and 5 blocks; for the algorithms every graph of 4 vertices up to
symmetry; arrays of up to 4 of 3 keys; data of up to 6 of 3 symbols in a window
of 4; three keys and messages of DES with the real S-boxes, the numbers below
two RSA moduli; points on grids of 3 by 3. Each property has a conjunct for each
part: `StructuresWhole`, `ListsAreSequences`, `TablesAreSets`,
`TreesAndGraphsAnswer`, `AlgorithmsRight`, `SortsAndSearches`, `CodecsRestore`,
`NumbersRight`.

`CHECK_DEADLOCK FALSE` is set where a client or program may stop for good: when
every reference has been released (`refcount`), when all buffers and references
are used up by permanent strings (`buffer`), when the program has ended or left a
mutex locked, and where an algorithm has its result (`cello`, `cbasic` and the
runs that expect a violation).

## 5. Fairness

Each thread that is inside the library keeps running (`WF` of its steps);
nothing obliges a client to call, so calls have no fairness. This is what
preemptive scheduling gives: none of the calls of cstring waits for another
thread, with the exception of the spin lock, where `LiteralFairSpec` assumes
nothing about who gets it. `Progress` therefore says that some waiting thread
gets the lock, not that each does: `__sync_lock_test_and_set` in a loop is not
fair, and individual starvation is possible.

In libCello `Exception_Catch` is carried out once reached (`CatchGoesOn`); a body
may run for ever. The loops in a call of a Map and a Tree go on (`MapGoesOn`,
`TreeGoesOn`). A thread that libCello made runs its body to its end
(`ThreadGoesOn`), and a starter finishes a call that it has begun (`MainGoesOn`);
both are weak fairness of all the thread's steps, so that a mutex that is given
back and taken by others for ever could starve a thread: here the number of
calls is bounded, as it is in a program that ends.

## 6. Proofs

The proofs hold for every value of the constants: any number of threads,
references, names, sizes, and any hash function.

**CStringRefProofs.** Assumption of each theorem: fewer references than the
count has values (`Cardinality(Handles) < RefMod`). Without it the theorems are
false, as `refcount_overflow` shows. The invariant `IInv` strengthens the
properties by saying where a call can be for each kind of string: a thread
that has decided to add or subtract does so to a string that is counted, owns
the reference it is giving up, and a thread about to free has seen the count at
0, after which nobody owns the string. `Typing`, `Safety` (`NoUseAfterFree`),
`ExactCount` and `NeverFreed` (`Immortal`) follow. The lemmas are about
`Owners`: how its cardinality changes with a grab and with a release.

**CStringLiteralProofs, the pool.** `TableOK`: every node is in the bucket of its name,
and names do not repeat. `PcOK`: what a thread between LOCK and UNLOCK has
found out stays true, because it is alone. `Exclusion`, `EqualAddresses`
(`PointerEquality`) and `PoolBound` (`IndexInPool`) follow; the last one maps the
nodes injectively to the names, and assumes that there are finitely many names.

`Implements` proves the refinement `BindsOnce`: the symbol that `SymbolTable`
binds to a name is the node with that name once it is in the table. Three facts
carry it: a thread has a name to look up exactly while it is in a call, and no
answer before it has looked (`AskOK`); the abstract symbol of a name is the node
that has it (`SymbolIs`); and where a name is still missing and the names fit the
pool, there is a node left for it (`NodeLeft`). With them each step of the pool
is either a stutter or the one binding of `Insert`.

**CStringLiteralProofs, the literals.** A thread that executes a literal uses the pool as any
other: `WhereOK` says which place in the literal's statement goes with which
place in the pool's call, and from it `PoolAlone` derives that every behaviour
of the literals' specification is one of the pool's, so that the theorems above
hold for programs with literals too. `LInv` adds what a thread may hold
(`TmpOK`: its block is its own until it is published or freed; `CallOK`), and
gives `Once` (`WrittenOnce`), `Alive` (`PublishedAlive`) and `NoneLost`
(`NoBlockLost`).

**CStringFormatProofs.** `LocalsOK` says which locals hold a block at which place
of `cstring_format`. With it `NoLeaks` (`NothingLeaks`) holds for any number of
threads, as does `Typing`. `Exclusive` (`ScratchExclusive`) and `OwnTexts` (`OwnText`)
hold for any number of threads too, of every behaviour in which `SwapsClean` holds of
each step: a compare-and-swap that finds another block in the cache than the one it
was to take finds none. That is the one thing they need, and the one that the code
does not see to: `__sync_val_compare_and_swap` returns what it found, and the caller
prints into it. `TwoAreClean` proves that two threads are always clean, so that both
theorems hold of them without a condition, as the run `format` checks; three are
not, which is the run `format_race`. The reason is in `SawCache`: a thread that has
read the cache and not yet swapped still has its `temp` in the cache, or the cache is
empty and another thread has that block. With two threads that other one is the
only one, and before it puts anything into the cache it puts that very block back.
A third thread can put back a block of its own. `Apart` and `Owned` say
that a result that was too long for the scratch buffer is another block, and
which thread's text is where.

**CStringBufferProofs.** The theorems hold for any numbers of buffers and
references, any lengths in the order `0 < InternSize < StackSize <= MaxText`, any
number of blocks and a count of at least two values; `BufferAssumption` also keeps
the marks `NULL`, `STACK` and `NoText` apart from addresses and texts. The
invariant is `Places` (each buffer and reference holds an address of the kind it
may hold), `HeapOK` (a string on the heap has a text, and its cached hash is 0 or
that of the text) and `Counted` (a block in use is not freed, and its count is the
number of its uses, unless it is permanent or its count has wrapped). `HeapOK` and
`Counted` are about any heap `hp` and any numbers of uses `U`, not only the
present ones: a call such as `cstring_cat` takes a new string, then gives the old
one back, and between the two the uses are those of no state. `AllocOK`,
`GrabbedOK` and `ReleasedOK` say what each half does, with `Plus` and `Minus` for one
use more or less, and every call is a chain of them. `NothingDangles`
(`NoDangling`) and `CountsExact` (`CountsUses`) follow. `EqualIsTexts`
(`EqualComparesTexts`) needs in addition that one address has one text (`Seen`),
since `cstring_equal` may answer from addresses or from hashes alone.

`Refinement` proves `ValueSemantics`: the library implements `StringValues`, with
`BVal` and `HVal`, the texts of the buffers and the references, as its state. A
call writes one place; that it leaves the texts of all others alone, although it
may free, share, move or count the string of any of them, is what the invariant
is for (`StillThere`: a block that another place uses is still there and has the
text that it had).

**CelloRuntimeProofs, exceptions.** `ExceptionInv` is `BuffersLive` (each saved
`jmp_buf` is the place of a body that is still running, in order), `CatchOK` (what
`exc_active` means at a `catch`) and `InnermostFirst`. The lemma `JumpLands` says
that a jump leaves exactly the frames above the innermost body. `LiveJumps` and
`Innermost` follow for any depth, number of objects and number of clauses. `Flat`
says what holds as long as no `try` has been run in the body of another: one body
is open at most, and `exc_active`, which a handler leaves set, has been reset by
its `try`. `FlatOnce` (`FlatHandledOnce`) follows; with nesting it fails, which is
the run `exception_nested`.

**CelloRuntimeProofs, threads.** Under `OneStarter` (one thread at most that libCello
did not make; two of them race for the key, see section 7), for any number of
Thread objects and of calls, `ThreadsAreSafe` proves `ThreadsApart`: every thread
finds its own data, no addition is lost, and an object runs once for each call. The
invariant `ThreadInv` has three ideas. `KeyOK`: the key is made before
there is any thread of the library's, and once a thread is past `InitRun` its slot
holds its own data. `CallOK` and `RunOK`: who has called an object has it for
itself until its join returns, so that the arguments, the count of calls and the
place of the thread go together. `DepthOK` and `MutexOK`: `exc_depth` is 1 exactly
in a try, because no two threads share their data, and who is between lock and
unlock holds the mutex, also after others have thrown out of a `with`. There is
one lemma for each action, `CallKeeps` to `LeaveKeeps`.

**CelloMapProofs.** For any keys, values and maps to assign, under `LtOrders`: `lt`
is a strict total order on the keys. Without it the theorems are false: the
`String_Lt` of the library is none, which is the run `map_strings`.
(`SourcesAreMaps` says only what kind of thing is assigned.) `NodesFound` proves
`EveryNodeFound`, the search for the key of any node ends at that node, and
`MapIsKeyedMap` that the Map implements `KeyedMap` (`IsKeyedMap`), through every
way a node can leave the tree and in the middle of an assignment. The
invariant has two parts. `IsTree`: the paths of the tree are closed under taking the
parent. `Ordered`: a node below another on one side has a key on that side of it.
From `IsTree` a search has one end (`OneEnd`, `HasEnd`), and that is what `End`
computes (`EndIs`). A node with at most one child is replaced by the subtree below
it: `Raised` shortens each path in that by one place, `SplicedIsTree` and
`SplicedIsOrdered` say that the result is a tree in order again, since two nodes
of the subtree stay above or below, left or right of one another. A node with two
children gets the key of its neighbour in order, and `FarthestOrders` is why it may:
that neighbour stands between the key removed and every other key of the tree.
`ListIsBound` proves that the list of keys repeats none and has only keys that are
in the tree; that it has all of them is false, which is the run `map_discard`.

**CelloResourceProofs.** `ResourcesHeldOnce` proves `HeldOnce` for any numbers of Files,
streams and Modules: an open stream belongs to one File, whose pointer it is, and
is at a place in that File's contents; a library is loaded as often as Modules hold
it, and all that whatever fails. What a failed `fclose` costs is said in it: a File may
then have an address that is no stream of its own, but only one in `failed`; even so
the File that opened a stream has it for as long as it is open, whoever else has its
address. `SystemServes` says only that
`NULL` is no stream or name, that there is a name, and that the Modules are finitely
many. `FilesOK` is stated of any Files, streams and contents, because
`File_Open` closes and then opens, and between the two there is no state. The
libraries are counted by the Modules that hold them (`Holding`).
`PoolIsBalanced` proves `PoolCounts` for any objects, finitely many owners and any
bound on what each retains: an object whose count nobody has set otherwise
has that of the retains not yet released, and is not deleted while there is one.
Retains are counted as tokens, pairs of an owner and a number up to what it holds,
so that one retain or release is one element of a finite set more or less.

**CbasicProofs, hash tables.** Under `HashAssumption` (there is a bucket, and the
hashes of the items' keys are natural numbers), and for any memory,
`ChainedIsItemTable` proves that the chained table implements `ItemTable`, call by
call and answer by answer, and `SizeIsCardinality` that its size is the number of
its items. The invariant `IInv`: each item is in the bucket of its key, and no key
is in the table twice. `SearchIsWhole` then says that a search of one bucket is a
search of the table, `Inserts` and `Takes` what the table has after a list was
extended or cut.

`OpenIsItemTable` proves the same of the open-addressed table,
for any number of places and any two hash functions, also such as reach a part of
the places only. `OpenAssumption`: there is a place, the hashes are natural
numbers, and no item is equal to the sentinel. The invariant `OpenInv` is the reason
why a removal must leave the sentinel: `Reached`, the probes for an item meet no
NULL before they come to the item (vacated places are not NULL, and nothing but
`ohtbl_destroy` makes a place NULL again); `Single`, no key is there twice. From
them `Finds`: the search of a key ends at its item if there is one, and otherwise
at a NULL or nowhere. `Refuses` gives the other half of the promise: an item is
refused only when the table has `Guarantee` items, the least number of places that
the probes of a key reach, because all of that key's places are then in use, by
items with distinct keys. The mutant `DeleteToNull` breaks `Reached`.

**CbasicProofs, the graph.** For any vertices and any memory, `GraphIsWhole` proves
`GraphWellFormed` (a vertex has one adjacency list, no list repeats a vertex or has
one that the graph lacks, and `vcount` and `ecount` are the sizes of the sets) and
`GraphIsItsSets` proves `IsGraph`: a call that answers 0 makes the change its name
says to the sets of vertices and edges, and one that does not makes none. The
invariant `GraphInv` is stated of any graph `g`: `Linked(g)` and `Numbered(g)`.
`EdgesAre` reads the set of edges off the lists; that a removed vertex leaves no edge
behind is where `Closed`, and the two refusals of `graph_rem_vertex`, are needed.
`ListChanged` covers both calls on edges: a change of one list is one of a single
vertex's edges. `FS_AddElement` and `FS_RemoveElement` give the counts.

Only model-checked:

* liveness (`Reclaimed`, `Progress`, `CallsReturn`, `Settled`, `LoopsEnd`,
  `ThreadsReturn`), which is out of the prover's reach;
* what a recursive operator or a fold computes for every input, which takes an
  induction over data: the library's induction theorems take an operator as a
  parameter, and no prover here can instantiate that. These are the algorithms,
  codecs, sorts and numbers of Cbasic (`AlgorithmsRight`, `SortsAndSearches`,
  `CodecsRestore`, `NumbersRight`), the values and texts of libCello (`ValuesRight`),
  the reading of a linked list or a binary tree from its pointers
  (`ListsAreSequences`, most of `StructuresWhole`), the rehashing of a Table and a
  Dictionary, the Tree and the Array, whose in-place sort is recursive, and the
  copy of a Map, which is put together key by key.

The properties of `MCCello` and `MCCbasic` that join a conjunct for each component
are checked as a whole and proved in parts: `HeldOnce` and `PoolCounts` of
`ContainersWhole`, with the half of `ListedBound` that `ListIsBound` states;
`SizeCounts` and `GraphWellFormed` of `StructuresWhole`; `IsItemTable` of
`TablesAreSets` for both tables; `IsGraph` of `TreesAndGraphsAnswer`. Where a proof
needs no more than a least or greatest element (the first probe that ends a search,
the highest free block, the shortest path to the end of a search), it takes it from
`WFMin` and `NatLessThanWellFounded` of `WellFoundedInduction`, which take sets.

## 7. What the checks found

Runs that expect a violation; the findings in `PROJECT.json` quote what the code,
its documents or its tests say.

* `format_race` - `__sync_val_compare_and_swap` returns the old value even if it
  does not swap (`6/cstring.c:304`). If another thread takes the buffer and a
  third one puts back its own between the load and the swap, a thread prints
  into a buffer that is still cached. It takes three threads: `format` shows
  that two are safe.
* `format_args` - `cstring_format` prints again from a `va_list` that has been
  consumed (`6/cstring.c:311,318,355`). `6/test.c:22` does that.
* `refcount_overflow` - the saturation test and the addition are separate
  (`6/cstring.c:193-196`); two threads that see 65535 wrap the count and go on
  counting.
* `exception_nested` - `exc_active` stays set after a handler has run, so when a
  `try` nested in the body of another handles an exception, the outer `catch`
  finds it again at the normal end of its body.
* `map_discard` - when a key's node has two children, `Map_Discard` discards the
  neighbour that takes its place with the public `discard`, which takes that
  key off the list as well (`4/src/Map.c:196`). The tree is still right:
  `IsKeyedMap` holds. But `len`, `contains`, iteration, `copy` and `==` have lost
  a key that `get` finds, and `clear` leaves its node in the tree.
* `map_strings` - `String_Lt` answers as soon as any pair of characters differs
  the right way (`4/src/String.c:116`), so that "b" and "aa" are each less than
  the other, and a Map of Strings loses a key in five calls.

Settings of a constant with which TLC finds a property violated, where the code
leaves it to the caller or to the machine:

* `MayMove = TRUE` in `CelloTree`: a smaller `realloc` moves the Array of keys in
  the middle of `Tree_Discard`, which goes on with the freed key (`Tree.c:123,222`);
* `MayNest = TRUE` in `CelloList`: a loop over a list in the body of another
  leaves the one cursor where it ended (`List.c:289`);
* two starters in `CelloThread`: both make the key (`Thread.c:206`), and a
  thread finds the data of the main thread instead of its own;
* `MayRemoveHead = TRUE` in `CircularList`: `clist_rem_next` frees the element that
  `head` names (`clist.c:188`);
* `LongWords = 2` in `Compression`: where `long` has 64 bits `lz77.c:282` sends the
  other half of each token; `CodeBits = 1` stands for Huffman codes longer than
  their field (`huffman.c:339`).

Behaviour that the models state as it is, and a reader may not expect: a failed
insertion leaks what `frames.c:91`, `events.c:43` and the array of `directls.c` had
allocated; Huffman data of one symbol only has codes of no bits (`huffman.c:603`);
`root` with `n = 0` does no step and still says that it stored one value
(`root.c:67`); `hashpjw` may be negative once
the sign bit is reached; `Type_New` writes no end to its table (`Type.c:54`), and a
class that a type lists without the method asked for goes to a parent that may be
NULL (`Type.c:153,213`); an object without a `Show` is printed at position 0
(`Format.c:51`); `String_Look` always throws (`String.c:305`); `Module_Call` takes the
name off the back of its arguments (`Module.c:115`); `lambda_flip` reverses the
caller's own list (`Lambda.h:32`); `Int_Abs` is that of an `int`; equal Reals 0 and
-0, and equal containers, have different hashes; `File_Read` may give fewer bytes
than were asked for; `File_Close` throws before it clears the pointer when `fclose`
fails (`File.c:60`), so that the File keeps the address of a stream that is gone, which
`HeldOnce` allows for; `Module_Copy` hands `new` a `char*` that is no object
(`Module.c:39`); the draft `insert_sort` overwrites an element
(`1/temp/insert_sort.c:60`). In `3/`, the left-left rotation of `bistree.c:21` sets
one balance factor twice (`AvlTree` has it as a variant that `StructuresWhole`
rejects), and `graph_is_adjacent` (`graph.c:247`) answers -1 instead of 0 for a
vertex that is not in the graph.

## 8. Not modelled, and why

Memory: C's weak memory model (the code uses full barriers at every shared
update, but plain loads of `type`, `ref`, `cache` and of literals); a failing
`malloc` in cstring (the code asserts that it does not) and in libCello's
containers, and inside the algorithms of Cbasic, which then return -1. Arguments
of `cstring_cat` and `cstring_printf` that point into the buffer itself, and keys
of a Table that are in its own array: `6/README.md` calls such strings invalid
after the call. Bodies of a `try` left by `return`, and signals inside
`Exception_Inc`. A Thread that is called outside of any `try`: where no thread can be
made the throw ends the program, so that in `CelloThread` each call stands in a
`try` of its own, whose depth is counted. Places outside of an Array or a List, for
which `Array_Push_At` has no check (`Array.c:187`), the caller keeping to valid ones.
Two things in `Format.c`: `scan_from_vl` writes `%n` behind the piece it has copied to
`fmt_buf`, which has room for the format only (`Format.c:227,274`), so that a format that
is one literal or one specifier overruns it; and a format that ends in a single `%` is
read past its end (`Format.c:113`). `CelloFormat` has well-formed formats, and scans
them as if `fmt_buf` were large enough. The recursion of `qksort`, which has no bound:
a partition that returns the last position is a step of **Sorting** that changes
nothing, since the same range is to be sorted, and how often the random pivots allow
that is not a question that a state or fairness can answer. `Thread_Assign` and `Thread_Copy`, which copy a pthread and its
`jmp_buf`s and stop at the first class that is missing; `Mutex_Assign`, which
copies the mutex onto itself (`Thread.c:382`); `Function_Copy`. The Windows
branches. The rounding of floating point and the layout of printed numbers, flags
and widths; the packing of bits into bytes; file, terminal and console I/O. The
random generators in `1/temp`; the example and test programs of all directories;
`1/` and `3/`, other editions of the code of `2/source`, but for the differences
named above; `5/`, third-party code.

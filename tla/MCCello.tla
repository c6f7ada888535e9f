------------------------------- MODULE MCCello -------------------------------
(***************************************************************************)
(* The components of libCello.  A behaviour is one of a single component,  *)
(* the one that part names: the exceptions, the threads or the Map, with   *)
(* the variables of CelloException, CelloThread or CelloMap, or another,   *)
(* which lends its variables from mem, ret, more, rest and past.           *)
(***************************************************************************)
EXTENDS CelloException, CelloThread, CelloMap, TLC

CONSTANTS TypeError, KeyError,
          t1, t2, m1,    \* two Thread objects and the thread of main
          v1, v2         \* values

VARIABLES part, mem, ret, more, rest, past

lent  == <<mem, ret, more, rest, past>>
cvars == <<vars, tvars, mvars, part, lent>>

Unused == <<>>

-----------------------------------------------------------------------------
\* Two objects, a catch for one of them, for each, and for all.
MCFilters == {{}, {TypeError}, {TypeError, KeyError}}

\* A thread that libCello did not make and two that it made, which call each
\* other; the second is called by both.
MCMaxCalls == t1 :> 2 @@ t2 :> 1

\* Values with a long of four bits, an int of three and texts of two letters.
Values == INSTANCE CelloValue
            WITH LongBits <- 4, IntBits <- 3, Chars <- 1 .. 2, MaxText <- 3
\* A map of four keys: a node with two children whose neighbour in order has
\* a child of its own needs that many.  Other maps are assigned that are empty
\* or share a key with what a clear may leave behind.
MCKeys    == 1 .. 4
MCLess    == {pair \in MCKeys \X MCKeys : pair[1] < pair[2]}
MCSources == {<<>>, << <<3, v1>>, <<1, v2>> >>}

\* The Strings "b", "aa" and "ab" as keys, in the order of String_Lt.
WordKeys == {<<2>>, <<1, 1>>, <<1, 2>>}
Words == INSTANCE CelloMap
            WITH md <- mem, inorder_opt <- more, loop <- ret, source <- rest,
                 Keys <- WordKeys, Vals <- {v1}, Sources <- {<<>>},
                 Less <- {pair \in WordKeys \X WordKeys : Values!StringLt(pair[1], pair[2])}

\* The table has one bucket, then two, and from four keys on four, for which
\* there is no prime left; the lists hold repeated items, and what follows them
\* in memory is different from all.
Table == INSTANCE CelloTable
            WITH tab <- mem, thrown <- ret, Keys <- 1 .. 4, Vals <- 1 .. 2,
                 Hash <- <<2, 5, 7, 9>>, Primes <- <<1, 2>>
Array == INSTANCE CelloArray WITH ad <- mem, thrown <- ret, Items <- 1 .. 3, MaxItems <- 5
List  == INSTANCE CelloList
            WITH lo <- mem, looping <- more, seen <- rest, thrown <- ret,
                 Objects <- 1 .. 3, MaxItems <- 3, Junk <- 0, MayNest <- FALSE
\* A tree of five keys, whose array of keys, which gives memory back on the way
\* from five to four, stays where it is.
TreeKeys == 1 .. 5
Tree == INSTANCE CelloTree
            WITH td <- mem, inorder_opt <- more, phase <- ret, pending <- rest,
                 Keys <- TreeKeys, Vals <- {v1},
                 Less <- {pair \in TreeKeys \X TreeKeys : pair[1] < pair[2]},
                 Sources <- {<<>>, << <<3, v1>>, <<1, v1>> >>}, MayMove <- FALSE
\* Of the keys of the dictionary two are equal, and its buckets are one, two
\* and three.
Dictionary == INSTANCE CelloDictionary
            WITH dict <- mem, thrown <- ret, Objects <- 1 .. 5, Value <- <<1, 1, 2, 3, 4>>,
                 HashOf <- <<2, 5, 7, 9>>, Vals <- 1 .. 2, Primes <- <<1, 2, 3>>
Lists  == UNION {[1 .. n -> {Values!IntOf(i) : i \in {-3, 0, 2}}] : n \in 0 .. 3}
\* Three types, so that what a parent lists can come from its own parent.
Type == INSTANCE CelloType
            WITH lists <- mem, parent <- ret, Types <- {t1, t2, m1}, Methods <- {v1, v2}
\* Two files of two items; three modules of two libraries.
Resource == INSTANCE CelloResource
            WITH f <- mem, streams <- more, data <- rest, dl <- ret, failed <- past,
                 Files <- {t1, t2}, Streams <- 1 .. 3, Modules <- {},
                 Names <- {v1, v2}, Items <- {1}, MaxData <- 2
Library == INSTANCE CelloResource
            WITH f <- mem, streams <- more, data <- rest, dl <- ret, failed <- past,
                 Files <- {}, Streams <- {}, Modules <- {t1, t2, m1},
                 Names <- {v1, v2}, Items <- {}, MaxData <- 0
\* Formats of three pieces.
Format == INSTANCE CelloFormat
            WITH Literals <- {<<"x">>, <<" ">>, <<" ", "x">>, <<"x", " ">>},
                 Args <- [c \in {"li", "$", "s", "c"} |->
                            IF c = "s" THEN {<<"x">>, <<"1", "-">>}
                            ELSE IF c = "c" THEN {"x", " "} ELSE {-2, 0, 3}]
\* Values, containers of two, and containers of an Array and a Map of two.
Shown ==
    LET pair == <<Format!Leaf("Int", <<"1">>), Format!Leaf("Pool", <<>>)>>
    IN  Format!Leaves \cup Format!Holders(Format!Leaves)
          \cup Format!Holders({Format!Obj("Array", <<>>, pair, <<>>),
                                Format!Obj("Map", <<>>, <<pair[1]>>, <<pair[1]>>)})
Pool  == INSTANCE CelloPool
            WITH tab <- mem, deleted <- more, held <- ret, touched <- rest,
                 Objects <- 1 .. 2, Owners <- {t1, t2}, MaxCount <- 2

-----------------------------------------------------------------------------
NoneMore == more = Unused /\ rest = Unused
Unlent   == ret = Unused /\ NoneMore
NoPast   == part \notin {"File", "Module"} => past = Unused

CelloInit ==
    /\ Init /\ ThreadInit /\ MapInit
    /\ \/ part \in {"exception", "Thread", "Map"} /\ mem = Unused /\ Unlent
       \/ part = "Table"     /\ Table!Init /\ NoneMore
       \/ part = "Array"     /\ Array!Init /\ NoneMore
       \/ part = "List"      /\ List!Init
       \/ part = "Pool"      /\ Pool!Init
       \/ part = "Tree"      /\ Tree!Init
       \/ part = "Dictionary" /\ Dictionary!Init /\ NoneMore
       \/ part = "Type"      /\ Type!Init /\ NoneMore
       \/ part = "File"      /\ Resource!Init
       \/ part = "Module"    /\ Library!Init
       \/ part = "Format"    /\ mem \in Format!Formats(3) /\ Unlent
       \/ part = "Show"      /\ mem \in Shown /\ Unlent
       \/ part = "Value"     /\ mem \in Values!Values /\ Unlent
       \/ part = "Values"    /\ mem \in Lists /\ Unlent
       \/ part = "Types"     /\ mem = Unused /\ Unlent
    /\ NoPast

OthersKept == UNCHANGED <<part, lent>>
NotShared  == UNCHANGED <<vars, tvars, mvars, part>>
Alone      == NotShared /\ UNCHANGED past

ExceptionStep == part = "exception" /\ Next /\ UNCHANGED <<tvars, mvars>> /\ OthersKept
ThreadOnly(A) == part = "Thread" /\ A /\ UNCHANGED <<vars, mvars>> /\ OthersKept
MapOnly(A)    == part = "Map" /\ A /\ UNCHANGED <<vars, tvars>> /\ OthersKept
ThreadStep    == ThreadOnly(ThreadNext)
MapStep       == MapOnly(MapNext)
TableStep     == part = "Table" /\ Table!Next /\ Alone /\ UNCHANGED <<more, rest>>
ArrayStep     == part = "Array" /\ Array!Next /\ Alone /\ UNCHANGED <<more, rest>>
ListStep      == part = "List" /\ List!Next /\ Alone
TreeStep      == part = "Tree" /\ Tree!Next /\ Alone
DictionaryStep == part = "Dictionary" /\ Dictionary!Next /\ Alone /\ UNCHANGED <<more, rest>>
TypeStep      == part = "Type" /\ Type!Next /\ Alone /\ UNCHANGED <<more, rest>>
FileStep      == part = "File" /\ Resource!Next /\ NotShared
ModuleStep    == part = "Module" /\ Library!Next /\ NotShared
PoolStep      == part = "Pool" /\ Pool!Next /\ Alone

CelloNext ==
    \/ ExceptionStep \/ ThreadStep \/ MapStep
    \/ TableStep \/ ArrayStep \/ ListStep \/ PoolStep
    \/ TreeStep \/ DictionaryStep \/ TypeStep \/ FileStep \/ ModuleStep

\* The library goes on with a call it is in, and a thread that it made with
\* its body; nothing obliges a program to call.
CatchGoesOn  == part = "exception" /\ Catch /\ UNCHANGED <<tvars, mvars>> /\ OthersKept
MapGoesOn    == MapOnly(Loop)
TreeGoesOn   == part = "Tree" /\ Tree!Loop /\ Alone
ThreadGoesOn(t) == ThreadOnly(InBody(t))
MainGoesOn   == ThreadOnly(InCall(m1))

CelloSpec ==
    /\ CelloInit /\ [][CelloNext]_cvars
    /\ WF_cvars(CatchGoesOn)
    /\ WF_cvars(MapGoesOn)
    /\ WF_cvars(TreeGoesOn)
    /\ WF_cvars(MainGoesOn)
    /\ \A t \in Threads : WF_cvars(ThreadGoesOn(t))

\* A Map by itself, with integers and with Strings as keys.
MapAlone  == CelloInit /\ part = "Map" /\ [][MapStep]_cvars
WordsSpec ==
    /\ Init /\ ThreadInit /\ MapInit /\ part = "Words" /\ past = Unused /\ Words!MapInit
    /\ [][Words!MapNext /\ Alone]_cvars

-----------------------------------------------------------------------------
\* The search for the key of a node of a Map ends at that node also when the
\* keys are Strings.
EveryWordFound == Words!EveryNodeFound

\* Discarding a key takes no other key off the list, as the test of Map says:
\* "PT_ASSERT(len(m0) is 2)" after one of three keys was discarded
\* (4/tests/data.c:1402).
OthersStay == [][TakesOne]_cvars

\* A thread that was made ends, and a join of main returns, whoever the thread
\* that it waits for is waiting for, unless a throw has left a with and the
\* mutex locked.
ThreadsReturn == ThreadEnds(t1) /\ JoinReturns(m1)

\* clear and assign return, of a Map and of a Tree: each discard of the first
\* key in the list takes it off the list.
LoopsEnd ==
    /\ InLoop ~> ~InLoop
    /\ (part = "Tree" /\ Tree!InLoop) ~> (part = "Tree" /\ ~Tree!InLoop)

\* The containers of libCello agree with themselves: the list of a Map and the
\* Array of a Tree name no key twice and none that the nodes lack, and a copy
\* has the same bindings; the array of keys of a Table and of a Dictionary goes
\* with the buckets, through every rehash; a foreach over a List follows the
\* items in it, although some are repeated and the slots behind the last keep
\* what was popped; the memory of an Array has room for its items; the count
\* of an object in a Pool is that of its owners' retains.
ContainersWhole ==
    /\ part = "Map"   => ListedBound
    /\ part = "Tree"  => Tree!TreeWhole
    /\ part = "Table" => Table!TableWhole
    /\ part = "Dictionary" => Dictionary!DictionaryWhole
    /\ part = "List"  => List!LoopFollows /\ List!ListWhole
    /\ part = "Array" => Array!RoomForAll
    /\ part = "Pool"  => Pool!PoolCounts
    /\ part = "File"   => Resource!HeldOnce
    /\ part = "Module" => Library!HeldOnce

\* put and discard on a Tree, a Table and a Dictionary are those of a map; a
\* foreach over a List ends after its last item; sort and reverse of an Array
\* keep its items.
ContainersAnswer ==
    [][/\ part = "Tree"  => Tree!IsTree
       /\ part = "Table" => Table!IsTable
       /\ part = "Dictionary" => Dictionary!IsDictionary
       /\ part = "List"  => List!LoopComplete
       /\ part = "Type"  => Type!InheritsOnly
       /\ part = "Array" => Array!SortsInPlace]_cvars

\* eq, lt, hash, the conversions, the arithmetic and the operations on texts
\* and on lists agree with each other and with what they stand for.
ValuesRight ==
    /\ part = "Value" =>
        /\ Values!ComparesRight(mem) /\ Values!AssignsRight(mem)
        /\ mem.type = "Int" => Values!ComputesRight(mem)
        /\ mem.type = "String" => Values!TextsRight(mem.val)
        /\ mem.type = "Real" => Values!RealsRight(mem)
    /\ part = "Values" => Values!ListsRight(mem) /\ Values!CallsRight(mem)
    /\ part = "Format" => Format!FormatsRight(mem)
    /\ part = "Show"   => Format!ShowsRight(mem)
    /\ part = "Type"   => Type!DispatchRight
    /\ part = "Types"  => Type!TypesServe
=============================================================================

------------------------------- MODULE CelloType -------------------------------
(***************************************************************************)
(* The types of libCello (4/src/Type.c) and how a call finds the function  *)
(* for an object: the table of a type lists classes, a class is a record   *)
(* of methods, any of which may be NULL, and a type that does not list a   *)
(* class asks its parent.  One class is modelled, with its methods.  The     *)
(* tables of the library's own types, which have no parents, are below.    *)
(***************************************************************************)
EXTENDS Integers, Sequences, FiniteSets, Functions, TLC

CONSTANTS Types, Methods, NULL

VARIABLES
    lists,    \* for each type the methods of its record of the class, or NULL
    parent    \* for each type the object of its __Parent entry, or NULL

vars == <<lists, parent>>

Ancestors(t) ==     \* t, its parent and so on
    LET Up[S \in SUBSET Types] ==
            LET next == S \cup ({parent[s] : s \in S} \ {NULL})
            IN  IF next = S THEN S ELSE Up[next]
    IN  Up[{t}]

\* Type_New: types are made in one piece and have no parent.
Init ==
    /\ lists \in [Types -> SUBSET Methods \cup {NULL}]
    /\ parent = [t \in Types |-> NULL]

\* Type_Inherit; of a type by its own descendant would make every search for
\* a missing class go round for ever.
Inherit(t, p) ==
    /\ t \notin Ancestors(p)
    /\ parent' = [parent EXCEPT ![t] = p]
    /\ UNCHANGED lists

Next == \E t, p \in Types : Inherit(t, p)
Spec == Init /\ [][Next]_vars

-----------------------------------------------------------------------------
Listed(t) == lists[t] # NULL

Implements(t) ==
    LET Has[s \in Types] == Listed(s) \/ (parent[s] # NULL /\ Has[parent[s]])
    IN  Has[t]

ClassParentFirst(t) ==
    LET Of[s \in Types] ==
            IF parent[s] # NULL /\ Implements(parent[s]) THEN Of[parent[s]]
            ELSE IF Listed(s) THEN s ELSE "ClassError"
    IN  Of[t]
\* type_class: the type whose record it is, or what happens instead.
Class(t) ==
    LET Of[s \in Types] ==
            IF Listed(s) THEN s
            ELSE IF parent[s] # NULL /\ Implements(parent[s]) THEN Of[parent[s]]
            ELSE "ClassError"
    IN  Of[t]

\* Without the class it asks the parent, and in the end NULL for its entries.
ImplementsMethod(t, m) ==
    IF t = NULL \/ (t \in Types /\ ~Implements(t)) THEN "crash"
    ELSE IF m \in lists[Class(t)] THEN "yes" ELSE "no"

\* type_class_method: the type whose function is called, or what happens.
ClassMethod(t, m) ==
    LET own == ImplementsMethod(t, m)
        up  == ImplementsMethod(parent[t], m)
    IN  CASE own = "yes"   -> Class(t)
          [] own = "crash" -> "crash"
          [] OTHER -> CASE up = "yes"   -> Class(parent[t])
                        [] up = "crash" -> "crash"
                        [] OTHER        -> "ClassError"

\* eq and hash have a default for types without the class; new, delete,
\* enter_with and exit_with leave out what the record of the class has not;
\* show takes what the record has.
OrDefault(t, m) == IF ~Implements(t) THEN "default" ELSE ClassMethod(t, m)
IfGiven(t, m) ==
    CASE ImplementsMethod(t, m) = "yes" -> ClassMethod(t, m)
      [] ImplementsMethod(t, m) = "no"  -> "skipped"
      [] OTHER -> "crash"
Show(t, m) ==
    IF ~Implements(t) THEN "default"
    ELSE IF m \in lists[Class(t)] THEN Class(t) ELSE "crash"

-----------------------------------------------------------------------------
\* Nearer(s, r, t): on the way up from t, s comes before r.
Nearer(s, r, t) == s \in Ancestors(t) /\ r \in Ancestors(s) /\ r # s

\* DispatchRight: a function that is called is one that a type on the way up
\* has; it is that of the nearest that lists the class, if that has it, and
\* else that of the nearest above the parent; the default is for objects
\* without the class only, and what is optional never ends in a ClassError.
DispatchRight ==
    \A t \in Types, m \in Methods :
        LET r == ClassMethod(t, m)
            nearest == {s \in Ancestors(t) :
                            Listed(s) /\ \A q \in Ancestors(t) : Listed(q) => ~Nearer(q, s, t)}
        IN  /\ Cardinality(nearest) = IF Implements(t) THEN 1 ELSE 0
            /\ r \in Types => r \in Ancestors(t) /\ m \in lists[r]
            /\ \A s \in nearest :
                /\ m \in lists[s] => r = s /\ IfGiven(t, m) = s /\ Show(t, m) = s
                /\ m \notin lists[s] => r # s /\ IfGiven(t, m) = "skipped"
            /\ (OrDefault(t, m) = "default") = (nearest = {})
            /\ IfGiven(t, m) # "ClassError"

\* InheritsOnly: inheriting changes what is called for no type that lists the
\* class with the method, and for none that does not descend from the heir.
InheritsOnly ==
    \A t \in Types :
        parent'[t] # parent[t] =>
            \A s \in Types, m \in Methods :
                \/ t \notin Ancestors(s) \/ (Listed(s) /\ m \in lists[s])
                    => ClassMethod(s, m)' = ClassMethod(s, m)
-----------------------------------------------------------------------------
\* The classes and the methods each declares, in the order of its members.
\* Prelude.h, of objects and of what contains some:
ObjectClasses ==
    "New" :> <<"construct_vl", "destruct", "size">> @@ "Assign" :> <<"assign">>
    @@ "Copy" :> <<"copy">> @@ "Eq" :> <<"eq">> @@ "Ord" :> <<"gt", "lt">> @@ "Hash" :> <<"hash">>
    @@ "Collection" :> <<"len", "clear", "contains", "discard">>
    @@ "Sort" :> <<"sort">> @@ "Reverse" :> <<"reverse">> @@ "Append" :> <<"append">>
    @@ "Iter" :> <<"iter_start", "iter_end", "iter_next">>
\* of access, conversions, blocks and streams:
AccessClasses ==
    "Push" :> <<"push", "push_at", "push_back", "push_front", "pop", "pop_at", "pop_back", "pop_front">>
    @@ "At" :> <<"at", "set">> @@ "Dict" :> <<"get", "put">>
    @@ "AsChar" :> <<"as_char">> @@ "AsStr" :> <<"as_str">>
    @@ "AsLong" :> <<"as_long">> @@ "AsDouble" :> <<"as_double">>
    @@ "With" :> <<"enter", "exit">>
    @@ "Stream" :> <<"stream_open", "stream_close", "stream_seek", "stream_tell",
                     "stream_flush", "stream_eof", "stream_read", "stream_write">>
    @@ "Serialize" :> <<"serial_read", "serial_write">>
\* and those that the other headers declare.
NumClass     == "Num"     :> <<"add", "sub", "mul", "div", "negate", "absolute">>
CallClass    == "Call"    :> <<"call_with">>
ProcessClass == "Process" :> <<"current", "join", "terminate">>
LockClass    == "Lock"    :> <<"lock", "unlock", "lock_try">>
RetainClass  == "Retain"  :> <<"retain", "release">>
FormatClass  == "Format"  :> <<"format_to", "format_from">>
ShowClass    == "Show"    :> <<"show", "look">>

Declared == ObjectClasses @@ AccessClasses @@ NumClass @@ CallClass @@ ProcessClass
                @@ LockClass @@ RetainClass @@ FormatClass @@ ShowClass

\* The record of a class that is initialised with the type's functions for its
\* members, but for those in others.
Instances(classes, others) ==
    [c \in classes |-> IF c \in DOMAIN others THEN others[c] ELSE Declared[c]]

\* The entries of each type, and the records they point at.
ShowOnly == "Show" :> <<"show", NULL>>
PushBack ==
    "Push" :> <<"push_back", "push_at", "push_back", "push_front",
                "pop_back", "pop_at", "pop_back", "pop_front">> @@ "Append" :> <<"push_back">>
ArrayEntries == {"New", "Assign", "Copy", "Eq", "Collection", "Push", "At", "Iter",
                 "Reverse", "Append", "Sort", "Show"}
ArrayType    == Instances(ArrayEntries, PushBack @@ ShowOnly)
ListEntries  == {"New", "Assign", "Copy", "Eq", "Collection", "Push", "At", "Iter",
                 "Reverse", "Append", "Sort", "Show"}
ListType     == Instances(ListEntries, PushBack @@ ShowOnly)
MapEntries   == {"New", "Assign", "Copy", "Eq", "Collection", "Dict", "Iter", "Show"}
MapType      == Instances(MapEntries, ShowOnly)
TreeEntries  == {"New", "Assign", "Copy", "Eq", "Collection", "Dict", "Iter", "Show"}
TreeType     == Instances(TreeEntries, ShowOnly)
TableEntries == {"New", "Assign", "Copy", "Eq", "Collection", "Dict", "Iter", "Show"}
TableType    == Instances(TableEntries, ShowOnly)
DictionaryEntries == {"New", "Assign", "Copy", "Eq", "Collection", "Dict", "Iter", "Show"}
DictionaryType    == Instances(DictionaryEntries, ShowOnly)
BoolEntries  == {"Eq", "Ord", "Hash", "AsChar", "AsLong", "AsDouble", "AsStr", "Show"}
BoolType     == Instances(BoolEntries, ShowOnly)
CharEntries  == {"New", "Assign", "Copy", "Eq", "Ord", "Hash", "AsChar", "Serialize", "Show"}
CharType     == Instances(CharEntries, <<>>)
IntEntries   == {"New", "Assign", "Copy", "Eq", "Ord", "Hash", "AsLong", "AsDouble", "Num",
                 "Serialize", "Show"}
IntType      == Instances(IntEntries, <<>>)
RealEntries  == {"New", "Assign", "Copy", "Eq", "Ord", "Hash", "AsDouble", "AsLong", "Num",
                 "Serialize", "Show"}
RealType     == Instances(RealEntries, <<>>)
StringEntries == {"New", "Assign", "Copy", "Eq", "Ord", "Collection", "Hash", "Reverse",
                  "AsStr", "Append", "Format", "Show"}
StringType   == Instances(StringEntries, <<>>)
FileEntries  == {"New", "With", "Stream", "Dict", "Format"}
FileType     == Instances(FileEntries, "With" :> <<NULL, "stream_close">>)
FunctionEntries == {"New", "Copy", "Assign", "Call"}
FunctionType == Instances(FunctionEntries, <<>>)
ModuleEntries == {"New", "Copy", "Assign", "With", "Dict", "Call"}
ModuleType   == Instances(ModuleEntries, "Dict" :> <<"get", NULL>>)
PoolEntries  == {"New", "Retain", "Collection", "Dict"}
PoolType     == Instances(PoolEntries, <<>>)
ReferenceEntries == {"New", "Assign", "Copy", "Eq", "Hash", "At", "With", "Show"}
ReferenceType == Instances(ReferenceEntries, "With" :> <<NULL, "exit">> @@ ShowOnly)
ThreadEntries == {"New", "Assign", "Copy", "Call", "Process", "AsLong"}
ThreadType   == Instances(ThreadEntries, <<>>)
MutexEntries == {"New", "Assign", "Copy", "With", "Lock"}
MutexType    == Instances(MutexEntries, "With" :> <<"lock", "unlock">>)
TypeEntries  == {"New", "AsStr", "Show"}
TypeType     == Instances(TypeEntries, ShowOnly)

Library ==
    [Array |-> ArrayType, List |-> ListType, Map |-> MapType, Tree |-> TreeType,
     Table |-> TableType, Dictionary |-> DictionaryType, Bool |-> BoolType, Char |-> CharType,
     Int |-> IntType, Real |-> RealType, String |-> StringType, File |-> FileType,
     Function |-> FunctionType, Module |-> ModuleType, Pool |-> PoolType,
     Reference |-> ReferenceType, Thread |-> ThreadType, Mutex |-> MutexType, Type |-> TypeType]
Keyed == {"Map", "Tree", "Table", "Dictionary"}

AllMethods == UNION {{Declared[c][i] : i \in DOMAIN Declared[c]} : c \in DOMAIN Declared}
ClassWith(m) == CHOOSE c \in DOMAIN Declared : \E i \in DOMAIN Declared[c] : Declared[c][i] = m

\* The function that a call of method m finds in the table of a type.
Answer(type, m) ==
    LET c == ClassWith(m)
    IN  IF c \notin DOMAIN Library[type] THEN "absent"
        ELSE Library[type][c][CHOOSE i \in DOMAIN Declared[c] : Declared[c][i] = m]

\* What the functions of Prelude.c ask of the type of their argument.  Most are
\* the method of that name; the others, up to len:
ObjectCalls ==
    "new_vl" :> <<"size", "construct_vl">> @@ "delete" :> <<"destruct">>
    @@ "neq" :> <<"eq">> @@ "ge" :> <<"lt">> @@ "le" :> <<"gt">>
\* up to at:
Foreach == <<"iter_start", "iter_end", "iter_next">>
CollectionCalls ==
    "is_empty" :> <<"len">> @@ "maximum" :> <<"len", "at">> \o Foreach
    @@ "minimum" :> <<"len", "at">> \o Foreach @@ "foreach" :> Foreach
\* and the rest.
BlockCalls == "enter_with" :> <<"enter">> @@ "exit_with" :> <<"exit">>
                @@ "enter_for" :> <<"enter">> @@ "exit_for" :> <<"exit">>
Calls == ObjectCalls @@ CollectionCalls @@ BlockCalls @@ [m \in AllMethods |-> <<m>>]
Served(type, f) == \A i \in DOMAIN Calls[f] : Answer(type, Calls[f][i]) \notin {"absent", NULL}

-----------------------------------------------------------------------------
\* What an object is: Undefined and the Bools are known by their addresses, the
\* others by their first entry, and that of a type is NULL.
Object(address, entry) == [address |-> address, entry |-> entry]
TypeOf(x) ==
    CASE x.address = "Undefined"         -> "ValueError"
      [] x.address \in {"True", "False"} -> "Bool"
      [] x.address = "elsewhere"         -> IF x.entry = NULL THEN "Type" ELSE x.entry
Cast(x, type) ==
    IF TypeOf(x) \in {type, "ValueError"} THEN TypeOf(x) ELSE "TypeError"

\* The table of a type: type_data ends it with an entry that is NULL, Type_New
\* with the last of the classes that it was given.
TypeBegin       == <<"__Type", "__Name", "__Parent">>
InOrder(classes) ==     \* in some order
    LET Of[S \in SUBSET classes] ==
            IF S = {} THEN <<>> ELSE LET c == CHOOSE c \in S : TRUE IN <<c>> \o Of[S \ {c}]
    IN  Of[classes]
TypeData(names) == TypeBegin \o names \o <<NULL>>
TypeNew(names)  == TypeBegin \o names
\* The loop of Type_Name and of all the searches.
Lookup(table, name) ==
    LET stops == {i \in DOMAIN table : table[i] \in {name, NULL}}
    IN  IF stops = {} THEN "past the end"
        ELSE IF table[CHOOSE i \in stops : \A j \in stops : i <= j] = NULL THEN "absent"
        ELSE "found"

\* TypesServe: in the tables of the library's types a call finds the function
\* that is meant, and not its neighbour in the record; what leaves a with is
\* never missing where with can be used; who can be copied can be made and
\* assigned; maximum, minimum and foldr can be asked of what has places, and
\* not of all that a foreach goes over; and the types whose equal objects have
\* different hashes are the containers.  An object can be cast to its own type
\* only.  A type that is made while the program runs has the classes and the
\* name of the one that is written down, but a search for a class that it has
\* not leads out of its table.
TypesServe ==
    \A type \in DOMAIN Library :
        /\ \A m \in AllMethods :
            Answer(type, m) \in {m, "absent", NULL} \cup
                CASE m \in {"push", "append"} -> {"push_back"}
                  [] m = "pop"   -> {"pop_back"}
                  [] m = "enter" -> {"lock"}
                  [] m = "exit"  -> {"unlock", "stream_close"}
                  [] OTHER -> {}
        /\ \A m \in AllMethods \ {"look", "put", "enter"} : Answer(type, m) # NULL
        /\ Answer(type, "enter") # "absent" => Served(type, "exit_with")
        /\ Answer(type, "copy") # "absent" => Served(type, "new_vl") /\ Served(type, "assign")
        /\ Served(type, "foreach") => (Served(type, "maximum") <=> type \notin Keyed)
        /\ Answer(type, "hash") # "absent" \/ Answer(type, "gt") # "absent" => Served(type, "eq")
        /\ (Served(type, "eq") /\ ~Served(type, "hash"))
            <=> type \in Keyed \cup {"Array", "List"}
        /\ \A other \in DOMAIN Library, address \in {"elsewhere", "True", "Undefined"} :
            Cast(Object(address, other), type) = type
                <=> IF address = "elsewhere" THEN other = type
                    ELSE address = "True" /\ type = "Bool"
        /\ Cast(Object("elsewhere", NULL), type) = type <=> type = "Type"
        /\ LET names == InOrder(DOMAIN Library[type])
           IN  \A name \in DOMAIN Declared \cup Range(TypeBegin) :
                LET has == name \in Range(TypeBegin) \cup DOMAIN Library[type]
                IN  /\ Lookup(TypeData(names), name) = IF has THEN "found" ELSE "absent"
                    /\ Lookup(TypeNew(names), name) = IF has THEN "found" ELSE "past the end"
=============================================================================

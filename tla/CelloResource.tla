----------------------------- MODULE CelloResource -----------------------------
(***************************************************************************)
(* The objects of libCello that hold something of the system: File         *)
(* (4/src/File.c) a stream, Module (4/src/Module.c) a loaded library.      *)
(* fopen, fclose, fread, fwrite, fseek and dlopen are modelled from how    *)
(* these files use them.  Any of them may fail, and the call then throws;  *)
(* a write or a seek that fails is a call that changes nothing.            *)
(*                                                                         *)
(* A File whose fclose has failed keeps the address of a stream that is    *)
(* gone.  What a call does with it is undefined: it fails or ends the      *)
(* program, or it reaches the stream that fopen has put there since.       *)
(***************************************************************************)
EXTENDS Integers, Sequences, FiniteSets

CONSTANTS Files, Streams, Modules, Names, Items, MaxData, NULL

VARIABLES
    f,         \* for each File object its FILE pointer, or NULL
    streams,   \* the open streams: the File that opened it, a position, and
               \* whether the end was met
    data,      \* for each File the items in the file that it opens
    failed,    \* history: the addresses of which an fclose has failed
    dl         \* mods: for each Module object its name and lib, a name or NULL;
               \* loaded: for each name how often it was loaded and not closed

vars  == <<f, streams, data, failed, dl>>
fvars == <<f, streams, data, failed>>

Init ==
    /\ f = [x \in Files |-> NULL]
    /\ streams = [s \in {} |-> [of |-> NULL, pos |-> 0, eof |-> FALSE]]
    /\ data = [x \in Files |-> <<>>]
    /\ failed = {}
    /\ dl = [mods |-> [x \in Modules |-> [name |-> CHOOSE n \in Names : TRUE, lib |-> NULL]],
             loaded |-> [n \in Names |-> 0]]

-----------------------------------------------------------------------------
\* Files.
Fopen(open, s, x) ==
    [t \in DOMAIN open \cup {s} |->
        IF t = s THEN [of |-> x, pos |-> 0, eof |-> FALSE] ELSE open[t]]
Fclose(open, s) == [t \in DOMAIN open \ {s} |-> open[t]]

\* File_Close.  The stream is gone also if fclose fails, but then the call
\* throws before it clears the pointer.
CloseThrows(x) ==
    /\ f[x] # NULL
    /\ streams' = Fclose(streams, f[x])
    /\ failed' = failed \cup {f[x]}
    /\ UNCHANGED <<f, data, dl>>
CloseClears(x) ==
    /\ f[x] # NULL
    /\ streams' = Fclose(streams, f[x])
    /\ f' = [f EXCEPT ![x] = NULL]
    /\ UNCHANGED <<data, failed, dl>>
Close(x) == CloseClears(x) \/ CloseThrows(x)

\* File_Delete, which frees the File unless the close throws; a new File is
\* made in the same place.
Delete(x) == f[x] # NULL /\ Close(x)

\* File_Open closes what is open first, which may throw, and keeps the NULL of
\* an fopen that fails; with "w" the file is empty afterwards.
Left(x) == IF f[x] = NULL THEN streams ELSE Fclose(streams, f[x])
Opened(x, access) ==
    /\ \/ \E s \in Streams \ DOMAIN Left(x) :
            /\ f' = [f EXCEPT ![x] = s]
            /\ streams' = Fopen(Left(x), s, x)
            /\ data' = IF access = "w" THEN [data EXCEPT ![x] = <<>>] ELSE data
       \/ f' = [f EXCEPT ![x] = NULL] /\ streams' = Left(x) /\ UNCHANGED data
    /\ UNCHANGED <<failed, dl>>
Open(x, access) == Opened(x, access) \/ CloseThrows(x)

\* There is a stream at the address that x has, mostly its own.
InUse(x) == f[x] \in DOMAIN streams
Own(x)   == InUse(x) /\ streams[f[x]].of = x
At(x)    == streams[f[x]].pos
Owner(x) == streams[f[x]].of
MoveTo(x, pos, eof) ==
    streams' = [streams EXCEPT ![f[x]] = [of |-> @.of, pos |-> pos, eof |-> eof]]

\* File_Write, by way of File_Put and the object's serial_write.
Put(x, item) ==
    /\ InUse(x) /\ At(x) < MaxData
    /\ data' = [data EXCEPT ![Owner(x)] = SubSeq(@, 1, At(x)) \o <<item>>
                                               \o SubSeq(@, At(x) + 2, Len(@))]
    /\ MoveTo(x, At(x) + 1, streams[f[x]].eof)
    /\ UNCHANGED <<f, failed, dl>>

\* File_Read: fread returns 0 at the end, which is not taken for a failure.
Get(x) ==
    /\ InUse(x)
    /\ IF At(x) < Len(data[Owner(x)]) THEN MoveTo(x, At(x) + 1, streams[f[x]].eof)
       ELSE MoveTo(x, At(x), TRUE)
    /\ UNCHANGED <<f, data, failed, dl>>

\* File_EOF, which a File that is read to its end does not say yet.
EOF(x) == InUse(x) /\ streams[f[x]].eof

\* File_Seek to a place in the file.
Seek(x, pos) ==
    /\ InUse(x) /\ pos \in 0 .. Len(data[Owner(x)])
    /\ MoveTo(x, pos, FALSE)
    /\ UNCHANGED <<f, data, failed, dl>>

-----------------------------------------------------------------------------
\* Modules.  m is an object with its name and lib.
Exited(loaded, m) == IF m.lib = NULL THEN loaded ELSE [loaded EXCEPT ![m.lib] = @ - 1]

\* Module_Enter closes what is loaded; dlopen may find no such library.
EnterWith(x, name) ==
    LET loaded == Exited(dl.loaded, dl.mods[x])
        Now(lib, counts) ==
            dl' = [mods |-> [dl.mods EXCEPT ![x] = [name |-> name, lib |-> lib]], loaded |-> counts]
    IN  /\ Now(name, [loaded EXCEPT ![name] = @ + 1]) \/ Now(NULL, loaded)
        /\ UNCHANGED fvars
Enter(x)     == EnterWith(x, dl.mods[x].name)
Assign(x, y) == EnterWith(x, dl.mods[y].name)
New(x, name) == dl.mods[x].lib = NULL /\ EnterWith(x, name)

\* Module_Copy gives new the characters of the name where Module_New expects
\* an object: as_str takes a type from them.  That ends in a throw, or in the
\* name of whatever text it comes to.
Copy(x) == dl.mods[x].lib = NULL /\ ((\E name \in Names : New(x, name)) \/ UNCHANGED vars)

\* Module_Exit, and Module_Delete as far as it.
Exit(x) ==
    /\ dl' = [mods |-> [dl.mods EXCEPT ![x].lib = NULL],
              loaded |-> Exited(dl.loaded, dl.mods[x])]
    /\ UNCHANGED fvars

Next ==
    \/ \E x \in Files :
        \/ \E access \in {"r", "w"} : Open(x, access)
        \/ Close(x) \/ Delete(x) \/ Get(x)
        \/ \E item \in Items : Put(x, item)
        \/ \E pos \in 0 .. MaxData : Seek(x, pos)
    \/ \E x \in Modules :
        \/ Enter(x) \/ Exit(x) \/ Copy(x)
        \/ \E y \in Modules : Assign(x, y)
        \/ \E name \in Names : New(x, name)

Spec == Init /\ [][Next]_vars

-----------------------------------------------------------------------------
\* HeldOnce: whatever failed, no stream is left behind: the File that opened it
\* still has it.  A File has nothing but its own stream, unless an fclose of
\* that address has failed (File_Close); so two Files share one only after
\* that.  A stream is never past the end of its file, and is at it when it says
\* so; a library is loaded as often as there are Modules that hold it.
HeldOnce ==
    /\ \A s \in DOMAIN streams : f[streams[s].of] = s
    /\ \A x \in Files : f[x] \in {NULL} \cup failed \/ Own(x)
    /\ \A s \in DOMAIN streams :
        /\ streams[s].pos <= Len(data[streams[s].of])
        /\ streams[s].eof => streams[s].pos = Len(data[streams[s].of])
    /\ \A n \in Names : dl.loaded[n] = Cardinality({x \in Modules : dl.mods[x].lib = n})
    /\ \A x \in Modules : dl.mods[x].lib \in {NULL, dl.mods[x].name}
=============================================================================

---------------------------- MODULE CStringFormat ----------------------------
(***************************************************************************)
(* cstring_format (6/cstring.c): formatting into a scratch buffer that the *)
(* threads pass on through one static pointer, cache, without a lock.      *)
(*                                                                         *)
(* A text is known by the thread that wrote it and by what it says: the    *)
(* caller's arguments (args); other values, and in another length, when a  *)
(* va_list is used again that vsnprintf has consumed (other); or nothing,  *)
(* when vsnprintf has failed (none).                                       *)
(* Lengths are counted in doublings of FORMAT_TEMP_SIZE: 0 fits the        *)
(* scratch buffer, k needs a buffer of 2^k times its size.                 *)
(***************************************************************************)
EXTENDS Integers, FiniteSets

CONSTANTS Threads,
          Blocks,  \* the addresses malloc can return
          NULL,
          MaxLen   \* bound: the longest text, in doublings

ASSUME FormatAssumption == NULL \notin Blocks /\ MaxLen \in Nat

VARIABLES
    cache,   \* static char * cache
    live,    \* the blocks that malloc has returned and free has not taken
    text,    \* what was last written into each block; nothing once freed
    pc,      \* where each thread is in cstring_format
    temp,    \* its local temp
    result,  \* its local result
    sz,      \* the size of the block result points to, in doublings
    fresh,   \* ap has not been consumed yet
    out      \* the text copied into the string that is returned

vars == <<cache, live, text, pc, temp, result, sz, fresh, out>>

Texts  == [by : Threads, says : {"args", "other", "none"}]
NoText == NULL
PCs    == {"idle", "read", "take", "malloc", "print", "grow", "printbig",
           "copy", "nocopy", "freeresult", "save", "freetemp", "ret"}

TypeOK ==
    /\ cache \in Blocks \cup {NULL}
    /\ live \subseteq Blocks
    /\ text \in [Blocks -> Texts \cup {NoText}]
    /\ pc \in [Threads -> PCs]
    /\ temp \in [Threads -> Blocks \cup {NULL}]
    /\ result \in [Threads -> Blocks \cup {NULL}]
    /\ sz \in [Threads -> 0 .. MaxLen]
    /\ fresh \in [Threads -> BOOLEAN]
    /\ out \in [Threads -> Texts \cup {NoText}]

Init ==
    /\ cache = NULL
    /\ live = {}
    /\ text = [b \in Blocks |-> NoText]
    /\ pc = [t \in Threads |-> "idle"]
    /\ temp = [t \in Threads |-> NULL]
    /\ result = [t \in Threads |-> NULL]
    /\ sz = [t \in Threads |-> 0]
    /\ fresh = [t \in Threads |-> FALSE]
    /\ out = [t \in Threads |-> NoText]

Goto(t, l) == pc' = [pc EXCEPT ![t] = l]

-----------------------------------------------------------------------------
\* cstring_printf calls cstring_format with a fresh ap when the buffer's
\* string is on the heap, and with the ap it has just printed from when the
\* text did not fit the stack.
Call(t) ==
    /\ pc[t] = "idle"
    /\ \E f \in BOOLEAN : fresh' = [fresh EXCEPT ![t] = f]
    /\ Goto(t, "read")
    /\ UNCHANGED <<cache, live, text, temp, result, sz, out>>

\* char * temp = cache; if (temp) ...
ReadCache(t) ==
    /\ pc[t] = "read"
    /\ temp' = [temp EXCEPT ![t] = cache]
    /\ Goto(t, IF cache = NULL THEN "malloc" ELSE "take")
    /\ UNCHANGED <<cache, live, text, result, sz, fresh, out>>

\* temp = __sync_val_compare_and_swap(&cache, temp, NULL): whether or not
\* the swap happened, temp becomes what cache was.
TakeUnconditionally(t) ==
    /\ pc[t] = "take"
    /\ cache' = NULL
    /\ Goto(t, "print")
    /\ UNCHANGED <<live, text, temp, result, sz, fresh, out>>
TakeSpins(t) ==
    /\ pc[t] = "take"
    /\ \/ cache = temp[t] /\ cache' = NULL /\ Goto(t, "print")
       \/ cache # temp[t] /\ UNCHANGED cache /\ Goto(t, "read")
    /\ UNCHANGED <<live, text, temp, result, sz, fresh, out>>
Take(t) ==
    /\ pc[t] = "take"
    /\ temp' = [temp EXCEPT ![t] = cache]
    /\ cache' = IF cache = temp[t] THEN NULL ELSE cache
    /\ Goto(t, IF cache = NULL THEN "malloc" ELSE "print")
    /\ UNCHANGED <<live, text, result, sz, fresh, out>>

Malloc(t) ==
    /\ pc[t] = "malloc"
    /\ \E b \in Blocks \ live :
        /\ live' = live \cup {b}
        /\ temp' = [temp EXCEPT ![t] = b]
    /\ Goto(t, "print")
    /\ UNCHANGED <<cache, text, result, sz, fresh, out>>

\* vsnprintf(b, ..., format, ap) consumes ap; the length n that it returns is
\* any, and may differ from one call to the next, or is -1.
Vsnprintf(t, b, n) ==
    /\ text' = [text EXCEPT ![b] =
                    [by |-> t, says |-> IF n < 0 THEN "none"
                                        ELSE IF fresh[t] THEN "args" ELSE "other"]]
    /\ fresh' = [fresh EXCEPT ![t] = FALSE]

\* What was printed, n letters and the NUL, is copied; of -1 none at all.
Printed(n) == IF n < 0 THEN "nocopy" ELSE "copy"

PrintTemp(t) ==
    /\ pc[t] = "print"
    /\ \E n \in -1 .. MaxLen :
        /\ Vsnprintf(t, temp[t], n)
        /\ \/ n > 0 /\ Goto(t, "grow") /\ UNCHANGED result
           \/ /\ n <= 0
              /\ result' = [result EXCEPT ![t] = temp[t]]
              /\ Goto(t, Printed(n))
    /\ UNCHANGED <<cache, live, temp, sz, out>>

\* The text was too long: a block of twice the size.  result is NULL, or
\* the block that was too small, which is freed first.
Grow(t) ==
    /\ pc[t] = "grow"
    /\ \E b \in Blocks \ (live \ {result[t]}) :
        /\ live' = (live \ {result[t]}) \cup {b}
        /\ text' = [c \in Blocks |->
                        IF c \in {b, result[t]} THEN NoText ELSE text[c]]
        /\ result' = [result EXCEPT ![t] = b]
    /\ sz' = [sz EXCEPT ![t] = @ + 1]
    /\ Goto(t, "printbig")
    /\ UNCHANGED <<cache, temp, fresh, out>>

PrintBig(t) ==
    /\ pc[t] = "printbig"
    /\ \E n \in -1 .. MaxLen :
        /\ Vsnprintf(t, result[t], n)
        /\ Goto(t, IF n > sz[t] THEN "grow" ELSE Printed(n))
    /\ UNCHANGED <<cache, live, temp, result, sz, out>>

\* The string to return gets a block of its own, and a copy of the text; if
\* nothing was printed, its letters are never set.
Copy(t) ==
    /\ pc[t] \in {"copy", "nocopy"}
    /\ out' = [out EXCEPT ![t] = IF pc[t] = "copy" THEN text[result[t]]
                                 ELSE [by |-> t, says |-> "none"]]
    /\ Goto(t, IF temp[t] # result[t] THEN "freeresult" ELSE "save")
    /\ UNCHANGED <<cache, live, text, temp, result, sz, fresh>>

FreeResult(t) ==
    /\ pc[t] = "freeresult"
    /\ live' = live \ {result[t]}
    /\ text' = [text EXCEPT ![result[t]] = NoText]
    /\ result' = [result EXCEPT ![t] = NULL]
    /\ Goto(t, "save")
    /\ UNCHANGED <<cache, temp, sz, fresh, out>>

\* __sync_bool_compare_and_swap(&cache, NULL, temp): the buffer is kept for
\* the next call, or freed when there is one already.
SaveOverwrites(t) ==
    /\ pc[t] = "save"
    /\ cache' = temp[t]
    /\ Goto(t, "ret")
    /\ UNCHANGED <<live, text, temp, result, sz, fresh, out>>
Save(t) ==
    /\ pc[t] = "save"
    /\ cache' = IF cache = NULL THEN temp[t] ELSE cache
    /\ Goto(t, IF cache = NULL THEN "ret" ELSE "freetemp")
    /\ UNCHANGED <<live, text, temp, result, sz, fresh, out>>

FreeTemp(t) ==
    /\ pc[t] = "freetemp"
    /\ live' = live \ {temp[t]}
    /\ text' = [text EXCEPT ![temp[t]] = NoText]
    /\ Goto(t, "ret")
    /\ UNCHANGED <<cache, temp, result, sz, fresh, out>>

Return(t) ==
    /\ pc[t] = "ret"
    /\ Goto(t, "idle")
    /\ temp' = [temp EXCEPT ![t] = NULL]
    /\ result' = [result EXCEPT ![t] = NULL]
    /\ sz' = [sz EXCEPT ![t] = 0]
    /\ out' = [out EXCEPT ![t] = NoText]
    /\ UNCHANGED <<cache, live, text, fresh>>

Step(t) ==
    \/ ReadCache(t) \/ Take(t) \/ Malloc(t) \/ PrintTemp(t) \/ Grow(t)
    \/ PrintBig(t) \/ Copy(t) \/ FreeResult(t) \/ Save(t) \/ FreeTemp(t)
    \/ Return(t)

Next == \E t \in Threads : Call(t) \/ Step(t)

Spec == Init /\ [][Next]_vars

\* No step waits for another thread: a thread that runs finishes its call.
FairSpec == Spec /\ \A t \in Threads : WF_vars(Step(t))

-----------------------------------------------------------------------------
\* The blocks a thread is using, until it gives temp back at Save.
Scratch(t) ==
    CASE pc[t] \in {"print", "grow", "printbig", "copy", "nocopy", "freeresult",
                    "save", "freetemp"} -> {temp[t], result[t]} \ {NULL}
      [] OTHER -> {}

\* A scratch buffer belongs to the thread that took it out of the cache or
\* allocated it: no other thread prints into it, no other thread finds it in
\* the cache, and it has not been freed ("read cache buffer atomic").
ScratchExclusive ==
    /\ \A t, u \in Threads : t # u => Scratch(t) \cap Scratch(u) = {}
    /\ \A t \in Threads : Scratch(t) \subseteq live \ {cache}
    /\ cache # NULL => cache \in live

\* Every thread is given the text it printed itself, and not what another
\* thread printed into the same memory or the rest of an earlier text.
OwnText ==
    \A t \in Threads :
        pc[t] \in {"freeresult", "save", "freetemp", "ret"} => out[t].by = t

\* Nothing leaks: what is allocated is cached or in use by a call, so that
\* between calls the library keeps one scratch buffer at most.
NothingLeaks ==
    live \subseteq {cache} \cup UNION {Scratch(t) : t \in Threads}

\* Losing a race for the cache never makes a call wait: each one returns,
\* whatever the other threads do and however often the text must be grown.
CallsReturn == \A t \in Threads : (pc[t] # "idle") ~> (pc[t] = "idle")

\* The text returned is the one the caller's arguments describe, whatever
\* its length (test.c prints a 1041 character text and shows it), or none.
ArgumentsPrinted ==
    \A t \in Threads : pc[t] = "ret" => out[t].says # "other"
=============================================================================

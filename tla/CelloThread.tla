----------------------------- MODULE CelloThread -----------------------------
(***************************************************************************)
(* The threads of libCello (4/src/Thread.c): a Thread object is called and *)
(* joined, the thread that runs it finds its data through a key made by    *)
(* the first call, and a Mutex is held for the length of a with.  Every    *)
(* body is try { with (m in mutex) { total = total + 1; } } catch (e) { }, *)
(* and a Thread is called in a try of its own, try { call(t); }            *)
(* catch (e) { }, which a call that can make no thread leaves by a throw.  *)
(* A thread joins what it has called before it ends, and an object is      *)
(* called again only after that.                                           *)
(***************************************************************************)
EXTENDS Integers, Sequences, FiniteSets

CONSTANTS Threads,     \* Thread objects; the thread that runs t is called t
          Starters,    \* threads that libCello did not make, as that of main
          MainData,    \* main_thread_wrapper
          NULL,
          MaxCalls     \* bounds: how often each object is called

Actors  == Threads \cup Starters
Holders == Threads \cup {MainData}

VARIABLES
    lib,    \* the statics: created, key and slots; the mutex; the total; and
            \* whether a with was left by a throw
    td,     \* the ThreadData of each object, and of main_thread_wrapper
    os      \* where each thread is, and what it has in hand

tvars == <<lib, td, os>>

\* Thread_New; calls and ran count over all objects that t has been.
NewData(calls, ran) ==
    [args |-> <<>>, thread |-> FALSE, running |-> FALSE,
     exc_depth |-> 0, caller |-> NULL, calls |-> calls, ran |-> ran]

ThreadInit ==
    /\ lib = [created |-> FALSE, key |-> 0, slots |-> <<>>,
              mutex |-> NULL, total |-> 0, added |-> 0, left |-> FALSE]
    /\ td = [x \in Holders |-> NewData(0, 0)]
    /\ os = [a \in Actors |-> [pc |-> IF a \in Starters THEN "run" ELSE "none",
                               obj |-> NULL, read |-> 0, tried |-> FALSE, got |-> 0]]

At(a, pc)  == os[a].pc = pc
Go(a, pc)  == os' = [os EXCEPT ![a].pc = pc]
NoSlot     == [a \in Actors |-> NULL]

\* Before the key is made it is 0, as if no thread had set it.
Current(a) ==
    IF lib.key # 0 /\ lib.slots[lib.key][a] # NULL THEN lib.slots[lib.key][a]
    ELSE MainData

-----------------------------------------------------------------------------
\* try { call(t, args): the first call makes the key.
CallMakesKey(a, t) ==
    /\ At(a, "run") /\ t # a
    /\ td[t].caller = NULL /\ td[t].calls < MaxCalls[t]
    /\ td' = [td EXCEPT ![t].caller = a, ![t].calls = @ + 1, ![Current(a)].exc_depth = @ + 1]
    /\ os' = [os EXCEPT ![a].pc = "key", ![a].obj = t]
    /\ UNCHANGED lib
Call(a, t) ==
    /\ At(a, "run") /\ t # a
    /\ td[t].caller = NULL /\ td[t].calls < MaxCalls[t]
    /\ td' = [td EXCEPT ![t].caller = a, ![t].calls = @ + 1, ![Current(a)].exc_depth = @ + 1]
    /\ os' = [os EXCEPT ![a].pc = IF lib.created THEN "args" ELSE "key", ![a].obj = t]
    /\ UNCHANGED lib
CreateKey(a) ==
    /\ At(a, "key")
    /\ lib' = [lib EXCEPT !.slots = Append(@, NoSlot), !.key = Len(lib.slots) + 1]
    /\ Go(a, "flag")
    /\ UNCHANGED td
SetCreated(a) ==
    /\ At(a, "flag")
    /\ lib' = [lib EXCEPT !.created = TRUE]
    /\ Go(a, "args")
    /\ UNCHANGED td
SetArgs(a) ==
    /\ At(a, "args")
    /\ LET t == os[a].obj
       IN  td' = [td EXCEPT ![t].args = <<t, td[t].calls>>]
    /\ Go(a, "create")
    /\ UNCHANGED lib
CreateThread(a) ==
    /\ At(a, "create")
    /\ td' = [td EXCEPT ![os[a].obj].thread = TRUE]
    /\ os' = [os EXCEPT ![a].pc = "wrote", ![a].obj = NULL, ![os[a].obj].pc = "init"]
    /\ UNCHANGED lib
\* EAGAIN: the call throws to the catch around it, and what pthread_create
\* leaves in td->thread is not said.
CreateFails(a) ==
    /\ At(a, "create")
    /\ LET t == os[a].obj
       IN  \E stale \in {td[t].thread, TRUE} :
               td' = [td EXCEPT ![t].thread = stale, ![t].caller = NULL, ![t].ran = td[t].calls]
    /\ os' = [os EXCEPT ![a].pc = "left", ![a].obj = NULL]
    /\ UNCHANGED lib

\* Thread_Init_Run, up to the call of the function.
InitRun(t) ==
    /\ At(t, "init")
    /\ lib' = [lib EXCEPT !.slots[lib.key][t] = Head(td[t].args)]
    /\ td' = [td EXCEPT ![t].args = Tail(@)]
    /\ Go(t, "start")
SetRunning(t) ==
    /\ At(t, "start")
    /\ td' = [td EXCEPT ![t].running = TRUE]
    /\ os' = [os EXCEPT ![t].pc = "run", ![t].tried = FALSE, ![t].got = Head(td[t].args)]
    /\ UNCHANGED lib
EndRun(t) ==
    /\ At(t, "run") /\ os[t].tried
    /\ \A x \in Threads : td[x].caller # t
    /\ td' = [td EXCEPT ![t].ran = @ + 1]
    /\ Go(t, "done")
    /\ UNCHANGED lib

\* join(t): returns at once where there is no thread to wait for.
Join(a, t) ==
    /\ At(a, "run") /\ td[t].caller = a
    /\ os' = [os EXCEPT ![a].pc = "join", ![a].obj = t]
    /\ UNCHANGED <<lib, td>>
Joined(a) ==
    /\ At(a, "join")
    /\ td[os[a].obj].thread => At(os[a].obj, "done")
    /\ td' = [td EXCEPT ![os[a].obj].caller = NULL]
    /\ os' = [os EXCEPT ![a].pc = "run", ![os[a].obj].pc = "none", ![a].obj = NULL]
    /\ UNCHANGED lib

\* delete(t), which nobody has called or is still to join, and a new Thread.
Delete(a, t) ==
    /\ At(a, "run") /\ td[t].caller = NULL /\ At(t, "none")
    /\ td' = [td EXCEPT ![t] = NewData(@.calls, @.ran)]
    /\ UNCHANGED <<lib, os>>

-----------------------------------------------------------------------------
\* The body.  Exception_Inc and Exception_Dec act on current(Thread).  A try,
\* that of the body or that of a call, ends at its last statement ("wrote")
\* or in its catch, after a throw ("left").
TryBody(a) ==
    /\ At(a, "run") /\ ~os[a].tried
    /\ td' = [td EXCEPT ![Current(a)].exc_depth = @ + 1]
    /\ os' = [os EXCEPT ![a].pc = "try", ![a].tried = TRUE]
    /\ UNCHANGED lib
EndTry(a) ==
    /\ At(a, "wrote") \/ At(a, "left")
    /\ td[Current(a)].exc_depth > 0
    /\ td' = [td EXCEPT ![Current(a)].exc_depth = @ - 1]
    /\ Go(a, "run")
    /\ UNCHANGED lib

\* with: enter_for locks, exit_for unlocks; a throw passes by exit_for.
Lock(a) ==
    /\ At(a, "try") /\ lib.mutex = NULL
    /\ lib' = [lib EXCEPT !.mutex = a]
    /\ Go(a, "locked")
    /\ UNCHANGED td
\* lock_try instead, and going on without the mutex when it is not to be had.
LockTry(a) ==
    \/ Lock(a)
    \/ At(a, "try") /\ lib.mutex # NULL /\ Go(a, "wrote") /\ UNCHANGED <<lib, td>>
ReadTotal(a) ==
    /\ At(a, "locked")
    /\ os' = [os EXCEPT ![a].pc = "read", ![a].read = lib.total]
    /\ UNCHANGED <<lib, td>>
WriteTotal(a) ==
    /\ At(a, "read")
    /\ lib' = [lib EXCEPT !.total = os[a].read + 1, !.added = @ + 1]
    /\ Go(a, "written")
    /\ UNCHANGED td
UnlockForgotten(a) ==
    /\ At(a, "written")
    /\ Go(a, "wrote")
    /\ UNCHANGED <<lib, td>>
Unlock(a) ==
    /\ At(a, "written")
    /\ lib' = [lib EXCEPT !.mutex = NULL]
    /\ Go(a, "wrote")
    /\ UNCHANGED td
Leave(a) ==
    /\ Go(a, "left")
    /\ lib' = [lib EXCEPT !.left = @ \/ os[a].pc \in {"locked", "read", "written"}]
    /\ UNCHANGED td
\* Exception_Signal, once Exception_Register_Signals was called.
Signal(t) == Leave(t)
ThrowInside(a) == At(a, "written") /\ Leave(a)
\* terminate(t).
Terminate(a, t) ==
    /\ At(a, "run") /\ td[t].thread
    /\ os[t].pc \in {"try", "locked", "read", "written", "wrote"}
    /\ Signal(t)

-----------------------------------------------------------------------------
\* What a thread with lock in its body does once it has begun a call of the library or, if the
\* library made it, is running its body.
InCall(a) ==
    \/ CreateKey(a) \/ SetCreated(a) \/ SetArgs(a) \/ CreateThread(a) \/ CreateFails(a)
    \/ Joined(a) \/ EndTry(a)
    \/ Lock(a) \/ ReadTotal(a) \/ WriteTotal(a) \/ Unlock(a) \/ ThrowInside(a)
InBody(t) ==
    \/ InitRun(t) \/ SetRunning(t) \/ TryBody(t) \/ EndRun(t) \/ InCall(t)
    \/ \E x \in Threads : Join(t, x)

ThreadNext ==
    \/ \E a \in Actors :
        \/ InCall(a) \/ LockTry(a)
        \/ TryBody(a)
        \/ \E t \in Threads : Call(a, t) \/ Join(a, t) \/ Delete(a, t) \/ Terminate(a, t)
    \/ \E t \in Threads : InitRun(t) \/ SetRunning(t) \/ EndRun(t)

ThreadSpec == ThreadInit /\ [][ThreadNext]_tvars
ThreadFairSpec ==
    /\ ThreadSpec
    /\ \A t \in Threads : WF_tvars(InBody(t))
    /\ \A a \in Starters : WF_tvars(InCall(a))

-----------------------------------------------------------------------------
\* Thread_AsLong, by which threads are hashed and compared.
AsLong(t) == IF td[t].running THEN t ELSE "ValueError"

Own(a)    == IF a \in Threads THEN a ELSE MainData
Inside(a) ==
    os[a].pc \in {"key", "flag", "args", "create",
                   "try", "locked", "read", "written", "wrote", "left"}

\* ThreadsApart: threads keep apart, in three ways.
\* OwnData: every thread finds its own ThreadData, whoever made the key and
\* whatever it called in between, so that the depth of its tries is its own;
\* and in its body a thread can be told from the others.
OwnData ==
    /\ \A a \in Actors : os[a].pc \notin {"none", "init", "done"} => Current(a) = Own(a)
    /\ \A x \in Holders :
        td[x].exc_depth = Cardinality({a \in Actors : Own(a) = x /\ Inside(a)})
    /\ \A t \in Threads : Inside(t) => AsLong(t) = t

\* NoneLost: the threads that are in a with one at a time lose none of what
\* they add up.
NoneLost ==
    \A a \in Actors :
        lib.total = lib.added /\ (At(a, "read") => os[a].read = lib.total)

\* CallsRun: a thread runs with the arguments of the call that made it, and
\* every call whose join returned has run to its end.
CallsRun ==
    \A t \in Threads :
        /\ Inside(t) => os[t].got = td[t].calls
        /\ td[t].caller = NULL => td[t].ran = td[t].calls

ThreadsApart == OwnData /\ NoneLost /\ CallsRun

\* A thread that was made ends, and a join returns, unless a throw has left a
\* with, and the mutex locked.
ThreadEnds(t)  == At(t, "init") ~> (At(t, "done") \/ lib.left)
JoinReturns(a) == At(a, "join") ~> (At(a, "run") \/ lib.left)
=============================================================================

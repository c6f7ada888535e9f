--------------------------- MODULE CelloException ---------------------------
(***************************************************************************)
(* The exceptions of libCello (4/include/Cello/Exception.h and             *)
(* 4/src/Exception.c) as one thread runs them: try, throw and catch are    *)
(* macros over setjmp, longjmp and a few fields of the thread's data.      *)
(*                                                                         *)
(* frames is the nesting of try bodies and handlers the thread is in, the  *)
(* innermost last.  A jmp_buf is the place in frames that a longjmp to it  *)
(* goes back to.  A filter is the set of objects a catch lists; it lists   *)
(* none to catch all.  The program decides at each point what to do next,  *)
(* within the protocol of the README: a try body is never left by return.  *)
(***************************************************************************)
EXTENDS Integers, Sequences

CONSTANTS Objects,    \* what is thrown
          NoObject,
          Filters,    \* the argument lists of the program's catch clauses
          MaxDepth,   \* EXC_MAX_DEPTH, 2048 in the code
          MaxFrames   \* bound: the nesting of bodies and handlers

ASSUME ExceptionAssumption ==
    /\ NoObject \notin Objects
    /\ Filters \subseteq SUBSET Objects
    /\ MaxDepth \in Nat \ {0}
    /\ MaxFrames \in Nat

VARIABLES
    exc_depth,    \* td->exc_depth
    exc_buffers,  \* td->exc_buffers: the places set by setjmp
    exc_active,   \* td->exc_active
    exc_obj,      \* td->exc_obj
    frames,       \* the bodies and handlers the thread is in
    phase,        \* "run", or "catch" at the call of Exception_Catch
    status,       \* "ok", "uncaught" after Exception_Error, or "aborted"
    pending,      \* history: the object thrown and not yet handled
    thrown,       \* history: frames, as it was at that throw
    nested        \* history: a try has been run in the body of another

cello == <<exc_depth, exc_buffers, exc_active, exc_obj>>
vars  == <<cello, frames, phase, status, pending, thrown, nested>>

Frames == [kind : {"body", "handler"}, filter : Filters,
           x : Objects \cup {NoObject}]

TypeOK ==
    /\ exc_depth \in 0 .. MaxDepth
    /\ exc_buffers \in [0 .. MaxDepth - 1 -> Nat]
    /\ exc_active \in BOOLEAN
    /\ exc_obj \in Objects \cup {NoObject}
    /\ frames \in Seq(Frames)
    /\ phase \in {"run", "catch"}
    /\ status \in {"ok", "uncaught", "aborted"}
    /\ pending \in Objects \cup {NoObject}
    /\ thrown \in Seq(Frames)
    /\ nested \in BOOLEAN

\* Thread_New, and the zeroed main_thread_wrapper.
Init ==
    /\ exc_depth = 0
    /\ exc_buffers = [d \in 0 .. MaxDepth - 1 |-> 0]
    /\ exc_active = FALSE
    /\ exc_obj = NoObject
    /\ frames = <<>>
    /\ phase = "run"
    /\ status = "ok"
    /\ pending = NoObject
    /\ thrown = <<>>
    /\ nested = FALSE

Top == frames[Len(frames)]
Pop == SubSeq(frames, 1, Len(frames) - 1)

Running == status = "ok" /\ phase = "run"

Catches(filter, obj) == filter = {} \/ obj \in filter

-----------------------------------------------------------------------------
\* try: Exception_Inc, Exception_Deactivate, setjmp(Exception_Buffer()).
TryNotDeactivated(filter) ==
    /\ Running
    /\ Len(frames) < MaxFrames
    /\ exc_depth < MaxDepth
    /\ exc_depth' = exc_depth + 1
    /\ exc_buffers' = [exc_buffers EXCEPT ![exc_depth] = Len(frames) + 1]
    /\ frames' = Append(frames,
                        [kind |-> "body", filter |-> filter, x |-> NoObject])
    /\ nested' = (nested \/ exc_depth > 0)
    /\ UNCHANGED <<exc_active, exc_obj, phase, status, pending, thrown>>
Try(filter) ==
    /\ Running
    /\ Len(frames) < MaxFrames
    /\ exc_depth < MaxDepth
    /\ exc_depth' = exc_depth + 1
    /\ exc_active' = FALSE
    /\ exc_buffers' = [exc_buffers EXCEPT ![exc_depth] = Len(frames) + 1]
    /\ frames' = Append(frames,
                        [kind |-> "body", filter |-> filter, x |-> NoObject])
    /\ nested' = (nested \/ exc_depth > 0)
    /\ UNCHANGED <<exc_obj, phase, status, pending, thrown>>

\* Exception_Inc at the limit: the program aborts.
TryOverflow ==
    /\ Running
    /\ Len(frames) < MaxFrames
    /\ exc_depth = MaxDepth
    /\ status' = "aborted"
    /\ UNCHANGED <<cello, frames, phase, pending, thrown, nested>>

\* The jmp_buf of the innermost try that is open.
Buffer == exc_buffers[exc_depth - 1]

\* longjmp(Exception_Buffer(), 1): setjmp returns again, and the else
\* branch of catch runs Exception_Activate, then Exception_Dec.
JumpOutermost ==
    /\ frames' = SubSeq(frames, 1, exc_buffers[0])
    /\ exc_active' = TRUE
    /\ exc_depth' = 0
    /\ phase' = "catch"
Jump ==
    /\ frames' = SubSeq(frames, 1, Buffer)
    /\ exc_active' = TRUE
    /\ exc_depth' = exc_depth - 1
    /\ phase' = "catch"

\* With no try open, Exception_Error reports and exits.
Error ==
    /\ status' = "uncaught"
    /\ UNCHANGED <<frames, exc_active, exc_depth, phase>>
JumpOrExit ==
    \/ exc_depth >= 1 /\ Jump /\ UNCHANGED status
    \/ exc_depth = 0 /\ Error

\* throw, in a body, in a handler, or outside of both.
Throw(obj) ==
    /\ Running
    /\ exc_obj' = obj
    /\ pending' = obj
    /\ thrown' = frames
    /\ JumpOrExit
    /\ UNCHANGED <<exc_buffers, nested>>

\* A body runs to its end: Exception_Dec, and on to Exception_Catch.
EndBodyNoDec ==
    /\ Running
    /\ frames # <<>> /\ Top.kind = "body"
    /\ phase' = "catch"
    /\ UNCHANGED <<cello, frames, status, pending, thrown, nested>>
EndBody ==
    /\ Running
    /\ frames # <<>> /\ Top.kind = "body"
    /\ exc_depth # 0
    /\ exc_depth' = exc_depth - 1
    /\ phase' = "catch"
    /\ UNCHANGED <<exc_buffers, exc_active, exc_obj, frames, status, pending,
                   thrown, nested>>

\* Exception_Catch returns Undefined: the handler is skipped.
CatchNothing ==
    /\ status = "ok" /\ phase = "catch"
    /\ ~exc_active
    /\ frames' = Pop
    /\ phase' = "run"
    /\ UNCHANGED <<cello, status, pending, thrown, nested>>

\* Exception_Catch returns the object: the handler runs.  exc_active stays
\* set.
CatchHandled ==
    /\ status = "ok" /\ phase = "catch"
    /\ exc_active /\ Catches(Top.filter, exc_obj)
    /\ frames' = Append(Pop, [Top EXCEPT !.kind = "handler", !.x = exc_obj])
    /\ phase' = "run"
    /\ pending' = NoObject
    /\ thrown' = <<>>
    /\ UNCHANGED <<cello, status, nested>>

\* No match: on to the enclosing try.
CatchDropped ==
    /\ status = "ok" /\ phase = "catch"
    /\ exc_active /\ ~Catches(Top.filter, exc_obj)
    /\ frames' = Pop
    /\ phase' = "run"
    /\ UNCHANGED <<cello, status, pending, thrown, nested>>
CatchPropagated ==
    /\ status = "ok" /\ phase = "catch"
    /\ exc_active /\ ~Catches(Top.filter, exc_obj)
    /\ JumpOrExit
    /\ UNCHANGED <<exc_buffers, exc_obj, pending, thrown, nested>>

\* A handler runs to its end.
EndHandler ==
    /\ Running
    /\ frames # <<>> /\ Top.kind = "handler"
    /\ frames' = Pop
    /\ UNCHANGED <<cello, phase, status, pending, thrown, nested>>

Catch == CatchNothing \/ CatchHandled \/ CatchPropagated

Next ==
    \/ \E filter \in Filters : Try(filter)
    \/ TryOverflow
    \/ \E obj \in Objects : Throw(obj)
    \/ EndBody
    \/ Catch
    \/ EndHandler

Spec == Init /\ [][Next]_vars

\* Only the library's own steps are sure to be taken: a program may stay in
\* a body for ever.
FairSpec == Spec /\ WF_vars(Catch)

-----------------------------------------------------------------------------
\* The bodies that are open: at Exception_Catch the innermost frame is a
\* body that has been left, and has been counted off.
OpenBodies ==
    {i \in DOMAIN frames :
        frames[i].kind = "body" /\ ~(phase = "catch" /\ i = Len(frames))}

\* Every jmp_buf that can be jumped to is that of a body still running, the
\* innermost one last: a longjmp never enters a frame that has returned,
\* however throws, handlers and bodies that ended are nested.
BuffersLive ==
    status = "ok" =>
        /\ \A d \in 0 .. exc_depth - 1 : exc_buffers[d] \in OpenBodies
        /\ \A c, d \in 0 .. exc_depth - 1 : c < d => exc_buffers[c] < exc_buffers[d]
        /\ \A i \in OpenBodies : \E d \in 0 .. exc_depth - 1 : exc_buffers[d] = i

\* No body inside of frame n of the throw has a catch that lists the object.
PassedBy(n) ==
    \A i \in n + 1 .. Len(thrown) :
        thrown[i].kind = "body" => ~Catches(thrown[i].filter, pending)

\* A thrown object reaches the innermost try whose catch lists it: it stays
\* the object in hand, the tries it has passed, on the way to where it is or
\* to the end of the program, were not among them, and none was skipped.
InnermostFirst ==
    pending # NoObject =>
        /\ exc_obj = pending
        /\ status = "uncaught" => PassedBy(0)
        /\ status = "ok" =>
            /\ phase = "catch" /\ exc_active
            /\ frames = SubSeq(thrown, 1, Len(frames))
            /\ PassedBy(Len(frames))

\* A handler runs, or the program is ended, only for an object that has been
\* thrown and not handled, in a program that nests no try in the body of
\* another (README of libCello: an object that "is not handled here" is
\* passed on to an outer block).
InFlight == phase = "catch" /\ exc_active => pending # NoObject
FlatHandledOnce == ~nested => InFlight

\* The same of every program: no object is handled twice.
HandledOnce == InFlight

\* A thrown object is handled or ends the program.
Settled ==
    \A obj \in Objects :
        (pending = obj) ~> (pending = NoObject \/ status = "uncaught")
=============================================================================

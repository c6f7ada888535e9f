----------------------------- MODULE CStringRef -----------------------------
(***************************************************************************)
(* The reference count of one shared heap string of the cstring library    *)
(* (6/cstring.c): cstring_grab and cstring_release called by any number of *)
(* threads, each load, atomic operation and free of the code being a step. *)
(*                                                                         *)
(* A handle stands for one reference a client owns.  The client obeys the  *)
(* protocol of the README: it grabs a string only through a reference that *)
(* stays owned for the whole call (via), and releases each reference once. *)
(* The count is a uint16_t; RefMod is 2^16 in the code.                    *)
(***************************************************************************)
EXTENDS Integers, FiniteSets

CONSTANTS Threads,   \* the threads that call the library
          Handles,   \* the references clients can own at the same time
          NoHandle,  \* "no reference"
          RefMod     \* the values of the uint16_t ref: 0 .. RefMod-1

ASSUME RefAssumption ==
    /\ RefMod \in Nat /\ RefMod > 1
    /\ IsFiniteSet(Handles)
    /\ NoHandle \notin Handles

VARIABLES
    type,   \* s->type: 0 or PERMANENT (the only types of a heap string)
    ref,    \* s->ref
    freed,  \* free(s) has been called
    held,   \* the references clients own
    pc,     \* where each thread is in the library
    arg,    \* the reference a call is obtaining or giving up
    via,    \* the owned reference that keeps s alive during a grab
    born    \* how s came to be: never changes, not read by the code

vars == <<type, ref, freed, held, pc, arg, via, born>>

PERMANENT == 1

GrabPCs    == {"grab_type", "grab_ref", "grab_promote", "grab_add"}
ReleasePCs == {"rel_type", "rel_ref", "rel_sub"}
PCs        == {"idle", "rel_free"} \cup GrabPCs \cup ReleasePCs

Granting(t)  == pc[t] \in GrabPCs
Releasing(t) == pc[t] \in ReleasePCs

\* The references the count must cover: a release gives its reference up
\* only when it returns or subtracts.
Owners == held \cup {arg[t] : t \in {u \in Threads : Releasing(u)}}

TypeOK ==
    /\ type \in {0, PERMANENT}
    /\ ref \in 0 .. RefMod - 1
    /\ freed \in BOOLEAN
    /\ held \subseteq Handles
    /\ pc \in [Threads -> PCs]
    /\ arg \in [Threads -> Handles \cup {NoHandle}]
    /\ via \in [Threads -> Handles \cup {NoHandle}]
    /\ born \in {"fresh", "persisted", "saturated"}

-----------------------------------------------------------------------------
\* cstring_clone returns a string with one reference ("fresh");
\* cstring_persist makes it permanent before anyone else sees it; a string
\* whose count has wrapped to 0 has any number of owners left ("saturated").
Init ==
    /\ born \in {"fresh", "persisted", "saturated"}
    /\ held \in SUBSET Handles
    /\ born = "fresh" => \E h \in Handles : held = {h}
    /\ type = IF born = "persisted" THEN PERMANENT ELSE 0
    /\ ref = IF born = "fresh" THEN 1 ELSE 0
    /\ freed = FALSE
    /\ pc = [t \in Threads |-> "idle"]
    /\ arg = [t \in Threads |-> NoHandle]
    /\ via = [t \in Threads |-> NoHandle]

Goto(t, l) == pc' = [pc EXCEPT ![t] = l]

\* The call of t returns: it gives its arguments back.
Return(t) ==
    /\ Goto(t, "idle")
    /\ arg' = [arg EXCEPT ![t] = NoHandle]
    /\ via' = [via EXCEPT ![t] = NoHandle]

-----------------------------------------------------------------------------
\* cstring_grab
GrabCall(t) ==
    /\ pc[t] = "idle"
    /\ \E v \in held, h \in Handles \ Owners :
        /\ \A u \in Threads : arg[u] # h
        /\ via' = [via EXCEPT ![t] = v]
        /\ arg' = [arg EXCEPT ![t] = h]
    /\ Goto(t, "grab_type")
    /\ UNCHANGED <<type, ref, freed, held, born>>

\* A permanent string is returned as it is.
GrabType(t) ==
    /\ pc[t] = "grab_type"
    /\ \/ /\ type # 0
          /\ held' = held \cup {arg[t]}
          /\ Return(t)
       \/ /\ type = 0
          /\ Goto(t, "grab_ref")
          /\ UNCHANGED <<held, arg, via>>
    /\ UNCHANGED <<type, ref, freed, born>>

\* if (s->ref == 0): the load and the step taken on it are not atomic.
GrabRefAlwaysAdds(t) ==
    /\ pc[t] = "grab_ref"
    /\ Goto(t, "grab_add")
    /\ UNCHANGED <<type, ref, freed, held, arg, via, born>>
GrabRef(t) ==
    /\ pc[t] = "grab_ref"
    /\ Goto(t, IF ref = 0 THEN "grab_promote" ELSE "grab_add")
    /\ UNCHANGED <<type, ref, freed, held, arg, via, born>>

GrabPromote(t) ==
    /\ pc[t] = "grab_promote"
    /\ type' = PERMANENT
    /\ held' = held \cup {arg[t]}
    /\ Return(t)
    /\ UNCHANGED <<ref, freed, born>>

GrabAddForgotten(t) ==
    /\ pc[t] = "grab_add"
    /\ held' = held \cup {arg[t]}
    /\ Return(t)
    /\ UNCHANGED <<type, ref, freed, born>>
GrabAdd(t) ==
    /\ pc[t] = "grab_add"
    /\ ref' = (ref + 1) % RefMod
    /\ held' = held \cup {arg[t]}
    /\ Return(t)
    /\ UNCHANGED <<type, freed, born>>

-----------------------------------------------------------------------------
\* cstring_release
ReleaseCall(t) ==
    /\ pc[t] = "idle"
    /\ \E h \in held :
        /\ \A u \in Threads : via[u] # h
        /\ held' = held \ {h}
        /\ arg' = [arg EXCEPT ![t] = h]
    /\ Goto(t, "rel_type")
    /\ UNCHANGED <<type, ref, freed, via, born>>

RelType(t) ==
    /\ pc[t] = "rel_type"
    /\ \/ type # 0 /\ Return(t)
       \/ type = 0 /\ Goto(t, "rel_ref") /\ UNCHANGED <<arg, via>>
    /\ UNCHANGED <<type, ref, freed, held, born>>

\* A count of 0 means saturated: the string is never freed.
RelRefOffByOne(t) ==
    /\ pc[t] = "rel_ref"
    /\ \/ ref <= 1 /\ Return(t)
       \/ ref > 1 /\ Goto(t, "rel_sub") /\ UNCHANGED <<arg, via>>
    /\ UNCHANGED <<type, ref, freed, held, born>>
RelRef(t) ==
    /\ pc[t] = "rel_ref"
    /\ \/ ref = 0 /\ Return(t)
       \/ ref # 0 /\ Goto(t, "rel_sub") /\ UNCHANGED <<arg, via>>
    /\ UNCHANGED <<type, ref, freed, held, born>>

\* __sync_sub_and_fetch: the thread that brings the count to 0 frees s.
RelSubOldValue(t) ==
    /\ pc[t] = "rel_sub"
    /\ ref' = (ref - 1) % RefMod
    /\ IF ref = 0
       THEN /\ Goto(t, "rel_free")
            /\ arg' = [arg EXCEPT ![t] = NoHandle]
            /\ UNCHANGED via
       ELSE Return(t)
    /\ UNCHANGED <<type, freed, held, born>>
RelSub(t) ==
    /\ pc[t] = "rel_sub"
    /\ ref' = (ref - 1) % RefMod
    /\ \/ /\ ref' = 0
          /\ Goto(t, "rel_free")
          /\ arg' = [arg EXCEPT ![t] = NoHandle]
          /\ UNCHANGED via
       \/ ref' # 0 /\ Return(t)
    /\ UNCHANGED <<type, freed, held, born>>

RelFree(t) ==
    /\ pc[t] = "rel_free"
    /\ freed' = TRUE
    /\ Return(t)
    /\ UNCHANGED <<type, ref, held, born>>

-----------------------------------------------------------------------------
\* The steps of a call under way, and the calls a client makes.
Step(t) ==
    \/ GrabType(t) \/ GrabRef(t) \/ GrabPromote(t) \/ GrabAdd(t)
    \/ RelType(t) \/ RelRef(t) \/ RelSub(t) \/ RelFree(t)

Call(t) == GrabCall(t) \/ ReleaseCall(t)

Next == \E t \in Threads : Call(t) \/ Step(t)

Spec == Init /\ [][Next]_vars

\* No call waits for another, so a running thread always finishes its call;
\* nothing obliges a client to make one.
FairSpec == Spec /\ \A t \in Threads : WF_vars(Step(t))

-----------------------------------------------------------------------------
\* Once free(s) has been called nobody owns s, and no call is about to read,
\* write or free it again: the load, the test and the addition of grab
\* never race a release into a use after free or a double free.
NoUseAfterFree ==
    freed => held = {} /\ \A t \in Threads : pc[t] = "idle"

\* The count of a string that cstring_clone made is the number of references
\* still owned, whatever calls are half done.
CountExact == born = "fresh" => type = 0 /\ ref = Cardinality(Owners)

\* A string that is permanent, or whose count has wrapped to 0, outlives
\* every release, including one that tested type and ref before a grab
\* promoted the string (README: such strings are never freed).
Immortal == born # "fresh" => ~freed /\ \A t \in Threads : pc[t] # "rel_free"

\* When the last reference to a counted string is given up the string is
\* freed: concurrent releases cannot each leave the free to the other.
Reclaimed == (born = "fresh" /\ held = {}) ~> freed
=============================================================================

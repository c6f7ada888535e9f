--------------------------- MODULE CStringLiteral ---------------------------
(***************************************************************************)
(* CSTRING_LITERAL (6/cstring.h): a static variable that the first thread  *)
(* to run the statement initialises with a permanent string, without a     *)
(* lock, together with the interning pool that short literals come from.   *)
(* Threads may also intern names on their own, as cstring_grab and         *)
(* cstring_cat do.                                                         *)
(*                                                                         *)
(* A string is known by its address: a node of the pool is a natural       *)
(* number, a block of malloc a negative one.                               *)
(***************************************************************************)
EXTENDS CStringIntern

CONSTANTS Literals,  \* the CSTRING_LITERAL statements of the program
          Text,      \* the text of each: a name of the pool when it is short
          MaxBlocks  \* bound: the blocks malloc can hand out in a run

ASSUME LiteralAssumption ==
    /\ DOMAIN Text = Literals
    /\ \A l \in Literals : Text[l] # NoName
    /\ MaxBlocks \in Nat
    /\ NULL \notin Int \cup Literals

VARIABLES
    var,     \* the static variable of each literal
    lpc,     \* where each thread is in the statement
    lit,     \* the statement it runs
    tmp,     \* the string cstring_persist returned
    blocks,  \* the blocks allocated so far: what each one holds
    freed    \* the blocks freed

litvars  == <<var, lpc, lit, tmp, blocks, freed>>
allvars  == <<vars, litvars>>

Short(l) == Text[l] \in Names
Blocks   == {-i : i \in 1 .. MaxBlocks}
NoLit    == NULL

LiteralTypeOK ==
    /\ TypeOK
    /\ var \in [Literals -> Nat \cup Blocks \cup {NULL}]
    /\ lpc \in [Threads -> {"out", "check", "intern", "malloc", "cas", "lost"}]
    /\ lit \in [Threads -> Literals \cup {NoLit}]
    /\ tmp \in [Threads -> Nat \cup Blocks \cup {NULL}]
    /\ DOMAIN blocks \subseteq Blocks /\ \A x \in DOMAIN blocks : blocks[x] \notin Names
    /\ freed \subseteq DOMAIN blocks

LiteralInit ==
    /\ Init
    /\ var = [l \in Literals |-> NULL]
    /\ lpc = [t \in Threads |-> "out"]
    /\ lit = [t \in Threads |-> NoLit]
    /\ tmp = [t \in Threads |-> NULL]
    /\ blocks = [b \in {} |-> NoName]
    /\ freed = {}

LGoto(t, l) == lpc' = [lpc EXCEPT ![t] = l]

-----------------------------------------------------------------------------
\* A thread reaches the statement.
Enter(t, l) ==
    /\ pc[t] = "idle" /\ lpc[t] = "out"
    /\ lit' = [lit EXCEPT ![t] = l]
    /\ LGoto(t, "check")
    /\ UNCHANGED <<vars, var, tmp, blocks, freed>>

\* if (var) {} else: the plain load that decides whether to initialise.
Check(t) ==
    /\ lpc[t] = "check"
    /\ \/ /\ var[lit[t]] # NULL
          /\ LGoto(t, "out")
          /\ lit' = [lit EXCEPT ![t] = NoLit]
       \/ /\ var[lit[t]] = NULL
          /\ LGoto(t, IF Short(lit[t]) THEN "intern" ELSE "malloc")
          /\ UNCHANGED lit
    /\ UNCHANGED <<vars, var, tmp, blocks, freed>>

\* cstring_persist of a short literal calls cstring_interning ...
PersistShort(t) ==
    /\ lpc[t] = "intern"
    /\ Call(t, Text[lit[t]])
    /\ UNCHANGED litvars

\* ... and returns the node, which is not of type 0, as it is.
PersistReturn(t) ==
    /\ lpc[t] = "intern"
    /\ Return(t)
    /\ tmp' = [tmp EXCEPT ![t] = got[t]]
    /\ LGoto(t, "cas")
    /\ UNCHANGED <<var, lit, blocks, freed>>

\* cstring_persist of a long literal: a new block, made PERMANENT.
PersistLong(t) ==
    /\ lpc[t] = "malloc"
    /\ \E b \in Blocks \ DOMAIN blocks :
        /\ blocks' = [c \in DOMAIN blocks \cup {b} |->
                         IF c = b THEN Text[lit[t]] ELSE blocks[c]]
        /\ tmp' = [tmp EXCEPT ![t] = b]
    /\ LGoto(t, "cas")
    /\ UNCHANGED <<vars, var, lit, freed>>

\* __sync_bool_compare_and_swap(&var, NULL, tmp)
CasPlainStore(t) ==
    /\ lpc[t] = "cas"
    /\ var' = [var EXCEPT ![lit[t]] = tmp[t]]
    /\ LGoto(t, "out")
    /\ lit' = [lit EXCEPT ![t] = NoLit]
    /\ tmp' = [tmp EXCEPT ![t] = NULL]
    /\ UNCHANGED <<vars, blocks, freed>>
Cas(t) ==
    /\ lpc[t] = "cas"
    /\ \/ /\ var[lit[t]] = NULL
          /\ var' = [var EXCEPT ![lit[t]] = tmp[t]]
          /\ LGoto(t, "out")
          /\ lit' = [lit EXCEPT ![t] = NoLit]
          /\ tmp' = [tmp EXCEPT ![t] = NULL]
       \/ /\ var[lit[t]] # NULL
          /\ LGoto(t, "lost")
          /\ UNCHANGED <<var, lit, tmp>>
    /\ UNCHANGED <<vars, blocks, freed>>

\* cstring_free_persist: frees only what is PERMANENT, never a pool node.
FreePersistVar(t) ==
    /\ lpc[t] = "lost"
    /\ freed' = IF tmp[t] \in Blocks THEN freed \cup {var[lit[t]]} ELSE freed
    /\ LGoto(t, "out")
    /\ lit' = [lit EXCEPT ![t] = NoLit]
    /\ tmp' = [tmp EXCEPT ![t] = NULL]
    /\ UNCHANGED <<vars, var, blocks>>
FreePersist(t) ==
    /\ lpc[t] = "lost"
    /\ freed' = IF tmp[t] \in Blocks THEN freed \cup {tmp[t]} ELSE freed
    /\ LGoto(t, "out")
    /\ lit' = [lit EXCEPT ![t] = NoLit]
    /\ tmp' = [tmp EXCEPT ![t] = NULL]
    /\ UNCHANGED <<vars, var, blocks>>

\* The steps inside cstring_interning, whoever called it.
InternStep(t) == Step(t) /\ UNCHANGED litvars

\* A caller that is not a literal.
ClientCall(t) ==
    /\ lpc[t] = "out"
    /\ \E n \in Names : Call(t, n)
    /\ UNCHANGED litvars
ClientReturn(t) == lpc[t] = "out" /\ Return(t) /\ UNCHANGED litvars

LiteralStep(t) ==
    \/ Check(t) \/ PersistShort(t) \/ PersistReturn(t) \/ PersistLong(t)
    \/ Cas(t) \/ FreePersist(t)

LiteralNext ==
    \E t \in Threads :
        \/ LiteralStep(t) \/ InternStep(t)
        \/ ClientCall(t) \/ ClientReturn(t)
        \/ \E l \in Literals : Enter(t, l)

LiteralSpec == LiteralInit /\ [][LiteralNext]_allvars

\* A thread that runs finishes its call; the spin lock is not fair, so
\* nothing is assumed about which of the waiting threads gets it.
LiteralFairSpec ==
    /\ LiteralSpec
    /\ \A t \in Threads :
        WF_allvars(LiteralStep(t) \/ InternStep(t) \/ ClientReturn(t))

-----------------------------------------------------------------------------
\* A literal is written once: the thread that lost the race, or comes back
\* after it was descheduled between the load and the compare-and-swap, does
\* not replace the string other threads already hold.
WrittenOnce ==
    [][\A l \in Literals : var[l] # NULL => var'[l] = var[l]]_allvars

\* A published literal holds the text of its statement in memory that the
\* losers of the race have not freed; that of a short one is a pool node.
PublishedAlive ==
    \A l \in Literals : var[l] # NULL =>
        IF Short(l) THEN var[l] \in known[Text[l]]
        ELSE /\ var[l] \in DOMAIN blocks \ freed
             /\ blocks[var[l]] = Text[l]

\* Nothing leaks: a block that is not freed is the value of a literal or in
\* the hands of the one thread that is about to publish or free it.
NoBlockLost ==
    \A b \in DOMAIN blocks \ freed :
        \/ \E l \in Literals : var[l] = b
        \/ \E t \in Threads : tmp[t] = b

\* Some waiting thread gets the lock: a lock holder always comes back to
\* UNLOCK, and a literal never waits for itself.
Progress ==
    (\E t \in Threads : pc[t] = "lock") ~> (\E t \in Threads : pc[t] = "first")

-----------------------------------------------------------------------------
\* Values for model checking: a hash that puts every name in one bucket, and
\* literals that are known by their texts, which two statements do not share.
Colliding == [n \in Names |-> 5]
OwnWords  == [l \in Literals |-> l]
=============================================================================

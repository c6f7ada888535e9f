------------------------- MODULE CStringFormatProofs -------------------------
(***************************************************************************)
(* Proofs about CStringFormat, for any numbers of threads and blocks and   *)
(* any lengths.  Nothing leaks.  As long as no swap that failed has handed *)
(* out what it found in the cache, the scratch buffers are exclusive and   *)
(* each thread is given its own text: that value is the only way in which  *)
(* threads come to share a buffer.                                         *)
(***************************************************************************)
EXTENDS CStringFormat, TLAPS

Holding ==
    {"print", "grow", "printbig", "copy", "nocopy", "freeresult", "save", "freetemp"}
Before  == {"idle", "read", "take", "malloc", "print"}

\* What a thread has in its locals, by the place where it is.
Locals(t) ==
    /\ pc[t] \in Before => result[t] = NULL /\ sz[t] = 0
    /\ pc[t] \in Holding \cup {"take"} => temp[t] # NULL
    /\ pc[t] \in {"printbig", "copy", "nocopy"} => result[t] # NULL
    /\ pc[t] = "grow" => sz[t] < MaxLen
    /\ pc[t] \in {"save", "freetemp"} => result[t] \in {NULL, temp[t]}
LocalsOK == \A t \in Threads : Locals(t)

LEMMA InitTyped == Init => TypeOK /\ LocalsOK
BY FormatAssumption DEF Init, TypeOK, LocalsOK, Locals, PCs, Holding, Before, NoText

\* A step of t leaves the locals of the others alone, and those that it has
\* not used yet.
LEMMA StepTyped ==
    ASSUME TypeOK, LocalsOK, NEW t \in Threads, Call(t) \/ Step(t)
    PROVE  TypeOK' /\ LocalsOK'
<1>. USE FormatAssumption
<1>0. Locals(t) /\ \A u \in Threads : Locals(u)
  BY DEF LocalsOK
<1>1. CASE Call(t)
  <2>1. TypeOK'
    BY <1>1 DEF Call, Goto, TypeOK, PCs
  <2>2. LocalsOK'
    BY <1>0, <1>1 DEF Call, Goto, TypeOK, LocalsOK, Locals, Holding, Before
  <2>. QED BY <2>1, <2>2
<1>2. CASE ReadCache(t)
  <2>1. TypeOK'
    BY <1>2 DEF ReadCache, Goto, TypeOK, PCs
  <2>2. LocalsOK'
    BY <1>0, <1>2 DEF ReadCache, Goto, TypeOK, LocalsOK, Locals, Holding, Before
  <2>. QED BY <2>1, <2>2
<1>3. CASE Take(t)
  <2>1. TypeOK'
    BY <1>3 DEF Take, Goto, TypeOK, PCs
  <2>2. LocalsOK'
    BY <1>0, <1>3 DEF Take, Goto, TypeOK, LocalsOK, Locals, Holding, Before
  <2>. QED BY <2>1, <2>2
<1>4. CASE Malloc(t)
  <2>1. TypeOK'
    BY <1>4 DEF Malloc, Goto, TypeOK, PCs
  <2>2. LocalsOK'
    BY <1>0, <1>4 DEF Malloc, Goto, TypeOK, LocalsOK, Locals, Holding, Before
  <2>. QED BY <2>1, <2>2
<1>5. CASE PrintTemp(t)
  <2>1. temp[t] \in Blocks
    BY <1>0, <1>5 DEF PrintTemp, TypeOK, Locals, Holding
  <2>2. TypeOK'
    BY <1>5, <2>1 DEF PrintTemp, Vsnprintf, Printed, Goto, TypeOK, PCs, Texts
  <2>3. LocalsOK'
    BY <1>0, <1>5 DEF PrintTemp, Printed, Goto, TypeOK, LocalsOK, Locals, Holding, Before
  <2>. QED BY <2>2, <2>3
<1>6. CASE Grow(t)
  <2>1. TypeOK'
    BY <1>0, <1>6 DEF Grow, Goto, TypeOK, PCs, Locals
  <2>2. LocalsOK'
    BY <1>0, <1>6 DEF Grow, Goto, TypeOK, LocalsOK, Locals, Holding, Before
  <2>. QED BY <2>1, <2>2
<1>7. CASE PrintBig(t)
  <2>1. result[t] \in Blocks
    BY <1>0, <1>7 DEF PrintBig, TypeOK, Locals
  <2>2. TypeOK'
    BY <1>7, <2>1 DEF PrintBig, Vsnprintf, Printed, Goto, TypeOK, PCs, Texts
  <2>3. LocalsOK'
    BY <1>0, <1>7 DEF PrintBig, Printed, Goto, TypeOK, LocalsOK, Locals, Holding, Before
  <2>. QED BY <2>2, <2>3
<1>8. CASE Copy(t)
  <2>1. result[t] \in Blocks
    BY <1>0, <1>8 DEF Copy, TypeOK, Locals
  <2>2. TypeOK'
    BY <1>8, <2>1 DEF Copy, Goto, TypeOK, PCs, Texts
  <2>3. LocalsOK'
    BY <1>0, <1>8 DEF Copy, Goto, TypeOK, LocalsOK, Locals, Holding, Before
  <2>. QED BY <2>2, <2>3
<1>9. CASE FreeResult(t)
  <2>1. TypeOK'
    BY <1>9 DEF FreeResult, Goto, TypeOK, PCs
  <2>2. LocalsOK'
    BY <1>0, <1>9 DEF FreeResult, Goto, TypeOK, LocalsOK, Locals, Holding, Before
  <2>. QED BY <2>1, <2>2
<1>10. CASE Save(t)
  <2>1. TypeOK'
    BY <1>10 DEF Save, Goto, TypeOK, PCs
  <2>2. LocalsOK'
    BY <1>0, <1>10 DEF Save, Goto, TypeOK, LocalsOK, Locals, Holding, Before
  <2>. QED BY <2>1, <2>2
<1>11. CASE FreeTemp(t)
  <2>1. TypeOK'
    BY <1>11 DEF FreeTemp, Goto, TypeOK, PCs
  <2>2. LocalsOK'
    BY <1>0, <1>11 DEF FreeTemp, Goto, TypeOK, LocalsOK, Locals, Holding, Before
  <2>. QED BY <2>1, <2>2
<1>12. CASE Return(t)
  <2>1. TypeOK'
    BY <1>12 DEF Return, Goto, TypeOK, PCs
  <2>2. LocalsOK'
    BY <1>0, <1>12 DEF Return, Goto, TypeOK, LocalsOK, Locals, Holding, Before
  <2>. QED BY <2>1, <2>2
<1>. QED
  BY <1>1, <1>2, <1>3, <1>4, <1>5, <1>6, <1>7, <1>8, <1>9, <1>10, <1>11, <1>12 DEF Step

\* Typing: every variable keeps its type, and a call never grows its text
\* past the longest one.
THEOREM Typing == Spec => []TypeOK
<1>1. Init => TypeOK /\ LocalsOK
  BY InitTyped
<1>2. TypeOK /\ LocalsOK /\ [Next]_vars => TypeOK' /\ LocalsOK'
  <2>1. CASE UNCHANGED vars
    BY <2>1 DEF vars, TypeOK, LocalsOK, Locals
  <2>. QED BY <2>1, StepTyped DEF Next
<1>. QED BY <1>1, <1>2, PTL DEF Spec

-----------------------------------------------------------------------------
(* What a thread holds.                                                    *)

LEMMA ScratchHeld ==
    ASSUME NEW t \in Threads
    PROVE  /\ pc[t] \in Holding => Scratch(t) = {temp[t], result[t]} \ {NULL}
           /\ pc[t] \notin Holding => Scratch(t) = {}
BY DEF Scratch, Holding

LEMMA ScratchHeldNext ==
    ASSUME NEW t \in Threads
    PROVE  /\ pc'[t] \in Holding => Scratch(t)' = {temp'[t], result'[t]} \ {NULL}
           /\ pc'[t] \notin Holding => Scratch(t)' = {}
BY DEF Scratch, Holding

\* A step changes the locals of one thread only.
LEMMA OthersKeep ==
    ASSUME TypeOK, NEW t \in Threads, Call(t) \/ Step(t), NEW u \in Threads, u # t
    PROVE  /\ pc'[u] = pc[u] /\ temp'[u] = temp[u] /\ result'[u] = result[u]
           /\ out'[u] = out[u]
           /\ Scratch(u)' = Scratch(u)
<1>1. pc'[u] = pc[u] /\ temp'[u] = temp[u] /\ result'[u] = result[u] /\ out'[u] = out[u]
  BY DEF TypeOK, Step, Goto, Call, ReadCache, Take, Malloc, PrintTemp, Grow, PrintBig,
         Printed, Copy, FreeResult, Save, FreeTemp, Return
<1>. QED BY <1>1, ScratchHeld, ScratchHeldNext

-----------------------------------------------------------------------------
(* Leaks.                                                                  *)

Kept(x) == x = cache \/ \E u \in Threads : x \in Scratch(u)

LEMMA LeakStep ==
    ASSUME TypeOK, LocalsOK, NothingLeaks, NEW t \in Threads, Call(t) \/ Step(t)
    PROVE  NothingLeaks'
<1>. USE FormatAssumption
<1>0. Locals(t)
  BY DEF LocalsOK
<1>1. \A x \in live : Kept(x)
  BY DEF NothingLeaks, Kept
<1>2. \A u \in Threads : u # t => Scratch(u)' = Scratch(u)
  BY OthersKeep
<1>3. /\ pc[t] \in Holding => Scratch(t) = {temp[t], result[t]} \ {NULL}
      /\ pc[t] \notin Holding => Scratch(t) = {}
      /\ pc'[t] \in Holding => Scratch(t)' = {temp'[t], result'[t]} \ {NULL}
      /\ pc'[t] \notin Holding => Scratch(t)' = {}
  BY ScratchHeld, ScratchHeldNext
<1>. DEFINE Found == \A x \in live' : \/ x \in live /\ x # cache /\ x \notin Scratch(t)
                                      \/ x = cache'
                                      \/ x \in Scratch(t)'
<1>4. Found
  <2>1. CASE Call(t) \/ ReadCache(t) \/ Return(t)
    BY <1>3, <2>1 DEF Call, ReadCache, Return, Goto, TypeOK, Holding
  <2>2. CASE Take(t)
    BY <1>0, <1>3, <2>2 DEF Take, Goto, TypeOK, Holding, Locals
  <2>3. CASE Malloc(t)
    BY <1>3, <2>3 DEF Malloc, Goto, TypeOK, Holding
  <2>4. CASE PrintTemp(t)
    BY <1>0, <1>3, <2>4 DEF PrintTemp, Printed, Goto, TypeOK, Holding, Before, Locals
  <2>5. CASE Grow(t)
    BY <1>3, <2>5 DEF Grow, Goto, TypeOK, Holding
  <2>6. CASE PrintBig(t)
    BY <1>3, <2>6 DEF PrintBig, Printed, Goto, TypeOK, Holding
  <2>7. CASE Copy(t)
    BY <1>3, <2>7 DEF Copy, Goto, TypeOK, Holding
  <2>8. CASE FreeResult(t)
    BY <1>3, <2>8 DEF FreeResult, Goto, TypeOK, Holding
  <2>9. CASE Save(t)
    BY <1>0, <1>3, <2>9 DEF Save, Goto, TypeOK, Holding, Locals
  <2>10. CASE FreeTemp(t)
    BY <1>0, <1>3, <2>10 DEF FreeTemp, Goto, TypeOK, Holding, Locals
  <2>. QED
    BY <2>1, <2>2, <2>3, <2>4, <2>5, <2>6, <2>7, <2>8, <2>9, <2>10 DEF Step
<1>5. \A x \in live' : Kept(x)'
  <2>1. TAKE x \in live'
  <2>2. CASE x = cache' \/ x \in Scratch(t)'
    BY <2>2 DEF Kept
  <2>3. CASE x \in live /\ x # cache /\ x \notin Scratch(t)
    <3>1. PICK u \in Threads : x \in Scratch(u)
      BY <1>1, <2>3 DEF Kept
    <3>. QED BY <1>2, <2>3, <3>1 DEF Kept
  <2>. QED BY <1>4, <2>2, <2>3
<1>. QED BY <1>5 DEF NothingLeaks, Kept

\* Nothing leaks, whatever the number of threads: a block that malloc has
\* returned is in the cache or in use by a call.
THEOREM NoLeaks == Spec => []NothingLeaks
<1>1. Init => TypeOK /\ LocalsOK /\ NothingLeaks
  BY InitTyped DEF Init, NothingLeaks
<1>2. TypeOK /\ LocalsOK /\ NothingLeaks /\ [Next]_vars => (TypeOK /\ LocalsOK /\ NothingLeaks)'
  <2>1. CASE UNCHANGED vars
    BY <2>1 DEF vars, TypeOK, LocalsOK, Locals, NothingLeaks, Scratch
  <2>. QED BY <2>1, StepTyped, LeakStep DEF Next
<1>. QED BY <1>1, <1>2, PTL DEF Spec

-----------------------------------------------------------------------------
(* Who has a scratch buffer.                                               *)

\* A swap that does not find in the cache what was read before finds nothing
\* there, and not another block, which it would hand out all the same.
SwapsClean == \A t \in Threads : Take(t) => cache \in {temp[t], NULL}

\* A text too long for the scratch buffer is in a block of its own, and the
\* text about to be copied is the thread's.
Apart(t) ==
    /\ pc[t] \in {"grow", "printbig", "freeresult"} => result[t] # temp[t]
    /\ pc[t] = "copy" => text[result[t]] \in Texts /\ text[result[t]].by = t
Owned(t) ==
    pc[t] \in {"freeresult", "save", "freetemp", "ret"} => out[t] \in Texts /\ out[t].by = t

IInv ==
    /\ TypeOK /\ LocalsOK
    /\ ScratchExclusive
    /\ \A t \in Threads : Apart(t) /\ Owned(t)

LEMMA ExclusiveInit == Init => IInv
<1>1. Init => ScratchExclusive
  BY DEF Init, ScratchExclusive, Scratch
<1>2. Init => \A t \in Threads : Apart(t) /\ Owned(t)
  BY DEF Init, Apart, Owned
<1>. QED BY <1>1, <1>2, InitTyped DEF IInv

\* What a thread has after its step it had before, or it took it out of the
\* cache, or nobody had it; what it did not give up is still allocated.
LEMMA StepTakes ==
    ASSUME IInv, SwapsClean, NEW t \in Threads, Call(t) \/ Step(t)
    PROVE  /\ \A x \in Scratch(t)' : x \in Scratch(t) \/ x \notin live \/ x = cache
           /\ Scratch(t)' \subseteq live' \ {cache'}
           /\ cache' # NULL => cache' \in live'
           /\ cache' # cache => cache' = NULL \/ (cache' \in Scratch(t) /\ cache = NULL)
           /\ live \ live' \subseteq Scratch(t)
<1>. USE FormatAssumption
<1>0. /\ TypeOK /\ Locals(t) /\ Apart(t)
      /\ Scratch(t) \subseteq live \ {cache}
      /\ cache # NULL => cache \in live
  BY DEF IInv, LocalsOK, ScratchExclusive
<1>1. /\ pc[t] \in Holding => Scratch(t) = {temp[t], result[t]} \ {NULL}
      /\ pc[t] \notin Holding => Scratch(t) = {}
      /\ pc'[t] \in Holding => Scratch(t)' = {temp'[t], result'[t]} \ {NULL}
      /\ pc'[t] \notin Holding => Scratch(t)' = {}
  BY ScratchHeld, ScratchHeldNext
<1>2. CASE Call(t) \/ ReadCache(t) \/ Return(t)
  BY <1>0, <1>1, <1>2 DEF Call, ReadCache, Return, Goto, TypeOK, Holding
<1>3. CASE Take(t)
  BY <1>0, <1>1, <1>3 DEF Take, Goto, TypeOK, Holding, Before, Locals, SwapsClean
<1>4. CASE Malloc(t)
  BY <1>0, <1>1, <1>4 DEF Malloc, Goto, TypeOK, Holding, Before, Locals
<1>5. CASE PrintTemp(t)
  BY <1>0, <1>1, <1>5 DEF PrintTemp, Printed, Goto, TypeOK, Holding, Locals
<1>6. CASE Grow(t)
  BY <1>0, <1>1, <1>6 DEF Grow, Goto, TypeOK, Holding, Locals, Apart
<1>7. CASE PrintBig(t)
  BY <1>0, <1>1, <1>7 DEF PrintBig, Printed, Goto, TypeOK, Holding
<1>8. CASE Copy(t)
  BY <1>0, <1>1, <1>8 DEF Copy, Goto, TypeOK, Holding
<1>9. CASE FreeResult(t)
  BY <1>0, <1>1, <1>9 DEF FreeResult, Goto, TypeOK, Holding, Locals, Apart
<1>10. CASE Save(t)
  BY <1>0, <1>1, <1>10 DEF Save, Goto, TypeOK, Holding, Locals
<1>11. CASE FreeTemp(t)
  BY <1>0, <1>1, <1>11 DEF FreeTemp, Goto, TypeOK, Holding, Locals
<1>. QED
  BY <1>2, <1>3, <1>4, <1>5, <1>6, <1>7, <1>8, <1>9, <1>10, <1>11 DEF Step

LEMMA ExclusiveStep ==
    ASSUME IInv, SwapsClean, NEW t \in Threads, Call(t) \/ Step(t)
    PROVE  ScratchExclusive'
<1>1. /\ \A u \in Threads : Scratch(u) \subseteq live \ {cache}
      /\ \A u, v \in Threads : u # v => Scratch(u) \cap Scratch(v) = {}
  BY DEF IInv, ScratchExclusive
<1>2. \A u \in Threads : u # t => Scratch(u)' = Scratch(u)
  BY OthersKeep DEF IInv
<1>3. ASSUME NEW u \in Threads, NEW v \in Threads, u # v
      PROVE  Scratch(u)' \cap Scratch(v)' = {}
  <2>1. CASE u # t /\ v # t
    BY <1>1, <1>2, <1>3, <2>1
  <2>2. CASE u = t
    BY <1>1, <1>2, <1>3, <2>2, StepTakes
  <2>3. CASE v = t
    BY <1>1, <1>2, <1>3, <2>3, StepTakes
  <2>. QED BY <2>1, <2>2, <2>3
<1>4. ASSUME NEW u \in Threads
      PROVE  Scratch(u)' \subseteq live' \ {cache'}
  <2>1. CASE u = t
    BY <2>1, StepTakes
  <2>2. CASE u # t
    <3>1. NULL \notin Scratch(u)
      BY DEF Scratch
    <3>. QED BY <1>1, <1>2, <2>2, <3>1, StepTakes
  <2>. QED BY <2>1, <2>2
<1>. QED BY <1>3, <1>4, StepTakes DEF ScratchExclusive

\* A step writes only blocks that its thread has, or gets, in hand.
LEMMA TextKept ==
    ASSUME IInv, NEW t \in Threads, Call(t) \/ Step(t), NEW b \in live, b \notin Scratch(t)
    PROVE  text'[b] = text[b]
<1>. USE FormatAssumption
<1>1. TypeOK /\ Locals(t) /\ b \in Blocks
  BY DEF IInv, LocalsOK, TypeOK
<1>2. pc[t] \in Holding => Scratch(t) = {temp[t], result[t]} \ {NULL}
  BY ScratchHeld
<1>3. CASE PrintTemp(t) \/ PrintBig(t)
  BY <1>1, <1>2, <1>3 DEF PrintTemp, PrintBig, Vsnprintf, TypeOK, Holding, Locals
<1>4. CASE Grow(t)
  BY <1>1, <1>2, <1>4 DEF Grow, TypeOK, Holding
<1>5. CASE FreeResult(t) \/ FreeTemp(t)
  BY <1>1, <1>2, <1>5 DEF FreeResult, FreeTemp, TypeOK, Holding, Locals
<1>6. CASE Call(t) \/ ReadCache(t) \/ Take(t) \/ Malloc(t) \/ Copy(t) \/ Save(t) \/ Return(t)
  BY <1>6 DEF Call, ReadCache, Take, Malloc, Copy, Save, Return
<1>. QED BY <1>3, <1>4, <1>5, <1>6 DEF Step

LEMMA OwnStep ==
    ASSUME IInv, NEW t \in Threads, Call(t) \/ Step(t)
    PROVE  Apart(t)' /\ Owned(t)'
<1>. USE FormatAssumption
<1>0. TypeOK /\ Locals(t) /\ Apart(t) /\ Owned(t)
  BY DEF IInv, LocalsOK
<1>1. pc[t] \in Holding => temp[t] \in live
  BY <1>0, ScratchHeld DEF IInv, ScratchExclusive, Locals, TypeOK
<1>2. CASE Call(t) \/ ReadCache(t) \/ Take(t) \/ Malloc(t) \/ Return(t)
  BY <1>0, <1>2 DEF Call, ReadCache, Take, Malloc, Return, Goto, TypeOK, Apart, Owned
<1>3. CASE PrintTemp(t)
  <2>1. temp[t] \in Blocks /\ result[t] = NULL
    BY <1>0, <1>3 DEF PrintTemp, TypeOK, Locals, Holding, Before
  <2>2. PICK x \in Texts : x.by = t /\ text' = [text EXCEPT ![temp[t]] = x]
    BY <1>0, <1>3 DEF PrintTemp, Vsnprintf, TypeOK, Texts
  <2>3. text'[temp[t]] \in Texts /\ text'[temp[t]].by = t
    BY <1>0, <2>1, <2>2 DEF TypeOK
  <2>. QED BY <1>0, <1>3, <2>1, <2>3 DEF PrintTemp, Printed, Goto, TypeOK, Apart, Owned
<1>4. CASE Grow(t)
  BY <1>0, <1>1, <1>4 DEF Grow, Goto, TypeOK, Apart, Owned, Holding
<1>5. CASE PrintBig(t)
  <2>1. result[t] \in Blocks
    BY <1>0, <1>5 DEF PrintBig, TypeOK, Locals
  <2>2. PICK x \in Texts : x.by = t /\ text' = [text EXCEPT ![result[t]] = x]
    BY <1>0, <1>5 DEF PrintBig, Vsnprintf, TypeOK, Texts
  <2>3. text'[result[t]] \in Texts /\ text'[result[t]].by = t
    BY <1>0, <2>1, <2>2 DEF TypeOK
  <2>. QED BY <1>0, <1>5, <2>1, <2>3 DEF PrintBig, Printed, Goto, TypeOK, Apart, Owned
<1>6. CASE Copy(t)
  BY <1>0, <1>6 DEF Copy, Goto, TypeOK, Apart, Owned, Texts
<1>7. CASE FreeResult(t) \/ Save(t) \/ FreeTemp(t)
  BY <1>0, <1>7 DEF FreeResult, Save, FreeTemp, Goto, TypeOK, Apart, Owned
<1>. QED BY <1>2, <1>3, <1>4, <1>5, <1>6, <1>7 DEF Step

\* The text another thread is about to copy is not touched.
LEMMA OthersOwn ==
    ASSUME IInv, NEW t \in Threads, Call(t) \/ Step(t), NEW u \in Threads, u # t
    PROVE  Apart(u)' /\ Owned(u)'
<1>1. Apart(u) /\ Owned(u) /\ Locals(u)
  BY DEF IInv, LocalsOK
<1>2. /\ pc'[u] = pc[u] /\ temp'[u] = temp[u] /\ result'[u] = result[u]
      /\ out'[u] = out[u]
  BY OthersKeep DEF IInv
<1>3. pc[u] = "copy" => result[u] \in live /\ result[u] \notin Scratch(t)
  BY <1>1, ScratchHeld DEF IInv, ScratchExclusive, Holding, Locals
<1>4. pc[u] = "copy" => text'[result[u]] = text[result[u]]
  BY <1>3, TextKept
<1>. QED BY <1>1, <1>2, <1>4 DEF Apart, Owned

LEMMA IInvStep == IInv /\ [Next]_vars /\ [SwapsClean]_vars => IInv'
<1>1. ASSUME IInv, UNCHANGED vars PROVE IInv'
  BY <1>1 DEF IInv, vars, TypeOK, LocalsOK, Locals, ScratchExclusive, Scratch, Apart, Owned
<1>2. ASSUME IInv, SwapsClean, NEW t \in Threads, Call(t) \/ Step(t) PROVE IInv'
  <2>1. TypeOK' /\ LocalsOK'
    BY <1>2, StepTyped DEF IInv
  <2>2. ScratchExclusive'
    BY <1>2, ExclusiveStep
  <2>3. ASSUME NEW u \in Threads PROVE Apart(u)' /\ Owned(u)'
    BY <1>2, OwnStep, OthersOwn
  <2>. QED BY <2>1, <2>2, <2>3 DEF IInv
<1>. QED BY <1>1, <1>2 DEF Next

\* Any number of threads, as long as no failed swap has handed out a block that
\* it found in the cache (cstring.c:304): a scratch buffer has one user.  No
\* other thread prints into it, finds it in the cache or has freed it.
THEOREM Exclusive == Spec /\ [][SwapsClean]_vars => []ScratchExclusive
<1>1. Init => IInv
  BY ExclusiveInit
<1>2. IInv /\ [Next]_vars /\ [SwapsClean]_vars => IInv'
  BY IInvStep
<1>3. IInv => ScratchExclusive
  BY DEF IInv
<1>. QED BY <1>1, <1>2, <1>3, PTL DEF Spec

\* Under the same condition each call returns the text that its own thread
\* printed.
THEOREM OwnTexts == Spec /\ [][SwapsClean]_vars => []OwnText
<1>1. Init => IInv
  BY ExclusiveInit
<1>2. IInv /\ [Next]_vars /\ [SwapsClean]_vars => IInv'
  BY IInvStep
<1>3. IInv => OwnText
  BY DEF IInv, OwnText, Owned
<1>. QED BY <1>1, <1>2, <1>3, PTL DEF Spec

-----------------------------------------------------------------------------
(* Two threads cannot make such a swap; three can.                         *)

TwoThreads == \A t, u, v \in Threads : t = u \/ u = v \/ t = v

\* Between its read of the cache and its swap, a thread's temp is still in
\* the cache, or the other thread has taken it and not yet given it back.
SawCache(t) ==
    pc[t] = "take" =>
        \/ cache = temp[t]
        \/ /\ cache = NULL
           /\ \E u \in Threads : pc[u] \in Holding \ {"freetemp"} /\ temp[u] = temp[t]
SawAll == \A t \in Threads : SawCache(t)

LEMMA SawIsClean == SawAll => SwapsClean
BY DEF SawAll, SawCache, SwapsClean, Take

\* Between the read and the swap the cache still holds what was read, or the
\* only other thread has it.
LEMMA SawStep ==
    ASSUME TwoThreads, IInv, SawAll, NEW t \in Threads, Call(t) \/ Step(t), NEW u \in Threads
    PROVE  SawCache(u)'
<1>. USE FormatAssumption
<1>0. TypeOK /\ Locals(t) /\ Locals(u) /\ SawCache(t) /\ SawCache(u)
  BY DEF IInv, LocalsOK, SawAll
<1>1. CASE u = t
  <2>1. ASSUME pc'[t] = "take" PROVE ReadCache(t) /\ cache # NULL
    BY <1>0, <2>1 DEF Step, Goto, Call, ReadCache, Take, Malloc, PrintTemp, Grow, PrintBig,
         Printed, Copy, FreeResult, Save, FreeTemp, Return, TypeOK
  <2>. QED BY <1>0, <1>1, <2>1 DEF SawCache, ReadCache, TypeOK
<1>2. CASE u # t
  <2>. SUFFICES ASSUME pc'[u] = "take" PROVE SawCache(u)'
    BY DEF SawCache
  <2>1. pc[u] = "take" /\ temp'[u] = temp[u] /\ temp[u] # NULL
    BY <1>0, <1>2, OthersKeep DEF IInv, Locals
  <2>2. \/ cache = temp[u]
        \/ cache = NULL /\ pc[t] \in Holding \ {"freetemp"} /\ temp[t] = temp[u]
    BY <1>0, <1>2, <2>1 DEF SawCache, TwoThreads, Holding
  <2>3. \/ cache' = temp[u]
        \/ cache' = NULL /\ pc'[t] \in Holding \ {"freetemp"} /\ temp'[t] = temp[u]
    BY <1>0, <2>1, <2>2 DEF Step, Goto, Call, ReadCache, Take, Malloc, PrintTemp, Grow, PrintBig,
         Printed, Copy, FreeResult, Save, FreeTemp, Return, TypeOK, Holding, SawCache
  <2>. QED BY <2>1, <2>3 DEF SawCache
<1>. QED BY <1>1, <1>2

\* With two threads, and no condition, every swap is clean: so is what the two
\* theorems above say of them.
LEMMA TwoAreClean == ASSUME TwoThreads PROVE Spec => [][SwapsClean]_vars
<1>1. Init => IInv /\ SawAll
  BY ExclusiveInit DEF Init, SawAll, SawCache
<1>2. IInv /\ SawAll /\ [Next]_vars => (IInv /\ SawAll)'
  <2>1. ASSUME UNCHANGED vars, SawAll PROVE SawAll'
    BY <2>1 DEF vars, SawAll, SawCache
  <2>2. ASSUME IInv, SawAll, NEW t \in Threads, Call(t) \/ Step(t) PROVE SawAll'
    BY <2>2, SawStep DEF SawAll
  <2>3. IInv /\ SawAll /\ [Next]_vars => IInv'
    BY SawIsClean, IInvStep
  <2>. QED BY <2>1, <2>2, <2>3 DEF Next
<1>3. IInv /\ SawAll /\ [Next]_vars => [SwapsClean]_vars
  BY SawIsClean
<1>. QED BY <1>1, <1>2, <1>3, PTL DEF Spec
=============================================================================

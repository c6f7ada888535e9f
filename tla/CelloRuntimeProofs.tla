------------------------- MODULE CelloRuntimeProofs -------------------------
(***************************************************************************)
(* Proofs about CelloException and CelloThread.                            *)
(*                                                                         *)
(* For any objects, catch clauses and depths, jumps land in live bodies,   *)
(* and a thrown object is caught by the innermost catch that lists it.     *)
(*                                                                         *)
(* Any number of Thread objects, called any number of times by one thread  *)
(* that libCello did not make and by each other: every thread finds its    *)
(* own data, loses no addition and runs once for each call.  What makes it *)
(* inductive: the key is made before any thread of the library's is there  *)
(* to miss it (KeyOK); and whoever calls an object has it for itself until *)
(* its join returns (CallOK, RunOK).                                       *)
(***************************************************************************)
EXTENDS CelloException, CelloThread, SequenceTheorems, FiniteSetTheorems, TLAPS

-----------------------------------------------------------------------------
\* Exception_Catch is called with the body it belongs to innermost, and the
\* object that is looking for a catch is one that was thrown.
CatchOK ==
    /\ phase = "catch" => frames # <<>> /\ Top.kind = "body"
    /\ pending # NoObject /\ status = "ok" => Len(frames) <= Len(thrown)

ExceptionInv == TypeOK /\ BuffersLive /\ CatchOK /\ InnermostFirst

-----------------------------------------------------------------------------
\* Facts about the nesting, as a sequence.
LEMMA PopFacts ==
    ASSUME NEW f \in Seq(Frames), f # <<>>
    PROVE  /\ Len(f) \in Nat \ {0}
           /\ f[Len(f)] \in Frames
           /\ SubSeq(f, 1, Len(f) - 1) \in Seq(Frames)
           /\ Len(SubSeq(f, 1, Len(f) - 1)) = Len(f) - 1
           /\ \A i \in 1 .. Len(f) - 1 : SubSeq(f, 1, Len(f) - 1)[i] = f[i]
  OBVIOUS

LEMMA CutFacts ==
    ASSUME NEW f \in Seq(Frames), NEW k \in 1 .. Len(f)
    PROVE  /\ SubSeq(f, 1, k) \in Seq(Frames)
           /\ Len(SubSeq(f, 1, k)) = k
           /\ \A i \in 1 .. k : SubSeq(f, 1, k)[i] = f[i]
  OBVIOUS

LEMMA PushFacts ==
    ASSUME NEW f \in Seq(Frames), NEW e \in Frames
    PROVE  /\ Append(f, e) \in Seq(Frames)
           /\ Len(Append(f, e)) = Len(f) + 1
           /\ \A i \in 1 .. Len(f) : Append(f, e)[i] = f[i]
           /\ Append(f, e)[Len(f) + 1] = e
  OBVIOUS

-----------------------------------------------------------------------------
\* A longjmp goes to the innermost body that is open, and none that is open
\* is inside of it.
LEMMA JumpLands ==
    ASSUME TypeOK, BuffersLive, status = "ok", exc_depth >= 1,
           Jump, UNCHANGED <<exc_buffers, status>>,
           NEW k, k = exc_buffers[exc_depth - 1]
    PROVE  /\ k \in 1 .. Len(frames)
           /\ frames' \in Seq(Frames) /\ Len(frames') = k
           /\ \A i \in 1 .. k : frames'[i] = frames[i]
           /\ frames[k].kind = "body"
           /\ exc_depth' \in 0 .. MaxDepth
           /\ \A i \in k + 1 .. Len(frames) : i \notin OpenBodies
           /\ BuffersLive'
<1>. USE ExceptionAssumption DEF Jump, Buffer
<1>1. exc_depth \in Nat /\ exc_depth' = exc_depth - 1 /\ exc_depth' \in 0 .. MaxDepth
  BY DEF TypeOK
<1>2. /\ k \in OpenBodies
      /\ \A d \in 0 .. exc_depth - 2 : exc_buffers[d] < k
  BY <1>1 DEF BuffersLive
<1>3. frames \in Seq(Frames) /\ k \in 1 .. Len(frames) /\ frames[k].kind = "body"
  BY <1>2 DEF TypeOK, OpenBodies
<1>4. frames' \in Seq(Frames) /\ Len(frames') = k /\ \A i \in 1 .. k : frames'[i] = frames[i]
  BY <1>3, CutFacts
<1>5. \A i \in OpenBodies : i = k \/ \E d \in 0 .. exc_depth - 2 : exc_buffers[d] = i
  <2>. SUFFICES ASSUME NEW i \in OpenBodies, i # k
                PROVE  \E d \in 0 .. exc_depth - 2 : exc_buffers[d] = i
    OBVIOUS
  <2>1. PICK d \in 0 .. exc_depth - 1 : exc_buffers[d] = i
    BY DEF BuffersLive
  <2>2. d # exc_depth - 1
    BY <2>1
  <2>. QED
    BY <2>1, <2>2, <1>1
<1>6. \A i \in k + 1 .. Len(frames) : i \notin OpenBodies
  <2>. SUFFICES ASSUME NEW i \in k + 1 .. Len(frames), i \in OpenBodies
                PROVE  FALSE
    OBVIOUS
  <2>. QED
    BY <1>5, <1>2, <1>3
<1>7. OpenBodies' = {i \in OpenBodies : i < k}
  <2>1. \A i : i \in OpenBodies' <=> i \in 1 .. k /\ frames[i].kind = "body" /\ i # k
    BY <1>3, <1>4 DEF OpenBodies
  <2>2. \A i \in 1 .. k : i # k => (i \in OpenBodies <=> frames[i].kind = "body")
    BY <1>3 DEF OpenBodies
  <2>3. \A i \in OpenBodies : i \in 1 .. Len(frames)
    BY <1>3 DEF OpenBodies
  <2>. QED
    BY <2>1, <2>2, <2>3, <1>3
<1>8. BuffersLive'
  <2>1. \A d \in 0 .. exc_depth' - 1 : exc_buffers[d] \in OpenBodies'
    BY <1>1, <1>2, <1>7 DEF BuffersLive
  <2>2. \A c, d \in 0 .. exc_depth' - 1 : c < d => exc_buffers[c] < exc_buffers[d]
    BY <1>1 DEF BuffersLive
  <2>3. \A i \in OpenBodies' : \E d \in 0 .. exc_depth' - 1 : exc_buffers[d] = i
    BY <1>1, <1>3, <1>5, <1>7
  <2>. QED
    BY <2>1, <2>2, <2>3 DEF BuffersLive
<1>. QED
  BY <1>1, <1>3, <1>4, <1>6, <1>8

\* A step that keeps the buffers, the depth and the bodies that are open.
LEMMA SameOpen ==
    ASSUME BuffersLive, UNCHANGED <<exc_buffers, exc_depth, status>>,
           OpenBodies' = OpenBodies
    PROVE  BuffersLive'
  BY DEF BuffersLive

LEMMA InitIInv == Init => ExceptionInv
<1>. SUFFICES ASSUME Init PROVE ExceptionInv
  OBVIOUS
<1>. USE ExceptionAssumption DEF Init
<1>1. TypeOK
  <2>1. exc_depth \in 0 .. MaxDepth
    OBVIOUS
  <2>2. exc_buffers \in [0 .. MaxDepth - 1 -> Nat]
    OBVIOUS
  <2>3. frames \in Seq(Frames) /\ thrown \in Seq(Frames)
    OBVIOUS
  <2>. QED
    BY <2>1, <2>2, <2>3 DEF TypeOK
<1>2. BuffersLive /\ CatchOK /\ InnermostFirst
  BY DEF BuffersLive, CatchOK, InnermostFirst, OpenBodies
<1>. QED
  BY <1>1, <1>2 DEF ExceptionInv

-----------------------------------------------------------------------------
LEMMA StepIInv ==
    ASSUME ExceptionInv, [Next]_vars
    PROVE  ExceptionInv'
<1>. USE ExceptionAssumption
<1>a. TypeOK /\ BuffersLive /\ CatchOK /\ InnermostFirst
  BY DEF ExceptionInv
<1>b. frames \in Seq(Frames) /\ Len(frames) \in Nat
  BY <1>a DEF TypeOK
<1>1. ASSUME NEW filter \in Filters, Try(filter) PROVE ExceptionInv'
  <2>. DEFINE e == [kind |-> "body", filter |-> filter, x |-> NoObject]
  <2>. USE <1>1 DEF Try, Running
  <2>1. e \in Frames
    BY DEF Frames
  <2>2. /\ frames' \in Seq(Frames)
        /\ Len(frames') = Len(frames) + 1
        /\ \A i \in 1 .. Len(frames) : frames'[i] = frames[i]
        /\ frames'[Len(frames) + 1] = e
    BY <2>1, <1>b, PushFacts
  <2>3. exc_depth \in 0 .. MaxDepth - 1 /\ exc_depth' \in 0 .. MaxDepth
    BY <1>a DEF TypeOK
  <2>4. /\ exc_buffers' \in [0 .. MaxDepth - 1 -> Nat]
        /\ exc_buffers'[exc_depth] = Len(frames) + 1
        /\ \A d \in 0 .. exc_depth - 1 : exc_buffers'[d] = exc_buffers[d]
    BY <1>a, <1>b, <2>3 DEF TypeOK
  <2>5. TypeOK'
    BY <1>a, <2>2, <2>3, <2>4 DEF TypeOK
  <2>6. OpenBodies' = OpenBodies \cup {Len(frames) + 1}
    <3>1. \A i : i \in OpenBodies' <=> i \in 1 .. Len(frames) + 1 /\ frames'[i].kind = "body"
      BY <2>2, <1>b DEF OpenBodies
    <3>2. \A i : i \in OpenBodies <=> i \in 1 .. Len(frames) /\ frames[i].kind = "body"
      BY <1>b DEF OpenBodies
    <3>. QED
      BY <3>1, <3>2, <2>2, <1>b
  <2>7. BuffersLive'
    <3>1. \A d \in 0 .. exc_depth - 1 : exc_buffers[d] \in OpenBodies
      BY <1>a DEF BuffersLive
    <3>2. \A i \in OpenBodies : i \in Nat /\ i < Len(frames) + 1
      BY <1>b DEF OpenBodies
    <3>3. \A d \in 0 .. exc_depth' - 1 : d = exc_depth \/ d \in 0 .. exc_depth - 1
      BY <2>3
    <3>4. \A d \in 0 .. exc_depth' - 1 : exc_buffers'[d] \in OpenBodies'
      BY <3>1, <3>3, <2>4, <2>6
    <3>5. \A c, d \in 0 .. exc_depth' - 1 : c < d => exc_buffers'[c] < exc_buffers'[d]
      BY <1>a, <3>1, <3>2, <3>3, <2>3, <2>4 DEF BuffersLive
    <3>6. \A i \in OpenBodies' : \E d \in 0 .. exc_depth' - 1 : exc_buffers'[d] = i
      <4>. SUFFICES ASSUME NEW i \in OpenBodies'
                    PROVE  \E d \in 0 .. exc_depth' - 1 : exc_buffers'[d] = i
        OBVIOUS
      <4>1. CASE i = Len(frames) + 1
        BY <4>1, <2>3, <2>4
      <4>2. CASE i \in OpenBodies
        <5>1. PICK d \in 0 .. exc_depth - 1 : exc_buffers[d] = i
          BY <4>2, <1>a DEF BuffersLive
        <5>. QED
          BY <5>1, <2>3, <2>4
      <4>. QED
        BY <4>1, <4>2, <2>6
    <3>. QED
      BY <3>4, <3>5, <3>6 DEF BuffersLive
  <2>8. pending = NoObject
    BY <1>a DEF InnermostFirst
  <2>9. CatchOK' /\ InnermostFirst'
    BY <2>8 DEF CatchOK, InnermostFirst
  <2>. QED
    BY <2>5, <2>7, <2>9 DEF ExceptionInv
<1>2. ASSUME TryOverflow PROVE ExceptionInv'
  <2>. USE <1>2 DEF TryOverflow, Running, cello
  <2>1. pending = NoObject
    BY <1>a DEF InnermostFirst
  <2>2. TypeOK'
    BY <1>a DEF TypeOK
  <2>3. BuffersLive' /\ CatchOK' /\ InnermostFirst'
    BY <2>1 DEF BuffersLive, CatchOK, InnermostFirst
  <2>. QED
    BY <2>2, <2>3 DEF ExceptionInv
<1>3. ASSUME NEW obj \in Objects, Throw(obj) PROVE ExceptionInv'
  <2>. USE <1>3 DEF Throw, Running, JumpOrExit, Error
  <2>1. CASE exc_depth >= 1 /\ Jump /\ UNCHANGED status
    <3>. DEFINE k == exc_buffers[exc_depth - 1]
    <3>. USE <2>1
    <3>1. /\ k \in 1 .. Len(frames)
          /\ frames' \in Seq(Frames) /\ Len(frames') = k
          /\ \A i \in 1 .. k : frames'[i] = frames[i]
          /\ frames[k].kind = "body"
          /\ exc_depth' \in 0 .. MaxDepth
          /\ \A i \in k + 1 .. Len(frames) : i \notin OpenBodies
          /\ BuffersLive'
      BY <1>a, JumpLands
    <3>2. exc_active' = TRUE /\ phase' = "catch" /\ frames' = SubSeq(frames, 1, k)
      BY DEF Jump, Buffer
    <3>3. TypeOK'
      BY <1>a, <3>1, <3>2 DEF TypeOK
    <3>4. CatchOK'
      <4>1. frames' # <<>> /\ frames'[Len(frames')].kind = "body"
        BY <3>1
      <4>2. Len(frames') <= Len(thrown')
        BY <1>b, <3>1
      <4>. QED
        BY <4>1, <4>2 DEF CatchOK, Top
    <3>5. PassedBy(Len(frames))'
      BY <1>b, <3>1 DEF PassedBy, OpenBodies
    <3>6. InnermostFirst'
      BY <3>1, <3>2, <3>5 DEF InnermostFirst
    <3>. QED
      BY <3>1, <3>3, <3>4, <3>6 DEF ExceptionInv
  <2>2. CASE /\ exc_depth = 0
             /\ status' = "uncaught"
             /\ UNCHANGED <<frames, exc_active, exc_depth, phase>>
    <3>. USE <2>2
    <3>1. TypeOK'
      BY <1>a DEF TypeOK
    <3>2. OpenBodies = {}
      BY <1>a DEF BuffersLive
    <3>3. PassedBy(0)'
      BY <1>b, <3>2 DEF PassedBy, OpenBodies
    <3>4. BuffersLive' /\ CatchOK' /\ InnermostFirst'
      BY <3>3 DEF BuffersLive, CatchOK, InnermostFirst
    <3>. QED
      BY <3>1, <3>4 DEF ExceptionInv
  <2>. QED
    BY <2>1, <2>2
<1>4. ASSUME EndBody PROVE ExceptionInv'
  <2>. USE <1>4 DEF EndBody, Running
  <2>1. exc_depth \in 1 .. MaxDepth /\ exc_depth' \in 0 .. MaxDepth
    BY <1>a DEF TypeOK
  <2>2. TypeOK'
    BY <1>a, <2>1 DEF TypeOK
  <2>3. Len(frames) \in OpenBodies
    BY <1>b DEF OpenBodies, Top
  <2>4. \A i \in OpenBodies : i <= Len(frames)
    BY <1>b DEF OpenBodies
  <2>5. exc_buffers[exc_depth - 1] = Len(frames)
    <3>1. PICK d \in 0 .. exc_depth - 1 : exc_buffers[d] = Len(frames)
      BY <1>a, <2>3 DEF BuffersLive
    <3>2. exc_buffers[exc_depth - 1] \in OpenBodies
      BY <1>a, <2>1 DEF BuffersLive
    <3>3. exc_buffers[exc_depth - 1] <= Len(frames)
      BY <3>2, <2>4
    <3>4. d < exc_depth - 1 => Len(frames) < exc_buffers[exc_depth - 1]
      BY <1>a, <2>1, <3>1 DEF BuffersLive
    <3>5. exc_buffers[exc_depth - 1] \in Nat
      BY <3>2, <1>b DEF OpenBodies
    <3>. QED
      BY <3>1, <3>3, <3>4, <3>5, <2>1, <1>b
  <2>6. OpenBodies' = OpenBodies \ {Len(frames)}
    BY DEF OpenBodies
  <2>7. BuffersLive'
    <3>1. \A d \in 0 .. exc_depth' - 1 :
             exc_buffers[d] \in OpenBodies /\ exc_buffers[d] < Len(frames)
      BY <1>a, <2>1, <2>5 DEF BuffersLive
    <3>2. \A d \in 0 .. exc_depth' - 1 : exc_buffers[d] \in OpenBodies'
      BY <3>1, <2>6, <1>b DEF OpenBodies
    <3>3. \A c, d \in 0 .. exc_depth' - 1 : c < d => exc_buffers[c] < exc_buffers[d]
      BY <1>a, <2>1 DEF BuffersLive
    <3>4. \A i \in OpenBodies' : \E d \in 0 .. exc_depth' - 1 : exc_buffers[d] = i
      <4>. SUFFICES ASSUME NEW i \in OpenBodies'
                    PROVE  \E d \in 0 .. exc_depth' - 1 : exc_buffers[d] = i
        OBVIOUS
      <4>1. PICK d \in 0 .. exc_depth - 1 : exc_buffers[d] = i
        BY <1>a, <2>6 DEF BuffersLive
      <4>2. d # exc_depth - 1
        BY <4>1, <2>5, <2>6
      <4>. QED
        BY <4>1, <4>2, <2>1
    <3>. QED
      BY <3>2, <3>3, <3>4 DEF BuffersLive
  <2>8. CatchOK' /\ InnermostFirst'
    BY <1>a DEF CatchOK, InnermostFirst, Top
  <2>. QED
    BY <2>2, <2>7, <2>8 DEF ExceptionInv
<1>5. ASSUME NEW f, f = Pop, phase = "catch" \/ Top.kind = "handler", frames # <<>>
      PROVE  /\ f \in Seq(Frames) /\ Len(f) = Len(frames) - 1
             /\ \A i \in 1 .. Len(f) : f[i] = frames[i]
             /\ OpenBodies = {i \in 1 .. Len(f) : f[i].kind = "body"}
  <2>1. /\ f \in Seq(Frames) /\ Len(f) = Len(frames) - 1
        /\ \A i \in 1 .. Len(f) : f[i] = frames[i]
        /\ Len(frames) >= 1
    BY <1>5, <1>b, PopFacts DEF Pop
  <2>2. \A i \in OpenBodies : i \in 1 .. Len(frames) - 1
    BY <1>5, <1>b DEF OpenBodies, Top
  <2>3. \A i \in 1 .. Len(frames) - 1 : i \in OpenBodies <=> frames[i].kind = "body"
    BY <1>b DEF OpenBodies
  <2>. QED
    BY <2>1, <2>2, <2>3
<1>6. ASSUME CatchNothing PROVE ExceptionInv'
  <2>. USE <1>6 DEF CatchNothing, cello
  <2>1. /\ frames' \in Seq(Frames) /\ Len(frames') = Len(frames) - 1
        /\ OpenBodies = {i \in 1 .. Len(frames') : frames'[i].kind = "body"}
    BY <1>5, <1>a DEF CatchOK
  <2>2. TypeOK'
    BY <1>a, <2>1 DEF TypeOK
  <2>3. OpenBodies' = OpenBodies
    BY <2>1 DEF OpenBodies
  <2>4. BuffersLive'
    BY <1>a, <2>3, SameOpen
  <2>5. pending = NoObject
    BY <1>a DEF InnermostFirst
  <2>6. CatchOK' /\ InnermostFirst'
    BY <2>5 DEF CatchOK, InnermostFirst
  <2>. QED
    BY <2>2, <2>4, <2>6 DEF ExceptionInv
<1>7. ASSUME EndHandler PROVE ExceptionInv'
  <2>. USE <1>7 DEF EndHandler, Running, cello
  <2>1. /\ frames' \in Seq(Frames) /\ Len(frames') = Len(frames) - 1
        /\ OpenBodies = {i \in 1 .. Len(frames') : frames'[i].kind = "body"}
    BY <1>5
  <2>2. TypeOK'
    BY <1>a, <2>1 DEF TypeOK
  <2>3. OpenBodies' = OpenBodies
    BY <2>1 DEF OpenBodies
  <2>4. BuffersLive'
    BY <1>a, <2>3, SameOpen
  <2>5. pending = NoObject
    BY <1>a DEF InnermostFirst
  <2>6. CatchOK' /\ InnermostFirst'
    BY <2>5 DEF CatchOK, InnermostFirst
  <2>. QED
    BY <2>2, <2>4, <2>6 DEF ExceptionInv
<1>8. ASSUME CatchHandled PROVE ExceptionInv'
  <2>. USE <1>8 DEF CatchHandled, cello
  <2>. DEFINE e == [Top EXCEPT !.kind = "handler", !.x = exc_obj]
  <2>1. /\ Pop \in Seq(Frames) /\ Len(Pop) = Len(frames) - 1
        /\ OpenBodies = {i \in 1 .. Len(Pop) : Pop[i].kind = "body"}
    BY <1>5, <1>a DEF CatchOK
  <2>2. e \in Frames /\ e.kind = "handler"
    <3>1. Top \in Frames
      BY <1>a, <1>b, PopFacts DEF CatchOK, Top
    <3>2. exc_obj \in Objects \cup {NoObject}
      BY <1>a DEF TypeOK
    <3>. QED
      BY <3>1, <3>2 DEF Frames
  <2>3. /\ frames' \in Seq(Frames) /\ Len(frames') = Len(Pop) + 1
        /\ \A i \in 1 .. Len(Pop) : frames'[i] = Pop[i]
        /\ frames'[Len(Pop) + 1] = e
    BY <2>1, <2>2, PushFacts
  <2>4. TypeOK'
    BY <1>a, <2>3 DEF TypeOK
  <2>5. OpenBodies' = OpenBodies
    <3>. HIDE DEF e
    <3>1. \A i : i \in OpenBodies' <=> i \in 1 .. Len(Pop) + 1 /\ frames'[i].kind = "body"
      BY <2>3 DEF OpenBodies
    <3>2. Len(Pop) \in Nat
      BY <2>1
    <3>. QED
      BY <3>1, <3>2, <2>1, <2>2, <2>3
  <2>6. BuffersLive'
    BY <1>a, <2>5, SameOpen
  <2>7. CatchOK' /\ InnermostFirst'
    BY DEF CatchOK, InnermostFirst
  <2>. QED
    BY <2>4, <2>6, <2>7 DEF ExceptionInv
<1>9. ASSUME CatchPropagated PROVE ExceptionInv'
  <2>. USE <1>9 DEF CatchPropagated, JumpOrExit, Error
  <2>1. frames # <<>> /\ Top = frames[Len(frames)]
    BY <1>a DEF CatchOK, Top
  <2>2. ASSUME pending # NoObject
        PROVE  /\ exc_obj = pending /\ exc_active
               /\ frames = SubSeq(thrown, 1, Len(frames))
               /\ Len(frames) <= Len(thrown)
               /\ PassedBy(Len(frames) - 1)
    <3>1. /\ exc_obj = pending /\ exc_active /\ PassedBy(Len(frames))
          /\ frames = SubSeq(thrown, 1, Len(frames))
          /\ Len(frames) <= Len(thrown)
      BY <1>a, <2>2 DEF InnermostFirst, CatchOK
    <3>2. thrown[Len(frames)] = Top
      BY <3>1, <2>1, <1>a, <1>b, CutFacts DEF TypeOK
    <3>. QED
      BY <3>1, <3>2, <1>b DEF PassedBy
  <2>3. CASE exc_depth >= 1 /\ Jump /\ UNCHANGED status
    <3>. DEFINE k == exc_buffers[exc_depth - 1]
    <3>. USE <2>3
    <3>1. /\ k \in 1 .. Len(frames)
          /\ frames' \in Seq(Frames) /\ Len(frames') = k
          /\ \A i \in 1 .. k : frames'[i] = frames[i]
          /\ frames[k].kind = "body"
          /\ exc_depth' \in 0 .. MaxDepth
          /\ \A i \in k + 1 .. Len(frames) : i \notin OpenBodies
          /\ BuffersLive'
      BY <1>a, JumpLands
    <3>2. exc_active' = TRUE /\ phase' = "catch" /\ frames' = SubSeq(frames, 1, k)
      BY DEF Jump, Buffer
    <3>3. TypeOK'
      BY <1>a, <3>1, <3>2 DEF TypeOK
    <3>4. CatchOK'
      <4>1. frames' # <<>> /\ frames'[Len(frames')].kind = "body"
        BY <3>1
      <4>2. pending # NoObject => Len(frames') <= Len(thrown')
        BY <1>a, <1>b, <2>2, <3>1 DEF TypeOK
      <4>. QED
        BY <4>1, <4>2 DEF CatchOK, Top
    <3>5. ASSUME pending # NoObject
          PROVE  PassedBy(Len(frames))' /\ frames' = SubSeq(thrown, 1, k)
      <4>1. \A i \in k + 1 .. Len(frames) - 1 : frames[i].kind # "body"
        BY <1>b, <3>1 DEF OpenBodies
      <4>2. \A i \in 1 .. Len(frames) : thrown[i] = frames[i]
        BY <2>2, <3>5, <1>a, <1>b, CutFacts DEF TypeOK
      <4>3. PassedBy(k)
        BY <4>1, <4>2, <2>2, <3>5, <3>1, <1>b DEF PassedBy
      <4>4. frames' = SubSeq(thrown, 1, k)
        <5>1. SubSeq(thrown, 1, k) \in Seq(Frames) /\ Len(SubSeq(thrown, 1, k)) = k
              /\ \A i \in 1 .. k : SubSeq(thrown, 1, k)[i] = thrown[i]
          BY <2>2, <3>5, <3>1, <1>a, <1>b, CutFacts DEF TypeOK
        <5>. QED
          BY <5>1, <4>2, <3>1
      <4>. QED
        BY <4>3, <4>4, <3>1 DEF PassedBy
    <3>6. InnermostFirst'
      BY <2>2, <3>1, <3>2, <3>5 DEF InnermostFirst
    <3>. QED
      BY <3>1, <3>3, <3>4, <3>6 DEF ExceptionInv
  <2>4. CASE /\ exc_depth = 0
             /\ status' = "uncaught"
             /\ UNCHANGED <<frames, exc_active, exc_depth, phase>>
    <3>. USE <2>4
    <3>1. TypeOK'
      BY <1>a DEF TypeOK
    <3>2. OpenBodies = {}
      BY <1>a DEF BuffersLive
    <3>3. ASSUME pending # NoObject PROVE PassedBy(0)'
      <4>1. \A i \in 1 .. Len(frames) - 1 : frames[i].kind # "body"
        BY <1>b, <3>2 DEF OpenBodies
      <4>2. \A i \in 1 .. Len(frames) : thrown[i] = frames[i]
        BY <2>2, <3>3, <1>a, <1>b, CutFacts, <2>1 DEF TypeOK
      <4>. QED
        BY <4>1, <4>2, <2>2, <3>3, <1>b DEF PassedBy
    <3>4. BuffersLive' /\ CatchOK' /\ InnermostFirst'
      BY <2>2, <3>3, <1>a DEF BuffersLive, CatchOK, InnermostFirst, Top
    <3>. QED
      BY <3>1, <3>4 DEF ExceptionInv
  <2>. QED
    BY <2>3, <2>4
<1>10. ASSUME UNCHANGED vars PROVE ExceptionInv'
  BY <1>a, <1>10 DEF ExceptionInv, vars, cello, TypeOK, BuffersLive, OpenBodies,
                     CatchOK, Top, InnermostFirst, PassedBy
<1>. QED
  BY <1>1, <1>2, <1>3, <1>4, <1>6, <1>7, <1>8, <1>9, <1>10 DEF Next, Catch

-----------------------------------------------------------------------------
LEMMA Inductive == Spec => []ExceptionInv
<1>. QED
  BY InitIInv, StepIInv, PTL DEF Spec

\* exc_depth stays within the array of buffers: Exception_Inc aborts before
\* setjmp would write behind it.
THEOREM Typing == Spec => []TypeOK
<1>1. ExceptionInv => TypeOK
  BY DEF ExceptionInv
<1>. QED
  BY <1>1, Inductive, PTL

\* Whatever a program nests, a longjmp never enters a frame that has returned.
THEOREM LiveJumps == Spec => []BuffersLive
<1>1. ExceptionInv => BuffersLive
  BY DEF ExceptionInv
<1>. QED
  BY <1>1, Inductive, PTL

\* A thrown object reaches the innermost catch that lists it.
THEOREM Innermost == Spec => []InnermostFirst
<1>1. ExceptionInv => InnermostFirst
  BY DEF ExceptionInv
<1>. QED
  BY <1>1, Inductive, PTL

-----------------------------------------------------------------------------
\* Where no try has been run in the body of another, one body is open at
\* most, and the exc_active that a handler leaves set was reset by its try.
Flat ==
    ~nested => /\ exc_depth <= 1
               /\ exc_depth = 1 => ~exc_active
               /\ InFlight

LEMMA StepFlat ==
    ASSUME TypeOK, Flat, [Next]_vars
    PROVE  Flat'
<1>. USE ExceptionAssumption DEF Flat, InFlight
<1>0. exc_depth \in Nat /\ nested \in BOOLEAN
  BY DEF TypeOK
<1>1. ASSUME NEW filter \in Filters, Try(filter) PROVE Flat'
  <2>1. nested' = (nested \/ exc_depth > 0)
    BY <1>1 DEF Try
  <2>2. ~nested' => ~(exc_depth > 0)
    BY <2>1
  <2>3. /\ exc_depth' = exc_depth + 1 /\ phase' = "run"
        /\ exc_active' = FALSE
    BY <1>1 DEF Try, Running
  <2>4. ~exc_active'
    BY <2>3
  <2>5. ~nested' => exc_depth' <= 1
    BY <1>0, <2>2, <2>3
  <2>. QED BY <2>3, <2>4, <2>5
<1>2. ASSUME NEW obj \in Objects, Throw(obj) PROVE Flat'
  BY <1>0, <1>2 DEF Throw, JumpOrExit, Jump, Error, Running
<1>3. CASE EndBody
  BY <1>0, <1>3 DEF EndBody, Running
<1>4. CASE CatchNothing \/ CatchHandled \/ EndHandler \/ TryOverflow
  BY <1>4 DEF CatchNothing, CatchHandled, EndHandler, TryOverflow, Running, cello
<1>5. CASE CatchPropagated
  <2>1. exc_active /\ nested' = nested /\ pending' = pending
    BY <1>5 DEF CatchPropagated
  <2>2. CASE exc_depth >= 1
    BY <1>0, <2>1, <2>2
  <2>3. CASE exc_depth = 0
    <3>1. UNCHANGED <<exc_active, exc_depth, phase>>
      BY <1>5, <2>3 DEF CatchPropagated, JumpOrExit, Error
    <3>. QED BY <2>1, <3>1
  <2>. QED BY <1>0, <2>2, <2>3
<1>6. CASE UNCHANGED vars
  BY <1>6 DEF vars, cello
<1>. QED
  BY <1>1, <1>2, <1>3, <1>4, <1>5, <1>6 DEF Next, Catch

\* In a program that nests no try in the body of another no object is
\* handled twice, and none ends the program that has been handled.
THEOREM FlatOnce == Spec => []FlatHandledOnce
<1>1. Init => Flat
  BY DEF Init, Flat, InFlight
<1>2. TypeOK /\ Flat /\ [Next]_vars => Flat'
  BY StepFlat
<1>3. Flat => FlatHandledOnce
  BY DEF Flat, FlatHandledOnce
<1>. QED
  BY <1>1, <1>2, <1>3, Typing, PTL DEF Spec

-----------------------------------------------------------------------------
\* The threads.

OneStarter ==
    /\ \A a, b \in Starters : a = b
    /\ Starters \cap Threads = {} /\ MainData \notin Threads
    /\ NULL \notin Actors \cup Holders

Calling == {"key", "flag", "args", "create"}
Places  == {"none", "init", "start", "run", "join", "done",
            "try", "locked", "read", "written", "wrote", "left"} \cup Calling

TypedLib ==
    lib \in [created : BOOLEAN, key : Nat, slots : Seq([Actors -> Threads \cup {NULL}]),
             mutex : Actors \cup {NULL}, total : Nat, added : Nat, left : BOOLEAN]
TypedTd ==
    td \in [Holders -> [args : Seq(Threads \cup Nat), thread : BOOLEAN, running : BOOLEAN,
                        exc_depth : Nat, caller : Actors \cup {NULL}, calls : Nat, ran : Nat]]
TypedOs ==
    os \in [Actors -> [pc : Places, obj : Threads \cup {NULL}, read : Nat,
                       tried : BOOLEAN, got : Nat]]
Typed == TypedLib /\ TypedTd /\ TypedOs

NoneMade == lib.created = FALSE /\ \A t \in Threads : At(t, "none")
KeyOK ==
    \/ /\ NoneMade /\ lib.key = 0 /\ lib.slots = <<>>
       /\ \A a \in Starters : os[a].pc \notin {"flag", "args", "create", "join"}
    \/ /\ NoneMade /\ lib.key = 1 /\ lib.slots = <<NoSlot>>
       /\ \A a \in Starters : At(a, "flag")
    \/ /\ lib.created /\ lib.key = 1 /\ Len(lib.slots) = 1
       /\ \A a \in Actors : os[a].pc \notin {"key", "flag"}
       /\ \A a \in Starters : lib.slots[1][a] = NULL
       /\ \A t \in Threads : os[t].pc \notin {"none", "init"} => lib.slots[1][t] = t

Calls(a) ==
    /\ os[a].pc \in Calling =>
        /\ os[a].obj \in Threads /\ os[a].obj # a
        /\ os[os[a].obj].pc = "none" /\ td[os[a].obj].caller = a
    /\ os[a].pc = "create" => td[os[a].obj].args = <<os[a].obj, td[os[a].obj].calls>>
    /\ os[a].pc = "join" =>
        /\ os[a].obj \in Threads /\ os[a].obj # a
        /\ os[os[a].obj].pc # "none" /\ td[os[a].obj].caller = a
CallOK == \A a \in Actors : Calls(a)

Counted(t) ==
    IF td[t].caller = NULL THEN os[t].pc = "none" /\ td[t].ran = td[t].calls
    ELSE /\ td[t].caller # t
         /\ td[t].calls = IF os[t].pc = "done" THEN td[t].ran ELSE td[t].ran + 1
         /\ os[t].pc = "none" =>
                os[td[t].caller].pc \in Calling /\ os[td[t].caller].obj = t
Runs(t) ==
    /\ os[t].pc # "none" => td[t].thread
    /\ os[t].pc = "init" => td[t].args = <<t, td[t].calls>>
    /\ os[t].pc = "start" => td[t].args = <<td[t].calls>>
    /\ os[t].pc \notin {"none", "init", "start", "done"} =>
        td[t].running /\ os[t].got = td[t].calls
RunOK == \A t \in Threads : Counted(t) /\ Runs(t)

DepthOK ==
    \A x \in Holders :
        td[x].exc_depth = IF \E a \in Actors : Own(a) = x /\ Inside(a) THEN 1 ELSE 0

MutexOK ==
    /\ lib.total = lib.added
    /\ \A a \in Actors :
        /\ os[a].pc \in {"locked", "read", "written"} => lib.mutex = a
        /\ At(a, "read") => os[a].read = lib.total

ThreadInv == Typed /\ KeyOK /\ CallOK /\ RunOK /\ DepthOK /\ MutexOK

-----------------------------------------------------------------------------
\* What a thread finds through the key.
LEMMA FindsOwn ==
    ASSUME OneStarter, Typed, KeyOK, NEW a \in Actors, os[a].pc \notin {"none", "init"}
    PROVE  Current(a) = Own(a)
<1>1. CASE a \in Threads
  BY <1>1 DEF OneStarter, Typed, TypedLib, KeyOK, NoneMade, At, Current, Own, Actors, Holders, NoSlot
<1>2. CASE a \in Starters
  BY <1>2 DEF OneStarter, Typed, TypedLib, KeyOK, NoneMade, At, Current, Own, Actors, Holders, NoSlot
<1> QED BY <1>1, <1>2 DEF Actors

\* Two threads with the same data are one.
LEMMA OwnIsOne ==
    ASSUME OneStarter, NEW a \in Actors, NEW b \in Actors, Own(a) = Own(b)
    PROVE  a = b
BY DEF OneStarter, Own, Actors, Holders

LEMMA OwnHolds == ASSUME NEW a \in Actors PROVE Own(a) \in Holders
BY DEF Own, Holders

LEMMA Begins == ASSUME OneStarter, ThreadInit PROVE ThreadInv
<1> USE DEF ThreadInit, NewData, TypedLib, TypedTd, TypedOs
<1>1. Typed
  BY DEF OneStarter, Typed, Places, Actors, Holders
<1>2. KeyOK
  BY DEF OneStarter, KeyOK, NoneMade, At, Actors
<1>3. CallOK /\ RunOK /\ MutexOK
  BY DEF OneStarter, CallOK, Calls, RunOK, Counted, Runs, MutexOK, At, Calling, Actors, Holders
<1>4. DepthOK
  BY DEF OneStarter, DepthOK, Inside, Actors, Holders
<1> QED BY <1>1, <1>2, <1>3, <1>4 DEF ThreadInv

\* What a step sets of one thread, and of one object: the other threads and
\* objects keep what they have.
OsSet(a, pc, obj, read, got) ==
    \A b \in Actors :
        /\ os'[b].pc = IF b = a THEN pc ELSE os[b].pc
        /\ os'[b].obj = IF b = a THEN obj ELSE os[b].obj
        /\ os'[b].read = IF b = a THEN read ELSE os[b].read
        /\ os'[b].got = IF b = a THEN got ELSE os[b].got
TdSet(t, args, depth, caller, calls, ran) ==
    \A x \in Holders :
        /\ td'[x].args = IF x = t THEN args ELSE td[x].args
        /\ td'[x].exc_depth = IF x = t THEN depth ELSE td[x].exc_depth
        /\ td'[x].caller = IF x = t THEN caller ELSE td[x].caller
        /\ td'[x].calls = IF x = t THEN calls ELSE td[x].calls
        /\ td'[x].ran = IF x = t THEN ran ELSE td[x].ran
        /\ x # t => /\ td'[x].thread <=> td[x].thread
                    /\ td'[x].running <=> td[x].running

LEMMA GoMoves ==
    ASSUME TypedOs, NEW a \in Actors, NEW p \in Places, Go(a, p)
    PROVE  TypedOs' /\ OsSet(a, p, os[a].obj, os[a].read, os[a].got)
BY DEF TypedOs, Go, OsSet

LEMMA CallKeeps ==
    ASSUME OneStarter, ThreadInv, NEW a \in Actors, NEW t \in Threads, Call(a, t)
    PROVE  ThreadInv'
<1>0. TypedLib /\ TypedTd /\ TypedOs /\ KeyOK /\ CallOK /\ RunOK /\ DepthOK /\ MutexOK /\ a \in Actors
  BY DEF ThreadInv, Typed, Actors
<1>g. /\ os[a].pc = "run"
      /\ td[t].caller = NULL
      /\ os[t].pc = "none"
      /\ t # a
      /\ Own(a) # t
      /\ Own(a) \in Holders
      /\ Current(a) = Own(a)
  <2>1. os[a].pc = "run" /\ td[t].caller = NULL /\ os[t].pc = "none" /\ t # a
    BY <1>0 DEF Call, At, RunOK, Counted
  <2>2. Own(a) # t /\ Own(a) \in Holders
    BY <2>1 DEF OneStarter, Own, Actors, Holders
  <2>3. Current(a) = Own(a)
    BY <1>0, <2>1, FindsOwn DEF Typed
  <2> QED BY <2>1, <2>2, <2>3
<1>1. TypedOs' /\ OsSet(a, IF lib.created THEN "args" ELSE "key", t, os[a].read, os[a].got)
  <2> DEFINE p == IF lib.created THEN "args" ELSE "key"
  <2>1. TypedOs /\ os' = [os EXCEPT ![a].pc = p, ![a].obj = t]
    BY <1>0, <1>g DEF Call
  <2>2. a \in Actors /\ t \in Threads /\ p \in Places
    BY <1>0, <1>g DEF Places, Calling
  <2> HIDE DEF p
  <2>3. TypedOs'
    BY ONLY <2>1, <2>2 DEF TypedOs
  <2>4. OsSet(a, p, t, os[a].read, os[a].got)
    BY ONLY <2>1, <2>2 DEF TypedOs, OsSet
  <2> QED BY <2>3, <2>4 DEF p
<1>2. /\ TypedTd'
      /\ \A x \in Holders :
            /\ td'[x].args = td[x].args
            /\ td'[x].exc_depth = IF x = Own(a) THEN td[x].exc_depth + 1 ELSE td[x].exc_depth
            /\ td'[x].caller = IF x = t THEN a ELSE td[x].caller
            /\ td'[x].calls = IF x = t THEN td[t].calls + 1 ELSE td[x].calls
            /\ td'[x].ran = td[x].ran
            /\ td'[x].thread <=> td[x].thread
            /\ td'[x].running <=> td[x].running
  <2> DEFINE m == [td EXCEPT ![t].caller = a, ![t].calls = @ + 1]
  <2>1. td' = [m EXCEPT ![Current(a)].exc_depth = @ + 1]
    BY DEF Call
  <2>2. /\ TypedTd /\ a \in Actors /\ t \in Holders /\ Own(a) \in Holders /\ Own(a) # t
        /\ td[t].calls + 1 \in Nat
    BY <1>0, <1>g DEF TypedTd, TypedOs, Actors, Holders
  <2>3. m \in [Holders -> [args : Seq(Threads \cup Nat), thread : BOOLEAN, running : BOOLEAN,
                          exc_depth : Nat, caller : Actors \cup {NULL}, calls : Nat, ran : Nat]]
    BY ONLY <2>2 DEF TypedTd
  <2>4. \A x \in Holders :
            /\ m[x].args = td[x].args
            /\ m[x].exc_depth = td[x].exc_depth
            /\ m[x].caller = IF x = t THEN a ELSE td[x].caller
            /\ m[x].calls = IF x = t THEN td[t].calls + 1 ELSE td[x].calls
            /\ m[x].ran = td[x].ran
            /\ m[x].thread <=> td[x].thread
            /\ m[x].running <=> td[x].running
    BY ONLY <2>2 DEF TypedTd
  <2> HIDE DEF m
  <2>5. td' = [m EXCEPT ![Own(a)].exc_depth = @ + 1]
    BY <1>g, <2>1
  <2>6. TypedTd'
    <3>1. m[Own(a)].exc_depth + 1 \in Nat
      BY ONLY <2>2, <2>3
    <3> QED BY ONLY <2>2, <2>3, <2>5, <3>1 DEF TypedTd
  <2>7. \A x \in Holders :
            /\ td'[x].args = m[x].args
            /\ td'[x].exc_depth = IF x = Own(a) THEN m[x].exc_depth + 1 ELSE m[x].exc_depth
            /\ td'[x].caller = m[x].caller
            /\ td'[x].calls = m[x].calls
            /\ td'[x].ran = m[x].ran
            /\ td'[x].thread <=> m[x].thread
            /\ td'[x].running <=> m[x].running
    BY ONLY <2>2, <2>3, <2>5
  <2> QED BY ONLY <2>4, <2>6, <2>7
<1>3. TypedLib' /\ UNCHANGED lib
  BY <1>0 DEF Call, TypedLib
<1>4. KeyOK'
  BY <1>0, <1>g, <1>1, <1>3 DEF OsSet, OneStarter, KeyOK, NoneMade, NoSlot, At, Actors, Calling
<1>5. CallOK'
  <2> SUFFICES ASSUME NEW b \in Actors PROVE Calls(b)'
    BY DEF CallOK
  <2>1. Calls(b) /\ Calls(a) /\ Threads \subseteq Actors /\ Threads \subseteq Holders /\ NULL \notin Actors
    BY <1>0 DEF CallOK, Actors, Holders, OneStarter
  <2> QED BY <1>g, <1>1, <1>2, <2>1 DEF OsSet, Calls, Calling
<1>6. RunOK'
  <2> SUFFICES ASSUME NEW x \in Threads PROVE Counted(x)' /\ Runs(x)'
    BY DEF RunOK
  <2>1. Counted(x) /\ Runs(x) /\ x \in Actors /\ x \in Holders /\ NULL \notin Actors
    BY <1>0 DEF RunOK, Actors, Holders, OneStarter
  <2>2. td[x].caller \in Actors \cup {NULL} /\ td[x].ran \in Nat /\ td[x].calls \in Nat
    BY <1>0, <2>1 DEF TypedTd
  <2>3. Counted(x)'
    BY <1>g, <1>1, <1>2, <2>1, <2>2 DEF OsSet, Counted, Calling
  <2>4. Runs(x)'
    BY <1>g, <1>1, <1>2, <2>1, <2>2 DEF OsSet, Runs
  <2> QED BY <2>3, <2>4
<1>7. DepthOK'
  BY OwnIsOne, OwnHolds, <1>0, <1>g, <1>1, <1>2 DEF OsSet, DepthOK, Inside
<1>8. MutexOK'
  BY <1>0, <1>g, <1>1, <1>3 DEF OsSet, OneStarter, TypedLib, MutexOK, At, Actors
<1> QED BY <1>1, <1>2, <1>3, <1>4, <1>5, <1>6, <1>7, <1>8 DEF ThreadInv, Typed

LEMMA CreateKeyKeeps ==
    ASSUME OneStarter, ThreadInv, NEW a \in Actors, CreateKey(a)
    PROVE  ThreadInv'
<1>0. TypedLib /\ TypedTd /\ TypedOs /\ KeyOK /\ CallOK /\ RunOK /\ DepthOK /\ MutexOK /\ a \in Actors
  BY DEF ThreadInv, Typed, Actors
<1>g. /\ os[a].pc = "key"
      /\ a \in Starters
      /\ NoneMade
      /\ lib.slots = <<>>
  BY <1>0 DEF CreateKey, At, KeyOK, NoneMade, Actors
<1>1. TypedOs' /\ OsSet(a, "flag", os[a].obj, os[a].read, os[a].got)
  <2>1. Go(a, "flag") /\ "flag" \in Places
    BY DEF CreateKey, Places, Calling
  <2> QED BY <1>0, <2>1, GoMoves
<1>2. TypedTd' /\ UNCHANGED td
  BY <1>0 DEF CreateKey, TypedTd
<1>3. /\ TypedLib'
      /\ lib'.slots = <<NoSlot>>
      /\ lib'.key = 1
      /\ lib'.created = FALSE
      /\ lib'.mutex = lib.mutex
      /\ lib'.total = lib.total
      /\ lib'.added = lib.added
  <2>1. lib' = [lib EXCEPT !.slots = <<NoSlot>>, !.key = 1]
    BY <1>g DEF CreateKey
  <2>2. lib.created = FALSE /\ <<NoSlot>> \in Seq([Actors -> Threads \cup {NULL}])
    BY <1>g DEF NoneMade, NoSlot
  <2>3. TypedLib
    BY <1>0
  <2> QED BY ONLY <2>1, <2>2, <2>3 DEF TypedLib
<1>4. KeyOK'
  BY <1>0, <1>g, <1>1, <1>3 DEF OsSet, OneStarter, KeyOK, NoneMade, NoSlot, At, Actors, Calling
<1>5. CallOK'
  <2> SUFFICES ASSUME NEW b \in Actors PROVE Calls(b)'
    BY DEF CallOK
  <2>1. Calls(b) /\ Calls(a) /\ Threads \subseteq Actors /\ Threads \subseteq Holders /\ NULL \notin Actors
    BY <1>0 DEF CallOK, Actors, Holders, OneStarter
  <2> QED BY <1>g, <1>1, <1>2, <2>1 DEF OsSet, TdSet, Calls, Calling
<1>6. RunOK'
  <2> SUFFICES ASSUME NEW x \in Threads PROVE Counted(x)' /\ Runs(x)'
    BY DEF RunOK
  <2>1. Counted(x) /\ Runs(x) /\ x \in Actors /\ x \in Holders /\ NULL \notin Actors
    BY <1>0 DEF RunOK, Actors, Holders, OneStarter
  <2>2. td[x].caller \in Actors \cup {NULL} /\ td[x].ran \in Nat /\ td[x].calls \in Nat
    BY <1>0, <2>1 DEF TypedTd
  <2>3. Counted(x)'
    BY <1>g, <1>1, <1>2, <2>1, <2>2 DEF OsSet, TdSet, Counted, Calling
  <2>4. Runs(x)'
    BY <1>g, <1>1, <1>2, <2>1, <2>2 DEF OsSet, TdSet, Runs
  <2> QED BY <2>3, <2>4
<1>7. DepthOK'
  <2>1. \A b \in Actors : Inside(b)' <=> Inside(b)
    BY <1>g, <1>1 DEF OsSet, Inside
  <2>2. \A x \in Holders : td'[x].exc_depth = td[x].exc_depth
    BY <1>2 DEF TdSet
  <2> QED BY <1>0, <2>1, <2>2 DEF DepthOK, Own
<1>8. MutexOK'
  BY <1>0, <1>g, <1>1, <1>3 DEF OsSet, OneStarter, TypedLib, MutexOK, At, Actors
<1> QED BY <1>1, <1>2, <1>3, <1>4, <1>5, <1>6, <1>7, <1>8 DEF ThreadInv, Typed

LEMMA SetCreatedKeeps ==
    ASSUME OneStarter, ThreadInv, NEW a \in Actors, SetCreated(a)
    PROVE  ThreadInv'
<1>0. TypedLib /\ TypedTd /\ TypedOs /\ KeyOK /\ CallOK /\ RunOK /\ DepthOK /\ MutexOK /\ a \in Actors
  BY DEF ThreadInv, Typed, Actors
<1>g. /\ os[a].pc = "flag"
      /\ a \in Starters
      /\ NoneMade
      /\ lib.slots = <<NoSlot>>
      /\ lib.key = 1
  BY <1>0 DEF SetCreated, At, KeyOK, NoneMade, Actors
<1>1. TypedOs' /\ OsSet(a, "args", os[a].obj, os[a].read, os[a].got)
  <2>1. Go(a, "args") /\ "args" \in Places
    BY DEF SetCreated, Places, Calling
  <2> QED BY <1>0, <2>1, GoMoves
<1>2. TypedTd' /\ UNCHANGED td
  BY <1>0 DEF SetCreated, TypedTd
<1>3. /\ TypedLib'
      /\ lib'.slots = lib.slots
      /\ lib'.key = 1
      /\ lib'.created
      /\ lib'.mutex = lib.mutex
      /\ lib'.total = lib.total
      /\ lib'.added = lib.added
  BY <1>0, <1>g DEF SetCreated, TypedLib, TypedOs, NoSlot, NoneMade
<1>4. KeyOK'
  BY <1>0, <1>g, <1>1, <1>3 DEF OsSet, OneStarter, KeyOK, NoneMade, NoSlot, At, Actors, Calling
<1>5. CallOK'
  <2> SUFFICES ASSUME NEW b \in Actors PROVE Calls(b)'
    BY DEF CallOK
  <2>1. Calls(b) /\ Calls(a) /\ Threads \subseteq Actors /\ Threads \subseteq Holders /\ NULL \notin Actors
    BY <1>0 DEF CallOK, Actors, Holders, OneStarter
  <2> QED BY <1>g, <1>1, <1>2, <2>1 DEF OsSet, TdSet, Calls, Calling
<1>6. RunOK'
  <2> SUFFICES ASSUME NEW x \in Threads PROVE Counted(x)' /\ Runs(x)'
    BY DEF RunOK
  <2>1. Counted(x) /\ Runs(x) /\ x \in Actors /\ x \in Holders /\ NULL \notin Actors
    BY <1>0 DEF RunOK, Actors, Holders, OneStarter
  <2>2. td[x].caller \in Actors \cup {NULL} /\ td[x].ran \in Nat /\ td[x].calls \in Nat
    BY <1>0, <2>1 DEF TypedTd
  <2>3. Counted(x)'
    BY <1>g, <1>1, <1>2, <2>1, <2>2 DEF OsSet, TdSet, Counted, Calling
  <2>4. Runs(x)'
    BY <1>g, <1>1, <1>2, <2>1, <2>2 DEF OsSet, TdSet, Runs
  <2> QED BY <2>3, <2>4
<1>7. DepthOK'
  <2>1. \A b \in Actors : Inside(b)' <=> Inside(b)
    BY <1>g, <1>1 DEF OsSet, Inside
  <2>2. \A x \in Holders : td'[x].exc_depth = td[x].exc_depth
    BY <1>2 DEF TdSet
  <2> QED BY <1>0, <2>1, <2>2 DEF DepthOK, Own
<1>8. MutexOK'
  BY <1>0, <1>g, <1>1, <1>3 DEF OsSet, OneStarter, TypedLib, MutexOK, At, Actors
<1> QED BY <1>1, <1>2, <1>3, <1>4, <1>5, <1>6, <1>7, <1>8 DEF ThreadInv, Typed

LEMMA SetArgsKeeps ==
    ASSUME OneStarter, ThreadInv, NEW a \in Actors, SetArgs(a)
    PROVE  ThreadInv'
<1>0. TypedLib /\ TypedTd /\ TypedOs /\ KeyOK /\ CallOK /\ RunOK /\ DepthOK /\ MutexOK /\ a \in Actors
  BY DEF ThreadInv, Typed, Actors
<1>g. /\ os[a].pc = "args"
      /\ os[a].obj \in Threads
      /\ os[a].obj # a
      /\ os[os[a].obj].pc = "none"
      /\ td[os[a].obj].caller = a
  BY <1>0 DEF SetArgs, At, CallOK, Calls, Calling
<1>1. TypedOs' /\ OsSet(a, "create", os[a].obj, os[a].read, os[a].got)
  <2>1. Go(a, "create") /\ "create" \in Places
    BY DEF SetArgs, Places, Calling
  <2> QED BY <1>0, <2>1, GoMoves
<1>2. /\ TypedTd'
      /\ TdSet(os[a].obj, <<os[a].obj, td[os[a].obj].calls>>, td[os[a].obj].exc_depth, td[os[a].obj].caller, td[os[a].obj].calls, td[os[a].obj].ran)
      /\ td'[os[a].obj].thread <=> td[os[a].obj].thread
      /\ td'[os[a].obj].running <=> td[os[a].obj].running
  <2>1. td' = [td EXCEPT ![os[a].obj].args = <<os[a].obj, td[os[a].obj].calls>>]
    BY <1>g DEF SetArgs
  <2>2. TypedTd /\ os[a].obj \in Holders /\ <<os[a].obj, td[os[a].obj].calls>> \in Seq(Threads \cup Nat)
    BY <1>0, <1>g DEF TypedTd, TypedOs, Actors, Holders
  <2>3. TypedTd'
    BY ONLY <2>1, <2>2 DEF TypedTd
  <2>4. /\ TdSet(os[a].obj, <<os[a].obj, td[os[a].obj].calls>>, td[os[a].obj].exc_depth, td[os[a].obj].caller, td[os[a].obj].calls, td[os[a].obj].ran)
        /\ td'[os[a].obj].thread <=> td[os[a].obj].thread
        /\ td'[os[a].obj].running <=> td[os[a].obj].running
    BY ONLY <2>1, <2>2 DEF TypedTd, TdSet
  <2> QED BY <2>3, <2>4
<1>3. TypedLib' /\ UNCHANGED lib
  BY <1>0 DEF SetArgs, TypedLib
<1>4. KeyOK'
  BY <1>0, <1>g, <1>1, <1>3 DEF OsSet, OneStarter, KeyOK, NoneMade, NoSlot, At, Actors, Calling
<1>5. CallOK'
  <2> SUFFICES ASSUME NEW b \in Actors PROVE Calls(b)'
    BY DEF CallOK
  <2>1. Calls(b) /\ Calls(a) /\ Threads \subseteq Actors /\ Threads \subseteq Holders /\ NULL \notin Actors
    BY <1>0 DEF CallOK, Actors, Holders, OneStarter
  <2> QED BY <1>g, <1>1, <1>2, <2>1 DEF OsSet, TdSet, Calls, Calling
<1>6. RunOK'
  <2> SUFFICES ASSUME NEW x \in Threads PROVE Counted(x)' /\ Runs(x)'
    BY DEF RunOK
  <2>1. Counted(x) /\ Runs(x) /\ x \in Actors /\ x \in Holders /\ NULL \notin Actors
    BY <1>0 DEF RunOK, Actors, Holders, OneStarter
  <2>2. td[x].caller \in Actors \cup {NULL} /\ td[x].ran \in Nat /\ td[x].calls \in Nat
    BY <1>0, <2>1 DEF TypedTd
  <2>3. Counted(x)'
    BY <1>g, <1>1, <1>2, <2>1, <2>2 DEF OsSet, TdSet, Counted, Calling
  <2>4. Runs(x)'
    BY <1>g, <1>1, <1>2, <2>1, <2>2 DEF OsSet, TdSet, Runs
  <2> QED BY <2>3, <2>4
<1>7. DepthOK'
  <2>1. \A b \in Actors : Inside(b)' <=> Inside(b)
    BY <1>g, <1>1 DEF OsSet, Inside
  <2>2. \A x \in Holders : td'[x].exc_depth = td[x].exc_depth
    BY <1>2 DEF TdSet
  <2> QED BY <1>0, <2>1, <2>2 DEF DepthOK, Own
<1>8. MutexOK'
  BY <1>0, <1>g, <1>1, <1>3 DEF OsSet, OneStarter, TypedLib, MutexOK, At, Actors
<1> QED BY <1>1, <1>2, <1>3, <1>4, <1>5, <1>6, <1>7, <1>8 DEF ThreadInv, Typed

LEMMA CreateThreadKeeps ==
    ASSUME OneStarter, ThreadInv, NEW a \in Actors, CreateThread(a)
    PROVE  ThreadInv'
<1>0. TypedLib /\ TypedTd /\ TypedOs /\ KeyOK /\ CallOK /\ RunOK /\ DepthOK /\ MutexOK /\ a \in Actors
  BY DEF ThreadInv, Typed, Actors
<1>g. /\ os[a].pc = "create"
      /\ os[a].obj \in Threads
      /\ os[a].obj # a
      /\ os[os[a].obj].pc = "none"
      /\ td[os[a].obj].caller = a
      /\ td[os[a].obj].args = <<os[a].obj, td[os[a].obj].calls>>
  BY <1>0 DEF CreateThread, At, CallOK, Calls, Calling
<1>1. TypedOs' /\ \A b \in Actors :
                /\ os'[b].pc = IF b = a THEN "wrote" ELSE IF b = os[a].obj THEN "init" ELSE os[b].pc
                /\ os'[b].obj = IF b = a THEN NULL ELSE os[b].obj
                /\ os'[b].read = os[b].read
                /\ os'[b].got = os[b].got
  <2>1. TypedOs /\ os' = [os EXCEPT ![a].pc = "wrote", ![a].obj = NULL, ![os[a].obj].pc = "init"]
    BY <1>0, <1>g DEF CreateThread
  <2>2. a \in Actors /\ os[a].obj \in Actors /\ os[a].obj # a /\ {"wrote", "init"} \subseteq Places
    BY <1>0, <1>g DEF TypedLib, TypedTd, Places, Calling, Actors, Holders
  <2>3. TypedOs'
    BY ONLY <2>1, <2>2 DEF TypedOs
  <2>4. \A b \in Actors :
            /\ os'[b].pc = IF b = a THEN "wrote" ELSE IF b = os[a].obj THEN "init" ELSE os[b].pc
            /\ os'[b].obj = IF b = a THEN NULL ELSE os[b].obj
            /\ os'[b].read = os[b].read
            /\ os'[b].got = os[b].got
    BY ONLY <2>1, <2>2 DEF TypedOs, OsSet
  <2> QED BY <2>3, <2>4
<1>2. /\ TypedTd'
      /\ TdSet(os[a].obj, td[os[a].obj].args, td[os[a].obj].exc_depth, td[os[a].obj].caller, td[os[a].obj].calls, td[os[a].obj].ran)
      /\ td'[os[a].obj].thread
      /\ td'[os[a].obj].running <=> td[os[a].obj].running
  <2>1. td' = [td EXCEPT ![os[a].obj].thread = TRUE]
    BY <1>g DEF CreateThread
  <2>2. TypedTd /\ os[a].obj \in Holders
    BY <1>0, <1>g DEF TypedTd, TypedOs, Actors, Holders
  <2>3. TypedTd'
    BY ONLY <2>1, <2>2 DEF TypedTd
  <2>4. /\ TdSet(os[a].obj, td[os[a].obj].args, td[os[a].obj].exc_depth, td[os[a].obj].caller, td[os[a].obj].calls, td[os[a].obj].ran)
        /\ td'[os[a].obj].thread
        /\ td'[os[a].obj].running <=> td[os[a].obj].running
    BY ONLY <2>1, <2>2 DEF TypedTd, TdSet
  <2> QED BY <2>3, <2>4
<1>3. TypedLib' /\ UNCHANGED lib
  BY <1>0 DEF CreateThread, TypedLib
<1>4. KeyOK'
  BY <1>0, <1>g, <1>1, <1>3 DEF OsSet, OneStarter, KeyOK, NoneMade, NoSlot, At, Actors, Calling
<1>5. CallOK'
  <2> SUFFICES ASSUME NEW b \in Actors PROVE Calls(b)'
    BY DEF CallOK
  <2>1. Calls(b) /\ Calls(a) /\ Threads \subseteq Actors /\ Threads \subseteq Holders /\ NULL \notin Actors
    BY <1>0 DEF CallOK, Actors, Holders, OneStarter
  <2> QED BY <1>g, <1>1, <1>2, <2>1 DEF OsSet, TdSet, Calls, Calling
<1>6. RunOK'
  <2> SUFFICES ASSUME NEW x \in Threads PROVE Counted(x)' /\ Runs(x)'
    BY DEF RunOK
  <2>1. Counted(x) /\ Runs(x) /\ x \in Actors /\ x \in Holders /\ NULL \notin Actors
    BY <1>0 DEF RunOK, Actors, Holders, OneStarter
  <2>2. td[x].caller \in Actors \cup {NULL} /\ td[x].ran \in Nat /\ td[x].calls \in Nat
    BY <1>0, <2>1 DEF TypedTd
  <2>3. Counted(x)'
    BY <1>g, <1>1, <1>2, <2>1, <2>2 DEF OsSet, TdSet, Counted, Calling
  <2>4. Runs(x)'
    BY <1>g, <1>1, <1>2, <2>1, <2>2 DEF OsSet, TdSet, Runs
  <2> QED BY <2>3, <2>4
<1>7. DepthOK'
  <2>1. \A b \in Actors : Inside(b)' <=> Inside(b)
    BY <1>g, <1>1 DEF OsSet, Inside
  <2>2. \A x \in Holders : td'[x].exc_depth = td[x].exc_depth
    BY <1>2 DEF TdSet
  <2> QED BY <1>0, <2>1, <2>2 DEF DepthOK, Own
<1>8. MutexOK'
  BY <1>0, <1>g, <1>1, <1>3 DEF OsSet, OneStarter, TypedLib, MutexOK, At, Actors
<1> QED BY <1>1, <1>2, <1>3, <1>4, <1>5, <1>6, <1>7, <1>8 DEF ThreadInv, Typed

LEMMA CreateFailsKeeps ==
    ASSUME OneStarter, ThreadInv, NEW a \in Actors, CreateFails(a)
    PROVE  ThreadInv'
<1>0. TypedLib /\ TypedTd /\ TypedOs /\ KeyOK /\ CallOK /\ RunOK /\ DepthOK /\ MutexOK /\ a \in Actors
  BY DEF ThreadInv, Typed, Actors
<1>g. /\ os[a].pc = "create"
      /\ os[a].obj \in Threads
      /\ os[a].obj # a
      /\ os[os[a].obj].pc = "none"
      /\ td[os[a].obj].caller = a
  BY <1>0 DEF CreateFails, At, CallOK, Calls, Calling
<1>1. TypedOs' /\ OsSet(a, "left", NULL, os[a].read, os[a].got)
  <2>1. TypedOs /\ os' = [os EXCEPT ![a].pc = "left", ![a].obj = NULL]
    BY <1>0, <1>g DEF CreateFails
  <2>2. a \in Actors /\ "left" \in Places
    BY <1>0, <1>g DEF TypedLib, TypedTd, Places, Calling, Actors, Holders
  <2>3. TypedOs'
    BY ONLY <2>1, <2>2 DEF TypedOs
  <2>4. OsSet(a, "left", NULL, os[a].read, os[a].got)
    BY ONLY <2>1, <2>2 DEF TypedOs, OsSet
  <2> QED BY <2>3, <2>4
<1>2. /\ TypedTd'
      /\ TdSet(os[a].obj, td[os[a].obj].args, td[os[a].obj].exc_depth, NULL, td[os[a].obj].calls, td[os[a].obj].calls)
      /\ td'[os[a].obj].running <=> td[os[a].obj].running
  <2>1. PICK stale \in {td[os[a].obj].thread, TRUE} :
            td' = [td EXCEPT ![os[a].obj].thread = stale, ![os[a].obj].caller = NULL,
                             ![os[a].obj].ran = td[os[a].obj].calls]
    BY <1>g DEF CreateFails
  <2> DEFINE o == os[a].obj
  <2>2. o \in Holders /\ td[o].calls \in Nat /\ stale \in BOOLEAN
    BY <1>0, <1>g, <2>1 DEF TypedTd, Holders
  <2>3. TypedTd /\ td' = [td EXCEPT ![o].thread = stale, ![o].caller = NULL, ![o].ran = td[o].calls]
    BY <1>0, <2>1
  <2> HIDE DEF o
  <2>4. TypedTd'
    <3> DEFINE m == [td EXCEPT ![o].thread = stale]
    <3>1. m \in [Holders -> [args : Seq(Threads \cup Nat), thread : BOOLEAN, running : BOOLEAN,
                            exc_depth : Nat, caller : Actors \cup {NULL}, calls : Nat, ran : Nat]]
      BY ONLY <2>2, <2>3 DEF TypedTd
    <3>2. td' = [m EXCEPT ![o].caller = NULL, ![o].ran = td[o].calls]
      BY ONLY <2>2, <2>3 DEF TypedTd
    <3> HIDE DEF m
    <3> QED BY ONLY <2>2, <3>1, <3>2 DEF TypedTd
  <2>5. /\ TdSet(o, td[o].args, td[o].exc_depth, NULL, td[o].calls, td[o].calls)
        /\ td'[o].running <=> td[o].running
    BY ONLY <2>2, <2>3 DEF TypedTd, TdSet
  <2> QED BY <2>4, <2>5 DEF o
<1>3. TypedLib' /\ UNCHANGED lib
  BY <1>0 DEF CreateFails, TypedLib
<1>4. KeyOK'
  BY <1>0, <1>g, <1>1, <1>3 DEF OsSet, OneStarter, KeyOK, NoneMade, NoSlot, At, Actors, Calling
<1>5. CallOK'
  <2> SUFFICES ASSUME NEW b \in Actors PROVE Calls(b)'
    BY DEF CallOK
  <2>1. Calls(b) /\ Calls(a) /\ Threads \subseteq Actors /\ Threads \subseteq Holders /\ NULL \notin Actors
    BY <1>0 DEF CallOK, Actors, Holders, OneStarter
  <2> QED BY <1>g, <1>1, <1>2, <2>1 DEF OsSet, TdSet, Calls, Calling
<1>6. RunOK'
  <2> SUFFICES ASSUME NEW x \in Threads PROVE Counted(x)' /\ Runs(x)'
    BY DEF RunOK
  <2>1. Counted(x) /\ Runs(x) /\ x \in Actors /\ x \in Holders /\ NULL \notin Actors
    BY <1>0 DEF RunOK, Actors, Holders, OneStarter
  <2>2. td[x].caller \in Actors \cup {NULL} /\ td[x].ran \in Nat /\ td[x].calls \in Nat
    BY <1>0, <2>1 DEF TypedTd
  <2>3. Counted(x)'
    BY <1>g, <1>1, <1>2, <2>1, <2>2 DEF OsSet, TdSet, Counted, Calling
  <2>4. Runs(x)'
    BY <1>g, <1>1, <1>2, <2>1, <2>2 DEF OsSet, TdSet, Runs
  <2> QED BY <2>3, <2>4
<1>7. DepthOK'
  <2>1. \A b \in Actors : Inside(b)' <=> Inside(b)
    BY <1>g, <1>1 DEF OsSet, Inside
  <2>2. \A x \in Holders : td'[x].exc_depth = td[x].exc_depth
    BY <1>2 DEF TdSet
  <2> QED BY <1>0, <2>1, <2>2 DEF DepthOK, Own
<1>8. MutexOK'
  BY <1>0, <1>g, <1>1, <1>3 DEF OsSet, OneStarter, TypedLib, MutexOK, At, Actors
<1> QED BY <1>1, <1>2, <1>3, <1>4, <1>5, <1>6, <1>7, <1>8 DEF ThreadInv, Typed

LEMMA InitRunKeeps ==
    ASSUME OneStarter, ThreadInv, NEW a \in Threads, InitRun(a)
    PROVE  ThreadInv'
<1>0. TypedLib /\ TypedTd /\ TypedOs /\ KeyOK /\ CallOK /\ RunOK /\ DepthOK /\ MutexOK /\ a \in Actors
  BY DEF ThreadInv, Typed, Actors
<1>g. /\ os[a].pc = "init"
      /\ td[a].args = <<a, td[a].calls>>
      /\ lib.created
      /\ lib.key = 1
      /\ Len(lib.slots) = 1
  BY <1>0 DEF InitRun, At, KeyOK, NoneMade, RunOK, Runs
<1>1. TypedOs' /\ OsSet(a, "start", os[a].obj, os[a].read, os[a].got)
  <2>1. Go(a, "start") /\ "start" \in Places
    BY DEF InitRun, Places, Calling
  <2> QED BY <1>0, <2>1, GoMoves
<1>2. /\ TypedTd'
      /\ TdSet(a, <<td[a].calls>>, td[a].exc_depth, td[a].caller, td[a].calls, td[a].ran)
      /\ td'[a].thread <=> td[a].thread
      /\ td'[a].running <=> td[a].running
  <2>1. td' = [td EXCEPT ![a].args = <<td[a].calls>>]
    BY <1>g DEF InitRun
  <2>2. TypedTd /\ a \in Holders /\ <<td[a].calls>> \in Seq(Threads \cup Nat)
    BY <1>0, <1>g DEF TypedTd, TypedOs, Actors, Holders
  <2>3. TypedTd'
    BY ONLY <2>1, <2>2 DEF TypedTd
  <2>4. /\ TdSet(a, <<td[a].calls>>, td[a].exc_depth, td[a].caller, td[a].calls, td[a].ran)
        /\ td'[a].thread <=> td[a].thread
        /\ td'[a].running <=> td[a].running
    BY ONLY <2>1, <2>2 DEF TypedTd, TdSet
  <2> QED BY <2>3, <2>4
<1>3. /\ TypedLib'
      /\ lib'.created = lib.created
      /\ lib'.key = lib.key
      /\ lib'.mutex = lib.mutex
      /\ lib'.total = lib.total
      /\ lib'.added = lib.added
      /\ Len(lib'.slots) = 1
      /\ \A b \in Actors : lib'.slots[1][b] = IF b = a THEN a ELSE lib.slots[1][b]
  <2>1. lib' = [lib EXCEPT !.slots[1][a] = a]
    BY <1>g DEF InitRun
  <2>2. lib.slots \in Seq([Actors -> Threads \cup {NULL}]) /\ Len(lib.slots) = 1 /\ a \in Threads
    BY <1>0, <1>g DEF TypedLib
  <2>3. [lib.slots EXCEPT ![1][a] = a] \in Seq([Actors -> Threads \cup {NULL}])
    <3>1. lib.slots[1] \in [Actors -> Threads \cup {NULL}]
      BY <2>2, ElementOfSeq
    <3> DEFINE s == [lib.slots[1] EXCEPT ![a] = a]
    <3>2. s \in [Actors -> Threads \cup {NULL}] /\ 1 \in 1..Len(lib.slots)
      <4>1. \A f \in [Actors -> Threads \cup {NULL}] :
                [f EXCEPT ![a] = a] \in [Actors -> Threads \cup {NULL}]
        BY ONLY <2>2
      <4> QED BY <2>2, <3>1, <4>1
    <3> HIDE DEF s
    <3>3. [lib.slots EXCEPT ![1] = s] \in Seq([Actors -> Threads \cup {NULL}])
      BY <2>2, <3>2, ExceptSeq
    <3> QED BY <3>3 DEF s
  <2>4. TypedLib
    BY <1>0
  <2>5. TypedLib'
    BY ONLY <2>1, <2>3, <2>4 DEF TypedLib
  <2>6. \A b \in Actors : lib'.slots[1][b] = IF b = a THEN a ELSE lib.slots[1][b]
    BY ONLY <2>1, <2>2, <2>4 DEF TypedLib
  <2>7. Len(lib'.slots) = 1
    BY ONLY <2>1, <2>2, <2>4 DEF TypedLib
  <2> QED BY ONLY <2>1, <2>4, <2>5, <2>6, <2>7 DEF TypedLib
<1>4. KeyOK'
  BY <1>0, <1>g, <1>1, <1>3 DEF OsSet, OneStarter, KeyOK, NoneMade, NoSlot, At, Actors, Calling
<1>5. CallOK'
  <2> SUFFICES ASSUME NEW b \in Actors PROVE Calls(b)'
    BY DEF CallOK
  <2>1. Calls(b) /\ Calls(a) /\ Threads \subseteq Actors /\ Threads \subseteq Holders /\ NULL \notin Actors
    BY <1>0 DEF CallOK, Actors, Holders, OneStarter
  <2> QED BY <1>g, <1>1, <1>2, <2>1 DEF OsSet, TdSet, Calls, Calling
<1>6. RunOK'
  <2> SUFFICES ASSUME NEW x \in Threads PROVE Counted(x)' /\ Runs(x)'
    BY DEF RunOK
  <2>1. Counted(x) /\ Runs(x) /\ x \in Actors /\ x \in Holders /\ NULL \notin Actors
    BY <1>0 DEF RunOK, Actors, Holders, OneStarter
  <2>2. td[x].caller \in Actors \cup {NULL} /\ td[x].ran \in Nat /\ td[x].calls \in Nat
    BY <1>0, <2>1 DEF TypedTd
  <2>3. Counted(x)'
    BY <1>g, <1>1, <1>2, <2>1, <2>2 DEF OsSet, TdSet, Counted, Calling
  <2>4. Runs(x)'
    BY <1>g, <1>1, <1>2, <2>1, <2>2 DEF OsSet, TdSet, Runs
  <2> QED BY <2>3, <2>4
<1>7. DepthOK'
  <2>1. \A b \in Actors : Inside(b)' <=> Inside(b)
    BY <1>g, <1>1 DEF OsSet, Inside
  <2>2. \A x \in Holders : td'[x].exc_depth = td[x].exc_depth
    BY <1>2 DEF TdSet
  <2> QED BY <1>0, <2>1, <2>2 DEF DepthOK, Own
<1>8. MutexOK'
  BY <1>0, <1>g, <1>1, <1>3 DEF OsSet, OneStarter, TypedLib, MutexOK, At, Actors
<1> QED BY <1>1, <1>2, <1>3, <1>4, <1>5, <1>6, <1>7, <1>8 DEF ThreadInv, Typed

LEMMA SetRunningKeeps ==
    ASSUME OneStarter, ThreadInv, NEW a \in Threads, SetRunning(a)
    PROVE  ThreadInv'
<1>0. TypedLib /\ TypedTd /\ TypedOs /\ KeyOK /\ CallOK /\ RunOK /\ DepthOK /\ MutexOK /\ a \in Actors
  BY DEF ThreadInv, Typed, Actors
<1>g. /\ os[a].pc = "start"
      /\ td[a].args = <<td[a].calls>>
  BY <1>0 DEF SetRunning, At, RunOK, Runs
<1>1. TypedOs' /\ OsSet(a, "run", os[a].obj, os[a].read, td[a].calls)
  <2>1. TypedOs /\ os' = [os EXCEPT ![a].pc = "run", ![a].tried = FALSE, ![a].got = td[a].calls]
    BY <1>0, <1>g DEF SetRunning
  <2>2. a \in Actors /\ "run" \in Places /\ td[a].calls \in Nat
    BY <1>0, <1>g DEF TypedLib, TypedTd, Places, Calling, Actors, Holders
  <2>3. TypedOs'
    BY ONLY <2>1, <2>2 DEF TypedOs
  <2>4. OsSet(a, "run", os[a].obj, os[a].read, td[a].calls)
    BY ONLY <2>1, <2>2 DEF TypedOs, OsSet
  <2> QED BY <2>3, <2>4
<1>2. /\ TypedTd'
      /\ TdSet(a, td[a].args, td[a].exc_depth, td[a].caller, td[a].calls, td[a].ran)
      /\ td'[a].thread <=> td[a].thread
      /\ td'[a].running
  <2>1. td' = [td EXCEPT ![a].running = TRUE]
    BY <1>g DEF SetRunning
  <2>2. TypedTd /\ a \in Holders
    BY <1>0, <1>g DEF TypedTd, TypedOs, Actors, Holders
  <2>3. TypedTd'
    BY ONLY <2>1, <2>2 DEF TypedTd
  <2>4. /\ TdSet(a, td[a].args, td[a].exc_depth, td[a].caller, td[a].calls, td[a].ran)
        /\ td'[a].thread <=> td[a].thread
        /\ td'[a].running
    BY ONLY <2>1, <2>2 DEF TypedTd, TdSet
  <2> QED BY <2>3, <2>4
<1>3. TypedLib' /\ UNCHANGED lib
  BY <1>0 DEF SetRunning, TypedLib
<1>4. KeyOK'
  BY <1>0, <1>g, <1>1, <1>3 DEF OsSet, OneStarter, KeyOK, NoneMade, NoSlot, At, Actors, Calling
<1>5. CallOK'
  <2> SUFFICES ASSUME NEW b \in Actors PROVE Calls(b)'
    BY DEF CallOK
  <2>1. Calls(b) /\ Calls(a) /\ Threads \subseteq Actors /\ Threads \subseteq Holders /\ NULL \notin Actors
    BY <1>0 DEF CallOK, Actors, Holders, OneStarter
  <2> QED BY <1>g, <1>1, <1>2, <2>1 DEF OsSet, TdSet, Calls, Calling
<1>6. RunOK'
  <2> SUFFICES ASSUME NEW x \in Threads PROVE Counted(x)' /\ Runs(x)'
    BY DEF RunOK
  <2>1. Counted(x) /\ Runs(x) /\ x \in Actors /\ x \in Holders /\ NULL \notin Actors
    BY <1>0 DEF RunOK, Actors, Holders, OneStarter
  <2>2. td[x].caller \in Actors \cup {NULL} /\ td[x].ran \in Nat /\ td[x].calls \in Nat
    BY <1>0, <2>1 DEF TypedTd
  <2>3. Counted(x)'
    BY <1>g, <1>1, <1>2, <2>1, <2>2 DEF OsSet, TdSet, Counted, Calling
  <2>4. Runs(x)'
    BY <1>g, <1>1, <1>2, <2>1, <2>2 DEF OsSet, TdSet, Runs
  <2> QED BY <2>3, <2>4
<1>7. DepthOK'
  <2>1. \A b \in Actors : Inside(b)' <=> Inside(b)
    BY <1>g, <1>1 DEF OsSet, Inside
  <2>2. \A x \in Holders : td'[x].exc_depth = td[x].exc_depth
    BY <1>2 DEF TdSet
  <2> QED BY <1>0, <2>1, <2>2 DEF DepthOK, Own
<1>8. MutexOK'
  BY <1>0, <1>g, <1>1, <1>3 DEF OsSet, OneStarter, TypedLib, MutexOK, At, Actors
<1> QED BY <1>1, <1>2, <1>3, <1>4, <1>5, <1>6, <1>7, <1>8 DEF ThreadInv, Typed

LEMMA EndKeeps ==
    ASSUME OneStarter, ThreadInv, NEW a \in Threads, EndRun(a)
    PROVE  ThreadInv'
<1>0. TypedLib /\ TypedTd /\ TypedOs /\ KeyOK /\ CallOK /\ RunOK /\ DepthOK /\ MutexOK /\ a \in Actors
  BY DEF ThreadInv, Typed, Actors
<1>g. os[a].pc = "run"
  BY <1>0 DEF EndRun, At
<1>1. TypedOs' /\ OsSet(a, "done", os[a].obj, os[a].read, os[a].got)
  <2>1. Go(a, "done") /\ "done" \in Places
    BY DEF EndRun, Places, Calling
  <2> QED BY <1>0, <2>1, GoMoves
<1>2. /\ TypedTd'
      /\ TdSet(a, td[a].args, td[a].exc_depth, td[a].caller, td[a].calls, td[a].ran + 1)
      /\ td'[a].thread <=> td[a].thread
      /\ td'[a].running <=> td[a].running
  <2>1. td' = [td EXCEPT ![a].ran = @ + 1]
    BY <1>g DEF EndRun
  <2>2. TypedTd /\ a \in Holders /\ td[a].ran + 1 \in Nat
    BY <1>0, <1>g DEF TypedTd, TypedOs, Actors, Holders
  <2>3. TypedTd'
    BY ONLY <2>1, <2>2 DEF TypedTd
  <2>4. /\ TdSet(a, td[a].args, td[a].exc_depth, td[a].caller, td[a].calls, td[a].ran + 1)
        /\ td'[a].thread <=> td[a].thread
        /\ td'[a].running <=> td[a].running
    BY ONLY <2>1, <2>2 DEF TypedTd, TdSet
  <2> QED BY <2>3, <2>4
<1>3. TypedLib' /\ UNCHANGED lib
  BY <1>0 DEF EndRun, TypedLib
<1>4. KeyOK'
  BY <1>0, <1>g, <1>1, <1>3 DEF OsSet, OneStarter, KeyOK, NoneMade, NoSlot, At, Actors, Calling
<1>5. CallOK'
  <2> SUFFICES ASSUME NEW b \in Actors PROVE Calls(b)'
    BY DEF CallOK
  <2>1. Calls(b) /\ Calls(a) /\ Threads \subseteq Actors /\ Threads \subseteq Holders /\ NULL \notin Actors
    BY <1>0 DEF CallOK, Actors, Holders, OneStarter
  <2> QED BY <1>g, <1>1, <1>2, <2>1 DEF OsSet, TdSet, Calls, Calling
<1>6. RunOK'
  <2> SUFFICES ASSUME NEW x \in Threads PROVE Counted(x)' /\ Runs(x)'
    BY DEF RunOK
  <2>1. Counted(x) /\ Runs(x) /\ x \in Actors /\ x \in Holders /\ NULL \notin Actors
    BY <1>0 DEF RunOK, Actors, Holders, OneStarter
  <2>2. td[x].caller \in Actors \cup {NULL} /\ td[x].ran \in Nat /\ td[x].calls \in Nat
    BY <1>0, <2>1 DEF TypedTd
  <2>3. Counted(x)'
    BY <1>g, <1>1, <1>2, <2>1, <2>2 DEF OsSet, TdSet, Counted, Calling
  <2>4. Runs(x)'
    BY <1>g, <1>1, <1>2, <2>1, <2>2 DEF OsSet, TdSet, Runs
  <2> QED BY <2>3, <2>4
<1>7. DepthOK'
  <2>1. \A b \in Actors : Inside(b)' <=> Inside(b)
    BY <1>g, <1>1 DEF OsSet, Inside
  <2>2. \A x \in Holders : td'[x].exc_depth = td[x].exc_depth
    BY <1>2 DEF TdSet
  <2> QED BY <1>0, <2>1, <2>2 DEF DepthOK, Own
<1>8. MutexOK'
  BY <1>0, <1>g, <1>1, <1>3 DEF OsSet, OneStarter, TypedLib, MutexOK, At, Actors
<1> QED BY <1>1, <1>2, <1>3, <1>4, <1>5, <1>6, <1>7, <1>8 DEF ThreadInv, Typed

LEMMA JoinKeeps ==
    ASSUME OneStarter, ThreadInv, NEW a \in Actors, NEW t \in Threads, Join(a, t)
    PROVE  ThreadInv'
<1>0. TypedLib /\ TypedTd /\ TypedOs /\ KeyOK /\ CallOK /\ RunOK /\ DepthOK /\ MutexOK /\ a \in Actors
  BY DEF ThreadInv, Typed, Actors
<1>g. /\ os[a].pc = "run"
      /\ td[t].caller = a
      /\ os[t].pc # "none"
      /\ a # NULL
      /\ t # a
  BY <1>0 DEF Join, At, RunOK, Counted, Calling, OneStarter, Actors
<1>1. TypedOs' /\ OsSet(a, "join", t, os[a].read, os[a].got)
  <2>1. TypedOs /\ os' = [os EXCEPT ![a].pc = "join", ![a].obj = t]
    BY <1>0, <1>g DEF Join
  <2>2. a \in Actors /\ t \in Threads /\ "join" \in Places
    BY <1>0, <1>g DEF TypedLib, TypedTd, Places, Calling, Actors, Holders
  <2>3. TypedOs'
    BY ONLY <2>1, <2>2 DEF TypedOs
  <2>4. OsSet(a, "join", t, os[a].read, os[a].got)
    BY ONLY <2>1, <2>2 DEF TypedOs, OsSet
  <2> QED BY <2>3, <2>4
<1>2. TypedTd' /\ UNCHANGED td
  BY <1>0 DEF Join, TypedTd
<1>3. TypedLib' /\ UNCHANGED lib
  BY <1>0 DEF Join, TypedLib
<1>4. KeyOK'
  BY <1>0, <1>g, <1>1, <1>3 DEF OsSet, OneStarter, KeyOK, NoneMade, NoSlot, At, Actors, Calling
<1>5. CallOK'
  <2> SUFFICES ASSUME NEW b \in Actors PROVE Calls(b)'
    BY DEF CallOK
  <2>1. Calls(b) /\ Calls(a) /\ Threads \subseteq Actors /\ Threads \subseteq Holders /\ NULL \notin Actors
    BY <1>0 DEF CallOK, Actors, Holders, OneStarter
  <2> QED BY <1>g, <1>1, <1>2, <2>1 DEF OsSet, TdSet, Calls, Calling
<1>6. RunOK'
  <2> SUFFICES ASSUME NEW x \in Threads PROVE Counted(x)' /\ Runs(x)'
    BY DEF RunOK
  <2>1. Counted(x) /\ Runs(x) /\ x \in Actors /\ x \in Holders /\ NULL \notin Actors
    BY <1>0 DEF RunOK, Actors, Holders, OneStarter
  <2>2. td[x].caller \in Actors \cup {NULL} /\ td[x].ran \in Nat /\ td[x].calls \in Nat
    BY <1>0, <2>1 DEF TypedTd
  <2>3. Counted(x)'
    BY <1>g, <1>1, <1>2, <2>1, <2>2 DEF OsSet, TdSet, Counted, Calling
  <2>4. Runs(x)'
    BY <1>g, <1>1, <1>2, <2>1, <2>2 DEF OsSet, TdSet, Runs
  <2> QED BY <2>3, <2>4
<1>7. DepthOK'
  <2>1. \A b \in Actors : Inside(b)' <=> Inside(b)
    BY <1>g, <1>1 DEF OsSet, Inside
  <2>2. \A x \in Holders : td'[x].exc_depth = td[x].exc_depth
    BY <1>2 DEF TdSet
  <2> QED BY <1>0, <2>1, <2>2 DEF DepthOK, Own
<1>8. MutexOK'
  BY <1>0, <1>g, <1>1, <1>3 DEF OsSet, OneStarter, TypedLib, MutexOK, At, Actors
<1> QED BY <1>1, <1>2, <1>3, <1>4, <1>5, <1>6, <1>7, <1>8 DEF ThreadInv, Typed

LEMMA JoinedKeeps ==
    ASSUME OneStarter, ThreadInv, NEW a \in Actors, Joined(a)
    PROVE  ThreadInv'
<1>0. TypedLib /\ TypedTd /\ TypedOs /\ KeyOK /\ CallOK /\ RunOK /\ DepthOK /\ MutexOK /\ a \in Actors
  BY DEF ThreadInv, Typed, Actors
<1>g. /\ os[a].pc = "join"
      /\ os[a].obj \in Threads
      /\ os[a].obj # a
      /\ os[os[a].obj].pc = "done"
      /\ td[os[a].obj].caller = a
  BY <1>0 DEF Joined, At, CallOK, Calls, Calling, RunOK, Runs
<1>1. TypedOs' /\ \A b \in Actors :
                /\ os'[b].pc = IF b = a THEN "run" ELSE IF b = os[a].obj THEN "none" ELSE os[b].pc
                /\ os'[b].obj = IF b = a THEN NULL ELSE os[b].obj
                /\ os'[b].read = os[b].read
                /\ os'[b].got = os[b].got
  <2> DEFINE o == os[a].obj
  <2>1. TypedOs /\ os' = [os EXCEPT ![a].pc = "run", ![o].pc = "none", ![a].obj = NULL]
    BY <1>0 DEF Joined
  <2>2. a \in Actors /\ o \in Actors /\ o # a /\ {"run", "none"} \subseteq Places
    BY <1>0, <1>g DEF Places, Actors
  <2> HIDE DEF o
  <2>3. TypedOs'
    BY ONLY <2>1, <2>2 DEF TypedOs
  <2>4. \A b \in Actors :
            /\ os'[b].pc = IF b = a THEN "run" ELSE IF b = o THEN "none" ELSE os[b].pc
            /\ os'[b].obj = IF b = a THEN NULL ELSE os[b].obj
            /\ os'[b].read = os[b].read
            /\ os'[b].got = os[b].got
    BY ONLY <2>1, <2>2 DEF TypedOs
  <2> QED BY <2>3, <2>4 DEF o
<1>2. /\ TypedTd'
      /\ TdSet(os[a].obj, td[os[a].obj].args, td[os[a].obj].exc_depth, NULL, td[os[a].obj].calls, td[os[a].obj].ran)
      /\ td'[os[a].obj].thread <=> td[os[a].obj].thread
      /\ td'[os[a].obj].running <=> td[os[a].obj].running
  <2>1. td' = [td EXCEPT ![os[a].obj].caller = NULL]
    BY <1>g DEF Joined
  <2>2. TypedTd /\ os[a].obj \in Holders
    BY <1>0, <1>g DEF TypedTd, TypedOs, Actors, Holders
  <2>3. TypedTd'
    BY ONLY <2>1, <2>2 DEF TypedTd
  <2>4. /\ TdSet(os[a].obj, td[os[a].obj].args, td[os[a].obj].exc_depth, NULL, td[os[a].obj].calls, td[os[a].obj].ran)
        /\ td'[os[a].obj].thread <=> td[os[a].obj].thread
        /\ td'[os[a].obj].running <=> td[os[a].obj].running
    BY ONLY <2>1, <2>2 DEF TypedTd, TdSet
  <2> QED BY <2>3, <2>4
<1>3. TypedLib' /\ UNCHANGED lib
  BY <1>0 DEF Joined, TypedLib
<1>4. KeyOK'
  BY <1>0, <1>g, <1>1, <1>3 DEF OsSet, OneStarter, KeyOK, NoneMade, NoSlot, At, Actors, Calling
<1>5. CallOK'
  <2> SUFFICES ASSUME NEW b \in Actors PROVE Calls(b)'
    BY DEF CallOK
  <2>1. Calls(b) /\ Calls(a) /\ Threads \subseteq Actors /\ Threads \subseteq Holders /\ NULL \notin Actors
    BY <1>0 DEF CallOK, Actors, Holders, OneStarter
  <2> QED BY <1>g, <1>1, <1>2, <2>1 DEF OsSet, TdSet, Calls, Calling
<1>6. RunOK'
  <2> SUFFICES ASSUME NEW x \in Threads PROVE Counted(x)' /\ Runs(x)'
    BY DEF RunOK
  <2>1. Counted(x) /\ Runs(x) /\ x \in Actors /\ x \in Holders /\ NULL \notin Actors
    BY <1>0 DEF RunOK, Actors, Holders, OneStarter
  <2>2. td[x].caller \in Actors \cup {NULL} /\ td[x].ran \in Nat /\ td[x].calls \in Nat
    BY <1>0, <2>1 DEF TypedTd
  <2>3. Counted(x)'
    BY <1>g, <1>1, <1>2, <2>1, <2>2 DEF OsSet, TdSet, Counted, Calling
  <2>4. Runs(x)'
    BY <1>g, <1>1, <1>2, <2>1, <2>2 DEF OsSet, TdSet, Runs
  <2> QED BY <2>3, <2>4
<1>7. DepthOK'
  <2>1. \A b \in Actors : Inside(b)' <=> Inside(b)
    BY <1>g, <1>1 DEF OsSet, Inside
  <2>2. \A x \in Holders : td'[x].exc_depth = td[x].exc_depth
    BY <1>2 DEF TdSet
  <2> QED BY <1>0, <2>1, <2>2 DEF DepthOK, Own
<1>8. MutexOK'
  BY <1>0, <1>g, <1>1, <1>3 DEF OsSet, OneStarter, TypedLib, MutexOK, At, Actors
<1> QED BY <1>1, <1>2, <1>3, <1>4, <1>5, <1>6, <1>7, <1>8 DEF ThreadInv, Typed

LEMMA DeleteKeeps ==
    ASSUME OneStarter, ThreadInv, NEW a \in Actors, NEW t \in Threads, Delete(a, t)
    PROVE  ThreadInv'
<1>0. TypedLib /\ TypedTd /\ TypedOs /\ KeyOK /\ CallOK /\ RunOK /\ DepthOK /\ MutexOK /\ a \in Actors
  BY DEF ThreadInv, Typed, Actors
<1>g. /\ os[t].pc = "none"
      /\ td[t].caller = NULL
  BY <1>0 DEF Delete, NewData, At
<1>1. TypedOs' /\ UNCHANGED os
  BY <1>0 DEF Delete, NewData, TypedOs
<1>2. /\ TypedTd'
      /\ TdSet(t, <<>>, 0, NULL, td[t].calls, td[t].ran)
      /\ ~td'[t].thread
      /\ ~td'[t].running
  <2>1. td' = [td EXCEPT ![t] = [args |-> <<>>, thread |-> FALSE, running |-> FALSE, exc_depth |-> 0, caller |-> NULL, calls |-> td[t].calls, ran |-> td[t].ran]]
    BY <1>g DEF Delete, NewData
  <2>2. TypedTd /\ t \in Holders /\ <<>> \in Seq(Threads \cup Nat)
    BY <1>0, <1>g DEF TypedTd, TypedOs, Actors, Holders
  <2>3. TypedTd'
    BY ONLY <2>1, <2>2 DEF TypedTd
  <2>4. /\ TdSet(t, <<>>, 0, NULL, td[t].calls, td[t].ran)
        /\ ~td'[t].thread
        /\ ~td'[t].running
    BY ONLY <2>1, <2>2 DEF TypedTd, TdSet
  <2> QED BY <2>3, <2>4
<1>3. TypedLib' /\ UNCHANGED lib
  BY <1>0 DEF Delete, NewData, TypedLib
<1>4. KeyOK'
  BY <1>0, <1>g, <1>1, <1>3 DEF OsSet, OneStarter, KeyOK, NoneMade, NoSlot, At, Actors, Calling
<1>5. CallOK'
  <2> SUFFICES ASSUME NEW b \in Actors PROVE Calls(b)'
    BY DEF CallOK
  <2>1. Calls(b) /\ Calls(a) /\ Threads \subseteq Actors /\ Threads \subseteq Holders /\ NULL \notin Actors
    BY <1>0 DEF CallOK, Actors, Holders, OneStarter
  <2> QED BY <1>g, <1>1, <1>2, <2>1 DEF OsSet, TdSet, Calls, Calling
<1>6. RunOK'
  <2> SUFFICES ASSUME NEW x \in Threads PROVE Counted(x)' /\ Runs(x)'
    BY DEF RunOK
  <2>1. Counted(x) /\ Runs(x) /\ x \in Actors /\ x \in Holders /\ NULL \notin Actors
    BY <1>0 DEF RunOK, Actors, Holders, OneStarter
  <2>2. td[x].caller \in Actors \cup {NULL} /\ td[x].ran \in Nat /\ td[x].calls \in Nat
    BY <1>0, <2>1 DEF TypedTd
  <2>3. Counted(x)'
    BY <1>g, <1>1, <1>2, <2>1, <2>2 DEF OsSet, TdSet, Counted, Calling
  <2>4. Runs(x)'
    BY <1>g, <1>1, <1>2, <2>1, <2>2 DEF OsSet, TdSet, Runs
  <2> QED BY <2>3, <2>4
<1>7. DepthOK'
  <2> SUFFICES ASSUME NEW x \in Holders
               PROVE  td'[x].exc_depth = IF \E b \in Actors : Own(b) = x /\ Inside(b) THEN 1 ELSE 0
    BY <1>1 DEF DepthOK, Inside
  <2>1. CASE x = t
    <3>1. t \in Actors /\ Own(t) = t /\ ~Inside(t)
      BY <1>g DEF Actors, Own, Inside
    <3>2. ~\E b \in Actors : Own(b) = x /\ Inside(b)
      BY <2>1, <3>1, OwnIsOne
    <3> QED BY <1>2, <2>1, <3>2 DEF TdSet
  <2>2. CASE x # t
    BY <1>0, <1>2, <2>2 DEF TdSet, DepthOK
  <2> QED BY <2>1, <2>2
<1>8. MutexOK'
  BY <1>0, <1>g, <1>1, <1>3 DEF OsSet, OneStarter, TypedLib, MutexOK, At, Actors
<1> QED BY <1>1, <1>2, <1>3, <1>4, <1>5, <1>6, <1>7, <1>8 DEF ThreadInv, Typed

LEMMA TryKeeps ==
    ASSUME OneStarter, ThreadInv, NEW a \in Actors, TryBody(a)
    PROVE  ThreadInv'
<1>0. TypedLib /\ TypedTd /\ TypedOs /\ KeyOK /\ CallOK /\ RunOK /\ DepthOK /\ MutexOK /\ a \in Actors
  BY DEF ThreadInv, Typed, Actors
<1>g. /\ os[a].pc = "run"
      /\ Current(a) = Own(a)
  BY FindsOwn, <1>0 DEF TryBody, At, Typed
<1>1. TypedOs' /\ OsSet(a, "try", os[a].obj, os[a].read, os[a].got)
  <2>1. TypedOs /\ os' = [os EXCEPT ![a].pc = "try", ![a].tried = TRUE]
    BY <1>0, <1>g DEF TryBody
  <2>2. a \in Actors /\ "try" \in Places
    BY <1>0, <1>g DEF TypedLib, TypedTd, Places, Calling, Actors, Holders
  <2>3. TypedOs'
    BY ONLY <2>1, <2>2 DEF TypedOs
  <2>4. OsSet(a, "try", os[a].obj, os[a].read, os[a].got)
    BY ONLY <2>1, <2>2 DEF TypedOs, OsSet
  <2> QED BY <2>3, <2>4
<1>2. /\ TypedTd'
      /\ TdSet(Own(a), td[Own(a)].args, td[Own(a)].exc_depth + 1, td[Own(a)].caller, td[Own(a)].calls, td[Own(a)].ran)
      /\ td'[Own(a)].thread <=> td[Own(a)].thread
      /\ td'[Own(a)].running <=> td[Own(a)].running
  <2>1. td' = [td EXCEPT ![Own(a)].exc_depth = @ + 1]
    BY <1>g DEF TryBody
  <2>2. TypedTd /\ Own(a) \in Holders /\ td[Own(a)].exc_depth + 1 \in Nat
    BY OwnHolds, <1>0, <1>g DEF TypedTd, TypedOs, Actors, Holders
  <2>3. TypedTd'
    BY ONLY <2>1, <2>2 DEF TypedTd
  <2>4. /\ TdSet(Own(a), td[Own(a)].args, td[Own(a)].exc_depth + 1, td[Own(a)].caller, td[Own(a)].calls, td[Own(a)].ran)
        /\ td'[Own(a)].thread <=> td[Own(a)].thread
        /\ td'[Own(a)].running <=> td[Own(a)].running
    BY ONLY <2>1, <2>2 DEF TypedTd, TdSet
  <2> QED BY <2>3, <2>4
<1>3. TypedLib' /\ UNCHANGED lib
  BY <1>0 DEF TryBody, TypedLib
<1>4. KeyOK'
  BY <1>0, <1>g, <1>1, <1>3 DEF OsSet, OneStarter, KeyOK, NoneMade, NoSlot, At, Actors, Calling
<1>5. CallOK'
  <2> SUFFICES ASSUME NEW b \in Actors PROVE Calls(b)'
    BY DEF CallOK
  <2>1. Calls(b) /\ Calls(a) /\ Threads \subseteq Actors /\ Threads \subseteq Holders /\ NULL \notin Actors
    BY <1>0 DEF CallOK, Actors, Holders, OneStarter
  <2> QED BY <1>g, <1>1, <1>2, <2>1 DEF OsSet, TdSet, Calls, Calling
<1>6. RunOK'
  <2> SUFFICES ASSUME NEW x \in Threads PROVE Counted(x)' /\ Runs(x)'
    BY DEF RunOK
  <2>1. Counted(x) /\ Runs(x) /\ x \in Actors /\ x \in Holders /\ NULL \notin Actors
    BY <1>0 DEF RunOK, Actors, Holders, OneStarter
  <2>2. td[x].caller \in Actors \cup {NULL} /\ td[x].ran \in Nat /\ td[x].calls \in Nat
    BY <1>0, <2>1 DEF TypedTd
  <2>3. Counted(x)'
    BY <1>g, <1>1, <1>2, <2>1, <2>2 DEF OsSet, TdSet, Counted, Calling
  <2>4. Runs(x)'
    BY <1>g, <1>1, <1>2, <2>1, <2>2 DEF OsSet, TdSet, Runs
  <2> QED BY <2>3, <2>4
<1>7. DepthOK'
  BY OwnIsOne, OwnHolds, <1>0, <1>g, <1>1, <1>2 DEF OsSet, TdSet, DepthOK, Inside
<1>8. MutexOK'
  BY <1>0, <1>g, <1>1, <1>3 DEF OsSet, OneStarter, TypedLib, MutexOK, At, Actors
<1> QED BY <1>1, <1>2, <1>3, <1>4, <1>5, <1>6, <1>7, <1>8 DEF ThreadInv, Typed

LEMMA EndTryKeeps ==
    ASSUME OneStarter, ThreadInv, NEW a \in Actors, EndTry(a)
    PROVE  ThreadInv'
<1>0. TypedLib /\ TypedTd /\ TypedOs /\ KeyOK /\ CallOK /\ RunOK /\ DepthOK /\ MutexOK /\ a \in Actors
  BY DEF ThreadInv, Typed, Actors
<1>g. /\ os[a].pc \in {"wrote", "left"}
      /\ Current(a) = Own(a)
      /\ td[Own(a)].exc_depth > 0
  BY FindsOwn, <1>0 DEF EndTry, At, Typed
<1>1. TypedOs' /\ OsSet(a, "run", os[a].obj, os[a].read, os[a].got)
  <2>1. Go(a, "run") /\ "run" \in Places
    BY DEF EndTry, Places, Calling
  <2> QED BY <1>0, <2>1, GoMoves
<1>2. /\ TypedTd'
      /\ TdSet(Own(a), td[Own(a)].args, td[Own(a)].exc_depth - 1, td[Own(a)].caller, td[Own(a)].calls, td[Own(a)].ran)
      /\ td'[Own(a)].thread <=> td[Own(a)].thread
      /\ td'[Own(a)].running <=> td[Own(a)].running
  <2>1. td' = [td EXCEPT ![Own(a)].exc_depth = @ - 1]
    BY <1>g DEF EndTry
  <2>2. TypedTd /\ Own(a) \in Holders /\ td[Own(a)].exc_depth - 1 \in Nat
    BY OwnHolds, <1>0, <1>g DEF TypedTd, TypedOs, Actors, Holders
  <2>3. TypedTd'
    BY ONLY <2>1, <2>2 DEF TypedTd
  <2>4. /\ TdSet(Own(a), td[Own(a)].args, td[Own(a)].exc_depth - 1, td[Own(a)].caller, td[Own(a)].calls, td[Own(a)].ran)
        /\ td'[Own(a)].thread <=> td[Own(a)].thread
        /\ td'[Own(a)].running <=> td[Own(a)].running
    BY ONLY <2>1, <2>2 DEF TypedTd, TdSet
  <2> QED BY <2>3, <2>4
<1>3. TypedLib' /\ UNCHANGED lib
  BY <1>0 DEF EndTry, TypedLib
<1>4. KeyOK'
  BY <1>0, <1>g, <1>1, <1>3 DEF OsSet, OneStarter, KeyOK, NoneMade, NoSlot, At, Actors, Calling
<1>5. CallOK'
  <2> SUFFICES ASSUME NEW b \in Actors PROVE Calls(b)'
    BY DEF CallOK
  <2>1. Calls(b) /\ Calls(a) /\ Threads \subseteq Actors /\ Threads \subseteq Holders /\ NULL \notin Actors
    BY <1>0 DEF CallOK, Actors, Holders, OneStarter
  <2> QED BY <1>g, <1>1, <1>2, <2>1 DEF OsSet, TdSet, Calls, Calling
<1>6. RunOK'
  <2> SUFFICES ASSUME NEW x \in Threads PROVE Counted(x)' /\ Runs(x)'
    BY DEF RunOK
  <2>1. Counted(x) /\ Runs(x) /\ x \in Actors /\ x \in Holders /\ NULL \notin Actors
    BY <1>0 DEF RunOK, Actors, Holders, OneStarter
  <2>2. td[x].caller \in Actors \cup {NULL} /\ td[x].ran \in Nat /\ td[x].calls \in Nat
    BY <1>0, <2>1 DEF TypedTd
  <2>3. Counted(x)'
    BY <1>g, <1>1, <1>2, <2>1, <2>2 DEF OsSet, TdSet, Counted, Calling
  <2>4. Runs(x)'
    BY <1>g, <1>1, <1>2, <2>1, <2>2 DEF OsSet, TdSet, Runs
  <2> QED BY <2>3, <2>4
<1>7. DepthOK'
  BY OwnIsOne, OwnHolds, <1>0, <1>g, <1>1, <1>2 DEF OsSet, TdSet, DepthOK, Inside
<1>8. MutexOK'
  BY <1>0, <1>g, <1>1, <1>3 DEF OsSet, OneStarter, TypedLib, MutexOK, At, Actors
<1> QED BY <1>1, <1>2, <1>3, <1>4, <1>5, <1>6, <1>7, <1>8 DEF ThreadInv, Typed

LEMMA LockKeeps ==
    ASSUME OneStarter, ThreadInv, NEW a \in Actors, Lock(a)
    PROVE  ThreadInv'
<1>0. TypedLib /\ TypedTd /\ TypedOs /\ KeyOK /\ CallOK /\ RunOK /\ DepthOK /\ MutexOK /\ a \in Actors
  BY DEF ThreadInv, Typed, Actors
<1>g. /\ os[a].pc = "try"
      /\ lib.mutex = NULL
  BY <1>0 DEF Lock, At
<1>1. TypedOs' /\ OsSet(a, "locked", os[a].obj, os[a].read, os[a].got)
  <2>1. Go(a, "locked") /\ "locked" \in Places
    BY DEF Lock, Places, Calling
  <2> QED BY <1>0, <2>1, GoMoves
<1>2. TypedTd' /\ UNCHANGED td
  BY <1>0 DEF Lock, TypedTd
<1>3. /\ TypedLib'
      /\ lib'.created = lib.created
      /\ lib'.key = lib.key
      /\ lib'.slots = lib.slots
      /\ lib'.total = lib.total
      /\ lib'.added = lib.added
      /\ lib'.mutex = a
  BY <1>0, <1>g DEF Lock, TypedLib, TypedOs, NoSlot, NoneMade
<1>4. KeyOK'
  BY <1>0, <1>g, <1>1, <1>3 DEF OsSet, OneStarter, KeyOK, NoneMade, NoSlot, At, Actors, Calling
<1>5. CallOK'
  <2> SUFFICES ASSUME NEW b \in Actors PROVE Calls(b)'
    BY DEF CallOK
  <2>1. Calls(b) /\ Calls(a) /\ Threads \subseteq Actors /\ Threads \subseteq Holders /\ NULL \notin Actors
    BY <1>0 DEF CallOK, Actors, Holders, OneStarter
  <2> QED BY <1>g, <1>1, <1>2, <2>1 DEF OsSet, TdSet, Calls, Calling
<1>6. RunOK'
  <2> SUFFICES ASSUME NEW x \in Threads PROVE Counted(x)' /\ Runs(x)'
    BY DEF RunOK
  <2>1. Counted(x) /\ Runs(x) /\ x \in Actors /\ x \in Holders /\ NULL \notin Actors
    BY <1>0 DEF RunOK, Actors, Holders, OneStarter
  <2>2. td[x].caller \in Actors \cup {NULL} /\ td[x].ran \in Nat /\ td[x].calls \in Nat
    BY <1>0, <2>1 DEF TypedTd
  <2>3. Counted(x)'
    BY <1>g, <1>1, <1>2, <2>1, <2>2 DEF OsSet, TdSet, Counted, Calling
  <2>4. Runs(x)'
    BY <1>g, <1>1, <1>2, <2>1, <2>2 DEF OsSet, TdSet, Runs
  <2> QED BY <2>3, <2>4
<1>7. DepthOK'
  <2>1. \A b \in Actors : Inside(b)' <=> Inside(b)
    BY <1>g, <1>1 DEF OsSet, Inside
  <2>2. \A x \in Holders : td'[x].exc_depth = td[x].exc_depth
    BY <1>2 DEF TdSet
  <2> QED BY <1>0, <2>1, <2>2 DEF DepthOK, Own
<1>8. MutexOK'
  BY <1>0, <1>g, <1>1, <1>3 DEF OsSet, OneStarter, TypedLib, MutexOK, At, Actors
<1> QED BY <1>1, <1>2, <1>3, <1>4, <1>5, <1>6, <1>7, <1>8 DEF ThreadInv, Typed

LEMMA PassKeeps ==
    ASSUME OneStarter, ThreadInv, NEW a \in Actors, At(a, "try"), Go(a, "wrote"), UNCHANGED <<lib, td>>
    PROVE  ThreadInv'
<1>0. TypedLib /\ TypedTd /\ TypedOs /\ KeyOK /\ CallOK /\ RunOK /\ DepthOK /\ MutexOK /\ a \in Actors
  BY DEF ThreadInv, Typed, Actors
<1>g. os[a].pc = "try"
  BY <1>0 DEF At
<1>1. TypedOs' /\ OsSet(a, "wrote", os[a].obj, os[a].read, os[a].got)
  <2>1. Go(a, "wrote") /\ "wrote" \in Places
    BY DEF Places, Calling
  <2> QED BY <1>0, <2>1, GoMoves
<1>2. TypedTd' /\ UNCHANGED td
  BY <1>0 DEF TypedTd
<1>3. TypedLib' /\ UNCHANGED lib
  BY <1>0 DEF TypedLib
<1>4. KeyOK'
  BY <1>0, <1>g, <1>1, <1>3 DEF OsSet, OneStarter, KeyOK, NoneMade, NoSlot, At, Actors, Calling
<1>5. CallOK'
  <2> SUFFICES ASSUME NEW b \in Actors PROVE Calls(b)'
    BY DEF CallOK
  <2>1. Calls(b) /\ Calls(a) /\ Threads \subseteq Actors /\ Threads \subseteq Holders /\ NULL \notin Actors
    BY <1>0 DEF CallOK, Actors, Holders, OneStarter
  <2> QED BY <1>g, <1>1, <1>2, <2>1 DEF OsSet, TdSet, Calls, Calling
<1>6. RunOK'
  <2> SUFFICES ASSUME NEW x \in Threads PROVE Counted(x)' /\ Runs(x)'
    BY DEF RunOK
  <2>1. Counted(x) /\ Runs(x) /\ x \in Actors /\ x \in Holders /\ NULL \notin Actors
    BY <1>0 DEF RunOK, Actors, Holders, OneStarter
  <2>2. td[x].caller \in Actors \cup {NULL} /\ td[x].ran \in Nat /\ td[x].calls \in Nat
    BY <1>0, <2>1 DEF TypedTd
  <2>3. Counted(x)'
    BY <1>g, <1>1, <1>2, <2>1, <2>2 DEF OsSet, TdSet, Counted, Calling
  <2>4. Runs(x)'
    BY <1>g, <1>1, <1>2, <2>1, <2>2 DEF OsSet, TdSet, Runs
  <2> QED BY <2>3, <2>4
<1>7. DepthOK'
  <2>1. \A b \in Actors : Inside(b)' <=> Inside(b)
    BY <1>g, <1>1 DEF OsSet, Inside
  <2>2. \A x \in Holders : td'[x].exc_depth = td[x].exc_depth
    BY <1>2 DEF TdSet
  <2> QED BY <1>0, <2>1, <2>2 DEF DepthOK, Own
<1>8. MutexOK'
  BY <1>0, <1>g, <1>1, <1>3 DEF OsSet, OneStarter, TypedLib, MutexOK, At, Actors
<1> QED BY <1>1, <1>2, <1>3, <1>4, <1>5, <1>6, <1>7, <1>8 DEF ThreadInv, Typed

LEMMA ReadTotalKeeps ==
    ASSUME OneStarter, ThreadInv, NEW a \in Actors, ReadTotal(a)
    PROVE  ThreadInv'
<1>0. TypedLib /\ TypedTd /\ TypedOs /\ KeyOK /\ CallOK /\ RunOK /\ DepthOK /\ MutexOK /\ a \in Actors
  BY DEF ThreadInv, Typed, Actors
<1>g. os[a].pc = "locked"
  BY <1>0 DEF ReadTotal, At
<1>1. TypedOs' /\ OsSet(a, "read", os[a].obj, lib.total, os[a].got)
  <2>1. TypedOs /\ os' = [os EXCEPT ![a].pc = "read", ![a].read = lib.total]
    BY <1>0, <1>g DEF ReadTotal
  <2>2. a \in Actors /\ "read" \in Places /\ lib.total \in Nat
    BY <1>0, <1>g DEF TypedLib, TypedTd, Places, Calling, Actors, Holders
  <2>3. TypedOs'
    BY ONLY <2>1, <2>2 DEF TypedOs
  <2>4. OsSet(a, "read", os[a].obj, lib.total, os[a].got)
    BY ONLY <2>1, <2>2 DEF TypedOs, OsSet
  <2> QED BY <2>3, <2>4
<1>2. TypedTd' /\ UNCHANGED td
  BY <1>0 DEF ReadTotal, TypedTd
<1>3. TypedLib' /\ UNCHANGED lib
  BY <1>0 DEF ReadTotal, TypedLib
<1>4. KeyOK'
  BY <1>0, <1>g, <1>1, <1>3 DEF OsSet, OneStarter, KeyOK, NoneMade, NoSlot, At, Actors, Calling
<1>5. CallOK'
  <2> SUFFICES ASSUME NEW b \in Actors PROVE Calls(b)'
    BY DEF CallOK
  <2>1. Calls(b) /\ Calls(a) /\ Threads \subseteq Actors /\ Threads \subseteq Holders /\ NULL \notin Actors
    BY <1>0 DEF CallOK, Actors, Holders, OneStarter
  <2> QED BY <1>g, <1>1, <1>2, <2>1 DEF OsSet, TdSet, Calls, Calling
<1>6. RunOK'
  <2> SUFFICES ASSUME NEW x \in Threads PROVE Counted(x)' /\ Runs(x)'
    BY DEF RunOK
  <2>1. Counted(x) /\ Runs(x) /\ x \in Actors /\ x \in Holders /\ NULL \notin Actors
    BY <1>0 DEF RunOK, Actors, Holders, OneStarter
  <2>2. td[x].caller \in Actors \cup {NULL} /\ td[x].ran \in Nat /\ td[x].calls \in Nat
    BY <1>0, <2>1 DEF TypedTd
  <2>3. Counted(x)'
    BY <1>g, <1>1, <1>2, <2>1, <2>2 DEF OsSet, TdSet, Counted, Calling
  <2>4. Runs(x)'
    BY <1>g, <1>1, <1>2, <2>1, <2>2 DEF OsSet, TdSet, Runs
  <2> QED BY <2>3, <2>4
<1>7. DepthOK'
  <2>1. \A b \in Actors : Inside(b)' <=> Inside(b)
    BY <1>g, <1>1 DEF OsSet, Inside
  <2>2. \A x \in Holders : td'[x].exc_depth = td[x].exc_depth
    BY <1>2 DEF TdSet
  <2> QED BY <1>0, <2>1, <2>2 DEF DepthOK, Own
<1>8. MutexOK'
  BY <1>0, <1>g, <1>1, <1>3 DEF OsSet, OneStarter, TypedLib, MutexOK, At, Actors
<1> QED BY <1>1, <1>2, <1>3, <1>4, <1>5, <1>6, <1>7, <1>8 DEF ThreadInv, Typed

LEMMA WriteTotalKeeps ==
    ASSUME OneStarter, ThreadInv, NEW a \in Actors, WriteTotal(a)
    PROVE  ThreadInv'
<1>0. TypedLib /\ TypedTd /\ TypedOs /\ KeyOK /\ CallOK /\ RunOK /\ DepthOK /\ MutexOK /\ a \in Actors
  BY DEF ThreadInv, Typed, Actors
<1>g. os[a].pc = "read"
  BY <1>0 DEF WriteTotal, At
<1>1. TypedOs' /\ OsSet(a, "written", os[a].obj, os[a].read, os[a].got)
  <2>1. Go(a, "written") /\ "written" \in Places
    BY DEF WriteTotal, Places, Calling
  <2> QED BY <1>0, <2>1, GoMoves
<1>2. TypedTd' /\ UNCHANGED td
  BY <1>0 DEF WriteTotal, TypedTd
<1>3. /\ TypedLib'
      /\ lib'.created = lib.created
      /\ lib'.key = lib.key
      /\ lib'.slots = lib.slots
      /\ lib'.mutex = lib.mutex
      /\ lib'.total = os[a].read + 1
      /\ lib'.added = lib.added + 1
  <2>1. TypedLib /\ lib' = [lib EXCEPT !.total = os[a].read + 1, !.added = @ + 1]
    BY <1>0 DEF WriteTotal
  <2>2. os[a].read + 1 \in Nat /\ lib.added + 1 \in Nat
    BY <1>0 DEF TypedOs, TypedLib
  <2> QED BY ONLY <2>1, <2>2 DEF TypedLib
<1>4. KeyOK'
  BY <1>0, <1>g, <1>1, <1>3 DEF OsSet, OneStarter, KeyOK, NoneMade, NoSlot, At, Actors, Calling
<1>5. CallOK'
  <2> SUFFICES ASSUME NEW b \in Actors PROVE Calls(b)'
    BY DEF CallOK
  <2>1. Calls(b) /\ Calls(a) /\ Threads \subseteq Actors /\ Threads \subseteq Holders /\ NULL \notin Actors
    BY <1>0 DEF CallOK, Actors, Holders, OneStarter
  <2> QED BY <1>g, <1>1, <1>2, <2>1 DEF OsSet, TdSet, Calls, Calling
<1>6. RunOK'
  <2> SUFFICES ASSUME NEW x \in Threads PROVE Counted(x)' /\ Runs(x)'
    BY DEF RunOK
  <2>1. Counted(x) /\ Runs(x) /\ x \in Actors /\ x \in Holders /\ NULL \notin Actors
    BY <1>0 DEF RunOK, Actors, Holders, OneStarter
  <2>2. td[x].caller \in Actors \cup {NULL} /\ td[x].ran \in Nat /\ td[x].calls \in Nat
    BY <1>0, <2>1 DEF TypedTd
  <2>3. Counted(x)'
    BY <1>g, <1>1, <1>2, <2>1, <2>2 DEF OsSet, TdSet, Counted, Calling
  <2>4. Runs(x)'
    BY <1>g, <1>1, <1>2, <2>1, <2>2 DEF OsSet, TdSet, Runs
  <2> QED BY <2>3, <2>4
<1>7. DepthOK'
  <2>1. \A b \in Actors : Inside(b)' <=> Inside(b)
    BY <1>g, <1>1 DEF OsSet, Inside
  <2>2. \A x \in Holders : td'[x].exc_depth = td[x].exc_depth
    BY <1>2 DEF TdSet
  <2> QED BY <1>0, <2>1, <2>2 DEF DepthOK, Own
<1>8. MutexOK'
  BY <1>0, <1>g, <1>1, <1>3 DEF OsSet, OneStarter, TypedLib, MutexOK, At, Actors
<1> QED BY <1>1, <1>2, <1>3, <1>4, <1>5, <1>6, <1>7, <1>8 DEF ThreadInv, Typed

LEMMA UnlockKeeps ==
    ASSUME OneStarter, ThreadInv, NEW a \in Actors, Unlock(a)
    PROVE  ThreadInv'
<1>0. TypedLib /\ TypedTd /\ TypedOs /\ KeyOK /\ CallOK /\ RunOK /\ DepthOK /\ MutexOK /\ a \in Actors
  BY DEF ThreadInv, Typed, Actors
<1>g. os[a].pc = "written"
  BY <1>0 DEF Unlock, At
<1>1. TypedOs' /\ OsSet(a, "wrote", os[a].obj, os[a].read, os[a].got)
  <2>1. Go(a, "wrote") /\ "wrote" \in Places
    BY DEF Unlock, Places, Calling
  <2> QED BY <1>0, <2>1, GoMoves
<1>2. TypedTd' /\ UNCHANGED td
  BY <1>0 DEF Unlock, TypedTd
<1>3. /\ TypedLib'
      /\ lib'.created = lib.created
      /\ lib'.key = lib.key
      /\ lib'.slots = lib.slots
      /\ lib'.total = lib.total
      /\ lib'.added = lib.added
      /\ lib'.mutex = NULL
  BY <1>0, <1>g DEF Unlock, TypedLib, TypedOs, NoSlot, NoneMade
<1>4. KeyOK'
  BY <1>0, <1>g, <1>1, <1>3 DEF OsSet, OneStarter, KeyOK, NoneMade, NoSlot, At, Actors, Calling
<1>5. CallOK'
  <2> SUFFICES ASSUME NEW b \in Actors PROVE Calls(b)'
    BY DEF CallOK
  <2>1. Calls(b) /\ Calls(a) /\ Threads \subseteq Actors /\ Threads \subseteq Holders /\ NULL \notin Actors
    BY <1>0 DEF CallOK, Actors, Holders, OneStarter
  <2> QED BY <1>g, <1>1, <1>2, <2>1 DEF OsSet, TdSet, Calls, Calling
<1>6. RunOK'
  <2> SUFFICES ASSUME NEW x \in Threads PROVE Counted(x)' /\ Runs(x)'
    BY DEF RunOK
  <2>1. Counted(x) /\ Runs(x) /\ x \in Actors /\ x \in Holders /\ NULL \notin Actors
    BY <1>0 DEF RunOK, Actors, Holders, OneStarter
  <2>2. td[x].caller \in Actors \cup {NULL} /\ td[x].ran \in Nat /\ td[x].calls \in Nat
    BY <1>0, <2>1 DEF TypedTd
  <2>3. Counted(x)'
    BY <1>g, <1>1, <1>2, <2>1, <2>2 DEF OsSet, TdSet, Counted, Calling
  <2>4. Runs(x)'
    BY <1>g, <1>1, <1>2, <2>1, <2>2 DEF OsSet, TdSet, Runs
  <2> QED BY <2>3, <2>4
<1>7. DepthOK'
  <2>1. \A b \in Actors : Inside(b)' <=> Inside(b)
    BY <1>g, <1>1 DEF OsSet, Inside
  <2>2. \A x \in Holders : td'[x].exc_depth = td[x].exc_depth
    BY <1>2 DEF TdSet
  <2> QED BY <1>0, <2>1, <2>2 DEF DepthOK, Own
<1>8. MutexOK'
  BY <1>0, <1>g, <1>1, <1>3 DEF OsSet, OneStarter, TypedLib, MutexOK, At, Actors
<1> QED BY <1>1, <1>2, <1>3, <1>4, <1>5, <1>6, <1>7, <1>8 DEF ThreadInv, Typed

LEMMA LeaveKeeps ==
    ASSUME OneStarter, ThreadInv, NEW a \in Actors, os[a].pc \in {"try", "locked", "read", "written", "wrote"}, Leave(a)
    PROVE  ThreadInv'
<1>0. TypedLib /\ TypedTd /\ TypedOs /\ KeyOK /\ CallOK /\ RunOK /\ DepthOK /\ MutexOK /\ a \in Actors
  BY DEF ThreadInv, Typed, Actors
<1>g. os[a].pc \in {"try", "locked", "read", "written", "wrote"}
  BY <1>0 DEF Leave, At
<1>1. TypedOs' /\ OsSet(a, "left", os[a].obj, os[a].read, os[a].got)
  <2>1. Go(a, "left") /\ "left" \in Places
    BY DEF Leave, Places, Calling
  <2> QED BY <1>0, <2>1, GoMoves
<1>2. TypedTd' /\ UNCHANGED td
  BY <1>0 DEF Leave, TypedTd
<1>3. /\ TypedLib'
      /\ lib'.created = lib.created
      /\ lib'.key = lib.key
      /\ lib'.slots = lib.slots
      /\ lib'.total = lib.total
      /\ lib'.added = lib.added
      /\ lib'.mutex = lib.mutex
  BY <1>0, <1>g DEF Leave, TypedLib, TypedOs, NoSlot, NoneMade
<1>4. KeyOK'
  BY <1>0, <1>g, <1>1, <1>3 DEF OsSet, OneStarter, KeyOK, NoneMade, NoSlot, At, Actors, Calling
<1>5. CallOK'
  <2> SUFFICES ASSUME NEW b \in Actors PROVE Calls(b)'
    BY DEF CallOK
  <2>1. Calls(b) /\ Calls(a) /\ Threads \subseteq Actors /\ Threads \subseteq Holders /\ NULL \notin Actors
    BY <1>0 DEF CallOK, Actors, Holders, OneStarter
  <2> QED BY <1>g, <1>1, <1>2, <2>1 DEF OsSet, TdSet, Calls, Calling
<1>6. RunOK'
  <2> SUFFICES ASSUME NEW x \in Threads PROVE Counted(x)' /\ Runs(x)'
    BY DEF RunOK
  <2>1. Counted(x) /\ Runs(x) /\ x \in Actors /\ x \in Holders /\ NULL \notin Actors
    BY <1>0 DEF RunOK, Actors, Holders, OneStarter
  <2>2. td[x].caller \in Actors \cup {NULL} /\ td[x].ran \in Nat /\ td[x].calls \in Nat
    BY <1>0, <2>1 DEF TypedTd
  <2>3. Counted(x)'
    BY <1>g, <1>1, <1>2, <2>1, <2>2 DEF OsSet, TdSet, Counted, Calling
  <2>4. Runs(x)'
    BY <1>g, <1>1, <1>2, <2>1, <2>2 DEF OsSet, TdSet, Runs
  <2> QED BY <2>3, <2>4
<1>7. DepthOK'
  <2>1. \A b \in Actors : Inside(b)' <=> Inside(b)
    BY <1>g, <1>1 DEF OsSet, Inside
  <2>2. \A x \in Holders : td'[x].exc_depth = td[x].exc_depth
    BY <1>2 DEF TdSet
  <2> QED BY <1>0, <2>1, <2>2 DEF DepthOK, Own
<1>8. MutexOK'
  BY <1>0, <1>g, <1>1, <1>3 DEF OsSet, OneStarter, TypedLib, MutexOK, At, Actors
<1> QED BY <1>1, <1>2, <1>3, <1>4, <1>5, <1>6, <1>7, <1>8 DEF ThreadInv, Typed

LEMMA StutterKeeps == ASSUME ThreadInv, UNCHANGED tvars PROVE ThreadInv'
<1>1. lib' = lib /\ td' = td /\ os' = os
  BY DEF tvars
<1>2. Typed' /\ KeyOK'
  BY <1>1 DEF ThreadInv, Typed, TypedLib, TypedTd, TypedOs, KeyOK, NoneMade, At
<1>3. CallOK' /\ RunOK'
  BY <1>1 DEF ThreadInv, CallOK, Calls, RunOK, Counted, Runs
<1>4. DepthOK' /\ MutexOK'
  BY <1>1 DEF ThreadInv, DepthOK, Inside, MutexOK, At
<1> QED BY <1>2, <1>3, <1>4 DEF ThreadInv

LEMMA InCallKeeps ==
    ASSUME OneStarter, ThreadInv, NEW a \in Actors, InCall(a)
    PROVE  ThreadInv'
<1>1. CASE CreateKey(a) BY <1>1, CreateKeyKeeps
<1>2. CASE SetCreated(a) BY <1>2, SetCreatedKeeps
<1>3. CASE SetArgs(a) BY <1>3, SetArgsKeeps
<1>4. CASE CreateThread(a) BY <1>4, CreateThreadKeeps
<1>5. CASE CreateFails(a) BY <1>5, CreateFailsKeeps
<1>6. CASE Joined(a) BY <1>6, JoinedKeeps
<1>7. CASE EndTry(a) BY <1>7, EndTryKeeps
<1>8. CASE Lock(a) BY <1>8, LockKeeps
<1>9. CASE ReadTotal(a) BY <1>9, ReadTotalKeeps
<1>10. CASE WriteTotal(a) BY <1>10, WriteTotalKeeps
<1>11. CASE Unlock(a) BY <1>11, UnlockKeeps
<1>12. CASE ThrowInside(a)
  BY <1>12, LeaveKeeps DEF ThrowInside, At
<1> QED BY <1>1, <1>2, <1>3, <1>4, <1>5, <1>6, <1>7, <1>8, <1>9, <1>10, <1>11, <1>12 DEF InCall

LEMMA NextKeeps == ASSUME OneStarter, ThreadInv, [ThreadNext]_tvars PROVE ThreadInv'
<1>1. CASE UNCHANGED tvars BY <1>1, StutterKeeps
<1>2. ASSUME NEW a \in Actors, InCall(a) \/ LockTry(a) \/ TryBody(a) PROVE ThreadInv'
  <2>1. CASE LockTry(a)
    BY <2>1, LockKeeps, PassKeeps DEF LockTry
  <2> QED BY <1>2, <2>1, InCallKeeps, TryKeeps
<1>3. ASSUME NEW a \in Actors, NEW t \in Threads,
             Call(a, t) \/ Join(a, t) \/ Delete(a, t) \/ Terminate(a, t)
      PROVE  ThreadInv'
  <2>1. CASE Terminate(a, t)
    BY <2>1, LeaveKeeps DEF Terminate, Signal, Actors
  <2> QED BY <1>3, <2>1, CallKeeps, JoinKeeps, DeleteKeeps
<1>4. ASSUME NEW t \in Threads, InitRun(t) \/ SetRunning(t) \/ EndRun(t) PROVE ThreadInv'
  BY <1>4, InitRunKeeps, SetRunningKeeps, EndKeeps
<1> QED BY <1>1, <1>2, <1>3, <1>4 DEF ThreadNext

-----------------------------------------------------------------------------
\* What the invariant says of the properties.
LEMMA OwnsData == ASSUME OneStarter, ThreadInv PROVE OwnData
<1>0. Typed /\ KeyOK /\ RunOK /\ DepthOK
  BY DEF ThreadInv
<1>1. ASSUME NEW a \in Actors, os[a].pc \notin {"none", "init", "done"}
      PROVE  Current(a) = Own(a)
  BY <1>0, <1>1, FindsOwn
<1>2. ASSUME NEW x \in Holders
      PROVE  td[x].exc_depth = Cardinality({a \in Actors : Own(a) = x /\ Inside(a)})
  <2> DEFINE S == {a \in Actors : Own(a) = x /\ Inside(a)}
  <2>1. CASE S = {}
    BY <1>0, <2>1, FS_EmptySet DEF DepthOK
  <2>2. CASE S # {}
    <3>1. PICK a \in S : TRUE
      BY <2>2
    <3>2. S = {a}
      BY <3>1, OwnIsOne
    <3>3. td[x].exc_depth = 1
      BY <1>0, <3>1 DEF DepthOK
    <3> QED BY <3>2, <3>3, FS_Singleton
  <2> QED BY <2>1, <2>2
<1>3. ASSUME NEW t \in Threads, Inside(t) PROVE AsLong(t) = t
  BY <1>0, <1>3 DEF RunOK, Runs, Inside, AsLong
<1> QED BY <1>1, <1>2, <1>3 DEF OwnData

LEMMA LosesNone == ASSUME ThreadInv PROVE NoneLost
BY DEF ThreadInv, MutexOK, NoneLost

LEMMA RunsCalls == ASSUME OneStarter, ThreadInv PROVE CallsRun
<1> SUFFICES ASSUME NEW t \in Threads
             PROVE  /\ Inside(t) => os[t].got = td[t].calls
                    /\ td[t].caller = NULL => td[t].ran = td[t].calls
  BY DEF CallsRun
<1> QED BY DEF ThreadInv, RunOK, Counted, Runs, Inside

\* However many Thread objects there are, and however often the one thread
\* that libCello did not make, and they, call, join and delete them, end them
\* or throw out of a with: every thread finds its own data, no addition made
\* under the mutex is lost, and a call whose join returned has run to its end
\* with its own arguments.
THEOREM ThreadsAreSafe ==
    ASSUME OneStarter
    PROVE  ThreadSpec => []ThreadsApart
<1>1. ThreadInit => ThreadInv
  BY Begins
<1>2. ThreadInv /\ [ThreadNext]_tvars => ThreadInv'
  BY NextKeeps
<1>3. ThreadInv => ThreadsApart
  BY OwnsData, LosesNone, RunsCalls DEF ThreadsApart
<1> QED BY <1>1, <1>2, <1>3, PTL DEF ThreadSpec
=============================================================================

------------------------- MODULE CelloResourceProofs -------------------------
(***************************************************************************)
(* Any numbers of Files, streams, Modules, libraries, objects in a Pool    *)
(* and owners: what is open is held, and the count of an object in a       *)
(* Pool is that of its owners' retains.                                    *)
(***************************************************************************)
EXTENDS CelloResource, FiniteSetTheorems, SequenceTheorems, TLAPS

CONSTANTS Objects, Owners, MaxCount
VARIABLES tab, deleted, held, touched
Pool == INSTANCE CelloPool

-----------------------------------------------------------------------------
\* fopen and dlopen give addresses, and a Module has a name.
SystemServes ==
    /\ NULL \notin Streams \cup Names /\ Names # {}
    /\ IsFiniteSet(Modules)

Stream == [of : Files, pos : Nat, eof : BOOLEAN]

\* What HeldOnce says of any Files ff, open streams st, contents cs and failures
\* lost: a call of File_Open is a close and an open, and between them no state
\* is reached.
Placed(r, cs)  == r.pos <= Len(cs[r.of]) /\ (r.eof => r.pos = Len(cs[r.of]))
Mine(ff, st, x) == ff[x] \in DOMAIN st /\ st[ff[x]].of = x
FilesOK(ff, st, cs, lost) ==
    /\ ff \in [Files -> Streams \cup {NULL}]
    /\ st \in [DOMAIN st -> Stream]
    /\ cs \in [Files -> Seq(Items)]
    /\ \A s \in DOMAIN st : s # NULL /\ ff[st[s].of] = s /\ Placed(st[s], cs)
    /\ \A x \in Files : ff[x] = NULL \/ ff[x] \in lost \/ Mine(ff, st, x)

\* The Modules that hold a library.
Holding(mods, n) == {x \in Modules : mods[x].lib = n}
LibsOK(mods, loaded) ==
    /\ mods \in [Modules -> [name : Names, lib : Names \cup {NULL}]]
    /\ loaded \in [Names -> Nat]
    /\ \A n \in Names : loaded[n] = Cardinality(Holding(mods, n))
    /\ \A x \in Modules : mods[x].lib \in {NULL, mods[x].name}

IInv ==
    /\ FilesOK(f, streams, data, failed)
    /\ dl = [mods |-> dl.mods, loaded |-> dl.loaded]
    /\ LibsOK(dl.mods, dl.loaded)

-----------------------------------------------------------------------------
\* Files.  A stream that is closed was that of x, or x had the address of a
\* stream that fclose had failed to close.
LEMMA LeftStreams ==
    ASSUME NEW ff, NEW st, NEW cs, NEW lost, FilesOK(ff, st, cs, lost), NEW h
    PROVE  /\ DOMAIN Fclose(st, h) = DOMAIN st \ {h}
           /\ \A s \in DOMAIN Fclose(st, h) : Fclose(st, h)[s] = st[s]
           /\ Fclose(st, h) \in [DOMAIN Fclose(st, h) -> Stream]
  <1>1. st \in [DOMAIN st -> Stream]
    BY DEF FilesOK
  <1> QED
    BY <1>1 DEF Fclose

LEMMA ClosedOK ==
    ASSUME NEW ff, NEW st, NEW cs, NEW lost, FilesOK(ff, st, cs, lost),
           NEW x \in Files, ff[x] # NULL
    PROVE  FilesOK([ff EXCEPT ![x] = NULL], Fclose(st, ff[x]), cs, lost)
  <1> DEFINE h == ff[x]
             g == [ff EXCEPT ![x] = NULL]
             u == Fclose(st, h)
  <1>1. /\ ff \in [Files -> Streams \cup {NULL}]
        /\ cs \in [Files -> Seq(Items)]
    BY DEF FilesOK
  <1>2. /\ g \in [Files -> Streams \cup {NULL}]
        /\ g[x] = NULL
        /\ \A y \in Files \ {x} : g[y] = ff[y]
    BY <1>1
  <1> HIDE DEF g, h
  <1>3. /\ DOMAIN u = DOMAIN st \ {h}
        /\ \A s \in DOMAIN u : u[s] = st[s]
        /\ u \in [DOMAIN u -> Stream]
    BY LeftStreams
  <1> HIDE DEF u
  <1>4. \A s \in DOMAIN u : s # NULL /\ g[u[s].of] = s /\ Placed(u[s], cs)
    <2> TAKE s \in DOMAIN u
    <2>1. s # h /\ s # NULL /\ u[s] = st[s] /\ ff[st[s].of] = s /\ Placed(st[s], cs)
      BY <1>3 DEF FilesOK
    <2>2. u[s] \in Stream
      BY <1>3
    <2>3. u[s].of \in Files
      BY <2>2 DEF Stream
    <2>4. u[s].of # x
      BY <2>1 DEF h
    <2> QED
      BY <2>1, <2>3, <2>4, <1>2
  <1>5. \A y \in Files : g[y] = NULL \/ g[y] \in lost \/ Mine(g, u, y)
    <2> TAKE y \in Files
    <2> SUFFICES ASSUME y # x, ff[y] # NULL, ff[y] \notin lost PROVE Mine(g, u, y)
      BY <1>2
    <2>1. Mine(ff, st, y)
      BY DEF FilesOK
    <2>2. ff[y] # h
      <3>1. CASE h \in lost
        BY <3>1
      <3>2. CASE Mine(ff, st, x)
        BY <3>2, <2>1 DEF Mine, h
      <3> QED
        BY <3>1, <3>2 DEF FilesOK, h
    <2>3. g[y] = ff[y] /\ ff[y] \in DOMAIN u /\ u[ff[y]] = st[ff[y]]
      BY <2>1, <2>2, <1>2, <1>3 DEF Mine
    <2> QED
      BY <2>1, <2>3 DEF Mine
  <1>6. FilesOK(g, u, cs, lost)
    BY <1>1, <1>2, <1>3, <1>4, <1>5 DEF FilesOK
  <1> QED
    BY <1>6 DEF g, u, h

\* A close that throws leaves the address with x, and with whoever had it.
LEMMA ThrownOK ==
    ASSUME NEW ff, NEW st, NEW cs, NEW lost, FilesOK(ff, st, cs, lost), NEW h
    PROVE  FilesOK(ff, Fclose(st, h), cs, lost \cup {h})
  <1> DEFINE u == Fclose(st, h)
  <1>1. /\ DOMAIN u = DOMAIN st \ {h}
        /\ \A s \in DOMAIN u : u[s] = st[s]
        /\ u \in [DOMAIN u -> Stream]
    BY LeftStreams
  <1> HIDE DEF u
  <1>2. \A s \in DOMAIN u : s # NULL /\ ff[u[s].of] = s /\ Placed(u[s], cs)
    BY <1>1 DEF FilesOK
  <1>3. \A y \in Files : ff[y] = NULL \/ ff[y] \in lost \cup {h} \/ Mine(ff, u, y)
    <2> TAKE y \in Files
    <2> SUFFICES ASSUME ff[y] # NULL, ff[y] \notin lost, ff[y] # h PROVE Mine(ff, u, y)
      OBVIOUS
    <2>1. Mine(ff, st, y)
      BY DEF FilesOK
    <2>2. ff[y] \in DOMAIN u /\ u[ff[y]] = st[ff[y]]
      BY <2>1, <1>1 DEF Mine
    <2> QED
      BY <2>1, <2>2 DEF Mine
  <1>4. FilesOK(ff, u, cs, lost \cup {h})
    BY <1>1, <1>2, <1>3 DEF FilesOK
  <1> QED
    BY <1>4 DEF u

LEMMA OpenedOK ==
    ASSUME NEW ff, NEW st, NEW cs, NEW lost, FilesOK(ff, st, cs, lost),
           NEW x \in Files, ff[x] = NULL,
           NULL \notin Streams, NEW s \in Streams \ DOMAIN st,
           NEW ds \in [Files -> Seq(Items)], \A y \in Files \ {x} : ds[y] = cs[y]
    PROVE  FilesOK([ff EXCEPT ![x] = s], Fopen(st, s, x), ds, lost)
  <1> DEFINE g == [ff EXCEPT ![x] = s]
             u == Fopen(st, s, x)
  <1>1. /\ ff \in [Files -> Streams \cup {NULL}]
        /\ st \in [DOMAIN st -> Stream]
        /\ ds[x] \in Seq(Items)
    BY DEF FilesOK
  <1>2. /\ DOMAIN u = DOMAIN st \cup {s}
        /\ u[s] = [of |-> x, pos |-> 0, eof |-> FALSE]
        /\ \A t \in DOMAIN st : u[t] = st[t]
    BY DEF Fopen
  <1>3. u \in [DOMAIN u -> Stream]
    <2>1. [of |-> x, pos |-> 0, eof |-> FALSE] \in Stream
      BY DEF Stream
    <2> QED
      BY <2>1, <1>1, <1>2 DEF Fopen
  <1>4. /\ g \in [Files -> Streams \cup {NULL}]
        /\ g[x] = s
        /\ \A y \in Files \ {x} : g[y] = ff[y]
    BY <1>1
  <1> HIDE DEF g, u
  <1>5. \A t \in DOMAIN u : t # NULL /\ g[u[t].of] = t /\ Placed(u[t], ds)
    <2> TAKE t \in DOMAIN u
    <2>1. CASE t = s
      <3>1. Len(ds[x]) \in Nat
        BY <1>1
      <3> QED
        BY <2>1, <3>1, <1>2, <1>4 DEF Placed
    <2>2. CASE t \in DOMAIN st
      <3>1. t # NULL /\ u[t] = st[t] /\ ff[st[t].of] = t /\ Placed(st[t], cs)
        BY <2>2, <1>2 DEF FilesOK
      <3>2. st[t].of \in Files
        BY <2>2, <1>1 DEF Stream
      <3>3. st[t].of # x
        BY <3>1
      <3>4. ds[st[t].of] = cs[st[t].of]
        BY <3>2, <3>3
      <3> QED
        BY <3>1, <3>2, <3>3, <3>4, <1>4 DEF Placed
    <2> QED
      BY <2>1, <2>2, <1>2
  <1>6. \A y \in Files : g[y] = NULL \/ g[y] \in lost \/ Mine(g, u, y)
    <2> TAKE y \in Files
    <2>1. CASE y = x
      BY <2>1, <1>2, <1>4 DEF Mine
    <2>2. CASE y # x /\ Mine(ff, st, y)
      BY <2>2, <1>2, <1>4 DEF Mine
    <2>3. CASE y # x /\ ff[y] \in lost \cup {NULL}
      BY <2>3, <1>4
    <2> QED
      BY <2>1, <2>2, <2>3 DEF FilesOK
  <1>7. FilesOK(g, u, ds, lost)
    BY <1>3, <1>4, <1>5, <1>6 DEF FilesOK
  <1> QED
    BY <1>7 DEF g, u

Moved(st, s, pos, eof) == [st EXCEPT ![s] = [of |-> @.of, pos |-> pos, eof |-> eof]]
LEMMA MovedOK ==
    ASSUME NEW ff, NEW st, NEW cs, NEW lost, FilesOK(ff, st, cs, lost),
           NEW s \in DOMAIN st, NEW w \in Files, w = st[s].of,
           NEW ds \in [Files -> Seq(Items)], \A y \in Files \ {w} : ds[y] = cs[y],
           NEW pos \in Nat, NEW eof \in BOOLEAN,
           pos <= Len(ds[w]), eof => pos = Len(ds[w])
    PROVE  FilesOK(ff, Moved(st, s, pos, eof), ds, lost)
  <1> DEFINE u == Moved(st, s, pos, eof)
  <1>1. /\ ff \in [Files -> Streams \cup {NULL}]
        /\ st \in [DOMAIN st -> Stream]
    BY DEF FilesOK
  <1>2. /\ DOMAIN u = DOMAIN st
        /\ u[s] = [of |-> w, pos |-> pos, eof |-> eof]
        /\ \A t \in DOMAIN st \ {s} : u[t] = st[t]
    BY <1>1 DEF Moved
  <1>3. u \in [DOMAIN u -> Stream]
    BY <1>1 DEF Stream, Moved
  <1> HIDE DEF u
  <1>4. \A t \in DOMAIN u : t # NULL /\ ff[u[t].of] = t /\ Placed(u[t], ds)
    <2> TAKE t \in DOMAIN u
    <2>1. t # NULL /\ ff[st[t].of] = t /\ Placed(st[t], cs)
      BY <1>2 DEF FilesOK
    <2>2. CASE t = s
      BY <2>1, <2>2, <1>2 DEF Placed
    <2>3. CASE t # s
      <3>1. u[t] = st[t]
        BY <2>3, <1>2
      <3>2. st[t].of \in Files
        BY <1>1, <1>2 DEF Stream
      <3>3. st[t].of # w
        BY <2>1, <2>3 DEF FilesOK
      <3>4. ds[st[t].of] = cs[st[t].of]
        BY <3>2, <3>3
      <3> QED
        BY <2>1, <3>1, <3>4 DEF Placed
    <2> QED
      BY <2>2, <2>3
  <1>5. \A t \in DOMAIN st : u[t].of = st[t].of
    BY <1>2
  <1>6. \A y \in Files : ff[y] = NULL \/ ff[y] \in lost \/ Mine(ff, u, y)
    BY <1>2, <1>5 DEF FilesOK, Mine
  <1>7. FilesOK(ff, u, ds, lost)
    BY <1>1, <1>3, <1>4, <1>6 DEF FilesOK
  <1> QED
    BY <1>7 DEF u

FilesKept == FilesOK(f', streams', data', failed')

LEMMA ThrowsKeeps ==
    ASSUME FilesOK(f, streams, data, failed), NEW x \in Files, CloseThrows(x)
    PROVE  FilesKept
  <1>1. /\ streams' = Fclose(streams, f[x]) /\ failed' = failed \cup {f[x]}
        /\ f' = f /\ data' = data
    BY DEF CloseThrows
  <1>2. FilesOK(f, Fclose(streams, f[x]), data, failed \cup {f[x]})
    BY ThrownOK
  <1> QED
    BY <1>1, <1>2 DEF FilesKept

LEMMA CloseKeeps ==
    ASSUME FilesOK(f, streams, data, failed), NEW x \in Files, Close(x)
    PROVE  FilesKept
  <1>1. CASE CloseThrows(x)
    BY <1>1, ThrowsKeeps
  <1>2. CASE CloseClears(x)
    <2>1. /\ f[x] # NULL /\ streams' = Fclose(streams, f[x])
          /\ f' = [f EXCEPT ![x] = NULL] /\ data' = data /\ failed' = failed
      BY <1>2 DEF CloseClears
    <2>2. FilesOK([f EXCEPT ![x] = NULL], Fclose(streams, f[x]), data, failed)
      BY <2>1, ClosedOK
    <2> QED
      BY <2>1, <2>2 DEF FilesKept
  <1> QED
    BY <1>1, <1>2 DEF Close

LEMMA OpenKeeps ==
    ASSUME SystemServes, FilesOK(f, streams, data, failed), NEW x \in Files, NEW access,
           Open(x, access)
    PROVE  FilesKept
  <1> DEFINE g == [f EXCEPT ![x] = NULL]
  <1>1. f \in [Files -> Streams \cup {NULL}] /\ data \in [Files -> Seq(Items)]
    BY DEF FilesOK
  <1>2. FilesOK(g, Left(x), data, failed)
    <2>1. CASE f[x] = NULL
      <3>1. g = f
        BY <2>1, <1>1
      <3> QED
        BY <3>1, <2>1 DEF Left
    <2>2. CASE f[x] # NULL
      BY <2>2, ClosedOK DEF Left
    <2> QED
      BY <2>1, <2>2
  <1>3. CASE f' = g /\ streams' = Left(x) /\ UNCHANGED <<data, failed>>
    BY <1>3, <1>2 DEF FilesKept
  <1>4. CASE /\ \E s \in Streams \ DOMAIN Left(x) :
                /\ f' = [f EXCEPT ![x] = s]
                /\ streams' = Fopen(Left(x), s, x)
                /\ data' = IF access = "w" THEN [data EXCEPT ![x] = <<>>] ELSE data
             /\ UNCHANGED failed
    <2>1. PICK s \in Streams \ DOMAIN Left(x) :
                /\ f' = [f EXCEPT ![x] = s]
                /\ streams' = Fopen(Left(x), s, x)
                /\ data' = IF access = "w" THEN [data EXCEPT ![x] = <<>>] ELSE data
      BY <1>4
    <2>2. data' \in [Files -> Seq(Items)] /\ \A y \in Files \ {x} : data'[y] = data[y]
      <3>1. <<>> \in Seq(Items)
        OBVIOUS
      <3> QED
        BY <3>1, <2>1, <1>1
    <2>3. g[x] = NULL /\ [g EXCEPT ![x] = s] = f'
      BY <2>1, <1>1
    <2>4. FilesOK([g EXCEPT ![x] = s], Fopen(Left(x), s, x), data', failed)
      <3> HIDE DEF g
      <3> QED
        BY <1>2, <2>2, <2>3, OpenedOK DEF SystemServes
    <2> QED
      BY <1>4, <2>1, <2>3, <2>4 DEF FilesKept
  <1>5. CASE CloseThrows(x)
    BY <1>5, ThrowsKeeps
  <1> QED
    BY <1>3, <1>4, <1>5 DEF Open, Opened

\* What a stream that a File reaches is in the middle of.
LEMMA UsedFacts ==
    ASSUME FilesOK(f, streams, data, failed), NEW x \in Files, InUse(x)
    PROVE  /\ Owner(x) \in Files
           /\ data \in [Files -> Seq(Items)]
           /\ Len(data[Owner(x)]) \in Nat
           /\ At(x) \in 0 .. Len(data[Owner(x)])
           /\ streams[f[x]].eof \in BOOLEAN
           /\ streams[f[x]].eof => At(x) = Len(data[Owner(x)])
  <1>1. streams[f[x]] \in Stream
    BY DEF FilesOK, InUse
  <1>2. Owner(x) \in Files /\ At(x) \in Nat /\ streams[f[x]].eof \in BOOLEAN
    BY <1>1 DEF Stream, Owner, At
  <1>3. data \in [Files -> Seq(Items)] /\ Len(data[Owner(x)]) \in Nat
    BY <1>2 DEF FilesOK
  <1>4. Placed(streams[f[x]], data)
    BY DEF FilesOK, InUse
  <1> QED
    BY <1>2, <1>3, <1>4 DEF Placed, At, Owner

LEMMA MoveKeeps ==
    ASSUME FilesOK(f, streams, data, failed), NEW x \in Files, InUse(x),
           NEW pos \in Nat, NEW eof \in BOOLEAN, MoveTo(x, pos, eof),
           f' = f, failed' = failed, data' \in [Files -> Seq(Items)],
           \A y \in Files \ {Owner(x)} : data'[y] = data[y],
           pos <= Len(data'[Owner(x)]), eof => pos = Len(data'[Owner(x)])
    PROVE  FilesKept
  <1> DEFINE ds == data'
             s == f[x]
             w == Owner(x)
  <1>1. s \in DOMAIN streams /\ w \in Files /\ w = streams[s].of
    BY UsedFacts DEF InUse, Owner
  <1>2. /\ ds \in [Files -> Seq(Items)] /\ \A y \in Files \ {w} : ds[y] = data[y]
        /\ pos <= Len(ds[w]) /\ (eof => pos = Len(ds[w]))
    OBVIOUS
  <1>3. streams' = Moved(streams, s, pos, eof)
    BY DEF MoveTo, Moved
  <1> HIDE DEF ds, s, w
  <1>4. FilesOK(f, Moved(streams, s, pos, eof), ds, failed)
    BY <1>1, <1>2, MovedOK
  <1> QED
    BY <1>3, <1>4 DEF FilesKept, ds

LEMMA PutKeeps ==
    ASSUME FilesOK(f, streams, data, failed), NEW x \in Files, NEW item \in Items,
           Put(x, item)
    PROVE  FilesKept
  <1> DEFINE w == Owner(x)
             s == data[w]
             n == At(x)
             front == SubSeq(s, 1, n)
             back  == SubSeq(s, n + 2, Len(s))
             eof   == streams[f[x]].eof
  <1>1. InUse(x) /\ f' = f /\ failed' = failed /\ MoveTo(x, n + 1, eof)
        /\ data' = [data EXCEPT ![w] = front \o <<item>> \o back]
    BY DEF Put
  <1>2. /\ w \in Files /\ data \in [Files -> Seq(Items)] /\ s \in Seq(Items)
        /\ Len(s) \in Nat /\ n \in 0 .. Len(s) /\ eof \in BOOLEAN /\ (eof => n = Len(s))
    BY <1>1, UsedFacts
  <1> HIDE DEF s, n, eof
  <1>3. front \in Seq(Items) /\ Len(front) = n
    BY <1>2
  <1>4. back \in Seq(Items) /\ Len(back) = IF n + 2 <= Len(s) THEN Len(s) - n - 1 ELSE 0
    BY <1>2
  <1> HIDE DEF front, back
  <1>5. <<item>> \in Seq(Items) /\ Len(<<item>>) = 1
    OBVIOUS
  <1>6. /\ front \o <<item>> \o back \in Seq(Items)
        /\ Len(front \o <<item>> \o back) = n + 1 + Len(back)
    <2>1. front \o <<item>> \in Seq(Items) /\ Len(front \o <<item>>) = n + 1
      BY <1>3, <1>5, ConcatProperties
    <2> QED
      BY <2>1, <1>4, ConcatProperties
  <1> HIDE DEF w
  <1>7. /\ data' \in [Files -> Seq(Items)]
        /\ \A y \in Files \ {w} : data'[y] = data[y]
        /\ Len(data'[w]) = n + 1 + Len(back)
    BY <1>1, <1>2, <1>6
  <1>8. n + 1 \in Nat /\ n + 1 <= Len(data'[w]) /\ (eof => n + 1 = Len(data'[w]))
    <2>1. Len(back) \in Nat /\ (n + 2 <= Len(s) => Len(back) = Len(s) - n - 1)
      BY <1>2, <1>4
    <2>2. n + 1 \in Nat /\ n + 1 <= n + 1 + Len(back)
      BY <1>2, <2>1
    <2>3. ASSUME eof PROVE Len(back) = 0
      BY <1>2, <1>4, <2>3
    <2> QED
      BY <1>2, <1>7, <2>1, <2>2, <2>3
  <1> QED
    BY <1>1, <1>2, <1>7, <1>8, MoveKeeps DEF w

LEMMA GetKeeps ==
    ASSUME FilesOK(f, streams, data, failed), NEW x \in Files, Get(x)
    PROVE  FilesKept
  <1> DEFINE n == At(x)
             w == Owner(x)
             eof == streams[f[x]].eof
  <1>1. InUse(x) /\ f' = f /\ data' = data /\ failed' = failed
    BY DEF Get
  <1>2. /\ data \in [Files -> Seq(Items)]
        /\ Len(data[w]) \in Nat /\ n \in 0 .. Len(data[w]) /\ eof \in BOOLEAN
        /\ eof => n = Len(data[w])
    BY <1>1, UsedFacts
  <1>3. CASE n < Len(data[w])
    <2>1. MoveTo(x, n + 1, eof)
      BY <1>3 DEF Get
    <2> HIDE DEF n, eof
    <2>2. n + 1 \in Nat /\ n + 1 <= Len(data[w]) /\ (eof => n + 1 = Len(data[w]))
      BY <1>2, <1>3
    <2> QED
      BY <1>1, <1>2, <2>1, <2>2, MoveKeeps
  <1>4. CASE ~(n < Len(data[w]))
    <2>1. MoveTo(x, n, TRUE)
      BY <1>4 DEF Get
    <2> HIDE DEF n, eof
    <2>2. n \in Nat /\ n <= Len(data[w]) /\ n = Len(data[w])
      BY <1>2, <1>4
    <2> QED
      BY <1>1, <1>2, <2>1, <2>2, MoveKeeps
  <1> QED
    BY <1>3, <1>4

LEMMA SeekKeeps ==
    ASSUME FilesOK(f, streams, data, failed), NEW x \in Files, NEW pos, Seek(x, pos)
    PROVE  FilesKept
  <1>1. /\ InUse(x) /\ f' = f /\ data' = data /\ failed' = failed
        /\ pos \in 0 .. Len(data[Owner(x)]) /\ MoveTo(x, pos, FALSE)
    BY DEF Seek
  <1>2. data \in [Files -> Seq(Items)] /\ Len(data[Owner(x)]) \in Nat
    BY <1>1, UsedFacts
  <1>3. pos \in Nat /\ pos <= Len(data[Owner(x)])
    BY <1>1, <1>2
  <1> QED
    BY <1>1, <1>2, <1>3, MoveKeeps

-----------------------------------------------------------------------------
\* Modules.
LEMMA HoldingFinite ==
    ASSUME SystemServes, NEW mods, NEW n
    PROVE  IsFiniteSet(Holding(mods, n)) /\ Cardinality(Holding(mods, n)) \in Nat
  <1>1. Holding(mods, n) \in SUBSET Modules
    BY DEF Holding
  <1>2. IsFiniteSet(Holding(mods, n))
    BY <1>1, FS_Subset DEF SystemServes
  <1> QED
    BY <1>2, FS_CardinalityType

LEMMA ExitedOK ==
    ASSUME SystemServes, NEW mods, NEW loaded, LibsOK(mods, loaded), NEW x \in Modules
    PROVE  LibsOK([mods EXCEPT ![x].lib = NULL], Exited(loaded, mods[x]))
  <1> DEFINE m == [mods EXCEPT ![x].lib = NULL]
             c == Exited(loaded, mods[x])
             old == mods[x].lib
  <1>1. /\ mods \in [Modules -> [name : Names, lib : Names \cup {NULL}]]
        /\ loaded \in [Names -> Nat]
    BY DEF LibsOK
  <1>2. /\ m \in [Modules -> [name : Names, lib : Names \cup {NULL}]]
        /\ m[x].lib = NULL /\ m[x].name = mods[x].name
        /\ \A y \in Modules \ {x} : m[y] = mods[y]
    BY <1>1
  <1>3. \A y \in Modules : m[y].lib \in {NULL, m[y].name}
    BY <1>2 DEF LibsOK
  <1>4. CASE old = NULL
    <2>1. m = mods
      BY <1>1, <1>4
    <2>2. c = loaded
      BY <1>4 DEF Exited
    <2> QED
      BY <2>1, <2>2
  <1>5. CASE old # NULL
    <2>1. old \in Names
      BY <1>1, <1>5
    <2>2. /\ c = [loaded EXCEPT ![old] = @ - 1]
      BY <1>5 DEF Exited
    <2>3. Holding(m, old) = Holding(mods, old) \ {x} /\ x \in Holding(mods, old)
      BY <1>2, <1>5 DEF Holding
    <2>4. \A n \in Names \ {old} : Holding(m, n) = Holding(mods, n)
      BY <1>2 DEF Holding, SystemServes
    <2> HIDE DEF m, c, old
    <2>5. Cardinality(Holding(m, old)) = Cardinality(Holding(mods, old)) - 1
      <3>1. IsFiniteSet(Holding(mods, old))
        BY HoldingFinite
      <3>2. Cardinality(Holding(mods, old) \ {x}) = Cardinality(Holding(mods, old)) - 1
        BY <3>1, <2>3, FS_RemoveElement
      <3> QED
        BY <3>2, <2>3
    <2>6. loaded[old] = Cardinality(Holding(mods, old))
      BY <2>1 DEF LibsOK
    <2>7. Cardinality(Holding(m, old)) \in Nat /\ loaded[old] \in Nat
      BY <1>1, <2>1, HoldingFinite
    <2>8. loaded[old] - 1 = Cardinality(Holding(m, old)) /\ loaded[old] - 1 \in Nat
      BY <2>5, <2>6, <2>7
    <2>9. c \in [Names -> Nat]
      BY <2>2, <2>8, <1>1
    <2>10. \A n \in Names : c[n] = Cardinality(Holding(m, n))
      <3> TAKE n \in Names
      <3>1. CASE n = old
        BY <3>1, <2>2, <2>8, <1>1
      <3>2. CASE n # old
        <4>1. c[n] = loaded[n]
          BY <3>2, <2>2, <1>1
        <4> QED
          BY <4>1, <3>2, <2>4 DEF LibsOK
      <3> QED
        BY <3>1, <3>2
    <2>11. LibsOK(m, c)
      BY <1>2, <1>3, <2>9, <2>10 DEF LibsOK
    <2> QED
      BY <2>11 DEF m, c
  <1> QED
    BY <1>4, <1>5

LEMMA EnteredOK ==
    ASSUME SystemServes, NEW mods, NEW loaded, LibsOK(mods, loaded), NEW x \in Modules,
           mods[x].lib = NULL, NEW name \in Names
    PROVE  /\ LibsOK([mods EXCEPT ![x] = [name |-> name, lib |-> name]],
                     [loaded EXCEPT ![name] = @ + 1])
           /\ LibsOK([mods EXCEPT ![x] = [name |-> name, lib |-> NULL]], loaded)
  <1> DEFINE m == [mods EXCEPT ![x] = [name |-> name, lib |-> name]]
             c == [loaded EXCEPT ![name] = @ + 1]
             o == [mods EXCEPT ![x] = [name |-> name, lib |-> NULL]]
  <1>1. /\ mods \in [Modules -> [name : Names, lib : Names \cup {NULL}]]
        /\ loaded \in [Names -> Nat]
    BY DEF LibsOK
  <1>2. /\ m \in [Modules -> [name : Names, lib : Names \cup {NULL}]]
        /\ m[x].lib = name /\ m[x].name = name
        /\ \A y \in Modules \ {x} : m[y] = mods[y]
    BY <1>1
  <1>3. /\ o \in [Modules -> [name : Names, lib : Names \cup {NULL}]]
        /\ o[x].lib = NULL
        /\ \A y \in Modules \ {x} : o[y] = mods[y]
    BY <1>1
  <1>4. c \in [Names -> Nat] /\ c[name] = loaded[name] + 1
        /\ \A n \in Names \ {name} : c[n] = loaded[n]
    BY <1>1
  <1>5. NULL \notin Names
    BY DEF SystemServes
  <1>6. \A n \in Names : Holding(o, n) = Holding(mods, n)
    BY <1>3, <1>5 DEF Holding
  <1>7. \A n \in Names \ {name} : Holding(m, n) = Holding(mods, n)
    BY <1>2, <1>5 DEF Holding
  <1>8. Holding(m, name) = Holding(mods, name) \cup {x} /\ x \notin Holding(mods, name)
    BY <1>2, <1>5 DEF Holding
  <1> HIDE DEF m, c, o
  <1>9. Cardinality(Holding(m, name)) = Cardinality(Holding(mods, name)) + 1
    <2>1. IsFiniteSet(Holding(mods, name))
      BY HoldingFinite
    <2>2. Cardinality(Holding(mods, name) \cup {x}) = Cardinality(Holding(mods, name)) + 1
      BY <2>1, <1>8, FS_AddElement
    <2> QED
      BY <2>2, <1>8
  <1>10. \A n \in Names : c[n] = Cardinality(Holding(m, n))
    <2> TAKE n \in Names
    <2>1. CASE n = name
      BY <2>1, <1>4, <1>9 DEF LibsOK
    <2>2. CASE n # name
      BY <2>2, <1>4, <1>7 DEF LibsOK
    <2> QED
      BY <2>1, <2>2
  <1>11. LibsOK(m, c)
    BY <1>2, <1>4, <1>10 DEF LibsOK
  <1>12. LibsOK(o, loaded)
    BY <1>1, <1>3, <1>6 DEF LibsOK
  <1> QED
    BY <1>11, <1>12 DEF m, c, o

LEMMA EnterKeeps ==
    ASSUME SystemServes, IInv, NEW x \in Modules, NEW name \in Names, EnterWith(x, name)
    PROVE  IInv'
  <1> DEFINE mods == dl.mods
             m == [mods EXCEPT ![x].lib = NULL]
             c == Exited(dl.loaded, mods[x])
             yes == [mods EXCEPT ![x] = [name |-> name, lib |-> name]]
             no  == [mods EXCEPT ![x] = [name |-> name, lib |-> NULL]]
  <1>1. /\ UNCHANGED fvars
        /\ \/ dl' = [mods |-> yes, loaded |-> [c EXCEPT ![name] = @ + 1]]
           \/ dl' = [mods |-> no, loaded |-> c]
    BY DEF EnterWith
  <1>2. mods \in [Modules -> [name : Names, lib : Names \cup {NULL}]]
    BY DEF IInv, LibsOK
  <1>3. /\ m[x].lib = NULL
        /\ yes = [m EXCEPT ![x] = [name |-> name, lib |-> name]]
        /\ no = [m EXCEPT ![x] = [name |-> name, lib |-> NULL]]
    BY <1>2
  <1>4. LibsOK(mods, dl.loaded)
    BY DEF IInv
  <1> HIDE DEF mods
  <1>5. LibsOK(m, c)
    BY <1>4, ExitedOK
  <1> HIDE DEF m, c
  <1>6. /\ LibsOK([m EXCEPT ![x] = [name |-> name, lib |-> name]], [c EXCEPT ![name] = @ + 1])
        /\ LibsOK([m EXCEPT ![x] = [name |-> name, lib |-> NULL]], c)
    BY <1>3, <1>5, EnteredOK
  <1> HIDE DEF yes, no
  <1>7. LibsOK(yes, [c EXCEPT ![name] = @ + 1]) /\ LibsOK(no, c)
    BY <1>3, <1>6
  <1>8. FilesOK(f', streams', data', failed')
    BY <1>1 DEF fvars, IInv
  <1>9. dl' = [mods |-> dl'.mods, loaded |-> dl'.loaded] /\ LibsOK(dl'.mods, dl'.loaded)
    BY <1>1, <1>7
  <1> QED
    BY <1>8, <1>9 DEF IInv

LEMMA ExitKeeps ==
    ASSUME SystemServes, IInv, NEW x \in Modules, Exit(x)
    PROVE  IInv'
  <1> DEFINE mods == dl.mods
  <1>1. LibsOK(mods, dl.loaded)
    BY DEF IInv
  <1>2. dl' = [mods |-> [mods EXCEPT ![x].lib = NULL], loaded |-> Exited(dl.loaded, mods[x])]
        /\ UNCHANGED fvars
    BY DEF Exit, IInv
  <1> HIDE DEF mods
  <1>3. LibsOK([mods EXCEPT ![x].lib = NULL], Exited(dl.loaded, mods[x]))
    BY <1>1, ExitedOK
  <1>4. dl' = [mods |-> dl'.mods, loaded |-> dl'.loaded] /\ LibsOK(dl'.mods, dl'.loaded)
    BY <1>2, <1>3
  <1>5. FilesOK(f', streams', data', failed')
    BY <1>2 DEF fvars, IInv
  <1> QED
    BY <1>4, <1>5 DEF IInv

-----------------------------------------------------------------------------
LEMMA InitHolds == ASSUME SystemServes, Init PROVE IInv
  <1>1. FilesOK(f, streams, data, failed)
    <2>1. f = [x \in Files |-> NULL] /\ streams = [s \in {} |-> [of |-> NULL, pos |-> 0, eof |-> FALSE]]
          /\ data = [x \in Files |-> <<>>]
      BY DEF Init
    <2>2. <<>> \in Seq(Items)
      OBVIOUS
    <2>3. data \in [Files -> Seq(Items)] /\ f \in [Files -> Streams \cup {NULL}]
      BY <2>1, <2>2
    <2>4. DOMAIN streams = {} /\ streams \in [DOMAIN streams -> Stream]
      BY <2>1
    <2> QED
      BY <2>1, <2>3, <2>4 DEF FilesOK
  <1> DEFINE n0 == CHOOSE n \in Names : TRUE
             m == [x \in Modules |-> [name |-> n0, lib |-> NULL]]
             c == [n \in Names |-> 0]
  <1>2. n0 \in Names /\ NULL \notin Names
    BY DEF SystemServes
  <1>3. dl = [mods |-> m, loaded |-> c]
    BY DEF Init
  <1>4. LibsOK(m, c)
    <2>1. \A n \in Names : Holding(m, n) = {}
      BY <1>2 DEF Holding
    <2>2. \A n \in Names : c[n] = Cardinality(Holding(m, n))
      BY <2>1, FS_EmptySet
    <2>3. m \in [Modules -> [name : Names, lib : Names \cup {NULL}]]
          /\ \A x \in Modules : m[x].lib \in {NULL, m[x].name}
      BY <1>2
    <2>4. c \in [Names -> Nat]
      OBVIOUS
    <2> HIDE DEF m, c
    <2> QED
      BY <2>2, <2>3, <2>4 DEF LibsOK
  <1> HIDE DEF m, c
  <1> QED
    BY <1>1, <1>3, <1>4 DEF IInv

LEMMA NextKeeps == ASSUME SystemServes, IInv, [Next]_vars PROVE IInv'
  <1>1. ASSUME UNCHANGED vars PROVE IInv'
    BY <1>1 DEF vars, IInv
  <1>2. ASSUME UNCHANGED dl, FilesKept PROVE IInv'
    BY <1>2 DEF IInv, FilesKept
  <1>3. FilesOK(f, streams, data, failed)
    BY DEF IInv
  <1>4. ASSUME NEW x \in Files, NEW access, Open(x, access) PROVE IInv'
    BY <1>2, <1>3, <1>4, OpenKeeps DEF Open, Opened, CloseThrows
  <1>5. ASSUME NEW x \in Files, Close(x) PROVE IInv'
    BY <1>2, <1>3, <1>5, CloseKeeps DEF Close, CloseThrows, CloseClears
  <1>6. ASSUME NEW x \in Files, Delete(x) PROVE IInv'
    BY <1>5, <1>6 DEF Delete
  <1>7. ASSUME NEW x \in Files, Get(x) PROVE IInv'
    BY <1>2, <1>3, <1>7, GetKeeps DEF Get
  <1>8. ASSUME NEW x \in Files, NEW item \in Items, Put(x, item) PROVE IInv'
    BY <1>2, <1>3, <1>8, PutKeeps DEF Put
  <1>9. ASSUME NEW x \in Files, NEW pos, Seek(x, pos) PROVE IInv'
    BY <1>2, <1>3, <1>9, SeekKeeps DEF Seek
  <1>10. \A y \in Modules : dl.mods[y].name \in Names
    BY DEF IInv, LibsOK
  <1>11. ASSUME NEW x \in Modules, Enter(x) PROVE IInv'
    BY <1>10, <1>11, EnterKeeps DEF Enter
  <1>12. ASSUME NEW x \in Modules, NEW y \in Modules, Assign(x, y) PROVE IInv'
    BY <1>10, <1>12, EnterKeeps DEF Assign
  <1>13. ASSUME NEW x \in Modules, NEW name \in Names, New(x, name) PROVE IInv'
    BY <1>13, EnterKeeps DEF New
  <1>14. ASSUME NEW x \in Modules, Copy(x) PROVE IInv'
    BY <1>1, <1>13, <1>14 DEF Copy
  <1>15. ASSUME NEW x \in Modules, Exit(x) PROVE IInv'
    BY <1>15, ExitKeeps
  <1> QED
    BY <1>1, <1>4, <1>5, <1>6, <1>7, <1>8, <1>9, <1>11, <1>12, <1>13, <1>14, <1>15 DEF Next

LEMMA HoldsOnce == ASSUME SystemServes, IInv PROVE HeldOnce
  <1>1. FilesOK(f, streams, data, failed)
    BY DEF IInv
  <1>2. \A s \in DOMAIN streams :
            /\ f[streams[s].of] = s
            /\ streams[s].pos <= Len(data[streams[s].of])
            /\ streams[s].eof => streams[s].pos = Len(data[streams[s].of])
    BY <1>1 DEF FilesOK, Placed
  <1>3. \A x \in Files : f[x] \in {NULL} \cup failed \/ Own(x)
    BY <1>1 DEF FilesOK, Mine, Own, InUse
  <1>4. \A n \in Names : dl.loaded[n] = Cardinality({x \in Modules : dl.mods[x].lib = n})
    BY DEF IInv, LibsOK, Holding
  <1>5. \A x \in Modules : dl.mods[x].lib \in {NULL, dl.mods[x].name}
    BY DEF IInv, LibsOK
  <1> QED
    BY <1>1, <1>2, <1>3, <1>4, <1>5 DEF HeldOnce

\* Whatever fails, and whichever Files are opened over open ones, closed and
\* deleted: an open stream is still with the File that opened it, and a File
\* that has anything else has an address of which fclose has failed (File_Open,
\* File_Close); a library is loaded as often as there are Modules that hold it
\* (Module_Enter).
THEOREM ResourcesHeldOnce == ASSUME SystemServes PROVE Spec => []HeldOnce
  <1>1. Init => IInv
    BY InitHolds
  <1>2. IInv /\ [Next]_vars => IInv'
    BY NextKeeps
  <1>3. IInv => HeldOnce
    BY HoldsOnce
  <1> QED
    BY <1>1, <1>2, <1>3, PTL DEF Spec

-----------------------------------------------------------------------------
\* The Pool.
PoolServes == IsFiniteSet(Owners) /\ MaxCount \in Nat

\* The Reference that stands for an object, and who holds the object how often.
Key(x) == [ref |-> x]
Tokens(h, x) == {t \in Owners \X (1 .. MaxCount) : t[2] <= h[t[1]][x]}

PoolTyped ==
    /\ tab \in [DOMAIN tab -> Int]
    /\ \A k \in DOMAIN tab : \E x \in Objects : k = Key(x)
    /\ held \in [Owners -> [Objects -> 0 .. MaxCount]]
    /\ deleted \subseteq Objects
ObjectOK(x) ==
    /\ x \in deleted => Key(x) \notin DOMAIN tab
    /\ x \notin touched =>
        /\ Cardinality(Tokens(held, x)) > 0 =>
            Key(x) \in DOMAIN tab /\ tab[Key(x)] = Cardinality(Tokens(held, x)) /\ x \notin deleted
        /\ Cardinality(Tokens(held, x)) = 0 => Key(x) \notin DOMAIN tab
PInv == PoolTyped /\ \A x \in Objects : ObjectOK(x)

LEMMA TokensFinite ==
    ASSUME PoolServes, NEW h, NEW x
    PROVE  IsFiniteSet(Tokens(h, x)) /\ Cardinality(Tokens(h, x)) \in Nat
  <1>1. IsFiniteSet(1 .. MaxCount)
    BY FS_Interval DEF PoolServes
  <1>2. IsFiniteSet(Owners \X (1 .. MaxCount))
    BY <1>1, FS_Product DEF PoolServes
  <1>3. Tokens(h, x) \in SUBSET (Owners \X (1 .. MaxCount))
    BY DEF Tokens
  <1>4. IsFiniteSet(Tokens(h, x))
    BY <1>2, <1>3, FS_Subset
  <1> QED
    BY <1>4, FS_CardinalityType

\* One retain more is one token more, and one release one less.
OneMore(h, o, x) == [h EXCEPT ![o][x] = @ + 1]
OneLess(h, o, x) == [h EXCEPT ![o][x] = @ - 1]

LEMMA TokensGrow ==
    ASSUME PoolServes, NEW h \in [Owners -> [Objects -> 0 .. MaxCount]],
           NEW o \in Owners, NEW x \in Objects, h[o][x] < MaxCount
    PROVE  /\ Cardinality(Tokens(OneMore(h, o, x), x)) = Cardinality(Tokens(h, x)) + 1
           /\ \A y \in Objects \ {x} : Tokens(OneMore(h, o, x), y) = Tokens(h, y)
  <1> DEFINE g == OneMore(h, o, x)
             n == h[o][x]
  <1>1. n \in 0 .. MaxCount /\ n + 1 \in 1 .. MaxCount /\ MaxCount \in Nat
    BY DEF PoolServes
  <1>2. /\ \A p \in Owners, y \in Objects : h[p][y] \in 0 .. MaxCount
        /\ g[o][x] = n + 1
        /\ \A p \in Owners, y \in Objects : p # o \/ y # x => g[p][y] = h[p][y]
    BY DEF OneMore
  <1> HIDE DEF g, n
  <1>3. <<o, n + 1>> \notin Tokens(h, x)
    <2>1. ~(n + 1 <= n)
      BY <1>1
    <2> QED
      BY <2>1 DEF Tokens, n
  <1>4. Tokens(g, x) = Tokens(h, x) \cup {<<o, n + 1>>}
    <2>1. ASSUME NEW t \in Owners \X (1 .. MaxCount)
          PROVE  t[2] <= g[t[1]][x] <=> t[2] <= h[t[1]][x] \/ t = <<o, n + 1>>
      <3>1. t[1] \in Owners /\ t[2] \in 1 .. MaxCount /\ t = <<t[1], t[2]>>
        OBVIOUS
      <3>2. CASE t[1] = o
        <4>1. h[t[1]][x] = n /\ g[t[1]][x] = n + 1
          BY <3>2, <1>2 DEF n
        <4>2. t = <<o, n + 1>> <=> t[2] = n + 1
          BY <3>1, <3>2
        <4>3. t[2] <= n + 1 <=> t[2] <= n \/ t[2] = n + 1
          BY <3>1, <1>1
        <4> QED
          BY <4>1, <4>2, <4>3
      <3>3. CASE t[1] # o
        <4>1. t # <<o, n + 1>>
          BY <3>1, <3>3
        <4> QED
          BY <4>1, <3>1, <3>3, <1>2
      <3> QED
        BY <3>2, <3>3
    <2>2. <<o, n + 1>> \in Owners \X (1 .. MaxCount)
      BY <1>1
    <2> QED
      BY <2>1, <2>2 DEF Tokens
  <1>5. Cardinality(Tokens(g, x)) = Cardinality(Tokens(h, x)) + 1
    BY <1>3, <1>4, TokensFinite, FS_AddElement
  <1>6. \A y \in Objects \ {x} : Tokens(g, y) = Tokens(h, y)
    BY <1>2 DEF Tokens
  <1> QED
    BY <1>5, <1>6 DEF g

LEMMA TokensShrink ==
    ASSUME PoolServes, NEW h \in [Owners -> [Objects -> 0 .. MaxCount]],
           NEW o \in Owners, NEW x \in Objects, h[o][x] > 0
    PROVE  /\ Cardinality(Tokens(OneLess(h, o, x), x)) = Cardinality(Tokens(h, x)) - 1
           /\ Cardinality(Tokens(h, x)) > 0
           /\ \A y \in Objects \ {x} : Tokens(OneLess(h, o, x), y) = Tokens(h, y)
  <1> DEFINE g == OneLess(h, o, x)
             m == h[o][x] - 1
  <1>1. /\ m \in 0 .. MaxCount /\ m < MaxCount /\ m + 1 = h[o][x]
        /\ h \in [Owners -> [Objects -> Int]]
    BY DEF PoolServes
  <1> HIDE DEF m
  <1>2. /\ g = [h EXCEPT ![o] = [h[o] EXCEPT ![x] = m]]
        /\ [h[o] EXCEPT ![x] = m] \in [Objects -> 0 .. MaxCount]
    BY <1>1 DEF OneLess, m
  <1>3. g \in [Owners -> [Objects -> 0 .. MaxCount]] /\ g[o] = [h[o] EXCEPT ![x] = m]
    <2> HIDE DEF g
    <2> QED
      BY <1>2
  <1> HIDE DEF g
  <1>4. g[o][x] = m
    BY <1>3
  <1>5. OneMore(g, o, x) = h
    <2>1. [g[o] EXCEPT ![x] = m + 1] = h[o]
      BY <1>1, <1>3
    <2>2. OneMore(g, o, x) = [g EXCEPT ![o] = [g[o] EXCEPT ![x] = m + 1]]
      BY <1>4 DEF OneMore
    <2>3. OneMore(g, o, x) = [g EXCEPT ![o] = h[o]]
      BY <2>1, <2>2
    <2> QED
      BY <2>3, <1>2
  <1>6. /\ Cardinality(Tokens(h, x)) = Cardinality(Tokens(g, x)) + 1
        /\ \A y \in Objects \ {x} : Tokens(h, y) = Tokens(g, y)
    <2>1. g[o][x] < MaxCount
      BY <1>1, <1>4
    <2> QED
      BY <2>1, <1>3, <1>5, TokensGrow
  <1>7. Cardinality(Tokens(g, x)) \in Nat
    BY <1>3, TokensFinite
  <1>8. Cardinality(Tokens(g, x)) = Cardinality(Tokens(h, x)) - 1 /\ Cardinality(Tokens(h, x)) > 0
    BY <1>6, <1>7
  <1> QED
    BY <1>6, <1>8 DEF g

LEMMA TokensEmpty ==
    ASSUME PoolServes, PoolTyped, NEW x \in Objects
    PROVE  Pool!Users(x) = {} <=> Cardinality(Tokens(held, x)) = 0
  <1>1. \A o \in Owners : held[o][x] \in 0 .. MaxCount
    BY DEF PoolTyped
  <1>2. ASSUME Pool!Users(x) = {} PROVE Tokens(held, x) = {}
    <2>1. \A t \in Owners \X (1 .. MaxCount) : t[1] \in Owners /\ t[2] \in 1 .. MaxCount
      OBVIOUS
    <2>2. \A o \in Owners : ~(held[o][x] > 0)
      BY <1>2 DEF Pool!Users
    <2>3. \A t \in Owners \X (1 .. MaxCount) : ~(t[2] <= held[t[1]][x])
      BY <2>1, <2>2, <1>1 DEF PoolServes
    <2> QED
      BY <2>3 DEF Tokens
  <1>3. ASSUME Tokens(held, x) = {} PROVE Pool!Users(x) = {}
    <2>1. ASSUME NEW o \in Owners PROVE ~(held[o][x] > 0)
      <3>1. SUFFICES ASSUME held[o][x] > 0 PROVE FALSE
        OBVIOUS
      <3>2. <<o, 1>> \in Owners \X (1 .. MaxCount) /\ 1 <= held[o][x]
        BY <1>1, <3>1 DEF PoolServes
      <3>3. <<o, 1>> \in Tokens(held, x)
        BY <3>2 DEF Tokens
      <3> QED
        BY <3>3, <1>3
    <2> QED
      BY <2>1 DEF Pool!Users
  <1>4. Cardinality(Tokens(held, x)) = 0 <=> Tokens(held, x) = {}
    BY TokensFinite, FS_EmptySet
  <1> QED
    BY <1>2, <1>3, <1>4

-----------------------------------------------------------------------------
\* An object has one Reference in the table of the pool at most.
LEMMA OneKey ==
    ASSUME PoolTyped, NEW x
    PROVE  Pool!KeysOf(x) = DOMAIN tab \cap {Key(x)}
  <1>1. \A k \in DOMAIN tab : Pool!Eq(k, Pool!Reference(x)) <=> k = Key(x)
    BY DEF PoolTyped, Pool!Eq, Pool!At, Pool!Reference, Key
  <1> QED
    BY <1>1 DEF Pool!KeysOf

LEMMA PoolReads ==
    ASSUME PoolTyped, NEW x
    PROVE  /\ Pool!Contains(x) <=> Key(x) \in DOMAIN tab
           /\ Pool!Contains(x) => Pool!Get(x) = tab[Key(x)] /\ tab[Key(x)] \in Int
  <1>1. Pool!KeysOf(x) = DOMAIN tab \cap {Key(x)}
    BY OneKey
  <1>2. Pool!Contains(x) <=> Key(x) \in DOMAIN tab
    BY <1>1 DEF Pool!Contains
  <1>3. ASSUME Key(x) \in DOMAIN tab PROVE Pool!Get(x) = tab[Key(x)] /\ tab[Key(x)] \in Int
    BY <1>1, <1>3 DEF Pool!Get, PoolTyped
  <1> QED
    BY <1>2, <1>3

LEMMA PoolWrites ==
    ASSUME PoolTyped, NEW x \in Objects, NEW c \in Int
    PROVE  /\ DOMAIN Pool!With(x, c) = DOMAIN tab \cup {Key(x)}
           /\ Pool!With(x, c)[Key(x)] = c
           /\ \A y \in Objects \ {x} : Key(y) \in DOMAIN tab =>
                Pool!With(x, c)[Key(y)] = tab[Key(y)]
           /\ Pool!With(x, c) \in [DOMAIN Pool!With(x, c) -> Int]
           /\ \A k \in DOMAIN Pool!With(x, c) : \E y \in Objects : k = Key(y)
  <1> DEFINE w == Pool!With(x, c)
  <1>1. w = [k \in DOMAIN tab \cup {Key(x)} |-> IF k.ref = x THEN c ELSE tab[k]]
    BY DEF Pool!With, Pool!Copy, Pool!Eq, Pool!At, Pool!Reference, Key
  <1>2. /\ Key(x).ref = x
        /\ \A y : y # x => Key(y).ref # x /\ Key(y) # Key(x)
    BY DEF Key
  <1>4. \A k \in DOMAIN tab : tab[k] \in Int /\ \E y \in Objects : k = Key(y)
    BY DEF PoolTyped
  <1> HIDE DEF w
  <1>5. /\ DOMAIN w = DOMAIN tab \cup {Key(x)}
        /\ w[Key(x)] = c
        /\ \A y \in Objects \ {x} : Key(y) \in DOMAIN tab => w[Key(y)] = tab[Key(y)]
    BY <1>1, <1>2
  <1>6. \A k \in DOMAIN w : \E y \in Objects : k = Key(y)
    BY <1>4, <1>5
  <1>7. \A k \in DOMAIN w : w[k] \in Int
    BY <1>1, <1>2, <1>4
  <1>8. w \in [DOMAIN w -> Int]
    BY <1>1, <1>7
  <1> QED
    BY <1>5, <1>6, <1>8 DEF w

LEMMA PoolForgets ==
    ASSUME PoolTyped, NEW x
    PROVE  /\ DOMAIN Pool!Without(x) = DOMAIN tab \ {Key(x)}
           /\ \A k \in DOMAIN Pool!Without(x) : Pool!Without(x)[k] = tab[k]
           /\ Pool!Without(x) \in [DOMAIN Pool!Without(x) -> Int]
  <1>1. Pool!Without(x) = [k \in DOMAIN tab \ {Key(x)} |-> tab[k]]
    BY OneKey DEF Pool!Without
  <1>2. \A k \in DOMAIN tab : tab[k] \in Int
    BY DEF PoolTyped
  <1> QED
    BY <1>1, <1>2

\* What a step must say of the object that it is about, x, when it leaves the
\* others alone.
LEMMA OthersKept ==
    ASSUME PInv, NEW x \in Objects,
           \A y \in Objects \ {x} :
                /\ Key(y) \in DOMAIN tab' <=> Key(y) \in DOMAIN tab
                /\ Key(y) \in DOMAIN tab => tab'[Key(y)] = tab[Key(y)]
                /\ y \in deleted' <=> y \in deleted
                /\ y \in touched' <=> y \in touched
                /\ Tokens(held', y) = Tokens(held, y),
           PoolTyped', ObjectOK(x)'
    PROVE  PInv'
  <1>1. ASSUME NEW y \in Objects \ {x} PROVE ObjectOK(y)'
    BY <1>1 DEF PInv, ObjectOK
  <1> QED
    BY <1>1 DEF PInv

LEMMA RetainKeeps ==
    ASSUME PoolServes, PInv, NEW o \in Owners, NEW x \in Objects, Pool!Retain(o, x)
    PROVE  PInv'
  <1> DEFINE c == IF Pool!Contains(x) THEN Pool!Get(x) + 1 ELSE 1
             n == Cardinality(Tokens(held, x))
  <1>1. /\ held[o][x] < MaxCount /\ x \notin deleted
        /\ tab' = Pool!With(x, c)
        /\ held' = [held EXCEPT ![o][x] = @ + 1]
        /\ deleted' = deleted /\ touched' = touched
    BY DEF Pool!Retain
  <1>2. PoolTyped /\ ObjectOK(x)
    BY DEF PInv
  <1>3. c \in Int /\ n \in Nat
    BY <1>2, PoolReads, TokensFinite
  <1>4. /\ Cardinality(Tokens(held', x)) = n + 1
        /\ \A y \in Objects \ {x} : Tokens(held', y) = Tokens(held, y)
    <2>1. held \in [Owners -> [Objects -> 0 .. MaxCount]]
      BY <1>2 DEF PoolTyped
    <2> DEFINE g == OneMore(held, o, x)
    <2>2. /\ Cardinality(Tokens(g, x)) = Cardinality(Tokens(held, x)) + 1
          /\ \A y \in Objects \ {x} : Tokens(g, y) = Tokens(held, y)
      BY <2>1, <1>1, TokensGrow
    <2>3. held' = g
      BY <1>1 DEF OneMore
    <2> HIDE DEF g
    <2> QED
      BY <2>2, <2>3
  <1>5. x \notin touched => c = n + 1
    BY <1>2, <1>3, PoolReads DEF ObjectOK
  <1> HIDE DEF c, n
  <1>6. /\ DOMAIN tab' = DOMAIN tab \cup {Key(x)} /\ tab'[Key(x)] = c
        /\ \A y \in Objects \ {x} : Key(y) \in DOMAIN tab => tab'[Key(y)] = tab[Key(y)]
        /\ tab' \in [DOMAIN tab' -> Int]
        /\ \A k \in DOMAIN tab' : \E y \in Objects : k = Key(y)
    BY <1>1, <1>2, <1>3, PoolWrites
  <1>7. held' \in [Owners -> [Objects -> 0 .. MaxCount]]
    BY <1>1, <1>2 DEF PoolTyped, PoolServes
  <1>8. PoolTyped'
    BY <1>1, <1>2, <1>6, <1>7 DEF PoolTyped
  <1>9. ObjectOK(x)'
    BY <1>1, <1>3, <1>4, <1>5, <1>6 DEF ObjectOK
  <1>10. \A y \in Objects \ {x} : Key(y) # Key(x)
    BY DEF Key
  <1> QED
    BY <1>1, <1>4, <1>6, <1>8, <1>9, <1>10, OthersKept

LEMMA ReleaseKeeps ==
    ASSUME PoolServes, PInv, NEW o \in Owners, NEW x \in Objects, Pool!Release(o, x)
    PROVE  PInv'
  <1> DEFINE n == Cardinality(Tokens(held, x))
  <1>1. /\ held[o][x] > 0 /\ held' = [held EXCEPT ![o][x] = @ - 1]
        /\ Pool!Released(x) /\ touched' = touched
    BY DEF Pool!Release
  <1>2. PoolTyped /\ ObjectOK(x)
    BY DEF PInv
  <1>3. n \in Nat
    BY TokensFinite
  <1>4. /\ Cardinality(Tokens(held', x)) = n - 1 /\ n > 0
        /\ \A y \in Objects \ {x} : Tokens(held', y) = Tokens(held, y)
    <2>1. held \in [Owners -> [Objects -> 0 .. MaxCount]]
      BY <1>2 DEF PoolTyped
    <2> DEFINE g == OneLess(held, o, x)
    <2>2. /\ Cardinality(Tokens(g, x)) = Cardinality(Tokens(held, x)) - 1
          /\ Cardinality(Tokens(held, x)) > 0
          /\ \A y \in Objects \ {x} : Tokens(g, y) = Tokens(held, y)
      BY <2>1, <1>1, TokensShrink
    <2>3. held' = g
      BY <1>1 DEF OneLess
    <2> HIDE DEF g
    <2> QED
      BY <2>2, <2>3
  <1>5. held' \in [Owners -> [Objects -> 0 .. MaxCount]]
    BY <1>1, <1>2 DEF PoolTyped, PoolServes
  <1>6. \A y \in Objects \ {x} : Key(y) # Key(x)
    BY DEF Key
  <1> HIDE DEF n
  <1>7. x \notin touched => Key(x) \in DOMAIN tab /\ tab[Key(x)] = n /\ x \notin deleted
    BY <1>2, <1>4 DEF ObjectOK, n
  <1>8. CASE ~Pool!Contains(x) /\ UNCHANGED <<tab, deleted>>
    <2>1. Key(x) \notin DOMAIN tab
      BY <1>2, <1>8, PoolReads
    <2>2. PoolTyped'
      BY <1>2, <1>5, <1>8 DEF PoolTyped
    <2>3. ObjectOK(x)'
      BY <1>1, <1>7, <1>8, <2>1 DEF ObjectOK
    <2> QED
      BY <1>1, <1>4, <1>8, <2>2, <2>3, OthersKept
  <1>9. CASE /\ Pool!Contains(x) /\ Pool!Get(x) - 1 <= 0
             /\ tab' = Pool!Without(x) /\ deleted' = deleted \cup {x}
    <2>1. Key(x) \in DOMAIN tab /\ tab[Key(x)] - 1 <= 0 /\ tab[Key(x)] \in Int
      BY <1>2, <1>9, PoolReads
    <2>2. /\ DOMAIN tab' = DOMAIN tab \ {Key(x)}
          /\ \A k \in DOMAIN tab' : tab'[k] = tab[k]
          /\ tab' \in [DOMAIN tab' -> Int]
      BY <1>2, <1>9, PoolForgets
    <2>3. PoolTyped'
      BY <1>2, <1>5, <1>9, <2>2 DEF PoolTyped
    <2>4. x \notin touched => n - 1 = 0
      BY <1>3, <1>4, <1>7, <2>1
    <2>5. ObjectOK(x)'
      BY <1>1, <1>4, <1>9, <2>2, <2>4 DEF ObjectOK
    <2> QED
      BY <1>1, <1>4, <1>6, <1>9, <2>2, <2>3, <2>5, OthersKept
  <1>10. CASE /\ Pool!Contains(x) /\ Pool!Get(x) - 1 > 0
              /\ tab' = Pool!With(x, Pool!Get(x) - 1) /\ deleted' = deleted
    <2> DEFINE c == Pool!Get(x) - 1
    <2>1. Key(x) \in DOMAIN tab /\ c = tab[Key(x)] - 1 /\ c \in Int /\ c > 0
      BY <1>2, <1>10, PoolReads
    <2> HIDE DEF c
    <2>2. tab' = Pool!With(x, c)
      BY <1>10 DEF c
    <2>3. /\ DOMAIN tab' = DOMAIN tab \cup {Key(x)} /\ tab'[Key(x)] = c
          /\ \A y \in Objects \ {x} : Key(y) \in DOMAIN tab => tab'[Key(y)] = tab[Key(y)]
          /\ tab' \in [DOMAIN tab' -> Int]
          /\ \A k \in DOMAIN tab' : \E y \in Objects : k = Key(y)
      <3>1. PoolTyped /\ c \in Int
        BY <1>2, <2>1
      <3>2. /\ DOMAIN Pool!With(x, c) = DOMAIN tab \cup {Key(x)}
            /\ Pool!With(x, c)[Key(x)] = c
            /\ \A y \in Objects \ {x} : Key(y) \in DOMAIN tab =>
                 Pool!With(x, c)[Key(y)] = tab[Key(y)]
            /\ Pool!With(x, c) \in [DOMAIN Pool!With(x, c) -> Int]
            /\ \A k \in DOMAIN Pool!With(x, c) : \E y \in Objects : k = Key(y)
        BY <3>1, PoolWrites
      <3> QED
        BY <2>2, <3>2
    <2>4. PoolTyped'
      BY <1>2, <1>5, <1>10, <2>3 DEF PoolTyped
    <2>5. x \notin touched => c = n - 1
      BY <1>7, <2>1
    <2>6. x \notin deleted
      BY <1>2, <2>1 DEF ObjectOK
    <2>7. ObjectOK(x)'
      BY <1>1, <1>4, <1>10, <2>1, <2>3, <2>5, <2>6 DEF ObjectOK
    <2> QED
      BY <1>1, <1>4, <1>6, <1>10, <2>3, <2>4, <2>7, OthersKept
  <1> QED
    BY <1>1, <1>8, <1>9, <1>10 DEF Pool!Released

\* The pool as a dictionary, of objects that somebody holds.
LEMMA PutPoolKeeps ==
    ASSUME PoolServes, PInv, NEW x \in Objects, NEW c \in 1 .. MaxCount, Pool!Put(x, c)
    PROVE  PInv'
  <1>1. /\ Pool!Users(x) # {} /\ x \notin deleted
        /\ tab' = Pool!With(x, c) /\ deleted' = deleted /\ held' = held
        /\ touched' = touched \cup {x}
    BY DEF Pool!Put, Pool!Touched
  <1>2. PoolTyped /\ c \in Int
    BY DEF PInv, PoolServes
  <1> DEFINE w == Pool!With(x, c)
  <1>0. /\ DOMAIN w = DOMAIN tab \cup {Key(x)}
        /\ \A y \in Objects \ {x} : Key(y) \in DOMAIN tab => w[Key(y)] = tab[Key(y)]
        /\ w \in [DOMAIN w -> Int]
        /\ \A k \in DOMAIN w : \E y \in Objects : k = Key(y)
    BY <1>2, PoolWrites
  <1> HIDE DEF w
  <1>3. /\ DOMAIN tab' = DOMAIN tab \cup {Key(x)}
        /\ \A y \in Objects \ {x} : Key(y) \in DOMAIN tab => tab'[Key(y)] = tab[Key(y)]
        /\ tab' \in [DOMAIN tab' -> Int]
        /\ \A k \in DOMAIN tab' : \E y \in Objects : k = Key(y)
    BY <1>0, <1>1 DEF w
  <1>4. PoolTyped'
    BY <1>1, <1>2, <1>3 DEF PoolTyped
  <1>5. ObjectOK(x)'
    BY <1>1 DEF ObjectOK
  <1>6. \A y \in Objects \ {x} : Key(y) # Key(x)
    BY DEF Key
  <1> QED
    BY <1>1, <1>3, <1>4, <1>5, <1>6, OthersKept

LEMMA DiscardKeeps ==
    ASSUME PoolServes, PInv, NEW x \in Objects, Pool!Discard(x)
    PROVE  PInv'
  <1>1. /\ tab' = Pool!Without(x) /\ deleted' = deleted /\ held' = held
        /\ touched' = touched \cup {y \in {x} : Pool!Users(y) # {}}
    BY DEF Pool!Discard, Pool!Touched
  <1>2. PoolTyped /\ ObjectOK(x)
    BY DEF PInv
  <1>3. /\ DOMAIN tab' = DOMAIN tab \ {Key(x)}
        /\ \A k \in DOMAIN tab' : tab'[k] = tab[k]
        /\ tab' \in [DOMAIN tab' -> Int]
    BY <1>1, <1>2, PoolForgets
  <1>4. PoolTyped'
    BY <1>1, <1>2, <1>3 DEF PoolTyped
  <1>5. Cardinality(Tokens(held, x)) > 0 => x \in touched'
    BY <1>1, <1>2, TokensEmpty, TokensFinite
  <1>6. ObjectOK(x)'
    BY <1>1, <1>3, <1>5 DEF ObjectOK
  <1>7. \A y \in Objects \ {x} : Key(y) # Key(x)
    BY DEF Key
  <1> QED
    BY <1>1, <1>3, <1>4, <1>6, <1>7, OthersKept

LEMMA ClearKeeps ==
    ASSUME PoolServes, PInv, Pool!Clear
    PROVE  PInv'
  <1>1. /\ tab' = [r \in {} |-> 0] /\ deleted' = deleted /\ held' = held
        /\ touched' = touched \cup {y \in Objects : Pool!Users(y) # {}}
    BY DEF Pool!Clear, Pool!Touched
  <1>2. PoolTyped
    BY DEF PInv
  <1>3. DOMAIN tab' = {} /\ tab' \in [DOMAIN tab' -> Int]
    BY <1>1
  <1>4. PoolTyped'
    BY <1>1, <1>2, <1>3 DEF PoolTyped
  <1>5. ASSUME NEW x \in Objects PROVE ObjectOK(x)'
    <2>1. Cardinality(Tokens(held, x)) > 0 => x \in touched'
      BY <1>1, <1>2, TokensEmpty, TokensFinite
    <2> QED
      BY <1>1, <1>3, <2>1 DEF ObjectOK
  <1> QED
    BY <1>4, <1>5 DEF PInv

LEMMA DeletePoolKeeps ==
    ASSUME PoolServes, PInv, Pool!Delete
    PROVE  PInv'
  <1>1. /\ \A x \in Objects : Pool!Users(x) = {}
        /\ deleted' = deleted \cup {Pool!At(k) : k \in DOMAIN tab}
        /\ tab' = [r \in {} |-> 0] /\ held' = held /\ touched' = touched
    BY DEF Pool!Delete
  <1>2. PoolTyped
    BY DEF PInv
  <1>3. DOMAIN tab' = {} /\ tab' \in [DOMAIN tab' -> Int]
    BY <1>1
  <1>4. deleted' \subseteq Objects
    <2>1. \A k \in DOMAIN tab : Pool!At(k) \in Objects
      BY <1>2 DEF PoolTyped, Pool!At, Key
    <2> QED
      BY <1>1, <1>2, <2>1 DEF PoolTyped
  <1>5. PoolTyped'
    BY <1>1, <1>2, <1>3, <1>4 DEF PoolTyped
  <1>6. ASSUME NEW x \in Objects PROVE ObjectOK(x)'
    <2>1. Cardinality(Tokens(held, x)) = 0
      BY <1>1, <1>2, TokensEmpty
    <2> QED
      BY <1>1, <1>3, <2>1 DEF ObjectOK
  <1> QED
    BY <1>5, <1>6 DEF PInv

LEMMA ExitWithKeeps ==
    ASSUME PoolServes, PInv, NEW x \in Objects, Pool!ExitWith(x)
    PROVE  PInv'
  <1>1. /\ Pool!Users(x) = {} /\ ~Pool!Contains(x)
        /\ deleted' = deleted \cup {x}
        /\ tab' = tab /\ held' = held /\ touched' = touched
    BY DEF Pool!ExitWith
  <1>2. PoolTyped
    BY DEF PInv
  <1>3. PoolTyped'
    BY <1>1, <1>2 DEF PoolTyped
  <1>4. Key(x) \notin DOMAIN tab /\ Cardinality(Tokens(held, x)) = 0
    BY <1>1, <1>2, PoolReads, TokensEmpty
  <1>5. ObjectOK(x)'
    BY <1>1, <1>4 DEF ObjectOK
  <1> QED
    BY <1>1, <1>3, <1>5, OthersKept

LEMMA ReuseKeeps ==
    ASSUME PoolServes, PInv, NEW x \in Objects, Pool!Reuse(x)
    PROVE  PInv'
  <1>1. /\ x \in deleted /\ Pool!Users(x) = {}
        /\ deleted' = deleted \ {x} /\ touched' = touched \ {x}
        /\ tab' = tab /\ held' = held
    BY DEF Pool!Reuse
  <1>2. PoolTyped /\ ObjectOK(x)
    BY DEF PInv
  <1>3. PoolTyped'
    BY <1>1, <1>2 DEF PoolTyped
  <1>4. Key(x) \notin DOMAIN tab /\ Cardinality(Tokens(held, x)) = 0
    BY <1>1, <1>2, TokensEmpty DEF ObjectOK
  <1>5. ObjectOK(x)'
    BY <1>1, <1>4 DEF ObjectOK
  <1> QED
    BY <1>1, <1>3, <1>5, OthersKept

LEMMA PoolBegins == ASSUME PoolServes, Pool!Init PROVE PInv
  <1>1. /\ tab = [r \in {} |-> 0] /\ deleted = {}
        /\ held = [o \in Owners |-> [x \in Objects |-> 0]]
    BY DEF Pool!Init
  <1>2. DOMAIN tab = {} /\ tab \in [DOMAIN tab -> Int]
    BY <1>1
  <1>3. PoolTyped
    BY <1>1, <1>2 DEF PoolTyped, PoolServes
  <1>4. ASSUME NEW x \in Objects PROVE ObjectOK(x)
    <2>1. Pool!Users(x) = {}
      BY <1>1 DEF Pool!Users
    <2>2. Cardinality(Tokens(held, x)) = 0
      BY <2>1, <1>3, TokensEmpty
    <2> QED
      BY <1>1, <1>2, <2>2 DEF ObjectOK
  <1> QED
    BY <1>3, <1>4 DEF PInv

LEMMA PoolKeeps == ASSUME PoolServes, PInv, [Pool!Next]_(Pool!vars) PROVE PInv'
  <1>1. ASSUME UNCHANGED Pool!vars PROVE PInv'
    BY <1>1 DEF Pool!vars, PInv, PoolTyped, ObjectOK
  <1> QED
    BY <1>1, RetainKeeps, ReleaseKeeps, PutPoolKeeps, DiscardKeeps, ClearKeeps,
       DeletePoolKeeps, ExitWithKeeps, ReuseKeeps DEF Pool!Next

LEMMA CountsHold == ASSUME PoolServes, PInv PROVE Pool!PoolCounts
  <1>1. PoolTyped
    BY DEF PInv
  <1>2. ASSUME NEW x \in Objects
        PROVE  /\ Cardinality(Pool!KeysOf(x)) <= 1
               /\ x \in deleted => ~Pool!Contains(x)
               /\ x \notin touched =>
                    /\ Cardinality(Pool!Retained(x)) > 0 =>
                        /\ Pool!Contains(x)
                        /\ Pool!Get(x) = Cardinality(Pool!Retained(x))
                        /\ x \notin deleted
                    /\ Cardinality(Pool!Retained(x)) = 0 => ~Pool!Contains(x)
    <2>1. Pool!Retained(x) = Tokens(held, x)
      BY DEF Pool!Retained, Tokens
    <2>2. ObjectOK(x)
      BY DEF PInv
    <2>3. Cardinality(Pool!KeysOf(x)) <= 1
      <3>1. IsFiniteSet({Key(x)}) /\ Cardinality({Key(x)}) = 1
        BY FS_Singleton
      <3>2. Pool!KeysOf(x) \in SUBSET {Key(x)}
        BY <1>1, OneKey
      <3> QED
        BY <3>1, <3>2, FS_Subset
    <2> QED
      BY <1>1, <2>1, <2>2, <2>3, PoolReads DEF ObjectOK
  <1> QED
    BY <1>2 DEF Pool!PoolCounts, Pool!Cardinality, Cardinality

\* Whatever the owners retain and release, and whatever is done to the pool as
\* a dictionary: an object that nobody changed the count of has that of all the
\* retains not yet released, and is not deleted while there is one (Pool_Retain,
\* Pool_Release).
THEOREM PoolIsBalanced == ASSUME PoolServes PROVE Pool!Spec => []Pool!PoolCounts
  <1>1. Pool!Init => PInv
    BY PoolBegins
  <1>2. PInv /\ [Pool!Next]_(Pool!vars) => PInv'
    BY PoolKeeps
  <1>3. PInv => Pool!PoolCounts
    BY CountsHold
  <1> QED
    BY <1>1, <1>2, <1>3, PTL DEF Pool!Spec
=============================================================================

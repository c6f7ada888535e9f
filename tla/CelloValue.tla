------------------------------ MODULE CelloValue ------------------------------
(***************************************************************************)
(* The values of libCello: Int, Real, Char, Bool and String                *)
(* (4/src/Number.c, Char.c, Bool.c, String.c), what eq, lt, hash and the   *)
(* conversions make of two of them, and the functions over lists of them   *)
(* (4/src/Lambda.c and the end of Prelude.c).                              *)
(*                                                                         *)
(* A value is [type, val].  A Real is a number of halves with a sign of    *)
(* its own, so that there is a negative zero; a String is a sequence of    *)
(* characters, which are positive numbers.                                 *)
(***************************************************************************)
EXTENDS Integers, Sequences, FiniteSets, SequencesExt

CONSTANTS LongBits, IntBits,    \* the widths of long and int
          Chars, MaxText        \* the characters, and a bound on the texts

Wrapped(n, bits) ==
    LET low == n % 2 ^ bits
    IN  IF low >= 2 ^ (bits - 1) THEN low - 2 ^ bits ELSE low
Longs == -(2 ^ (LongBits - 1)) .. 2 ^ (LongBits - 1) - 1
Size(n) == IF n < 0 THEN -n ELSE n

IntOf(n)     == [type |-> "Int", val |-> n]
RealOf(m, h) == [type |-> "Real", val |-> <<m, h>>]    \* m: the sign bit
CharOf(c)    == [type |-> "Char", val |-> c]
BoolOf(b)    == [type |-> "Bool", val |-> b]
TextOf(s)    == [type |-> "String", val |-> s]

Signed(x) == IF x.val[1] THEN -x.val[2] ELSE x.val[2]
Halves(h) == RealOf(h < 0, Size(h))
TrueStr   == <<1, 2>>     \* two texts, as "True" and "False" are
FalseStr  == <<2>>

-----------------------------------------------------------------------------
\* Conversions, and which types have them.
Implements(x, class) ==
    x.type \in CASE class = "AsLong"   -> {"Int", "Real", "Bool"}
                 [] class = "AsDouble" -> {"Int", "Real", "Bool"}
                 [] class = "AsChar"   -> {"Char", "Bool"}
                 [] class = "AsStr"    -> {"String", "Bool"}

One(b) == IF b THEN 1 ELSE 0
\* A conversion from double to long cuts off the fraction.
AsLong(x) ==
    CASE x.type = "Int"  -> x.val
      [] x.type = "Real" -> IF x.val[1] THEN -(x.val[2] \div 2) ELSE x.val[2] \div 2
      [] x.type = "Bool" -> One(x.val)
\* In halves.
AsDouble(x) ==
    CASE x.type = "Int"  -> 2 * x.val
      [] x.type = "Real" -> Signed(x)
      [] x.type = "Bool" -> 2 * One(x.val)
AsChar(x) == IF x.type = "Char" THEN x.val ELSE One(x.val)
AsStr(x)  == IF x.type = "String" THEN x.val ELSE IF x.val THEN TrueStr ELSE FalseStr

-----------------------------------------------------------------------------
\* gt and lt of Strings: some place where both have a character decides, or
\* else the length.
StringGt(s, t) == (\E i \in DOMAIN s \cap DOMAIN t : s[i] > t[i]) \/ Len(s) > Len(t)
StringLt(s, t) == (\E i \in DOMAIN s \cap DOMAIN t : s[i] < t[i]) \/ Len(s) < Len(t)

\* What the function of x's type asks y for; without it, eq is False for
\* numbers and texts, gt and lt of texts are, and the others throw.
Asked(x) ==
    CASE x.type = "Int"  -> "AsLong" [] x.type = "Real"   -> "AsDouble"
      [] x.type = "Char" -> "AsChar" [] x.type = "String" -> "AsStr"
EqThrows(x, y)  == x.type = "Char" /\ ~Implements(y, "AsChar")
OrdThrows(x, y) == x.type \in {"Int", "Real", "Char"} /\ ~Implements(y, Asked(x))

\* Bool compares addresses: that of another object is greater than True's.
EqBoth(x, y) ==
    CASE x.type = "Int"    -> AsLong(x) = AsLong(y)
      [] x.type = "Real"   -> AsDouble(x) = AsDouble(y)
      [] x.type = "Char"   -> AsChar(x) = AsChar(y)
      [] x.type = "String" -> AsStr(x) = AsStr(y)
Eq(x, y) ==
    IF x.type = "Bool" THEN y.type = "Bool" /\ x.val = y.val
    ELSE Implements(y, Asked(x)) /\ EqBoth(x, y)
Gt(x, y) ==
    CASE x.type = "Int"    -> AsLong(x) > AsLong(y)
      [] x.type = "Real"   -> AsDouble(x) > AsDouble(y)
      [] x.type = "Char"   -> AsChar(x) > AsChar(y)
      [] x.type = "Bool"   -> y.type = "Bool" /\ x.val /\ ~y.val
      [] x.type = "String" -> Implements(y, "AsStr") /\ StringGt(AsStr(x), AsStr(y))
Lt(x, y) ==
    CASE x.type = "Int"    -> AsLong(x) < AsLong(y)
      [] x.type = "Real"   -> AsDouble(x) < AsDouble(y)
      [] x.type = "Char"   -> AsChar(x) < AsChar(y)
      [] x.type = "Bool"   -> y.type # "Bool" \/ (~x.val /\ y.val)
      [] x.type = "String" -> Implements(y, "AsStr") /\ StringLt(AsStr(x), AsStr(y))
Ge(x, y) == ~Lt(x, y)
Le(x, y) == ~Gt(x, y)

\* String_Hash is an int; Real_Hash has the bits of the double.
TextSum(s) ==
    FoldLeft(LAMBDA total, i : Wrapped(total + s[i] + i - 1, IntBits), 1,
             [i \in 1 .. Len(s) |-> i])
Abs(n) == Wrapped(Size(n), IntBits)
Hash(x) ==
    CASE x.type = "Int"    -> <<x.val>>
      [] x.type = "Real"   -> x.val
      [] x.type = "Char"   -> <<x.val>>
      [] x.type = "Bool"   -> <<One(x.val)>>
      [] x.type = "String" -> <<Abs(TextSum(x.val))>>

\* new, assign and copy of each type: the value of y in that type.
IntNew(y)    == IntOf(AsLong(y))
RealNew(y)   == IF y.type = "Real" THEN y ELSE Halves(AsDouble(y))
CharNew(y)   == CharOf(AsChar(y))
StringNew(y) == TextOf(AsStr(y))
Assigned(x, y) ==
    CASE x.type = "Int"    -> IntNew(y)
      [] x.type = "Real"   -> RealNew(y)
      [] x.type = "Char"   -> CharNew(y)
      [] x.type = "String" -> StringNew(y)

-----------------------------------------------------------------------------
\* Arithmetic.  abs takes an int, and so what is left of a long.
Quotient(a, b) ==
    IF (a < 0) = (b < 0) THEN Size(a) \div Size(b) ELSE -(Size(a) \div Size(b))
IntAdd(x, y) == IntOf(Wrapped(x.val + AsLong(y), LongBits))
IntSub(x, y) == IntOf(Wrapped(x.val - AsLong(y), LongBits))
IntMul(x, y) == IntOf(Wrapped(x.val * AsLong(y), LongBits))
IntDiv(x, y) == IntOf(Wrapped(Quotient(x.val, AsLong(y)), LongBits))
IntNeg(x)    == IntOf(Wrapped(-x.val, LongBits))
IntAbs(x)    == IntOf(Abs(Wrapped(x.val, IntBits)))

\* A sum of two negative zeros is one, and of opposite numbers is not.
RealNeg(x) == RealOf(~x.val[1], x.val[2])
RealAbs(x) == RealOf(FALSE, x.val[2])
RealAdd(x, y) ==
    LET sum == Signed(x) + AsDouble(y)
    IN  IF sum = 0 THEN RealOf(x.val[1] /\ RealNew(y).val[1], 0) ELSE Halves(sum)
RealSub(x, y) == RealAdd(x, RealNeg(RealNew(y)))
RealMul(x, y) ==
    RealOf(x.val[1] # RealNew(y).val[1], (x.val[2] * RealNew(y).val[2]) \div 2)
RealDiv(x, y) ==
    RealOf(x.val[1] # RealNew(y).val[1], (2 * x.val[2]) \div RealNew(y).val[2])

-----------------------------------------------------------------------------
\* Numbers in a file, a long in two halves; a Real in as many bytes as its
\* model has numbers.
Half         == 2 ^ (LongBits \div 2)
IntBytes(x)  == <<x.val % Half, (x.val \div Half) % Half>>
RealBytes(x) == <<One(x.val[1]), x.val[2]>>
CharBytes(x) == <<x.val>>
Bytes(x) ==
    CASE x.type = "Int" -> IntBytes(x) [] x.type = "Real" -> RealBytes(x)
      [] x.type = "Char" -> CharBytes(x)
FromBytes(type, b) ==
    CASE type = "Int"  -> IntOf(Wrapped(b[1] + b[2] * Half, LongBits))
      [] type = "Real" -> RealOf(b[1] = 1, b[2])
      [] type = "Char" -> CharOf(b[1])
WriteData(file, x) == file \o Bytes(x)
\* In a file that ends before the object does, it keeps the rest of its bytes,
\* and nobody is told.
ReadData(file, x) ==
    LET had == Bytes(x)
        got == SubSeq(file, 1, IF Len(file) < Len(had) THEN Len(file) ELSE Len(had))
    IN  [obj  |-> FromBytes(x.type, got \o SubSeq(had, Len(got) + 1, Len(had))),
         file |-> SubSeq(file, Len(got) + 1, Len(file))]

-----------------------------------------------------------------------------
\* Strings.
FirstAt(s, t) ==     \* strstr: a place, or 0
    LET places == {i \in 1 .. Len(s) - Len(t) + 1 : SubSeq(s, i, i + Len(t) - 1) = t}
    IN  IF places = {} THEN 0 ELSE CHOOSE i \in places : \A j \in places : i <= j
\* strchr finds the NUL too.
CharAt(s, c) == c \in ToSet(Append(s, 0))
StringContains(s, y) ==
    IF Implements(y, "AsStr") THEN FirstAt(s, AsStr(y)) # 0
    ELSE Implements(y, "AsChar") /\ CharAt(s, AsChar(y))

Appended(s, t) == s \o t
StringLen(s)   == Len(s)
StringClear(s) == <<>>

\* String_Format_To prints over the text from pos on; behind its NUL nobody
\* sees what was printed.
FormatTo(s, pos, printed) == IF pos > Len(s) THEN s ELSE SubSeq(s, 1, pos) \o printed

\* The loop of String_Reverse.
Swapped(s, i, j) == [s EXCEPT ![i] = s[j], ![j] = s[i]]
Reversed(s) ==
    FoldLeft(LAMBDA u, i : Swapped(u, i, Len(u) + 1 - i), s, [i \in 1 .. Len(s) \div 2 |-> i])

\* String_Discard moves bytecount bytes of the text and its NUL over the part.
\* Without the part, or with a count that is negative or leads past the NUL,
\* there is no saying what happens; nor does the search for a character end
\* that there is.
ByteCount(s, t) == FirstAt(s, t) - 1 - Len(t) + 1
Discards(s, y) ==
    /\ Implements(y, "AsStr") =>
        /\ StringContains(s, y)
        /\ ByteCount(s, AsStr(y))
            \in 0 .. Len(s) + 1 - (FirstAt(s, AsStr(y)) - 1 + Len(AsStr(y)))
    /\ Implements(y, "AsChar") => ~CharAt(s, AsChar(y))
Discarded(s, t) ==
    LET at    == FirstAt(s, t)
        bytes == Append(s, 0)
        moved == [i \in DOMAIN bytes |->
                    IF i \in at .. at + ByteCount(s, t) - 1 THEN bytes[i + Len(t)] ELSE bytes[i]]
        nul   == CHOOSE i \in DOMAIN moved : moved[i] = 0 /\ \A j \in 1 .. i - 1 : moved[j] # 0
    IN  SubSeq(moved, 1, nul - 1)

-----------------------------------------------------------------------------
\* Lists of values.
Maximum(list) == FoldLeft(LAMBDA best, x : IF Gt(x, best) THEN x ELSE best, list[1], list)
Minimum(list) == FoldLeft(LAMBDA best, x : IF Lt(x, best) THEN x ELSE best, list[1], list)

NewSum(list)     == FoldLeft(RealAdd, Halves(0), list)
NewProduct(list) == FoldLeft(RealMul, Halves(2), list)

-----------------------------------------------------------------------------
\* Functions.  A memory is its objects, the lists of places among them, the
\* arguments the code of the functions was given, one list after the other,
\* what the last call returned (a place, or None), and whether one threw.
None  == 0
Freed == [type |-> "Freed"]
ListAt(places)    == [type |-> "List", val |-> places]
Items(m, list)    == m.heap[list].val
Return(m, place)  == [m EXCEPT !.ret = place]
Throw(m)          == [m EXCEPT !.thrown = TRUE]
New(m, x)         == Return([m EXCEPT !.heap = Append(@, x)], Len(m.heap) + 1)
Deleted(m, place) == IF m.thrown THEN m ELSE [m EXCEPT !.heap[place] = Freed]
At(m, list, i) ==
    IF i + 1 \in DOMAIN Items(m, list) THEN Return(m, Items(m, list)[i + 1]) ELSE Throw(m)

\* The code of the program's functions: what it gets is what matters here.
Given(m, places) == [m EXCEPT !.log = Append(@, [i \in DOMAIN places |-> m.heap[places[i]].val])]
Run(m, code, args) ==
    LET g == Given(m, Items(m, args))
    IN  CASE code = "args"  -> Return(g, args)
          [] code = "first" -> At(g, args, 0)
          [] code = "tail"  -> IF Items(m, args) = <<>> THEN Throw(g)
                               ELSE Return([g EXCEPT !.heap[args].val = Tail(@)], args)
          [] code = "neg"   -> New(g, IntNeg(m.heap[Items(m, args)[1]]))
          [] code = "pos"   -> Return(g, One(Gt(m.heap[Items(m, args)[1]], IntOf(0))))
          [] code = "add"   -> LET total == Items(m, args)[1]
                               IN  Return([g EXCEPT !.heap[total] =
                                                IntAdd(@, m.heap[Items(m, args)[2]])], None)

\* The function that a lambda defines, and what it makes of a list of
\* arguments.  The lists that it made stay behind when one throws.
RECURSIVE CallWith(_, _, _), Piped(_, _, _), MethodPiped(_, _, _)
\* call: its arguments are in a list of its own, which is left if one throws.
Call(m, f, places) ==
    LET wrapped == New(m, ListAt(places))
    IN  Deleted(CallWith(wrapped, f, wrapped.ret), wrapped.ret)
Id(m, f, args) == CallWith(m, f.f, args)
Const(m, f)    == Return(m, f.val)
Compose(m, f, args) ==
    LET inner == CallWith(m, f.g, args)
    IN  CallWith(inner, f.f, inner.ret)
\* It is the caller's list that is reversed, and not the copy of it.
Flip(m, f, args) ==
    LET argflip == New(m, m.heap[args])
        called  == CallWith([argflip EXCEPT !.heap[args].val = Reverse(@)], f.f, args)
    IN  Deleted(called, argflip.ret)
PartialL(m, f, args) ==
    LET partargs == New(m, ListAt(f.vals \o Items(m, args)))
    IN  Deleted(CallWith(partargs, f.f, partargs.ret), partargs.ret)
PartialR(m, f, args) ==
    LET partargs == New(m, ListAt(FoldLeft(LAMBDA part, a : <<a>> \o part, f.vals,
                                           Reverse(Items(m, args)))))
    IN  Deleted(CallWith(partargs, f.f, partargs.ret), partargs.ret)
Void(m, f, args) == Return(Run(m, f.code, args), None)
Uncurry(m, f, args) ==
    IF f.argc > Len(Items(m, args)) THEN Throw(m)
    ELSE Return(Given(m, SubSeq(Items(m, args), 1, f.argc)),
                IF f.argc = 0 THEN None ELSE Items(m, args)[f.argc])
\* A Module is called with the arguments and the name of a function, which has
\* to be the last of them; the function gets a list with the list of the rest.
ModuleGet(f, name) == IF name \in DOMAIN f.funcs THEN <<f.funcs[name]>> ELSE <<>>
ModuleCall(m, f, args) ==
    IF Items(m, args) = <<>> THEN Throw(m)
    ELSE LET popped == [m EXCEPT !.heap[args].val = Front(@)]
             name   == m.heap[Last(Items(m, args))]
             found  == IF name.type = "String" THEN ModuleGet(f, name.val) ELSE <<>>
         IN  IF found = <<>> THEN Throw(popped) ELSE Call(popped, found[1], <<args>>)
VoidUncurry(m, f, args) == Return(Uncurry(m, f, args), None)
Piped(m, funcs, args) ==
    IF funcs = <<>> THEN Return(m, args)
    ELSE LET called == CallWith(m, Head(funcs), args)
         IN  Piped(called, Tail(funcs), called.ret)
MethodPiped(m, funcs, args) ==
    IF funcs = <<>> THEN Return(m, None)
    ELSE MethodPiped(CallWith(m, Head(funcs), args), Tail(funcs), args)
Pipe(m, f, args) ==
    LET funcs == New(m, ListAt(<<>>))
    IN  Deleted(Piped(funcs, f.funcs, args), funcs.ret)
MethodPipe(m, f, args) ==
    LET funcs == New(m, ListAt(<<>>))
    IN  Deleted(MethodPiped(funcs, f.funcs, args), funcs.ret)
CallWith(m, f, args) ==
    IF m.thrown THEN m
    ELSE CASE f.kind = "code"         -> Run(m, f.code, args)
           [] f.kind = "id"           -> Id(m, f, args)
           [] f.kind = "const"        -> Const(m, f)
           [] f.kind = "compose"      -> Compose(m, f, args)
           [] f.kind = "flip"         -> Flip(m, f, args)
           [] f.kind = "partial_l"    -> PartialL(m, f, args)
           [] f.kind = "partial_r"    -> PartialR(m, f, args)
           [] f.kind = "void"         -> Void(m, f, args)
           [] f.kind = "uncurry"      -> Uncurry(m, f, args)
           [] f.kind = "void_uncurry" -> VoidUncurry(m, f, args)
           [] f.kind = "pipe"         -> Pipe(m, f, args)
           [] f.kind = "method_pipe"  -> MethodPipe(m, f, args)
           [] f.kind = "module"       -> ModuleCall(m, f, args)

Map(m, list, f) ==
    FoldLeft(LAMBDA mm, item : IF mm.thrown THEN mm ELSE Call(mm, f, <<item>>), m, Items(m, list))
Pushed(m, list, place) == IF m.thrown THEN m ELSE [m EXCEPT !.heap[list].val = Append(@, place)]
NewMap(m, list, f) ==
    LET ret == New(m, ListAt(<<>>))
        Next(mm, item) == LET val == Call(mm, f, <<item>>) IN Pushed(val, ret.ret, val.ret)
    IN  Return(FoldLeft(Next, ret, Items(m, list)), ret.ret)
NewFilter(m, list, f) ==
    LET ret == New(m, ListAt(<<>>))
        Next(mm, item) == LET val == Call(mm, f, <<item>>)
                          IN  IF val.ret = None THEN val ELSE Pushed(val, ret.ret, item)
    IN  Return(FoldLeft(Next, ret, Items(m, list)), ret.ret)
NewFoldl(m, list, f, base) ==
    LET total == New(m, m.heap[base])
    IN  Return(FoldLeft(LAMBDA mm, item : Call(mm, f, <<total.ret, item>>), total, Items(m, list)),
               total.ret)
NewFoldr(m, list, f, base) ==
    LET total == New(m, m.heap[base])
        Next(mm, i) == Call(mm, f, <<total.ret, At(mm, list, i).ret>>)
    IN  Return(FoldLeft(Next, total, Reverse([i \in DOMAIN Items(m, list) |-> i - 1])), total.ret)

-----------------------------------------------------------------------------
Texts  == UNION {[1 .. n -> Chars] : n \in 0 .. MaxText}
Reals  == {RealOf(m, h) : m \in BOOLEAN, h \in 0 .. 3}
Values == {IntOf(n) : n \in Longs} \cup Reals \cup {CharOf(c) : c \in Chars}
            \cup {BoolOf(b) : b \in BOOLEAN} \cup {TextOf(s) : s \in Texts}
OfType(type) == {x \in Values : x.type = type}
NegZero == RealOf(TRUE, 0)

\* ComparesRight: among values of one type gt is the converse of lt, one of
\* gt, lt and eq holds, le and ge are their negations, and equal values have
\* one hash, but for the negative zero; except for Strings lt is an order.
ComparesRight(x) ==
    \A y \in OfType(x.type) :
        /\ ~EqThrows(x, y) /\ ~OrdThrows(x, y)
        /\ Eq(x, y) = Eq(y, x)
        /\ Gt(x, y) = Lt(y, x)
        /\ ~Eq(x, y) = (Gt(x, y) \/ Lt(x, y))
        /\ NegZero \notin {x, y} => (Eq(x, y) => Hash(x) = Hash(y))
        /\ x.type # "String" =>
            /\ Ge(x, y) = (Gt(x, y) \/ Eq(x, y)) /\ Le(x, y) = (Lt(x, y) \/ Eq(x, y))
            /\ \A z \in OfType(x.type) : Lt(x, y) /\ Lt(y, z) => Lt(x, z)

\* AssignsRight: a value that is assigned to another of any type that takes
\* it is equal to what it was assigned from, as the type assigned to sees it,
\* and a number comes back unless it had a fraction.
AssignsRight(x) ==
    \A y \in Values :
        x.type # "Bool" /\ Implements(y, Asked(x)) =>
            /\ Eq(Assigned(x, y), y)
            /\ y.type = "Int" => Assigned(y, Assigned(x, y)) = y
            /\ Assigned(x, x) = x

\* ComputesRight: the arithmetic of Int is that of the integers as far as the
\* results fit a long, and for absolute an int; division goes with the
\* remainder of C.
ComputesRight(x) ==
    /\ \A y \in OfType("Int") :
        /\ x.val + y.val \in Longs => IntSub(IntAdd(x, y), y) = x
        /\ x.val * y.val \in Longs /\ y.val # 0 => IntDiv(IntMul(x, y), y) = x
        /\ y.val # 0 /\ x.val \div y.val \in Longs =>
            LET r == IntSub(x, IntMul(IntDiv(x, y), y)).val
            IN  Size(r) < Size(y.val) /\ (r = 0 \/ (r < 0) = (x.val < 0))
    /\ IntNeg(IntNeg(x)) = x
    /\ Size(x.val) < 2 ^ (IntBits - 1) => IntAbs(x) = IntOf(Size(x.val))

\* RealsRight: Real adds and multiplies as numbers do, the sign of a zero
\* included, and subtraction and division undo it where nothing is rounded.
RealsRight(x) ==
    \A y \in OfType("Real") :
        /\ RealAdd(x, y) = RealAdd(y, x) /\ RealMul(x, y) = RealMul(y, x)
        /\ (RealAdd(x, y) = NegZero) <=> (x = NegZero /\ y = NegZero)
        /\ RealNeg(RealSub(x, y)) = RealSub(y, x) \/ Eq(x, y)
        /\ Eq(RealAdd(RealSub(x, y), y), x)
        /\ (x.val[2] * y.val[2]) % 2 = 0 /\ y.val[2] # 0 => RealDiv(RealMul(x, y), y) = x
        /\ RealSub(x, x) = Halves(0) /\ RealAbs(RealNeg(x)) = RealAbs(x)

\* TextsRight: reverse is its own inverse and turns every text round; what was
\* appended is contained, and discarded again if it is as long as what it was
\* appended to and not found before; what is printed at the end of a text is
\* appended to it, and leaves what stands before.
TextsRight(s) ==
    /\ Reversed(s) = Reverse(s)
    /\ \A c \in Chars :
        /\ StringContains(s, CharOf(c)) = StringContains(s, TextOf(<<c>>))
        /\ Discards(s, CharOf(c)) = ~StringContains(s, CharOf(c))
    /\ \A b \in BOOLEAN : StringContains(s, BoolOf(b)) => ~Discards(s, BoolOf(FALSE))
    /\ \A t \in Texts :
        /\ StringContains(Appended(s, t), TextOf(t))
        /\ StringLen(Appended(s, t)) = StringLen(s) + StringLen(t)
        /\ Appended(StringClear(s), t) = t
        /\ StringContains(s, TextOf(t)) = (\E p, q \in Texts : s = p \o t \o q)
        /\ Len(s) = Len(t) /\ FirstAt(Appended(s, t), t) = Len(s) + 1 =>
            Discards(Appended(s, t), TextOf(t)) /\ Discarded(Appended(s, t), t) = s
        /\ FormatTo(s, Len(s), t) = Appended(s, t)
        /\ \A pos \in 0 .. Len(s) : IsPrefix(SubSeq(s, 1, pos), FormatTo(s, pos, t))

\* ListsRight: the maximum and the minimum of a list are in it and bound it,
\* and a list of one is its sum and its product.  What is written to a file is
\* read again by objects of the same types, and all but the last of it also
\* from a file that was cut short.
ListsRight(list) ==
    /\ list # <<>> =>
        /\ Maximum(list) \in ToSet(list) /\ Minimum(list) \in ToSet(list)
        /\ \A x \in ToSet(list) : ~Gt(x, Maximum(list)) /\ ~Lt(x, Minimum(list))
    /\ \A types \in [DOMAIN list -> {"Int", "Real", "Char"}] :
        LET As(i)  == CASE types[i] = "Int" -> list[i] [] types[i] = "Real" -> RealNew(list[i])
                        [] types[i] = "Char" -> CharOf(Size(list[i].val))
            New0(i) == FromBytes(types[i], <<0, 0>>)
            Written[i \in 0 .. Len(list)] == IF i = 0 THEN <<>> ELSE WriteData(Written[i - 1], As(i))
            Read(file) ==
                LET r[i \in 0 .. Len(list)] ==
                        IF i = 0 THEN [objs |-> <<>>, file |-> file]
                        ELSE LET data == ReadData(r[i - 1].file, New0(i))
                             IN  [objs |-> Append(r[i - 1].objs, data.obj), file |-> data.file]
                IN  r[Len(list)]
            file == Written[Len(list)]
        IN  /\ Read(file) = [objs |-> [i \in DOMAIN list |-> As(i)], file |-> <<>>]
            /\ list # <<>> =>
                SubSeq(Read(Front(file)).objs, 1, Len(list) - 1)
                    = [i \in 1 .. Len(list) - 1 |-> As(i)]
    /\ Len(list) = 1 => Eq(NewSum(list), list[1]) /\ Eq(NewProduct(list), list[1])
    /\ Eq(NewSum(list), NewSum(Reverse(list))) /\ Eq(NewProduct(list), NewProduct(Reverse(list)))

\* CallsRight: a function that is composed, piped, partial, flipped or
\* uncurried gives the code the arguments it says, in their order, and its
\* answer back; map, filter and the folds call it once for every item, from
\* their side, and leave the base as it was; the function of a
\* module gets what stands before its name.  Unless one throws, no list is
\* left behind; but the list given to a flip stays turned round.
Code(name)     == [kind |-> "code", code |-> name]
Partial(k, vs) == [kind |-> k, f |-> Code("args"), vals |-> vs]
Curried(k, n)  == [kind |-> k, argc |-> n]
Lists(m)       == {p \in DOMAIN m.heap : m.heap[p].type = "List"}
CallsRight(list) ==
    LET n      == Len(list)
        places == [i \in 1 .. n |-> i]
        args   == n + 1
        base   == n + 2
        m      == [heap |-> list \o <<ListAt(places), IntOf(1), TextOf(<<1>>)>>, log |-> <<>>, ret |-> None,
                   thrown |-> FALSE]
        vals   == [i \in 1 .. n |-> list[i].val]
        second == Call(m, [kind |-> "pipe", funcs |-> <<Code("tail"), Code("first")>>], places)
        third  == Call(m, [kind |-> "compose", f |-> Code("first"), g |-> Code("tail")], places)
        flip   == CallWith(m, [kind |-> "flip", f |-> Code("args")], args)
        method == CallWith(m, [kind |-> "method_pipe", funcs |-> <<Code("tail"), Code("args")>>], args)
        negs   == NewMap(m, args, Code("neg"))
        poses  == NewFilter(m, args, Code("pos"))
        foldl  == NewFoldl(m, args, Code("add"), base)
        foldr  == NewFoldr(m, args, Code("add"), base)
        each   == [i \in 1 .. n |-> <<vals[i]>>]
        module(name) == [kind |-> "module", funcs |-> [s \in {name} |-> Code("args")]]
        named   == Call(m, module(<<1>>), places \o <<base + 1>>)
        Second(log) == [i \in DOMAIN log |-> log[i][2]]
    IN  /\ second.thrown = (n < 2) /\ third.thrown = (n < 2)
        /\ n >= 2 => second.ret = 2 /\ third.ret = 2 /\ third.log = second.log
        /\ n < 2  => Lists(third) # Lists(m)
        /\ flip.log = <<Reverse(vals)>> /\ Items(flip, args) = Reverse(places)
        /\ n > 0 => method.ret = None /\ method.log = <<vals, Tail(vals)>> /\ Lists(method) = Lists(m)
        /\ \A k \in 0 .. n :
            LET front == SubSeq(places, 1, k)
                back  == SubSeq(places, k + 1, n)
            IN  /\ Call(m, Partial("partial_l", front), back).log = <<vals>>
                /\ Call(m, Partial("partial_r", back), front).log = <<vals>>
        /\ \A k \in 0 .. n + 1, kind \in {"uncurry", "void_uncurry"} :
            LET called == Call(m, Curried(kind, k), places)
            IN  /\ called.thrown = (k > n)
                /\ k <= n => /\ called.log = <<SubSeq(vals, 1, k)>>
                             /\ called.ret = IF kind = "uncurry" THEN k ELSE None
                             /\ Lists(called) = Lists(m)
        /\ ~named.thrown /\ named.log = << <<places>> >> /\ Lists(named) = Lists(m)
        /\ Call(m, module(<<1>>), places).thrown
        /\ Call(m, module(<<2>>), places \o <<base + 1>>).thrown
        /\ negs.log = each /\ poses.log = each /\ Map(m, args, Code("args")).log = each
        /\ [i \in 1 .. n |-> negs.heap[Items(negs, negs.ret)[i]]] = [i \in 1 .. n |-> IntNeg(list[i])]
        /\ Items(poses, poses.ret) = SelectSeq(places, LAMBDA i : vals[i] > 0)
        /\ Second(foldl.log) = vals /\ Second(foldr.log) = Reverse(vals)
        /\ foldl.heap[foldl.ret] = foldr.heap[foldr.ret]
        /\ Lists(flip) = Lists(m)
        /\ \A r \in {foldl, foldr} : r.heap[base] = m.heap[base] /\ Lists(r) = Lists(m)
        /\ \A r \in {negs, poses} : Lists(r) = Lists(m) \cup {r.ret}
        /\ \A f \in {[kind |-> "id", f |-> Code("args")], [kind |-> "const", val |-> base],
                      [kind |-> "void", code |-> "args"]} :
            LET called == CallWith(m, f, args)
            IN  /\ called.ret = (CASE f.kind = "id" -> args [] f.kind = "const" -> base
                                    [] f.kind = "void" -> None)
                /\ called.log = IF f.kind = "const" THEN <<>> ELSE <<vals>>
=============================================================================

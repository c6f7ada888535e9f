----------------------------- MODULE CelloFormat -----------------------------
(***************************************************************************)
(* print_to and scan_from of libCello (4/src/Format.c) to and from a       *)
(* String, at a position, and a File, at its cursor (4/src/String.c,       *)
(* File.c).  A format is a sequence of pieces: a literal as long as there  *)
(* is no %, a %%, or a specifier with its conversion; $ stands for an Int  *)
(* with its show and look.  Characters are strings of one character, and   *)
(* numbers are written in two digits.                                      *)
(***************************************************************************)
EXTENDS Integers, Sequences, FiniteSets, SequencesExt

CONSTANTS Literals,    \* the texts of literals
          Args         \* a function from conversions to the arguments for them

Blank   == " "
Digits  == <<"0", "1">>
Lit(s)  == [kind |-> "literal", text |-> s]
Pct     == [kind |-> "percent"]
Spec(c) == [kind |-> "specifier", conv |-> c]

Conversions == {"li", "$", "s", "c"}
Pieces == {Lit(s) : s \in Literals} \cup {Pct} \cup {Spec(c) : c \in Conversions}

-----------------------------------------------------------------------------
\* printf of one piece.
Magnitude[n \in Nat] ==
    IF n < 2 THEN <<Digits[n + 1]>> ELSE Append(Magnitude[n \div 2], Digits[(n % 2) + 1])
Written(n) == IF n < 0 THEN <<"-">> \o Magnitude[-n] ELSE Magnitude[n]
Formatted(piece, arg) ==
    CASE piece.kind = "literal" -> piece.text
      [] piece.kind = "percent" -> <<"%">>
      [] OTHER -> CASE piece.conv = "s" -> arg
                    [] piece.conv = "c" -> <<arg>>
                    [] OTHER -> Written(arg)

\* format_to: a String is cut off at pos and goes on from there.
FormatTo(kind, text, pos, s) == IF kind = "String" THEN SubSeq(text, 1, pos) \o s ELSE text \o s

\* st: the text and the position so far, and the arguments left.
PrintPiece(kind, st, piece) ==
    IF st.thrown THEN st
    ELSE IF piece.kind = "specifier" /\ st.args = <<>> THEN [st EXCEPT !.thrown = TRUE]
    ELSE LET takes == piece.kind = "specifier"
             s     == Formatted(piece, IF takes THEN Head(st.args) ELSE <<>>)
         IN  [text |-> FormatTo(kind, st.text, st.pos, s), pos |-> st.pos + Len(s),
              args |-> IF takes THEN Tail(st.args) ELSE st.args, thrown |-> FALSE]
PrintTo(kind, text, pos, fmt, args) ==
    FoldLeft(LAMBDA st, piece : PrintPiece(kind, st, piece),
             [text |-> text, pos |-> pos, args |-> args, thrown |-> FALSE], fmt)

-----------------------------------------------------------------------------
\* scanf of one piece from the i-th character on.  It stops behind the
\* character upto; err is -1 for the end of the input, else how many
\* conversions there were, and val is the value converted.
RunFrom(text, i, S) ==     \* behind the characters in S that begin at i
    LET outside == {j \in i .. Len(text) : text[j] \notin S}
    IN  IF outside = {} THEN Len(text) + 1 ELSE CHOOSE j \in outside : \A k \in outside : j <= k
Skipped(text, i) == RunFrom(text, i, {Blank})
Stop(err, i, val) == [err |-> err, next |-> i, val |-> val]

Match(text, i, want) ==    \* one character of the format
    IF want = Blank THEN Stop(0, Skipped(text, i), TRUE)
    ELSE IF i > Len(text) THEN Stop(-1, i, FALSE)
    ELSE IF text[i] = want THEN Stop(0, i + 1, TRUE) ELSE Stop(0, i, FALSE)
MatchAll(text, i, s) ==
    FoldLeft(LAMBDA st, want : IF st.val THEN Match(text, st.next, want) ELSE st,
             Stop(0, i, TRUE), s)

Number(s) ==
    FoldLeft(LAMBDA n, c : 2 * n + (IF c = Digits[2] THEN 1 ELSE 0), 0, s)
ScanInt(text, i) ==
    LET at    == Skipped(text, i)
        minus == at <= Len(text) /\ text[at] = "-"
        from  == IF minus THEN at + 1 ELSE at
        end   == RunFrom(text, from, ToSet(Digits))
        n     == Number(SubSeq(text, from, end - 1))
    IN  IF at > Len(text) THEN Stop(-1, at, 0)
        ELSE IF end = from THEN Stop(0, from, 0)
        ELSE Stop(1, end, IF minus THEN -n ELSE n)
ScanText(text, i) ==
    LET at     == Skipped(text, i)
        blanks == {j \in at .. Len(text) : text[j] = Blank}
        end    == IF blanks = {} THEN Len(text) + 1
                  ELSE CHOOSE j \in blanks : \A k \in blanks : j <= k
    IN  IF at > Len(text) THEN Stop(-1, at, <<>>) ELSE Stop(1, end, SubSeq(text, at, end - 1))
ScanChar(text, i) ==
    IF i > Len(text) THEN Stop(-1, i, Blank) ELSE Stop(1, i + 1, text[i])

Scanned(piece, text, i) ==
    CASE piece.kind = "literal" -> MatchAll(text, i, piece.text)
      [] piece.kind = "percent" -> MatchAll(text, i, <<Blank, "%">>)
      [] OTHER -> CASE piece.conv = "s" -> ScanText(text, i)
                    [] piece.conv = "c" -> ScanChar(text, i)
                    [] OTHER -> ScanInt(text, i)

\* What scan_from adds to pos.  The %n that it writes behind a literal is
\* behind the NUL as well, and so never stored; a %% counts as two characters.
Off(piece, i, scan) ==
    CASE piece.kind = "literal" -> 0
      [] piece.kind = "percent" -> 2
      [] OTHER -> IF scan.err = 1 THEN scan.next - i ELSE 0

\* The look of an Int takes no notice of an input that is none.
Fails(piece, scan) ==
    IF piece.kind # "specifier" THEN scan.err < 0
    ELSE piece.conv # "$" /\ scan.err < 1

\* st: the File's cursor, pos, and the values so far.
ScanPiece(kind, text, st, piece) ==
    LET i    == IF kind = "String" THEN st.pos + 1 ELSE st.cursor
        scan == Scanned(piece, text, i)
    IN  IF st.thrown THEN st
        ELSE [cursor |-> scan.next, pos |-> st.pos + Off(piece, i, scan),
              got    |-> IF piece.kind = "specifier" /\ scan.err = 1
                         THEN Append(st.got, scan.val) ELSE st.got,
              thrown |-> Fails(piece, scan)]
ScanFrom(kind, text, fmt) ==
    FoldLeft(LAMBDA st, piece : ScanPiece(kind, text, st, piece),
             [cursor |-> 1, pos |-> 0, got |-> <<>>, thrown |-> FALSE], fmt)

-----------------------------------------------------------------------------
\* show and look.  An object is its type and, as far as it has them, the text
\* of its value, the items or keys in it, and the values of the keys.
Obj(type, text, parts, vals) == [type |-> type, text |-> text, parts |-> parts, vals |-> vals]
Leaf(type, text) == Obj(type, text, <<>>, <<>>)
Text(s)          == Leaf("text", s)    \* of a format, and not an object

IntShow(x)       == <<Text(x.text)>>
CharShow(x)      == <<Text(x.text)>>
BoolShow(x)      == <<Text(x.text)>>
StringShow(x)    == <<Text(<<"q">> \o x.text \o <<"q">>)>>
ReferenceShow(x) == <<Text(<<"<">>), x.parts[1], Text(<<")", ">">>)>>

Comma(i, n) == IF i < n THEN <<Text(<<",", " ">>)>> ELSE <<>>
Items(xs)   ==
    LET Upto[i \in 0 .. Len(xs)] ==
            IF i = 0 THEN <<>> ELSE Upto[i - 1] \o <<xs[i]>> \o Comma(i, Len(xs))
    IN  Upto[Len(xs)]
ArrayShow(x) == <<Text(<<"<", "[">>)>> \o Items(x.parts) \o <<Text(<<"]", ">">>)>>
ListShow(x)  == <<Text(<<"<", "[">>)>> \o Items(x.parts) \o <<Text(<<"]", ">">>)>>

\* The value is got again with the key.
Value(x, key) == x.vals[CHOOSE i \in DOMAIN x.parts : x.parts[i] = key]
Entries(x) ==
    LET Upto[i \in 0 .. Len(x.parts)] ==
            IF i = 0 THEN <<>>
            ELSE Upto[i - 1] \o <<x.parts[i], Text(<<":">>), Value(x, x.parts[i])>>
                             \o Comma(i, Len(x.parts))
    IN  Upto[Len(x.parts)]
TableShow(x)      == <<Text(<<"<", "{">>)>> \o Entries(x) \o <<Text(<<"}", ">">>)>>
DictionaryShow(x) == <<Text(<<"<", "{">>)>> \o Entries(x) \o <<Text(<<"}", ">">>)>>
MapShow(x)        == <<Text(<<"<", "{">>)>> \o Entries(x) \o <<Text(<<"}", ">">>)>>
TreeShow(x)       == <<Text(<<"<", "{">>)>> \o Entries(x) \o <<Text(<<"}", ">">>)>>

Shows(x) == x.type # "Pool"
Pieced(x) ==
    CASE x.type = "Int"  -> IntShow(x)  [] x.type = "Char" -> CharShow(x)
      [] x.type = "Bool" -> BoolShow(x) [] x.type = "String" -> StringShow(x)
      [] x.type = "Reference" -> ReferenceShow(x)
      [] x.type = "Array" -> ArrayShow(x) [] x.type = "List" -> ListShow(x)
      [] x.type = "Table" -> TableShow(x) [] x.type = "Dictionary" -> DictionaryShow(x)
      [] x.type = "Map"   -> MapShow(x)   [] x.type = "Tree"  -> TreeShow(x)

\* Without a show it is the default that is printed, at the position 0.
Default == <<"<", "P", ">">>
Put(kind, out, s) ==
    IF s = <<>> THEN out ELSE [text |-> FormatTo(kind, out.text, out.pos, s), pos |-> out.pos + Len(s)]
RECURSIVE Spread(_)
Spread(x) ==      \* down to texts, and objects without a show
    IF x.type = "text" \/ ~Shows(x) THEN <<x>>
    ELSE LET pieces == Pieced(x)
             Upto[i \in 0 .. Len(pieces)] ==
                IF i = 0 THEN <<>> ELSE Upto[i - 1] \o Spread(pieces[i])
         IN  Upto[Len(pieces)]
ShowOne(kind, out, x) ==
    IF x.type = "text" THEN Put(kind, out, x.text) ELSE Put(kind, [out EXCEPT !.pos = 0], Default)
ShowTo(kind, out, x) == FoldLeft(LAMBDA o, piece : ShowOne(kind, o, piece), out, Spread(x))
\* println goes to standard output, and ends with a line.
Println(out, xs) ==
    Put("File", FoldLeft(LAMBDA o, x : ShowTo("File", o, x), out, xs), <<"nl">>)

\* look.  The conversion of a String has no end that scan_from knows, and is
\* taken for that of a number, which a String cannot be assigned.
IntLook(text) ==
    LET scan == ScanInt(text, 1)
    IN  [thrown |-> FALSE, pos |-> IF scan.err = 1 THEN scan.next - 1 ELSE 0,
         got    |-> IF scan.err = 1 THEN <<Leaf("Int", Written(scan.val))>> ELSE <<>>]
CharLook(text) ==
    LET scan == ScanChar(text, 1)
    IN  [thrown |-> scan.err < 1, pos |-> scan.next - 1,
         got    |-> IF scan.err = 1 THEN <<Leaf("Char", <<scan.val>>)>> ELSE <<>>]
StringLook(text) == [thrown |-> TRUE, pos |-> 0, got |-> <<>>]
Look(type, text) ==
    CASE type = "Int" -> IntLook(text) [] type = "Char" -> CharLook(text)
      [] type = "String" -> StringLook(text)

-----------------------------------------------------------------------------
Formats(n) ==
    {fmt \in UNION {[1 .. k -> Pieces] : k \in 0 .. n} :
        \A i \in 1 .. Len(fmt) - 1 : {fmt[i].kind, fmt[i + 1].kind} # {"literal"}}
Specs(fmt) == SelectSeq(fmt, LAMBDA piece : piece.kind = "specifier")
ArgLists(fmt) ==
    LET specs == Specs(fmt)
        Upto[i \in 0 .. Len(specs)] ==
            IF i = 0 THEN {<<>>}
            ELSE {Append(a, v) : a \in Upto[i - 1], v \in Args[specs[i].conv]}
    IN  Upto[Len(specs)]

Is(piece, S) == piece.kind = "specifier" /\ piece.conv \in S
\* Numbers and texts end where they are followed by what is not of them, and
\* a character does not follow a literal that would skip it.
Separated(fmt) ==
    \A i \in 1 .. Len(fmt) - 1 :
        /\ Is(fmt[i], {"li", "$"}) => fmt[i + 1].kind # "specifier"
        /\ Is(fmt[i], {"s"}) => fmt[i + 1].kind = "literal" /\ fmt[i + 1].text[1] = Blank
        /\ Is(fmt[i + 1], {"c"}) => fmt[i].kind # "literal"
\* What can be read from a String, where only conversions move pos.
OnlyBlanks(fmt) ==
    \A i \in DOMAIN fmt :
        /\ fmt[i].kind # "percent"
        /\ fmt[i].kind = "literal" => ToSet(fmt[i].text) = {Blank}

\* FormatsRight: a text goes into a String behind what was there before, and
\* into a File, the same; the position is its end; arguments that are missing
\* stop it at their specifier.  scan_from a File with the same format
\* gets the arguments back, and from a String as far as pos keeps up.
FormatsRight(fmt) ==
    \A args \in ArgLists(fmt) :
        LET file  == PrintTo("File", <<>>, 0, fmt, args)
            text  == PrintTo("String", <<"x", "-">>, 1, fmt, args)
            short == PrintTo("File", <<>>, 0, fmt, SubSeq(args, 1, Len(args) - 1))
        IN  /\ ~file.thrown /\ file.args = <<>> /\ file.pos = Len(file.text)
            /\ fmt # <<>> => text.text = <<"x">> \o file.text /\ text.pos = Len(text.text)
            /\ args # <<>> => short.thrown /\ IsPrefix(short.text, file.text)
            /\ Separated(fmt) =>
                LET back == ScanFrom("File", file.text, fmt)
                IN  ~back.thrown /\ back.got = args /\ back.cursor = Len(file.text) + 1
            /\ Separated(fmt) /\ OnlyBlanks(fmt) =>
                LET back == ScanFrom("String", file.text, fmt)
                IN  ~back.thrown /\ back.got = args

\* ShowsRight: an object is shown behind what is in a String, and there as in a
\* File, and the position is the end of it, if there is a show for it and for
\* all that is in it; else the String begins with what was shown last without
\* one.  Its parts are all there, in their order, with commas between them.
\* What was shown of an Int or a Char can be looked at; of a String it cannot.
Leaves == {Leaf("Int", Written(n)) : n \in {-2, 0, 3}} \cup {Leaf("Char", <<"x">>), Leaf("Pool", <<>>)}
            \cup {Leaf("String", s) : s \in {<<>>, <<"x", "1">>}} \cup {Leaf("Bool", <<"T">>)}
Holders(S) ==
    LET seqs == UNION {[1 .. n -> S] : n \in 0 .. 2}
    IN  {Obj(type, <<>>, xs, <<>>) : type \in {"Array", "List"}, xs \in seqs}
        \cup {Obj("Reference", <<>>, <<x>>, <<>>) : x \in S}
        \cup {Obj(type, <<>>, xs, [i \in DOMAIN xs |-> xs[Len(xs) + 1 - i]]) :
                type \in {"Table", "Dictionary", "Map", "Tree"},
                xs \in {s \in seqs : IsInjective(s)}}
Inside(x)  == {x} \cup ToSet(x.parts) \cup UNION {ToSet(y.parts) : y \in ToSet(x.parts)}
ShowsRight(x) ==
    LET before == [text |-> <<"x", "-">>, pos |-> 2]
        file   == ShowTo("File", [text |-> <<>>, pos |-> 0], x)
        text   == ShowTo("String", before, x)
        Shown(y) == ShowTo("File", [text |-> <<>>, pos |-> 0], y).text
        Gap(n)   == Max({0, n - 1})
    IN  /\ IF \A y \in Inside(x) : Shows(y)
           THEN /\ text.text = before.text \o file.text /\ text.pos = Len(text.text)
                /\ file.pos = Len(file.text)
           ELSE /\ IsPrefix(Default, text.text)
                /\ IsSuffix(text.text, file.text)
                /\ text.pos = Len(text.text) /\ text.pos = file.pos
        /\ x.type \in {"Array", "List"} =>
            Len(file.text) = 4 + 2 * Gap(Len(x.parts))
                + FoldLeft(LAMBDA n, y : n + Len(Shown(y)), 0, x.parts)
        /\ \A i \in DOMAIN x.vals :
            \E p, q \in 0 .. Len(file.text) :
                /\ p <= q /\ SubSeq(file.text, p + 1, q)
                               = Shown(x.parts[i]) \o <<":">> \o Shown(x.vals[i])
        /\ Println([text |-> <<>>, pos |-> 0], <<x, x>>).text = file.text \o file.text \o <<"nl">>
        /\ x.type \in {"Int", "Char", "String"} =>
            LET look == Look(x.type, Shown(x))
            IN  IF x.type = "String" THEN look.thrown
                ELSE ~look.thrown /\ look.got = <<x>> /\ look.pos = Len(x.text)
=============================================================================

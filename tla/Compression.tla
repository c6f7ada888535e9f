----------------------------- MODULE Compression -----------------------------
(***************************************************************************)
(* Huffman and LZ77 compression of Cbasic (huffman.c, lz77.c) and the      *)
(* transfer of compressed data over a socket (transfer.c).                 *)
(*                                                                         *)
(* Data are sequences of symbols 0 .. CharMax.  A Huffman stream is the    *)
(* header (size and the scaled frequencies) and the bits after it; an LZ77 *)
(* stream is the size and the tokens after it.  malloc does not fail: a    *)
(* call that it fails returns -1 and frees what it took.                   *)
(***************************************************************************)
EXTENDS Integers, Sequences, FiniteSets, SequencesExt, FiniteSetsExt

CONSTANTS CharMax,      \* UCHAR_MAX
          CodeBits,     \* the bits of the unsigned short that holds a code
          WindowSize,   \* LZ77_WINDOW_SIZE
          BufferSize,   \* LZ77_BUFFER_SIZE
          LongWords,    \* how many 32-bit words an unsigned long has
          Inputs        \* records: alg and data

VARIABLES
    input,      \* the data and how they are compressed
    stream,     \* the compressed data, on its way to the other side
    output      \* what came out there: a return code and the data

vars == <<input, stream, output>>

Chars  == 0 .. CharMax
NoData == [code |-> -1, data |-> <<>>]

-----------------------------------------------------------------------------
\* Frequencies are scaled to fit in a byte, and none that occurs becomes 0.
Freqs(data) ==
    LET count == [c \in Chars |-> Cardinality({i \in DOMAIN data : data[i] = c})]
        max   == Max({CharMax} \cup {count[c] : c \in Chars})
        scale == [c \in Chars |-> (count[c] * CharMax) \div max]
    IN  [c \in Chars |-> IF scale[c] = 0 /\ count[c] # 0 THEN 1 ELSE scale[c]]

\* build_tree merges the two least trees of the priority queue until one is
\* left.  A tree is the set of the codes of its leaves.  Which of two trees
\* with one frequency comes first depends on the queue, and only on it.
Leaf(c, f) == [freq |-> f, codes |-> {[symbol |-> c, code |-> <<>>]}]
Under(tree, bit) == {[leaf EXCEPT !.code = <<bit>> \o @] : leaf \in tree.codes}
Merged(left, right) ==
    [freq |-> left.freq + right.freq, codes |-> Under(left, 0) \cup Under(right, 1)]
Least(trees) == CHOOSE t \in trees : \A u \in trees : t.freq <= u.freq
RECURSIVE MergeAll(_)
MergeAll(trees) ==
    IF Cardinality(trees) = 1 THEN CHOOSE t \in trees : TRUE
    ELSE LET left  == Least(trees)
             right == Least(trees \ {left})
         IN  MergeAll((trees \ {left, right}) \cup {Merged(left, right)})
Leaves(freqs) == {Leaf(c, freqs[c]) : c \in {c \in Chars : freqs[c] # 0}}
BuildTree(freqs) == MergeAll(Leaves(freqs)).codes

\* build_table keeps the last CodeBits bits of a code, and the whole size; a
\* position before them is read as the first.
Kept(code) ==
    [i \in DOMAIN code |->
        LET first == Len(code) - CodeBits
        IN  code[IF i > first THEN i ELSE first + 1]]
BuildTable(tree) ==
    [c \in {leaf.symbol : leaf \in tree} |->
        Kept((CHOOSE leaf \in tree : leaf.symbol = c).code)]

HuffmanCompress(data) ==
    LET freqs == Freqs(data)
    IN  IF data = <<>> THEN NoData
        ELSE LET table == BuildTable(BuildTree(freqs))
             IN  [code |-> 0, size |-> Len(data), freqs |-> freqs,
                  bits |-> FlattenSeq([i \in DOMAIN data |-> table[data[i]]])]

\* huffman_uncompress walks from the root by the bits.  A tree of one leaf has
\* no way to go on the first bit, wherever that is read from.
RECURSIVE Decode(_, _, _)
Decode(tree, bits, size) ==
    IF size = 0 THEN <<>>
    ELSE LET leaf == CHOOSE leaf \in tree : IsPrefix(leaf.code, bits)
         IN  <<leaf.symbol>> \o Decode(tree, SubSeq(bits, Len(leaf.code) + 1, Len(bits)), size - 1)
HuffmanUncompress(s) ==
    LET tree == BuildTree(s.freqs)
    IN  IF Cardinality(tree) = 1 THEN NoData
        ELSE [code |-> s.size, data |-> Decode(tree, s.bits, s.size)]

-----------------------------------------------------------------------------
\* LZ77.  The window and the buffer begin as zeros, and the buffer keeps what
\* it had where there is no more data to fill it.
Zeros(n)     == [i \in 1 .. n |-> 0]
Overlaid(buffer, from, data) ==
    [i \in DOMAIN buffer |-> IF i >= from /\ i - from + 1 \in DOMAIN data
                             THEN data[i - from + 1] ELSE buffer[i]]

\* compare_win: how far the buffer matches the window from each place, and
\* the first place where it matches longest.
MatchAt(window, buffer, k) ==
    LET run == {n \in 0 .. Min({WindowSize - k, BufferSize - 1}) :
                    \A j \in 1 .. n : window[k + j] = buffer[j]}
    IN  Max(run)
CompareWin(window, buffer) ==
    LET longest == Max({MatchAt(window, buffer, k) : k \in 0 .. WindowSize - 1})
    IN  [length |-> longest,
         offset |-> Min({k \in 0 .. WindowSize - 1 : MatchAt(window, buffer, k) = longest}),
         next   |-> buffer[longest + 1]]

\* Both sides move the window over the buffer by the length of a token.
Slid(window, buffer, length) ==
    SubSeq(window, length + 1, WindowSize) \o SubSeq(buffer, 1, length)

RECURSIVE Tokens(_, _, _, _)
Tokens(window, buffer, rest, remaining) ==
    IF remaining <= 0 THEN <<>>
    ELSE LET token  == CompareWin(window, buffer)
             length == token.length + 1
             moved  == SubSeq(buffer, length + 1, BufferSize)
                         \o SubSeq(buffer, BufferSize - length + 1, BufferSize)
             filled == Overlaid(moved, BufferSize - length + 1, rest)
         IN  <<token>> \o Tokens(Slid(window, buffer, length), filled,
                                 SubSeq(rest, length + 1, Len(rest)), remaining - length)

\* The bits of a token are read from the end of the unsigned long; htonl puts
\* them in its first 32 bits.
Sent(tokens, size) ==
    IF LongWords = 1 THEN tokens
    ELSE [i \in 1 .. size |-> [length |-> 0, offset |-> 0, next |-> 0]]
Lz77Compress(data) ==
    LET n == Min({Len(data), BufferSize})
        tokens == Tokens(Zeros(WindowSize), Overlaid(Zeros(BufferSize), 1, SubSeq(data, 1, n)),
                         SubSeq(data, n + 1, Len(data)), Len(data))
    IN  [code |-> 0, size |-> Len(data), tokens |-> Sent(tokens, Len(data))]

\* A token gives its phrase of the window and then the symbol next, up to the
\* size of the data; the last window may have been cut short.
RECURSIVE FromTokensLong(_, _, _)
FromTokensLong(window, tokens, remaining) ==
    IF remaining <= 0 THEN <<>>
    ELSE LET token  == Head(tokens)
             phrase == Append(SubSeq(window, token.offset + 1, token.offset + token.length),
                              token.next)
         IN  phrase \o FromTokensLong(Slid(window, phrase, Len(phrase)), Tail(tokens),
                                      remaining - Len(phrase))
RECURSIVE FromTokens(_, _, _)
FromTokens(window, tokens, remaining) ==
    IF remaining <= 0 THEN <<>>
    ELSE LET token  == Head(tokens)
             phrase == Append(SubSeq(window, token.offset + 1, token.offset + token.length),
                              token.next)
         IN  SubSeq(phrase, 1, Min({Len(phrase), remaining}))
               \o FromTokens(Slid(window, phrase, Len(phrase)), Tail(tokens),
                             remaining - Len(phrase))
Lz77Uncompress(s) ==
    [code |-> s.size, data |-> FromTokens(Zeros(WindowSize), s.tokens, s.size)]

-----------------------------------------------------------------------------
NotSent     == [code |-> 1]
NotReceived == [code |-> 1, data |-> <<>>]

Init ==
    /\ input \in Inputs
    /\ stream = NotSent
    /\ output = NotReceived

\* The compressing side: huffman_compress alone or in send_comp, or
\* lz77_compress.  A send of another length than asked fails the call, and
\* what was sent is gone.
SendComp ==
    /\ stream = NotSent
    /\ stream' = IF input.alg = "huffman" THEN HuffmanCompress(input.data)
                 ELSE Lz77Compress(input.data)
    /\ UNCHANGED <<input, output>>

\* The other side: recv_comp and huffman_uncompress, or lz77_uncompress.
RecvComp ==
    /\ stream # NotSent /\ stream.code = 0 /\ output = NotReceived
    /\ output' = IF input.alg = "huffman" THEN HuffmanUncompress(stream)
                 ELSE Lz77Uncompress(stream)
    /\ UNCHANGED <<input, stream>>

Next == SendComp \/ RecvComp

Spec == Init /\ [][Next]_vars

-----------------------------------------------------------------------------
\* Restored: what comes out is what went in, with its size.
Restored ==
    output.code >= 0 /\ output # NotReceived =>
        output.code = Len(input.data) /\ output.data = input.data

\* Accepted: only Huffman refuses data, and those with fewer than two
\* different symbols.
Refuses(in) == in.alg = "huffman" /\ Cardinality(ToSet(in.data)) < 2
Accepted ==
    /\ stream.code = -1 => Refuses(input)
    /\ output.code = -1 => Refuses(input)
    /\ stream # NotSent /\ output # NotReceived /\ Refuses(input) => output.code = -1
=============================================================================

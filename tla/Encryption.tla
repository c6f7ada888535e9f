------------------------------ MODULE Encryption ------------------------------
(***************************************************************************)
(* The ciphers of Cbasic: DES (des.c), DES in cipher block chaining        *)
(* (cbc.c), RSA (rsa.c), and the bit operations under them (bit.c).        *)
(*                                                                         *)
(* A string of bits is a sequence of 0s and 1s.  What des_main computes    *)
(* from a key is kept in a static array, and a call without a key uses     *)
(* what the call before it left there, whoever made that call.             *)
(***************************************************************************)
EXTENDS Integers, Sequences, FiniteSets, SequencesExt

CONSTANTS HugeBits,        \* the width of a Huge
          Texts, Keys,     \* sequences of 64-bit blocks, and 64-bit keys
          RsaCalls         \* records n, e, d and the plaintext m

VARIABLES
    subkeys,     \* the static subkeys of des_main
    cbc          \* the last message: its key, text, ciphertext and plaintext

vars == <<subkeys, cbc>>

-----------------------------------------------------------------------------
\* bit.c.  bit_get and bit_set find a bit by a mask in its byte, the first by
\* the highest; they are what makes a string of bytes one of bits.
Mask(pos) == 2 ^ (7 - (pos % 8))
BitGet(bytes, pos) == (bytes[pos \div 8 + 1] \div Mask(pos)) % 2
BitSet(bytes, pos, state) ==
    [bytes EXCEPT ![pos \div 8 + 1] = @ + (state - BitGet(bytes, pos)) * Mask(pos)]

\* bit_rot_left shifts bytes, and carries the first bit of each into
\* the last of the byte before it.  Concatenation makes a tuple of a function,
\* which TLC then evaluates once.
Bits(f) == f \o <<>>
BitXor(bits1, bits2) == Bits([i \in DOMAIN bits1 |-> (bits1[i] + bits2[i]) % 2])
RotatedOnce(bits, size) ==
    Bits([i \in DOMAIN bits |-> IF i = size THEN bits[1]
                                ELSE IF i < Len(bits) THEN bits[i + 1] ELSE 0])
RECURSIVE BitRotLeft(_, _, _)
BitRotLeft(bits, size, count) ==
    IF count = 0 \/ size <= 0 THEN bits
    ELSE BitRotLeft(RotatedOnce(bits, size), size, count - 1)

-----------------------------------------------------------------------------
\* The tables of des.c, by rows where they have a pattern.
DesTransform == <<
    57, 49, 41, 33, 25, 17,  9,  1, 58, 50, 42, 34, 26, 18, 10,  2, 59, 51, 43, 35, 27, 19, 11,  3,
    60, 52, 44, 36, 63, 55, 47, 39, 31, 23, 15,  7, 62, 54, 46, 38, 30, 22, 14,  6, 61, 53, 45, 37,
    29, 21, 13,  5, 28, 20, 12,  4>>
DesPermuted == <<
    14, 17, 11, 24,  1,  5,  3, 28, 15,  6, 21, 10, 23, 19, 12,  4, 26,  8, 16,  7, 27, 20, 13,  2,
    41, 52, 31, 37, 47, 55, 30, 40, 51, 45, 33, 48, 44, 49, 39, 56, 34, 53, 46, 42, 50, 36, 29, 32>>
DesSbox == <<
    <<<<14,4,13,1,2,15,11,8,3,10,6,12,5,9,0,7>>, <<0,15,7,4,14,2,13,1,10,6,12,11,9,5,3,8>>,
      <<4,1,14,8,13,6,2,11,15,12,9,7,3,10,5,0>>, <<15,12,8,2,4,9,1,7,5,11,3,14,10,0,6,13>>>>,
    <<<<15,1,8,14,6,11,3,4,9,7,2,13,12,0,5,10>>, <<3,13,4,7,15,2,8,14,12,0,1,10,6,9,11,5>>,
      <<0,14,7,11,10,4,13,1,5,8,12,6,9,3,2,15>>, <<13,8,10,1,3,15,4,2,11,6,7,12,0,5,14,9>>>>,
    <<<<10,0,9,14,6,3,15,5,1,13,12,7,11,4,2,8>>, <<13,7,0,9,3,4,6,10,2,8,5,14,12,11,15,1>>,
      <<13,6,4,9,8,15,3,0,11,1,2,12,5,10,14,7>>, <<1,10,13,0,6,9,8,7,4,15,14,3,11,5,2,12>>>>,
    <<<<7,13,14,3,0,6,9,10,1,2,8,5,11,12,4,15>>, <<13,8,11,5,6,15,0,3,4,7,2,12,1,10,14,9>>,
      <<10,6,9,0,12,11,7,13,15,1,3,14,5,2,8,4>>, <<3,15,0,6,10,1,13,8,9,4,5,11,12,7,2,14>>>>,
    <<<<2,12,4,1,7,10,11,6,8,5,3,15,13,0,14,9>>, <<14,11,2,12,4,7,13,1,5,0,15,10,3,9,8,6>>,
      <<4,2,1,11,10,13,7,8,15,9,12,5,6,3,0,14>>, <<11,8,12,7,1,14,2,13,6,15,0,9,10,4,5,3>>>>,
    <<<<12,1,10,15,9,2,6,8,0,13,3,4,14,7,5,11>>, <<10,15,4,2,7,12,9,5,6,1,13,14,0,11,3,8>>,
      <<9,14,15,5,2,8,12,3,7,0,4,10,1,13,11,6>>, <<4,3,2,12,9,5,15,10,11,14,1,7,6,0,8,13>>>>,
    <<<<4,11,2,14,15,0,8,13,3,12,9,7,5,10,6,1>>, <<13,0,11,7,4,9,1,10,14,3,5,12,2,15,8,6>>,
      <<1,4,11,13,12,3,7,14,10,15,6,8,0,5,9,2>>, <<6,11,13,8,1,4,10,7,9,5,0,15,14,2,3,12>>>>,
    <<<<13,2,8,4,6,15,11,1,10,9,3,14,5,0,12,7>>, <<1,15,13,8,10,3,7,4,12,5,6,11,0,14,9,2>>,
      <<7,11,4,1,9,12,14,2,0,6,10,13,15,3,5,8>>, <<2,1,14,7,4,10,8,13,15,12,9,0,3,5,6,11>>>>>>
DesPbox == <<
    16,  7, 20, 21, 29, 12, 28, 17,  1, 15, 23, 26,  5, 18, 31, 10,
     2,  8, 24, 14, 32, 27,  3,  9, 19, 13, 30,  6, 22, 11,  4, 25>>
DesRotations == <<1, 1, 2, 2, 2, 2, 2, 2, 1, 2, 2, 2, 2, 2, 2, 1>>
Row(i, n) == (i - 1) \div n
Col(i, n) == (i - 1) % n
DesInitial ==
    [i \in 1 .. 64 |-> (IF i <= 32 THEN 58 ELSE 57) + 2 * (Row(i, 8) % 4) - 8 * Col(i, 8)]
DesFinal ==
    [i \in 1 .. 64 |-> (IF Col(i, 8) % 2 = 0 THEN 40 ELSE 8) + 8 * (Col(i, 8) \div 2) - Row(i, 8)]
DesExpansion == [i \in 1 .. 48 |-> ((4 * Row(i, 6) + Col(i, 6) + 31) % 32) + 1]

Permute(bits, mapping) == Bits([i \in DOMAIN mapping |-> bits[mapping[i]]])

\* The key schedule: two 28-bit halves, in four bytes each.
Half(bits, from) == SubSeq(bits, from, from + 27) \o <<0, 0, 0, 0>>
Subkeys(key) ==
    LET chosen == Permute(key, DesTransform)
        Turn(done, count) ==
            LET lkey == BitRotLeft(done.lkey, 28, count)
                rkey == BitRotLeft(done.rkey, 28, count)
            IN  [lkey |-> lkey, rkey |-> rkey,
                 subkeys |-> Append(done.subkeys,
                     Permute(SubSeq(lkey, 1, 28) \o SubSeq(rkey, 1, 28), DesPermuted))]
    IN  FoldLeft(Turn, [lkey |-> Half(chosen, 1), rkey |-> Half(chosen, 29), subkeys |-> <<>>],
                 DesRotations).subkeys

\* One round: the right half becomes the left one, and the left one, mixed
\* with the right one under a subkey, the right one.
Bits4(n) == [k \in 1 .. 4 |-> (n \div 2 ^ (4 - k)) % 2]
Substituted(x) ==
    FlattenSeq([j \in 1 .. 8 |->
        LET b(k) == x[(j - 1) * 6 + k]
        IN  Bits4(DesSbox[j][2 * b(1) + b(6) + 1][8 * b(2) + 4 * b(3) + 2 * b(4) + b(5) + 1])])
Mixed(right, subkey) ==
    Permute(Substituted(BitXor(Permute(right, DesExpansion), subkey)), DesPbox)
Round(halves, subkey) ==
    <<halves[2], BitXor(halves[1], Mixed(halves[2], subkey))>>

\* des_main with the subkeys in the order of the direction.
DesMain(block, order) ==
    LET temp == Permute(block, DesInitial)
        last == FoldLeft(Round, <<SubSeq(temp, 1, 32), SubSeq(temp, 33, 64)>>, order)
    IN  Permute(last[2] \o last[1], DesFinal)
DesEncipher(block, sub) == DesMain(block, sub)
DesDecipher(block, sub) == DesMain(block, Reverse(sub))

\* cbc_encipher and cbc_decipher: the first block as it is, each other one
\* mixed with the block of ciphertext before it.
CbcEncipher(text, sub) ==
    LET cipher[i \in 1 .. Len(text)] ==
            DesEncipher(IF i = 1 THEN text[1] ELSE BitXor(text[i], cipher[i - 1]), sub)
    IN  [i \in 1 .. Len(text) |-> cipher[i]]
CbcDecipher(cipher, sub) ==
    [i \in 1 .. Len(cipher) |->
        IF i = 1 THEN DesDecipher(cipher[1], sub)
        ELSE BitXor(DesDecipher(cipher[i], sub), cipher[i - 1])]

Init ==
    /\ subkeys = [i \in 1 .. 16 |-> [j \in 1 .. 48 |-> 0]]
    /\ cbc = [key |-> <<>>, text |-> <<>>, cipher |-> <<>>, plain |-> <<>>]

\* The first block is enciphered with the key, so that the others find its
\* subkeys in place.
Send(key, text) ==
    /\ cbc.cipher = <<>>
    /\ subkeys' = Subkeys(key)
    /\ cbc' = [cbc EXCEPT !.key = key, !.text = text,
                          !.cipher = CbcEncipher(text, Subkeys(key))]

Receive(key) ==
    /\ cbc.cipher # <<>> /\ cbc.plain = <<>>
    /\ subkeys' = Subkeys(key)
    /\ cbc' = [cbc EXCEPT !.plain = CbcDecipher(cbc.cipher, Subkeys(key))]

\* Somebody else enciphers a block with a key of their own, in between.
OtherCall(key) ==
    /\ cbc.cipher # <<>> /\ cbc.plain = <<>>
    /\ subkeys' = Subkeys(key)
    /\ UNCHANGED cbc

\* des_decipher of the whole text without a key, block by block.
ReceiveKeyless ==
    /\ Len(cbc.cipher) = 1 /\ cbc.plain = <<>>
    /\ cbc' = [cbc EXCEPT !.plain = <<DesDecipher(cbc.cipher[1], subkeys)>>]
    /\ UNCHANGED subkeys

Next ==
    \/ \E key \in Keys : \/ \E text \in Texts : Send(key, text)
                         \/ Receive(key) \/ OtherCall(key)
    \/ ReceiveKeyless

Spec == Init /\ [][Next]_vars

-----------------------------------------------------------------------------
\* modexp by squaring, in the width of a Huge.
Times(x, y) == (x * y) % 2 ^ HugeBits
RECURSIVE ModExpFrom(_, _, _, _)
ModExpFrom(y, a, b, n) ==
    IF b = 0 THEN y
    ELSE ModExpFrom(IF b % 2 = 1 THEN Times(y, a) % n ELSE y, Times(a, a) % n, b \div 2, n)
ModExp(a, b, n) == ModExpFrom(1, a, b, n)
RsaEncipher(m, call) == ModExp(m, call.e, call.n)
RsaDecipher(c, call) == ModExp(c, call.d, call.n)

\* Deciphers: the receiver has the text exactly when the subkeys it used are
\* those of the sender, whatever was enciphered in between; RSA gives back
\* every number below n when no product passes the width.
Deciphers ==
    /\ cbc.plain # <<>> => (cbc.plain = cbc.text <=> subkeys = Subkeys(cbc.key))
    /\ \A call \in RsaCalls : RsaDecipher(RsaEncipher(call.m, call), call) = call.m

\* TablesRight: deciphering does not see a mistake in the tables, as it makes
\* it twice.  The permutations move every bit, the last undoes the first, and
\* the key loses one bit of each byte; a row of an S-box has every number
\* once, and a change of one bit that goes into an S-box changes at least two
\* of those that come out.
Onto(mapping, n) == ToSet(mapping) = 1 .. n
BoxOut(j, n) == DesSbox[j][2 * (n \div 32) + (n % 2) + 1][((n \div 2) % 16) + 1]
Flipped(n, k) == IF (n \div 2 ^ k) % 2 = 1 THEN n - 2 ^ k ELSE n + 2 ^ k
Differ(m, n) == Cardinality({k \in 1 .. 4 : Bits4(m)[k] # Bits4(n)[k]})
TablesRight ==
    /\ Onto(DesInitial, 64) /\ Onto(DesPbox, 32) /\ Onto(DesExpansion, 32)
    /\ \A i \in 1 .. 64 : DesInitial[DesFinal[i]] = i
    /\ ToSet(DesTransform) = {i \in 1 .. 64 : i % 8 # 0}
    /\ Cardinality(ToSet(DesPermuted)) = 48 /\ ToSet(DesPermuted) \subseteq 1 .. 56
    /\ FoldLeft(LAMBDA m, n : m + n, 0, DesRotations) = 28
    /\ \A j \in 1 .. 8 :
        /\ \A row \in 1 .. 4 : ToSet(DesSbox[j][row]) = 0 .. 15
        /\ \A n \in 0 .. 63, k \in 0 .. 5 : Differ(BoxOut(j, n), BoxOut(j, Flipped(n, k))) >= 2

\* BitsRight: a bit that is set is read back and no other changes, in any byte
\* and at either end of it.
BitsRight(bytes) ==
    \A pos \in 0 .. 8 * Len(bytes) - 1, state \in {0, 1} :
        LET set == BitSet(bytes, pos, state)
        IN  /\ \A i \in DOMAIN set : set[i] \in 0 .. 255
            /\ \A p \in 0 .. 8 * Len(bytes) - 1 :
                    BitGet(set, p) = IF p = pos THEN state ELSE BitGet(bytes, p)
=============================================================================

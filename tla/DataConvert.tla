----------------------------- MODULE DataConvert -----------------------------
(***************************************************************************)
(* libutilities: conversions between integers, bytes and text.             *)
(*                                                                         *)
(* An unsigned integer of any width is the sequence of its bytes, least    *)
(* significant first, without leading zeros and with at least one byte: a  *)
(* shift by 8 drops or adds a byte.  A signed one is [neg, mag].           *)
(***************************************************************************)
EXTENDS Integers, Sequences, FiniteSets, FiniteSetsExt, Functions

Byte == 0..255

\* the byte of v at place i (1 is the least significant), zero beyond the last
Digit(v, i) == IF i \in 1..Len(v) THEN v[i] ELSE 0

\* without the leading zeros
Canonical(d) == [i \in 1..Max({1} \cup {j \in 1..Len(d) : d[j] # 0}) |-> Digit(d, i)]

\* small integers as digits, and back
DigitsOf(n) == Canonical(<<n % 256, (n \div 256) % 256, (n \div 65536) % 256, n \div 16777216>>)
NatOf(v) == Digit(v, 1) + 256 * Digit(v, 2) + 65536 * Digit(v, 3) + 16777216 * Digit(v, 4)

-----------------------------------------------------------------------------
(* Big-endian bytes and two's complement.                                  *)

\* toBigEndian into n bytes: what does not fit is dropped
ToBigEndian(v, n) == [i \in 1..n |-> Digit(v, n + 1 - i)]

\* fromBigEndian into a type of w bytes: the shifts drop all but the last w
FromBigEndian(s, w) == Canonical([i \in 1..Min({w, Len(s)}) |-> s[Len(s) + 1 - i]])

\* toCompactBigEndian: as many bytes as v needs (none for zero), at least min
ToCompactBigEndian(v, min) ==
    ToBigEndian(v, Max({min, IF v = <<0>> THEN 0 ELSE Len(v)}))

Word == 32      \* bytes of u256 and s256

\* 2^256 - v
Negated(v) ==
    Canonical([i \in 1..Word |->
        (255 - Digit(v, i) + (IF \A j \in 1..i - 1 : Digit(v, j) = 0 THEN 1 ELSE 0)) % 256])

Signed(neg, mag) == [neg |-> neg, mag |-> mag]

\* u2s: bit 255 is the sign
U2S(u) == IF Digit(u, Word) >= 128 THEN Signed(TRUE, Negated(u)) ELSE Signed(FALSE, u)
S2U(s) == IF s.neg THEN Negated(s.mag) ELSE s.mag

\* an unsigned integer, and what the conversions promise it: big-endian bytes and
\* two's complement read back as the number they were made from, if they hold it
IsNumber(v) == v \in Seq(Byte) /\ Len(v) >= 1 /\ (Len(v) > 1 => v[Len(v)] # 0)

BigEndianReadsBack(v, n, w) ==
    Len(v) <= w =>
        /\ Len(v) <= n => FromBigEndian(ToBigEndian(v, n), w) = v
        /\ FromBigEndian(ToCompactBigEndian(v, n), w) = v

\* the numbers of s256, from -2^255 to 2^255 - 1
IsSigned(s) ==
    /\ IsNumber(s.mag) /\ Len(s.mag) <= Word
    /\ s = Signed(s.neg, s.mag) /\ s.neg \in BOOLEAN
    /\ IF s.neg
       THEN /\ s.mag # <<0>> /\ Digit(s.mag, Word) <= 128
            /\ Digit(s.mag, Word) = 128 => \A i \in 1..Word - 1 : Digit(s.mag, i) = 0
       ELSE Digit(s.mag, Word) < 128

SignedReadsBack(s) == S2U(s) \in Seq(Byte) /\ U2S(S2U(s)) = s

-----------------------------------------------------------------------------
(* Text: a string is the sequence of its characters.                       *)

HexChars == <<"0", "1", "2", "3", "4", "5", "6", "7", "8", "9", "a", "b", "c", "d", "e", "f">>
UpperHexChars == <<"A", "B", "C", "D", "E", "F">>

ToHexString(b, prefix) ==
    prefix \o [i \in 1..2 * Len(b) |->
        HexChars[1 + (IF i % 2 = 1 THEN b[(i + 1) \div 2] \div 16 ELSE b[i \div 2] % 16)]]

\* -1 for what is not a hexadecimal digit
ConvertCharToHexNumber(c) ==
    IF c \in Range(HexChars) THEN (CHOOSE i \in 1..16 : HexChars[i] = c) - 1
    ELSE IF c \in Range(UpperHexChars) THEN (CHOOSE i \in 1..6 : UpperHexChars[i] = c) + 9
    ELSE -1

HexPrefix == <<"0", "x">>

StartsWith(s, prefix) == Len(prefix) <= Len(s) /\ \A i \in 1..Len(prefix) : s[i] = prefix[i]

IsHexString(s) ==
    \A i \in (IF StartsWith(s, HexPrefix) THEN 3 ELSE 1)..Len(s) : ConvertCharToHexNumber(s[i]) # -1

\* the bytes, or <<-1>> for BadHexCharacter; of an odd number of characters the
\* first one behind the prefix is a byte of its own
FromHexStringEven(s) ==
    LET start == IF StartsWith(s, HexPrefix) THEN 2 ELSE 0
        Nibble(i) == ConvertCharToHexNumber(s[i])
    IN  IF \E i \in start + 1..Len(s) : Nibble(i) = -1 THEN <<-1>>
        ELSE [i \in 1..(Len(s) - start) \div 2 |->
                16 * Nibble(start + 2 * i - 1) + Nibble(start + 2 * i)]
FromHexString(s) ==
    LET prefixed == IF StartsWith(s, HexPrefix) THEN 2 ELSE 0
        odd == Len(s) % 2
        start == prefixed + odd
        Nibble(i) == ConvertCharToHexNumber(s[i])
    IN  IF \E i \in prefixed + 1..Len(s) : Nibble(i) = -1 THEN <<-1>>
        ELSE [i \in 1..odd |-> Nibble(start)] \o
             [i \in 1..(Len(s) - start) \div 2 |->
                16 * Nibble(start + 2 * i - 1) + Nibble(start + 2 * i)]

\* toHex and fromHex, which takes whole bytes only and at least one
ToHex(b, prefix) == ToHexString(b, prefix)
FromHex(s, prefix) ==
    IF Len(s) < Len(prefix) + 2 \/ Len(s) % 2 # 0 THEN <<-1>>
    ELSE LET digits == SubSeq(s, Len(prefix) + 1, Len(s))
         IN  IF StartsWith(digits, HexPrefix) THEN <<-1>> ELSE FromHexString(digits)

\* What the conversions promise each other: bytes come back from their text.
HexReadsBack(b, prefix) ==
    /\ FromHexString(ToHexString(b, prefix)) = b
    /\ b # <<>> => FromHex(ToHex(b, prefix), prefix) = b

\* the numbers of width w bits as a sequence of bits, and groups of w bits as
\* numbers, the last group filled with zeros
BitsOf(s, w) == [i \in 1..w * Len(s) |-> (s[(i - 1) \div w + 1] \div 2^(w - 1 - ((i - 1) % w))) % 2]
Grouped(bits, w) ==
    [i \in 1..(Len(bits) + w - 1) \div w |->
        SumSet({2^(w - k) : k \in {j \in 1..w : (i - 1) * w + j <= Len(bits)
                                                /\ bits[(i - 1) * w + j] = 1}})]

\* base64: the alphabet is 0..63, "=" is Pad
Pad == 64
Base64Encode(b) ==
    Grouped(BitsOf(b, 8), 6) \o [i \in 1..((3 - (Len(b) % 3)) % 3) |-> Pad]

\* the padding is counted in the last three characters, decoded as zeros and cut off
Base64Decode(s) ==
    LET suffix == Max({0} \cup {n \in 1..3 : \A i \in Len(s) - n + 1..Len(s) : s[i] = Pad})
        all == Grouped(BitsOf([i \in 1..Len(s) |-> s[i] % 64], 6), 8)
    IN  SubSeq(all, 1, Len(all) - suffix)
=============================================================================

------------------------------ MODULE FixedBytes ------------------------------
(***************************************************************************)
(* libutilities/FixedBytes.h: byte arrays of a fixed length N, which are   *)
(* also big-endian numbers of N bytes and Bloom filters of 8 N bits.  A    *)
(* FixedBytes<N> is the sequence of its bytes.                             *)
(***************************************************************************)
EXTENDS DataConvert, SequencesExt, Bitwise

Zeros(n) == [i \in 1..n |-> 0]

\* constructFixedBytes; <<-1>> is ConstructFixedBytesFailed
Construct(data, n, align) ==
    LET copied == SubSeq(data, 1, Min({Len(data), n}))
    IN  CASE align = "left" -> copied \o Zeros(n - Len(copied))
          [] align = "right" -> Zeros(n - Len(copied)) \o copied
          [] align = "equal" -> IF Len(data) = n THEN data ELSE <<-1>>

\* from a string in hexadecimal, and to and from the arithmetic type
FromHexText(s, n) ==
    LET data == FromHexString(s) IN IF data = <<-1>> THEN data ELSE Construct(data, n, "right")
FromArith(v, n) == ToBigEndian(v, n)
ToArith(a) == FromBigEndian(a, Len(a))

\* operator<: the first byte that differs decides
LessFromRight(a, b) ==
    \E i \in 1..Len(a) : a[i] < b[i] /\ \A j \in i + 1..Len(a) : a[j] = b[j]
Less(a, b) ==
    \E i \in 1..Len(a) : a[i] < b[i] /\ \A j \in 1..i - 1 : a[j] = b[j]
LessEqual(a, b) == a = b \/ Less(a, b)

XorBytes(a, b) == [i \in 1..Len(a) |-> a[i] ^^ b[i]]
OrBytes(a, b) == [i \in 1..Len(a) |-> a[i] | b[i]]
AndBytes(a, b) == [i \in 1..Len(a) |-> a[i] & b[i]]
ComplementBytes(a) == [i \in 1..Len(a) |-> 255 - a[i]]

\* |= and &= of SecureFixedBytes, which both call operator^= of FixedBytes
SecureOr(a, b) == XorBytes(a, b)
SecureAnd(a, b) == XorBytes(a, b)

StaticLog2(n) == CHOOSE k \in 0..n : 2^k <= n /\ n < 2^(k + 1)

\* bloomPart: p times as many bytes as an index into 8 m bits needs, each
\* setting one bit; bit 0 is the last bit of the array
BloomIndex(a, i, m) ==
    LET size == (StaticLog2(8 * m) + 7) \div 8
    IN  NatOf(Reverse(SubSeq(a, (i - 1) * size + 1, i * size))) % (8 * m)
BloomPart(a, p, m) ==
    FoldLeft(LAMBDA ret, i :
                LET index == BloomIndex(a, i, m)
                IN  [ret EXCEPT ![m - (index \div 8)] = @ | 2^(index % 8)],
             Zeros(m), [i \in 1..p |-> i])
ShiftBloom(bloom, a, p) == OrBytes(bloom, BloomPart(a, p, Len(bloom)))

\* the leading zero bits of a byte that is not zero, then of the whole array
LeadingZeros(d) == Min({k \in 0..7 : d >= 2^(7 - k)})
FirstBitSet(a) ==
    IF \A i \in 1..Len(a) : a[i] = 0 THEN 8 * Len(a)
    ELSE LET first == Min({i \in 1..Len(a) : a[i] # 0})
         IN  8 * (first - 1) + LeadingZeros(a[first])

\* h256 and addresses: the right and the left 20 of 32 bytes
AddressSize == 20
Right160(h) == SubSeq(h, Word - AddressSize + 1, Word)
Left160(h) == SubSeq(h, 1, AddressSize)
AsAddress(u) == Right160(FromArith(u, Word))
FromAddress(a) == ToArith(a)
ToAddress(s) ==
    LET data == FromHexString(s)
    IN  IF Len(data) = AddressSize THEN Construct(data, AddressSize, "right") ELSE <<-1>>

-----------------------------------------------------------------------------
(* JsonDataConvertUtility.h: numbers as text for JSON.                     *)

Decimals == SubSeq(HexChars, 1, 10)

\* toJonString of an unsigned number: one leading zero digit is dropped
ToJonString(v) ==
    LET hex == ToHexString(ToCompactBigEndian(v, 1), <<>>)
    IN  HexPrefix \o (IF hex[1] = "0" THEN Tail(hex) ELSE hex)

\* the decimal number, in a type of n bytes
FromDecimal(s, n) ==
    FromBigEndian(ToBigEndian(DigitsOf(
        FoldLeft(LAMBDA sum, c : 10 * sum + ConvertCharToHexNumber(c), 0, s)), n), n)

\* jsonStringToInt; <<-1>> is an exception
JsonStringToInt(s, n) ==
    IF StartsWith(s, HexPrefix)
    THEN LET data == FromHexString(SubSeq(s, 3, Len(s)))
         IN  IF data = <<-1>> THEN data ELSE FromBigEndian(data, n)
    ELSE IF Range(s) \subseteq Range(Decimals) THEN FromDecimal(s, n) ELSE <<-1>>

\* jonStringToFixedBytes: of too many hexadecimal digits the last ones count,
\* and what is neither hexadecimal nor decimal is zero
JonStringToFixedBytes(s, n) ==
    IF StartsWith(s, HexPrefix)
    THEN FromHexText(SubSeq(s, 3 + Max({2 * n, Len(s) - 2}) - 2 * n, Len(s)), n)
    ELSE IF Range(s) \subseteq Range(Decimals) THEN FromArith(FromDecimal(s, n), n)
    ELSE Zeros(n)
=============================================================================

----------------------------- MODULE ScaleInteger -----------------------------
(***************************************************************************)
(* libcodec/scale: the integers.  A compact integer has any number of      *)
(* bytes; it is the sequence of them that DataConvert describes.           *)
(*                                                                         *)
(* A decoder is a pair of a sequence of bytes and the number of bytes read *)
(* so far; its result is Ok(value, read so far), or Fail(why).  "throw" is *)
(* the decoder's exception, "abort" a read past the end that only the      *)
(* checked iterator of gsl::span stops.                                    *)
(***************************************************************************)
EXTENDS DataConvert

Ok(value, at) == [status |-> "ok", value |-> value, at |-> at]
Fail(why) == [status |-> why]

HasMore(s, at, n) == at + n <= Len(s)

-----------------------------------------------------------------------------
(* Compact integers.                                                       *)

\* v < 2^(8 n - 2), for a canonical v: what n bytes hold beside the two flag bits
Fits(v, n) == Len(v) < n \/ (Len(v) = n /\ v[n] < 64)

\* the n bytes of 4 v + flag
ShiftedIn(v, n, flag) ==
    [i \in 1..n |-> (Digit(v, i) % 64) * 4 + (IF i = 1 THEN flag ELSE Digit(v, i - 1) \div 64)]

\* the value whose n bytes of 4 v + flag are the bytes of s after at
ShiftedOut(s, at, n) ==
    Canonical([i \in 1..n |-> s[at + i] \div 4 + (IF i = n THEN 0 ELSE (s[at + i + 1] % 4) * 64)])

\* encodeFirstCategory, encodeSecondCategory, encodeThirdCategory, and the
\* header with the number of bytes before the bytes of a big integer
EncodeCompactIntegerOffByOne(v) ==
    CASE Fits(v, 1) -> ShiftedIn(v, 1, 0)
      [] ~Fits(v, 1) /\ Fits(v, 2) -> ShiftedIn(v, 2, 1)
      [] ~Fits(v, 2) /\ Fits(v, 4) -> ShiftedIn(v, 4, 2)
      [] ~Fits(v, 4) -> <<(Len(v) - 3) * 4 + 3>> \o v
EncodeCompactInteger(v) ==
    CASE Fits(v, 1) -> ShiftedIn(v, 1, 0)
      [] ~Fits(v, 1) /\ Fits(v, 2) -> ShiftedIn(v, 2, 1)
      [] ~Fits(v, 2) /\ Fits(v, 4) -> ShiftedIn(v, 4, 2)
      [] ~Fits(v, 4) -> <<(Len(v) - 4) * 4 + 3>> \o v

\* integers of more than 67 bytes are refused
EncodesCompact(v) == Fits(v, 4) \/ Len(v) <= 67

DecodeCompactInteger(s, at) ==
    IF ~HasMore(s, at, 1) THEN Fail("throw")
    ELSE LET flag == s[at + 1] % 4
             length == IF flag = 3 THEN s[at + 1] \div 4 + 5 ELSE <<1, 2, 4>>[flag + 1]
         IN  IF ~HasMore(s, at, length) THEN Fail("throw")
             ELSE IF flag = 3
                  THEN Ok(Canonical(SubSeq(s, at + 2, at + length)), at + length)
                  ELSE Ok(ShiftedOut(s, at, length), at + length)

\* what is promised: where a stream holds the code of v, or the part of it that
\* is left at the end of the stream, v is read, or the decoder throws
HoldsAt(s, at, code) == \A i \in 1..Len(code) : at + i <= Len(s) => s[at + i] = code[i]

ReadsAs(s, at, v, length) ==
    DecodeCompactInteger(s, at) =
        IF HasMore(s, at, length) THEN Ok(v, at + length) ELSE Fail("throw")

CompactReadsBack(v, s, at) ==
    LET code == EncodeCompactInteger(v)
    IN  HoldsAt(s, at, code) => ReadsAs(s, at, v, Len(code))

-----------------------------------------------------------------------------
(* Fixed-width integers.                                                   *)

\* encodeInteger: two's complement, least significant byte first
EncodeInteger(value, size) ==
    LET rest[i \in 1..size] == IF i = 1 THEN value ELSE rest[i - 1] \div 256
    IN  [i \in 1..size |-> rest[i] % 256]

FromLittleEndian(d) ==
    LET sum[i \in 1..Len(d) + 1] == IF i > Len(d) THEN 0 ELSE d[i] + 256 * sum[i + 1]
    IN  sum[1]

\* decodeInteger: a set sign bit makes a signed value the negated complement
DecodeInteger(s, at, size, signed) ==
    IF ~HasMore(s, at, size) THEN Fail("throw")
    ELSE LET d == SubSeq(s, at + 1, at + size)
         IN  Ok(IF signed /\ d[size] >= 128
                THEN 0 - FromLittleEndian([i \in 1..size |-> 255 - d[i]]) - 1
                ELSE FromLittleEndian(d),
                at + size)
=============================================================================

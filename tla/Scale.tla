-------------------------------- MODULE Scale --------------------------------
(***************************************************************************)
(* libcodec/scale: the streams.  The overloads of the operators << and >>  *)
(* are one definition each, by cases over the type of the value; a type is *)
(* a record with a kind and what the kind needs.                           *)
(*                                                                         *)
(* Values: an optional is <<>> or <<v>>, an optional bool likewise, a      *)
(* vector, tuple, array or byte string a sequence, a map the sequence of   *)
(* its pairs in the order of the keys, a variant [index, value], a pointer *)
(* what it points to.                                                      *)
(***************************************************************************)
EXTENDS ScaleInteger, SequencesExt

-----------------------------------------------------------------------------
(* ScaleEncoderStream                                                      *)

EncodeOptionalBool(v) == <<IF v = <<>> THEN 0 ELSE IF v[1] THEN 1 ELSE 2>>

\* bool, one byte, or any other integer
EncodeIntegral(t, v) ==
    IF t.kind = "bool" THEN <<IF v THEN 1 ELSE 0>> ELSE EncodeInteger(v, t.size)

RECURSIVE ScaleEncode(_, _)
EncodeElementOfTuple(types, v) == FlattenSeq([i \in 1..Len(v) |-> ScaleEncode(types[i], v[i])])
TryEncodeAsOneOfVariant(types, v) == <<v.index>> \o ScaleEncode(types[v.index + 1], v.value)
EncodeArray(of, v) == EncodeElementOfTuple([i \in 1..Len(v) |-> of], v)
EncodeCollection(of, v) == EncodeCompactInteger(DigitsOf(Len(v))) \o EncodeArray(of, v)

ByteType == [kind |-> "integer", size |-> 1, signed |-> FALSE]

ScaleEncode(t, v) ==
    CASE t.kind = "compact" -> EncodeCompactInteger(v)
      [] t.kind \in {"bool", "integer"} -> EncodeIntegral(t, v)
      [] t.kind = "u256" -> ToBigEndian(v, Word)
      [] t.kind = "s256" -> ToBigEndian(S2U(v), Word)
      [] t.kind = "optional bool" -> EncodeOptionalBool(v)
      [] t.kind = "optional" -> IF v = <<>> THEN <<0>> ELSE <<1>> \o ScaleEncode(t.of, v[1])
      [] t.kind \in {"vector", "map"} -> EncodeCollection(t.of, v)
      [] t.kind \in {"bytes", "fixed bytes"} -> EncodeCollection(ByteType, v)
      [] t.kind = "tuple" -> EncodeElementOfTuple(t.of, v)
      [] t.kind = "array" -> EncodeArray(t.of, v)
      [] t.kind = "variant" -> TryEncodeAsOneOfVariant(t.of, v)

-----------------------------------------------------------------------------
(* ScaleDecoderStream                                                      *)

NextByte(s, at) == IF HasMore(s, at, 1) THEN Ok(s[at + 1], at + 1) ELSE Fail("throw")

\* a byte that must be one of the values of f
DecodeEnum(s, at, f) ==
    LET b == NextByte(s, at)
    IN  IF b.status # "ok" THEN b
        ELSE IF b.value \notin DOMAIN f THEN Fail("throw") ELSE Ok(f[b.value], b.at)
DecodeBool(s, at) == DecodeEnum(s, at, [b \in 0..1 |-> b = 1])
DecodeOptionalBool(s, at) == DecodeEnum(s, at, [b \in 0..2 |-> IF b = 0 THEN <<>> ELSE <<b = 1>>])

\* n bytes at once, without a test that they are there
TakeBytes(s, at, n) ==
    IF HasMore(s, at, n) THEN Ok(SubSeq(s, at + 1, at + n), at + n) ELSE Fail("abort")

Then(r, Value(_)) == IF r.status = "ok" THEN Ok(Value(r.value), r.at) ELSE r

DecodeU256(s, at) == Then(TakeBytes(s, at, Word), LAMBDA d : FromBigEndian(d, Word))

\* a vector of bytes is read at once
DecodeBytesShort(s, at) ==
    LET size == DecodeCompactInteger(s, at)
    IN  IF size.status # "ok" THEN size
        ELSE TakeBytes(s, size.at, Min({NatOf(size.value), Len(s) - size.at}))
DecodeBytes(s, at) ==
    LET size == DecodeCompactInteger(s, at)
    IN  IF size.status # "ok" THEN size ELSE TakeBytes(s, size.at, NatOf(size.value))

DecodeFixedBytes(s, at, n) ==
    LET d == DecodeBytes(s, at)
    IN  IF d.status = "ok" /\ Len(d.value) < n THEN Fail("throw")
        ELSE Then(d, LAMBDA x : SubSeq(x, 1, n))

\* map.emplace keeps the first of two pairs with one key
FirstOfKey(pairs) ==
    FoldLeft(LAMBDA kept, p : IF \E i \in 1..Len(kept) : kept[i][1] = p[1] THEN kept ELSE Append(kept, p),
             <<>>, pairs)

RECURSIVE ScaleDecode(_, _, _)

\* the values of the types, one after the other
DecodeElementOfTuple(types, s, at) ==
    FoldLeft(LAMBDA r, u :
                IF r.status # "ok" THEN r
                ELSE LET x == ScaleDecode(u, s, r.at)
                     IN  IF x.status = "ok" THEN Ok(Append(r.value, x.value), x.at) ELSE x,
             Ok(<<>>, at), types)

DecodeVector(of, s, at) ==
    LET size == DecodeCompactInteger(s, at)
    IN  IF size.status # "ok" THEN size
        ELSE DecodeElementOfTuple([i \in 1..NatOf(size.value) |-> of], s, size.at)
DecodeMap(of, s, at) == Then(DecodeVector(of, s, at), FirstOfKey)
DecodeArray(of, n, s, at) == DecodeElementOfTuple([i \in 1..n |-> of], s, at)

DecodeOptional(of, s, at) ==
    LET has == DecodeBool(s, at)
    IN  IF has.status # "ok" THEN has
        ELSE IF has.value THEN Then(ScaleDecode(of, s, has.at), LAMBDA x : <<x>>)
        ELSE Ok(<<>>, has.at)

TryDecodeAsOneOfVariant(types, s, at) ==
    LET index == NextByte(s, at)
    IN  IF index.status # "ok" THEN index
        ELSE IF index.value >= Len(types) THEN Fail("throw")
        ELSE Then(ScaleDecode(types[index.value + 1], s, index.at),
                  LAMBDA x : [index |-> index.value, value |-> x])

ScaleDecode(t, s, at) ==
    CASE t.kind = "compact" -> DecodeCompactInteger(s, at)
      [] t.kind = "bool" -> DecodeBool(s, at)
      [] t.kind = "integer" -> DecodeInteger(s, at, t.size, t.signed)
      [] t.kind = "u256" -> DecodeU256(s, at)
      [] t.kind = "s256" -> Then(DecodeU256(s, at), U2S)
      [] t.kind = "optional bool" -> DecodeOptionalBool(s, at)
      [] t.kind = "optional" -> DecodeOptional(t.of, s, at)
      [] t.kind = "vector" -> DecodeVector(t.of, s, at)
      [] t.kind = "map" -> DecodeMap(t.of, s, at)
      [] t.kind = "bytes" -> DecodeBytes(s, at)
      [] t.kind = "fixed bytes" -> DecodeFixedBytes(s, at, t.size)
      [] t.kind = "tuple" -> DecodeElementOfTuple(t.of, s, at)
      [] t.kind = "array" -> DecodeArray(t.of, t.size, s, at)
      [] t.kind = "variant" -> TryDecodeAsOneOfVariant(t.of, s, at)
=============================================================================

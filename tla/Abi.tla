--------------------------------- MODULE Abi ---------------------------------
(***************************************************************************)
(* libcodec/abi/ContractABICodec: Solidity ABI encoding and decoding.      *)
(*                                                                         *)
(* A type is a record with a kind; an array has a size and the type of its *)
(* elements, a vector that type, a tuple the sequence of its types.  A     *)
(* value is an unsigned or signed integer of DataConvert, a boolean, a     *)
(* sequence of bytes, or the sequence of the values of the elements.       *)
(* Decoding gives <<value>>, or <<>> when an offset is not valid.          *)
(***************************************************************************)
EXTENDS FixedBytes

\* remove_dimension and ABIDynamicType: every tuple counts as dynamic
RECURSIVE RemoveDimension(_)
RemoveDimension(t) == IF t.kind = "array" THEN RemoveDimension(t.of) ELSE t
ABIDynamicType(t) == RemoveDimension(t).kind \in {"bytes", "string", "vector", "tuple"}

\* Length: the words of a type in the fixed part
RECURSIVE LengthOf(_)
LengthOf(t) == IF t.kind = "array" /\ ~ABIDynamicType(t) THEN t.size * LengthOf(t.of) ELSE 1

\* Offset: the words of the first n types together
OffsetOf(types, n) == FoldLeft(LAMBDA sum, t : sum + LengthOf(t), 0, SubSeq(types, 1, n))

WordOf(n) == ToBigEndian(DigitsOf(n), Word)

-----------------------------------------------------------------------------
(* Encoding                                                                *)

\* the fixed parts, with the offsets of the dynamic ones counted from start,
\* and behind them the dynamic parts
FixedAndDynamic(types, outs, start) ==
    LET Dynamic(n) == FlattenSeq([i \in 1..n |-> IF ABIDynamicType(types[i]) THEN outs[i] ELSE <<>>])
        Fixed == [i \in 1..Len(outs) |->
                    IF ABIDynamicType(types[i]) THEN WordOf(start + Len(Dynamic(i - 1))) ELSE outs[i]]
    IN  FlattenSeq(Fixed) \o Dynamic(Len(outs))

\* length, and the bytes filled up to whole words
SerialiseBytes(v) == WordOf(Len(v)) \o v \o Zeros(((Len(v) + 31) \div Word) * Word - Len(v))

RECURSIVE Serialise(_, _)
SerialiseAll(types, v) ==
    FixedAndDynamic(types, [i \in 1..Len(v) |-> Serialise(types[i], v[i])], Len(v) * Word)
SerialiseArray(of, v) == SerialiseAll([i \in 1..Len(v) |-> of], v)
SerialiseVector(of, v) == WordOf(Len(v)) \o SerialiseArray(of, v)
Serialise(t, v) ==
    CASE t.kind = "uint" -> FromArith(v, Word)
      [] t.kind = "int" -> FromArith(S2U(v), Word)
      [] t.kind = "bool" -> WordOf(IF v THEN 1 ELSE 0)
      [] t.kind = "address" -> Zeros(12) \o v
      [] t.kind = "string32" -> v
      [] t.kind \in {"bytes", "string"} -> SerialiseBytes(v)
      [] t.kind = "array" -> SerialiseArray(t.of, v)
      [] t.kind = "vector" -> SerialiseVector(t.of, v)
      [] t.kind = "tuple" -> SerialiseAll(t.of, v)

\* abiIn: the selector, <<>> without a signature, then the arguments, which
\* start behind all the fixed parts
AbiInFlat(selector, types, v) ==
    selector \o FixedAndDynamic(types, [i \in 1..Len(v) |-> Serialise(types[i], v[i])], Len(types) * Word)
AbiIn(selector, types, v) ==
    selector \o FixedAndDynamic(types, [i \in 1..Len(v) |-> Serialise(types[i], v[i])],
                                OffsetOf(types, Len(types)) * Word)

-----------------------------------------------------------------------------
(* Decoding                                                                *)

\* the number in the word at an offset, after validOffset
WordAt(data, at) ==
    IF at + Word > Len(data) THEN <<>> ELSE << FromBigEndian(SubSeq(data, at + 1, at + Word), Word) >>

\* int256: what is above 0x8fff...ff is negative
SignedOfWord(u) == IF Digit(u, Word) > 143 THEN Signed(TRUE, Negated(u)) ELSE Signed(FALSE, u)

\* bytes and string: the length in the first word, then that many bytes
DeserialiseBytes(data, at) ==
    LET length == WordAt(data, at)
    IN  IF length = <<>> \/ at + Word + NatOf(length[1]) > Len(data) THEN <<>>
        ELSE << SubSeq(data, at + Word + 1, at + Word + NatOf(length[1])) >>

RECURSIVE Deserialise(_, _, _)

\* the elements of an array, vector or tuple, or the arguments: each in its
\* fixed part, or where its offset from base says
DeserialiseAll(types, data, base) ==
    LET FixedAt(i) == base + OffsetOf(types, i - 1) * Word
        Element(i) ==
            IF ~ABIDynamicType(types[i]) THEN Deserialise(types[i], data, FixedAt(i))
            ELSE LET offset == WordAt(data, FixedAt(i))
                 IN  IF offset = <<>> THEN <<>>
                     ELSE Deserialise(types[i], data, base + NatOf(offset[1]))
        elements == [i \in 1..Len(types) |-> Element(i)]
    IN  IF \E i \in 1..Len(types) : elements[i] = <<>> THEN <<>>
        ELSE << [i \in 1..Len(types) |-> elements[i][1]] >>

DeserialiseVector(of, data, at) ==
    LET length == WordAt(data, at)
    IN  IF length = <<>> THEN <<>>
        ELSE DeserialiseAll([i \in 1..NatOf(length[1]) |-> of], data, at + Word)

\* a type that is one word, as Value says
OfWord(data, at, Value(_)) ==
    LET u == WordAt(data, at) IN IF u = <<>> THEN <<>> ELSE << Value(u[1]) >>

Deserialise(t, data, at) ==
    CASE t.kind = "uint" -> WordAt(data, at)
      [] t.kind = "int" -> OfWord(data, at, SignedOfWord)
      [] t.kind = "bool" -> OfWord(data, at, LAMBDA u : u # <<0>>)
      [] t.kind = "address" -> OfWord(data, at, AsAddress)
      [] t.kind = "string32" -> OfWord(data, at, LAMBDA u : FromArith(u, Word))
      [] t.kind \in {"bytes", "string"} -> DeserialiseBytes(data, at)
      [] t.kind = "array" -> DeserialiseAll([i \in 1..t.size |-> t.of], data, at)
      [] t.kind = "vector" -> DeserialiseVector(t.of, data, at)
      [] t.kind = "tuple" -> DeserialiseAll(t.of, data, at)

\* abiOut; <<>> stands for the result false
AbiOut(types, data) == DeserialiseAll(types, data, 0)

\* abiOutByFuncSelector: the values up to the first type it does not know, one
\* word further for each
FuncSelectorTypes == {"int", "uint", "address", "string"}
AbiOutByFuncSelector(types, data) ==
    LET known == SelectInSeq(types, LAMBDA t : t.kind \notin FuncSelectorTypes)
    IN  DeserialiseAll(IF known = 0 THEN types ELSE SubSeq(types, 1, known - 1), data, 0)
=============================================================================

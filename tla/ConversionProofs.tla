-------------------------- MODULE ConversionProofs --------------------------
(***************************************************************************)
(* The conversions of libutilities, RefDataContainer and AMOPRequest, for  *)
(* every input: messages, hexadecimal text, big-endian bytes and two's     *)
(* complement read back as what they were made from, and populate copies   *)
(* its source.  The compact integers of the SCALE codec read back too.     *)
(***************************************************************************)
EXTENDS RefData, ScaleInteger, SequenceTheorems, WellFoundedInduction, TLAPS

\* a set of natural numbers has a least one: the argument by the smallest counterexample
LEMMA LeastNatural ==
    ASSUME NEW T \in SUBSET Nat, T # {}
    PROVE  \E x \in T : \A y \in T : x <= y
  <1> DEFINE R == OpToRel(<, Nat)
  <1>1. IsWellFoundedOn(R, Nat)
    BY NatLessThanWellFounded, ZenonT(30)
  <1>2. PICK x \in T : \A y \in T : ~ (<<y, x>> \in R)
    <2> HIDE DEF R
    <2> QED
      BY <1>1, WFMin, ZenonT(30)
  <1>3. \A y \in T : ~ (y < x)
    BY <1>2, ZenonT(30) DEF OpToRel
  <1> QED
    BY <1>3

\* a bounded set of natural numbers has a largest one
LEMMA MaxOfBounded ==
    ASSUME NEW D \in SUBSET Nat, D # {}, NEW n \in Nat, \A k \in D : k <= n
    PROVE  Max(D) \in D /\ \A k \in D : k <= Max(D)
  <1> DEFINE bounds == {m \in Nat : \A k \in D : k <= m}
  <1>1. PICK m \in bounds : \A b \in bounds : m <= b
    <2>1. bounds \in SUBSET Nat /\ n \in bounds
      OBVIOUS
    <2> QED
      BY <2>1, LeastNatural, ZenonT(30)
  <1>2. m \in D
    <2> SUFFICES ASSUME m \notin D PROVE FALSE
      OBVIOUS
    <2>1. m \in Nat /\ \A k \in D : k \in Nat /\ k < m
      BY <1>1
    <2>2. m - 1 \in bounds
      <3>1. PICK k \in D : k \in Nat /\ k < m
        BY <2>1, ZenonT(30)
      <3>2. m - 1 \in Nat /\ \A j \in D : j <= m - 1
        BY <2>1, <3>1
      <3> QED
        BY <3>2
    <2> QED
      BY <1>1, <2>1, <2>2
  <1>3. \A k \in D : m >= k
    BY <1>1
  <1> QED
    BY <1>2, <1>3, ZenonT(30) DEF Max

-----------------------------------------------------------------------------
(* AMOP messages                                                           *)

\* The elements of a concatenation, by the half they come from.
LEMMA ConcatAt ==
    ASSUME NEW S, NEW s \in Seq(S), NEW t \in Seq(S)
    PROVE  /\ s \o t \in Seq(S) /\ Len(s \o t) = Len(s) + Len(t)
           /\ \A i \in 1..Len(s) : (s \o t)[i] = s[i]
           /\ \A i \in 1..Len(t) : (s \o t)[Len(s) + i] = t[i]
  <1>1. Len(s) \in Nat /\ Len(t) \in Nat
    BY LenProperties
  <1>2. \A i \in 1..Len(s) + Len(t) : (s \o t)[i] = IF i <= Len(s) THEN s[i] ELSE t[i - Len(s)]
    BY ConcatProperties
  <1>3. ASSUME NEW i \in 1..Len(s) PROVE (s \o t)[i] = s[i]
    BY <1>1, <1>2
  <1>4. ASSUME NEW i \in 1..Len(t) PROVE (s \o t)[Len(s) + i] = t[i]
    BY <1>1, <1>2
  <1> QED
    BY <1>3, <1>4, ConcatProperties

\* A topic length fits the two bytes encode writes for it.
LEMMA TwoBytes ==
    ASSUME NEW n \in Nat, n <= 65535
    PROVE  n \div 256 \in Byte /\ n % 256 \in Byte /\ 256 * (n \div 256) + (n % 256) = n
  <1>1. n \div 256 \in 0..255
    OBVIOUS
  <1>2. n % 256 \in 0..255
    OBVIOUS
  <1>3. 256 * (n \div 256) + (n % 256) = n
    OBVIOUS
  <1> QED
    BY <1>1, <1>2, <1>3 DEF Byte

\* The parts of an encoded message: two bytes, the topic, the data.
LEMMA SeqParts ==
    ASSUME NEW S, NEW a \in S, NEW b \in S, NEW t \in Seq(S), NEW d \in Seq(S)
    PROVE  LET s == <<a, b>> \o t \o d
           IN  /\ s \in Seq(S) /\ Len(s) = 2 + Len(t) + Len(d)
               /\ s[1] = a /\ s[2] = b
               /\ \A i \in 1..Len(t) : s[2 + i] = t[i]
               /\ \A i \in 1..Len(d) : s[2 + Len(t) + i] = d[i]
  <1>1. PICK h : h = <<a, b>>
    BY ZenonT(30)
  <1>2. h \in Seq(S) /\ Len(h) = 2 /\ h[1] = a /\ h[2] = b
    BY <1>1
  <1>3. PICK ht : ht = h \o t
    BY ZenonT(30)
  <1>4. /\ ht \in Seq(S) /\ Len(ht) = 2 + Len(t)
        /\ \A i \in 1..2 : ht[i] = h[i]
        /\ \A i \in 1..Len(t) : ht[2 + i] = t[i]
    <2>0. h \in Seq(S)
      BY <1>2
    <2>1. Len(h \o t) = Len(h) + Len(t) /\ h \o t \in Seq(S)
      BY <1>2, ConcatAt, ZenonT(30)
    <2>2. \A i \in 1..Len(h) : (h \o t)[i] = h[i]
      BY <1>2, ConcatAt, ZenonT(30)
    <2>3. \A i \in 1..Len(t) : (h \o t)[Len(h) + i] = t[i]
      BY <2>0, ConcatAt
    <2> QED
      BY <1>2, <1>3, <2>1, <2>2, <2>3
  <1>5. PICK s : s = ht \o d
    BY ZenonT(30)
  <1>6. /\ s \in Seq(S) /\ Len(s) = Len(ht) + Len(d)
        /\ \A i \in 1..Len(ht) : s[i] = ht[i]
        /\ \A i \in 1..Len(d) : s[Len(ht) + i] = d[i]
    <2>1. Len(ht \o d) = Len(ht) + Len(d) /\ ht \o d \in Seq(S)
      BY <1>4, ConcatAt, ZenonT(30)
    <2>2. \A i \in 1..Len(ht) : (ht \o d)[i] = ht[i]
      BY <1>4, ConcatAt
    <2>3. \A i \in 1..Len(d) : (ht \o d)[Len(ht) + i] = d[i]
      BY <1>4, ConcatAt
    <2> QED
      BY <1>5, <2>1, <2>2, <2>3
  <1>7. Len(t) \in Nat /\ Len(d) \in Nat
    BY LenProperties
  <1>8. s[1] = a /\ s[2] = b
    BY <1>2, <1>4, <1>6, <1>7
  <1>9. ASSUME NEW i \in 1..Len(t) PROVE s[2 + i] = t[i]
    BY <1>4, <1>6, <1>7
  <1> QED
    BY <1>1, <1>3, <1>4, <1>5, <1>6, <1>7, <1>8, <1>9

\* AMOPRequest::decode on bytes that hold the topic they announce.
LEMMA AmopDecoded ==
    ASSUME NEW bytes, NEW t, 256 * bytes[1] + bytes[2] = t,
           ~ (Len(bytes) < MessageMinLength), ~ (2 + t > Len(bytes))
    PROVE  AmopDecode(bytes) =
            [returned |-> Len(bytes), topic |-> SubSeq(bytes, 3, 2 + t),
             data |-> GetCroppedTail(Ref(1, Len(bytes)), 2 + t)]
  BY Zenon DEF AmopDecode

\* sent is what AMOPRequest::encode appends for a topic that fits, and cut its
\* first n bytes; what decode does with them
IsCut(topic, data, sent, n, cut) ==
    /\ Len(topic) <= TopicMaxLength /\ sent = AmopEncode(topic, data)[1]
    /\ n \in 0..Len(sent) /\ cut = SubSeq(sent, 1, n)

DecodesCut(topic, n, cut) ==
    /\ n < Len(topic) + 2 => AmopDecode(cut).returned < 0
    /\ n >= Len(topic) + 2 =>
            AmopDecode(cut) = [returned |-> n, topic |-> topic,
                               data |-> Ref(Len(topic) + 3, n - Len(topic) - 2)]

\* decode refuses a cut inside the topic and takes one behind it.
LEMMA AmopPrefix ==
    ASSUME NEW topic \in Seq(Byte), NEW data \in Seq(Byte), NEW sent, NEW n, NEW cut,
           IsCut(topic, data, sent, n, cut)
    PROVE  DecodesCut(topic, n, cut)
  <1> DEFINE a == Len(topic) \div 256
             b == Len(topic) % 256
  <1>0. n \in 0..Len(sent) /\ cut = SubSeq(sent, 1, n)
    BY DEF IsCut
  <1>1. Len(topic) \in Nat /\ Len(topic) <= 65535 /\ Len(data) \in Nat
    BY LenProperties DEF IsCut, TopicMaxLength
  <1>2. a \in Byte /\ b \in Byte /\ 256 * a + b = Len(topic)
    BY <1>1, TwoBytes
  <1>3. sent = <<a, b>> \o topic \o data
    BY <1>1, SMTT(30) DEF AmopEncode, TopicMaxLength, IsCut
  <1>4. /\ sent \in Seq(Byte) /\ Len(sent) = 2 + Len(topic) + Len(data)
        /\ sent[1] = a /\ sent[2] = b
        /\ \A i \in 1..Len(topic) : sent[2 + i] = topic[i]
    BY <1>2, <1>3, SeqParts
  <1> HIDE DEF a, b
  <1>5. cut \in Seq(Byte) /\ Len(cut) = n /\ \A i \in 1..n : cut[i] = sent[i]
    BY <1>0, <1>4, SubSeqProperties, ElementOfSeq
  <1>6. n >= 2 => cut[1] = a /\ cut[2] = b
    <2>1. n >= 2 => 1 \in 1..n /\ 2 \in 1..n
      BY <1>0, <1>4
    <2> QED
      BY <1>4, <1>5, <2>1
  <1>7. CASE n < 2
    <2>1. AmopDecode(cut) = [returned |-> -1]
      BY <1>5, <1>7 DEF AmopDecode, MessageMinLength
    <2>2. AmopDecode(cut).returned < 0
      BY <2>1
    <2> QED
      BY <1>0, <1>1, <1>7, <2>2 DEF DecodesCut
  <1>8. CASE n >= 2 /\ n < Len(topic) + 2
    <2>1. 256 * cut[1] + cut[2] = Len(topic)
      BY <1>2, <1>8, <1>6
    <2>2. AmopDecode(cut) = [returned |-> -2]
      BY <1>1, <1>5, <1>8, <2>1 DEF AmopDecode, MessageMinLength
    <2>3. AmopDecode(cut).returned < 0
      BY <2>2
    <2> QED
      BY <1>0, <1>1, <1>8, <2>3 DEF DecodesCut
  <1>9. CASE n >= Len(topic) + 2
    <2>1. 256 * cut[1] + cut[2] = Len(topic)
      BY <1>0, <1>1, <1>2, <1>4, <1>6, <1>9
    <2>2. SubSeq(cut, 3, 2 + Len(topic)) = topic
      <3>1. /\ SubSeq(cut, 3, 2 + Len(topic)) \in Seq(Byte) /\ Len(SubSeq(cut, 3, 2 + Len(topic))) = Len(topic)
            /\ \A i \in 1..Len(topic) : SubSeq(cut, 3, 2 + Len(topic))[i] = cut[2 + i]
        BY <1>1, <1>5, <1>9, SubSeqProperties
      <3>2. ASSUME NEW i \in 1..Len(topic) PROVE SubSeq(cut, 3, 2 + Len(topic))[i] = topic[i]
        <4>1. 2 + i \in 1..n
          BY <1>0, <1>1, <1>9
        <4> QED
          BY <1>4, <1>5, <3>1, <4>1
      <3> QED
        BY <3>1, <3>2, SeqEqual, ZenonT(30)
    <2>3. GetCroppedTail(Ref(1, n), 2 + Len(topic)) = Ref(Len(topic) + 3, n - Len(topic) - 2)
      BY <1>0, <1>1, <1>9 DEF GetCroppedTail, GetCroppedData, Ref
    <2>4. AmopDecode(cut) = [returned |-> n, topic |-> topic, data |-> Ref(Len(topic) + 3, n - Len(topic) - 2)]
      <3>1. ~ (Len(cut) < MessageMinLength) /\ ~ (2 + Len(topic) > Len(cut))
        BY <1>1, <1>5, <1>9 DEF MessageMinLength
      <3>2. AmopDecode(cut) =
                [returned |-> Len(cut), topic |-> SubSeq(cut, 3, 2 + Len(topic)),
                 data |-> GetCroppedTail(Ref(1, Len(cut)), 2 + Len(topic))]
        BY <2>1, <3>1, AmopDecoded
      <3> QED
        BY <1>5, <2>2, <2>3, <3>2, ZenonT(30)
    <2> QED
      BY <1>0, <1>1, <1>9, <2>4 DEF DecodesCut
  <1> QED
    BY <1>0, <1>1, <1>4, <1>7, <1>8, <1>9

\* AMOPRequest, for every topic and every data: encode refuses exactly the topics
\* whose length does not fit two bytes, decode gives topic and data back, and of
\* a message cut short anywhere it takes exactly those whose topic is whole.
THEOREM AmopMessagesReadBack ==
    \A topic, data \in Seq(Byte) :
        AmopReadsBack(topic, data) /\ \A n \in Nat : AmopCutAt(topic, data, n)
  <1> SUFFICES ASSUME NEW topic \in Seq(Byte), NEW data \in Seq(Byte)
               PROVE  AmopReadsBack(topic, data) /\ \A n \in Nat : AmopCutAt(topic, data, n)
    OBVIOUS
  <1> DEFINE encoded == AmopEncode(topic, data)
             sent == encoded[1]
             t == Len(topic)
  <1>1. t \in Nat /\ Len(data) \in Nat
    BY LenProperties
  <1>2. encoded = <<>> <=> t > TopicMaxLength
    <2>1. \A x : <<x>> # <<>>
      OBVIOUS
    <2> QED
      BY <2>1, Zenon DEF AmopEncode
  <1>3. CASE t > TopicMaxLength
    BY <1>2, <1>3, Zenon DEF AmopReadsBack, AmopCutAt
  <1>4. CASE ~ (t > TopicMaxLength)
    <2>1. t <= TopicMaxLength
      BY <1>1, <1>4 DEF TopicMaxLength
    <2>2. ASSUME NEW n \in 0..Len(sent)
          PROVE  DecodesCut(topic, n, SubSeq(sent, 1, n))
      <3>1. IsCut(topic, data, sent, n, SubSeq(sent, 1, n))
        BY <2>1, Zenon DEF IsCut
      <3> QED
        BY <3>1, AmopPrefix, Zenon
    <2> DEFINE l == Len(sent)
    <2>3. /\ sent \in Seq(Byte) /\ l = 2 + t + Len(data)
          /\ \A i \in 1..Len(data) : sent[2 + t + i] = data[i]
      <3>1. t \div 256 \in Byte /\ t % 256 \in Byte
        BY <1>1, <2>1, TwoBytes DEF TopicMaxLength
      <3>2. sent = <<t \div 256, t % 256>> \o topic \o data
        BY <1>4 DEF AmopEncode
      <3> QED
        BY <3>1, <3>2, SeqParts, SMTT(30)
    <2>4. SubSeq(sent, 1, l) = sent
      BY <2>3, SubSeqFull
    <2>5. AmopDecode(sent) = [returned |-> l, topic |-> topic, data |-> Ref(t + 3, Len(data))]
      <3>1. l \in 0..l /\ l >= t + 2 /\ l - t - 2 = Len(data)
        BY <1>1, <2>3
      <3> HIDE DEF l
      <3>2. AmopDecode(SubSeq(sent, 1, l)) =
                [returned |-> l, topic |-> topic, data |-> Ref(t + 3, l - t - 2)]
        BY <2>2, <3>1 DEF l, DecodesCut
      <3> QED
        BY <2>4, <3>1, <3>2, ZenonT(30)
    <2>6. RefBytes(sent, Ref(t + 3, Len(data))) = data
      <3>1. RefBytes(sent, Ref(t + 3, Len(data))) = SubSeq(sent, t + 3, l)
        BY <1>1, <2>3 DEF RefBytes, Ref, EndOf
      <3>2. ASSUME NEW i \in t + 3..l PROVE sent[i] \in Byte
        BY <1>1, <2>3, ElementOfSeq
      <3>3. /\ SubSeq(sent, t + 3, l) \in Seq(Byte) /\ Len(SubSeq(sent, t + 3, l)) = Len(data)
            /\ \A i \in 1..Len(data) : SubSeq(sent, t + 3, l)[i] = sent[t + 2 + i]
        BY <1>1, <2>3, <3>2, SubSeqProperties
      <3>4. \A i \in 1..Len(data) : SubSeq(sent, t + 3, l)[i] = data[i]
        BY <1>1, <2>3, <3>3
      <3> QED
        BY <3>1, <3>3, <3>4, SeqEqual, ZenonT(30)
    <2>7. AmopReadsBack(topic, data)
      <3>1. /\ AmopDecode(sent).returned = l
            /\ AmopDecode(sent).topic = topic
            /\ AmopDecode(sent).data = Ref(t + 3, Len(data))
        BY <2>5
      <3> QED
        BY <1>2, <2>6, <3>1, Zenon DEF AmopReadsBack
    <2>8. ASSUME NEW n \in Nat, n < l
          PROVE  AmopDecode(SubSeq(sent, 1, n)).returned < 0 <=> n < t + 2
      <3>1. n \in 0..l
        BY <1>1, <2>3, <2>8
      <3>2. CASE n < t + 2
        BY <2>2, <3>1, <3>2, ZenonT(30) DEF DecodesCut
      <3>3. CASE ~ (n < t + 2)
        <4>1. n >= t + 2
          BY <1>1, <3>3
        <4>2. AmopDecode(SubSeq(sent, 1, n)) =
                [returned |-> n, topic |-> topic, data |-> Ref(t + 3, n - t - 2)]
          BY <2>2, <3>1, <4>1 DEF DecodesCut
        <4>3. AmopDecode(SubSeq(sent, 1, n)).returned = n
          BY <4>2
        <4> QED
          BY <3>3, <4>3
      <3> QED
        BY <3>2, <3>3
    <2> QED
      BY <2>7, <2>8, Zenon DEF AmopCutAt
  <1> QED
    BY <1>3, <1>4

-----------------------------------------------------------------------------
(* Hexadecimal text                                                        *)

\* toHexString writes characters that fromHexString reads as the same digit.
LEMMA HexDigits ==
    ASSUME NEW n \in 0..15
    PROVE  /\ HexChars[n + 1] \in Range(HexChars) /\ HexChars[n + 1] # "x"
           /\ ConvertCharToHexNumber(HexChars[n + 1]) = n
  <1>1. DOMAIN HexChars = 1..16
    BY DEF HexChars
  <1>2. ASSUME NEW i \in 1..16, NEW j \in 1..16, HexChars[i] = HexChars[j] PROVE i = j
    BY <1>2, SMTT(60) DEF HexChars
  <1>3. \A i \in 1..16 : HexChars[i] # "x"
    BY DEF HexChars
  <1>4. Range(HexChars) = {HexChars[i] : i \in 1..16}
    BY <1>1 DEF Range
  <1> HIDE DEF HexChars
  <1>5. n + 1 \in 1..16
    OBVIOUS
  <1>6. HexChars[n + 1] \in Range(HexChars)
    BY <1>4, <1>5
  <1>7. (CHOOSE i \in 1..16 : HexChars[i] = HexChars[n + 1]) = n + 1
    BY <1>2, <1>5
  <1> QED
    <2>1. ConvertCharToHexNumber(HexChars[n + 1]) = (n + 1) - 1
      BY <1>6, <1>7, Zenon DEF ConvertCharToHexNumber
    <2> QED
      BY <1>3, <1>5, <1>6, <2>1

\* The prefix fromHexString skips is a 0 and an x in front.
LEMMA PrefixTest ==
    ASSUME NEW S, NEW s \in Seq(S)
    PROVE  StartsWith(s, HexPrefix) <=> Len(s) >= 2 /\ s[1] = "0" /\ s[2] = "x"
  <1>1. Len(HexPrefix) = 2 /\ HexPrefix[1] = "0" /\ HexPrefix[2] = "x"
    BY DEF HexPrefix
  <1>2. 1..2 = {1, 2} /\ Len(s) \in Nat
    BY LenProperties
  <1> QED
    BY <1>1, <1>2 DEF StartsWith

\* fromHexString of an even number of hexadecimal digits behind a prefix or none.
LEMMA EvenDigits ==
    ASSUME NEW s, NEW st \in Nat, st = (IF StartsWith(s, HexPrefix) THEN 2 ELSE 0),
           Len(s) % 2 = 0, \A i \in st + 1..Len(s) : ConvertCharToHexNumber(s[i]) # -1
    PROVE  FromHexString(s) =
            <<>> \o [i \in 1..(Len(s) - st) \div 2 |->
                        16 * ConvertCharToHexNumber(s[st + 2 * i - 1]) + ConvertCharToHexNumber(s[st + 2 * i])]
  <1> DEFINE C(i) == ConvertCharToHexNumber(s[i])
             p == IF StartsWith(s, HexPrefix) THEN 2 ELSE 0
             odd == Len(s) % 2
  <1>1. FromHexString(s) =
            IF \E i \in p + 1..Len(s) : C(i) = -1 THEN <<-1>>
            ELSE [i \in 1..odd |-> C(p + odd)] \o
                 [i \in 1..(Len(s) - (p + odd)) \div 2 |->
                    16 * C(p + odd + 2 * i - 1) + C(p + odd + 2 * i)]
    BY Zenon DEF FromHexString
  <1>2. p = st /\ odd = 0 /\ st + 0 = st
    OBVIOUS
  <1> HIDE DEF p, odd, C
  <1>3. FromHexString(s) =
            [i \in 1..0 |-> C(st)] \o [i \in 1..(Len(s) - st) \div 2 |-> 16 * C(st + 2 * i - 1) + C(st + 2 * i)]
    <2>1. ~ \E i \in st + 1..Len(s) : C(i) = -1
      BY DEF C
    <2> QED
      BY <1>1, <1>2, <2>1, Zenon
  <1>4. [i \in 1..0 |-> C(st)] = <<>>
    OBVIOUS
  <1> QED
    BY <1>3, <1>4, Zenon DEF C

\* toHexString, character by character.
LEMMA HexText ==
    ASSUME NEW b \in Seq(Byte), NEW p \in {<<>>, HexPrefix}
    PROVE  LET s == ToHexString(b, p)
               C(i) == ConvertCharToHexNumber(s[i])
           IN  /\ s \in Seq(Range(HexChars) \cup {"x"}) /\ Len(s) = Len(p) + 2 * Len(b)
               /\ p = HexPrefix => s[1] = "0" /\ s[2] = "x"
               /\ \A i \in Len(p) + 1..Len(s) : s[i] # "x" /\ C(i) # -1
               /\ \A i \in 1..Len(b) : 16 * C(Len(p) + 2 * i - 1) + C(Len(p) + 2 * i) = b[i]
  <1> DEFINE Chars == Range(HexChars) \cup {"x"}
             N(i) == IF i % 2 = 1 THEN b[(i + 1) \div 2] \div 16 ELSE b[i \div 2] % 16
             h == [i \in 1..2 * Len(b) |-> HexChars[1 + N(i)]]
  <1>1. Len(b) \in Nat /\ \A i \in 1..Len(b) : b[i] \in 0..255
    BY LenProperties, ElementOfSeq DEF Byte
  <1>2. ASSUME NEW i \in 1..2 * Len(b) PROVE N(i) \in 0..15
    <2>1. CASE i % 2 = 1
      <3>1. (i + 1) \div 2 \in 1..Len(b)
        BY <1>1, <2>1
      <3>2. \A x \in 0..255 : x \div 16 \in 0..15
        OBVIOUS
      <3> QED
        BY <1>1, <2>1, <3>1, <3>2, ZenonT(30)
    <2>2. CASE i % 2 # 1
      <3>1. i \div 2 \in 1..Len(b)
        BY <1>1, <2>2
      <3>2. \A x \in 0..255 : x % 16 \in 0..15
        OBVIOUS
      <3> QED
        BY <1>1, <2>2, <3>1, <3>2, ZenonT(30)
    <2> QED
      BY <2>1, <2>2
  <1>3. ASSUME NEW i \in 1..Len(b)
        PROVE  /\ N(2 * i - 1) = b[i] \div 16 /\ N(2 * i) = b[i] % 16
               /\ 16 * N(2 * i - 1) + N(2 * i) = b[i]
    <2>1. (2 * i - 1) % 2 = 1 /\ (2 * i - 1 + 1) \div 2 = i
      BY <1>1
    <2>2. (2 * i) % 2 = 0 /\ (2 * i) \div 2 = i
      BY <1>1
    <2>3. \A x \in 0..255 : 16 * (x \div 16) + (x % 16) = x
      OBVIOUS
    <2>4. N(2 * i - 1) = b[i] \div 16 /\ N(2 * i) = b[i] % 16
      BY <2>1, <2>2
    <2> QED
      BY <1>1, <2>3, <2>4, ZenonT(30)
  <1> HIDE DEF N
  <1>4. /\ h \in Seq(Chars) /\ Len(h) = 2 * Len(b)
        /\ \A i \in 1..2 * Len(b) : h[i] # "x" /\ ConvertCharToHexNumber(h[i]) = N(i)
    <2>1. ASSUME NEW i \in 1..2 * Len(b)
          PROVE  /\ HexChars[1 + N(i)] \in Chars /\ HexChars[1 + N(i)] # "x"
                 /\ ConvertCharToHexNumber(HexChars[1 + N(i)]) = N(i)
      <3>1. N(i) \in 0..15 /\ 1 + N(i) = N(i) + 1
        BY <1>2
      <3> QED
        BY <3>1, HexDigits, SMTT(30)
    <2>2. 2 * Len(b) \in Nat
      BY <1>1
    <2> QED
      BY <2>1, <2>2
  <1>5. p \in Seq(Chars) /\ Len(p) \in Nat /\ (p = HexPrefix => Len(p) = 2 /\ p[1] = "0" /\ p[2] = "x")
    <2>1. "0" \in Chars /\ "x" \in Chars
      <3>1. HexChars[0 + 1] \in Range(HexChars)
        BY HexDigits
      <3>2. HexChars[0 + 1] = "0"
        BY DEF HexChars
      <3> QED
        BY <3>1, <3>2
    <2> HIDE DEF Chars
    <2> QED
      <3>1. CASE p = <<>>
        BY <3>1 DEF HexPrefix
      <3>2. CASE p = HexPrefix
        BY <2>1, <3>2 DEF HexPrefix
      <3> QED
        BY <3>1, <3>2
  <1>6. PICK s : s = ToHexString(b, p)
    OBVIOUS
  <1>7. s = p \o h
    BY <1>6, Zenon DEF ToHexString, N
  <1> HIDE DEF h, Chars
  <1>8. /\ s \in Seq(Chars) /\ Len(s) = Len(p) + 2 * Len(b)
        /\ \A i \in 1..Len(p) : s[i] = p[i]
        /\ \A i \in 1..2 * Len(b) : s[Len(p) + i] = h[i]
    <2>1. /\ p \o h \in Seq(Chars) /\ Len(p \o h) = Len(p) + Len(h)
          /\ \A i \in 1..Len(p) : (p \o h)[i] = p[i]
          /\ \A i \in 1..Len(h) : (p \o h)[Len(p) + i] = h[i]
      <3>1. p \in Seq(Chars) /\ h \in Seq(Chars)
        BY <1>4, <1>5
      <3> QED
        BY <3>1, ConcatAt
    <2> QED
      BY <1>4, <1>7, <2>1
  <1>9. \A i \in 1..2 * Len(b) :
            s[Len(p) + i] # "x" /\ ConvertCharToHexNumber(s[Len(p) + i]) = N(i)
    BY <1>4, <1>8
  <1>10. ASSUME NEW i \in Len(p) + 1..Len(s)
         PROVE  s[i] # "x" /\ ConvertCharToHexNumber(s[i]) # -1
    <2>1. i - Len(p) \in 1..2 * Len(b) /\ Len(p) + (i - Len(p)) = i
      BY <1>1, <1>5, <1>8
    <2>2. N(i - Len(p)) # -1
      <3>1. N(i - Len(p)) \in 0..15
        BY <1>2, <2>1, SMTT(30)
      <3> QED
        BY <3>1, SMTT(30)
    <2> QED
      BY <1>9, <2>1, <2>2
  <1>11. ASSUME NEW i \in 1..Len(b)
         PROVE  16 * ConvertCharToHexNumber(s[Len(p) + 2 * i - 1]) +
                    ConvertCharToHexNumber(s[Len(p) + 2 * i]) = b[i]
    <2>1. 2 * i - 1 \in 1..2 * Len(b) /\ 2 * i \in 1..2 * Len(b)
      BY <1>1
    <2>2. Len(p) + (2 * i - 1) = Len(p) + 2 * i - 1
      BY <1>5
    <2> QED
      BY <1>3, <1>9, <2>1, <2>2, ZenonT(30)
  <1>12. ASSUME p = HexPrefix PROVE s[1] = "0" /\ s[2] = "x"
    <2>1. Len(p) = 2 /\ p[1] = "0" /\ p[2] = "x"
      BY <1>5, <1>12
    <2>2. 1 \in 1..Len(p) /\ 2 \in 1..Len(p)
      BY <2>1
    <2> QED
      BY <1>8, <2>1, <2>2
  <1> QED
    BY <1>6, <1>8, <1>10, <1>11, <1>12, Zenon DEF Chars

\* The digits behind the prefix are two for each byte.
LEMMA Halves ==
    ASSUME NEW n \in Nat, NEW l \in {0, 2}, NEW m, m = l + 2 * n
    PROVE  m % 2 = 0 /\ (m - l) \div 2 = n
  <1>1. CASE l = 0
    BY <1>1
  <1>2. CASE l = 2
    BY <1>2
  <1> QED
    BY <1>1, <1>2

\* libutilities/DataConvertUtility.h, for any bytes: what toHexString writes, with
\* the 0x in front or without, fromHexString reads back, the digits never taken
\* for a prefix; toHex and fromHex the same of at least one byte.
THEOREM HexTextReadsBack == \A b \in Seq(Byte) : \A p \in {<<>>, HexPrefix} : HexReadsBack(b, p)
  <1> SUFFICES ASSUME NEW b \in Seq(Byte), NEW p \in {<<>>, HexPrefix}
               PROVE  HexReadsBack(b, p)
    OBVIOUS
  <1> DEFINE Chars == Range(HexChars) \cup {"x"}
             Conv(c) == ConvertCharToHexNumber(c)
  <1>1. /\ Len(b) \in Nat /\ \A i \in 1..Len(b) : b[i] \in Byte
        /\ b = [i \in 1..Len(b) |-> b[i]]
    BY LenProperties, ElementOfSeq
  <1>2. ASSUME NEW q \in {<<>>, HexPrefix}
        PROVE  /\ FromHexString(ToHexString(b, q)) = b
               /\ q = <<>> => ~ StartsWith(ToHexString(b, q), HexPrefix)
    <2>1. PICK s : s = ToHexString(b, q)
      OBVIOUS
    <2>2. /\ s \in Seq(Chars) /\ Len(s) = Len(q) + 2 * Len(b)
          /\ q = HexPrefix => s[1] = "0" /\ s[2] = "x"
          /\ \A i \in Len(q) + 1..Len(s) : s[i] # "x" /\ Conv(s[i]) # -1
          /\ \A i \in 1..Len(b) : 16 * Conv(s[Len(q) + 2 * i - 1]) + Conv(s[Len(q) + 2 * i]) = b[i]
      BY <2>1, HexText, Zenon
    <2> HIDE DEF Chars, Conv
    <2>3. Len(q) \in {0, 2} /\ (q = <<>> => Len(q) = 0) /\ (q = HexPrefix => Len(q) = 2)
      BY DEF HexPrefix
    <2>4. StartsWith(s, HexPrefix) <=> Len(s) >= 2 /\ s[1] = "0" /\ s[2] = "x"
      BY <2>2, PrefixTest
    <2>5. ASSUME q = <<>> PROVE ~ StartsWith(s, HexPrefix)
      <3>1. Len(s) >= 2 => 2 \in Len(q) + 1..Len(s)
        BY <1>1, <2>2, <2>3, <2>5
      <3>2. Len(s) >= 2 => s[2] # "x"
        BY <2>2, <3>1, ZenonT(30)
      <3> QED
        BY <2>4, <3>2, ZenonT(30)
    <2>6. ASSUME q = HexPrefix PROVE StartsWith(s, HexPrefix)
      <3>1. Len(s) >= 2
        BY <1>1, <2>2, <2>3, <2>6, SMTT(30)
      <3> QED
        BY <2>2, <2>4, <2>6, <3>1, ZenonT(30)
    <2>7. Len(q) = IF StartsWith(s, HexPrefix) THEN 2 ELSE 0
      BY <2>3, <2>5, <2>6
    <2>8. Len(s) % 2 = 0 /\ (Len(s) - Len(q)) \div 2 = Len(b)
      <3>1. Len(b) \in Nat /\ Len(q) \in {0, 2} /\ Len(s) = Len(q) + 2 * Len(b)
        BY <1>1, <2>2, <2>3
      <3> QED
        BY <3>1, Halves, ZenonT(30)
    <2>9. FromHexString(s) =
            <<>> \o [i \in 1..(Len(s) - Len(q)) \div 2 |->
                        16 * Conv(s[Len(q) + 2 * i - 1]) + Conv(s[Len(q) + 2 * i])]
      <3>1. Len(q) \in Nat /\ \A i \in Len(q) + 1..Len(s) : ConvertCharToHexNumber(s[i]) # -1
        BY <2>2, <2>3 DEF Conv
      <3> QED
        BY <2>7, <2>8, <3>1, EvenDigits, ZenonT(30) DEF Conv
    <2>10. [i \in 1..Len(b) |-> 16 * Conv(s[Len(q) + 2 * i - 1]) + Conv(s[Len(q) + 2 * i])] = b
      BY <1>1, <2>2
    <2>11. <<>> \o b = b
      BY ConcatEmptySeq
    <2> QED
      BY <2>1, <2>5, <2>8, <2>9, <2>10, <2>11, Zenon
  <1>3. ASSUME b # <<>> PROVE FromHex(ToHex(b, p), p) = b
    <2>1. PICK u : u = ToHexString(b, <<>>)
      OBVIOUS
    <2>2. PICK s : s = ToHexString(b, p)
      OBVIOUS
    <2>3. /\ u \in Seq(Chars) /\ Len(u) = 2 * Len(b)
          /\ s \in Seq(Chars) /\ Len(s) = Len(p) + 2 * Len(b)
      <3>1. u \in Seq(Chars) /\ Len(u) = Len(<<>>) + 2 * Len(b)
        BY <2>1, HexText, Zenon
      <3>2. s \in Seq(Chars) /\ Len(s) = Len(p) + 2 * Len(b)
        BY <2>2, HexText, Zenon
      <3> QED
        BY <1>1, <3>1, <3>2
    <2> HIDE DEF Chars
    <2>4. p \in Seq({"0", "x"}) /\ Len(p) \in {0, 2}
      <3>1. CASE p = <<>>
        BY <3>1
      <3>2. CASE p = HexPrefix
        BY <3>2 DEF HexPrefix
      <3> QED
        BY <3>1, <3>2
    <2>5. s = p \o u
      <3> DEFINE h == [i \in 1..2 * Len(b) |->
                        HexChars[1 + (IF i % 2 = 1 THEN b[(i + 1) \div 2] \div 16 ELSE b[i \div 2] % 16)]]
      <3>1. s = p \o h /\ u = <<>> \o h
        BY <2>1, <2>2, Zenon DEF ToHexString
      <3> HIDE DEF h
      <3>2. \E S : h \in Seq(S)
        <4>1. h \in Seq({HexChars[1 + (IF i % 2 = 1 THEN b[(i + 1) \div 2] \div 16 ELSE b[i \div 2] % 16)] : i \in 1..2 * Len(b)})
          BY <1>1 DEF h
        <4> QED
          BY <4>1
      <3>3. <<>> \o h = h
        BY <3>2, ConcatEmptySeq
      <3> QED
        BY <3>1, <3>3
    <2>6. SubSeq(s, Len(p) + 1, Len(s)) = u
      <3> DEFINE T == Chars \cup {"0", "x"}
                 v == SubSeq(s, Len(p) + 1, Len(s))
      <3>1. p \in Seq(T) /\ u \in Seq(T)
        BY <2>3, <2>4
      <3> HIDE DEF T
      <3>2. /\ s \in Seq(T) /\ Len(s) = Len(p) + Len(u)
            /\ \A i \in 1..Len(u) : s[Len(p) + i] = u[i]
        BY <2>5, <3>1, ConcatAt
      <3>3. \A i \in Len(p) + 1..Len(s) : s[i] \in T
        BY <2>4, <3>2, ElementOfSeq, LenProperties
      <3>4. /\ v \in Seq(T) /\ Len(v) = Len(u)
            /\ \A i \in 1..Len(u) : v[i] = s[Len(p) + i]
        BY <1>1, <2>3, <2>4, <3>2, <3>3, SubSeqProperties, SMTT(30)
      <3> HIDE DEF v
      <3>5. \A i \in 1..Len(v) : v[i] = u[i]
        BY <3>2, <3>4
      <3> QED
        BY <3>1, <3>4, <3>5, SeqEqual DEF v
    <2>7. ~ (Len(s) < Len(p) + 2) /\ Len(s) % 2 = 0
      <3>1. Len(b) > 0
        BY <1>1, <1>3, EmptySeq
      <3>2. Len(s) % 2 = 0
        <4>1. Len(b) \in Nat /\ Len(p) \in {0, 2} /\ Len(s) = Len(p) + 2 * Len(b)
          BY <1>1, <2>3, <2>4
        <4> QED
          BY <4>1, Halves, ZenonT(30)
      <3> QED
        BY <1>1, <2>3, <2>4, <3>1, <3>2
    <2>8. FromHexString(u) = b /\ ~ StartsWith(u, HexPrefix)
      BY <1>2, <2>1
    <2> QED
      BY <2>2, <2>6, <2>7, <2>8, Zenon DEF FromHex, ToHex
  <1> QED
    BY <1>2, <1>3, Zenon DEF HexReadsBack

-----------------------------------------------------------------------------
(* Numbers                                                                 *)

LEMMA WordNat == Word \in Nat /\ Word > 0
  BY DEF Word

LEMMA ByteIs == \A x : x \in Byte <=> x \in Nat /\ x <= 255
  BY DEF Byte

\* Every place of a number holds a byte, zero beyond the last.
LEMMA DigitTyped ==
    ASSUME NEW v \in Seq(Byte), NEW i \in Nat
    PROVE  Digit(v, i) \in Byte /\ Digit(v, i) \in Nat /\ Digit(v, i) <= 255
  <1>1. CASE i \in 1..Len(v)
    BY <1>1, ElementOfSeq, ByteIs DEF Digit
  <1>2. CASE i \notin 1..Len(v)
    BY <1>2, ByteIs DEF Digit
  <1> QED
    BY <1>1, <1>2

\* A number is determined by its digits.
LEMMA SameDigits ==
    ASSUME NEW u, IsNumber(u), NEW v, IsNumber(v), \A i \in Nat : i > 0 => Digit(u, i) = Digit(v, i)
    PROVE  u = v
  <1>1. u \in Seq(Byte) /\ v \in Seq(Byte) /\ Len(u) \in Nat /\ Len(v) \in Nat
    BY LenProperties DEF IsNumber
  <1>2. ASSUME NEW a, IsNumber(a), NEW b, IsNumber(b), Len(a) \in Nat, Len(b) \in Nat, Len(a) < Len(b)
        PROVE  Digit(a, Len(b)) # Digit(b, Len(b))
    <2>1. b[Len(b)] # 0
      BY <1>2 DEF IsNumber
    <2>2. Digit(a, Len(b)) = 0
      BY <1>2 DEF Digit
    <2>3. Digit(b, Len(b)) = b[Len(b)]
      <3>1. Len(b) \in 1..Len(b)
        BY <1>2
      <3> QED
        BY <3>1 DEF Digit
    <2> QED
      BY <2>1, <2>2, <2>3
  <1>3. Len(u) = Len(v)
    <2>1. ~ (Len(u) < Len(v))
      BY <1>1, <1>2
    <2>2. ~ (Len(v) < Len(u))
      BY <1>1, <1>2
    <2> QED
      BY <1>1, <2>1, <2>2
  <1>4. ASSUME NEW i \in 1..Len(u) PROVE u[i] = v[i]
    <2>1. Digit(u, i) = Digit(v, i)
      BY <1>1
    <2> QED
      BY <1>3, <2>1 DEF Digit
  <1> QED
    BY <1>1, <1>3, <1>4, SeqEqual

\* Cutting off the leading zeros changes no digit and leaves a number.
LEMMA CanonicalNumber ==
    ASSUME NEW d \in Seq(Byte)
    PROVE  IsNumber(Canonical(d)) /\ \A i \in Nat : i > 0 => Digit(Canonical(d), i) = Digit(d, i)
  <1> DEFINE T == {1} \cup {j \in 1..Len(d) : d[j] # 0}
  <1>1. Len(d) \in Nat
    BY LenProperties
  <1>2. Max(T) \in T /\ \A j \in T : j <= Max(T)
    <2>1. T \in SUBSET Nat /\ T # {} /\ \A j \in T : j <= Len(d) + 1
      BY <1>1
    <2>2. Len(d) + 1 \in Nat
      BY <1>1
    <2> HIDE DEF T
    <2> QED
      BY <2>1, <2>2, MaxOfBounded, ZenonT(30)
  <1>3. PICK m : m = Max(T)
    BY ZenonT(30)
  <1>4. /\ m \in Nat /\ m >= 1 /\ (m > 1 => m \in 1..Len(d) /\ d[m] # 0)
        /\ \A j \in 1..Len(d) : j > m => d[j] = 0
    <2>1. m \in T /\ \A j \in T : j <= m
      BY <1>2, <1>3, Zenon
    <2>2. m \in Nat /\ m >= 1
      BY <1>1, <2>1
    <2>3. m > 1 => m \in 1..Len(d) /\ d[m] # 0
      BY <2>1, <2>2
    <2>4. ASSUME NEW j \in 1..Len(d), j > m PROVE d[j] = 0
      BY <1>1, <2>1, <2>2, <2>4
    <2> QED
      BY <2>2, <2>3, <2>4
  <1>5. PICK c : c = [i \in 1..m |-> Digit(d, i)]
    BY ZenonT(30)
  <1>6. Canonical(d) = c
    BY <1>3, <1>5, Zenon DEF Canonical
  <1>7. c \in Seq(Byte) /\ Len(c) = m /\ \A i \in 1..m : c[i] = Digit(d, i)
    <2>1. ASSUME NEW i \in 1..m PROVE Digit(d, i) \in Byte
      <3>1. i \in Nat
        BY <1>4
      <3> QED
        BY <3>1, DigitTyped
    <2> QED
      BY <1>4, <1>5, <2>1
  <1>8. IsNumber(c)
    <2>1. m > 1 => c[m] = d[m]
      BY <1>4, <1>7 DEF Digit
    <2> QED
      BY <1>4, <1>7, <2>1 DEF IsNumber
  <1>9. ASSUME NEW i \in Nat, i > 0 PROVE Digit(c, i) = Digit(d, i)
    <2>1. CASE i <= m
      BY <1>4, <1>7, <1>9, <2>1 DEF Digit
    <2>2. CASE i > m
      <3>1. Digit(c, i) = 0
        BY <1>4, <1>7, <2>2 DEF Digit
      <3>2. Digit(d, i) = 0
        BY <1>4, <2>2 DEF Digit
      <3> QED
        BY <3>1, <3>2
    <2> QED
      BY <1>4, <2>1, <2>2
  <1> QED
    BY <1>6, <1>8, <1>9

\* libutilities/DataConvertUtility.h, for every unsigned number and every width
\* that holds it: fromBigEndian gives back what toBigEndian and toCompactBigEndian
\* wrote, zero included, for which the compact form has no byte at all.
THEOREM BigEndianNumbersReadBack ==
    \A v : IsNumber(v) => \A n, w \in Nat : BigEndianReadsBack(v, n, w)
  <1> SUFFICES ASSUME NEW v, IsNumber(v), NEW n \in Nat, NEW w \in Nat, Len(v) <= w
               PROVE  /\ Len(v) <= n => FromBigEndian(ToBigEndian(v, n), w) = v
                      /\ FromBigEndian(ToCompactBigEndian(v, n), w) = v
    BY Zenon DEF BigEndianReadsBack
  <1>1. v \in Seq(Byte) /\ Len(v) \in Nat /\ Len(v) >= 1
    BY LenProperties DEF IsNumber
  <1>2. ASSUME NEW k \in Nat, Len(v) <= k \/ v = << 0 >>
        PROVE  FromBigEndian(ToBigEndian(v, k), w) = v
    <2>1. PICK s : s = ToBigEndian(v, k)
      OBVIOUS
    <2>2. s = [i \in 1..k |-> Digit(v, k + 1 - i)]
      BY <2>1 DEF ToBigEndian
    <2>3. s \in Seq(Byte) /\ Len(s) = k /\ \A i \in 1..k : s[i] = Digit(v, k + 1 - i)
      <3>1. ASSUME NEW i \in 1..k PROVE Digit(v, k + 1 - i) \in Byte
        <4>1. k + 1 - i \in Nat
          OBVIOUS
        <4> QED
          BY <1>1, <4>1, DigitTyped
      <3> QED
        BY <2>2, <3>1
    <2>4. PICK m : m = Min({w, Len(s)})
      OBVIOUS
    <2>5. m \in Nat /\ m <= k /\ m <= w /\ (m = k \/ m = w)
      <3>1. \E x \in {w, k} : \A y \in {w, k} : x <= y
        OBVIOUS
      <3>2. m \in {w, k} /\ \A y \in {w, k} : m <= y
        BY <2>3, <2>4, <3>1, ZenonT(30) DEF Min
      <3> QED
        BY <3>2
    <2>6. PICK d : d = [i \in 1..m |-> s[k + 1 - i]]
      BY ZenonT(30)
    <2>7. d \in Seq(Byte) /\ Len(d) = m /\ \A i \in 1..m : d[i] = Digit(v, i)
      <3>1. ASSUME NEW i \in 1..m PROVE s[k + 1 - i] = Digit(v, i) /\ s[k + 1 - i] \in Byte
        <4>1. k + 1 - i \in 1..k /\ k + 1 - (k + 1 - i) = i
          BY <2>5
        <4> QED
          BY <2>3, <4>1, ElementOfSeq
      <3> QED
        BY <2>5, <2>6, <3>1
    <2>8. ASSUME NEW i \in Nat, i > 0 PROVE Digit(d, i) = Digit(v, i)
      <3>1. CASE i <= m
        BY <2>5, <2>7, <2>8, <3>1 DEF Digit
      <3>2. CASE i > m
        <4>1. Digit(d, i) = 0
          BY <2>5, <2>7, <3>2 DEF Digit
        <4>2. CASE v = << 0 >>
          BY <4>1, <4>2 DEF Digit
        <4>3. CASE Len(v) <= k
          <5>1. i > Len(v)
            BY <1>1, <2>5, <3>2, <4>3
          <5>2. Digit(v, i) = 0
            BY <1>1, <5>1 DEF Digit
          <5> QED
            BY <4>1, <5>2
        <4> QED
          BY <1>2, <4>2, <4>3
      <3> QED
        BY <2>5, <3>1, <3>2
    <2>9. Canonical(d) = v
      <3>1. IsNumber(Canonical(d)) /\ \A i \in Nat : i > 0 => Digit(Canonical(d), i) = Digit(v, i)
        BY <2>7, <2>8, CanonicalNumber
      <3> QED
        BY <3>1, SameDigits
    <2> QED
      BY <2>1, <2>3, <2>4, <2>6, <2>9 DEF FromBigEndian
  <1>3. FromBigEndian(ToCompactBigEndian(v, n), w) = v
    <2> DEFINE l == IF v = << 0 >> THEN 0 ELSE Len(v)
    <2>1. PICK k : k = Max({n, l})
      OBVIOUS
    <2>2. l \in Nat /\ (v = << 0 >> \/ l = Len(v))
      BY <1>1
    <2>3. k \in Nat /\ l <= k
      <3> HIDE DEF l
      <3>1. \E x \in {n, l} : \A y \in {n, l} : x >= y
        BY <2>2
      <3>2. k \in {n, l} /\ \A y \in {n, l} : k >= y
        BY <2>1, <3>1 DEF Max
      <3> QED
        BY <2>2, <3>2
    <2>4. ToCompactBigEndian(v, n) = ToBigEndian(v, k)
      BY <2>1, Zenon DEF ToCompactBigEndian
    <2>5. Len(v) <= k \/ v = << 0 >>
      BY <2>2, <2>3
    <2> QED
      BY <1>2, <2>3, <2>4, <2>5
  <1> QED
    BY <1>2, <1>3

\* all places below i are zero
LowZeros(v, i) == \A j \in 1..i - 1 : Digit(v, j) = 0

\* The digits of 2^256 - v: up to the lowest digit that is not zero they are those
\* of v, with this one taken from 256, and above it taken from 255.
LEMMA NegatedDigits ==
    ASSUME NEW v \in Seq(Byte)
    PROVE  /\ IsNumber(Negated(v))
           /\ \A i \in 1..Word :
                Digit(Negated(v), i) =
                    IF LowZeros(v, i) THEN IF Digit(v, i) = 0 THEN 0 ELSE 256 - Digit(v, i)
                    ELSE 255 - Digit(v, i)
           /\ \A i \in Nat : i > Word => Digit(Negated(v), i) = 0
  <1> DEFINE N(i) == (255 - Digit(v, i) + (IF LowZeros(v, i) THEN 1 ELSE 0)) % 256
  <1>1. ASSUME NEW i \in 1..Word
        PROVE  /\ N(i) \in Nat /\ N(i) <= 255
               /\ N(i) = IF LowZeros(v, i) THEN IF Digit(v, i) = 0 THEN 0 ELSE 256 - Digit(v, i)
                         ELSE 255 - Digit(v, i)
    <2>1. PICK x : x = Digit(v, i)
      OBVIOUS
    <2>2. x \in Nat /\ x <= 255
      <3>1. i \in Nat
        BY WordNat
      <3> QED
        BY <2>1, <3>1, DigitTyped
    <2>3. (255 - x + 1) % 256 = (IF x = 0 THEN 0 ELSE 256 - x) /\ (255 - x + 0) % 256 = 255 - x
      BY <2>2
    <2>4. CASE LowZeros(v, i)
      <3>1. N(i) = (255 - x + 1) % 256
        BY <2>1, <2>4
      <3> QED
        BY <2>1, <2>2, <2>3, <2>4, <3>1, SMTT(30)
    <2>5. CASE ~ LowZeros(v, i)
      <3>1. N(i) = (255 - x + 0) % 256
        BY <2>1, <2>5
      <3>2. N(i) = 255 - x
        BY <2>3, <3>1
      <3> HIDE DEF N
      <3> QED
        BY <2>1, <2>2, <2>5, <3>2
    <2> QED
      BY <2>4, <2>5
  <1>2. PICK d : d = [i \in 1..Word |-> N(i)]
    BY ZenonT(30)
  <1>3. Negated(v) = Canonical(d)
    BY <1>2, Zenon DEF Negated, LowZeros
  <1> HIDE DEF N
  <1>4. d \in Seq(Byte) /\ Len(d) = Word /\ \A i \in 1..Word : d[i] = N(i)
    BY <1>1, <1>2, WordNat, ByteIs
  <1>5. IsNumber(Negated(v)) /\ \A i \in Nat : i > 0 => Digit(Negated(v), i) = Digit(d, i)
    BY <1>3, <1>4, CanonicalNumber
  <1>6. ASSUME NEW i \in 1..Word PROVE Digit(Negated(v), i) = N(i)
    BY <1>4, <1>5, WordNat DEF Digit
  <1>7. ASSUME NEW i \in Nat, i > Word PROVE Digit(Negated(v), i) = 0
    <2>1. Digit(d, i) = 0
      BY <1>4, <1>7, WordNat DEF Digit
    <2> QED
      BY <1>5, <1>7, <2>1, WordNat
  <1> QED
    BY <1>1, <1>5, <1>6, <1>7

\* Both have their lowest digit that is not zero at the same place.
LEMMA NegatedLowZeros ==
    ASSUME NEW v \in Seq(Byte), NEW i \in 1..Word
    PROVE  LowZeros(Negated(v), i) <=> LowZeros(v, i)
  <1>1. ASSUME LowZeros(v, i) PROVE LowZeros(Negated(v), i)
    <2> SUFFICES ASSUME NEW j \in 1..i - 1 PROVE Digit(Negated(v), j) = 0
      BY DEF LowZeros
    <2>1. j \in 1..Word /\ Digit(v, j) = 0 /\ LowZeros(v, j)
      BY <1>1, WordNat DEF LowZeros
    <2> QED
      BY <2>1, NegatedDigits
  <1>2. ASSUME ~ LowZeros(v, i) PROVE ~ LowZeros(Negated(v), i)
    <2> DEFINE T == {j \in 1..i - 1 : Digit(v, j) # 0}
    <2>1. T \in SUBSET Nat /\ T # {}
      BY <1>2, WordNat DEF LowZeros
    <2>2. PICK k \in T : \A j \in T : k <= j
      BY <2>1, LeastNatural, ZenonT(30)
    <2>3. k \in 1..Word /\ k \in Nat /\ k \in 1..i - 1 /\ Digit(v, k) # 0
      BY <2>2, WordNat
    <2>4. LowZeros(v, k)
      BY <2>2, <2>3, WordNat DEF LowZeros
    <2>5. Digit(Negated(v), k) = 256 - Digit(v, k)
      BY <2>3, <2>4, NegatedDigits
    <2>6. Digit(v, k) \in Nat /\ Digit(v, k) <= 255
      BY <2>3, DigitTyped
    <2>7. Digit(Negated(v), k) # 0
      BY <2>5, <2>6
    <2> QED
      BY <2>3, <2>7 DEF LowZeros
  <1> QED
    BY <1>1, <1>2

\* Taking the two's complement twice gives the number back.
LEMMA NegatedTwice ==
    ASSUME NEW v, IsNumber(v), Len(v) <= Word
    PROVE  Negated(Negated(v)) = v
  <1>1. PICK u : u = Negated(v)
    OBVIOUS
  <1>2. v \in Seq(Byte) /\ Len(v) \in Nat /\ u \in Seq(Byte)
    BY <1>1, NegatedDigits, LenProperties DEF IsNumber
  <1>3. ASSUME NEW i \in 1..Word PROVE Digit(Negated(u), i) = Digit(v, i)
    <2>1. Digit(v, i) \in Nat /\ Digit(v, i) <= 255
      <3>1. i \in Nat
        BY WordNat
      <3> QED
        BY <1>2, <3>1, DigitTyped
    <2>2. LowZeros(u, i) <=> LowZeros(v, i)
      BY <1>1, <1>2, NegatedLowZeros
    <2>3. Digit(u, i) = IF LowZeros(v, i) THEN IF Digit(v, i) = 0 THEN 0 ELSE 256 - Digit(v, i)
                        ELSE 255 - Digit(v, i)
      BY <1>1, <1>2, NegatedDigits
    <2>4. Digit(Negated(u), i) =
            IF LowZeros(u, i) THEN IF Digit(u, i) = 0 THEN 0 ELSE 256 - Digit(u, i)
            ELSE 255 - Digit(u, i)
      BY <1>2, NegatedDigits
    <2> QED
      BY <2>1, <2>2, <2>3, <2>4
  <1>4. ASSUME NEW i \in Nat, i > Word PROVE Digit(Negated(u), i) = Digit(v, i)
    <2>1. Digit(v, i) = 0
      BY <1>2, <1>4, WordNat DEF Digit
    <2> QED
      BY <1>2, <1>4, <2>1, NegatedDigits
  <1>5. \A i \in Nat : i > 0 => Digit(Negated(u), i) = Digit(v, i)
    BY <1>3, <1>4, WordNat
  <1>6. IsNumber(Negated(u))
    BY <1>2, NegatedDigits
  <1> QED
    BY <1>1, <1>5, <1>6, SameDigits

\* u2s and s2u of libutilities/Common.h, which SCALE writes an s256 with: every
\* number from -2^255 to 2^255 - 1 comes back from its two's complement.
THEOREM SignedNumbersReadBack == \A s : IsSigned(s) => SignedReadsBack(s)
  <1> SUFFICES ASSUME NEW s, IsSigned(s) PROVE SignedReadsBack(s)
    OBVIOUS
  <1>1. PICK v : v = s.mag
    OBVIOUS
  <1>2. IsNumber(v) /\ Len(v) <= Word /\ v \in Seq(Byte) /\ Len(v) \in Nat
    BY <1>1, LenProperties DEF IsSigned, IsNumber
  <1>3. /\ Digit(v, Word) \in Nat /\ Digit(v, Word) <= 255
        /\ Word \in 1..Word
    BY <1>2, DigitTyped, WordNat
  <1>4. CASE ~ s.neg
    <2>1. s = Signed(FALSE, v) /\ ~ (Digit(v, Word) >= 128)
      <3>1. s.neg = FALSE
        BY <1>4, Zenon DEF IsSigned
      <3>2. s = Signed(FALSE, v)
        BY <1>1, <3>1, Zenon DEF IsSigned
      <3>3. Digit(v, Word) < 128
        BY <1>1, <3>1, Zenon DEF IsSigned
      <3> QED
        BY <1>3, <3>2, <3>3
    <2>2. S2U(s) = v
      BY <1>1, <1>4, Zenon DEF S2U
    <2>3. U2S(v) = s
      BY <2>1, Zenon DEF U2S
    <2> QED
      BY <1>2, <2>2, <2>3 DEF SignedReadsBack
  <1>5. CASE s.neg
    <2>1. /\ s = Signed(TRUE, v) /\ v # << 0 >> /\ Digit(v, Word) <= 128
          /\ Digit(v, Word) = 128 => \A i \in 1..Word - 1 : Digit(v, i) = 0
      <3>1. s.neg = TRUE
        BY <1>5, Zenon DEF IsSigned
      <3> QED
        BY <1>1, <3>1, Zenon DEF IsSigned
    <2>2. S2U(s) = Negated(v)
      BY <1>1, <1>5, Zenon DEF S2U
    <2>3. Digit(Negated(v), Word) =
            IF LowZeros(v, Word) THEN IF Digit(v, Word) = 0 THEN 0 ELSE 256 - Digit(v, Word)
            ELSE 255 - Digit(v, Word)
      BY <1>2, <1>3, NegatedDigits
    <2>4. LowZeros(v, Word) => Digit(v, Word) # 0
      <3> SUFFICES ASSUME LowZeros(v, Word), Digit(v, Word) = 0 PROVE FALSE
        OBVIOUS
      <3>1. \A i \in 1..Word : Digit(v, i) = 0
        BY WordNat DEF LowZeros
      <3>2. \A i \in 1..Len(v) : v[i] = 0
        BY <1>2, <3>1, WordNat DEF Digit
      <3>3. Len(v) = 1 /\ v[1] = 0
        <4>1. Len(v) >= 1 /\ (Len(v) > 1 => v[Len(v)] # 0)
          BY <1>2 DEF IsNumber
        <4>2. Len(v) \in 1..Len(v) /\ 1 \in 1..Len(v)
          BY <1>2, <4>1
        <4>3. v[Len(v)] = 0 /\ v[1] = 0
          BY <3>2, <4>2, Zenon
        <4>4. Len(v) \in Nat
          BY <1>2
        <4> QED
          BY <4>1, <4>3, <4>4
      <3>4. v = << 0 >>
        BY <1>2, <3>3
      <3> QED
        BY <2>1, <3>4
    <2>5. Digit(v, Word) = 128 => LowZeros(v, Word)
      BY <2>1 DEF LowZeros
    <2>6. Digit(Negated(v), Word) >= 128
      BY <1>3, <2>1, <2>3, <2>4, <2>5
    <2>7. U2S(Negated(v)) = Signed(TRUE, Negated(Negated(v)))
      BY <2>6, Zenon DEF U2S
    <2>8. Negated(Negated(v)) = v
      BY <1>2, NegatedTwice
    <2>9. Negated(v) \in Seq(Byte)
      BY <1>2, NegatedDigits DEF IsNumber
    <2> QED
      BY <2>1, <2>2, <2>7, <2>8, <2>9, Zenon DEF SignedReadsBack
  <1> QED
    BY <1>4, <1>5

-----------------------------------------------------------------------------
(* Compact integers of the SCALE codec                                     *)

\* A byte and its upper two bits ...
LEMMA UpperBits ==
    ASSUME NEW a \in Byte
    PROVE  /\ a % 64 \in 0..63 /\ a \div 64 \in 0..3 /\ (a % 64) + (a \div 64) * 64 = a
           /\ a < 64 => a % 64 = a
  <1>1. a \in 0..255
    BY ByteIs
  <1> QED
    BY <1>1

\* ... and six bits beside two flag bits.
LEMMA Shifted ==
    ASSUME NEW b \in 0..63, NEW x \in 0..3
    PROVE  b * 4 + x \in Byte /\ (b * 4 + x) % 4 = x /\ (b * 4 + x) \div 4 = b
  <1>1. b * 4 + x \in 0..255 /\ (b * 4 + x) % 4 = x /\ (b * 4 + x) \div 4 = b
    OBVIOUS
  <1> QED
    BY <1>1, ByteIs

\* The first three modes.
LEMMA ShiftedReadsBack ==
    ASSUME NEW v, IsNumber(v), NEW n, NEW flag, Fits(v, n),
           (n = 1 /\ flag = 0) \/ (n = 2 /\ flag = 1) \/ (n = 4 /\ flag = 2),
           NEW s \in Seq(Byte), NEW at \in Nat,
           HoldsAt(s, at, ShiftedIn(v, n, flag))
    PROVE  Len(ShiftedIn(v, n, flag)) = n /\ ReadsAs(s, at, v, n)
  <1> DEFINE D(i) == Digit(v, i)
             X(i) == IF i = 1 THEN flag ELSE D(i - 1) \div 64
             out == [i \in 1..n |-> s[at + i] \div 4 + (IF i = n THEN 0 ELSE (s[at + i + 1] % 4) * 64)]
  <1>0. n \in 1..4 /\ flag \in 0..2 /\ <<1, 2, 4>>[flag + 1] = n
    OBVIOUS
  <1> USE <1>0
  <1>1. v \in Seq(Byte) /\ Len(v) \in Nat /\ Len(s) \in Nat
    BY LenProperties DEF IsNumber
  <1>2. \A i \in 1..n : D(i) \in Byte
    BY <1>1, DigitTyped
  <1>3. \A i \in 1..n : X(i) \in 0..3
    <2> SUFFICES ASSUME NEW i \in 1..n, i # 1 PROVE D(i - 1) \div 64 \in 0..3
      OBVIOUS
    <2>1. i - 1 \in 1..n
      OBVIOUS
    <2> QED
      BY <1>2, <2>1, UpperBits, ZenonT(30)
  <1> DEFINE B(i) == D(i) % 64
  <1>4. \A i \in 1..n : B(i) \in 0..63
    BY <1>2, UpperBits, ZenonT(30)
  <1>5. \A i \in 1..n : (B(i) * 4 + X(i)) % 4 = X(i) /\ (B(i) * 4 + X(i)) \div 4 = B(i)
    <2> HIDE DEF B, X
    <2> TAKE i \in 1..n
    <2>1. B(i) \in 0..63 /\ X(i) \in 0..3
      BY <1>4, <1>3
    <2> QED
      BY <2>1, Shifted, ZenonT(30)
  <1>6. \A i \in 1..n : ShiftedIn(v, n, flag)[i] = (D(i) % 64) * 4 + X(i)
    BY DEF ShiftedIn
  <1>7. Len(ShiftedIn(v, n, flag)) = n
    BY DEF ShiftedIn
  <1>8. \A i \in 1..n : at + i <= Len(s) => s[at + i] = ShiftedIn(v, n, flag)[i]
    BY <1>7, ZenonT(30) DEF HoldsAt
  <1> HIDE DEF D, X
  <1> SUFFICES DecodeCompactInteger(s, at) = IF HasMore(s, at, n) THEN Ok(v, at + n) ELSE Fail("throw")
    BY <1>7 DEF ReadsAs
  <1>9. CASE ~HasMore(s, at, 1)
    <2>1. ~HasMore(s, at, n)
      BY <1>1, <1>9 DEF HasMore
    <2> QED
      BY <1>9, <2>1 DEF DecodeCompactInteger
  <1>10. CASE HasMore(s, at, 1)
    <2>1. s[at + 1] = (D(1) % 64) * 4 + X(1) /\ X(1) = flag
      <3>1. 1 \in 1..n /\ at + 1 <= Len(s)
        BY <1>10 DEF HasMore
      <3> QED
        BY <1>6, <1>8, <3>1, ZenonT(30) DEF X
    <2>2. s[at + 1] % 4 = flag
      <3>1. 1 \in 1..n
        OBVIOUS
      <3> QED
        BY <1>5, <2>1, <3>1, ZenonT(30)
    <2>3. DecodeCompactInteger(s, at) =
            IF HasMore(s, at, n) THEN Ok(ShiftedOut(s, at, n), at + n) ELSE Fail("throw")
      <3>1. flag # 3
        OBVIOUS
      <3> QED
        BY <1>10, <2>2, <3>1, ZenonT(30) DEF DecodeCompactInteger
    <2> SUFFICES ASSUME HasMore(s, at, n) PROVE ShiftedOut(s, at, n) = v
      BY <2>3
    <2>4. \A i \in 1..n : s[at + i] = (D(i) % 64) * 4 + X(i)
      BY <1>1, <1>6, <1>8 DEF HasMore
    <2>5. \A i \in 1..n : s[at + i] % 4 = X(i) /\ s[at + i] \div 4 = D(i) % 64
      BY <1>5, <2>4, ZenonT(30)
    <2>6. \A i \in 1..n : i # n => X(i + 1) = D(i) \div 64
      BY DEF X
    <2>7. D(n) < 64
      BY <1>1 DEF D, Digit, Fits
    <2>8. ASSUME NEW i \in 1..n PROVE out[i] = D(i)
      <3>1. CASE i = n
        <4>1. D(i) % 64 = D(i)
          BY <1>2, <2>7, <3>1, UpperBits, ZenonT(30)
        <4>2. out[i] = (D(i) % 64) + 0
          BY <2>5, <3>1
        <4> QED
          BY <1>2, <4>1, <4>2, ByteIs
      <3>2. CASE i # n
        <4>1. i + 1 \in 1..n /\ at + (i + 1) = at + i + 1
          BY <3>2
        <4>2. out[i] = (D(i) % 64) + (D(i) \div 64) * 64
          BY <2>5, <2>6, <3>2, <4>1
        <4> QED
          BY <1>2, <4>2, UpperBits, ZenonT(30)
      <3> QED
        BY <3>1, <3>2
    <2>9. out \in Seq(Byte) /\ Len(out) = n /\ out = [i \in 1..n |-> D(i)]
      <3>1. out = [i \in 1..n |-> D(i)]
        BY <2>8
      <3> HIDE DEF out
      <3> QED
        BY <1>2, <3>1
    <2>10. ShiftedOut(s, at, n) = Canonical(out)
      BY DEF ShiftedOut
    <2> HIDE DEF out
    <2>11. ASSUME NEW i \in Nat, i > 0 PROVE Digit(out, i) = Digit(v, i)
      <3>1. CASE i <= n
        BY <2>9, <2>11, <3>1 DEF Digit, D
      <3>2. CASE i > n
        BY <1>1, <2>9, <3>2 DEF Digit, Fits
      <3> QED
        BY <3>1, <3>2
    <2> QED
      BY <2>9, <2>10, <2>11, CanonicalNumber, SameDigits, ZenonT(30)
  <1> QED
    BY <1>9, <1>10

\* A number is its own canonical form.
LEMMA CanonicalIsSelf ==
    ASSUME NEW v, IsNumber(v)
    PROVE  Canonical(v) = v
  <1>1. v \in Seq(Byte)
    BY DEF IsNumber
  <1> QED
    BY <1>1, CanonicalNumber, SameDigits

\* The mode of big integers: a header with the number of bytes, and the bytes.
LEMMA BigReadsBack ==
    ASSUME NEW v, IsNumber(v), NEW n \in Nat, n >= 4, n <= 67, Len(v) = n, NEW h, h = (n - 4) * 4 + 3,
           NEW s \in Seq(Byte), NEW at \in Nat, HoldsAt(s, at, <<h>> \o v)
    PROVE  Len(<<h>> \o v) = n + 1 /\ ReadsAs(s, at, v, n + 1)
  <1>1. v \in Seq(Byte) /\ Len(s) \in Nat
    BY LenProperties DEF IsNumber
  <1>2. h \in Byte /\ h % 4 = 3 /\ h \div 4 + 5 = n + 1
    <2>1. n - 4 \in 0..63 /\ 3 \in 0..3 /\ (n - 4) + 5 = n + 1
      OBVIOUS
    <2> QED
      BY <2>1, Shifted, ZenonT(30)
  <1> DEFINE code == <<h>> \o v
  <1>3. /\ Len(code) = n + 1 /\ code[1] = h
        /\ \A i \in 1..n : code[i + 1] = v[i]
    BY <1>1, <1>2, ConcatProperties
  <1> HIDE DEF code
  <1>4. HoldsAt(s, at, code)
    BY DEF code
  <1>5. \A i \in 1..n + 1 : at + i <= Len(s) => s[at + i] = code[i]
    BY <1>3, <1>4, ZenonT(30) DEF HoldsAt
  <1> SUFFICES DecodeCompactInteger(s, at) =
                IF HasMore(s, at, n + 1) THEN Ok(v, at + (n + 1)) ELSE Fail("throw")
    BY <1>3, ZenonT(30) DEF ReadsAs, code
  <1>6. CASE ~HasMore(s, at, 1)
    <2>1. ~HasMore(s, at, n + 1)
      BY <1>1, <1>6 DEF HasMore
    <2> QED
      BY <1>6, <2>1 DEF DecodeCompactInteger
  <1>7. CASE HasMore(s, at, 1)
    <2>1. s[at + 1] = h
      <3>1. 1 \in 1..n + 1 /\ at + 1 <= Len(s)
        BY <1>7 DEF HasMore
      <3> QED
        BY <1>3, <1>5, <3>1, ZenonT(30)
    <2>2. s[at + 1] % 4 = 3 /\ s[at + 1] \div 4 + 5 = n + 1
      BY <1>2, <2>1
    <2>3. DecodeCompactInteger(s, at) =
            IF HasMore(s, at, n + 1) THEN Ok(Canonical(SubSeq(s, at + 2, at + (n + 1))), at + (n + 1))
            ELSE Fail("throw")
      BY <1>7, <2>2, ZenonT(30) DEF DecodeCompactInteger
    <2> DEFINE t == SubSeq(s, at + 2, at + (n + 1))
    <2> SUFFICES ASSUME HasMore(s, at, n + 1) PROVE t = v
      BY <2>3, CanonicalIsSelf, ZenonT(30)
    <2>4. at + (n + 1) <= Len(s) /\ at + 2 <= at + (n + 1)
      BY <1>1 DEF HasMore
    <2>5. t \in Seq(Byte) /\ Len(t) = n /\ \A i \in 1..n : t[i] = s[at + 2 + i - 1]
      BY <1>1, <2>4, SubSeqProperties
    <2> HIDE DEF t
    <2>6. ASSUME NEW i \in 1..n PROVE t[i] = v[i]
      <3>1. /\ i + 1 \in 1..n + 1 /\ at + (i + 1) <= Len(s)
            /\ at + 2 + i - 1 = at + (i + 1)
        BY <1>1, <2>4
      <3> QED
        BY <1>3, <1>5, <2>5, <3>1, ZenonT(30)
    <2> QED
      BY <1>1, <2>5, <2>6, SeqEqual
  <1> QED
    BY <1>6, <1>7

\* What fits in a mode fits in the next.
LEMMA FitsMore ==
    ASSUME NEW v, Len(v) \in Nat
    PROVE  (Fits(v, 1) => Fits(v, 2)) /\ (Fits(v, 2) => Fits(v, 4))
  <1>1. \A l \in Nat : (l < 1 \/ l = 1 => l < 2) /\ (l < 2 \/ l = 2 => l < 4)
    OBVIOUS
  <1> QED
    BY <1>1, ZenonT(30) DEF Fits

\* A compact integer comes back from wherever a stream holds its code, in each of
\* the four modes of encodeCompactInteger and for every number of at most 67
\* bytes; a stream that ends within the code makes decodeCompactInteger throw.
THEOREM CompactIntegersReadBack ==
    \A v : IsNumber(v) /\ EncodesCompact(v) =>
        \A s \in Seq(Byte), at \in Nat : CompactReadsBack(v, s, at)
  <1> SUFFICES ASSUME NEW v, IsNumber(v), EncodesCompact(v), NEW s \in Seq(Byte), NEW at \in Nat,
                      HoldsAt(s, at, EncodeCompactInteger(v))
               PROVE  ReadsAs(s, at, v, Len(EncodeCompactInteger(v)))
    BY ZenonT(30) DEF CompactReadsBack
  <1>1. Len(v) \in Nat /\ Len(v) >= 1
    BY LenProperties DEF IsNumber
  <1>2. CASE Fits(v, 1)
    <2>1. EncodeCompactInteger(v) = ShiftedIn(v, 1, 0)
      BY <1>1, <1>2, FitsMore, ZenonT(30) DEF EncodeCompactInteger
    <2>2. HoldsAt(s, at, ShiftedIn(v, 1, 0))
      BY <2>1, ZenonT(30)
    <2>3. Len(ShiftedIn(v, 1, 0)) = 1 /\ ReadsAs(s, at, v, 1)
      BY <1>2, <2>2, ShiftedReadsBack, ZenonT(30)
    <2> QED
      BY <2>1, <2>3, ZenonT(30)
  <1>3. CASE ~Fits(v, 1) /\ Fits(v, 2)
    <2>1. EncodeCompactInteger(v) = ShiftedIn(v, 2, 1)
      BY <1>1, <1>3, FitsMore, ZenonT(30) DEF EncodeCompactInteger
    <2>2. HoldsAt(s, at, ShiftedIn(v, 2, 1))
      BY <2>1, ZenonT(30)
    <2>3. Len(ShiftedIn(v, 2, 1)) = 2 /\ ReadsAs(s, at, v, 2)
      BY <1>3, <2>2, ShiftedReadsBack, ZenonT(30)
    <2> QED
      BY <2>1, <2>3, ZenonT(30)
  <1>4. CASE ~Fits(v, 2) /\ Fits(v, 4)
    <2>1. EncodeCompactInteger(v) = ShiftedIn(v, 4, 2)
      BY <1>1, <1>4, FitsMore, ZenonT(30) DEF EncodeCompactInteger
    <2>2. HoldsAt(s, at, ShiftedIn(v, 4, 2))
      BY <2>1, ZenonT(30)
    <2>3. Len(ShiftedIn(v, 4, 2)) = 4 /\ ReadsAs(s, at, v, 4)
      BY <1>4, <2>2, ShiftedReadsBack, ZenonT(30)
    <2> QED
      BY <2>1, <2>3, ZenonT(30)
  <1>5. CASE ~Fits(v, 4)
    <2>1. Len(v) >= 4 /\ Len(v) <= 67
      BY <1>1, <1>5 DEF EncodesCompact, Fits
    <2> DEFINE h == (Len(v) - 4) * 4 + 3
    <2>2. EncodeCompactInteger(v) = <<h>> \o v
      BY <1>1, <1>5, FitsMore, ZenonT(30) DEF EncodeCompactInteger
    <2>3. HoldsAt(s, at, <<h>> \o v)
      BY <2>2, ZenonT(30)
    <2>4. Len(<<h>> \o v) = Len(v) + 1 /\ ReadsAs(s, at, v, Len(v) + 1)
      BY <1>1, <2>1, <2>3, BigReadsBack, ZenonT(30)
    <2> QED
      BY <2>2, <2>4, ZenonT(30)
  <1> QED
    BY <1>1, <1>2, <1>3, <1>4, <1>5, FitsMore, ZenonT(30)

-----------------------------------------------------------------------------
(* References into memory                                                  *)

LEMMA SmallMod ==
    ASSUME NEW a \in Nat, NEW b \in Nat, a < b
    PROVE  a % b = a
  OBVIOUS

\* memcpy is memmove where the target does not start inside the source.
LEMMA CopiesAgree ==
    ASSUME NEW mem, NEW to \in Nat, NEW from \in Nat, NEW n \in Nat, to > from => n <= to - from,
           Len(mem) \in Nat
    PROVE  Memcpy(mem, to, from, n) = Memmove(mem, to, from, n)
  <1>1. ASSUME NEW i \in 1..Len(mem), i \in to..to + n - 1
        PROVE  from + (IF to > from THEN (i - to) % (to - from) ELSE i - to) = from + i - to
    <2>1. CASE to > from
      <3>1. (i - to) % (to - from) = i - to
        <4>1. i - to \in Nat /\ to - from \in Nat /\ i - to < to - from
          BY <1>1, <2>1
        <4> QED
          BY <4>1, SmallMod
      <3> QED
        BY <1>1, <2>1, <3>1
    <2>2. CASE ~ (to > from)
      BY <1>1, <2>2
    <2> QED
      BY <2>1, <2>2
  <1> DEFINE A(i) == from + (IF to > from THEN (i - to) % (to - from) ELSE i - to)
             f == [i \in 1..Len(mem) |-> IF i \in to..to + n - 1 THEN mem[A(i)] ELSE mem[i]]
             g == [i \in 1..Len(mem) |-> IF i \in to..to + n - 1 THEN mem[from + i - to] ELSE mem[i]]
  <1>2. \A i \in 1..Len(mem) : i \in to..to + n - 1 => A(i) = from + i - to
    BY <1>1
  <1>3. f = g
    <2> HIDE DEF A
    <2> QED
      BY <1>2
  <1> QED
    BY <1>3, Zenon DEF Memcpy, Memmove

\* RefDataContainer::populate, for any memory and any two containers inside it,
\* overlapping either way or not: the target becomes the source as it was before
\* the call, then zeros, and nothing outside the target changes.
THEOREM PopulateCopiesSource ==
    \A S : \A mem \in Seq(S) : \A r, s :
        InMemory(mem, r) /\ InMemory(mem, s) => Populates(mem, r, s)
  <1> SUFFICES ASSUME NEW S, NEW mem \in Seq(S), NEW r, NEW s, InMemory(mem, r), InMemory(mem, s)
               PROVE  Populates(mem, r, s)
    OBVIOUS
  <1> DEFINE n == IF s.count < r.count THEN s.count ELSE r.count
             moved == Memmove(mem, s.start, r.start, n)
  <1>1. /\ Len(mem) \in Nat
        /\ r.start \in Nat /\ r.start > 0 /\ r.count \in Nat /\ r.start + r.count <= Len(mem) + 1
        /\ s.start \in Nat /\ s.start > 0 /\ s.count \in Nat /\ s.start + s.count <= Len(mem) + 1
    BY LenProperties DEF InMemory, EndOf
  <1>2. n \in Nat /\ n <= r.count /\ n <= s.count /\ (n = r.count \/ n = s.count)
    BY <1>1
  <1>3. ASSUME ~ DataOverlap(r, s)
        PROVE  Memcpy(mem, s.start, r.start, n) = moved
    <2>1. s.start > r.start => n <= s.start - r.start
      BY <1>1, <1>2, <1>3 DEF DataOverlap, EndOf
    <2> HIDE DEF n
    <2> QED
      BY <1>1, <1>2, <2>1, CopiesAgree
  <1>4. Populate(mem, r, s) =
            [i \in 1..Len(mem) |-> IF i \in s.start + n..EndOf(s) - 1 THEN 0 ELSE moved[i]]
    <2>1. (IF DataOverlap(r, s) THEN moved ELSE Memcpy(mem, s.start, r.start, n)) = moved
      BY <1>3, Zenon
    <2> QED
      BY <2>1, Zenon DEF Populate
  <1> HIDE DEF n
  <1>5. ASSUME NEW i \in 1..Len(mem)
        PROVE  moved[i] = IF i \in s.start..s.start + n - 1 THEN mem[r.start + i - s.start] ELSE mem[i]
    BY DEF Memmove
  <1> HIDE DEF moved
  <1>6. ASSUME NEW j \in 1..r.count PROVE RefBytes(mem, r)[j] = mem[r.start + j - 1]
    <2>1. PICK first, last : first = r.start /\ last = EndOf(r) - 1
      OBVIOUS
    <2>2. /\ first \in Int /\ last \in Int /\ last - first + 1 = r.count
          /\ first > 0 /\ last <= Len(mem)
      BY <1>1, <2>1, SMTT(30) DEF EndOf
    <2>3. RefBytes(mem, r) = SubSeq(mem, first, last)
      BY <2>1, Zenon DEF RefBytes
    <2>4. \A i \in first..last : mem[i] \in S
      BY <1>1, <2>2, ElementOfSeq
    <2>5. \A i \in 1..last - first + 1 : SubSeq(mem, first, last)[i] = mem[first + i - 1]
      BY <2>2, <2>4, SubSeqProperties
    <2> QED
      BY <2>1, <2>2, <2>3, <2>5
  <1>7. ASSUME NEW i \in 1..Len(mem)
        PROVE  Populate(mem, r, s)[i] =
                IF i \notin s.start..EndOf(s) - 1 THEN mem[i]
                ELSE IF i - s.start < r.count THEN RefBytes(mem, r)[i - s.start + 1] ELSE 0
    <2>0. Populate(mem, r, s)[i] = IF i \in s.start + n..EndOf(s) - 1 THEN 0 ELSE moved[i]
      BY <1>4
    <2>1. CASE i \notin s.start..EndOf(s) - 1
      BY <1>1, <1>2, <1>5, <2>0, <2>1, SMTT(30) DEF EndOf
    <2>2. CASE i \in s.start..EndOf(s) - 1 /\ i - s.start < r.count
      <3>1. i \in s.start..s.start + n - 1
        BY <1>1, <1>2, <2>2, SMTT(30) DEF EndOf
      <3>2. Populate(mem, r, s)[i] = mem[r.start + i - s.start]
        BY <1>1, <1>2, <1>5, <2>0, <3>1 DEF EndOf
      <3>3. i - s.start + 1 \in 1..r.count /\ r.start + (i - s.start + 1) - 1 = r.start + i - s.start
        BY <1>1, <2>2, SMTT(30) DEF EndOf
      <3>4. RefBytes(mem, r)[i - s.start + 1] = mem[r.start + i - s.start]
        BY <1>6, <3>3
      <3> QED
        BY <2>2, <3>2, <3>4
    <2>3. CASE i \in s.start..EndOf(s) - 1 /\ ~ (i - s.start < r.count)
      <3>1. i \in s.start + n..EndOf(s) - 1
        BY <1>1, <1>2, <2>3 DEF EndOf
      <3> QED
        BY <2>0, <2>3, <3>1
    <2> QED
      BY <2>1, <2>2, <2>3
  <1> QED
    BY <1>7 DEF Populates
=============================================================================

------------------------------- MODULE RefData -------------------------------
(***************************************************************************)
(* RefDataContainer<byte>, a pointer and a count into memory somebody else *)
(* owns, and AMOPRequest, the message whose fields are cut out of the      *)
(* received bytes with it.  Memory is a sequence of bytes; a container is  *)
(* [start, count] with start 0 for the null pointer.                       *)
(***************************************************************************)
EXTENDS DataConvert

NullRef == [start |-> 0, count |-> 0]
Ref(start, count) == [start |-> start, count |-> count]
EndOf(r) == r.start + r.count

RefBytes(mem, r) == SubSeq(mem, r.start, EndOf(r) - 1)

GetCroppedData(r, from, count) ==
    IF r.start # 0 /\ from <= r.count /\ count <= r.count /\ from + count <= r.count
    THEN Ref(r.start + from, count)
    ELSE NullRef

GetCroppedTail(r, from) ==
    IF r.start # 0 /\ r.count >= from THEN GetCroppedData(r, from, r.count - from) ELSE NullRef

\* one-sided: finds an overlap only where the target starts before the source
DataOverlapBefore(r, s) == s.start < r.start /\ r.start < EndOf(s)

DataOverlap(r, s) == r.start < EndOf(s) /\ s.start < EndOf(r)

\* memmove copies what was there before; memcpy, defined only without an overlap,
\* as the copy byte by byte, which repeats the first bytes where the target starts
\* inside the source
Memmove(mem, to, from, n) ==
    [i \in 1..Len(mem) |-> IF i \in to..to + n - 1 THEN mem[from + i - to] ELSE mem[i]]

Memcpy(mem, to, from, n) ==
    [i \in 1..Len(mem) |->
        IF i \in to..to + n - 1
        THEN mem[from + (IF to > from THEN (i - to) % (to - from) ELSE i - to)]
        ELSE mem[i]]

\* r.populate(s): copy r into s and zero the rest of s
Populate(mem, r, s) ==
    LET n == IF s.count < r.count THEN s.count ELSE r.count
        copied == IF DataOverlap(r, s) THEN Memmove(mem, s.start, r.start, n)
                  ELSE Memcpy(mem, s.start, r.start, n)
    IN  [i \in 1..Len(mem) |-> IF i \in s.start + n..EndOf(s) - 1 THEN 0 ELSE copied[i]]

\* a container inside the memory, and what populate promises: the source as it was,
\* zeros in the rest of the target, the memory around it left alone
InMemory(mem, r) == r.start \in Nat \ {0} /\ r.count \in Nat /\ EndOf(r) <= Len(mem) + 1

Populates(mem, r, s) ==
    \A i \in 1..Len(mem) :
        Populate(mem, r, s)[i] =
            IF i \notin s.start..EndOf(s) - 1 THEN mem[i]
            ELSE IF i - s.start < r.count THEN RefBytes(mem, r)[i - s.start + 1] ELSE 0

-----------------------------------------------------------------------------
(* AMOPRequest: two bytes of topic length, the topic, the data             *)

TopicMaxLength == 65535
MessageMinLength == 2

\* the length in the order of the host
AmopEncodeHostOrder(topic, data) ==
    IF Len(topic) > TopicMaxLength THEN <<>>
    ELSE << <<Len(topic) % 256, Len(topic) \div 256>> \o topic \o data >>

AmopEncode(topic, data) ==
    IF Len(topic) > TopicMaxLength THEN <<>>
    ELSE << <<Len(topic) \div 256, Len(topic) % 256>> \o topic \o data >>

\* -1 for what is too short, -2 for a throw: an offset that does not fit throws
\* std::runtime_error, which the handler, catching std::string, lets through
AmopDecode(bytes) ==
    LET topicLen == 256 * bytes[1] + bytes[2]
        all == Ref(1, Len(bytes))
    IN  IF Len(bytes) < MessageMinLength THEN [returned |-> -1]
        ELSE IF 2 + topicLen > Len(bytes) THEN [returned |-> -2]
        ELSE [returned |-> Len(bytes), topic |-> SubSeq(bytes, 3, 2 + topicLen),
              data |-> GetCroppedTail(all, 2 + topicLen)]

\* What a message promises: topic and data come back from what was sent, and a
\* message cut to n bytes is decoded exactly if the topic is whole.
AmopReadsBack(topic, data) ==
    LET encoded == AmopEncode(topic, data)
        decoded == AmopDecode(encoded[1])
    IN  /\ encoded = <<>> <=> Len(topic) > TopicMaxLength
        /\ encoded # <<>> =>
            /\ decoded.returned = Len(encoded[1])
            /\ decoded.topic = topic
            /\ RefBytes(encoded[1], decoded.data) = data

AmopCutAt(topic, data, n) ==
    LET encoded == AmopEncode(topic, data)
    IN  encoded # <<>> /\ n < Len(encoded[1]) =>
            (AmopDecode(SubSeq(encoded[1], 1, n)).returned < 0 <=> n < Len(topic) + 2)
=============================================================================

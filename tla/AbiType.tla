------------------------------- MODULE AbiType -------------------------------
(***************************************************************************)
(* libcodec/abi/ContractABIType: the names of ABI types, as uint256[3][],  *)
(* and the signatures of functions.  A text is a sequence of tokens: the   *)
(* name of an elementary type or of a function, a digit, or one of the     *)
(* characters "[", "]", "(", ")", "," and " ".                             *)
(***************************************************************************)
EXTENDS Integers, Sequences, SequencesExt, FiniteSetsExt

ElementaryTypes == {"bool", "address", "string", "bytes", "uint", "int", "bytesN"}
DigitValue == [c \in {"0", "1", "3"} |-> CASE c = "0" -> 0 [] c = "1" -> 1 [] c = "3" -> 3]

NPos == 1000000     \* std::string::npos: beyond every text

\* find: the first place of c at or behind from
Find(s, c, from) == Min({NPos} \cup {i \in from..Len(s) : s[i] = c})

\* trim: without the blanks on both sides
Trimmed(s) ==
    LET ink == {i \in 1..Len(s) : s[i] # " "}
    IN  IF ink = {} THEN <<>> ELSE SubSeq(s, Min(ink), Max(ink))

\* getEnumType: the elementary type that is the whole text, or "invalid"
GetEnumType(s) == IF Len(s) = 1 /\ s[1] \in ElementaryTypes THEN s[1] ELSE "invalid"

\* the extent between two brackets: <<>> if there are other characters than
\* digits, and 0 if there are none
Extent(s) ==
    LET digits == Trimmed(s)
    IN  IF ~(ToSet(digits) \subseteq DOMAIN DigitValue) THEN <<>>
        ELSE << FoldLeft(LAMBDA sum, c : 10 * sum + DigitValue[c], 0, digits) >>

\* the loop of reset: <<extents>>, or <<>> for an invalid format
RECURSIVE Extents(_, _, _)
ExtentsUnpaired(s, from, found) ==
    IF from > Len(s) THEN << found >>
    ELSE LET left == Find(s, "[", from)
             right == Find(s, "]", from)
         IN  IF left = NPos THEN <<>>
             ELSE LET e == Extent(SubSeq(s, left + 1, Min({right, Len(s) + 1}) - 1))
                  IN  IF e = <<>> THEN <<>> ELSE Extents(s, right + 1, found \o e)
Extents(s, from, found) ==
    IF from > Len(s) THEN << found >>
    ELSE LET left == Find(s, "[", from)
             right == Find(s, "]", from)
         IN  IF left = NPos \/ right = NPos \/ left >= right THEN <<>>
             ELSE LET e == Extent(SubSeq(s, left + 1, right - 1))
                  IN  IF e = <<>> THEN <<>> ELSE Extents(s, right + 1, found \o e)

\* reset: <<the type>>, or <<>> for an invalid text
Reset(text) ==
    LET s == Trimmed(text)
        first == Find(s, "[", 1)
        element == Trimmed(SubSeq(s, 1, Min({first - 1, Len(s)})))
        extents == Extents(s, first, <<>>)
    IN  IF GetEnumType(element) = "invalid" \/ extents = <<>> THEN <<>>
        ELSE << [aet |-> GetEnumType(element), extents |-> extents[1], strType |-> s] >>

Dynamic(type) ==
    \/ type.aet \in {"string", "bytes"}
    \/ \E i \in 1..Len(type.extents) : type.extents[i] = 0

\* removeExtent takes the last dimension off
RemoveExtent(type) == [type EXCEPT !.extents = SubSeq(@, 1, Len(@) - 1)]

-----------------------------------------------------------------------------
(* ABIFunc::parser                                                         *)

\* boost::split at the commas
SplitAtCommas(s) ==
    FoldLeft(LAMBDA parts, c :
                IF c = "," THEN Append(parts, <<>>)
                ELSE [parts EXCEPT ![Len(parts)] = Append(@, c)],
             << <<>> >>, s)

Joined(texts) ==
    FlattenSeq([i \in 1..Len(texts) |-> IF i = 1 THEN texts[1] ELSE <<",">> \o texts[i]])

\* a function object before its first parse
NewFunc == [name |-> <<>>, signature |-> <<>>, params |-> <<>>]

\* <<success, the object afterwards>>: the parameters are appended to those the
\* object has, also when a later one is invalid
Parser(func, sig) ==
    LET open == Find(sig, "(", 1)
        close == Find(sig, ")", 1)
        name == Trimmed(SubSeq(sig, 1, open - 1))
        parts == SplitAtCommas(SubSeq(sig, open + 1, close - 1))
        types == SelectSeq([i \in 1..Len(parts) |-> Trimmed(parts[i])], LAMBDA t : t # <<>>)
        bad == SelectInSeq(types, LAMBDA t : Reset(t) = <<>>)
        good == IF bad = 0 THEN types ELSE SubSeq(types, 1, bad - 1)
        appended == func.params \o [i \in 1..Len(good) |-> Reset(good[i])[1]]
    IN  IF open = NPos \/ close = NPos \/ close <= open THEN <<FALSE, func>>
        ELSE IF bad # 0 THEN <<FALSE, [func EXCEPT !.params = appended]>>
        ELSE <<TRUE, [name |-> name,
                      signature |-> name \o <<"(">> \o Joined(types) \o <<")">>,
                      params |-> appended]>>

GetParamsType(func) == [i \in 1..Len(func.params) |-> func.params[i].strType]
=============================================================================

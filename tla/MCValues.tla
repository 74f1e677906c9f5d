------------------------------- MODULE MCValues -------------------------------
(***************************************************************************)
(* The sequential conversions for TLC.  A behaviour picks one conversion   *)
(* and one input for it and ends: the invariants say what the conversion   *)
(* computes.                                                               *)
(***************************************************************************)
EXTENDS Scale, Abi, AbiType, RefData, Merkle, NodeConfig

VARIABLE input      \* <<the conversion, its arguments>>

Is(conversion) == input[1] = conversion
Arg(i) == input[i + 1]

-----------------------------------------------------------------------------
(* SCALE                                                                   *)

ScaleT(kind) == [kind |-> kind]
ScaleOf(kind, of) == [kind |-> kind, of |-> of]
ScaleInt(size, signed) == [kind |-> "integer", size |-> size, signed |-> signed]

\* around the boundaries of the four modes of a compact integer, as far as the
\* encoder does not throw
CompactCases ==
    {v \in {<<0>>, <<1>>, <<63>>, <<64>>, <<255>>, <<255, 63>>, <<0, 64>>, <<255, 255>>,
            <<0, 0, 1>>, <<255, 255, 255, 63>>, <<0, 0, 0, 64>>, <<255, 255, 255, 255>>,
            <<7, 0, 0, 0, 9>>} \cup {[i \in 1..n |-> n + i] : n \in {8, 66, 67, 68}} :
        EncodesCompact(v)}

Bytes(n) == [i \in 1..n |-> (i * 37) % 256]

SomeVariant == ScaleOf("variant", <<ScaleT("bool"), ScaleT("bytes"), ScaleOf("optional", ScaleInt(1, FALSE))>>)

ScaleCases == <<
    <<ScaleT("compact"), CompactCases>>,
    <<ScaleInt(1, TRUE), -128..127>>,
    <<ScaleInt(1, FALSE), 0..255>>,
    <<ScaleInt(2, TRUE), {-32768, -32767, -257, -256, -255, -1, 0, 1, 255, 256, 32767}>>,
    <<ScaleInt(2, FALSE), {0, 255, 256, 32768, 65535}>>,
    <<ScaleT("bool"), BOOLEAN>>,
    <<ScaleT("optional bool"), {<<>>, <<TRUE>>, <<FALSE>>}>>,
    <<ScaleT("u256"), {<<0>>, <<255>>, <<1, 2, 3>>, [i \in 1..31 |-> 200], [i \in 1..32 |-> i]}>>,
    <<ScaleT("s256"), {Signed(FALSE, <<0>>), Signed(TRUE, <<1>>), Signed(TRUE, <<0, 1>>),
                       Signed(TRUE, [i \in 1..32 |-> IF i = 32 THEN 128 ELSE 0]),
                       Signed(FALSE, [i \in 1..32 |-> IF i = 32 THEN 127 ELSE 255])}>>,
    <<ScaleOf("optional", ScaleInt(1, TRUE)), {<<>>, <<-1>>, <<0>>}>>,
    <<ScaleOf("vector", ScaleT("compact")), {<<>>} \cup {<<a, b>> : a \in CompactCases, b \in CompactCases}>>,
    <<ScaleT("bytes"), {Bytes(n) : n \in {0, 1, 63, 64, 65}}>>,
    <<[kind |-> "fixed bytes", size |-> 4], {Bytes(4)}>>,
    <<ScaleOf("vector", ScaleOf("optional", ScaleOf("vector", ScaleT("bytes")))),
      {<<>>, << <<>>, <<<<>>>> >>, << << <<Bytes(2), <<>> >> >>, <<>> >>}>>,
    <<ScaleOf("map", ScaleOf("tuple", <<ScaleInt(1, FALSE), ScaleT("bytes")>>)),
      {<<>>, << <<1, Bytes(1)>>, <<2, <<>> >> >>}>>,
    <<ScaleOf("tuple", <<ScaleInt(2, TRUE), ScaleOf("vector", ScaleT("bool")), ScaleT("u256")>>),
      {<<-1, <<TRUE, FALSE>>, <<9>> >>, <<300, <<>>, <<0>> >>}>>,
    <<[kind |-> "array", size |-> 2, of |-> ScaleOf("optional", ScaleInt(1, FALSE))],
      {<< <<>>, <<7>> >>, << <<0>>, <<255>> >>}>>,
    <<SomeVariant, {[index |-> 0, value |-> TRUE]}>>,
    <<SomeVariant, {[index |-> 1, value |-> Bytes(3)]}>>,
    <<SomeVariant, {[index |-> 2, value |-> <<>>]}>> >>

PickScale == \E i \in 1..Len(ScaleCases) : \E v \in ScaleCases[i][2] :
                input' = <<"scale", i, v>>

\* A decoder reads back what the encoder wrote, whatever comes behind it in the
\* stream, and leaves exactly that behind: across the four modes of a compact
\* integer, the signs of fixed-width integers and nested types.
ScaleRoundTrip ==
    Is("scale") =>
        LET type == ScaleCases[Arg(1)][1]
            code == ScaleEncode(type, Arg(2))
        IN  \A rest \in {<<>>, <<3>>, <<255, 0>>} :
                /\ ScaleDecode(type, code \o rest, 0) = Ok(Arg(2), Len(code))
                /\ type = ScaleT("s256") => IsSigned(Arg(2)) /\ SignedReadsBack(Arg(2))
                /\ type = ScaleT("compact") =>
                      IsNumber(Arg(2)) /\ CompactReadsBack(Arg(2), <<7>> \o code \o rest, 1)

\* A stream that ends too early is never taken for a value: every proper prefix
\* of an encoding is refused, at whatever depth of the type it was cut.
ScalePrefixFails ==
    Is("scale") =>
        LET type == ScaleCases[Arg(1)][1]
            code == ScaleEncode(type, Arg(2))
        IN  \A n \in 0..Len(code) - 1 :
                /\ ScaleDecode(type, SubSeq(code, 1, n), 0).status # "ok"
                /\ type = ScaleT("compact") => CompactReadsBack(Arg(2), SubSeq(code, 1, n), 0)

-----------------------------------------------------------------------------
(* Text, numbers and fixed bytes                                           *)

SomeBytes == {0, 1, 10, 64, 171, 255}
SomeChars == {"0", "x", "7", "a", "F", "g"}

Strings(set, n) == UNION {[1..m -> set] : m \in 0..n}

PickText ==
    \/ \E b \in Strings(SomeBytes, 3) : input' = <<"bytes", b>>
    \/ \E s \in Strings(SomeChars, 4) : input' = <<"text", s>>
    \/ \E a \in [1..2 -> SomeBytes], b \in [1..2 -> SomeBytes] : input' = <<"numbers", a, b>>

\* Text reads back as the bytes it was written from, in hexadecimal with and
\* without prefix and, unless it is empty, in base64; and a text is refused by fromHexString exactly
\* if isHexString says so, otherwise an odd digit in front is a digit of its own.
TextRoundTrip ==
    /\ Is("bytes") =>
        /\ \A p \in {<<>>, HexPrefix} : HexReadsBack(Arg(1), p)
        /\ Arg(1) # <<>> => Base64Decode(Base64Encode(Arg(1))) = Arg(1)
    /\ Is("text") =>
        LET digits == SubSeq(Arg(1), IF StartsWith(Arg(1), HexPrefix) THEN 3 ELSE 1, Len(Arg(1)))
        IN  FromHexString(Arg(1)) =
                IF ~IsHexString(Arg(1)) THEN <<-1>>
                ELSE ToBigEndian(
                        DigitsOf(FoldLeft(LAMBDA sum, c : 16 * sum + ConvertCharToHexNumber(c), 0, digits)),
                        (Len(digits) + 1) \div 2)

\* FixedBytes are the big-endian numbers of their width: the order, the first
\* bit, the alignment of shorter data, addresses, and the text for JSON all agree
\* with the arithmetic, and a Bloom filter holds the bits of what was shifted in.
FixedBytesNumeric ==
    Is("numbers") =>
        LET a == Arg(1)
            b == Arg(2)
            v == ToArith(a)
            bloom == ShiftBloom(ShiftBloom(Zeros(2), a, 2), b, 2)
        IN  /\ Less(a, b) <=> NatOf(v) < NatOf(ToArith(b))
            /\ LessEqual(a, b) <=> ~Less(b, a)
            /\ NatOf(v) < 2^(16 - FirstBitSet(a))
            /\ v # <<0>> => NatOf(v) >= 2^(15 - FirstBitSet(a))
            /\ FromArith(v, 2) = a
            /\ IsNumber(v) /\ \A n, w \in 0..3 : BigEndianReadsBack(v, n, w)
            /\ \A n \in {2, 4} : Construct(ToCompactBigEndian(v, 0), n, "right") = FromArith(v, n)
            /\ AsAddress(FromAddress(FromArith(v, AddressSize))) = FromArith(v, AddressSize)
            /\ ToAddress(ToHexString(FromArith(v, AddressSize), HexPrefix)) = FromArith(v, AddressSize)
            /\ Left160(Construct(a, Word, "left")) = Construct(a, AddressSize, "left")
            /\ JsonStringToInt(ToJonString(v), 2) = v
            /\ JonStringToFixedBytes(ToJonString(v), 2) = a
            /\ ToArith(bloom) =
                DigitsOf(SumSet({2^BloomIndex(x, i, 2) : x \in {a, b}, i \in 1..2}))
            /\ AndBytes(ComplementBytes(a), b) = XorBytes(OrBytes(a, b), a)

\* FixedBytes.h:472: "The obvious binary operators." of SecureFixedBytes: |= and
\* &= do what they do on the FixedBytes they are derived from.
SecureOperators ==
    Is("numbers") =>
        /\ SecureOr(Arg(1), Arg(2)) = OrBytes(Arg(1), Arg(2))
        /\ SecureAnd(Arg(1), Arg(2)) = AndBytes(Arg(1), Arg(2))

-----------------------------------------------------------------------------
(* ABI                                                                     *)

AbiT(kind) == [kind |-> kind]
AbiOf(kind, of) == [kind |-> kind, of |-> of]
AbiArray(n, of) == [kind |-> "array", size |-> n, of |-> of]
U == AbiT("uint")
S == AbiT("string")

Ones(n) == [i \in 1..n |-> 255]

\* a number of 32 bytes with this one on top
TopByte(top, low) == [i \in 1..32 |-> IF i = 32 THEN top ELSE low]

\* argument lists: static and dynamic types beside and inside each other; no
\* number of int256 below -0x70...0, no static array in a tuple with a dynamic
\* member (MixedTypes has both)
AbiCases == <<
    <<<<U, AbiT("int"), AbiT("bool"), AbiT("address"), AbiT("string32")>>,
      {<<u, Signed(FALSE, <<7>>), FALSE, Bytes(20), Bytes(32)>> : u \in {<<0>>, <<1, 2>>}} \cup
      {<<Ones(32), i, i.neg, Bytes(20), Bytes(32)>> :
            i \in {Signed(TRUE, <<1>>), Signed(TRUE, <<0, 1>>),
                   Signed(FALSE, TopByte(127, 255)), Signed(TRUE, TopByte(112, 0))}}>>,
    <<<<S, U, AbiT("bytes")>>,
      {<<Bytes(m), <<9>>, Bytes(n)>> : m \in {0, 1, 32, 33}, n \in {0, 31, 32, 64}}>>,
    <<<<AbiArray(2, U), S, AbiArray(2, AbiArray(2, U)), U>>,
      {<<<<<<1>>, <<2>>>>, Bytes(n), <<<<<<3>>, <<4>>>>, <<<<5>>, <<6>>>>>>, <<7>>>> : n \in {0, 3}}>>,
    <<<<AbiArray(2, S), AbiOf("vector", U), AbiOf("vector", S)>>,
      {<<<<Bytes(n), Bytes(2)>>, v, w>> :
            n \in {0, 40}, v \in {<<>>, <<<<1>>, <<2>>>>}, w \in {<<>>, <<Bytes(1), Bytes(33)>>}}>>,
    <<<<AbiOf("vector", AbiArray(2, U)), AbiOf("vector", AbiOf("vector", S))>>,
      {<<<<<<<<1>>, <<2>>>>, <<<<3>>, <<4>>>>>>, w>> :
            w \in {<<>>, <<<<>>, <<Bytes(3)>>>>, <<<<Bytes(0), Bytes(32)>>>>}}>>,
    <<<<U, AbiOf("tuple", <<U, S, AbiOf("vector", U)>>), AbiOf("vector", AbiOf("tuple", <<U, U>>))>>,
      {<<<<1>>, <<<<2>>, Bytes(n), <<<<3>>>>>>, v>> :
            n \in {0, 32}, v \in {<<>>, <<<<<<4>>, <<5>>>>, <<<<6>>, <<7>>>>>>}}>> >>

\* the least number of int256, and a string in a tuple behind an array of two words
MixedTypes == <<AbiT("int"), AbiOf("tuple", <<AbiArray(2, U), S>>)>>
MixedValues == <<Signed(TRUE, TopByte(128, 0)), <<<<<<1>>, <<2>>>>, <<97>>>>>>

PickAbi ==
    \/ \E c \in 1..Len(AbiCases) : \E v \in AbiCases[c][2] : input' = <<"abi", c, v>>
    \/ input' = <<"abi mixed", MixedValues, AbiOut(MixedTypes, AbiIn(<<>>, MixedTypes, MixedValues))>>

\* abiOut reads back the arguments abiIn wrote, through static and dynamic types
\* nested in arrays, vectors and tuples, and abiOutByFuncSelector reads the same.
AbiRoundTrip ==
    Is("abi") =>
        LET types == AbiCases[Arg(1)][1]
            data == AbiIn(<<>>, types, Arg(2))
        IN  /\ AbiOut(types, data) = << Arg(2) >>
            /\ Len(data) % Word = 0
            /\ (\A i \in 1..Len(types) : types[i].kind \in FuncSelectorTypes) =>
                    AbiOutByFuncSelector(types, data) = << Arg(2) >>

\* ContractABICodec.h:250: "Class for serialise and deserialize c++ object in
\* Solidity ABI format": what abiIn wrote, abiOut reads back, for every number of
\* int256 and every tuple.
AbiMixedRoundTrip == Is("abi mixed") => Arg(2) = << Arg(1) >>

\* the text of a type, with blanks where the parser trims them
Brackets(e, blank) == <<"[">> \o blank \o e \o blank \o <<"]">>
TypeTexts == {<<>>, <<" ">>, <<"uint">>, <<" ", "string">>, <<"uint", "[", "3", "]", " ">>}

PickAbiType ==
    \/ \E e \in {"uint", "string"}, s \in Strings({"[", "]", "3", " "}, 5) : input' = <<"type", <<e>> \o s>>
    \/ \E e \in {"uint", "bytes"}, x \in Strings({<<>>, <<"0">>, <<"1", "3">>}, 2), blank \in {<<>>, <<" ">>} :
        input' = <<"extents", e, x, blank>>
    \/ \E p \in Strings(TypeTexts, 3) : input' = <<"signature", p>>

\* A text that is accepted as a type has its brackets in pairs and a dimension
\* for each; the dimensions that were written are the ones read, blanks or not;
\* and the signature kept for the selector parses to itself and its parameters.
AbiTypesParse ==
    /\ Is("type") /\ Reset(Arg(1)) # <<>> =>
        LET brackets == SelectSeq(Arg(1), LAMBDA c : c \in {"[", "]"})
        IN  /\ \A i \in 1..Len(brackets) : brackets[i] = IF i % 2 = 1 THEN "[" ELSE "]"
            /\ Len(brackets) = 2 * Len(Reset(Arg(1))[1].extents)
    /\ Is("extents") =>
        LET text == Arg(3) \o <<Arg(1)>> \o FlattenSeq([i \in 1..Len(Arg(2)) |-> Brackets(Arg(2)[i], Arg(3))])
            parsed == Reset(text)
        IN  /\ parsed # <<>>
            /\ parsed[1].extents = [i \in 1..Len(Arg(2)) |-> IF Len(Arg(2)[i]) = 2 THEN 13 ELSE 0]
            /\ Arg(2) # <<>> =>
                LET last == SelectLastInSeq(text, LAMBDA c : c = "[")
                IN  RemoveExtent(parsed[1]).extents = Reset(SubSeq(text, 1, last - 1))[1].extents
            /\ Dynamic(parsed[1]) <=> Arg(1) = "bytes" \/ {<<>>, <<"0">>} \cap ToSet(Arg(2)) # {}
    /\ Is("signature") =>
        LET parsed == Parser(NewFunc, <<" ", "f", "(">> \o Joined(Arg(1)) \o <<")">>)
        IN  /\ parsed[1]
            /\ GetParamsType(parsed[2]) =
                    SelectSeq([i \in 1..Len(Arg(1)) |-> Trimmed(Arg(1)[i])], LAMBDA t : t # <<>>)
            /\ Parser(NewFunc, parsed[2].signature) = parsed

-----------------------------------------------------------------------------
(* References into memory, AMOP messages, Merkle roots                     *)

Memory == <<1, 2, 3, 4, 5, 6>>
Refs == {Ref(s, n) : s \in 1..6, n \in 0..5}

PickRef ==
    \/ \E r \in Refs, s \in Refs :
        /\ InMemory(Memory, r) /\ InMemory(Memory, s)
        /\ input' = <<"populate", r, s>>
    \/ \E n \in {0, 1, 2, 255, 256, 300, TopicMaxLength, TopicMaxLength + 1}, m \in {0, 1, 5} :
        input' = <<"amop", n, m>>
    \/ \E n \in 0..34 \cup {256, 257, 273} : input' = <<"merkle", n>>

\* populate() copies the source as it was, zeroes the rest of the target and
\* leaves the memory around it, also where the two overlap either way.
PopulateCopies == Is("populate") => Populates(Memory, Arg(1), Arg(2))

\* A topic of up to 65535 bytes and its data come back from the message, and a
\* message cut inside the topic is not decoded, while one cut behind it is.
AmopRoundTrip ==
    Is("amop") =>
        /\ AmopReadsBack(Bytes(Arg(1)), Bytes(Arg(2)))
        /\ \A n \in {0, 1, 2, 3, Arg(1) + 1, Arg(1) + 2, Arg(1) + 4} :
            AmopCutAt(Bytes(Arg(1)), Bytes(Arg(2)), n)

\* The parents calculateMerkleProof lists prove every leaf against the root
\* calculateMerkleProofRoot returns: each is the hash of its children, and the
\* leaves are under the root; the root changes with every leaf.
MerkleProofReachesRoot ==
    Is("merkle") =>
        LET hashes == [i \in 1..Arg(1) |-> i % 3]
            leaves == EncodeToCalculateRoot(hashes)
            root == CalculateMerkleProofRoot(leaves)
            proof == CalculateMerkleProof(leaves)
            RECURSIVE Below(_, _)
            Below(nodes, depth) ==
                IF depth = 0 THEN nodes
                ELSE Below(UNION {ToSet(proof[p]) : p \in nodes \cap DOMAIN proof} \cup nodes, depth - 1)
        IN  /\ \A p \in DOMAIN proof : p = Hash(FlattenSeq(proof[p]))
            /\ leaves # <<>> => ToSet(leaves) \subseteq Below({root}, 4)
            /\ \A i \in {1, 2, 16, 17, Arg(1)} \cap 1..Arg(1) :
                CalculateTransactionRoot([hashes EXCEPT ![i] = 9], <<>>) # root
            /\ \A r \in {CalculateTransactionRoot(<<>>, hashes), CalculateReceiptRoot(hashes)} :
                r = CalculateTransactionRoot(hashes, <<>>)

-----------------------------------------------------------------------------
(* Node configuration                                                      *)

Texts(key, values) == {key :> v : v \in values}
Numbers(key, ns) == Texts(key, {<<n>> : n \in ns} \cup {<<>>})
OneNode == "consensus.node" :> <<<<<<"a", "B">>>>>>

ConfigCases == <<
    <<"config", {<<>>}
        \cup Texts("chain.group_id", {"g1"}) \cup Texts("chain.chain_id", {"c1", "c-1", ""})
        \cup Numbers("chain.block_limit", {-1, 0, 1, 5000, 5001})
        \cup Numbers("txpool.limit", {-5, 0, 1}) \cup Numbers("txpool.notify_worker_num", {0, 3})
        \cup Numbers("txpool.verify_worker_num", {0, 3})
        \cup Numbers("consensus.min_seal_time", {-1, 0, 1, 3000, 3001})
        \cup Numbers("consensus.checkpoint_timeout", {-1, 2999, 3000})
        \cup Numbers("rpc.listen_port", {70000}) \cup Numbers("p2p.listen_port", {1})
        \cup Texts("storage.data_path", {<<"disk">>}) \cup Texts("cert.ca_path", {"conf"})
        \cup Texts("security.private_key_path", {"k.pem"}) \cup Texts("executor.is_wasm", {TRUE})
        \cup {("chain.group_id" :> "g2") @@ ("txpool.limit" :> <<0>>)}>>,
    <<"genesis", {<<>>, OneNode}
        \cup {OneNode @@ c : c \in Numbers("consensus.block_tx_count_limit", {-1, 0, 7})
                \cup Numbers("tx.gas_limit", {-1, 100000, 100001})
                \cup Numbers("consensus.leader_period", {-1, 0, 2})
                \cup Texts("consensus.consensus_type", {"rpbft"})}
        \cup Texts("consensus.node", {<<>>, <<<<<<"0", "x", "1", "2">>, <<3>>>>, <<<<"5">>, <<4>>, "x">>>>,
                <<<<<<"a">>, <<0>>>>>>, <<<<<<"a">>, <<>>>>>>, <<<<<<"a">>>>, <<<<"g">>>>>>})>>,
    <<"service", Texts("service.rpc", {<<"app", "rpc">>})
        \cup {("service.rpc" :> r) @@ ("service.gateway" :> <<"app", "gateway">>) :
                r \in {<<"app", "rpc">>, <<"app">>, <<"app", "r-1">>, <<"app", "", "rpc">>}}>>,
    <<"node service", {<<>>} \cup Texts("service.node_name", {"n1", "c-1"})
        \cup Texts("service.txpool", {<<"own">>})>> >>

\* a new object loaded once, and then once more
PickConfig ==
    \E i \in 1..Len(ConfigCases) : \E pt \in ConfigCases[i][2] :
        input' = <<"load", Load(NewNodeConfig, ConfigCases[i][1], pt), ConfigCases[i][1], pt>>

LoadAgain ==
    /\ Is("load")
    /\ \E i \in 1..Len(ConfigCases) : \E pt \in ConfigCases[i][2] :
        input' = <<"reload", Arg(1), Load(Arg(1), ConfigCases[i][1], pt), ConfigCases[i][1], pt>>

\* A load that does not throw gives what it would give on a new object of the
\* same chain, whatever an earlier load, complete or cut short by a throw, left
\* behind.
LoadForgetsHistory ==
    Is("reload") =>
        LoadForgets(Arg(1), [NewNodeConfig EXCEPT !.chainId = Arg(1).chainId], Arg(3), Arg(4))

\* the least number each message of NodeConfig.cpp asks for
AskedFor ==
    ("txpool.limit" :> 1) @@ ("txpool.notify_worker_num" :> 1) @@ ("txpool.verify_worker_num" :> 1)
    @@ ("chain.block_limit" :> 1) @@ ("consensus.min_seal_time" :> 1)
    @@ ("consensus.checkpoint_timeout" :> 3000)

\* NodeConfig.cpp:288: "Please set txpool.limit to positive !", and the like at
\* 294, 301, 322, 343 and 360: loadConfig throws for a file with a smaller number.
SmallNumbersRefused ==
    Is("load") /\ Arg(2) = "config" /\ ~Arg(1).thrown =>
        \A key \in DOMAIN AskedFor \cap DOMAIN Arg(3) : Arg(3)[key][1] >= AskedFor[key]

-----------------------------------------------------------------------------

ValuesInit == input = <<"none">>

ValuesNext ==
    \/ Is("none") /\ (PickScale \/ PickText \/ PickAbi \/ PickAbiType \/ PickRef \/ PickConfig)
    \/ LoadAgain

ValuesSpec == ValuesInit /\ [][ValuesNext]_input
=============================================================================

-------------------------------- MODULE Block --------------------------------
(***************************************************************************)
(* The protobuf block (PBBlock, PBBlockHeader, PBTransaction,              *)
(* PBTransactionReceipt, PBTransactionMetaData).  Every object keeps its   *)
(* fields and a protobuf message that caches their encoding: a setter      *)
(* clears the cache it makes stale, and encode() fills only the caches     *)
(* that are empty.  A block, its header and its transactions are shared    *)
(* pointers, each changed through its own setters between two encodings.   *)
(*                                                                         *)
(* A transaction's hash fields and a receipt's fields never change once    *)
(* made, so an object stands for them.  Of the header's fields "number"    *)
(* stands for those clear() resets and "timestamp" for those it keeps.     *)
(***************************************************************************)
EXTENDS Naturals, Sequences, Functions

CONSTANTS
    Txs, Receipts,      \* the objects callers create
    FieldValues,        \* values of a header field, a signature, a nonce
    MaxBlockCalls       \* bound: calls made on the objects

ASSUME BlockAssumption == 0 \in FieldValues

VARIABLES
    header,         \* the PBBlockHeader
    tx,             \* PBTransaction objects by name
    receiptVersion, \* PBTransactionReceipt: <<version>> in the message, <<>> before it is made
    receiptEncoded, \* receipts whose hash fields are in the message
    block,          \* PBBlock: the objects it points to
    rawBlock,       \* PBBlock::m_pbRawBlock
    blockCalls

blockVars == << header, tx, receiptVersion, receiptEncoded, block, rawBlock, blockCalls >>

None == "none"
Fields == {"number", "timestamp"}
SignatureLists == {<<>>} \cup {<<v>> : v \in FieldValues}

\* PBBlockHeader::m_number has no initial value
BlockInit ==
    /\ \E n \in FieldValues :
        header = [fields |-> [number |-> n, timestamp |-> 0], signatureList |-> <<>>,
                  hashfieldsdata |-> <<>>, signaturelist |-> <<>>]
    /\ tx = [t \in Txs |-> <<>>]
    /\ receiptVersion = [r \in Receipts |-> <<>>]
    /\ receiptEncoded = {}
    /\ block = [hasHeader |-> FALSE, transactions |-> <<>>, receipts |-> <<>>,
                metaData |-> <<>>, nonceList |-> <<>>]
    /\ rawBlock = [header |-> <<>>, transactions |-> <<>>, receipts |-> <<>>,
                   metaData |-> <<>>, nonceList |-> <<>>]
    /\ blockCalls = 0

Call == blockCalls < MaxBlockCalls /\ blockCalls' = blockCalls + 1

-----------------------------------------------------------------------------
(* PBBlockHeader                                                           *)

\* a setter that forgets noteDirty()
SetFieldKeepsCache(f, v) == header' = [header EXCEPT !.fields[f] = v]

SetField(f, v) ==
    header' = [header EXCEPT !.fields[f] = v, !.hashfieldsdata = <<>>]

SetSignatureList(s) == header' = [header EXCEPT !.signatureList = s, !.signaturelist = <<>>]

\* clear() keeps the timestamp, the weights and the list of signatures
ClearHeader ==
    header' = [header EXCEPT !.fields["number"] = 0, !.hashfieldsdata = <<>>, !.signaturelist = <<>>]

EncodeHashFields(h) ==
    IF h.hashfieldsdata # <<>> THEN h ELSE [h EXCEPT !.hashfieldsdata = <<h.fields>>]

EncodeSignatureList(h) ==
    IF h.signaturelist # <<>> THEN h ELSE [h EXCEPT !.signaturelist = h.signatureList]

EncodeHeader(h) == EncodeSignatureList(EncodeHashFields(h))

\* the bytes of an encoded header, and a new header made from them
HeaderBytes(h) == [fields |-> h.hashfieldsdata[1], signatureList |-> h.signaturelist]
DecodeHeader(d) ==
    [fields |-> d.fields, signatureList |-> d.signatureList,
     hashfieldsdata |-> <<d.fields>>, signaturelist |-> d.signatureList]

HeaderStep ==
    /\ Call
    /\ \/ \E f \in Fields, v \in FieldValues : SetField(f, v)
       \/ \E s \in SignatureLists : SetSignatureList(s)
       \/ ClearHeader
       \/ header' = EncodeHashFields(header)       \* hash()
       \/ header' = EncodeHeader(header)
    /\ UNCHANGED << tx, receiptVersion, receiptEncoded, block, rawBlock >>

-----------------------------------------------------------------------------
(* PBTransaction and PBTransactionReceipt                                  *)

NewTransaction(t) == [data |-> [of |-> t, signature |-> None, importTime |-> 0], dataCache |-> <<>>]

UpdateSignature(o) == [o EXCEPT !.data.signature = "signed", !.dataCache = <<>>]

\* PBTransactionFactory::createTransaction: signed when a key pair is given
CreateTransaction(t) ==
    /\ Call
    /\ tx[t] = <<>>
    /\ \E o \in {NewTransaction(t), UpdateSignature(NewTransaction(t))} : tx' = [tx EXCEPT ![t] = <<o>>]
    /\ UNCHANGED << header, receiptVersion, receiptEncoded, block, rawBlock >>

\* setImportTime, setAttribute, setSource: the cache is left as it is
SetImportTime(t) ==
    /\ Call
    /\ tx[t] # <<>>
    /\ \E v \in FieldValues : tx' = [tx EXCEPT ![t][1].data.importTime = v]
    /\ UNCHANGED << header, receiptVersion, receiptEncoded, block, rawBlock >>

EncodeTransaction(o) == IF o.dataCache # <<>> THEN o ELSE [o EXCEPT !.dataCache = <<o.data>>]
TxBytes(o) == EncodeTransaction(o).dataCache[1]

\* verify(): the sender is recovered from a signature over the hash
VerifyTransaction(d) == d.signature = "signed"

\* the transaction made of its bytes keeps them as its cache
DecodeTransaction(d) == [data |-> d, dataCache |-> <<d>>]

CreateReceipt(r) ==
    /\ Call
    /\ receiptVersion[r] = <<>>
    /\ receiptVersion' = [receiptVersion EXCEPT ![r] = <<0>>]
    /\ UNCHANGED << header, tx, receiptEncoded, block, rawBlock >>

\* encodeHashFields() of a receipt also writes m_version, which no constructor
\* sets, over the version of the message
EncodeReceipts(rs) ==
    /\ receiptEncoded' = receiptEncoded \cup rs
    /\ \E v \in FieldValues :
        receiptVersion' = [r \in Receipts |->
            IF r \in rs \ receiptEncoded THEN <<v>> ELSE receiptVersion[r]]

-----------------------------------------------------------------------------
(* PBBlock                                                                 *)

\* an append that forgets clearTransactionsCache()
AppendTransactionKeepsCache(t) ==
    /\ block' = [block EXCEPT !.transactions = Append(@, t)]
    /\ UNCHANGED rawBlock

AppendTransaction(t) ==
    /\ block' = [block EXCEPT !.transactions = Append(@, t)]
    /\ rawBlock' = [rawBlock EXCEPT !.transactions = <<>>]

\* the caller ensures the index
SetTransaction(i, t) ==
    /\ block' = [block EXCEPT !.transactions[i] = t]
    /\ rawBlock' = [rawBlock EXCEPT !.transactions = <<>>]

AppendReceipt(r) ==
    /\ block' = [block EXCEPT !.receipts = Append(@, r)]
    /\ rawBlock' = [rawBlock EXCEPT !.receipts = <<>>]

SetReceipt(i, r) ==
    /\ block' = [block EXCEPT !.receipts[i] = r]
    /\ rawBlock' = [rawBlock EXCEPT !.receipts = <<>>]

AppendTransactionMetaData(t) ==
    /\ block' = [block EXCEPT !.metaData = Append(@, t)]
    /\ UNCHANGED rawBlock

SetNonceList(s) ==
    /\ block' = [block EXCEPT !.nonceList = s]
    /\ rawBlock' = [rawBlock EXCEPT !.nonceList = <<>>]

SetBlockHeader ==
    /\ block' = [block EXCEPT !.hasHeader = TRUE]
    /\ UNCHANGED rawBlock

BlockStep ==
    /\ Call
    /\ \/ \E t \in {u \in Txs : tx[u] # <<>>} :
            \/ AppendTransaction(t)
            \/ \E i \in 1..Len(block.transactions) : SetTransaction(i, t)
            \/ AppendTransactionMetaData(t)
       \/ \E r \in {q \in Receipts : receiptVersion[q] # <<>>} :
            \/ AppendReceipt(r)
            \/ \E i \in 1..Len(block.receipts) : SetReceipt(i, r)
       \/ \E s \in SignatureLists : SetNonceList(s)
       \/ SetBlockHeader
    /\ UNCHANGED << header, tx, receiptVersion, receiptEncoded >>

\* encode(): the header and the metadata always, the lists whose cache is empty
EncodeTransactions ==
    IF block.transactions = <<>> \/ rawBlock.transactions # <<>>
    THEN rawBlock.transactions
    ELSE [i \in 1..Len(block.transactions) |-> TxBytes(tx[block.transactions[i]][1])]

EncodeReceiptList ==
    IF block.receipts = <<>> \/ rawBlock.receipts # <<>> THEN rawBlock.receipts ELSE block.receipts

EncodeNonceList ==
    IF block.nonceList = <<>> \/ rawBlock.nonceList # <<>> THEN rawBlock.nonceList ELSE block.nonceList

EncodedBlock ==
    [header |-> IF block.hasHeader THEN << HeaderBytes(EncodeHeader(header)) >> ELSE rawBlock.header,
     transactions |-> EncodeTransactions,
     receipts |-> EncodeReceiptList,
     metaData |-> block.metaData,
     nonceList |-> EncodeNonceList]

EncodeBlock ==
    /\ Call
    /\ rawBlock' = EncodedBlock
    /\ header' = IF block.hasHeader THEN EncodeHeader(header) ELSE header
    /\ LET encoded == IF rawBlock.transactions = <<>> THEN Range(block.transactions) ELSE {}
       IN  tx' = [t \in Txs |-> IF t \in encoded THEN << EncodeTransaction(tx[t][1]) >> ELSE tx[t]]
    /\ EncodeReceipts(IF rawBlock.receipts = <<>> THEN Range(block.receipts) ELSE {})
    /\ UNCHANGED block

\* the constructor of a block from its bytes: <<>> when a signature does not verify
DecodeBlock(d, checkSig) ==
    IF checkSig /\ \E i \in 1..Len(d.transactions) : ~VerifyTransaction(d.transactions[i])
    THEN <<>>
    ELSE << [header |-> [i \in 1..Len(d.header) |-> DecodeHeader(d.header[i])],
             transactions |-> [i \in 1..Len(d.transactions) |-> DecodeTransaction(d.transactions[i])],
             receipts |-> d.receipts, metaData |-> d.metaData, nonceList |-> d.nonceList] >>

BlockNext ==
    \/ HeaderStep
    \/ \E t \in Txs : CreateTransaction(t) \/ SetImportTime(t)
    \/ \E r \in Receipts : CreateReceipt(r)
    \/ BlockStep
    \/ EncodeBlock

-----------------------------------------------------------------------------

\* hash() and encode() of a header speak of its present fields and signatures,
\* whatever was encoded before the last setter: a cache that is filled is fresh.
HeaderCachesFresh ==
    /\ header.hashfieldsdata # <<>> => header.hashfieldsdata = <<header.fields>>
    /\ header.signaturelist # <<>> => header.signaturelist = header.signatureList

\* However setters and encodings of the block and of its parts interleave, a block
\* made from the bytes encode() would give now has the header, the transactions
\* with their signatures, the receipts, the metadata and the nonces of this one;
\* and its signatures verify exactly if every transaction was signed.
BlockReadsBack ==
    LET made == DecodeBlock(EncodedBlock, FALSE)[1]
        ts == block.transactions
    IN  /\ block.hasHeader =>
            /\ made.header[1].fields = header.fields
            /\ made.header[1].signatureList = header.signatureList
        /\ Len(made.transactions) = Len(ts)
        /\ \A i \in 1..Len(ts) :
            /\ made.transactions[i].data.of = ts[i]
            /\ made.transactions[i].data.signature = tx[ts[i]][1].data.signature
        /\ made.receipts = block.receipts
        /\ made.metaData = block.metaData
        /\ made.nonceList = block.nonceList
        /\ DecodeBlock(EncodedBlock, TRUE) # <<>> <=>
            \A i \in 1..Len(ts) : tx[ts[i]][1].data.signature = "signed"
=============================================================================

---------------------------- MODULE LedgerProofs ----------------------------
(***************************************************************************)
(* The worker thread, the ledger and its blocks, for any callers, contents *)
(* and number of calls.                                                    *)
(* Worker: as long as calls do not overlap, a stopped worker is quiet.     *)
(* LedgerConfigFetcher over the ledger: what it fetches is one block of    *)
(* the ledger, whatever is committed meanwhile.                            *)
(* Block: the caches of a header, a transaction and a receipt are never    *)
(* stale, and an encoded block reads back as itself.                       *)
(***************************************************************************)
EXTENDS Worker, LedgerConfigFetcher, Block, TLAPS

LEMMA ElementOfSeq ==
  ASSUME NEW S, NEW s \in Seq(S), NEW i \in 1 .. Len(s)
  PROVE  s[i] \in S
OBVIOUS

LEMMA LenProperties ==
  ASSUME NEW S, NEW s \in Seq(S)
  PROVE  /\ Len(s) \in Nat
         /\ s \in [1 .. Len(s) -> S]
         /\ DOMAIN s = 1 .. Len(s)
OBVIOUS

LEMMA AppendProperties ==
  ASSUME NEW S, NEW s \in Seq(S), NEW e \in S
  PROVE  /\ Append(s, e) \in Seq(S)
         /\ Append(s, e) # << >>
         /\ Len(Append(s, e)) = Len(s) + 1
         /\ \A i \in 1 .. Len(s) : Append(s, e)[i] = s[i]
         /\ Append(s, e)[Len(s) + 1] = e
OBVIOUS

-----------------------------------------------------------------------------
(* Block                                                                   *)

BlockSpec == BlockInit /\ [][BlockNext]_blockVars

HeaderFields == [Fields -> FieldValues]
HeaderRecords ==
    [fields : HeaderFields, signatureList : SignatureLists,
     hashfieldsdata : {<<>>} \cup {<<f>> : f \in HeaderFields}, signaturelist : SignatureLists]

TxData == [of : Txs, signature : {None, "signed"}, importTime : FieldValues]
TxObjects == [data : TxData, dataCache : {<<>>} \cup {<<d>> : d \in TxData}]

EncodedHeaders == [fields : HeaderFields, signatureList : SignatureLists]

TxSeqs == Seq(Txs)
ReceiptSeqs == Seq(Receipts)
TxDataSeqs == Seq(TxData)

BlockRecords ==
    [hasHeader : BOOLEAN, transactions : TxSeqs, receipts : ReceiptSeqs,
     metaData : TxSeqs, nonceList : SignatureLists]
RawBlocks ==
    [header : {<<>>} \cup {<<b>> : b \in EncodedHeaders}, transactions : TxDataSeqs,
     receipts : ReceiptSeqs, metaData : TxSeqs, nonceList : SignatureLists]

BlockTypes ==
    /\ header \in HeaderRecords
    /\ tx \in [Txs -> {<<>>} \cup {<<o>> : o \in TxObjects}]
    /\ block \in BlockRecords
    /\ rawBlock \in RawBlocks

\* the bytes d are those of the transaction object o, but for what a node
\* sets on a transaction it holds
SameTransaction(d, o) == d.of = o.data.of /\ d.signature = o.data.signature

\* a transaction object is the one it was made as, and so is its cache
TxCachesFresh ==
    \A t \in Txs : tx[t] # <<>> =>
        /\ tx[t][1].data.of = t
        /\ tx[t][1].dataCache # <<>> => SameTransaction(tx[t][1].dataCache[1], tx[t][1])

\* what a block points to was created
BlockMembers == \A i \in 1..Len(block.transactions) : tx[block.transactions[i]] # <<>>

\* a list the block caches is empty or that of the block
ListCachesFresh ==
    /\ rawBlock.transactions # <<>> =>
        /\ Len(rawBlock.transactions) = Len(block.transactions)
        /\ \A i \in 1..Len(block.transactions) :
            SameTransaction(rawBlock.transactions[i], tx[block.transactions[i]][1])
    /\ rawBlock.receipts \in {<<>>, block.receipts}
    /\ rawBlock.nonceList \in {<<>>, block.nonceList}

BlockInv ==
    /\ BlockTypes
    /\ HeaderCachesFresh /\ TxCachesFresh /\ BlockMembers /\ ListCachesFresh

LEMMA BlockInitInv == BlockInit => BlockInv
  <1> SUFFICES ASSUME BlockInit PROVE BlockInv
    OBVIOUS
  <1> USE DEF BlockInit
  <1>1. PICK n \in FieldValues :
            header = [fields |-> [number |-> n, timestamp |-> 0], signatureList |-> <<>>,
                      hashfieldsdata |-> <<>>, signaturelist |-> <<>>]
    OBVIOUS
  <1>2. [number |-> n, timestamp |-> 0] \in HeaderFields
    BY BlockAssumption, SMTT(30) DEF HeaderFields, Fields
  <1>3. <<>> \in SignatureLists
    BY DEF SignatureLists
  <1>4. header \in HeaderRecords
    BY <1>1, <1>2, <1>3, SMTT(30) DEF HeaderRecords
  <1>5. BlockTypes
    BY <1>3, <1>4 DEF BlockTypes, BlockRecords, RawBlocks, TxSeqs, ReceiptSeqs, TxDataSeqs
  <1> QED
    BY <1>1, <1>5, SMTT(30) DEF BlockInv, HeaderCachesFresh, TxCachesFresh, BlockMembers, ListCachesFresh

\* what encode() leaves in a header whose caches were fresh
LEMMA EncodeHashFieldsFresh ==
    ASSUME NEW h \in HeaderRecords, h.hashfieldsdata # <<>> => h.hashfieldsdata = <<h.fields>>
    PROVE  /\ EncodeHashFields(h) \in HeaderRecords
           /\ EncodeHashFields(h).fields = h.fields
           /\ EncodeHashFields(h).signatureList = h.signatureList
           /\ EncodeHashFields(h).signaturelist = h.signaturelist
           /\ EncodeHashFields(h).hashfieldsdata = <<h.fields>>
  BY DEF EncodeHashFields, HeaderRecords

LEMMA EncodeHeaderFresh ==
    ASSUME NEW h \in HeaderRecords, h.hashfieldsdata # <<>> => h.hashfieldsdata = <<h.fields>>,
           h.signaturelist # <<>> => h.signaturelist = h.signatureList
    PROVE  /\ EncodeHeader(h) \in HeaderRecords
           /\ EncodeHeader(h).fields = h.fields
           /\ EncodeHeader(h).signatureList = h.signatureList
           /\ EncodeHeader(h).hashfieldsdata = <<h.fields>>
           /\ EncodeHeader(h).signaturelist = h.signatureList
  <1> DEFINE e == EncodeHashFields(h)
  <1>1. /\ e \in HeaderRecords /\ e.fields = h.fields /\ e.signatureList = h.signatureList
        /\ e.signaturelist = h.signaturelist /\ e.hashfieldsdata = <<h.fields>>
    BY EncodeHashFieldsFresh
  <1>2. EncodeHeader(h) = EncodeSignatureList(e)
    BY DEF EncodeHeader
  <1> HIDE DEF e
  <1>3. CASE e.signaturelist # <<>>
    BY <1>1, <1>2, <1>3 DEF EncodeSignatureList
  <1>4. CASE e.signaturelist = <<>>
    <2>1. EncodeHeader(h) = [e EXCEPT !.signaturelist = h.signatureList]
      BY <1>1, <1>2, <1>4, SMTT(30) DEF EncodeSignatureList
    <2> QED
      BY <1>1, <2>1 DEF HeaderRecords
  <1> QED
    BY <1>3, <1>4

LEMMA HeaderStepKeepsBlockInv ==
    ASSUME BlockInv, HeaderStep
    PROVE  BlockInv'
  <1> USE DEF BlockInv
  <1>1. tx' = tx /\ block' = block /\ rawBlock' = rawBlock
    BY DEF HeaderStep
  <1>2. header' \in HeaderRecords /\ HeaderCachesFresh'
    <2>1. header \in HeaderRecords
      BY DEF BlockTypes
    <2>2. ASSUME NEW f \in Fields, NEW v \in FieldValues, SetField(f, v)
          PROVE  header' \in HeaderRecords /\ HeaderCachesFresh'
      <3>1. [header.fields EXCEPT ![f] = v] \in HeaderFields
        BY <2>1 DEF HeaderFields, HeaderRecords
      <3>2. header' = [header EXCEPT !.fields = [header.fields EXCEPT ![f] = v], !.hashfieldsdata = <<>>]
        BY <2>2 DEF SetField
      <3> QED
        BY <2>1, <3>1, <3>2, ZenonT(30) DEF HeaderRecords, HeaderCachesFresh
    <2>3. ASSUME NEW s \in SignatureLists, SetSignatureList(s)
          PROVE  header' \in HeaderRecords /\ HeaderCachesFresh'
      <3>1. <<>> \in SignatureLists
        BY DEF SignatureLists
      <3> QED
        BY <2>1, <2>3, <3>1, ZenonT(30) DEF SetSignatureList, HeaderRecords, HeaderCachesFresh
    <2>4. ASSUME ClearHeader PROVE header' \in HeaderRecords /\ HeaderCachesFresh'
      <3>1. [header.fields EXCEPT !["number"] = 0] \in HeaderFields /\ <<>> \in SignatureLists
        BY <2>1, BlockAssumption, ZenonT(30) DEF HeaderFields, HeaderRecords, SignatureLists
      <3>2. header' = [header EXCEPT !.fields = [header.fields EXCEPT !["number"] = 0],
                                     !.hashfieldsdata = <<>>, !.signaturelist = <<>>]
        BY <2>4 DEF ClearHeader
      <3> QED
        BY <2>1, <3>1, <3>2, ZenonT(30) DEF HeaderRecords, HeaderCachesFresh
    <2>5. ASSUME header' = EncodeHashFields(header)
          PROVE  header' \in HeaderRecords /\ HeaderCachesFresh'
      BY <2>1, <2>5, EncodeHashFieldsFresh DEF HeaderCachesFresh
    <2>6. ASSUME header' = EncodeHeader(header)
          PROVE  header' \in HeaderRecords /\ HeaderCachesFresh'
      BY <2>1, <2>6, EncodeHeaderFresh DEF HeaderCachesFresh
    <2> QED
      BY <2>2, <2>3, <2>4, <2>5, <2>6 DEF HeaderStep
  <1> QED
    BY <1>1, <1>2 DEF BlockTypes, TxCachesFresh, BlockMembers, ListCachesFresh

\* a step that changes transaction objects, but none that exists in what it
\* is or in its signature, keeps the caches of the block fresh
LEMMA TxStepKeepsBlockInv ==
    ASSUME BlockInv, header' = header, block' = block, rawBlock' = rawBlock,
           tx' \in [Txs -> {<<>>} \cup {<<o>> : o \in TxObjects}], TxCachesFresh',
           \A t \in Txs : tx[t] # <<>> =>
               tx'[t] # <<>> /\ tx'[t][1].data.of = tx[t][1].data.of
                             /\ tx'[t][1].data.signature = tx[t][1].data.signature
    PROVE  BlockInv'
  <1> USE DEF BlockInv
  <1>1. \A i \in 1..Len(block.transactions) : block.transactions[i] \in Txs
    BY ElementOfSeq DEF BlockTypes, BlockRecords, TxSeqs
  <1>2. BlockMembers'
    BY <1>1 DEF BlockMembers
  <1>3. ListCachesFresh'
    <2>1. ASSUME rawBlock.transactions # <<>>, NEW i \in 1..Len(block.transactions)
          PROVE  SameTransaction(rawBlock.transactions[i], tx'[block.transactions[i]][1])
      BY <1>1, <2>1, SMTT(30) DEF ListCachesFresh, BlockMembers, SameTransaction
    <2> QED
      BY <2>1, SMTT(30) DEF ListCachesFresh
  <1> QED
    BY <1>2, <1>3 DEF BlockTypes, HeaderCachesFresh

LEMMA CreateTransactionKeepsBlockInv ==
    ASSUME BlockInv, NEW t \in Txs, CreateTransaction(t)
    PROVE  BlockInv'
  <1> USE DEF BlockInv
  <1> DEFINE d == [of |-> t, signature |-> None, importTime |-> 0]
             signed == [of |-> t, signature |-> "signed", importTime |-> 0]
  <1>1. d \in TxData /\ signed \in TxData
    BY BlockAssumption DEF TxData
  <1>2. NewTransaction(t) = [data |-> d, dataCache |-> <<>>]
    BY DEF NewTransaction
  <1>3. /\ UpdateSignature(NewTransaction(t)) \in TxObjects
        /\ UpdateSignature(NewTransaction(t)).data = signed
        /\ UpdateSignature(NewTransaction(t)).dataCache = <<>>
    <2>1. [d EXCEPT !.signature = "signed"] = signed
      OBVIOUS
    <2> HIDE DEF d, signed
    <2>2. PICK o \in TxObjects : o = NewTransaction(t) /\ o.data = d
      BY <1>1, <1>2 DEF TxObjects
    <2>3. UpdateSignature(o) = [o EXCEPT !.data = signed, !.dataCache = <<>>]
      BY <2>1, <2>2, ZenonT(30) DEF UpdateSignature
    <2>4. /\ UpdateSignature(o) \in TxObjects
          /\ UpdateSignature(o).data = signed /\ UpdateSignature(o).dataCache = <<>>
      BY <1>1, <2>3, ZenonT(30) DEF TxObjects
    <2> QED
      BY <2>2, <2>4
  <1>4. PICK o \in TxObjects : /\ tx' = [tx EXCEPT ![t] = <<o>>]
                               /\ o.data.of = t /\ o.dataCache = <<>>
    <2>1. \A e \in TxData : [data |-> e, dataCache |-> <<>>] \in TxObjects
      BY DEF TxObjects
    <2>2. \E o \in {NewTransaction(t), UpdateSignature(NewTransaction(t))} : tx' = [tx EXCEPT ![t] = <<o>>]
      BY ZenonT(30) DEF CreateTransaction
    <2>3. d.of = t /\ signed.of = t
      OBVIOUS
    <2> HIDE DEF d, signed
    <2>4. /\ NewTransaction(t) \in TxObjects /\ NewTransaction(t).data.of = t
          /\ NewTransaction(t).dataCache = <<>>
      BY <1>1, <1>2, <2>1, <2>3
    <2>5. UpdateSignature(NewTransaction(t)).data.of = t
      BY <1>3, <2>3
    <2> QED
      BY <1>3, <2>2, <2>4, <2>5, ZenonT(30)
  <1>5. tx[t] = <<>> /\ header' = header /\ block' = block /\ rawBlock' = rawBlock
    BY DEF CreateTransaction
  <1>6. tx' \in [Txs -> {<<>>} \cup {<<p>> : p \in TxObjects}]
    BY <1>4 DEF BlockTypes
  <1>7. \A u \in Txs : tx'[u] = IF u = t THEN <<o>> ELSE tx[u]
    BY <1>4 DEF BlockTypes
  <1>8. TxCachesFresh'
    BY <1>4, <1>7, SMTT(30) DEF TxCachesFresh
  <1> QED
    BY <1>5, <1>6, <1>7, <1>8, TxStepKeepsBlockInv

LEMMA SetImportTimeKeepsBlockInv ==
    ASSUME BlockInv, NEW t \in Txs, SetImportTime(t)
    PROVE  BlockInv'
  <1> USE DEF BlockInv
  <1>1. PICK v \in FieldValues : tx' = [tx EXCEPT ![t][1].data.importTime = v]
    BY ZenonT(30) DEF SetImportTime
  <1>2. tx[t] # <<>> /\ header' = header /\ block' = block /\ rawBlock' = rawBlock
    BY DEF SetImportTime
  <1>3. PICK o \in TxObjects : tx[t] = <<o>>
    BY <1>2 DEF BlockTypes
  <1> DEFINE d == [o.data EXCEPT !.importTime = v]
             p == [o EXCEPT !.data = d]
  <1>4. d \in TxData /\ d.of = o.data.of /\ d.signature = o.data.signature
    BY DEF TxObjects, TxData
  <1>5. p \in TxObjects /\ p.data = d /\ p.dataCache = o.dataCache
    BY <1>4 DEF TxObjects
  <1>6. tx' = [tx EXCEPT ![t] = <<p>>]
    <2>1. tx' = [tx EXCEPT ![t] = [tx[t] EXCEPT ![1] = [tx[t][1] EXCEPT !.data = [tx[t][1].data EXCEPT !.importTime = v]]]]
      BY <1>1
    <2>2. tx' = [tx EXCEPT ![t] = [<<o>> EXCEPT ![1] = p]]
      BY <1>3, <2>1
    <2>3. \A q : [<<o>> EXCEPT ![1] = q] = <<q>>
      OBVIOUS
    <2> QED
      BY <2>2, <2>3, ZenonT(30)
  <1> HIDE DEF p, d
  <1>7. tx' \in [Txs -> {<<>>} \cup {<<q>> : q \in TxObjects}]
    BY <1>5, <1>6 DEF BlockTypes
  <1>8. \A u \in Txs : tx'[u] = IF u = t THEN <<p>> ELSE tx[u]
    BY <1>6, SMTT(30) DEF BlockTypes
  <1>9. TxCachesFresh'
    BY <1>3, <1>4, <1>5, <1>8, SMTT(30) DEF TxCachesFresh, SameTransaction
  <1> QED
    BY <1>2, <1>3, <1>4, <1>5, <1>7, <1>8, <1>9, TxStepKeepsBlockInv

LEMMA CreateReceiptKeepsBlockInv ==
    ASSUME BlockInv, NEW r \in Receipts, CreateReceipt(r)
    PROVE  BlockInv'
  BY ZenonT(30) DEF BlockInv, CreateReceipt, BlockTypes, HeaderCachesFresh, TxCachesFresh, BlockMembers,
         ListCachesFresh

\* a block whose transactions change forgets their bytes
LEMMA ChangeTransactions ==
    ASSUME BlockInv, NEW ts \in TxSeqs,
           \A i \in 1..Len(ts) : tx[ts[i]] # <<>>,
           block' = [block EXCEPT !.transactions = ts],
           rawBlock' = [rawBlock EXCEPT !.transactions = <<>>],
           header' = header, tx' = tx
    PROVE  BlockInv'
  <1> USE DEF BlockInv
  <1>1. <<>> \in TxDataSeqs
    BY DEF TxDataSeqs
  <1>2. /\ block' \in BlockRecords /\ block'.transactions = ts
        /\ block'.receipts = block.receipts /\ block'.nonceList = block.nonceList
    BY DEF BlockTypes, BlockRecords
  <1>3. /\ rawBlock' \in RawBlocks /\ rawBlock'.transactions = <<>>
        /\ rawBlock'.receipts = rawBlock.receipts /\ rawBlock'.nonceList = rawBlock.nonceList
    BY <1>1 DEF BlockTypes, RawBlocks
  <1>4. BlockTypes' /\ HeaderCachesFresh' /\ TxCachesFresh'
    BY <1>2, <1>3 DEF BlockTypes, HeaderCachesFresh, TxCachesFresh
  <1>5. BlockMembers' /\ ListCachesFresh'
    BY <1>2, <1>3 DEF BlockMembers, ListCachesFresh
  <1> QED
    BY <1>4, <1>5

LEMMA ChangeReceipts ==
    ASSUME BlockInv, NEW rs \in ReceiptSeqs,
           block' = [block EXCEPT !.receipts = rs],
           rawBlock' = [rawBlock EXCEPT !.receipts = <<>>],
           header' = header, tx' = tx
    PROVE  BlockInv'
  <1> USE DEF BlockInv
  <1>1. <<>> \in ReceiptSeqs
    BY DEF ReceiptSeqs
  <1>2. /\ block' \in BlockRecords /\ block'.receipts = rs
        /\ block'.transactions = block.transactions /\ block'.nonceList = block.nonceList
    BY DEF BlockTypes, BlockRecords
  <1>3. /\ rawBlock' \in RawBlocks /\ rawBlock'.receipts = <<>>
        /\ rawBlock'.transactions = rawBlock.transactions /\ rawBlock'.nonceList = rawBlock.nonceList
    BY <1>1 DEF BlockTypes, RawBlocks
  <1>4. BlockTypes' /\ HeaderCachesFresh' /\ TxCachesFresh'
    BY <1>2, <1>3 DEF BlockTypes, HeaderCachesFresh, TxCachesFresh
  <1>5. BlockMembers' /\ ListCachesFresh'
    BY <1>2, <1>3, SMTT(30) DEF BlockMembers, ListCachesFresh
  <1> QED
    BY <1>4, <1>5

LEMMA BlockStepKeepsBlockInv ==
    ASSUME BlockInv, BlockStep
    PROVE  BlockInv'
  <1> USE DEF BlockInv
  <1>1. header' = header /\ tx' = tx
    BY DEF BlockStep
  <1>2. block.transactions \in Seq(Txs) /\ block.receipts \in Seq(Receipts) /\ block.metaData \in Seq(Txs)
    BY DEF BlockTypes, BlockRecords, TxSeqs, ReceiptSeqs
  <1>3. ASSUME NEW t \in Txs, tx[t] # <<>>, AppendTransaction(t) PROVE BlockInv'
    <2> DEFINE ts == Append(block.transactions, t)
    <2>1. ts \in TxSeqs
      BY <1>2 DEF TxSeqs
    <2>2. \A i \in 1..Len(ts) : tx[ts[i]] # <<>>
      BY <1>2, <1>3 DEF BlockMembers
    <2>3. block' = [block EXCEPT !.transactions = ts] /\ rawBlock' = [rawBlock EXCEPT !.transactions = <<>>]
      BY <1>3 DEF AppendTransaction
    <2> HIDE DEF ts
    <2> QED
      BY <1>1, <2>1, <2>2, <2>3, ChangeTransactions
  <1>4. ASSUME NEW t \in Txs, tx[t] # <<>>, NEW i \in 1..Len(block.transactions), SetTransaction(i, t)
        PROVE  BlockInv'
    <2> DEFINE ts == [block.transactions EXCEPT ![i] = t]
    <2>1. ts \in TxSeqs /\ Len(ts) = Len(block.transactions)
      BY <1>2, SMTT(30) DEF TxSeqs
    <2>2. \A j \in 1..Len(ts) : tx[ts[j]] # <<>>
      BY <1>2, <1>4, <2>1 DEF BlockMembers
    <2>3. block' = [block EXCEPT !.transactions = ts] /\ rawBlock' = [rawBlock EXCEPT !.transactions = <<>>]
      BY <1>4, SMTT(30) DEF SetTransaction
    <2> HIDE DEF ts
    <2> QED
      BY <1>1, <2>1, <2>2, <2>3, ChangeTransactions, SMTT(30)
  <1>5. ASSUME NEW t \in Txs, AppendTransactionMetaData(t) PROVE BlockInv'
    <2>1. Append(block.metaData, t) \in TxSeqs
      BY <1>2 DEF TxSeqs
    <2>2. /\ block' \in BlockRecords /\ block'.transactions = block.transactions
          /\ block'.receipts = block.receipts /\ block'.nonceList = block.nonceList
          /\ rawBlock' = rawBlock
      BY <1>5, <2>1, ZenonT(30) DEF AppendTransactionMetaData, BlockTypes, BlockRecords
    <2> QED
      BY <1>1, <2>2, ZenonT(30) DEF BlockTypes, HeaderCachesFresh, TxCachesFresh, BlockMembers, ListCachesFresh
  <1>6. ASSUME NEW r \in Receipts, AppendReceipt(r) PROVE BlockInv'
    <2>1. Append(block.receipts, r) \in ReceiptSeqs
      BY <1>2 DEF ReceiptSeqs
    <2> QED
      BY <1>1, <1>6, <2>1, ChangeReceipts, ZenonT(30) DEF AppendReceipt
  <1>7. ASSUME NEW r \in Receipts, NEW i \in 1..Len(block.receipts), SetReceipt(i, r) PROVE BlockInv'
    <2>1. [block.receipts EXCEPT ![i] = r] \in ReceiptSeqs
      BY <1>2 DEF ReceiptSeqs
    <2>2. block' = [block EXCEPT !.receipts = [block.receipts EXCEPT ![i] = r]]
      BY <1>7, SMTT(30) DEF SetReceipt
    <2> QED
      BY <1>1, <1>7, <2>1, <2>2, ChangeReceipts DEF SetReceipt
  <1>8. ASSUME NEW s \in SignatureLists, SetNonceList(s) PROVE BlockInv'
    <2>1. <<>> \in SignatureLists
      BY DEF SignatureLists
    <2>2. /\ block' \in BlockRecords /\ block'.nonceList = s
          /\ block'.transactions = block.transactions /\ block'.receipts = block.receipts
      BY <1>8 DEF SetNonceList, BlockTypes, BlockRecords
    <2>3. /\ rawBlock' \in RawBlocks /\ rawBlock'.nonceList = <<>>
          /\ rawBlock'.transactions = rawBlock.transactions /\ rawBlock'.receipts = rawBlock.receipts
      BY <1>8, <2>1, SMTT(30) DEF SetNonceList, BlockTypes, RawBlocks
    <2> QED
      BY <1>1, <2>2, <2>3 DEF BlockTypes, HeaderCachesFresh, TxCachesFresh, BlockMembers, ListCachesFresh
  <1>9. ASSUME SetBlockHeader PROVE BlockInv'
    <2>1. /\ block' \in BlockRecords /\ block'.transactions = block.transactions
          /\ block'.receipts = block.receipts /\ block'.nonceList = block.nonceList
          /\ rawBlock' = rawBlock
      BY <1>9, ZenonT(30) DEF SetBlockHeader, BlockTypes, BlockRecords
    <2> QED
      BY <1>1, <2>1 DEF BlockTypes, HeaderCachesFresh, TxCachesFresh, BlockMembers, ListCachesFresh
  <1> QED
    BY <1>3, <1>4, <1>5, <1>6, <1>7, <1>8, <1>9, SMTT(30) DEF BlockStep

LEMMA EncodeTransactionFresh ==
    ASSUME NEW o \in TxObjects, o.dataCache # <<>> => SameTransaction(o.dataCache[1], o)
    PROVE  /\ EncodeTransaction(o) \in TxObjects /\ EncodeTransaction(o).data = o.data
           /\ SameTransaction(EncodeTransaction(o).dataCache[1], o)
           /\ TxBytes(o) \in TxData /\ SameTransaction(TxBytes(o), o)
  <1>1. CASE o.dataCache # <<>>
    <2>1. PICK d \in TxData : o.dataCache = <<d>>
      BY <1>1 DEF TxObjects
    <2>2. EncodeTransaction(o) = o /\ TxBytes(o) = d /\ SameTransaction(d, o)
      BY <1>1, <2>1 DEF EncodeTransaction, TxBytes
    <2> QED
      BY <2>1, <2>2
  <1>2. CASE o.dataCache = <<>>
    <2>1. o.data \in TxData
      BY DEF TxObjects
    <2>2. EncodeTransaction(o) = [o EXCEPT !.dataCache = <<o.data>>]
      BY <1>2 DEF EncodeTransaction
    <2>3. /\ EncodeTransaction(o) \in TxObjects /\ EncodeTransaction(o).data = o.data
          /\ EncodeTransaction(o).dataCache = <<o.data>>
      BY <2>1, <2>2 DEF TxObjects
    <2> QED
      BY <2>1, <2>3 DEF TxBytes, SameTransaction
  <1> QED
    BY <1>1, <1>2

\* the transaction objects a block points to, and their caches
LEMMA TransactionOfBlock ==
    ASSUME BlockInv, NEW i \in 1..Len(block.transactions)
    PROVE  /\ block.transactions[i] \in Txs
           /\ tx[block.transactions[i]] = << tx[block.transactions[i]][1] >>
           /\ tx[block.transactions[i]][1] \in TxObjects
           /\ tx[block.transactions[i]][1].data.of = block.transactions[i]
           /\ LET o == tx[block.transactions[i]][1]
              IN  o.dataCache # <<>> => SameTransaction(o.dataCache[1], o)
  <1> USE DEF BlockInv
  <1>1. block.transactions \in Seq(Txs)
    BY DEF BlockTypes, BlockRecords, TxSeqs
  <1>2. PICK t \in Txs : t = block.transactions[i]
    BY <1>1, ElementOfSeq
  <1>3. tx[t] # <<>>
    BY <1>2 DEF BlockMembers
  <1>4. PICK o \in TxObjects : tx[t] = <<o>>
    BY <1>3 DEF BlockTypes
  <1> QED
    <2>1. tx[t][1] = o
      BY <1>4
    <2>2. o.data.of = t /\ (o.dataCache # <<>> => SameTransaction(o.dataCache[1], o))
      BY <1>3, <2>1, ZenonT(30) DEF TxCachesFresh
    <2> QED
      BY <1>2, <1>4, <2>1, <2>2, ZenonT(30)

\* the lists encode() writes are those of the block, cached or not
LEMMA EncodedLists ==
    ASSUME BlockInv
    PROVE  /\ EncodeTransactions \in TxDataSeqs
           /\ Len(EncodeTransactions) = Len(block.transactions)
           /\ \A i \in 1..Len(block.transactions) :
                SameTransaction(EncodeTransactions[i], tx[block.transactions[i]][1])
           /\ EncodeReceiptList = block.receipts
           /\ EncodeNonceList = block.nonceList
  <1> USE DEF BlockInv
  <1>1. block.transactions \in Seq(Txs) /\ rawBlock.transactions \in Seq(TxData)
    BY DEF BlockTypes, BlockRecords, RawBlocks, TxSeqs, TxDataSeqs
  <1>2. EncodeReceiptList = block.receipts
    BY DEF EncodeReceiptList, ListCachesFresh
  <1>3. EncodeNonceList = block.nonceList
    BY SMTT(30) DEF EncodeNonceList, ListCachesFresh
  <1>4. CASE rawBlock.transactions # <<>>
    <2>1. EncodeTransactions = rawBlock.transactions
      BY <1>4 DEF EncodeTransactions
    <2> QED
      BY <1>1, <1>2, <1>3, <1>4, <2>1 DEF ListCachesFresh, TxDataSeqs
  <1>5. CASE rawBlock.transactions = <<>> /\ block.transactions = <<>>
    <2>1. EncodeTransactions = <<>>
      BY <1>5 DEF EncodeTransactions
    <2> QED
      BY <1>2, <1>3, <1>5, <2>1 DEF TxDataSeqs
  <1>6. CASE rawBlock.transactions = <<>> /\ block.transactions # <<>>
    <2> DEFINE bytes(i) == TxBytes(tx[block.transactions[i]][1])
    <2>1. EncodeTransactions = [i \in 1..Len(block.transactions) |-> bytes(i)]
      BY <1>6, SMTT(30) DEF EncodeTransactions
    <2>2. ASSUME NEW i \in 1..Len(block.transactions)
          PROVE  bytes(i) \in TxData /\ SameTransaction(bytes(i), tx[block.transactions[i]][1])
      BY TransactionOfBlock, EncodeTransactionFresh
    <2> HIDE DEF bytes
    <2>3. Len(block.transactions) \in Nat
      BY <1>1
    <2>4. EncodeTransactions \in Seq(TxData) /\ Len(EncodeTransactions) = Len(block.transactions)
      BY <2>1, <2>2, <2>3, SMTT(30)
    <2> QED
      BY <1>2, <1>3, <2>1, <2>2, <2>4 DEF TxDataSeqs
  <1> QED
    BY <1>4, <1>5, <1>6

\* and so are the header and the metadata
LEMMA EncodedBlockFields ==
    ASSUME BlockInv
    PROVE  /\ EncodedBlock \in RawBlocks
           /\ EncodedBlock.transactions = EncodeTransactions
           /\ EncodedBlock.receipts = block.receipts
           /\ EncodedBlock.metaData = block.metaData
           /\ EncodedBlock.nonceList = block.nonceList
           /\ block.hasHeader =>
                EncodedBlock.header = << [fields |-> header.fields, signatureList |-> header.signatureList] >>
  <1> USE DEF BlockInv
  <1> DEFINE bytes == [fields |-> header.fields, signatureList |-> header.signatureList]
             h == IF block.hasHeader THEN << HeaderBytes(EncodeHeader(header)) >> ELSE rawBlock.header
  <1>1. bytes \in EncodedHeaders
    BY DEF BlockTypes, HeaderRecords, EncodedHeaders
  <1>2. HeaderBytes(EncodeHeader(header)) = bytes
    BY EncodeHeaderFresh DEF BlockTypes, HeaderCachesFresh, HeaderBytes
  <1> HIDE DEF bytes
  <1>3. h \in {<<>>} \cup {<<b>> : b \in EncodedHeaders} /\ (block.hasHeader => h = <<bytes>>)
    BY <1>1, <1>2, SMTT(30) DEF BlockTypes, RawBlocks
  <1>4. EncodedBlock = [header |-> h, transactions |-> EncodeTransactions, receipts |-> block.receipts,
                        metaData |-> block.metaData, nonceList |-> block.nonceList]
    BY EncodedLists DEF EncodedBlock
  <1> HIDE DEF h
  <1>5. /\ EncodeTransactions \in TxDataSeqs /\ block.receipts \in ReceiptSeqs
        /\ block.metaData \in TxSeqs /\ block.nonceList \in SignatureLists
    BY EncodedLists DEF BlockTypes, BlockRecords
  <1> QED
    BY <1>3, <1>4, <1>5 DEF RawBlocks, bytes

LEMMA EncodeBlockKeepsBlockInv ==
    ASSUME BlockInv, EncodeBlock
    PROVE  BlockInv'
  <1> USE DEF BlockInv
  <1> DEFINE encoded == IF rawBlock.transactions = <<>> THEN Range(block.transactions) ELSE {}
  <1>1. block' = block /\ rawBlock' = EncodedBlock
    BY DEF EncodeBlock
  <1>2. header' \in HeaderRecords /\ HeaderCachesFresh'
    <2>1. header' = header \/ header' = EncodeHeader(header)
      BY DEF EncodeBlock
    <2> QED
      BY <2>1, EncodeHeaderFresh, SMTT(30) DEF BlockTypes, HeaderCachesFresh
  <1>3. tx' = [t \in Txs |-> IF t \in encoded THEN << EncodeTransaction(tx[t][1]) >> ELSE tx[t]]
    BY DEF EncodeBlock
  <1>4. \A t \in encoded : \E i \in 1..Len(block.transactions) : block.transactions[i] = t
    <2>1. block.transactions \in Seq(Txs)
      BY SMTT(30) DEF BlockTypes, BlockRecords, TxSeqs
    <2> QED
      BY <2>1 DEF Range
  <1> HIDE DEF encoded
  <1>5. ASSUME NEW t \in Txs
        PROVE  /\ tx'[t] \in {<<>>} \cup {<<o>> : o \in TxObjects}
               /\ tx[t] = <<>> => tx'[t] = <<>>
               /\ tx[t] # <<>> => tx'[t] # <<>> /\ tx'[t][1].data = tx[t][1].data
               /\ tx[t] # <<>> => tx'[t][1].data.of = t
               /\ tx[t] # <<>> /\ tx'[t][1].dataCache # <<>> =>
                    SameTransaction(tx'[t][1].dataCache[1], tx'[t][1])
    <2>1. CASE t \notin encoded
      <3>1. tx'[t] = tx[t]
        BY <1>3, <2>1, SMTT(30)
      <3> QED
        BY <3>1 DEF BlockTypes, TxCachesFresh
    <2>2. CASE t \in encoded
      <3>1. PICK i \in 1..Len(block.transactions) : block.transactions[i] = t
        BY <1>4, <2>2
      <3>2. PICK o \in TxObjects : tx[t] = <<o>> /\ o.data.of = t
        BY <3>1, TransactionOfBlock, ZenonT(30)
      <3>3. o.dataCache # <<>> => SameTransaction(o.dataCache[1], o)
        BY <3>2, SMTT(30) DEF TxCachesFresh
      <3>4. PICK e \in TxObjects : e = EncodeTransaction(o) /\ e.data = o.data /\ SameTransaction(e.dataCache[1], o)
        BY <3>3, EncodeTransactionFresh
      <3>5. tx'[t] = <<e>>
        BY <1>3, <2>2, <3>2, <3>4
      <3> QED
        BY <3>2, <3>4, <3>5 DEF SameTransaction
    <2> QED
      BY <2>1, <2>2, SMTT(30)
  <1>6. tx' \in [Txs -> {<<>>} \cup {<<o>> : o \in TxObjects}]
    <2>1. tx' = [t \in Txs |-> tx'[t]]
      BY <1>3, SMTT(30)
    <2> QED
      BY <1>5, <2>1
  <1>7. TxCachesFresh'
    BY <1>5, SMTT(30) DEF TxCachesFresh
  <1>8. \A i \in 1..Len(block.transactions) :
            block.transactions[i] \in Txs /\ tx[block.transactions[i]] # <<>>
    BY TransactionOfBlock DEF BlockMembers
  <1>9. BlockTypes'
    BY <1>1, <1>2, <1>6, EncodedBlockFields, SMTT(30) DEF BlockTypes
  <1>10. BlockMembers'
    BY <1>1, <1>5, <1>8, SMTT(30) DEF BlockMembers
  <1>11. ListCachesFresh'
    <2>1. /\ rawBlock'.transactions = EncodeTransactions
          /\ rawBlock'.receipts = block.receipts /\ rawBlock'.nonceList = block.nonceList
      BY <1>1, EncodedBlockFields, SMTT(30)
    <2>2. ASSUME NEW i \in 1..Len(block.transactions)
          PROVE  SameTransaction(EncodeTransactions[i], tx'[block.transactions[i]][1])
      BY <1>5, <1>8, EncodedLists DEF SameTransaction
    <2> HIDE DEF BlockInv
    <2>3. Len(EncodeTransactions) = Len(block.transactions)
      BY EncodedLists
    <2> QED
      BY <1>1, <2>1, <2>2, <2>3 DEF ListCachesFresh
  <1> QED
    BY <1>2, <1>7, <1>9, <1>10, <1>11

LEMMA BlockInvStep ==
    ASSUME BlockInv, [BlockNext]_blockVars
    PROVE  BlockInv'
  <1>1. CASE UNCHANGED blockVars
    BY <1>1 DEF blockVars, BlockInv, BlockTypes, HeaderCachesFresh, TxCachesFresh, BlockMembers,
                ListCachesFresh
  <1>2. CASE BlockNext
    BY <1>2, HeaderStepKeepsBlockInv, CreateTransactionKeepsBlockInv, SetImportTimeKeepsBlockInv,
       CreateReceiptKeepsBlockInv, BlockStepKeepsBlockInv, EncodeBlockKeepsBlockInv DEF BlockNext
  <1> QED
    BY <1>1, <1>2, SMTT(30)

LEMMA OneElement == \A x : Len(<<x>>) = 1 /\ <<x>>[1] = x
  OBVIOUS

LEMMA BlockInvReadsBack == BlockInv => BlockReadsBack
  <1> SUFFICES ASSUME BlockInv PROVE BlockReadsBack
    OBVIOUS
  <1> DEFINE ts == block.transactions
  <1>1. PICK e \in RawBlocks : e = EncodedBlock
    BY EncodedBlockFields, SMTT(30)
  <1>2. /\ e.transactions \in Seq(TxData) /\ Len(e.transactions) = Len(ts)
        /\ \A i \in 1..Len(ts) : SameTransaction(e.transactions[i], tx[ts[i]][1])
        /\ e.receipts = block.receipts /\ e.metaData = block.metaData /\ e.nonceList = block.nonceList
        /\ block.hasHeader =>
            e.header = << [fields |-> header.fields, signatureList |-> header.signatureList] >>
    BY <1>1, EncodedBlockFields, EncodedLists DEF TxDataSeqs
  <1>3. \A i \in 1..Len(ts) : tx[ts[i]][1].data.of = ts[i]
    BY TransactionOfBlock, ZenonT(30)
  <1> DEFINE made == [header |-> [i \in 1..Len(e.header) |-> DecodeHeader(e.header[i])],
                      transactions |-> [i \in 1..Len(ts) |-> DecodeTransaction(e.transactions[i])],
                      receipts |-> e.receipts, metaData |-> e.metaData, nonceList |-> e.nonceList]
  <1>4. DecodeBlock(e, FALSE) = <<made>>
    BY <1>2, ZenonT(30) DEF DecodeBlock
  <1>5. DecodeBlock(e, TRUE) # <<>> <=> \A i \in 1..Len(ts) : e.transactions[i].signature = "signed"
    <2>1. <<made>> # <<>>
      BY ZenonT(30)
    <2> HIDE DEF made
    <2>2. DecodeBlock(e, TRUE) =
            IF \E i \in 1..Len(ts) : ~VerifyTransaction(e.transactions[i]) THEN <<>> ELSE <<made>>
      BY <1>2, SMTT(30) DEF DecodeBlock, made
    <2> QED
      BY <2>1, <2>2, ZenonT(30) DEF VerifyTransaction
  <1>6. \A i \in 1..Len(ts) : made.transactions[i].data = e.transactions[i]
    BY SMTT(30) DEF DecodeTransaction
  <1>7. ASSUME block.hasHeader
        PROVE  made.header[1].fields = header.fields /\ made.header[1].signatureList = header.signatureList
    <2>1. Len(e.header) = 1 /\ e.header[1] = [fields |-> header.fields, signatureList |-> header.signatureList]
      BY <1>2, <1>7, OneElement, ZenonT(30)
    <2> DEFINE h == e.header[1]
               headers == [i \in 1..Len(e.header) |-> DecodeHeader(e.header[i])]
    <2>2. headers[1] = DecodeHeader(h)
      BY <2>1, SMTT(30)
    <2>3. h.fields = header.fields /\ h.signatureList = header.signatureList
      BY <2>1, SMTT(30)
    <2>4. made.header = headers
      BY SMTT(30)
    <2> HIDE DEF h, headers, made
    <2>5. DecodeHeader(h).fields = h.fields /\ DecodeHeader(h).signatureList = h.signatureList
      BY SMTT(30) DEF DecodeHeader
    <2> QED
      BY <2>2, <2>3, <2>4, <2>5, ZenonT(30)
  <1>8. Len(made.transactions) = Len(ts)
    BY <1>2, SMTT(30)
  <1>9. made.receipts = e.receipts /\ made.metaData = e.metaData /\ made.nonceList = e.nonceList
    OBVIOUS
  <1> HIDE DEF made
  <1>10. DecodeBlock(EncodedBlock, FALSE)[1] = made
    <2>1. DecodeBlock(EncodedBlock, FALSE) = <<made>>
      BY <1>1, <1>4, ZenonT(30)
    <2> QED
      BY <2>1, OneElement, ZenonT(30)
  <1>11. ASSUME NEW i \in 1..Len(ts)
         PROVE  /\ made.transactions[i].data.of = ts[i]
                /\ made.transactions[i].data.signature = tx[ts[i]][1].data.signature
    BY <1>2, <1>3, <1>6, ZenonT(30) DEF SameTransaction
  <1>12. DecodeBlock(EncodedBlock, TRUE) # <<>> <=>
            \A i \in 1..Len(ts) : tx[ts[i]][1].data.signature = "signed"
    BY <1>1, <1>2, <1>5, ZenonT(30) DEF SameTransaction
  <1> QED
    BY <1>2, <1>7, <1>8, <1>9, <1>10, <1>11, <1>12, ZenonT(30) DEF BlockReadsBack

\* PBBlockHeader, for any field values and any number of calls: no setter leaves
\* an encoding behind that hash() or encode() would give for the new fields.
THEOREM HeaderCachesAlwaysFresh == BlockSpec => []HeaderCachesFresh
  <1>1. BlockInv => HeaderCachesFresh
    BY DEF BlockInv
  <1> QED
    BY <1>1, BlockInitInv, BlockInvStep, PTL DEF BlockSpec

\* PBBlock, for any transactions, receipts and field values and any number of
\* calls: the bytes encode() gives, from whatever caches were filled before,
\* read back as this block, and its signatures verify exactly if all were made.
THEOREM BlocksReadBack == BlockSpec => []BlockReadsBack
  BY BlockInvReadsBack, BlockInitInv, BlockInvStep, PTL DEF BlockSpec

-----------------------------------------------------------------------------
(* Worker                                                                  *)

WorkerSpec == WorkerInit /\ [][WorkerNext]_workerVars

Calling(where) == \E c \in WorkerCallers : workerCall[c] \in where

WorkerTypes ==
    /\ workerState \in {"Starting", "Started", "Stopping", "Stopped", "Killing"}
    /\ workerPc \in {"none", "check", "announce", "init", "loop", "execute", "finish", "record",
                     "park", "exited"}
    /\ workerCall \in [WorkerCallers -> {"idle", "waitStarted", "waitStopped", "join", "reset"}]

OneCall == \A c, d \in WorkerCallers : workerCall[c] # "idle" /\ workerCall[d] # "idle" => c = d

\* the states the thread can find or have left at each point
StateFitsThread ==
    /\ workerPc = "none" => workerState \in {"Starting", "Killing"}
    /\ workerPc = "check" => workerState \in {"Starting", "Killing"}
    /\ workerPc = "announce" => workerState = "Starting"
    /\ workerPc \in {"init", "loop", "execute", "finish", "record"}
            => workerState \in {"Started", "Stopping", "Killing"}
    /\ workerPc = "park" => workerState \in {"Stopped", "Starting", "Killing"}
    /\ workerPc = "exited" => workerState = "Killing"

\* a state the thread has still to answer has its caller waiting
StateHasCaller ==
    workerPc # "none" =>
        /\ workerState = "Starting" => Calling({"waitStarted"})
        /\ workerState = "Stopping" => Calling({"waitStopped"})
        /\ workerState = "Killing" => Calling({"join", "reset"})

ResetAfterExit == \A c \in WorkerCallers : workerCall[c] = "reset" => workerPc = "exited"

WorkerInv ==
    WorkerTypes /\ OneCall /\ StateFitsThread /\ StateHasCaller /\ ResetAfterExit /\ StopIsQuiet

-----------------------------------------------------------------------------

LEMMA WorkerInitInv == WorkerInit => WorkerInv
  BY SMTT(30) DEF WorkerInit, WorkerInv, WorkerTypes, OneCall, StateFitsThread, StateHasCaller,
         ResetAfterExit, StopIsQuiet

(* A step of the thread leaves every call where it is. *)
LEMMA ThreadKeepsInv == WorkerInv /\ WorkerThread => WorkerInv'
  <1> SUFFICES ASSUME WorkerInv, WorkerThread PROVE WorkerInv'
    OBVIOUS
  <1> USE DEF WorkerInv, WorkerTypes, OneCall, StateFitsThread, StateHasCaller, ResetAfterExit,
              StopIsQuiet, NoWorkerCall, Calling, ThreadStep
  <1>1. CASE ThreadCheck
    BY <1>1 DEF ThreadCheck
  <1>2. CASE ThreadAnnounce
    BY <1>2 DEF ThreadAnnounce
  <1>3. CASE ThreadInit
    BY <1>3 DEF ThreadInit
  <1>4. CASE ThreadLoop
    BY <1>4 DEF ThreadLoop
  <1>5. CASE ThreadExecute
    BY <1>5 DEF ThreadExecute
  <1>6. CASE ThreadFinish
    BY <1>6 DEF ThreadFinish
  <1>7. CASE ThreadRecord
    BY <1>7 DEF ThreadRecord
  <1>8. CASE ThreadPark
    BY <1>8, SMTT(30) DEF ThreadPark
  <1> QED
    BY <1>1, <1>2, <1>3, <1>4, <1>5, <1>6, <1>7, <1>8 DEF WorkerThread

(* A call that begins finds nobody inside another one. *)
LEMMA BeginKeepsInv ==
  ASSUME ~WorkerCallsOverlap, WorkerInv, NEW c \in WorkerCallers,
         StartWorking(c) \/ StopWorking(c) \/ Terminate(c)
  PROVE  WorkerInv'
  <1> USE DEF WorkerInv, WorkerTypes, OneCall, StateFitsThread, StateHasCaller, ResetAfterExit,
              StopIsQuiet, NoWorkerCall, Calling, Enter, Return, BeginCall
  <1>1. CASE StartWorking(c)
    BY <1>1 DEF StartWorking
  <1>2. CASE StopWorking(c)
    BY <1>2 DEF StopWorking
  <1>3. CASE Terminate(c)
    BY <1>3, SMTT(30) DEF Terminate
  <1> QED
    BY <1>1, <1>2, <1>3

(* A call that goes on is the only one. *)
LEMMA CallStepKeepsInv ==
  ASSUME WorkerInv, NEW c \in WorkerCallers, WorkerCallStep(c)
  PROVE  WorkerInv'
  <1> USE DEF WorkerInv, WorkerTypes, OneCall, StateFitsThread, StateHasCaller, ResetAfterExit,
              StopIsQuiet, NoWorkerCall, Calling, Enter, Return
  <1>1. CASE StartWaitOver(c)
    BY <1>1 DEF StartWaitOver
  <1>2. CASE StopWaitOver(c)
    BY <1>2 DEF StopWaitOver
  <1>3. CASE TerminateJoined(c)
    BY <1>3 DEF TerminateJoined
  <1>4. CASE TerminateReset(c)
    BY <1>4 DEF TerminateReset
  <1> QED
    BY <1>1, <1>2, <1>3, <1>4 DEF WorkerCallStep

(* Whatever threads call startWorking, stopWorking and terminate, and       *)
(* however often, as long as a call begins after the previous one has       *)
(* returned: when stopWorking or terminate has returned, the worker thread  *)
(* runs nothing of the derived class until the next call.                   *)
THEOREM StoppedWorkerIsQuiet ==
  ASSUME ~WorkerCallsOverlap
  PROVE  WorkerSpec => []StopIsQuiet
  <1>1. WorkerInv /\ [WorkerNext]_workerVars => WorkerInv'
    <2> SUFFICES ASSUME WorkerInv, [WorkerNext]_workerVars PROVE WorkerInv'
      OBVIOUS
    <2>1. CASE UNCHANGED workerVars
      BY <2>1 DEF workerVars, WorkerInv, WorkerTypes, OneCall, StateFitsThread, StateHasCaller,
                  ResetAfterExit, StopIsQuiet, NoWorkerCall, Calling
    <2>2. CASE WorkerNext
      BY <2>2, ThreadKeepsInv, BeginKeepsInv, CallStepKeepsInv DEF WorkerNext
    <2> QED
      BY <2>1, <2>2
  <1>2. WorkerInv => StopIsQuiet
    BY DEF WorkerInv
  <1> QED
    BY <1>1, <1>2, WorkerInitInv, PTL DEF WorkerSpec

-----------------------------------------------------------------------------
(* LedgerConfigFetcher                                                     *)

FetcherSpec ==
  /\ LedgerInit /\ FetcherInit
  /\ [][FetcherNext]_<<ledgerVars, fetcherVars>>

\* Block n is at index n, and the configuration is at most one block behind:
\* it never gives out a number that has no block.
LedgerInv ==
  /\ blocks \in Seq(Nat) /\ \A i \in 1 .. Len(blocks) : blocks[i] = i - 1
  /\ configNumber \in Nat
  /\ \/ /\ committing = <<>> /\ Len(blocks) = configNumber + 1
        /\ poolQueue \in {<<>>, <<configNumber + 1>>}
     \/ /\ committing = <<"number", configNumber + 1>> /\ Len(blocks) = configNumber + 2
        /\ poolQueue = <<>>
     \/ /\ committing = <<"hash", configNumber>> /\ Len(blocks) = configNumber + 1
        /\ poolQueue = <<>>

\* the blocks whose number has been given out
Numbered == 0 .. Len(blocks) - 1

\* A request asks for what its fetch asks for first, or for the hash of a block
\* no later than the number in the configuration: of the block with that number,
\* unless calls of the fetch overlapped.
HashOfNumber(r) ==
  /\ r.fetch = "block"
  /\ \E n, m \in Numbered : /\ r.what = <<"hash", n>> /\ config["number"] = <<m>> /\ n <= m
                            /\ "block" \notin overlapped => n = m

RequestOK(r) ==
  /\ r = Request(r.fetch, r.what, r.time, r.id)
  /\ r.fetch \in Fetches /\ r.fetch \in asked /\ r.time \in Nat
  /\ r.what = FirstQuery(r.fetch) \/ HashOfNumber(r)

\* a fetch whose calls did not overlap has one request, and no flag while it is
\* in flight
OneRequest ==
  \A r \in requests : r.fetch \notin overlapped =>
      r.fetch \notin finished /\ \A q \in requests : r.fetch = q.fetch => r = q

\* the fetches whose result the caller may use: those with the flag set, and all
\* that were asked for once the wait has succeeded
Done == {f \in asked : f \in finished \/ caller = "success"}

BlockOK ==
  \E n, m \in Numbered : /\ config["number"] = <<m>> /\ config["block"] = <<n>> /\ n <= m
                         /\ "block" \notin overlapped => n = m

\* What a fetch that has finished left in the configuration.
ResultOK(f) ==
  /\ config[f] # Unset
  /\ f = "block" => BlockOK
  /\ f = "genesis" => config["genesis"] = <<0>>

FetchInv ==
  /\ DOMAIN config = Fetches \cup {"number"} /\ config = [f \in Fetches \cup {"number"} |-> config[f]]
  /\ finished \subseteq Fetches /\ asked \subseteq Fetches
  /\ \A f \in Fetches : f \in finished \/ f \in asked
  /\ \A r \in requests : RequestOK(r)
  /\ OneRequest
  /\ \A f \in Done : ResultOK(f)
  /\ config["nonces"] # Unset => \A n \in config["nonces"][1] : n \in Numbered
  /\ \A m \in Nat : config["number"] = <<m>> => m <= configNumber
  /\ caller = "success" => \A f \in asked : f \in finished \/ f \in overlapped

-----------------------------------------------------------------------------
(***************************************************************************)
(* The ledger.                                                              *)
(***************************************************************************)
LEMMA LedgerStart == LedgerInit => LedgerInv
<1> SUFFICES ASSUME LedgerInit PROVE LedgerInv
  OBVIOUS
<1>1. blocks \in Seq(Nat) /\ Len(blocks) = InitialBlocks
  BY LedgerAssumption DEF LedgerInit
<1> QED
  BY <1>1, LedgerAssumption DEF LedgerInit, LedgerInv

LEMMA LedgerKeeps ==
  ASSUME ~CommitsOverlap, LedgerInv, LedgerNext
  PROVE  /\ LedgerInv' /\ Len(blocks) <= Len(blocks') /\ Len(blocks) \in Nat /\ Len(blocks') \in Nat
         /\ configNumber \in Nat /\ configNumber' \in Nat /\ configNumber <= configNumber'
<1>0. Len(blocks) \in Nat /\ configNumber \in Nat
  BY LenProperties DEF LedgerInv
<1>1. ASSUME NEW n \in 1 .. MaxBlockNumber, CommitBlock(n)
      PROVE  LedgerInv' /\ blocks' = blocks /\ configNumber' = configNumber
  <2>1. /\ committing = <<>> /\ poolQueue = <<>> /\ poolQueue' = <<configNumber + 1>>
        /\ UNCHANGED <<blocks, configNumber, committing>>
    <3>1. committing = <<>> /\ poolQueue = <<>>
      BY <1>1, Zenon DEF CommitBlock
    <3>2. n = configNumber + 1 /\ poolQueue' = Append(poolQueue, n)
      BY <1>1 DEF CommitBlock
    <3>3. Append(<<>>, n) = <<n>>
      OBVIOUS
    <3> QED
      BY <1>1, <3>1, <3>2, <3>3 DEF CommitBlock
  <2> QED
    BY <2>1 DEF LedgerInv
<1>2. CASE CommitPush
  <2>1. /\ poolQueue = <<configNumber + 1>> /\ committing = <<>>
        /\ Len(blocks) = configNumber + 1 /\ configNumber \in Nat
    BY <1>2 DEF CommitPush, LedgerInv
  <2>2. /\ blocks' = Append(blocks, configNumber + 1) /\ poolQueue' = <<>>
        /\ committing' = <<"number", configNumber + 1>> /\ configNumber' = configNumber
    BY <1>2, <2>1 DEF CommitPush
  <2>3. /\ blocks' \in Seq(Nat) /\ Len(blocks') = configNumber + 2
        /\ \A i \in 1 .. Len(blocks) : blocks'[i] = blocks[i]
        /\ blocks'[Len(blocks) + 1] = configNumber + 1
    BY <2>1, <2>2, AppendProperties DEF LedgerInv
  <2>4. \A i \in 1 .. Len(blocks') : blocks'[i] = i - 1
    BY <2>1, <2>3 DEF LedgerInv
  <2>5. LedgerInv'
    BY <2>1, <2>2, <2>3, <2>4 DEF LedgerInv
  <2> QED
    BY <1>0, <2>1, <2>2, <2>3, <2>5
<1>3. CASE CommitNumber
  <2>1. /\ committing = <<"number", configNumber + 1>> /\ Len(blocks) = configNumber + 2
        /\ poolQueue = <<>> /\ configNumber \in Nat
    BY <1>3 DEF CommitNumber, LedgerInv
  <2>2. /\ committing' = <<"hash", configNumber + 1>> /\ configNumber' = configNumber + 1
        /\ UNCHANGED <<blocks, poolQueue>>
    BY <1>3, <2>1 DEF CommitNumber
  <2> QED
    BY <1>0, <2>1, <2>2 DEF LedgerInv
<1>4. CASE CommitHash
  <2>1. /\ committing = <<"hash", configNumber>> /\ Len(blocks) = configNumber + 1
        /\ poolQueue = <<>> /\ configNumber \in Nat
    BY <1>4 DEF CommitHash, LedgerInv
  <2>2. committing' = <<>> /\ UNCHANGED <<blocks, configNumber, poolQueue>>
    BY <1>4 DEF CommitHash
  <2> QED
    BY <1>0, <2>1, <2>2 DEF LedgerInv
<1> QED
  BY <1>0, <1>1, <1>2, <1>3, <1>4 DEF LedgerNext, PoolThread

-----------------------------------------------------------------------------
(***************************************************************************)
(* The fetcher.                                                             *)
(***************************************************************************)
LEMMA FetchStart == LedgerInv /\ FetcherInit => FetchInv
<1> SUFFICES ASSUME LedgerInv, FetcherInit PROVE FetchInv
  OBVIOUS
<1>1. \A m : <<>> # <<m>>
  OBVIOUS
<1> QED
  BY <1>1 DEF FetcherInit, FetchInv, OneRequest, Done, Fetches, SystemKeys, Unset

\* Commits do not disturb what has been fetched.
LEMMA FetchFrame ==
  ASSUME FetchInv, UNCHANGED fetcherVars, Len(blocks) <= Len(blocks'),
         Len(blocks) \in Nat, Len(blocks') \in Nat,
         configNumber \in Nat, configNumber' \in Nat, configNumber <= configNumber'
  PROVE  FetchInv'
<1>1. /\ UNCHANGED <<requests, finished, config, asked, overlapped, caller>>
      /\ \A n \in Numbered : n \in Numbered'
  BY DEF fetcherVars, Numbered
<1>2. ASSUME NEW r \in requests PROVE RequestOK(r)'
  <2>1. RequestOK(r)
    BY DEF FetchInv
  <2>2. HashOfNumber(r) => HashOfNumber(r)'
    BY <1>1, ZenonT(30) DEF HashOfNumber
  <2> QED
    BY <1>1, <2>1, <2>2, ZenonT(30) DEF RequestOK
<1>3. ASSUME NEW f \in Done PROVE ResultOK(f)'
  <2>1. BlockOK => BlockOK'
    BY <1>1, ZenonT(30) DEF BlockOK
  <2> QED
    BY <1>1, <2>1, ZenonT(30) DEF FetchInv, ResultOK
<1>4. config["nonces"] # Unset => \A n \in config["nonces"][1] : n \in Numbered'
  BY <1>1, ZenonT(30) DEF FetchInv
<1>5. \A m \in Nat : config["number"] = <<m>> => m <= configNumber'
  <2> SUFFICES ASSUME NEW m \in Nat, config["number"] = <<m>> PROVE m <= configNumber'
    OBVIOUS
  <2>1. m <= configNumber
    BY ZenonT(30) DEF FetchInv
  <2> QED
    BY <2>1
<1>6. OneRequest'
  BY <1>1, ZenonT(30) DEF FetchInv, OneRequest
<1> QED
  BY <1>1, <1>2, <1>3, <1>4, <1>5, <1>6, ZenonT(30) DEF FetchInv, Done

\* The answer that finishes a fetch.
LEMMA FinishKeeps ==
  ASSUME FetchInv, NEW r \in requests, NEW v,
         config' = [config EXCEPT ![r.fetch] = <<v>>], requests' = requests \ {r},
         finished' = finished \cup {r.fetch},
         UNCHANGED <<asked, overlapped, caller, blocks, configNumber>>,
         r.fetch = "block" =>
           \E n, m \in Numbered : /\ config["number"] = <<m>> /\ v = n /\ n <= m
                                  /\ "block" \notin overlapped => n = m,
         r.fetch = "genesis" => v = 0,
         r.fetch = "nonces" => \A n \in v : n \in Numbered
  PROVE  FetchInv'
<1>1. /\ RequestOK(r) /\ r.fetch \in Fetches
      /\ DOMAIN config = Fetches \cup {"number"}
      /\ config = [f \in Fetches \cup {"number"} |-> config[f]]
  BY DEF FetchInv, RequestOK
<1>2. /\ r.fetch # "number" /\ Numbered' = Numbered
      /\ DOMAIN config' = Fetches \cup {"number"} /\ config' = [f \in Fetches \cup {"number"} |-> config'[f]]
      /\ config'[r.fetch] = <<v>> /\ config'["number"] = config["number"]
      /\ \A f \in Fetches : f # r.fetch => config'[f] = config[f]
  BY <1>1, ZenonT(30) DEF Fetches, SystemKeys, Numbered
<1>3. ASSUME NEW q \in requests' PROVE RequestOK(q)'
  <2>1. RequestOK(q)
    BY <1>3, ZenonT(30) DEF FetchInv
  <2>2. HashOfNumber(q) => HashOfNumber(q)'
    BY <1>2, ZenonT(30) DEF HashOfNumber
  <2> QED
    BY <2>1, <2>2, ZenonT(30) DEF RequestOK
<1>4. OneRequest'
  <2> SUFFICES ASSUME NEW q \in requests', q.fetch \notin overlapped
               PROVE  q.fetch \notin finished' /\ \A t \in requests' : q.fetch = t.fetch => q = t
    BY DEF OneRequest
  <2>1. q \in requests /\ q # r
    OBVIOUS
  <2>2. q.fetch \notin finished /\ \A t \in requests : q.fetch = t.fetch => q = t
    BY <2>1, ZenonT(30) DEF FetchInv, OneRequest
  <2>3. q.fetch # r.fetch
    BY <2>1, <2>2, ZenonT(30)
  <2> QED
    BY <2>2, <2>3, ZenonT(30)
<1>5. <<v>> # <<>> /\ <<v>>[1] = v
  BY SMTT(30)
<1>6. ASSUME NEW f \in Done' PROVE ResultOK(f)'
  <2>1. CASE f = r.fetch
    <3>1. f = "block" => BlockOK'
      BY <1>2, <2>1, ZenonT(30) DEF BlockOK
    <3> QED
      BY <1>2, <1>5, <2>1, <3>1, ZenonT(30) DEF ResultOK, Unset
  <2>2. CASE f # r.fetch
    <3>1. f \in Done /\ f \in Fetches /\ ResultOK(f)
      BY <2>2, ZenonT(30) DEF FetchInv, Done
    <3>2. config'[f] = config[f]
      BY <1>2, <2>2, <3>1
    <3>3. f = "block" /\ BlockOK => BlockOK'
      BY <1>2, <3>2, ZenonT(30) DEF BlockOK
    <3> QED
      BY <1>2, <3>1, <3>2, <3>3, ZenonT(30) DEF ResultOK
  <2> QED
    BY <2>1, <2>2
<1>7. config'["nonces"] # Unset => \A n \in config'["nonces"][1] : n \in Numbered'
  <2>1. "nonces" \in Fetches
    BY DEF Fetches
  <2>2. CASE r.fetch = "nonces"
    BY <1>2, <1>5, <2>2
  <2>3. CASE r.fetch # "nonces"
    BY <1>2, <2>1, <2>3, ZenonT(30) DEF FetchInv
  <2> QED
    BY <2>2, <2>3
<1>8. /\ finished' \subseteq Fetches /\ asked' \subseteq Fetches
      /\ \A f \in Fetches : f \in finished' \/ f \in asked'
      /\ caller' = "success" => \A f \in asked' : f \in finished' \/ f \in overlapped'
  BY <1>1, SMTT(30) DEF FetchInv
<1>9. \A m \in Nat : config'["number"] = <<m>> => m <= configNumber'
  BY <1>2, ZenonT(30) DEF FetchInv
<1> QED
  BY <1>2, <1>3, <1>4, <1>6, <1>7, <1>8, <1>9, ZenonT(30) DEF FetchInv

\* What a request asks for tells which fetch it belongs to.
LEMMA QueryOfFetch ==
  ASSUME NEW r \in requests, FetchInv
  PROVE  /\ r.what[1] = "hash" =>
              \/ r.fetch = "genesis" /\ r.what = <<"hash", 0>>
              \/ HashOfNumber(r)
         /\ r.what = <<"number">> => r.fetch = "block"
         /\ r.what[1] \in {"consensus", "observer", "nonces"} \cup SystemKeys => r.fetch = r.what[1]
<1>1. RequestOK(r) /\ r.fetch \in Fetches
  BY SMTT(30) DEF FetchInv, RequestOK
<1>2. CASE r.what = FirstQuery(r.fetch)
  <2>1. CASE r.fetch = "block"
    BY <1>2, <2>1 DEF FirstQuery, SystemKeys
  <2>2. CASE r.fetch = "genesis"
    BY <1>2, <2>2 DEF FirstQuery, SystemKeys
  <2>3. CASE r.fetch \notin {"block", "genesis"}
    <3>1. r.what = <<r.fetch>>
      BY <1>2, <2>3 DEF FirstQuery
    <3> QED
      BY <1>1, <2>3, <3>1 DEF Fetches, SystemKeys
  <2> QED
    BY <2>1, <2>2, <2>3
<1>3. CASE HashOfNumber(r)
  <2>1. PICK n \in Numbered : r.what = <<"hash", n>> /\ r.fetch = "block"
    BY <1>3, ZenonT(30) DEF HashOfNumber
  <2>2. r.what[1] = "hash" /\ r.what # <<"number">>
    BY <2>1
  <2> QED
    BY <1>3, <2>2 DEF SystemKeys
<1> QED
  BY <1>1, <1>2, <1>3 DEF RequestOK

LEMMA FetchKeeps ==
  ASSUME FetchInv, NEW f \in Fetches, Fetch(f), UNCHANGED <<blocks, configNumber>>
  PROVE  FetchInv'
<1>0. PICK new : new = Request(f, FirstQuery(f), 0, fetches)
  OBVIOUS
<1>1. /\ asked' = asked \cup {f} /\ finished' = finished \ {f} /\ requests' = requests \cup {new}
      /\ UNCHANGED <<config, caller>> /\ caller = "fetching"
      /\ Numbered' = Numbered
      /\ overlapped' = IF \E r \in requests : r.fetch = f
                       THEN overlapped \cup {f} ELSE overlapped \ {f}
  BY <1>0 DEF Fetch, FetchInv, Numbered
<1>2. /\ new.fetch = f /\ new.what = FirstQuery(f) /\ new.time = 0
      /\ new = Request(new.fetch, new.what, new.time, new.id)
  BY <1>0, SMTT(30) DEF Request
<1>3. RequestOK(new)'
  <2>1. new.time \in Nat
    BY <1>2
  <2> QED
    BY <1>1, <1>2, <2>1, ZenonT(30) DEF RequestOK
\* a fetch stops being an overlapped one only when none of its requests is left
<1>4. ASSUME NEW r \in requests PROVE r.fetch \notin overlapped' => r.fetch \notin overlapped /\ r.fetch # f
  BY <1>1, ZenonT(30)
<1>5. ASSUME NEW r \in requests PROVE RequestOK(r)'
  <2>1. RequestOK(r)
    BY DEF FetchInv
  <2>2. HashOfNumber(r) => HashOfNumber(r)'
    BY <1>1, <1>4, ZenonT(30) DEF HashOfNumber
  <2> QED
    BY <1>1, <2>1, <2>2, ZenonT(30) DEF RequestOK
<1>6. OneRequest'
  <2> SUFFICES ASSUME NEW r \in requests', r.fetch \notin overlapped'
               PROVE  r.fetch \notin finished' /\ \A q \in requests' : r.fetch = q.fetch => r = q
    BY DEF OneRequest
  <2>1. CASE r \in requests
    <3>1. r.fetch \notin overlapped /\ r.fetch # f
      BY <1>4, <2>1
    <3> QED
      BY <1>1, <1>2, <2>1, <3>1, ZenonT(30) DEF FetchInv, OneRequest
  <2>2. CASE r = new
    <3>1. \A q \in requests : q.fetch # f
      BY <1>1, <1>2, <2>2, ZenonT(30)
    <3> QED
      BY <1>1, <1>2, <2>2, <3>1, ZenonT(30)
  <2> QED
    BY <1>1, <2>1, <2>2
<1>7. ASSUME NEW g \in Done' PROVE ResultOK(g)'
  <2>1. g \in Done /\ g # f
    BY <1>1, ZenonT(30) DEF Done
  <2>2. g \notin overlapped' => g \notin overlapped
    BY <1>1, <2>1, ZenonT(30)
  <2>3. g = "block" /\ BlockOK => BlockOK'
    BY <1>1, <2>2, ZenonT(30) DEF BlockOK
  <2> QED
    BY <1>1, <2>1, <2>3, ZenonT(30) DEF FetchInv, ResultOK
<1>8. /\ finished' \subseteq Fetches /\ asked' \subseteq Fetches
      /\ \A g \in Fetches : g \in finished' \/ g \in asked'
  BY <1>1 DEF FetchInv
<1>9. \A r \in requests' : RequestOK(r)'
  BY <1>1, <1>3, <1>5, ZenonT(30)
<1>10. /\ config'["nonces"] # Unset => \A n \in config'["nonces"][1] : n \in Numbered'
       /\ \A m \in Nat : config'["number"] = <<m>> => m <= configNumber'
  BY <1>1, ZenonT(30) DEF FetchInv
<1>11. /\ DOMAIN config' = Fetches \cup {"number"}
       /\ config' = [g \in Fetches \cup {"number"} |-> config'[g]]
       /\ caller' # "success"
  BY <1>1 DEF FetchInv
<1> QED
  BY <1>6, <1>7, <1>8, <1>9, <1>10, <1>11, ZenonT(30) DEF FetchInv

\* A request leaves, or is replaced by one of the same fetch; nothing is finished.
LEMMA RequestReplaced ==
  ASSUME FetchInv, NEW r \in requests, NEW new, requests' \subseteq (requests \ {r}) \cup new,
         \A q \in new : RequestOK(q)' /\ q.fetch = r.fetch,
         \A q, t \in new : q = t,
         UNCHANGED <<asked, overlapped, caller, blocks, configNumber>>,
         finished' = finished \/ finished' = finished \ {r.fetch},
         DOMAIN config' = Fetches \cup {"number"},
         config' = [g \in Fetches \cup {"number"} |-> config'[g]],
         \A g \in Fetches : config'[g] = config[g],
         \/ config'["number"] = config["number"]
         \/ /\ r.fetch = "block" /\ configNumber \in Numbered
            /\ config'["number"] = <<configNumber>>
  PROVE  FetchInv'
<1>1. Numbered' = Numbered /\ "nonces" \in Fetches /\ "block" \in Fetches /\ "genesis" \in Fetches
  BY DEF Numbered, Fetches
<1>2. /\ r.fetch \in asked /\ asked \subseteq Fetches
      /\ r.fetch \notin overlapped => r.fetch \notin finished /\ finished' = finished
  <2>1. RequestOK(r) /\ asked \subseteq Fetches
    BY DEF FetchInv
  <2>2. r.fetch \notin overlapped => r.fetch \notin finished
    BY DEF FetchInv, OneRequest
  <2> QED
    BY <2>1, <2>2 DEF RequestOK
\* a number that replaces another is no smaller, and does so in the one request
\* there is, or among overlapping calls
<1>3. ASSUME NEW m \in Numbered, config["number"] = <<m>>
      PROVE  \E k \in Numbered : /\ config'["number"] = <<k>> /\ m <= k
                                 /\ k = m \/ r.fetch = "block"
  <2>1. CASE config'["number"] = config["number"]
    BY <1>3, <2>1 DEF Numbered
  <2>2. CASE r.fetch = "block" /\ configNumber \in Numbered /\ config'["number"] = <<configNumber>>
    <3>1. m \in Nat
      BY DEF Numbered
    <3>2. m <= configNumber
      BY <1>3, <3>1, ZenonT(30) DEF FetchInv
    <3> QED
      BY <2>2, <3>2
  <2> QED
    BY <2>1, <2>2
<1>4. ASSUME NEW q \in requests, q # r PROVE RequestOK(q)'
  <2>1. RequestOK(q)
    BY DEF FetchInv
  <2>2. ASSUME HashOfNumber(q) PROVE HashOfNumber(q)'
    <3>1. PICK n, m \in Numbered : /\ q.fetch = "block" /\ q.what = <<"hash", n>> /\ n <= m
                                   /\ config["number"] = <<m>>
                                   /\ "block" \notin overlapped => n = m
      BY <2>2, ZenonT(30) DEF HashOfNumber
    <3>2. PICK k \in Numbered : config'["number"] = <<k>> /\ m <= k /\ (k = m \/ r.fetch = "block")
      BY <1>3, <3>1
    <3>3. "block" \notin overlapped => r.fetch # "block"
      BY <1>4, <3>1, ZenonT(30) DEF FetchInv, OneRequest
    <3>4. n <= k /\ ("block" \notin overlapped => n = k)
      BY <3>1, <3>2, <3>3 DEF Numbered
    <3> QED
      BY <1>1, <3>1, <3>2, <3>4, ZenonT(30) DEF HashOfNumber
  <2> QED
    BY <2>1, <2>2, ZenonT(30) DEF RequestOK
<1>5. \A q \in requests' : RequestOK(q)'
  BY <1>4, ZenonT(30)
<1>6. OneRequest'
  <2> SUFFICES ASSUME NEW q \in requests', q.fetch \notin overlapped
               PROVE  q.fetch \notin finished' /\ \A t \in requests' : q.fetch = t.fetch => q = t
    BY DEF OneRequest
  <2>1. CASE q \in new
    <3>1. \A t \in requests : t.fetch = r.fetch => t = r
      BY <2>1, ZenonT(30) DEF FetchInv, OneRequest
    <3> QED
      BY <1>2, <2>1, <3>1, ZenonT(30)
  <2>2. CASE q \in requests /\ q # r
    <3>1. q.fetch \notin finished /\ \A t \in requests : q.fetch = t.fetch => q = t
      BY <2>2, ZenonT(30) DEF FetchInv, OneRequest
    <3>2. q.fetch # r.fetch
      BY <2>2, <3>1, ZenonT(30)
    <3> QED
      BY <3>1, <3>2, ZenonT(30)
  <2> QED
    BY <2>1, <2>2
<1>7. ASSUME NEW g \in Done' PROVE ResultOK(g)'
  <2>1. g \in Fetches /\ ResultOK(g) /\ g \in Done
    BY <1>2, ZenonT(30) DEF FetchInv, Done
  <2>2. ASSUME g = "block"
        PROVE  BlockOK'
    <3>0. BlockOK
      BY <2>1, <2>2, ZenonT(30) DEF ResultOK
    <3>1. PICK n, m \in Numbered : /\ config["number"] = <<m>> /\ config["block"] = <<n>> /\ n <= m
                                   /\ "block" \notin overlapped => n = m
      BY <3>0 DEF BlockOK
    <3>2. PICK k \in Numbered : config'["number"] = <<k>> /\ m <= k /\ (k = m \/ r.fetch = "block")
      BY <1>3, <3>1
    <3>3. "block" \notin overlapped => "block" \in finished
      BY <2>1, <2>2, ZenonT(30) DEF FetchInv, Done
    <3>4. "block" \notin overlapped => r.fetch # "block"
      BY <1>2, <3>3, ZenonT(30)
    <3>5. n <= k /\ ("block" \notin overlapped => n = k)
      BY <3>1, <3>2, <3>4 DEF Numbered
    <3> QED
      BY <1>1, <3>1, <3>2, <3>5, ZenonT(30) DEF BlockOK
  <2> QED
    BY <1>1, <2>1, <2>2, ZenonT(30) DEF ResultOK
<1>8. config'["nonces"] # Unset => \A n \in config'["nonces"][1] : n \in Numbered'
  BY <1>1, ZenonT(30) DEF FetchInv
<1>9. \A m \in Nat : config'["number"] = <<m>> => m <= configNumber'
  <2> SUFFICES ASSUME NEW m \in Nat, config'["number"] = <<m>> PROVE m <= configNumber
    BY ZenonT(30)
  <2>1. CASE config'["number"] = config["number"]
    BY <2>1, ZenonT(30) DEF FetchInv
  <2>2. CASE config'["number"] = <<configNumber>>
    BY <2>2
  <2> QED
    BY <2>1, <2>2
<1>10. /\ finished' \subseteq Fetches /\ asked' \subseteq Fetches
       /\ \A f \in Fetches : f \in finished' \/ f \in asked'
       /\ caller' = "success" => \A f \in asked' : f \in finished' \/ f \in overlapped'
  BY <1>2, ZenonT(30) DEF FetchInv
<1> QED
  BY <1>5, <1>6, <1>7, <1>8, <1>9, <1>10, ZenonT(30) DEF FetchInv

LEMMA AnswerKeeps ==
  ASSUME FetchInv, LedgerInv, NEW r \in requests, AnswerOk(r) \/ AnswerError(r),
         UNCHANGED <<blocks, configNumber>>
  PROVE  FetchInv'
<1>1. /\ RequestOK(r) /\ r.fetch \in Fetches /\ r.fetch \in asked /\ r.time \in Nat
      /\ DOMAIN config = Fetches \cup {"number"}
      /\ config = [g \in Fetches \cup {"number"} |-> config[g]]
      /\ "number" \notin Fetches
  BY DEF FetchInv, RequestOK, Fetches, SystemKeys
<1>2. /\ Len(blocks) \in Nat /\ configNumber \in Nat /\ configNumber < Len(blocks)
      /\ \A i \in 1 .. Len(blocks) : blocks[i] = i - 1
  BY LenProperties DEF LedgerInv
<1>3. CASE AnswerNumber(r)
  <2>0. PICK k \in Nat : k = configNumber
    BY <1>2
  <2> DEFINE next == Request("block", <<"hash", k>>, 0, r.id)
  <2>1. /\ r.fetch = "block" /\ requests' = (requests \ {r}) \cup {next}
        /\ config' = [config EXCEPT !["number"] = <<k>>]
        /\ UNCHANGED <<finished, asked, overlapped, caller>>
    BY <1>3, <2>0, QueryOfFetch DEF AnswerNumber
  <2>2. /\ DOMAIN config' = Fetches \cup {"number"} /\ config' = [g \in Fetches \cup {"number"} |-> config'[g]]
        /\ \A g \in Fetches : config'[g] = config[g]
        /\ config'["number"] = <<k>>
    BY <1>1, <2>1, ZenonT(30)
  <2>3. next.fetch = "block" /\ next.what = <<"hash", k>> /\ next.time = 0 /\ next.id = r.id
    BY DEF Request
  <2>4. k \in Numbered' /\ k \in Numbered /\ k <= k
    BY <1>2, <2>0 DEF Numbered
  <2>5. HashOfNumber(next)'
    <3> HIDE DEF next
    <3> QED
      BY <2>2, <2>3, <2>4, ZenonT(30) DEF HashOfNumber
  <2>6. RequestOK(next)' /\ next.fetch = r.fetch
    BY <1>1, <2>1, <2>3, <2>5 DEF RequestOK, Fetches, Request
  <2> HIDE DEF next
  <2>7. /\ \A q \in {next} : RequestOK(q)' /\ q.fetch = r.fetch
        /\ \A q, t \in {next} : q = t
        /\ requests' \subseteq (requests \ {r}) \cup {next}
    BY <2>1, <2>6, ZenonT(30)
  <2> QED
    BY <2>0, <2>1, <2>2, <2>4, <2>7, RequestReplaced, ZenonT(60)
<1>4. CASE AnswerHash(r)
  <2>1. r.what[1] = "hash" /\ Received(r, r.fetch, blocks[r.what[2] + 1]) /\ finished' = finished \cup {r.fetch}
    BY <1>4 DEF AnswerHash
  <2>2. CASE r.fetch = "genesis" /\ r.what = <<"hash", 0>>
    <3>1. blocks[r.what[2] + 1] = 0
      BY <1>2, <2>2
    <3> QED
      BY <2>1, <2>2, <3>1, FinishKeeps, ZenonT(30) DEF Received
  <2>3. CASE HashOfNumber(r)
    <3>1. PICK n, m \in Numbered : /\ r.what = <<"hash", n>> /\ config["number"] = <<m>> /\ n <= m
                                   /\ r.fetch = "block"
                                   /\ "block" \notin overlapped => n = m
      BY <2>3, ZenonT(30) DEF HashOfNumber
    <3>2. blocks[r.what[2] + 1] = n
      BY <1>2, <3>1 DEF Numbered
    <3> QED
      BY <2>1, <3>1, <3>2, FinishKeeps, ZenonT(30) DEF Received
  <2> QED
    BY <2>1, <2>2, <2>3, QueryOfFetch, SMTT(30)
<1>5. CASE AnswerNodeList(r)
  BY <1>5, QueryOfFetch, FinishKeeps, ZenonT(30) DEF AnswerNodeList, Received
<1>6. CASE AnswerNonceList(r)
  <2>1. \A n \in NonceNumbers(0, NonceOffset) : n \in Numbered
    BY <1>2, FetcherAssumption DEF NonceNumbers, Numbered
  <2>2. r.fetch = "nonces"
    BY <1>6, QueryOfFetch DEF AnswerNonceList
  <2> QED
    BY <1>6, <2>1, <2>2, FinishKeeps, ZenonT(30) DEF AnswerNonceList, Received
<1>7. CASE AnswerSystemConfig(r)
  <2>1. r.fetch \in SystemKeys
    BY <1>7, QueryOfFetch, SMTT(30) DEF AnswerSystemConfig
  <2>2. CASE r.fetch \in sysValues
    BY <1>7, <2>1, <2>2, FinishKeeps DEF AnswerSystemConfig, Received, SystemKeys
  <2>3. CASE r.fetch \notin sysValues
    <3>1. requests' = requests \ {r} /\ UNCHANGED <<finished, config, asked, overlapped, caller>>
      BY <1>7, <2>3 DEF AnswerSystemConfig
    <3> DEFINE none == {}
    <3>2. /\ requests' \subseteq (requests \ {r}) \cup none
          /\ \A q \in none : RequestOK(q)' /\ q.fetch = r.fetch
          /\ \A q, t \in none : q = t
      BY <3>1
    <3>3. /\ DOMAIN config' = Fetches \cup {"number"}
          /\ config' = [g \in Fetches \cup {"number"} |-> config'[g]]
          /\ \A g \in Fetches : config'[g] = config[g]
          /\ config'["number"] = config["number"]
      BY <1>1, <3>1
    <3> HIDE DEF none
    <3> QED
      BY <3>1, <3>2, <3>3, RequestReplaced, ZenonT(60)
  <2> QED
    BY <2>2, <2>3, SMTT(30)
<1>8. CASE AnswerError(r)
  <2>1. /\ requests' = (requests \ {r}) \cup Retry(r) /\ UNCHANGED <<config, asked, overlapped, caller>>
        /\ finished' = finished \/ finished' = finished \ {r.fetch}
    BY <1>8, SMTT(30) DEF AnswerError
  <2>2. ASSUME NEW q \in Retry(r)
        PROVE  q = Request(r.fetch, r.what, r.time + 1, r.id)
    BY <1>1, <2>2 DEF Retry, RequestOK, Request
  <2>3. ASSUME NEW q \in Retry(r) PROVE RequestOK(q)' /\ q.fetch = r.fetch
    <3>1. q = Request(r.fetch, r.what, r.time + 1, r.id)
      BY <2>2, <2>3
    <3>2. q.fetch = r.fetch /\ q.what = r.what /\ q.time = r.time + 1 /\ q.id = r.id
      BY <3>1 DEF Request
    <3>3. HashOfNumber(r) => HashOfNumber(q)'
      BY <2>1, <3>2, ZenonT(30) DEF HashOfNumber, Numbered
    <3> QED
      BY <1>1, <2>1, <3>1, <3>2, <3>3 DEF RequestOK
  <2>4. \A q, t \in Retry(r) : q = t
    BY <2>2
  <2>5. requests' \subseteq (requests \ {r}) \cup Retry(r)
    BY <2>1
  <2> QED
    BY <1>1, <2>1, <2>3, <2>4, <2>5, RequestReplaced, ZenonT(60)
<1> QED
  BY <1>3, <1>4, <1>5, <1>6, <1>7, <1>8, SMTT(30) DEF AnswerOk

LEMMA WaitKeeps ==
  ASSUME FetchInv, WaitBegin \/ WaitSuccess \/ WaitTimeout \/ NextRound,
         UNCHANGED <<blocks, configNumber>>
  PROVE  FetchInv'
<1>1. UNCHANGED <<requests, finished, config, asked, overlapped>> /\ Numbered' = Numbered
  BY DEF WaitBegin, WaitSuccess, WaitTimeout, NextRound, Numbered
<1>2. caller' = "success" => finished = Fetches
  BY DEF WaitBegin, WaitSuccess, WaitTimeout, NextRound, FetchFinished
<1>3. \A r \in requests : HashOfNumber(r) => HashOfNumber(r)'
  BY <1>1, ZenonT(30) DEF HashOfNumber
<1>4. \A r \in requests : RequestOK(r) => RequestOK(r)'
  BY <1>1, <1>3, ZenonT(30) DEF RequestOK
<1>5. \A g : ResultOK(g) => ResultOK(g)'
  <2>1. BlockOK => BlockOK'
    BY <1>1, ZenonT(30) DEF BlockOK
  <2> QED
    BY <1>1, <2>1, ZenonT(30) DEF ResultOK
<1>6. Done' \subseteq Done
  BY <1>1, <1>2 DEF Done, FetchInv
<1>7. OneRequest'
  BY <1>1, ZenonT(30) DEF FetchInv, OneRequest
<1>8. caller' = "success" => \A f \in asked' : f \in finished' \/ f \in overlapped'
  BY <1>1, <1>2 DEF FetchInv
<1> QED
  BY <1>1, <1>4, <1>5, <1>6, <1>7, <1>8, ZenonT(60) DEF FetchInv
-----------------------------------------------------------------------------
LEMMA FetcherInvariant ==
  ASSUME ~CommitsOverlap
  PROVE  FetcherSpec => [](LedgerInv /\ FetchInv)
<1>1. LedgerInit /\ FetcherInit => LedgerInv /\ FetchInv
  BY LedgerStart, FetchStart
<1>2. ASSUME LedgerInv /\ FetchInv, [FetcherNext]_<<ledgerVars, fetcherVars>>
      PROVE  LedgerInv' /\ FetchInv'
  <2>1. CASE FetcherStep /\ UNCHANGED ledgerVars
    <3>1. UNCHANGED <<blocks, configNumber, poolQueue, committing>>
      BY <2>1 DEF ledgerVars
    <3>2. LedgerInv'
      BY <1>2, <3>1 DEF LedgerInv
    <3>3. FetchInv'
      BY <1>2, <2>1, <3>1, FetchKeeps, AnswerKeeps, WaitKeeps, ZenonT(30) DEF FetcherStep
    <3> QED
      BY <3>2, <3>3
  <2>2. CASE LedgerNext /\ UNCHANGED fetcherVars
    BY <1>2, <2>2, LedgerKeeps, FetchFrame
  <2>3. CASE UNCHANGED <<ledgerVars, fetcherVars>>
    <3>1. UNCHANGED <<blocks, configNumber, poolQueue, committing>> /\ UNCHANGED fetcherVars
      BY <2>3 DEF ledgerVars
    <3>2. LedgerInv'
      BY <1>2, <3>1 DEF LedgerInv
    <3>3. /\ Len(blocks) \in Nat /\ Len(blocks') = Len(blocks)
          /\ configNumber \in Nat /\ configNumber' = configNumber
      BY <1>2, <3>1, LenProperties DEF LedgerInv
    <3> QED
      BY <1>2, <3>1, <3>2, <3>3, FetchFrame
  <2> QED
    BY <1>2, <2>1, <2>2, <2>3 DEF FetcherNext
<1> QED
  BY <1>1, <1>2, PTL DEF FetcherSpec

\* While commits do not overlap, for any number of blocks, retries and errors:
\* a number that asyncGetBlockNumber or asyncGetNonceList gives out has its
\* block, and block n is at index n of m_ledger.
THEOREM NumbersHaveBlocks ==
  ASSUME ~CommitsOverlap
  PROVE  FetcherSpec => []NumberHasBlock
<1>1. LedgerInv /\ FetchInv => NumberHasBlock
  <2> SUFFICES ASSUME LedgerInv, FetchInv PROVE NumberHasBlock
    OBVIOUS
  <2>1. Len(blocks) \in Nat /\ 0 < Len(blocks) /\ \A n \in Numbered : n < Len(blocks)
    BY LenProperties DEF LedgerInv, Numbered
  <2>2. ASSUME NEW r \in requests, r.what[1] = "hash" PROVE r.what[2] < Len(blocks)
    <3>1. CASE r.what = <<"hash", 0>>
      BY <2>1, <3>1
    <3>2. CASE HashOfNumber(r)
      <4>1. PICK n \in Numbered : r.what = <<"hash", n>>
        BY <3>2, ZenonT(30) DEF HashOfNumber
      <4> QED
        BY <2>1, <4>1
    <3> QED
      BY <2>2, <3>1, <3>2, QueryOfFetch
  <2> QED
    BY <2>1, <2>2, ZenonT(30) DEF NumberHasBlock, LedgerInv, FetchInv
<1> QED
  BY <1>1, FetcherInvariant, PTL

\* While commits do not overlap: when waitFetchFinished returns, every field that
\* was asked for is set, the genesis hash is that of block 0, and the block hash
\* is that of a block no later than the number fetched, whatever was committed
\* between the answers and however often requests were sent again.  It is the
\* hash of the block with that number, unless fetchBlockNumberAndHash was last
\* called while a request of an earlier call was in flight.
THEOREM FetchedBlocksAreReal ==
  ASSUME ~CommitsOverlap
  PROVE  FetcherSpec => []FetchedBlockIsReal
<1>1. LedgerInv /\ FetchInv => FetchedBlockIsReal
  <2> SUFFICES ASSUME LedgerInv, FetchInv, caller = "success"
               PROVE  /\ \A f \in asked : config[f] # Unset
                      /\ "genesis" \in asked => config["genesis"][1] = blocks[1]
                      /\ "block" \in asked =>
                           \E n \in 0..config["number"][1] :
                             /\ config["block"][1] = blocks[n + 1]
                             /\ "block" \notin overlapped => n = config["number"][1]
    BY DEF FetchedBlockIsReal
  <2>1. \A f \in asked : ResultOK(f)
    BY DEF FetchInv, Done
  <2>2. Len(blocks) \in Nat /\ 0 < Len(blocks) /\ \A i \in 1 .. Len(blocks) : blocks[i] = i - 1
    BY LenProperties DEF LedgerInv
  <2>3. \A f \in asked : config[f] # Unset
    BY <2>1, ZenonT(30) DEF ResultOK
  <2>4. ASSUME "block" \in asked
        PROVE  \E n \in 0..config["number"][1] :
                 /\ config["block"][1] = blocks[n + 1]
                 /\ "block" \notin overlapped => n = config["number"][1]
    <3>0. BlockOK
      BY <2>1, <2>4, ZenonT(30) DEF ResultOK
    <3>1. PICK n, m \in Numbered : /\ config["number"] = <<m>> /\ config["block"] = <<n>> /\ n <= m
                                   /\ "block" \notin overlapped => n = m
      BY <3>0 DEF BlockOK
    <3>2. config["number"][1] = m /\ config["block"][1] = n
      BY <3>1
    <3>3. blocks[n + 1] = n /\ n \in 0..m
      BY <2>2, <3>1 DEF Numbered
    <3> QED
      BY <3>1, <3>2, <3>3, ZenonT(30)
  <2>5. ASSUME "genesis" \in asked PROVE config["genesis"][1] = blocks[1]
    <3>1. config["genesis"] = <<0>>
      BY <2>1, <2>5, ZenonT(30) DEF ResultOK
    <3> QED
      BY <2>2, <3>1
  <2> QED
    BY <2>3, <2>4, <2>5
<1> QED
  BY <1>1, FetcherInvariant, PTL
=============================================================================

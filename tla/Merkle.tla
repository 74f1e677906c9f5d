-------------------------------- MODULE Merkle --------------------------------
(***************************************************************************)
(* ParallelMerkleProof and the roots a block computes with it              *)
(* (Block::calculateTransactionRoot, calculateReceiptRoot).  A text is a   *)
(* sequence of tokens: the SCALE encoding of an index, the hash of a       *)
(* transaction, or the hash of a text.  The hash function is external and  *)
(* injective here.                                                         *)
(***************************************************************************)
EXTENDS Naturals, Sequences, SequencesExt, Functions

MaxChildCount == 16

Index(i) == [kind |-> "index", n |-> i, of |-> <<>>]
TxHash(h) == [kind |-> "tx", n |-> h, of |-> <<>>]
Hash(text) == << [kind |-> "hash", n |-> 0, of |-> text] >>

\* Block::encodeToCalculateRoot
EncodeToCalculateRoot(hashes) == [i \in 1..Len(hashes) |-> <<Index(i - 1), TxHash(hashes[i])>>]

-----------------------------------------------------------------------------

\* the children of the i-th node of the next level, without the last text
ChildrenButLast(level, i) ==
    LET first == (i - 1) * MaxChildCount
    IN  [j \in 1..Cardinality({k \in 1..MaxChildCount : first + k < Len(level)}) |-> level[first + j]]

Children(level, i) ==
    LET first == (i - 1) * MaxChildCount
    IN  [j \in 1..Cardinality({k \in 1..MaxChildCount : first + k <= Len(level)}) |-> level[first + j]]

HigherLevelList(level) ==
    [i \in 1..(Len(level) + MaxChildCount - 1) \div MaxChildCount |-> Hash(FlattenSeq(Children(level, i)))]

RECURSIVE TopOf(_)
TopOf(level) == IF Len(level) > 1 THEN TopOf(HigherLevelList(level)) ELSE level[1]

CalculateMerkleProofRoot(texts) == IF texts = <<>> THEN Hash(<<>>) ELSE Hash(TopOf(texts))

\* parent -> children, of every level and of the root above the last
RECURSIVE ParentsOf(_)
ParentsOf(level) ==
    LET higher == HigherLevelList(level)
        Joined(p) == FlattenSeq([i \in 1..Len(higher) |-> IF higher[i] = p THEN Children(level, i) ELSE <<>>])
    IN  IF Len(level) > 1
        THEN [p \in ToSet(higher) |-> Joined(p)] @@ ParentsOf(higher)
        ELSE Hash(level[1]) :> <<level[1]>>

CalculateMerkleProof(texts) == IF texts = <<>> THEN <<>> ELSE ParentsOf(texts)

\* the roots of a block: of its transactions, or of their metadata without them
CalculateTransactionRoot(txs, metaData) ==
    IF txs = <<>> /\ metaData = <<>> THEN <<>>
    ELSE CalculateMerkleProofRoot(EncodeToCalculateRoot(IF txs # <<>> THEN txs ELSE metaData))

CalculateReceiptRoot(receipts) ==
    IF receipts = <<>> THEN <<>> ELSE CalculateMerkleProofRoot(EncodeToCalculateRoot(receipts))
=============================================================================

---------------------------- MODULE SealerProofs ----------------------------
(***************************************************************************)
(* Where a transaction that the pool has handed to the sealer can be, for   *)
(* any transactions, block sizes and numbers of blocks, whatever calls of   *)
(* consensus overlap the sealing of a block; and, when none does, that the  *)
(* numbers of proposals differ and a system block holds up the next ones.   *)
(***************************************************************************)
EXTENDS Sealer, FiniteSetTheorems, TLAPS

Numbers ==
  /\ sealing \in Int /\ start \in Int /\ end \in Int /\ waitUntil \in Int
  /\ maxTxs \in Nat /\ current \in Nat /\ request \in Nat
  /\ fetching \in BOOLEAN /\ unsealed \in BOOLEAN /\ elapsed \in BOOLEAN
  /\ pc \in {"loop", "generate", "number", "store", "header", "fill", "submit",
             "fetch", "ask", "null"}
  /\ cpc \in {"idle", "clear", "start", "sealing", "end", "max", "reset"}
  /\ ask \in [start : Nat, end : Nat, max : Nat]

Contents ==
  /\ pending \subseteq Txs \ SysTxs /\ pendingSys \subseteq SysTxs
  /\ local \in Local
  /\ returning \subseteq Returning
  /\ answer \in [stage : {"none", "txs", "sys"}, txs : SUBSET Txs]
  /\ sealed \subseteq Txs /\ committed \subseteq Txs
  /\ proposals \subseteq Proposal

LEMMA TypeSplit == TypeOK <=> Numbers /\ Contents
  BY DEF TypeOK, Numbers, Contents

LEMMA MaxTyped == ASSUME NEW a \in Int, NEW b \in Int PROVE Max({a, b}) \in Int
<1>1. \E x \in {a, b} : \A y \in {a, b} : x >= y
  OBVIOUS
<1> QED
  BY <1>1 DEF Max

LEMMA ModTyped == ASSUME NEW n \in Int, NEW m \in Nat \ {0} PROVE n % m \in Nat
  OBVIOUS

LEMMA PendingFinite ==
  ASSUME Contents PROVE PendingTxsSize \in Nat
<1>1. IsFiniteSet(Txs) /\ pending \subseteq Txs /\ pendingSys \subseteq Txs
  BY SealerAssumption DEF Contents
<1>2. IsFiniteSet(pending) /\ IsFiniteSet(pendingSys)
  BY <1>1, FS_Subset
<1>3. Cardinality(pending) \in Nat /\ Cardinality(pendingSys) \in Nat
  BY <1>2, FS_CardinalityType
<1> QED
  BY <1>3 DEF PendingTxsSize

-----------------------------------------------------------------------------
(***************************************************************************)
(* Types.                                                                   *)
(***************************************************************************)
LEMMA NumbersStep ==
  ASSUME Numbers, Contents, [Next]_vars
  PROVE  Numbers'
<1> USE DEF Numbers
<1>1. ASSUME ExecuteWorker \/ GenerateProposal PROVE Numbers'
  BY <1>1 DEF ExecuteWorker, GenerateProposal, ShouldGenerateProposal, numbers, caller, fetch
<1>2. CASE LoadNumber \/ SetHeaderNumber \/ SubmitProposal \/ ShouldFetchTransaction
  BY <1>2 DEF LoadNumber, SetHeaderNumber, SubmitProposal, ShouldFetchTransaction, numbers,
              caller, fetch
<1>3. CASE StoreNumber
  BY <1>3 DEF StoreNumber, Contents, Local, caller, fetch
<1>4. CASE FillBlock
  <2>1. /\ sealing' = sealing + 1 /\ waitUntil' \in {sealing, waitUntil} /\ elapsed' = FALSE
        /\ pc' = "submit" /\ UNCHANGED <<start, end, maxTxs, current, unsealed, caller, fetch>>
    BY <1>4, ZenonT(30) DEF FillBlock
  <2>2. elapsed' \in BOOLEAN
    BY <2>1, Zenon
  <2> QED
    BY <2>1, <2>2 DEF caller, fetch
<1>5. CASE FetchTransactions
  <2> DEFINE size == ((end - sealing + 1) * maxTxs) % SizeMod
  <2>1. (end - sealing + 1) * maxTxs \in Int
    OBVIOUS
  <2>2. size \in Nat /\ PendingTxsSize \in Nat
    BY <2>1, ModTyped, PendingFinite, SealerAssumption
  <2>3. request' = request \/ (~(size <= PendingTxsSize) /\ request' = size - PendingTxsSize)
    BY <1>5 DEF FetchTransactions, fetch
  <2>4. request' \in Nat
    <3> HIDE DEF size
    <3> QED
      BY <2>2, <2>3
  <2>5. /\ fetching' \in BOOLEAN /\ pc' = "loop"
        /\ UNCHANGED <<numbers, unsealed, elapsed, caller>>
    BY <1>5, ZenonT(30) DEF FetchTransactions, fetch
  <2> QED
    BY <2>4, <2>5 DEF numbers, caller
<1>6. CASE ConsensusStep
  <2>1. ask.start \in Nat /\ ask.end \in Nat /\ ask.max \in Nat
    OBVIOUS
  <2>2. CASE ResetClear \/ ResetSealingClears
    BY <2>2 DEF ResetClear, ResetSealingClears, numbers, thread, fetch
  <2>3. CASE ResetStart \/ ResetEnd
    BY <2>1, <2>3 DEF ResetStart, ResetEnd, thread, fetch
  <2>4. CASE ResetMaxTxs
    BY <2>1, <2>4 DEF ResetMaxTxs, NoAsk, thread, fetch
  <2>5. CASE ResetSealingNumber
    <3>1. elapsed' \in BOOLEAN
      BY <2>5, Zenon DEF ResetSealingNumber
    <3> QED
      BY <2>1, <2>5, <3>1 DEF ResetSealingNumber, thread, fetch
  <2> QED
    BY <1>6, <2>2, <2>3, <2>4, <2>5 DEF ConsensusStep
<1>7. CASE PoolAnswers \/ PoolFails \/ AppendTxs \/ AppendSysTxs
  <2>1. /\ request' \in {request, 0} /\ fetching' \in {fetching, FALSE}
        /\ UNCHANGED <<numbers, unsealed, elapsed, thread, caller>>
    BY <1>7, ZenonT(30) DEF PoolAnswers, PoolFails, AppendTxs, AppendSysTxs
  <2>2. fetching' \in BOOLEAN
    BY <2>1, Zenon
  <2> QED
    BY <2>1, <2>2 DEF numbers, thread, caller
<1>8. CASE NoteUnSealedTxsSize
  BY <1>8 DEF NoteUnSealedTxsSize, numbers, thread, caller, fetch
<1>9. CASE Mark \/ Tick
  <2>1. elapsed' \in {elapsed, TRUE} /\ UNCHANGED <<numbers, unsealed, thread, caller, fetch>>
    BY <1>9, ZenonT(30) DEF Mark, MarkTxs, MarkFails, Tick
  <2>2. elapsed' \in BOOLEAN
    BY <2>1, Zenon
  <2> QED
    BY <2>1, <2>2 DEF numbers, thread, caller, fetch
<1>10. CASE Commit
  BY <1>10 DEF Commit, CommitProposal, thread, caller, fetch
<1>11. ASSUME NEW s \in 1 .. MaxNumber, NEW e \in 1 .. MaxNumber, NEW m \in BlockSizes,
              AsyncNotifySealProposal(s, e, m)
       PROVE  Numbers'
  BY <1>11, SealerAssumption DEF AsyncNotifySealProposal, numbers, thread, fetch
<1>12. CASE ResetSealing \/ CommitOther
  BY <1>12 DEF ResetSealing, CommitOther, thread, caller, fetch
<1>13. CASE \E p \in proposals : RefuseProposal(p)
  BY <1>13 DEF RefuseProposal, numbers, thread, caller, fetch
<1>14. CASE UNCHANGED vars
  BY <1>14 DEF vars, numbers, thread, caller, fetch
<1> QED
  BY <1>1, <1>2, <1>3, <1>4, <1>5, <1>6, <1>7, <1>8, <1>9, <1>10, <1>11, <1>12, <1>13, <1>14
  DEF Next, SealerStep, PoolStep

-----------------------------------------------------------------------------
(***************************************************************************)
(* The places of a transaction.  There is one fetch at a time, and a block  *)
(* has transactions only from the moment it is filled to its submission.    *)
(***************************************************************************)
FetchOnce ==
  /\ request > 0 => fetching = TRUE /\ answer.stage = "none"
  /\ answer.stage # "none" => fetching = TRUE
  /\ answer.stage = "none" => answer.txs = {}
  /\ answer.stage = "sys" => answer.txs \subseteq SysTxs
  /\ pc = "ask" => fetching = FALSE

BlockFilled == pc # "submit" => local.txs = {}

InProposal(tx) == \E p \in proposals : tx \in p.txs
InReturn(tx) == \E r \in returning : tx \in r.txs

OnePlace(tx) ==
  /\ tx \in answer.txs => /\ tx \notin pending /\ tx \notin pendingSys /\ tx \notin local.txs
                          /\ tx \notin committed /\ ~InProposal(tx) /\ ~InReturn(tx)
  /\ tx \in pending => /\ tx \notin pendingSys /\ tx \notin local.txs
                       /\ tx \notin committed /\ ~InProposal(tx) /\ ~InReturn(tx)
  /\ tx \in pendingSys => /\ tx \notin local.txs
                          /\ tx \notin committed /\ ~InProposal(tx) /\ ~InReturn(tx)
  /\ tx \in local.txs => tx \notin committed /\ ~InProposal(tx) /\ ~InReturn(tx)
  /\ InProposal(tx) => tx \notin committed /\ ~InReturn(tx)
  /\ InReturn(tx) => tx \notin committed

\* the sealer holds nothing that the pool would hand out again
WithSealer(tx) ==
  \/ tx \in answer.txs \/ tx \in pending \/ tx \in pendingSys \/ tx \in local.txs
  \/ InProposal(tx) \/ InReturn(tx)

OneProposal(tx) == \A p, q \in proposals : tx \in p.txs /\ tx \in q.txs => p = q
OneReturn(tx) == \A p, q \in returning : tx \in p.txs /\ tx \in q.txs => p = q

Placed(tx) ==
  OnePlace(tx) /\ (WithSealer(tx) => tx \in sealed) /\ OneProposal(tx) /\ OneReturn(tx)

PlacesInv ==
  /\ Numbers /\ Contents /\ FetchOnce /\ BlockFilled
  /\ \A tx \in Txs : Placed(tx)

\* the pool marks nothing as sealed that is nowhere
Found(tx) == tx \in sealed => WithSealer(tx) \/ tx \in committed

\* A list on its way to the pool holds what was nowhere in another one.
LEMMA ListAdded ==
  ASSUME Contents, NEW S \in SUBSET Txs, NotifyResetTxsFlag(S)
  PROVE  /\ returning' \subseteq Returning
         /\ \A tx \in Txs : InReturn(tx)' <=> InReturn(tx) \/ tx \in S
         /\ \A tx \in Txs : OneReturn(tx) /\ ~(tx \in S /\ InReturn(tx)) => OneReturn(tx)'
<1> DEFINE r == [txs |-> S, retry |-> 0]
<1>1. r \in Returning /\ r.txs = S
  BY DEF Returning
<1>2. returning' = returning \/ returning' = returning \cup {r}
  BY DEF NotifyResetTxsFlag
<1>3. S # {} => returning' = returning \cup {r}
  BY DEF NotifyResetTxsFlag
<1> HIDE DEF r
<1>4. returning' \subseteq Returning
  BY <1>1, <1>2 DEF Contents
<1>5. \A tx \in Txs : InReturn(tx)' <=> InReturn(tx) \/ tx \in S
  BY <1>1, <1>2, <1>3 DEF InReturn
<1>6. \A tx \in Txs : OneReturn(tx) /\ ~(tx \in S /\ InReturn(tx)) => OneReturn(tx)'
  BY <1>1, <1>2 DEF OneReturn, InReturn
<1> QED
  BY <1>4, <1>5, <1>6

\* The proposals, or the lists on their way, stay as they are.
LEMMA SameProposals ==
  ASSUME proposals' = proposals
  PROVE  \A tx : (InProposal(tx)' <=> InProposal(tx)) /\ (OneProposal(tx)' <=> OneProposal(tx))
  BY DEF InProposal, OneProposal

LEMMA SameReturning ==
  ASSUME returning' = returning
  PROVE  \A tx : (InReturn(tx)' <=> InReturn(tx)) /\ (OneReturn(tx)' <=> OneReturn(tx))
  BY DEF InReturn, OneReturn

\* No transaction moves.
Still ==
  /\ UNCHANGED <<pending, pendingSys, answer, returning, sealed, committed, proposals>>
  /\ local' \in Local /\ local'.txs = local.txs

LEMMA StillKeeps ==
  ASSUME PlacesInv, Still
  PROVE  Contents' /\ \A tx \in Txs : Placed(tx)' /\ (Found(tx) => Found(tx)')
<1>1. Contents'
  BY DEF PlacesInv, Contents, Still
<1>2. ASSUME NEW tx \in Txs PROVE Placed(tx)' /\ (Found(tx) => Found(tx)')
  BY SameProposals, SameReturning
  DEF PlacesInv, Still, Placed, OnePlace, WithSealer, Found
<1> QED
  BY <1>1, <1>2

\* The queues go back to the pool.
Clears ==
  /\ ClearPendingTxs
  /\ UNCHANGED <<answer, local, sealed, committed, proposals>>

LEMMA ClearsKeeps ==
  ASSUME PlacesInv, Clears
  PROVE  Contents' /\ \A tx \in Txs : Placed(tx)' /\ (Found(tx) => Found(tx)')
<1>0. /\ NotifyResetTxsFlag(pending \cup pendingSys) /\ pending' = {} /\ pendingSys' = {}
      /\ pending \cup pendingSys \in SUBSET Txs
  BY SealerAssumption DEF Clears, ClearPendingTxs, PlacesInv, Contents
<1>1. /\ returning' \subseteq Returning
      /\ \A tx \in Txs : InReturn(tx)' <=> InReturn(tx) \/ tx \in pending \/ tx \in pendingSys
      /\ \A tx \in Txs : OneReturn(tx) /\ ~(tx \in pending \cup pendingSys /\ InReturn(tx))
                          => OneReturn(tx)'
  BY <1>0, ListAdded DEF PlacesInv
<1>2. Contents'
  BY <1>0, <1>1, SMTT(30) DEF PlacesInv, Contents, Clears
<1>3. ASSUME NEW tx \in Txs PROVE Placed(tx)' /\ (Found(tx) => Found(tx)')
  BY <1>0, <1>1, SameProposals DEF PlacesInv, Clears, Placed, OnePlace, WithSealer, Found
<1> QED
  BY <1>2, <1>3

\* generateProposal moves transactions from the queues to the block.
LEMMA FillKeeps ==
  ASSUME PlacesInv, FillBlock
  PROVE  Contents' /\ \A tx \in Txs : Placed(tx)' /\ (Found(tx) => Found(tx)')
<1>1. PICK S \in SUBSET pendingSys, T \in SUBSET pending :
        /\ local' = [local EXCEPT !.txs = S \cup T, !.sys = S # {}]
        /\ pendingSys' = pendingSys \ S
        /\ pending' = pending \ T
  BY ZenonT(30) DEF FillBlock, kSubset
<1>2. pc = "fill" /\ UNCHANGED <<answer, returning, sealed, committed, proposals>>
  BY ZenonT(30) DEF FillBlock, fetch, pool
<1>3. local \in Local /\ local.txs = {} /\ pending \subseteq Txs /\ pendingSys \subseteq Txs
  BY <1>2, SealerAssumption DEF PlacesInv, Contents, BlockFilled
<1>4. local' \in Local /\ local'.txs = S \cup T
  <2>1. S \cup T \in SUBSET Txs /\ (S # {}) \in BOOLEAN
    BY <1>3, Zenon
  <2> DEFINE full == S # {}
  <2>2. local' = [local EXCEPT !.txs = S \cup T, !.sys = full] /\ full \in BOOLEAN
    BY <1>1, <2>1
  <2> HIDE DEF full
  <2> QED
    BY <1>3, <2>1, <2>2, ZenonT(30) DEF Local
<1>5. Contents'
  BY <1>1, <1>2, <1>4, SMTT(30) DEF PlacesInv, Contents
<1>6. ASSUME NEW tx \in Txs PROVE Placed(tx)' /\ (Found(tx) => Found(tx)')
  <2>1. /\ tx \in local'.txs <=> tx \in S \/ tx \in T
        /\ tx \in pendingSys' <=> tx \in pendingSys /\ tx \notin S
        /\ tx \in pending' <=> tx \in pending /\ tx \notin T
        /\ tx \in S => tx \in pendingSys
        /\ tx \in T => tx \in pending
    BY <1>1, <1>4
  <2> QED
    BY <1>2, <1>3, <2>1, SameProposals, SameReturning
    DEF PlacesInv, Placed, OnePlace, WithSealer, Found
<1> QED
  BY <1>5, <1>6

\* submitProposal hands the block over, or gives its transactions back.
LEMMA SubmitKeeps ==
  ASSUME PlacesInv, SubmitProposal
  PROVE  Contents' /\ \A tx \in Txs : Placed(tx)' /\ (Found(tx) => Found(tx)')
<1>1. /\ local' = NoLocal /\ UNCHANGED <<pending, pendingSys, answer, sealed, committed>>
      /\ local \in Local /\ local.txs \in SUBSET Txs
  BY DEF SubmitProposal, queues, fetch, pool, PlacesInv, Contents, Local
<1>2. local' \in Local /\ local'.txs = {}
  BY <1>1 DEF Local, NoLocal
<1>3. CASE NotifyResetTxsFlag(local.txs) /\ UNCHANGED proposals
  <2>1. /\ returning' \subseteq Returning
        /\ \A tx \in Txs : InReturn(tx)' <=> InReturn(tx) \/ tx \in local.txs
        /\ \A tx \in Txs : OneReturn(tx) /\ ~(tx \in local.txs /\ InReturn(tx)) => OneReturn(tx)'
    BY <1>1, <1>3, ListAdded DEF PlacesInv
  <2>2. Contents'
    BY <1>1, <1>2, <1>3, <2>1, SMTT(30) DEF PlacesInv, Contents
  <2>3. ASSUME NEW tx \in Txs PROVE Placed(tx)' /\ (Found(tx) => Found(tx)')
    BY <1>1, <1>2, <1>3, <2>1, SameProposals DEF PlacesInv, Placed, OnePlace, WithSealer, Found
  <2> QED
    BY <2>2, <2>3
<1>4. CASE proposals' = proposals \cup {Proposed} /\ UNCHANGED returning
  <2>1. Proposed \in Proposal /\ Proposed.txs = local.txs
    BY <1>1 DEF Proposed, Proposal, Local
  <2>2. Contents'
    BY <1>1, <1>2, <1>4, <2>1 DEF PlacesInv, Contents
  <2>3. \A tx : InProposal(tx)' <=> InProposal(tx) \/ tx \in local.txs
    BY <1>4, <2>1 DEF InProposal
  <2>4. \A tx : OneProposal(tx) /\ ~(tx \in local.txs /\ InProposal(tx)) => OneProposal(tx)'
    BY <1>4, <2>1, SMTT(30) DEF OneProposal, InProposal
  <2>5. ASSUME NEW tx \in Txs PROVE Placed(tx)' /\ (Found(tx) => Found(tx)')
    BY <1>1, <1>2, <1>4, <2>3, <2>4, SameReturning
    DEF PlacesInv, Placed, OnePlace, WithSealer, Found
  <2> QED
    BY <2>2, <2>5
<1> QED
  BY <1>3, <1>4 DEF SubmitProposal

\* The pool hands out transactions that are nowhere, and the callback of
\* asyncSealTxs puts them into the queues.
LEMMA FetchKeeps ==
  ASSUME PlacesInv, PoolAnswers \/ AppendTxs \/ AppendSysTxs
  PROVE  Contents' /\ \A tx \in Txs : Placed(tx)' /\ (Found(tx) => Found(tx)')
<1>0. /\ UNCHANGED <<local, returning, committed, proposals>>
      /\ answer \in [stage : {"none", "txs", "sys"}, txs : SUBSET Txs]
  BY ZenonT(30) DEF PoolAnswers, AppendTxs, AppendSysTxs, thread, pool, PlacesInv, Contents
<1>1. CASE PoolAnswers
  <2>1. PICK T \in SUBSET Unsealed :
          sealed' = sealed \cup T /\ answer' = [stage |-> "txs", txs |-> T]
    BY <1>1, ZenonT(30) DEF PoolAnswers
  <2>2. pending' = pending /\ pendingSys' = pendingSys /\ answer.txs = {}
    BY <1>1, ZenonT(30) DEF PoolAnswers, queues, PlacesInv, FetchOnce
  <2>3. T \subseteq Txs /\ answer'.txs = T /\ \A tx \in T : tx \notin sealed /\ tx \notin committed
    BY <2>1 DEF Unsealed
  <2>4. Contents'
    BY <1>0, <2>1, <2>2, <2>3, SMTT(30) DEF PlacesInv, Contents
  <2>5. ASSUME NEW tx \in Txs PROVE Placed(tx)' /\ (Found(tx) => Found(tx)')
    <3>1. /\ tx \in answer'.txs <=> tx \in T
          /\ tx \in sealed' <=> tx \in sealed \/ tx \in T
          /\ tx \notin answer.txs
      BY <2>1, <2>2, <2>3
    <3> QED
      BY <1>0, <2>2, <2>3, <3>1, SameProposals, SameReturning, SMTT(30)
      DEF PlacesInv, Placed, OnePlace, WithSealer, Found
  <2> QED
    BY <2>4, <2>5
<1>2. CASE AppendTxs
  <2>1. /\ pending' = pending \cup (answer.txs \ SysTxs) /\ pendingSys' = pendingSys
        /\ answer' = [stage |-> "sys", txs |-> answer.txs \cap SysTxs] /\ sealed' = sealed
    BY <1>2 DEF AppendTxs, pool
  <2>2. Contents'
    BY <1>0, <2>1, SMTT(30) DEF PlacesInv, Contents
  <2>3. ASSUME NEW tx \in Txs PROVE Placed(tx)' /\ (Found(tx) => Found(tx)')
    <3>1. /\ tx \in answer'.txs <=> tx \in answer.txs /\ tx \in SysTxs
          /\ tx \in pending' <=> tx \in pending \/ (tx \in answer.txs /\ tx \notin SysTxs)
      BY <2>1
    <3> QED
      BY <1>0, <2>1, <3>1, SameProposals, SameReturning
      DEF PlacesInv, Placed, OnePlace, WithSealer, Found
  <2> QED
    BY <2>2, <2>3
<1>3. CASE AppendSysTxs
  <2>1. /\ pendingSys' = pendingSys \cup answer.txs /\ pending' = pending
        /\ answer' = NoAnswer /\ sealed' = sealed /\ answer.txs \subseteq SysTxs
    BY <1>3 DEF AppendSysTxs, pool, PlacesInv, FetchOnce
  <2>2. answer' \in [stage : {"none", "txs", "sys"}, txs : SUBSET Txs] /\ answer'.txs = {}
    BY <2>1 DEF NoAnswer
  <2>3. Contents'
    BY <1>0, <2>1, <2>2, SMTT(30) DEF PlacesInv, Contents
  <2>4. ASSUME NEW tx \in Txs PROVE Placed(tx)' /\ (Found(tx) => Found(tx)')
    <3>1. /\ tx \notin answer'.txs
          /\ tx \in pendingSys' <=> tx \in pendingSys \/ tx \in answer.txs
      BY <2>1, <2>2
    <3> QED
      BY <1>0, <2>1, <3>1, SameProposals, SameReturning
      DEF PlacesInv, Placed, OnePlace, WithSealer, Found
  <2> QED
    BY <2>3, <2>4
<1> QED
  BY <1>1, <1>2, <1>3

\* asyncMarkTxs succeeds for one list: the transactions are the pool's again.
LEMMA MarkKeeps ==
  ASSUME PlacesInv, NEW r \in returning, MarkTxs(r)
  PROVE  Contents' /\ \A tx \in Txs : Placed(tx)' /\ (Found(tx) => Found(tx)')
<1>1. /\ returning' = returning \ {r} /\ sealed' = sealed \ r.txs
      /\ UNCHANGED <<pending, pendingSys, answer, local, committed, proposals>>
  BY DEF MarkTxs, queues, thread, fetch
<1>2. Contents'
  BY <1>1, SMTT(30) DEF PlacesInv, Contents
<1>3. ASSUME NEW tx \in Txs PROVE Placed(tx)' /\ (Found(tx) => Found(tx)')
  <2>1. Placed(tx)
    BY SMTT(30) DEF PlacesInv
  <2>2. InReturn(tx)' <=> InReturn(tx) /\ tx \notin r.txs
    BY <1>1, <2>1 DEF InReturn, Placed, OneReturn
  <2>3. OneReturn(tx)' /\ (tx \in r.txs => InReturn(tx))
    BY <1>1, <2>1 DEF InReturn, Placed, OneReturn
  <2>4. tx \in sealed' <=> tx \in sealed /\ tx \notin r.txs
    BY <1>1
  <2> QED
    BY <1>1, <2>1, <2>2, <2>3, <2>4, SameProposals DEF Placed, OnePlace, WithSealer, Found
<1> QED
  BY <1>2, <1>3

\* asyncMarkTxs fails: the list is tried again, three times at most.
LEMMA MarkFailsKeeps ==
  ASSUME PlacesInv, NEW r \in returning, MarkFails(r)
  PROVE  /\ Contents' /\ \A tx \in Txs : Placed(tx)'
         /\ MarkFailures <= 3 => \A tx \in Txs : Found(tx) => Found(tx)'
<1> DEFINE again == [txs |-> r.txs, retry |-> r.retry + 1]
<1>1. /\ r \in Returning /\ r.retry \in 0 .. 3 /\ r.txs \in SUBSET Txs /\ again.txs = r.txs
      /\ r.retry < MarkFailures
  BY DEF PlacesInv, Contents, Returning, MarkFails
<1>2. UNCHANGED <<pending, pendingSys, answer, local, sealed, committed, proposals>>
  BY DEF MarkFails, queues, thread, fetch, pool
<1>3. \/ returning' = returning \ {r} /\ MarkFailures > 3
      \/ returning' = (returning \ {r}) \cup {again} /\ again \in Returning
  <2>0. returning' = (returning \ {r}) \cup
          {[txs |-> r.txs, retry |-> n] : n \in {r.retry + 1} \cap (0 .. 3)}
    BY DEF MarkFails
  <2>1. CASE r.retry + 1 \in 0 .. 3
    <3>1. {r.retry + 1} \cap (0 .. 3) = {r.retry + 1}
      BY <2>1, ZenonT(30)
    <3>2. {[txs |-> r.txs, retry |-> n] : n \in {r.retry + 1}} = {again}
      OBVIOUS
    <3>3. again \in Returning
      BY <1>1, <2>1 DEF Returning
    <3> QED
      BY <2>0, <3>1, <3>2, <3>3
  <2>2. CASE r.retry + 1 \notin 0 .. 3
    <3>1. {r.retry + 1} \cap (0 .. 3) = {}
      BY <2>2
    <3>2. MarkFailures > 3
      BY <1>1, <2>2, SealerAssumption
    <3> QED
      BY <2>0, <3>1, <3>2
  <2> QED
    BY <2>1, <2>2
<1> HIDE DEF again
<1>4. Contents'
  BY <1>2, <1>3, SMTT(30) DEF PlacesInv, Contents
<1>5. ASSUME NEW tx \in Txs
      PROVE  Placed(tx)' /\ (MarkFailures <= 3 => (Found(tx) => Found(tx)'))
  <2>1. Placed(tx)
    BY DEF PlacesInv
  <2>2. (InReturn(tx)' => InReturn(tx)) /\ OneReturn(tx)'
    BY <1>1, <1>3, <2>1 DEF InReturn, Placed, OneReturn
  <2>3. MarkFailures <= 3 => (InReturn(tx) => InReturn(tx)')
    BY <1>1, <1>3, SealerAssumption DEF InReturn
  <2> QED
    BY <1>2, <2>1, <2>2, <2>3, SameProposals DEF Placed, OnePlace, WithSealer, Found
<1> QED
  BY <1>4, <1>5

\* Consensus drops proposals and gives their transactions back to the pool.
LEMMA DropKeeps ==
  ASSUME PlacesInv, NEW D \in SUBSET proposals,
         proposals' = proposals \ D, sealed' = sealed \ TxsOf(D),
         UNCHANGED <<pending, pendingSys, answer, local, returning, committed>>
  PROVE  Contents' /\ \A tx \in Txs : Placed(tx)' /\ (Found(tx) => Found(tx)')
<1>1. Contents'
  BY SMTT(30) DEF PlacesInv, Contents
<1>2. ASSUME NEW tx \in Txs PROVE Placed(tx)' /\ (Found(tx) => Found(tx)')
  <2> DEFINE dropped == \E p \in D : tx \in p.txs
  <2>1. Placed(tx)
    BY DEF PlacesInv
  <2>2. InProposal(tx)' <=> InProposal(tx) /\ ~dropped
    BY <2>1 DEF InProposal, Placed, OneProposal
  <2>3. OneProposal(tx)' /\ (dropped => InProposal(tx))
    BY <2>1 DEF InProposal, Placed, OneProposal
  <2>4. tx \in sealed' <=> tx \in sealed /\ ~dropped
    BY DEF TxsOf
  <2> HIDE DEF dropped
  <2> QED
    BY <2>1, <2>2, <2>3, <2>4, SameReturning DEF Placed, OnePlace, WithSealer, Found
<1> QED
  BY <1>1, <1>2

LEMMA CommitKeeps ==
  ASSUME PlacesInv, NEW p \in proposals, CommitProposal(p)
  PROVE  Contents' /\ \A tx \in Txs : Placed(tx)' /\ (Found(tx) => Found(tx)')
<1>1. /\ proposals' = proposals \ {p} /\ committed' = committed \cup p.txs
      /\ UNCHANGED <<pending, pendingSys, answer, local, returning, sealed>>
  BY DEF CommitProposal, queues, thread, fetch
<1>2. p.txs \subseteq Txs
  BY DEF PlacesInv, Contents, Proposal
<1>3. Contents'
  BY <1>1, <1>2, SMTT(30) DEF PlacesInv, Contents
<1>4. ASSUME NEW tx \in Txs PROVE Placed(tx)' /\ (Found(tx) => Found(tx)')
  <2>1. Placed(tx)
    BY DEF PlacesInv
  <2>2. InProposal(tx)' <=> InProposal(tx) /\ tx \notin p.txs
    BY <1>1, <2>1 DEF InProposal, Placed, OneProposal
  <2>3. OneProposal(tx)' /\ (tx \in p.txs => InProposal(tx))
    BY <1>1, <2>1 DEF InProposal, Placed, OneProposal
  <2>4. tx \in committed' <=> tx \in committed \/ tx \in p.txs
    BY <1>1
  <2> QED
    BY <1>1, <2>1, <2>2, <2>3, <2>4, SameReturning, SMTT(30) DEF Placed, OnePlace, WithSealer, Found
<1> QED
  BY <1>3, <1>4

\* A proposal that consensus refuses is forgotten.
LEMMA RefuseKeeps ==
  ASSUME PlacesInv, NEW p \in proposals, RefuseProposal(p)
  PROVE  Contents' /\ \A tx \in Txs : Placed(tx)'
<1>1. /\ proposals' = proposals \ {p}
      /\ UNCHANGED <<pending, pendingSys, answer, local, returning, sealed, committed>>
  BY DEF RefuseProposal, queues, thread, fetch, pool
<1>2. Contents'
  BY <1>1, SMTT(30) DEF PlacesInv, Contents
<1>3. ASSUME NEW tx \in Txs PROVE Placed(tx)'
  <2>1. Placed(tx)
    BY DEF PlacesInv
  <2>2. (InProposal(tx)' => InProposal(tx)) /\ OneProposal(tx)'
    BY <1>1, <2>1 DEF InProposal, Placed, OneProposal
  <2> QED
    BY <1>1, <2>1, <2>2, SameReturning DEF Placed, OnePlace, WithSealer
<1> QED
  BY <1>2, <1>3

-----------------------------------------------------------------------------
(***************************************************************************)
(* The invariant along the steps.                                           *)
(***************************************************************************)
LEMMA FetchOnceStep ==
  ASSUME PlacesInv, [Next]_vars
  PROVE  FetchOnce'
<1>0. FetchOnce /\ Numbers
  BY DEF PlacesInv
<1>1. CASE UNCHANGED <<fetching, request, answer>> /\ (pc' = "ask" => pc = "ask")
  BY <1>0, <1>1, ZenonT(30) DEF FetchOnce
<1>2. CASE ShouldFetchTransaction
  BY <1>0, <1>2, ZenonT(30) DEF ShouldFetchTransaction, FetchOnce, fetch, Numbers
<1>3. CASE FetchTransactions
  <2>1. pc = "ask" /\ pc' = "loop" /\ answer' = answer
    BY <1>3 DEF FetchTransactions, fetch
  <2>2. UNCHANGED <<fetching, request>> \/ fetching' = TRUE
    BY <1>3 DEF FetchTransactions, fetch
  <2>3. answer.stage = "none" /\ answer.txs = {}
    BY <1>0, <2>1, ZenonT(30) DEF FetchOnce
  <2>4. pc' # "ask"
    BY <2>1
  <2> QED
    BY <1>0, <2>1, <2>2, <2>3, <2>4 DEF FetchOnce
<1>4. CASE PoolAnswers
  <2>1. request > 0 /\ request' = 0 /\ UNCHANGED <<fetching, pc>> /\ answer'.stage = "txs"
    BY <1>4 DEF PoolAnswers, thread
  <2> QED
    BY <1>0, <2>1 DEF FetchOnce
<1>5. CASE PoolFails
  <2>1. request > 0 /\ request' = 0 /\ fetching' = FALSE /\ UNCHANGED <<answer, pc>>
    BY <1>5 DEF PoolFails, thread
  <2> QED
    BY <1>0, <2>1 DEF FetchOnce
<1>6. CASE AppendTxs
  <2>1. /\ answer.stage = "txs" /\ UNCHANGED <<fetching, request, pc>>
        /\ answer'.stage = "sys" /\ answer'.txs \subseteq SysTxs
    BY <1>6 DEF AppendTxs, thread
  <2> QED
    BY <1>0, <2>1 DEF FetchOnce
<1>7. CASE AppendSysTxs
  <2>1. /\ answer.stage = "sys" /\ fetching' = FALSE /\ UNCHANGED <<request, pc>>
        /\ answer'.stage = "none" /\ answer'.txs = {}
    BY <1>7 DEF AppendSysTxs, NoAnswer, thread
  <2> QED
    BY <1>0, <2>1 DEF FetchOnce
<1>8. ASSUME \/ ExecuteWorker \/ GenerateProposal \/ LoadNumber \/ StoreNumber
             \/ SetHeaderNumber \/ FillBlock \/ SubmitProposal
      PROVE  UNCHANGED <<fetching, request, answer>> /\ pc' # "ask"
  BY <1>8, ZenonT(30)
  DEF ExecuteWorker, GenerateProposal, ShouldGenerateProposal, LoadNumber, StoreNumber,
      SetHeaderNumber, FillBlock, SubmitProposal, fetch
<1>9. ASSUME \/ ConsensusStep \/ NoteUnSealedTxsSize \/ Mark \/ Tick \/ Commit
             \/ \E q, e \in 1 .. MaxNumber, m \in BlockSizes : AsyncNotifySealProposal(q, e, m)
             \/ ResetSealing \/ CommitOther \/ (\E p \in proposals : RefuseProposal(p))
             \/ UNCHANGED vars
      PROVE  UNCHANGED <<fetching, request, answer, pc>>
  BY <1>9, ZenonT(60)
  DEF ConsensusStep, ResetClear, ResetStart, ResetSealingNumber, ResetEnd, ResetMaxTxs,
      ResetSealingClears, NoteUnSealedTxsSize, Mark, MarkTxs, MarkFails, Tick, Commit,
      CommitProposal, AsyncNotifySealProposal, ResetSealing, CommitOther, RefuseProposal,
      vars, fetch, thread
<1> QED
  BY <1>1, <1>2, <1>3, <1>4, <1>5, <1>6, <1>7, <1>8, <1>9, ZenonT(30)
  DEF Next, SealerStep, PoolStep

LEMMA BlockFilledStep ==
  ASSUME PlacesInv, [Next]_vars
  PROVE  BlockFilled'
<1>0. BlockFilled /\ local \in Local
  BY DEF PlacesInv, Contents
<1>1. CASE FillBlock
  BY <1>1, ZenonT(30) DEF FillBlock, BlockFilled
<1>2. CASE SubmitProposal
  BY <1>2 DEF SubmitProposal, BlockFilled, NoLocal
<1>3. CASE SetHeaderNumber
  BY <1>3 DEF SetHeaderNumber, BlockFilled, NoLocal
<1>4. CASE LoadNumber
  <2>1. local'.txs = local.txs /\ pc = "number" /\ pc' = "store"
    BY <1>0, <1>4 DEF LoadNumber, Local
  <2> QED
    BY <1>0, <2>1 DEF BlockFilled
<1>5. ASSUME \/ ExecuteWorker \/ GenerateProposal \/ StoreNumber \/ ShouldFetchTransaction
             \/ FetchTransactions
      PROVE  UNCHANGED local /\ pc # "submit"
  BY <1>5
  DEF ExecuteWorker, GenerateProposal, ShouldGenerateProposal, StoreNumber,
      ShouldFetchTransaction, FetchTransactions
<1>6. ASSUME \/ ConsensusStep \/ PoolStep \/ Mark \/ Tick \/ Commit
             \/ \E q, e \in 1 .. MaxNumber, m \in BlockSizes : AsyncNotifySealProposal(q, e, m)
             \/ ResetSealing \/ CommitOther \/ (\E p \in proposals : RefuseProposal(p))
             \/ UNCHANGED vars
      PROVE  UNCHANGED <<local, pc>>
  BY <1>6, ZenonT(60)
  DEF ConsensusStep, ResetClear, ResetStart, ResetSealingNumber, ResetEnd, ResetMaxTxs,
      ResetSealingClears, PoolStep, PoolAnswers, PoolFails, AppendTxs, AppendSysTxs,
      NoteUnSealedTxsSize, Mark, MarkTxs, MarkFails, Tick, Commit,
      CommitProposal, AsyncNotifySealProposal, ResetSealing, CommitOther, RefuseProposal,
      vars, thread
<1> QED
  BY <1>0, <1>1, <1>2, <1>3, <1>4, <1>5, <1>6, ZenonT(30) DEF Next, SealerStep, BlockFilled

\* The steps by what they do to the transactions.
LEMMA SealerSteps ==
  ASSUME PlacesInv, [Next]_vars
  PROVE  \/ Still \/ Clears \/ FillBlock \/ SubmitProposal
         \/ PoolAnswers \/ AppendTxs \/ AppendSysTxs
         \/ \E r \in returning : MarkTxs(r) \/ MarkFails(r)
         \/ \E p \in proposals : CommitProposal(p) \/ RefuseProposal(p)
         \/ ResetSealing \/ CommitOther
<1>0. local \in Local /\ BlockFilled /\ Numbers
  BY DEF PlacesInv, Contents
<1> DEFINE Same == UNCHANGED <<pending, pendingSys, answer, returning, sealed, committed,
                               proposals, local>>
<1>1. Same => Still
  BY <1>0 DEF Still
<1>2. ASSUME ExecuteWorker \/ GenerateProposal PROVE Same \/ Clears
  BY <1>2, ZenonT(30)
  DEF ExecuteWorker, GenerateProposal, ShouldGenerateProposal, Clears, queues, fetch, pool
<1>3. ASSUME LoadNumber PROVE Still
  <2>1. Max({sealing, current + 1}) \in Int
    BY <1>0, MaxTyped DEF Numbers
  <2>2. local' \in Local /\ local'.txs = local.txs
    BY <1>0, <1>3, <2>1, SMTT(30) DEF LoadNumber, Local
  <2> QED
    BY <1>3, <2>2, ZenonT(30) DEF LoadNumber, Still, queues, fetch, pool
<1>4. ASSUME SetHeaderNumber PROVE Still
  <2>1. local' \in Local /\ local'.txs = {}
    <3>1. NoLocal \in Local /\ NoLocal.txs = {} /\ sealing \in Int
      BY <1>0 DEF NoLocal, Local, Numbers
    <3>2. local' = [NoLocal EXCEPT !.number = sealing]
      BY <1>4 DEF SetHeaderNumber
    <3> QED
      BY <3>1, <3>2 DEF Local
  <2>2. local.txs = {}
    BY <1>0, <1>4, SMTT(30) DEF SetHeaderNumber, BlockFilled
  <2> QED
    BY <1>4, <2>1, <2>2, ZenonT(30) DEF SetHeaderNumber, Still, queues, fetch, pool
<1>5. ASSUME StoreNumber \/ ShouldFetchTransaction \/ FetchTransactions PROVE Same
  BY <1>5, ZenonT(30)
  DEF StoreNumber, ShouldFetchTransaction, FetchTransactions, queues, fetch, pool
<1>6. ASSUME ResetStart \/ ResetSealingNumber \/ ResetEnd \/ ResetMaxTxs PROVE Same
  BY <1>6, ZenonT(30)
  DEF ResetStart, ResetSealingNumber, ResetEnd, ResetMaxTxs, queues, thread, fetch, pool
<1>7. ASSUME ResetClear \/ ResetSealingClears PROVE Clears
  BY <1>7, ZenonT(30) DEF ResetClear, ResetSealingClears, Clears, thread, fetch, pool
<1>8. ASSUME PoolFails \/ NoteUnSealedTxsSize \/ Tick \/ UNCHANGED vars PROVE Same
  BY <1>8, ZenonT(30)
  DEF PoolFails, NoteUnSealedTxsSize, Tick, vars, queues, thread, fetch, pool
<1>9. ASSUME NEW q \in 1 .. MaxNumber, NEW e \in 1 .. MaxNumber, NEW m \in BlockSizes,
             AsyncNotifySealProposal(q, e, m)
      PROVE  Same
  BY <1>9, ZenonT(30) DEF AsyncNotifySealProposal, queues, thread, fetch, pool
<1> HIDE DEF Same
<1> QED
  BY <1>1, <1>2, <1>3, <1>4, <1>5, <1>6, <1>7, <1>8, <1>9, ZenonT(30)
  DEF Next, SealerStep, ConsensusStep, PoolStep, Mark, Commit

\* What ResetSealing and CommitOther drop.
LEMMA ViewKeeps ==
  ASSUME PlacesInv, ResetSealing \/ CommitOther
  PROVE  Contents' /\ \A tx \in Txs : Placed(tx)' /\ (Found(tx) => Found(tx)')
<1>1. CASE ResetSealing
  <2>1. /\ proposals' = proposals \ proposals /\ sealed' = sealed \ TxsOf(proposals)
        /\ UNCHANGED <<pending, pendingSys, answer, local, returning, committed>>
    BY <1>1 DEF ResetSealing, queues, thread, fetch
  <2> QED
    BY <2>1, DropKeeps
<1>2. CASE CommitOther
  <2> DEFINE D == {p \in proposals : p.number <= current + 1}
  <2>1. /\ D \in SUBSET proposals
        /\ proposals' = proposals \ D /\ sealed' = sealed \ TxsOf(D)
        /\ UNCHANGED <<pending, pendingSys, answer, local, returning, committed>>
    BY <1>2 DEF CommitOther, queues, thread, fetch
  <2> HIDE DEF D
  <2> QED
    BY <2>1, DropKeeps
<1> QED
  BY <1>1, <1>2

LEMMA PlacesInit == Init => PlacesInv /\ \A tx \in Txs : Found(tx)
<1> SUFFICES ASSUME Init PROVE PlacesInv /\ \A tx \in Txs : Found(tx)
  OBVIOUS
<1>1. Numbers
  <2>1. fetching \in BOOLEAN /\ unsealed \in BOOLEAN /\ elapsed \in BOOLEAN
    BY Zenon DEF Init
  <2>2. ask \in [start : Nat, end : Nat, max : Nat]
    BY DEF Init, NoAsk
  <2>3. /\ sealing \in Int /\ start \in Int /\ end \in Int /\ waitUntil \in Int
        /\ maxTxs \in Nat /\ current \in Nat /\ request \in Nat
        /\ pc = "loop" /\ cpc = "idle"
    BY DEF Init
  <2> QED
    BY <2>1, <2>2, <2>3 DEF Numbers
<1>2. Contents
  <2>1. NoLocal \in Local /\ NoAnswer \in [stage : {"none", "txs", "sys"}, txs : SUBSET Txs]
    BY DEF Local, NoLocal, NoAnswer
  <2> QED
    BY <2>1 DEF Init, Contents
<1>3. FetchOnce /\ BlockFilled
  <2>1. /\ answer.stage = "none" /\ answer.txs = {} /\ local.txs = {} /\ ~(request > 0)
        /\ pc # "ask"
    BY DEF Init, NoLocal, NoAnswer
  <2> QED
    BY <2>1 DEF FetchOnce, BlockFilled
<1>4. ASSUME NEW tx \in Txs PROVE Placed(tx) /\ Found(tx)
  BY DEF Init, Placed, OnePlace, WithSealer, OneProposal, OneReturn, InProposal, InReturn,
         Found, NoLocal, NoAnswer
<1> QED
  BY <1>1, <1>2, <1>3, <1>4 DEF PlacesInv

LEMMA PlacesStep == PlacesInv /\ [Next]_vars => PlacesInv'
<1> SUFFICES ASSUME PlacesInv, [Next]_vars PROVE PlacesInv'
  OBVIOUS
<1>1. Numbers' /\ FetchOnce' /\ BlockFilled'
  BY NumbersStep, FetchOnceStep, BlockFilledStep DEF PlacesInv
<1>2. Contents' /\ \A tx \in Txs : Placed(tx)'
  BY SealerSteps, StillKeeps, ClearsKeeps, FillKeeps, SubmitKeeps, FetchKeeps, MarkKeeps,
     MarkFailsKeeps, CommitKeeps, RefuseKeeps, ViewKeeps, ZenonT(30)
<1> QED
  BY <1>1, <1>2 DEF PlacesInv

LEMMA FoundStep ==
  ASSUME ConsensusRefuses = FALSE, MarkFailures <= 3, PlacesInv, [Next]_vars,
         \A tx \in Txs : Found(tx)
  PROVE  \A tx \in Txs : Found(tx)'
<1>1. \A p : ~RefuseProposal(p)
  BY DEF RefuseProposal
<1> QED
  BY <1>1, SealerSteps, StillKeeps, ClearsKeeps, FillKeeps, SubmitKeeps, FetchKeeps, MarkKeeps,
     MarkFailsKeeps, CommitKeeps, ViewKeeps, ZenonT(30)

-----------------------------------------------------------------------------
(***************************************************************************)
(* What the invariant says of the places.                                   *)
(***************************************************************************)
PlaceNames == {"answer", "pending", "sys", "block", "proposed", "returned", "committed"}

LEMMA PlacesContents ==
  /\ DOMAIN Places = PlaceNames
  /\ Places["answer"] = answer.txs /\ Places["pending"] = pending
  /\ Places["sys"] = pendingSys /\ Places["block"] = local.txs
  /\ Places["committed"] = committed
  /\ \A tx : tx \in Places["proposed"] <=> InProposal(tx)
  /\ \A tx : tx \in Places["returned"] <=> InReturn(tx)
<1>1. /\ DOMAIN Places = PlaceNames
      /\ Places["answer"] = answer.txs /\ Places["pending"] = pending
      /\ Places["sys"] = pendingSys /\ Places["block"] = local.txs
      /\ Places["committed"] = committed
      /\ Places["proposed"] = TxsOf(proposals)
      /\ Places["returned"] = UNION {r.txs : r \in returning}
  BY DEF Places, PlaceNames
<1>2. \A tx : tx \in TxsOf(proposals) <=> InProposal(tx)
  BY DEF TxsOf, InProposal
<1>3. \A tx : tx \in UNION {r.txs : r \in returning} <=> InReturn(tx)
  BY DEF InReturn
<1> QED
  BY <1>1, <1>2, <1>3

LEMMA PlacesInTxs == ASSUME Contents, NEW tx, WithSealer(tx) \/ tx \in committed PROVE tx \in Txs
<1>1. InProposal(tx) => tx \in Txs
  BY DEF Contents, InProposal, Proposal
<1>2. InReturn(tx) => tx \in Txs
  BY DEF Contents, InReturn, Returning
<1>3. tx \in answer.txs \/ tx \in local.txs => tx \in Txs
  BY DEF Contents, Local
<1> QED
  BY <1>1, <1>2, <1>3, SealerAssumption DEF Contents, WithSealer

LEMMA PlacesApart == PlacesInv => SealedOnce
<1> SUFFICES ASSUME PlacesInv PROVE SealedOnce
  OBVIOUS
<1>1. ASSUME NEW x \in PlaceNames, NEW y \in PlaceNames, x # y PROVE Places[x] \cap Places[y] = {}
  <2> SUFFICES ASSUME NEW tx, tx \in Places[x], tx \in Places[y] PROVE FALSE
    OBVIOUS
  <2>1. WithSealer(tx) \/ tx \in committed
    BY PlacesContents DEF PlaceNames, WithSealer
  <2>2. OnePlace(tx)
    BY <2>1, PlacesInTxs DEF PlacesInv, Placed
  <2> QED
    BY <1>1, <2>2, PlacesContents DEF PlaceNames, OnePlace
<1>2. ASSUME NEW p \in proposals, NEW q \in proposals, p # q PROVE p.txs \cap q.txs = {}
  BY <1>2, PlacesInTxs DEF PlacesInv, Placed, OneProposal, InProposal, WithSealer
<1>3. ASSUME NEW p \in returning, NEW q \in returning, p # q PROVE p.txs \cap q.txs = {}
  BY <1>3, PlacesInTxs DEF PlacesInv, Placed, OneReturn, InReturn, WithSealer
<1> QED
  BY <1>1, <1>2, <1>3, PlacesContents DEF SealedOnce

LEMMA PlacesComplete == PlacesInv /\ (\A tx \in Txs : Found(tx)) => SealedAccounted
<1> SUFFICES ASSUME PlacesInv, \A tx \in Txs : Found(tx), NEW tx \in sealed
             PROVE  \E x \in PlaceNames : tx \in Places[x]
  BY PlacesContents DEF SealedAccounted
<1>1. WithSealer(tx) \/ tx \in committed
  BY DEF PlacesInv, Contents, Found
<1> QED
  BY <1>1, PlacesContents DEF PlaceNames, WithSealer

\* Every variable of the sealer keeps its type: an answer split into the two
\* queues puts system transactions into theirs only, and the wrapped size_t
\* never makes a request that is not a natural number.
THEOREM SealerTypes == Spec => []TypeOK
<1>1. PlacesInv => TypeOK
  BY TypeSplit DEF PlacesInv
<1> QED
  BY <1>1, PlacesInit, PlacesStep, PTL DEF Spec

\* No transaction is ever in two places, whatever calls, view changes, commits
\* of other nodes' blocks, failed or refused answers overlap the sealing of a
\* block: the sealer never puts it into two proposals, and never gives it back
\* to the pool while it is about to seal it.
THEOREM SealedTxsOnce == Spec => []SealedOnce
  BY PlacesInit, PlacesStep, PlacesApart, PTL DEF Spec

\* As long as consensus accepts the proposals and asyncMarkTxs does not fail
\* more often than the sealer repeats it, every transaction that the pool has
\* marked as sealed is in a queue, in a block, or on its way back.
THEOREM SealedTxsKept ==
  ASSUME ConsensusRefuses = FALSE, MarkFailures <= 3
  PROVE  Spec => []SealedAccounted
<1> DEFINE Inv == PlacesInv /\ \A tx \in Txs : Found(tx)
<1>1. Init => Inv
  BY PlacesInit
<1>2. Inv /\ [Next]_vars => Inv'
  BY PlacesStep, FoundStep, ZenonT(30)
<1>3. Inv => SealedAccounted
  BY PlacesComplete
<1> HIDE DEF Inv
<1> QED
  BY <1>1, <1>2, <1>3, PTL DEF Spec
-----------------------------------------------------------------------------
(***************************************************************************)
(* The wait for a block with system transactions.                           *)
(***************************************************************************)
\* From the check on, the block m_waitUntil names stays committed.
WaitInv == pc \in {"number", "store", "header", "fill"} => waitUntil <= current

LEMMA WaitStep ==
  ASSUME PlacesInv, WaitInv, [Next]_vars
  PROVE  WaitInv'
<1>0. Numbers
  BY DEF PlacesInv
<1>1. CASE PoolStep \/ Mark \/ Tick \/ UNCHANGED vars
  <2>1. UNCHANGED <<waitUntil, current, pc>>
    BY <1>1, ZenonT(30)
    DEF PoolStep, PoolAnswers, PoolFails, AppendTxs, AppendSysTxs, NoteUnSealedTxsSize, Mark,
        MarkTxs, MarkFails, Tick, vars, numbers, thread
  <2> QED
    BY <2>1 DEF WaitInv
<1>2. CASE Commit \/ CommitOther \/ \E p \in proposals : RefuseProposal(p)
  <2>1. UNCHANGED <<waitUntil, pc>> /\ (current' = current \/ current' = current + 1)
    BY <1>2 DEF Commit, CommitProposal, CommitOther, RefuseProposal, numbers, thread
  <2> QED
    BY <1>0, <2>1 DEF WaitInv, Numbers
<1>3. CASE \/ ConsensusStep \/ ResetSealing
           \/ \E s, e \in 1 .. MaxNumber, m \in BlockSizes : AsyncNotifySealProposal(s, e, m)
  <2>1. UNCHANGED <<waitUntil, current, pc>>
    BY <1>3, ZenonT(30)
    DEF ConsensusStep, ResetClear, ResetStart, ResetSealingNumber, ResetEnd, ResetMaxTxs,
        ResetSealingClears, ResetSealing, AsyncNotifySealProposal, numbers, thread
  <2> QED
    BY <2>1 DEF WaitInv
<1>4. CASE GenerateProposal
  <2>1. /\ UNCHANGED <<waitUntil, current>> /\ pc' \in {"number", "null"}
        /\ pc' = "number" => current >= waitUntil
    BY <1>4 DEF GenerateProposal, ShouldGenerateProposal, ShouldGenerate, numbers
  <2> QED
    BY <1>0, <2>1 DEF WaitInv, Numbers
<1>5. CASE LoadNumber \/ StoreNumber \/ SetHeaderNumber
  <2>1. /\ UNCHANGED <<waitUntil, current>> /\ pc \in {"number", "store", "header"}
    BY <1>5 DEF LoadNumber, StoreNumber, SetHeaderNumber, numbers
  <2> QED
    BY <2>1 DEF WaitInv
<1>6. CASE \/ ExecuteWorker \/ FillBlock \/ SubmitProposal \/ ShouldFetchTransaction
           \/ FetchTransactions
  <2>1. pc' \in {"generate", "submit", "fetch", "ask", "loop"}
    BY <1>6, ZenonT(30)
    DEF ExecuteWorker, ShouldGenerateProposal, FillBlock, SubmitProposal,
        ShouldFetchTransaction, FetchTransactions
  <2> QED
    BY <2>1 DEF WaitInv
<1> QED
  BY <1>1, <1>2, <1>3, <1>4, <1>5, <1>6, ZenonT(30) DEF Next, SealerStep

\* generateProposal fills no block before the block m_waitUntil names is
\* committed, whatever consensus stores and other nodes commit between the check
\* and the filling, for any requests, view changes and transactions.
THEOREM WaitsAreRespected == Spec => WaitIsRespected
<1> DEFINE Inv == PlacesInv /\ WaitInv
           Step == pc = "fill" /\ pc' = "submit" => current >= waitUntil
<1>1. Init => Inv
  BY PlacesInit DEF Init, WaitInv
<1>2. Inv /\ [Next]_vars => Inv'
  BY PlacesStep, WaitStep, ZenonT(30)
<1>3. Inv => Step
  BY DEF WaitInv, PlacesInv, Numbers
<1>4. WaitIsRespected <=> [][Step]_vars
  BY DEF WaitIsRespected
<1> HIDE DEF Inv, Step
<1> QED
  BY <1>1, <1>2, <1>3, <1>4, PTL DEF Spec
=============================================================================

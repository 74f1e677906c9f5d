------------------------------- MODULE Sealer -------------------------------
(***************************************************************************)
(* bcos::sealer::Sealer and SealingManager (libsealer): a worker thread     *)
(* that fetches transactions from the transaction pool and packs them into  *)
(* the block proposals the consensus module has asked for.                  *)
(*                                                                          *)
(* Three threads meet in SealingManager: the sealer's own (executeWorker),  *)
(* the consensus module's (requests, view changes, new block numbers) and   *)
(* the pool's (answers).  The numbers are separate atomics, written and     *)
(* read one at a time; x_pendingTxs protects the two queues only.           *)
(* The queues are sets: which transaction is at the front is left open.     *)
(***************************************************************************)
EXTENDS Integers, FiniteSets, FiniteSetsExt

CONSTANTS
  Txs,              \* transactions submitted to the pool
  SysTxs,           \* the system transactions among them
  MaxNumber,        \* bound: the highest block number
  BlockSizes,       \* the values of maxTxsPerBlock consensus asks with
  MarkFailures,     \* bound: how often asyncMarkTxs fails for one list
  SizeMod,          \* size_t is computed modulo this (2^64)
  ConsensusRefuses, \* whether asyncSubmitProposal may fail
  ViewChanges       \* whether consensus changes its view and resets the sealer

ASSUME SealerAssumption ==
  /\ IsFiniteSet(Txs) /\ SysTxs \subseteq Txs
  /\ MaxNumber \in Nat /\ BlockSizes \subseteq Nat \ {0}
  /\ MarkFailures \in Nat /\ SizeMod \in Nat \ {0}
  /\ ConsensusRefuses \in BOOLEAN /\ ViewChanges \in BOOLEAN

VARIABLES
  sealing, start, end, maxTxs, waitUntil, current, fetching,
              \* the atomics of SealingManager
  unsealed,   \* m_unsealedTxsSize is not zero
  elapsed,    \* minSealTime has passed since m_lastSealTime
  pending,    \* m_pendingTxs
  pendingSys, \* m_pendingSysTxs
  pc,         \* where the sealer thread is in executeWorker
  local,      \* its local variables
  cpc,        \* where the consensus thread is in a call
  ask,        \* the arguments of its asyncNotifySealProposal
  returning,  \* asyncMarkTxs calls that have not been answered, with _retryTime
  request,    \* how many transactions asyncSealTxs asks for, 0 if it does not
  answer,     \* the pool's answer and how far the callback is with it
  sealed,     \* external: transactions the pool has handed out
  committed,  \* external: transactions in committed blocks
  proposals   \* external: proposals consensus is working on

numbers == <<sealing, start, end, maxTxs, waitUntil, current>>
queues == <<pending, pendingSys>>
thread == <<pc, local>>
caller == <<cpc, ask>>
fetch == <<fetching, request, answer>>
pool == <<sealed, committed>>
vars == <<numbers, unsealed, elapsed, queues, thread, caller, fetch, returning,
          pool, proposals>>
-----------------------------------------------------------------------------
Local == [next : Int, number : Int, txs : SUBSET Txs, sys : BOOLEAN]
NoLocal == [next |-> 0, number |-> 0, txs |-> {}, sys |-> FALSE]
NoAnswer == [stage |-> "none", txs |-> {}]
NoAsk == [start |-> 0, end |-> 0, max |-> 0]

\* The lists given to asyncMarkTxs whose callback is still to come.
Returning == [txs : SUBSET Txs, retry : 0 .. 3]
Proposal == [number : Int, txs : SUBSET Txs, sys : BOOLEAN]

TypeOK ==
  /\ {sealing, start, end, waitUntil} \subseteq Int
  /\ {maxTxs, current, request} \subseteq Nat
  /\ {fetching, unsealed, elapsed} \subseteq BOOLEAN
  /\ pending \subseteq Txs \ SysTxs /\ pendingSys \subseteq SysTxs
  /\ pc \in {"loop", "generate", "number", "store", "header", "fill", "submit",
             "fetch", "ask", "null"}
  /\ local \in Local
  /\ cpc \in {"idle", "clear", "start", "sealing", "end", "max", "reset"}
  /\ ask \in [start : Nat, end : Nat, max : Nat]
  /\ returning \subseteq Returning
  /\ answer \in [stage : {"none", "txs", "sys"}, txs : SUBSET Txs]
  /\ sealed \subseteq Txs /\ committed \subseteq Txs
  /\ proposals \subseteq Proposal

Init ==
  /\ sealing = -1 /\ start = 0 /\ end = 0 /\ maxTxs = 0
  /\ waitUntil = 0 /\ current = 0 /\ unsealed = FALSE
  /\ fetching = FALSE /\ elapsed = TRUE
  /\ pending = {} /\ pendingSys = {}
  /\ pc = "loop" /\ local = NoLocal
  /\ cpc = "idle" /\ ask = NoAsk
  /\ returning = {} /\ request = 0 /\ answer = NoAnswer
  /\ sealed = {} /\ committed = {} /\ proposals = {}
-----------------------------------------------------------------------------
\* generateProposal holds x_pendingTxs exclusively.
QueuesLocked == pc \in {"number", "store", "header", "fill"}

PendingTxsSize == Cardinality(pending) + Cardinality(pendingSys)

\* The list goes to the worker pool, which calls asyncMarkTxs(false).
NotifyResetTxsFlag(txs) ==
  returning' = IF txs = {} THEN returning ELSE returning \cup {[txs |-> txs, retry |-> 0]}

ClearPendingTxsKeepsSys ==
  /\ NotifyResetTxsFlag(pending)
  /\ pending' = {} /\ pendingSys' = {}
ClearPendingTxs ==
  /\ NotifyResetTxsFlag(pending \cup pendingSys)
  /\ pending' = {} /\ pendingSys' = {}

InRange == start <= sealing /\ sealing <= end

ReachMinSealTimeCondition == PendingTxsSize > 0 /\ elapsed

ShouldGenerateAnytime ==
  InRange /\ (PendingTxsSize >= maxTxs \/ ReachMinSealTimeCondition)
ShouldGenerate ==
  /\ InRange /\ current >= waitUntil
  /\ PendingTxsSize >= maxTxs \/ ReachMinSealTimeCondition

\* shouldGenerateProposal: outside the range the queues go back to the pool.
ShouldGenerateKeepsTxs(yes, no) ==
  /\ pc' = IF ShouldGenerate THEN yes ELSE no
  /\ UNCHANGED <<numbers, unsealed, elapsed, queues, returning, local, caller, fetch, pool,
                 proposals>>
ShouldGenerateProposal(yes, no) ==
  /\ IF InRange THEN UNCHANGED <<queues, returning>> ELSE ClearPendingTxs
  /\ pc' = IF ShouldGenerate THEN yes ELSE no
  /\ UNCHANGED <<numbers, unsealed, elapsed, local, caller, fetch, pool, proposals>>

\* executeWorker up to its decision; the wait before it ends after a millisecond.
ExecuteWorker == pc = "loop" /\ ShouldGenerateProposal("generate", "fetch")

\* generateProposal asks again.  When the answer has changed it returns no
\* block, which submitProposal uses all the same.
GenerateProposal == pc = "generate" /\ ShouldGenerateProposal("number", "null")

\* m_sealingNumber = max(m_sealingNumber, m_currentNumber + 1) is two loads, ...
LoadNumber ==
  /\ pc = "number"
  /\ local' = [local EXCEPT !.next = Max({sealing, current + 1})]
  /\ pc' = "store"
  /\ UNCHANGED <<numbers, unsealed, elapsed, queues, caller, fetch, returning, pool,
                 proposals>>

\* ... and a store, which overwrites what consensus has stored in between.
StoreNumber ==
  /\ pc = "store"
  /\ sealing' = local.next
  /\ pc' = "header"
  /\ UNCHANGED <<start, end, maxTxs, waitUntil, current, unsealed, elapsed, queues, local,
                 caller, fetch, returning, pool, proposals>>

SetHeaderNumber ==
  /\ pc = "header"
  /\ local' = [NoLocal EXCEPT !.number = sealing]
  /\ pc' = "fill"
  /\ UNCHANGED <<numbers, unsealed, elapsed, queues, caller, fetch, returning, pool,
                 proposals>>

\* System transactions come first.  A block is then not sealed before the one
\* with the system transactions is committed.
FillBlock ==
  LET txsSize == Min({maxTxs, PendingTxsSize})
      systemTxsSize == Min({txsSize, Cardinality(pendingSys)})
  IN  /\ pc = "fill"
      /\ \E S \in kSubset(systemTxsSize, pendingSys),
            T \in kSubset(txsSize - systemTxsSize, pending) :
           /\ local' = [local EXCEPT !.txs = S \cup T, !.sys = S # {}]
           /\ pendingSys' = pendingSys \ S
           /\ pending' = pending \ T
      /\ waitUntil' = IF pendingSys # {} THEN sealing ELSE waitUntil
      /\ sealing' = sealing + 1
      /\ elapsed' = FALSE
      /\ pc' = "submit"
      /\ UNCHANGED <<start, end, maxTxs, current, unsealed, caller, fetch, returning, pool,
                     proposals>>

Proposed == [number |-> local.number, txs |-> local.txs, sys |-> local.sys]

\* submitProposal: a block whose number has been committed meanwhile is given up.
SubmitAnyway ==
  /\ pc = "submit"
  /\ IF local.number <= current THEN NotifyResetTxsFlag(local.txs) ELSE UNCHANGED returning
  /\ proposals' = proposals \cup {Proposed}
  /\ local' = NoLocal
  /\ pc' = "fetch"
  /\ UNCHANGED <<numbers, unsealed, elapsed, queues, caller, fetch, pool>>
SubmitProposal ==
  /\ pc = "submit"
  /\ IF local.number <= current
     THEN NotifyResetTxsFlag(local.txs) /\ UNCHANGED proposals
     ELSE proposals' = proposals \cup {Proposed} /\ UNCHANGED returning
  /\ local' = NoLocal
  /\ pc' = "fetch"
  /\ UNCHANGED <<numbers, unsealed, elapsed, queues, caller, fetch, pool>>

ShouldFetchTransaction ==
  /\ pc = "fetch"
  /\ pc' = IF ~fetching /\ unsealed /\ InRange THEN "ask" ELSE "loop"
  /\ UNCHANGED <<numbers, unsealed, elapsed, queues, local, caller, fetch, returning, pool,
                 proposals>>

\* txsSizeExpectedToFetch is computed in size_t: a negative difference wraps.
FetchTransactions ==
  LET txsSizeToFetch == ((end - sealing + 1) * maxTxs) % SizeMod
  IN  /\ pc = "ask"
      /\ IF txsSizeToFetch <= PendingTxsSize
         THEN UNCHANGED fetch
         ELSE /\ fetching' = TRUE
              /\ request' = txsSizeToFetch - PendingTxsSize
              /\ UNCHANGED answer
      /\ pc' = "loop"
      /\ UNCHANGED <<numbers, unsealed, elapsed, queues, local, caller, returning, pool,
                     proposals>>

SealerStep ==
  \/ ExecuteWorker \/ GenerateProposal \/ LoadNumber \/ StoreNumber \/ SetHeaderNumber
  \/ FillBlock \/ SubmitProposal \/ ShouldFetchTransaction \/ FetchTransactions
-----------------------------------------------------------------------------
(***************************************************************************)
(* The consensus module's calls, one at a time.  It asks for the blocks     *)
(* after the current one or after its last request, and never for a number  *)
(* it has a proposal for.                                                   *)
(***************************************************************************)
\* asyncNotifySealProposal, resetSealingInfo
AsyncNotifySealProposal(s, e, m) ==
  /\ cpc = "idle" /\ s <= e
  /\ s \in {current + 1, end + 1} /\ s > current
  /\ \A p \in proposals : p.number < s
  /\ ask' = [start |-> s, end |-> e, max |-> m]
  /\ cpc' = IF sealing > end \/ s # end + 1 THEN "clear" ELSE "end"
  /\ UNCHANGED <<numbers, unsealed, elapsed, queues, thread, fetch, returning, pool,
                 proposals>>

\* A request that does not continue the last one.
ResetClear ==
  /\ cpc = "clear" /\ ~QueuesLocked
  /\ ClearPendingTxs
  /\ cpc' = "start"
  /\ UNCHANGED <<numbers, unsealed, elapsed, thread, ask, fetch, pool, proposals>>
ResetStart ==
  /\ cpc = "start"
  /\ start' = ask.start
  /\ cpc' = "sealing"
  /\ UNCHANGED <<sealing, end, maxTxs, waitUntil, current, unsealed, elapsed, queues, thread,
                 ask, fetch, returning, pool, proposals>>
ResetSealingNumber ==
  /\ cpc = "sealing"
  /\ sealing' = ask.start /\ elapsed' = FALSE
  /\ cpc' = "end"
  /\ UNCHANGED <<start, end, maxTxs, waitUntil, current, unsealed, queues, thread, ask,
                 fetch, returning, pool, proposals>>

ResetEnd ==
  /\ cpc = "end"
  /\ end' = ask.end
  /\ cpc' = "max"
  /\ UNCHANGED <<sealing, start, maxTxs, waitUntil, current, unsealed, elapsed, queues,
                 thread, ask, fetch, returning, pool, proposals>>
ResetMaxTxs ==
  /\ cpc = "max"
  /\ maxTxs' = ask.max
  /\ cpc' = "idle" /\ ask' = NoAsk
  /\ UNCHANGED <<sealing, start, end, waitUntil, current, unsealed, elapsed, queues, thread,
                 fetch, returning, pool, proposals>>

TxsOf(ps) == UNION {p.txs : p \in ps}

\* asyncResetSealing at a view change.  Consensus drops its proposals and gives
\* their transactions back to the pool itself.
ResetSealing ==
  /\ cpc = "idle" /\ ViewChanges
  /\ sealing' = end + 1
  /\ proposals' = {} /\ sealed' = sealed \ TxsOf(proposals)
  /\ cpc' = "reset"
  /\ UNCHANGED <<start, end, maxTxs, waitUntil, current, unsealed, elapsed, queues, thread,
                 ask, fetch, returning, committed>>
ResetSealingClears ==
  /\ cpc = "reset" /\ ~QueuesLocked
  /\ ClearPendingTxs
  /\ cpc' = "idle"
  /\ UNCHANGED <<numbers, unsealed, elapsed, thread, ask, fetch, pool, proposals>>

ConsensusStep ==
  ResetClear \/ ResetStart \/ ResetSealingNumber \/ ResetEnd \/ ResetMaxTxs \/
  ResetSealingClears

\* A block is committed, and asyncNoteLatestBlockNumber says so: one of the
\* proposals, or another node's block.
CommitProposal(p) ==
  /\ p.number = current + 1
  /\ current' = p.number
  /\ committed' = committed \cup p.txs
  /\ proposals' = proposals \ {p}
  /\ UNCHANGED <<sealing, start, end, maxTxs, waitUntil, unsealed, elapsed, queues, thread,
                 caller, fetch, returning, sealed>>
CommitOther ==
  LET dropped == {p \in proposals : p.number <= current + 1}
  IN  /\ current < MaxNumber
      /\ current' = current + 1
      /\ proposals' = proposals \ dropped
      /\ sealed' = sealed \ TxsOf(dropped)
      /\ UNCHANGED <<sealing, start, end, maxTxs, waitUntil, unsealed, elapsed, queues,
                     thread, caller, fetch, returning, committed>>

\* asyncSubmitProposal fails: its callback does no more than log it.
RefuseProposal(p) ==
  /\ ConsensusRefuses
  /\ proposals' = proposals \ {p}
  /\ UNCHANGED <<numbers, unsealed, elapsed, queues, thread, caller, fetch, returning, pool>>
-----------------------------------------------------------------------------
(***************************************************************************)
(* The transaction pool.                                                    *)
(***************************************************************************)
Unsealed == Txs \ (sealed \cup committed)

\* asyncNoteUnSealedTxsSize
NoteUnSealedTxsSize ==
  /\ unsealed # (Unsealed # {})
  /\ unsealed' = (Unsealed # {})
  /\ UNCHANGED <<numbers, elapsed, queues, thread, caller, fetch, returning, pool, proposals>>

\* asyncSealTxs: the pool picks transactions and marks them sealed, or fails.
PoolAnswers ==
  /\ request > 0
  /\ \E T \in SUBSET Unsealed :
       /\ Cardinality(T) <= request
       /\ sealed' = sealed \cup T
       /\ answer' = [stage |-> "txs", txs |-> T]
  /\ request' = 0
  /\ UNCHANGED <<numbers, unsealed, elapsed, queues, thread, caller, fetching, returning,
                 committed, proposals>>
PoolFails ==
  /\ request > 0
  /\ request' = 0 /\ fetching' = FALSE
  /\ UNCHANGED <<numbers, unsealed, elapsed, queues, thread, caller, answer, returning,
                 pool, proposals>>

\* The callback: appendTransactions to one queue, then to the other.
AppendAllTxs ==
  /\ answer.stage = "txs" /\ ~QueuesLocked
  /\ pending' = pending \cup answer.txs
  /\ answer' = [stage |-> "sys", txs |-> answer.txs \cap SysTxs]
  /\ UNCHANGED <<numbers, unsealed, elapsed, pendingSys, thread, caller, fetching, request,
                 returning, pool, proposals>>
AppendTxs ==
  /\ answer.stage = "txs" /\ ~QueuesLocked
  /\ pending' = pending \cup (answer.txs \ SysTxs)
  /\ answer' = [stage |-> "sys", txs |-> answer.txs \cap SysTxs]
  /\ UNCHANGED <<numbers, unsealed, elapsed, pendingSys, thread, caller, fetching, request,
                 returning, pool, proposals>>
AppendSysTxs ==
  /\ answer.stage = "sys" /\ ~QueuesLocked
  /\ pendingSys' = pendingSys \cup answer.txs
  /\ answer' = NoAnswer
  /\ fetching' = FALSE
  /\ UNCHANGED <<numbers, unsealed, elapsed, pending, thread, caller, request, returning,
                 pool, proposals>>

\* asyncMarkTxs(false) succeeds, or fails and is repeated.
MarkTxs(r) ==
  /\ returning' = returning \ {r}
  /\ sealed' = sealed \ r.txs
  /\ UNCHANGED <<numbers, unsealed, elapsed, queues, thread, caller, fetch, committed,
                 proposals>>
MarkFails(r) ==
  /\ r.retry < MarkFailures
  /\ returning' = (returning \ {r}) \cup
       {[txs |-> r.txs, retry |-> n] : n \in {r.retry + 1} \cap (0 .. 3)}
  /\ UNCHANGED <<numbers, unsealed, elapsed, queues, thread, caller, fetch, pool, proposals>>

Mark == \E r \in returning : MarkTxs(r) \/ MarkFails(r)
PoolStep == PoolAnswers \/ PoolFails \/ AppendTxs \/ AppendSysTxs \/ NoteUnSealedTxsSize

\* minSealTime passes.
Tick ==
  /\ ~elapsed /\ elapsed' = TRUE
  /\ UNCHANGED <<numbers, unsealed, queues, thread, caller, fetch, returning, pool, proposals>>

Commit == \E p \in proposals : CommitProposal(p)
-----------------------------------------------------------------------------
Next ==
  \/ SealerStep \/ ConsensusStep \/ PoolStep \/ Mark \/ Tick \/ Commit
  \/ \E s, e \in 1 .. MaxNumber, m \in BlockSizes : AsyncNotifySealProposal(s, e, m)
  \/ ResetSealing \/ CommitOther
  \/ \E p \in proposals : RefuseProposal(p)

Spec == Init /\ [][Next]_vars

\* The worker thread and the callers' threads run, the pool answers, and
\* consensus commits what was proposed unless its view changes.
Fairness ==
  /\ WF_vars(SealerStep) /\ WF_vars(ConsensusStep) /\ WF_vars(PoolStep)
  /\ WF_vars(Mark) /\ WF_vars(Tick) /\ WF_vars(Commit)
-----------------------------------------------------------------------------
(***************************************************************************)
(* Properties.                                                              *)
(***************************************************************************)
\* The places where a transaction that the pool has handed out can be.
Places == [answer |-> answer.txs, pending |-> pending, sys |-> pendingSys,
           block |-> local.txs, proposed |-> TxsOf(proposals),
           returned |-> UNION {r.txs : r \in returning}, committed |-> committed]

\* Every transaction that the pool has marked as sealed is in a queue, in a
\* block, or on its way back, so that none is lost to sealing for good: whatever
\* view changes, committed blocks, failed answers and retries come in between.
SealedAccounted == sealed \subseteq UNION {Places[x] : x \in DOMAIN Places}

\* No transaction is in two places: it is never sealed into two proposals, nor
\* given back to the pool while it is about to be sealed.
SealedOnce ==
  /\ \A x, y \in DOMAIN Places : x # y => Places[x] \cap Places[y] = {}
  /\ \A p, q \in proposals : p # q => p.txs \cap q.txs = {}
  /\ \A p, q \in returning : p # q => p.txs \cap q.txs = {}

\* No proposal is generated between a proposal with system transactions and
\* the commit of its block: generateProposal says that sealing on at once "will
\* cause system exceptions".
SysBlockIsBarrier ==
  [][pc = "fill" /\ pc' = "submit" =>
       \A p \in proposals : p.sys => p.number <= current]_vars

\* No block is filled before the block m_waitUntil names is committed, although
\* the check is several steps back and consensus goes on storing its numbers.
WaitIsRespected == [][pc = "fill" /\ pc' = "submit" => current >= waitUntil]_vars

\* What the sealer has fetched does not stay with it: it is proposed, or it
\* goes back to the pool, unless the sealer waits for a block with system
\* transactions to be committed, or was ended by a proposal without a block.
FetchedTxsLeave ==
  \A tx \in Txs : (tx \in pending \cup pendingSys) ~>
                  (tx \notin pending \cup pendingSys \/ current < waitUntil \/ pc = "null")
=============================================================================

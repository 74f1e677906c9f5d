-------------------------------- MODULE Ledger --------------------------------
(***************************************************************************)
(* testutils/faker: the ledger that the tests of the other modules run     *)
(* against (FakeLedger), the scheduler in front of it (FakeScheduler) and  *)
(* the thread pool of one thread that commits (libutilities/ThreadPool).   *)
(* A block is the number in its header, which also stands for its hash.    *)
(*                                                                         *)
(* The blocks are under x_ledger; the ledger's configuration is not, so a  *)
(* reader sees it between the steps of a commit.                           *)
(***************************************************************************)
EXTENDS Naturals, Sequences

CONSTANTS MaxBlockNumber,   \* bound on the commits
          InitialBlocks,    \* blocks the ledger is created with, genesis included
          CommitsOverlap    \* may a caller commit before the last commit was answered

ASSUME LedgerAssumption == InitialBlocks \in Nat \ {0} /\ CommitsOverlap \in BOOLEAN

VARIABLES blocks,        \* m_ledger: blocks[n + 1] is at index n
          configNumber,  \* m_ledgerConfig: block number ...
          configHash,    \* ... and hash
          poolQueue,     \* headers waiting in the pool
          committing     \* the commit in progress: <<step, header>> or <<>>

ledgerVars == <<blocks, configNumber, configHash, poolQueue, committing>>

\* init: genesis and the blocks after it, then the configuration of the last one
LedgerInit ==
    /\ blocks = [i \in 1..InitialBlocks |-> i - 1]
    /\ configNumber = InitialBlocks - 1
    /\ configHash = InitialBlocks - 1
    /\ poolQueue = <<>>
    /\ committing = <<>>

\* commitBlock of the scheduler calls asyncCommitBlock: the number is checked
\* by the caller, before the commit is queued; any other number is refused
CommitBlock(number) ==
    /\ CommitsOverlap \/ (poolQueue = <<>> /\ committing = <<>>)
    /\ number = configNumber + 1
    /\ poolQueue' = Append(poolQueue, number)
    /\ UNCHANGED <<blocks, configNumber, configHash, committing>>

\* the task takes x_ledger and appends the block ...
CommitPushConfigFirst ==
    /\ poolQueue # <<>> /\ committing = <<>>
    /\ configNumber' = Head(poolQueue)
    /\ committing' = <<"number", Head(poolQueue)>>
    /\ poolQueue' = Tail(poolQueue)
    /\ UNCHANGED <<blocks, configHash>>
CommitPush ==
    /\ poolQueue # <<>> /\ committing = <<>>
    /\ blocks' = Append(blocks, Head(poolQueue))
    /\ committing' = <<"number", Head(poolQueue)>>
    /\ poolQueue' = Tail(poolQueue)
    /\ UNCHANGED <<configNumber, configHash>>

\* ... and updateLedgerConfig sets the number, then the hash
CommitNumber ==
    /\ committing # <<>> /\ committing[1] = "number"
    /\ configNumber' = committing[2]
    /\ committing' = <<"hash", committing[2]>>
    /\ UNCHANGED <<blocks, configHash, poolQueue>>

\* the last step releases x_ledger and answers
CommitHash ==
    /\ committing # <<>> /\ committing[1] = "hash"
    /\ configHash' = committing[2]
    /\ committing' = <<>>
    /\ UNCHANGED <<blocks, configNumber, poolQueue>>

PoolThread == CommitPush \/ CommitNumber \/ CommitHash

LedgerNext == PoolThread \/ \E n \in 1..MaxBlockNumber : CommitBlock(n)

\* the readers of the blocks wait for the commit in progress
LedgerReadable == committing = <<>>

\* asyncGetNonceList: the numbers whose nonces are in the answer
NonceNumbers(start, offset) ==
    {n \in start..(start + offset - 1) : n <= configNumber}
=============================================================================

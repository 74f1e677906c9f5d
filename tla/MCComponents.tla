----------------------------- MODULE MCComponents -----------------------------
(***************************************************************************)
(* The components besides the storage and the sealer, for TLC.  They share *)
(* no state, so a behaviour moves only the one that Init chooses: the      *)
(* state spaces add up instead of multiplying.                             *)
(***************************************************************************)
EXTENDS Worker, Timer, ConcurrentQueue, LedgerConfigFetcher, Batch,
        CallbackCollection, Block, Entry, Tables, MCValues

VARIABLE moving     \* the component of this behaviour

ledgerAndFetcher == << ledgerVars, fetcherVars >>

componentVars ==
    << workerVars, timerVars, queueVars, ledgerAndFetcher, batchVars,
       callbackVars, blockVars, entryVars, tableVars, input >>

vars == << componentVars, moving >>

Init ==
    /\ WorkerInit /\ TimerInit /\ QueueInit /\ LedgerInit /\ FetcherInit /\ BatchInit
    /\ CallbackInit /\ BlockInit /\ EntryInit /\ TablesInit /\ ValuesInit
    /\ moving \in {"worker", "timer", "queue", "fetcher", "batch",
                   "callbacks", "block", "entry", "tables", "values"}
    /\ batchOverlap => moving = "batch"
    /\ sysValues # SystemKeys => moving = "fetcher" /\ sysValues = {"limit"}
    /\ header.fields["number"] # 0 => moving = "block"

\* the first five components, and the last five, stay as they are
ThreadsRest == UNCHANGED << workerVars, timerVars, queueVars, ledgerAndFetcher, batchVars, moving >>
DataRest == UNCHANGED << callbackVars, blockVars, entryVars, tableVars, input, moving >>

\* a step of one component
OnWorker(A) ==
    moving = "worker" /\ A /\ DataRest /\ UNCHANGED << timerVars, queueVars, ledgerAndFetcher, batchVars >>
OnTimer(A) ==
    moving = "timer" /\ A /\ DataRest /\ UNCHANGED << workerVars, queueVars, ledgerAndFetcher, batchVars >>
OnQueue(A) ==
    moving = "queue" /\ A /\ DataRest /\ UNCHANGED << workerVars, timerVars, ledgerAndFetcher, batchVars >>
OnFetcher(A) ==
    moving = "fetcher" /\ A /\ DataRest /\ UNCHANGED << workerVars, timerVars, queueVars, batchVars >>
OnBatch(A) ==
    moving = "batch" /\ A /\ DataRest /\ UNCHANGED << workerVars, timerVars, queueVars, ledgerAndFetcher >>

OnCallbacks(A) ==
    moving = "callbacks" /\ A /\ ThreadsRest /\ UNCHANGED << blockVars, entryVars, tableVars, input >>
OnBlock(A) ==
    moving = "block" /\ A /\ ThreadsRest /\ UNCHANGED << callbackVars, entryVars, tableVars, input >>
OnEntry(A) ==
    moving = "entry" /\ A /\ ThreadsRest /\ UNCHANGED << callbackVars, blockVars, tableVars, input >>
OnTables(A) ==
    moving = "tables" /\ A /\ ThreadsRest /\ UNCHANGED << callbackVars, blockVars, entryVars, input >>
OnValues(A) ==
    moving = "values" /\ A /\ ThreadsRest /\ UNCHANGED << callbackVars, blockVars, entryVars, tableVars >>

Next ==
    \/ OnWorker(WorkerNext)
    \/ OnTimer(TimerNext)
    \/ OnQueue(QueueNext)
    \/ OnFetcher(FetcherNext)
    \/ OnBatch(BatchNext)
    \/ OnCallbacks(CallbackNext)
    \/ OnBlock(BlockNext)
    \/ OnEntry(EntryNext)
    \/ OnTables(TablesNext)
    \/ OnValues(ValuesNext)

\* Threads run, the timed waits of callers end, and the ledger and the storage
\* answer in the end; nobody is obliged to make another call, no timer to expire.
Spec ==
    /\ Init /\ [][Next]_vars
    /\ WF_vars(OnWorker(WorkerThread))
    /\ \A c \in WorkerCallers : WF_vars(OnWorker(WorkerCallStep(c)))
    /\ WF_vars(OnTimer(TimerThread))
    /\ \A c \in TimerCallers : WF_vars(OnTimer(TimerCallStep(c)))
    /\ \A p \in Producers : WF_vars(OnQueue(NotifyOne(p)))
    /\ \A c \in Consumers : WF_vars(OnQueue(PopWoken(c)))
    /\ WF_vars(OnFetcher(PoolThread /\ UNCHANGED fetcherVars))
    /\ WF_vars(OnFetcher((\E r \in requests : AnswerOk(r)) /\ UNCHANGED ledgerVars))
    /\ \A r \in Rows : WF_vars(OnBatch(RowStep(r)))

\* values an entry holds inside itself, in its own string and in a shared one
EntryTexts == {<<>>, <<1>>, <<2, 3>>, <<4, 5, 6>>, <<7, 8, 9, 1>>}
=============================================================================

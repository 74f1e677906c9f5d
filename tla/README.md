# TLA+ verification of bcos-framework

bcos-framework is the library the modules of a FISCO-BCOS node share: the
storage a block executes on, the sealer that makes block proposals, protocol
objects, codecs, thread utilities, and the interfaces between the modules.
This directory models its concurrent core, its stateful data structures and its
codecs in TLA+, checks them with TLC on small instances and proves the central
properties with TLAPS for all instances.

    tlc -workers 2 -config MCSealer.cfg MCSealer
    tlapm StateStorageRollbackProofs.tla

`PROJECT.json` lists components, runs, the source lines of every definition,
findings, hazards and theorems. All paths below are relative to the repository.

## 1. Inventory

| Part | Modules | What is hard about it |
|---|---|---|
| `libstorage/StateStorage` | `StateStorage`, `SavepointStore`, `StateStorageRefinement` | many threads on one row; a read-through import that races writes; undo of nested calls |
| `libsealer` | `Sealer` | nine atomics, read and written one at a time by three threads |
| `libutilities/Worker` | `Worker` | terminate and stop against the thread's own state changes |
| `libutilities/Timer` | `Timer` | a timeout racing stop, restart and destroy, also from its own handler |
| `libutilities/ConcurrentQueue` | `ConcurrentQueue` | a signal given after the mutex is released |
| `libutilities/BatchStorageHelper` | `Batch` | two "last" answers |
| `libutilities/CallbackCollectionHandler` | `CallbackCollection` | callbacks that add and drop callbacks |
| `libtool/LedgerConfigFetcher` over the ledger of `testutils` | `LedgerConfigFetcher`, `Ledger` | late answers, retries, commits between two answers |
| `libprotocol/protobuf`: block, header, transaction, receipt | `Block` | cached encodings that setters have to clear |
| `interfaces/storage/Entry` | `Entry` | a value that moves between three representations and is shared by copies |
| `libstorage/StorageInterface` | `Tables` | check and insertion of a table are two calls |
| `libcodec/scale` | `ScaleInteger`, `Scale` | boundaries of the compact integer, nested types |
| `libcodec/abi` | `Abi`, `AbiType` | offsets of dynamic arguments, signs, type names |
| `libprotocol/ParallelMerkleProof` | `Merkle` | groups of 16, the last one short |
| `libprotocol/amop`, `RefDataContainer` | `RefData` | lengths read from a message, views into memory |
| `libutilities` conversions, `FixedBytes` | `DataConvert`, `FixedBytes` | alignment, odd digits, signs |
| `libtool/NodeConfig` | `NodeConfig` | loaders that throw half way and are called again |

Section 10 lists what is not modelled.

How they interact: the scheduler (another repository) gives each block a
`StateStorage` over that of the block before, and runs contract calls on it in
threads; a reverted call is undone with its recorder; `hash()` and the commit
traverse the dirty rows. Consensus asks the sealer for a range of blocks; the
sealer's `Worker` thread fetches transactions from the pool, makes proposals
and submits them; view changes and committed blocks reset it.

## 2. How the project is laid out

A component is one module. Four MC modules instantiate them for TLC:

| MC module | Components |
|---|---|
| `MCStateStorage` | `StateStorage` and its refinement of `SavepointStore` |
| `MCSealer` | `Sealer` |
| `MCComponents` | `Worker`, `Timer`, `ConcurrentQueue`, `Batch`, `LedgerConfigFetcher` with `Ledger`, `CallbackCollection`, `Block`, `Entry`, `Tables`, and `MCValues` |
| `MCValues` | codecs, conversions, Merkle proofs, configuration: `Scale`, `Abi`, `AbiType`, `DataConvert`, `FixedBytes`, `RefData`, `Merkle`, `NodeConfig` |

The components of `MCComponents` share no state. `moving` is chosen in `Init` and
names the one component a behaviour moves, so the state spaces add up and do not
multiply; every component is explored fully within its own bounds.
`LedgerConfigFetcher` and `Ledger` do interact and move together. `MCValues` also
has runs of its own, each of one property that is violated (`abi`,
`config_limits`, `secure_bytes`).

The modules that end in `Proofs` extend the modules of components and hold their
inductive invariants and theorems:

| Proof module | About |
|---|---|
| `StateStorageProofs` | types, rows that are not dirty, traversals; the undo log as a data structure |
| `StateStorageRollbackProofs` | rollback: what it restores, that it finds its rows |
| `StateStorageRefinementProofs` | the store with atomic savepoints; reads and writes |
| `SealerProofs` | `Sealer` |
| `LedgerProofs` | `Worker`, `LedgerConfigFetcher` with `Ledger`, `Block` |
| `DataProofs` | `Entry`, `Tables`, `CallbackCollection` |
| `ConversionProofs` | `DataConvert`, `RefData`, `ScaleInteger` |
| `NodeConfigProofs` | `NodeConfig` |

`tlapm` gets slower with every obligation of a module, so the proofs are spread
evenly, and some modules prove the few facts about sequences they use instead of
extending a library of them.

## 3. `StateStorage`

One thread's operation is a record `op[t]` and a label `pc[t]`. A step is what
the code does between two points where another thread can be seen: one lookup
or insertion of the hash map, one answer of the older storage, the read and
the write of `m_capacity`.

| Model | Code |
|---|---|
| `data` | `m_data`; `NoEntry` for a row it does not have |
| `readers`, `writer` | `m_dataMutex`, with the queue: `SharedFree` |
| `recoder`, `saves` | the changes in a thread's recorders; for the properties, what the thread's rows were when each was installed |
| `AsyncGetRow`, `AsyncGetRows`, `AsyncGetPrimaryKeys`, `Lookup`, `ScanMisses`, `LookedUp`, `PrevFails`, `PrevAnswers`, `Import` | the reads and `importExistingEntry` |
| `AsyncSetRow` (four cases), `Emplace`, `Count` | `asyncSetRow` |
| `InstallRecoder`, `DropRecoders`, `Rollback`, `Undo`, `UndoErased`, `Reinsert`, `UndoThrows`, `RolledBack` | recorders and `rollback` |
| `Traverse`, `TraverseLocked`, `TraverseDone` | `parallelTraverse` and the lock of `hash` |

The scheduler of the callers is outside the repository, so its discipline is a
constant. `"exclusive"`: parallel calls keep off each other's rows. `"one
writer"`: a row has one writer, others may read it. `"any"`: no rule. Under the
first two a traversal does not overlap a rollback, because rollback takes no
lock. `"exclusive"` leaves out the races of one row between the lookup and the
insertion of `asyncSetRow`, and between the erasure and the insertion of
`rollback`: what is stated under it says nothing of them. `write_race` shows the
first one.

What a caller writes is a row, a deleted or a purged entry, all dirty, or an entry
that is not dirty (`UnsetEntries`): `Entry` is made clean (`Entry.h:227`) and only
its setters make it dirty, so a new entry, or one read from another row, is
written clean. `CleanValues` says which values are; no row of the older storage
has them in `race`, so that a clean row is one or the other.

`asyncGetPrimaryKeys` iterates over `m_data` without a lock. While another thread
is inside an operation the scan may pass a row that is there (`ScanMisses`); that
the iteration of a map that is being changed may also crash is not modelled.
Nothing is claimed of the keys it answers: `ReadsReturnView` is about
`asyncGetRow` and `asyncGetRows`.

Abstractions. A key stands for a pair of table and key, a value for the fields
of an entry, with a size. An older storage without any row also stands for
having none. The older storage does not change (it is the finished block
before). The check of `m_readOnly`, the lock and the lookup of `asyncSetRow`
are one step, and so are the read of `m_capacity` and the insertion before it.
`rollback` on a read-only storage does nothing and has no action. A read-only
storage passes an imported entry on as it is.

### Runs

| Run | Shows |
|---|---|
| `rollback` | one thread, two rows, two nested recorders, three changes: `RollbackRestores`, `RollbackNeverThrows` |
| `parallel` | two threads with a row each and a shared one: `RollbackRestores`, `ReadsReturnView`, `AckedWriteStored`, `OverlayStable`, and `ImplementsSavepoints` (below) |
| `race` | two threads without any rule, writes of clean entries included: `TypeOK`, `CleanRowsMatchPrev`, and, under fairness, `TraverseProceeds` |
| `capacity_prev`, `write_race` | violations, see section 8 |

Bounds: `MaxSaves` recorders and `MaxLog` changes per thread. Two recorders
with three changes have an inner and an outer call that change one row in
turn, and a row that is deleted, purged and inserted again. Two threads are
enough for every race between a lookup and an insertion, since each involves
one row and two parties. `CapMod` stands for 2^64 (16 where the capacity is
checked, 1 where it is not observed: then all sizes are 0). In `race` the threads use `asyncGetRow`
only: the two batch reads import with the same step, and `CleanRowsCorrect`
covers them.

`RollbackRestores` and `ReadsReturnView` are stated for "exclusive" scheduling
and fail for "one writer", by the race behind `write_race`: a row erased and
then looked up is imported by a reader before rollback inserts it again, and a
reader that missed a row gets the entry that marks its deletion.

Fairness (`FairSpec`, run `race`): a thread inside an operation goes on, and the older
storage answers, as `StorageInterface` requires each call to run its callback.
Strong fairness of `TraverseLocked` stands for the queue of
`tbb::queuing_rw_mutex`, which serves requests in order.

### Refinement

`SavepointStore` says what callers rely on, in four actions: a thread writes one
of its rows (`Write`), takes a savepoint (`Save`), gives all of them up (`Keep`),
or goes back to the last one in a single step (`Revert`). There are no imports,
locks or recorders in it. `StateStorageRefinement` maps `StateStorage` to it:
`Written` is the dirty part of the rows, except that a rollback takes effect when
it begins, and `Savepoints` drops the savepoint at that same moment. This is sound
under `"exclusive"` only, where nobody but the owner looks at rows that are being
rolled back. `ImplementsSavepoints` is `SavepointStore`'s specification under this
mapping. It is safety only: a rollback that throws stays at `"thrown"`, which
`RollbackNeverThrows` excludes.

## 4. `Sealer`

| Model | Code |
|---|---|
| `sealing`, `start`, `end`, `maxTxs`, `waitUntil`, `current`, `unsealed`, `fetching` | the atomics of `SealingManager` |
| `elapsed`, `Tick` | whether `minSealTime` has passed since `m_lastSealTime` |
| `pending`, `pendingSys`, `QueuesLocked` | the two queues, and `x_pendingTxs` while `generateProposal` holds it |
| `ExecuteWorker` ... `FetchTransactions` | `executeWorker`, `generateProposal`, `submitProposal`, `fetchTransactions`, split where consensus can be seen |
| `AsyncNotifySealProposal`, `ResetClear` ... `ResetMaxTxs` | `resetSealingInfo`, one atomic at a time |
| `ResetSealing`, `ResetSealingClears` | `asyncResetSealing` at a view change |
| `AppendTxs`, `AppendSysTxs`, `PoolFails` | the callback of `asyncSealTxs` |
| `returning`, `MarkTxs`, `MarkFails` | `notifyResetTxsFlag` with its three retries |
| `sealed`, `committed`, `proposals`, `PoolAnswers`, `CommitProposal`, `CommitOther`, `RefuseProposal` | pool and consensus, external: what the interfaces let them do |

Abstractions. The queues are sets: which transaction is in front is left open.
The first check of `executeWorker`, which only decides whether to wait a
millisecond, is an iteration of the loop. `fetchTransactions` repeats the check
of its caller, and the model keeps the second. The two loads under
`std::max`, and `m_waitUntil`'s store with the increment after it, are one step
each. So are the loads of one decision of `shouldGenerateProposal`
(`SealingManager.cpp:50-62`: range, wait, size and time), and the check of the
number in `submitProposal` with the submission after it (`Sealer.cpp:116,141`): a
decision made of values from before and after a store of consensus that falls
between two loads is left out. `WaitIsRespected` does not depend on it, since
`m_waitUntil` is stored by the sealer's own thread and `m_currentNumber` grows with the blocks
committed. `m_onReady` has no handler (the constructor of `Sealer` drops the one it
registers). Consensus asks for the block after the current one or after its
last request, and not for a number it has a proposal for; at a view change it
drops its proposals and unmarks their transactions itself. `SizeMod` stands for
2^64 in the size to fetch; a size that has wrapped only asks the pool for more, so no
property here is about it.

| Run | Shows |
|---|---|
| `sealer` | the three threads overlap freely: `TypeOK`, `SealedAccounted`, `SealedOnce`, `WaitIsRespected` and, under fairness, `FetchedTxsLeave` |
| `sealer_refused`, `sealer_barrier` | violations, see section 8 |

Neither that a number has one proposal nor that a system block is a barrier holds
in this code: a request of consensus that is stored between the header's number
and `m_waitUntil` makes the sealer wait for another block than the one with the
system transactions (`sealer_barrier`). `WaitIsRespected` is what is left: the
block `m_waitUntil` does name is waited for.

`FetchedTxsLeave` excuses a sealer that waits for a block with system
transactions. The wait outlives a view change that drops the block, even when
consensus asks for the same number again; it then lasts until another node
commits that number. It also excuses a sealer that has stopped at `pc = "null"`.

Bounds: block numbers up to 2, so that a request can continue the one before
or replace it; one ordinary and one system transaction, so that a block can be
sealed behind a system block. `MCSealer` has two scenes: both transactions without
view changes and failed returns, or the system transaction alone with both. A block
holds one transaction (`BlockSizes`); the theorems are about every size.
`MarkFailures` bounds how often one list is refused: once in the run, three times in
`SealedTxsKept`. After a fourth refusal the code gives the list up, and
`SealedAccounted` ends there.
Deadlock is not checked: when `submitProposal` has no block (`pc = "null"`) the
model stops there, and once all is committed nothing is left to do.

Fairness: the sealer thread, the calls of consensus once begun, the pool and
its callbacks, the clock, and the commit of a proposal that no view change
drops. A new request or view change is never forced.

## 5. Threads, queues and fetches (run `components`)

Nothing is assumed of the order of steps; what is assumed of the callers is a
constant, named here.

| Module | Steps | Properties |
|---|---|---|
| `Worker` | a locked region of `x_work` is one step, a read of `m_workerState` outside it another; the derived class may throw at any point | `StopIsQuiet`, `WorkerCallsReturn` |
| `Timer` | a call is the list of its atomic steps, and the lists interleave; the handler may call the timer it runs on | `DestroyReturns` |
| `ConcurrentQueue` | `push` and its signal are two steps; spurious wake-ups and timeouts | `NoStrandedElement` |
| `Batch` | an answer reads the word of results, writes it, counts, compares, calls back | `BatchCallsBack` |
| `LedgerConfigFetcher`, `Ledger` | a request per call of a fetch, answers in any order, errors, retries; a commit is three steps, and the block number is visible between them | `NumberHasBlock`, `FetchedBlockIsReal`, `FetchSurvivesErrors` |

- `Worker`: calls of different threads do not overlap (`WorkerCallsOverlap`).
  The thread stores `Started` unconditionally, so a terminate that falls into a
  `startWorking` can be lost, and then it never returns: with overlapping calls
  TLC refutes `WorkerCallsReturn` that way. The only calls in the repository are those of
  `Sealer::start` and `Sealer::stop`; nothing says whether they may overlap.
- `Timer`: any two threads and the handler may be inside `destroy` of one timer at
  once, as in `WorkerTest.cpp:58-64`. Two calls that both pass the test of
  `m_working` before either clears it join or reset one `std::thread` twice, which
  is undefined (`JoinAgain`, `timerWorker = "misused"`); `DestroyReturns` claims
  nothing after that. Durations are left out: an armed timer may expire at any
  moment. The two atomics that `stop` tests, and the two things that `destroy`
  tests, are read in one step each. boost::asio is external.
- `Batch`: at least one row; the code calls nobody back for an empty batch. With
  overlapping answers (`batchOverlap`) only "at least once" holds: two last
  answers may both see the full count.
- `Ledger`: `commitBlock` is not called again before it was answered
  (`CommitsOverlap`). Answers are computed when they are given, as `FakeLedger`
  does; another ledger is outside the repository. A hash is its block's number.
- `LedgerConfigFetcher`: nothing keeps the caller from calling a fetch again while
  the request of an earlier call is in flight, in the same round or after a wait
  that failed. Such fetches are noted (`overlapped`, for the properties only). The
  answers of two `fetchBlockNumberAndHash` then mix: the number is of one call, the
  hash of an earlier one. `FetchedBlockIsReal` says that the hash is of a block no
  later than the number, and of that block if the calls did not overlap.
- A system value that is no number makes `lexical_cast` throw in the callback,
  and its fetch never finishes: `FetchSurvivesErrors` leaves those out. In the run all
  values are numbers, or only the block limit is.

Bounds: two callers each (and the handler, for `Timer`), because each race here is between one call and the
thread or between two calls; five `Worker` calls give start, stop, start,
terminate and start again; three `Timer` calls give a start, a restart that races
the handler, and a destroy; three pushes are one more than the consumers; one
commit and two fetches put a commit before, between and after the two answers of
a block fetch. `MaxRetryTime` is 1 with one error, so an error always uses up the
retries; the code has 5. Sizes of batches: 3.

Fairness: threads run, a call that was begun goes on, a producer that pushed
signals, a woken consumer continues, ledger and storage answer in the end. No
call, timeout, spurious wake-up or expiry is ever forced. Deadlock is not checked:
with all calls made, nothing is left to do.

## 6. Data structures and conversions (run `components`)

| Module | Properties |
|---|---|
| `CallbackCollection` | `RegistrationsMatch`, `NotifiedOnceAlive` |
| `Block` | `HeaderCachesFresh`, `BlockReadsBack` |
| `Entry` | `EntryReadsBack` |
| `Tables` | `SchemaIsStable` |
| `ScaleInteger`, `Scale` | `ScaleRoundTrip`, `ScalePrefixFails` |
| `DataConvert`, `FixedBytes` | `TextRoundTrip`, `FixedBytesNumeric`; `SecureOperators` is violated (section 8) |
| `Abi`, `AbiType` | `AbiRoundTrip`, `AbiTypesParse`; `AbiMixedRoundTrip` is violated (section 8) |
| `RefData` | `PopulateCopies`, `AmopRoundTrip` |
| `Merkle` | `MerkleProofReachesRoot` |
| `NodeConfig` | `LoadForgetsHistory`; `SmallNumbersRefused` is violated (section 8) |

The first four are state machines under every sequence of calls up to a bound.
The others are functions: a behaviour of `MCValues` picks one input and ends (a
`NodeConfig` object is loaded a second time first: `LoadAgain`), and the invariants
compare the result with a definition that is independent of the code (decoding
against encoding, bytes against arithmetic, a proof against the hash of its
children).

- `CallbackCollection`: one thread, as the map has no lock. Three subscribers let
  a callback drop the next one and add another during a notification.
- `Block`: an object decodes once, in its constructor, as everywhere in the
  repository. A header's fields are one that `clear()` resets and one it keeps.
  Six calls are enough to encode, change through another pointer, and encode again.
  `PBTransaction::updateSignature`, which clears no cache, is left out: it is there
  "only for ut" (`PBTransaction.h:81`).
- `Entry`: 2 and 3 stand for the 32 and 64 bytes of the code. The values have
  lengths on both sides of each limit.
- `Tables`: creations of one table do not overlap. Answers come in any order, and
  a write may fail with or without effect.
- Integers of any width are sequences of bytes, so the 256-bit ones are exact.
  `SizeModulus` (2^30, TLC's integers being 32 bits wide) stands for 2^64 and
  `Uint32Modulus` (2^29) for 2^32.
- Base64 is checked on inputs that are not empty: `base64Decode` subtracts from the
  length of the text, which underflows for an empty one (`Base64.cpp:49`).
- A refusal of the SCALE decoder is an exception or an abort, which the model does
  not tell apart, and of AMOP the result -1 or a `runtime_error`
  (`AMOPRequest.cpp:29,80`).
- Inputs lie at the boundaries of the code: the four modes of a compact integer
  and its longest encoding, lengths around a 32-byte word, 0 to 34 leaves and
  256, 257 and 273 for groups of 16, topics of 65535 and 65536 bytes, limits of
  the configuration and one beyond.
- The hash function is external and injective. The functions of
  `ParallelMerkleProof` move the texts out of the vector their caller passed as
  `const` (`ParallelMerkleProof.cpp:40-42`); `Merkle` is about what they compute, and
  not about what is left in the vector.
- ABI values are decoded from what the encoder wrote. `AbiRoundTrip` leaves out
  tuples that hold a static array beside a dynamic member, and numbers of `int256`
  below the decoder's threshold: `AbiMixedRoundTrip` is about those.
- `LoadForgetsHistory` is about the members as the code stores them. Numbers of the
  file become `size_t`, `uint32_t` or `uint16_t` there.

## 7. Proofs

| Theorem | Module | Says |
|---|---|---|
| `TypeCorrect` | `StateStorageProofs` | `Spec => []TypeOK` |
| `CleanRowsCorrect` | `StateStorageProofs` | `Spec => []CleanRowsMatchPrev`, for every scheduling, and with entries written clean |
| `RollbackCorrect` | `StateStorageRollbackProofs` | under `"exclusive"`, `Spec => [](RollbackRestores /\ RollbackNeverThrows)` |
| `RollbackFindsItsRows` | `StateStorageRollbackProofs` | unless `"any"`, `Spec => []RollbackNeverThrows` |
| `SavepointsImplemented` | `StateStorageRefinementProofs` | under `"exclusive"`, `Spec => ImplementsSavepoints` |
| `ReadsAreCorrect` | `StateStorageRefinementProofs` | under `"exclusive"`, `Spec => []ReadsReturnView` |
| `WritesAreStored` | `StateStorageRefinementProofs` | under `"exclusive"`, `Spec => []AckedWriteStored` |
| `VisitedRowsStandStill` | `StateStorageProofs` | unless `"any"`, `Spec => OverlayStable` |
| `SealerTypes` | `SealerProofs` | `Spec => []TypeOK` |
| `SealedTxsOnce` | `SealerProofs` | `Spec => []SealedOnce`, whatever calls overlap |
| `SealedTxsKept` | `SealerProofs` | if consensus refuses nothing and a list is refused at most three times, `Spec => []SealedAccounted` |
| `WaitsAreRespected` | `SealerProofs` | `Spec => WaitIsRespected` |
| `StoppedWorkerIsQuiet` | `LedgerProofs` | if calls do not overlap, `WorkerSpec => []StopIsQuiet` |
| `NumbersHaveBlocks` | `LedgerProofs` | if commits do not overlap, `FetcherSpec => []NumberHasBlock` |
| `FetchedBlocksAreReal` | `LedgerProofs` | if commits do not overlap, `FetcherSpec => []FetchedBlockIsReal` |
| `EntriesReadBack` | `DataProofs` | `EntrySpec => []EntryReadsBack` |
| `SchemasAreStable` | `DataProofs` | `TablesSpec => []SchemaIsStable` |
| `RegistrationsAlwaysMatch` | `DataProofs` | `CallbackSpec => []RegistrationsMatch` |
| `NotificationsReachTheLiving` | `DataProofs` | `CallbackSpec => []NotifiedOnceAlive` |
| `HeaderCachesAlwaysFresh` | `LedgerProofs` | `BlockSpec => []HeaderCachesFresh` |
| `BlocksReadBack` | `LedgerProofs` | `BlockSpec => []BlockReadsBack` |
| `AmopMessagesReadBack` | `ConversionProofs` | every topic and data: `AmopReadsBack`, and `AmopCutAt` for every length |
| `HexTextReadsBack` | `ConversionProofs` | any bytes, with and without prefix: `HexReadsBack` |
| `BigEndianNumbersReadBack` | `ConversionProofs` | every number and width: `BigEndianReadsBack` |
| `SignedNumbersReadBack` | `ConversionProofs` | every number of `s256`: `SignedReadsBack` |
| `CompactIntegersReadBack` | `ConversionProofs` | every number of at most 67 bytes, anywhere in a stream, whole or cut: `CompactReadsBack` |
| `PopulateCopiesSource` | `ConversionProofs` | any memory and containers in it: `Populates` |
| `LoadsForgetHistory` | `NodeConfigProofs` | any two objects, any load, any file: `LoadForgets` |
| `LoadsStayWithinLimits` | `NodeConfigProofs` | any object, any load, any file: `LoadWithinLimits` |

Beside the conditions in the table they assume the named assumptions of the
constants only (`ConstantsAssumption`, `SealerAssumption`, `LedgerAssumption`,
`FetcherAssumption`, `BlockAssumption`, `EntrySizes`, `EntryBytes`): any threads,
rows, transactions, blocks, retries and bounds. `WorkerSpec`, `FetcherSpec`,
`EntrySpec`, `TablesSpec`, `CallbackSpec` and `BlockSpec` are the component's own
specification, without `moving`. The operators the theorems about conversions and
`NodeConfig` state are those the properties of `MCValues` apply to their inputs.

Which of the conditions are needed: `RollbackRestores`, `ReadsReturnView` and
`AckedWriteStored` fail for `"one writer"` (section 3), `SealedAccounted` when
consensus refuses (`sealer_refused`). With
`CommitsOverlap = TRUE` and two commits, TLC refutes `NumberHasBlock`; whether
`FetchedBlockIsReal` then fails too is open, because the queue of the pool is no
longer bounded. The condition of `StoppedWorkerIsQuiet` is one of the proof: with
overlapping calls TLC finds no violation of `StopIsQuiet` (three callers, seven
calls), but `WorkerInv` does not hold, and `WorkerCallsReturn` does fail.

### `StateStorage`

`TypeInv` adds to `TypeOK` that what `Emplace` is about to insert can be stored
(it is not PURGED). `CleanInv` adds that the old entries in the recorders are
clean only if they are the older storage's or were written clean: rollback puts them
back.

`RollbackInv` is needed because `RollbackRestores` speaks of the end of a
rollback, which depends on all changes recorded. Its core,
`Undoable`, is a statement about one recorder log, the saved
overlays and the rows, free of the state machine:

- a saved overlay differs from the rows only where the log, at that level or
  above, has a change (`Untouched`);
- the oldest change of a row at a level holds what was saved (`Oldest`);
- of two neighbouring changes of one row the newer says whether the older left
  the row there or erased it (`Adjacent`), and the newest agrees with the rows
  (`Present`), so that the row to erase is always found.

`UndoablePush` (a recorded write), `UndoablePop` (an undone change),
`UndoableInstall` (a new recorder) and `UndoableDone` (no change left, hence
restored) are lemmas about it. `InsertOK` and `ReinsertOK` say that under
`"exclusive"` the row between lookup and insertion is still missing, for which
`ReadsOwn` says that readers in flight keep to their rows. `RollbackStep` has a
case per action.

`RollbackFindsItsRows` gets by with `"one writer"`, for which `Untouched` and
`Oldest` do not hold. `FindsInv` keeps `Present`, which only asks whether a row is
there: an import puts a row where none was, and never takes one away. A write
between lookup and insertion may find the row imported, and then leaves it alone;
`PresentOK` says that the change it has recorded fits the log all the same.

`SavepointsImplemented` needs `RollbackInv`, because the step that begins a
rollback shows the saved rows at once and the step that ends it must then change
nothing, and `EmplaceWritten`: what waits to be inserted was written by a caller.
`RefinementStep` has a case per action. The steps of a rollback, reads and imports
leave `Written` and `Savepoints` alone; a row imported is clean and not in `Written`.

`VisitedRowsStandStill` is an action property. `LockInv` counts what `m_dataMutex`
guarantees: who visits is the writer and alone, who is between lookup and insertion
is a reader, and a rollback, which takes no lock, excludes visits by the discipline
of the callers. What is left are imports, which insert clean rows only, outside
what a visit takes into account.

`WritesAreStored` and `ReadsAreCorrect` follow one operation to its end while the
others move (`OwnStepOrStays`, `OthersStay`). `WriteOK` says where the row stands at
each label of a write. `ReadOK` says of every row a read was asked for that it is
still to be looked up, or missing and waiting for the older storage, or answered
with what `View` has now: under `"exclusive"` no other thread can change it. It needs
`CleanInv` (the older storage's answer is the view of a row nobody has) and
`EmptyInv` (an entry marked deleted has no value, in the rows, the recorders and
what waits to be inserted).

### `Sealer`

`SealedOnce` and `SealedAccounted` speak of all transactions at once. `PlacesInv`
follows one: `Placed(tx)` says that it is in at most one of the queues, the block
being made, the answer, the lists on their way back, the proposals and the
committed ones, and that what is in a place of the sealer is marked in the pool.
To be inductive it needs `FetchOnce` (one answer of the pool at a time, since
`m_fetchingTxs` stays set until it is appended) and `BlockFilled` (the block being
made holds transactions only between being filled and being submitted). `Found(tx)` adds, for
`SealedTxsKept`, that a marked transaction is in one of the places.

`WaitInv` says that `m_waitUntil` is not beyond the current block from the check in
`shouldGenerateProposal` until the block is filled: in between the sealer's thread
does not store it, except where it fills a block with system transactions, and
commits only raise the current number.

### `Worker`

`StopIsQuiet` is about the moment a call returns. `WorkerInv` adds which states
the thread can find at each point (`StateFitsThread`), that a state the thread has
still to answer has a caller waiting for it (`StateHasCaller`), and that there is
one call at a time.

### `LedgerConfigFetcher`

`LedgerInv` says that block n is at index n and that the configuration is behind
the blocks and never ahead: the block is appended first, the number set after it.
Without overlapping commits at most one is under way. `FetchInv` says what each
request asks for (`RequestOK`), that a fetch whose calls did not overlap has one
request at most, and none once its flag is set (`OneRequest`), and that what a fetch
left in the configuration, once its flag is set or the wait has succeeded (`Done`),
is there; for a block (`BlockOK`), that the hash is of a block no later than the
number. For this no number stored is beyond the one the ledger gives out now, which
only grows: a later answer can only raise it. The two are kept apart:
`FetchFrame` says that commits only add
blocks, `FinishKeeps` and `RequestReplaced` what the two kinds of answers do.

### `Entry`, `Tables`, `CallbackCollection`, `Block`

- `EntryInv`: wherever an entry keeps its value (inline, own, shared), what is
  there is the value last stored, and the shared memory it points to is never
  written again (`Keeps`).
- `TablesInv`: one creation of a table at a time (`OneCreator`), and the write of one
  finds no row (`PutFindsNoRow`), so that a write that failed with effect is found by
  the next check.
- `CallbackInv`: every registered callback has its own key (`OwnKey`), and a
  notification still holds every live callback it has not called (`RoundIsHeld`). Keys are
  handed out from the largest one on, so the set of them has to be finite and a
  largest key to exist (`MaxOfBounded`).
- `BlockInv`: a cached encoding is that of the members (`TxCachesFresh`,
  `ListCachesFresh`, `HeaderCachesFresh`), up to the import time of a transaction,
  which is not part of what is compared (`SameTransaction`).

### Conversions

No induction is needed where a conversion is defined place by place. A number is
determined by its digits (`SameDigits`), cutting off leading zeros changes none
(`CanonicalNumber`), and the two's complement has its lowest digit that is not zero
where the number has it (`NegatedLowZeros`), by the least counterexample
(`LeastNatural`). In its first three modes a compact integer is its number shifted by
two bits: each byte of the code gives back six bits of a digit and the upper two of
the one before (`ShiftedReadsBack`). `CopiesAgree` says that `memcpy` is called only where it does what
`memmove` does.

### `NodeConfig`

A loader is a sequence of statements; each assigns members, and one may throw, which
ends the load (`Run`). A load calls loaders on the object the previous one has left,
so what is proved of a load is put together from its loaders:

- `LoadsLeaveObjects`: a new object, and every object any load leaves, is an object
  (`IsConfig`), thrown in or not.
- `RunQuiet`, `RunAssigns`, `RunConfig`: an object that was not thrown in has seen
  every statement and holds what the first to assign a member assigns; thrown in or
  not, it keeps its members. The first statement that throws is the least index of
  one (`LeastNatural`).
- `RunForgets`: two objects that run the same statements agree on the members these
  assign. A lemma per loader (`ChainStatements`, ..., `LedgerStatements`) says which
  these are, and that the checks hold if nothing throws.
- `ConfigLoads`, `GenesisLoads`, `ServiceLoads`, `NodeServiceLoads`: the loaders of
  one call, in their order. No later loader assigns a member an earlier one checked,
  so the limits hold at the end, and every member of the call (`MembersOf`) is
  assigned by some loader.

The statements of `loadNodeServiceConfig` depend on the object: the default names hold
its chain id. `LoadForgets` is therefore about objects with the same chain id, for
this call's sake. What `LoadsStayWithinLimits` does not say is that a limit in the
file is the one in the object: a negative number in the file is a large one in a
`size_t` member and passes the check (`config_limits`).

### Only model-checked

Liveness (`TraverseProceeds`, `FetchedTxsLeave`, `WorkerCallsReturn`,
`DestroyReturns`, `NoStrandedElement`, `FetchSurvivesErrors`, `BatchCallsBack`),
which is beyond the proof system here. SCALE, ABI and Merkle proofs
(`ScaleRoundTrip`, `ScalePrefixFails`, `AbiRoundTrip`, `AbiTypesParse`,
`MerkleProofReachesRoot`): their definitions are recursive operators, which the
proof system cannot use. Of SCALE only the compact integer is proved; a fixed-width
integer is a recursive function of its value, which takes an induction. `FixedBytesNumeric`, which needs bitwise operators; base64
and the value of a text with an odd digit in `TextRoundTrip`, which are sums over
sets and folds.

## 8. Where code and text disagree

| Run | What happens |
|---|---|
| `write_race` | a write that lost the race to an import is dropped and reported as done |
| `capacity_prev` | overwriting an imported row subtracts bytes that were never added |
| `sealer_refused` | a refused proposal's transactions are not put back |
| `sealer_barrier` | a request stored between the header's number and `m_waitUntil` makes the sealer wait for another block than the one with the system transactions |
| `abi` | an `int256` below -0x7000...00 is decoded as a positive number (the threshold between the signs is 0x8fff...ff); a tuple with an array and a string is not read back, because the encoder counts one word for the array |
| `config_limits` | a negative limit in the configuration file is a large one in `size_t` and passes the check for a positive one |
| `secure_bytes` | `\|=` and `&=` of `SecureFixedBytes` are `^=` |

`write_race` needs a caller that reads a row while another thread writes it. In
`abi` one input holds both, and neither comes back.

Two more are in the models and no text contradicts them, so they have no run:

- The block of `submitProposal` may be null. `executeWorker` checks
  `shouldGenerateProposal` and `generateProposal` checks it again; a view change, or a
  request of consensus that has extended the range and not yet stored the block size,
  in between makes the second check fail, and `Sealer.cpp:116` uses what it returned.
- Two calls of `Timer::destroy` at once may join one thread twice (section 5).

## 9. Conventions

An operator that stands right before another, with the same parameters and a
longer name (`StoredAsIs` before `Stored`), is a faulty variant of it. With the
variant in its place, TLC finds the property named in `PROJECT.json` violated.

## 10. Not modelled

- `StateStorage`: `setPrev` and `setEnableTraverse`, called before threads run, and
  the value `hash()` computes: `Traverse` has its lock and its visit of the rows.
  `hash()` has a sequential and a parallel branch, and takes the first one if
  `c_fileLogLevel >= TRACE` (`StateStorage.cpp:391`). Trace is the lowest of the
  severities, so this holds for every level and the parallel branch is never
  reached. It would not be safe as it is: its case for deleted rows
  (`StateStorage.cpp:439`) changes `totalHash` without `hashMutex`, which the other
  case takes. No run shows this, because no behaviour of the program does.
- `Sealer`: `start` and `stop` of its thread, which are the calls of `Worker`.
- `StorageInterface` and `Table`: the synchronous wrappers, which wait for the
  asynchronous call, `Condition::isValid`, `TableInfo`, and the two-phase interface,
  which has no implementation in the repository.
- `Block`: the indexed getters, decoding into an object that is in use, which
  nothing does, and who owns the metadata messages.
- `libsync/SyncConfig`: node lists, each behind a lock. The one question worth
  asking, whether a derived list can be written from stale copies, depends on
  whether the setters may overlap, and they have no caller in the repository.
- Header signature lists: verification calls cryptography outside the repository.
- Multi-group information: maps behind one lock, each method one critical section.
- `KVStorageHelper`: forwards each call. Execution messages: records with getters
  and setters. Transaction synchronisation messages: a wrapper of generated code.
- AMOP topics: a JSON document parsed by a library.
- The interfaces of the node's modules: pure virtual functions. Where a modelled
  component calls one, its module has it as an external action.
- Logging, errors, files, the other fakes and the tests: input and output, and test
  doubles that are read for what callers expect.

Logging and wording are left out throughout.

---------------------------- MODULE StateStorage ----------------------------
(***************************************************************************)
(* bcos::storage::StateStorage (libstorage/StateStorage.cpp): the row cache *)
(* a block executes on.  It overlays an older storage, m_prev: a row that   *)
(* is not in m_data is read from m_prev and imported as a clean copy, a     *)
(* write makes a dirty row, and a recorder lets a reverted contract call    *)
(* undo its writes.  Many threads use one StateStorage at the same time.    *)
(*                                                                          *)
(* One row key stands for a (table, key) pair.  A step is what the code     *)
(* does between two points where another thread can be seen: one lookup or  *)
(* insertion in m_data (tbb::concurrent_hash_map locks one row at a time),  *)
(* one answer of m_prev, one read or write of m_capacity.                   *)
(***************************************************************************)
EXTENDS Integers, Sequences, Folds

CONSTANTS
  Threads,         \* threads that call the storage
  Keys,            \* rows, each a (table, key) pair
  Values,          \* field contents of a row
  CleanValues,     \* those that callers also write in entries not marked dirty
  NoValue,         \* no contents: a deleted entry, or no row in m_prev
  Size,            \* bytes of each content (Entry::size)
  PrevRow,         \* the rows m_prev answers with; m_prev does not change
  Owner,           \* the thread a conflict-free schedule lets write a row
  Shared,          \* owner of the rows that nobody writes
  Scheduling,      \* how far the callers keep to Owner, see MayRead
  EnableTraverse,  \* m_enableTraverse
  Batches,         \* the key sets asyncGetRows and asyncGetPrimaryKeys ask for
  CapMod,          \* m_capacity is a size_t, computed modulo this (2^64)
  MaxSaves,        \* bound: recorders a thread keeps at a time
  MaxLog           \* bound: changes a thread has recorded at a time

ASSUME ConstantsAssumption ==
  /\ NoValue \notin Values /\ CleanValues \subseteq Values
  /\ Size \in [Values \cup {NoValue} -> Nat] /\ Size[NoValue] = 0
  /\ PrevRow \in [Keys -> Values \cup {NoValue}]
  /\ Shared \notin Threads
  /\ Owner \in [Keys -> Threads \cup {Shared}]
  /\ Batches \subseteq SUBSET Keys
  /\ Scheduling \in {"exclusive", "one writer", "any"}
  /\ EnableTraverse \in BOOLEAN
  /\ CapMod \in Nat \ {0} /\ MaxSaves \in Nat /\ MaxLog \in Nat

VARIABLES
  data,       \* m_data: the entry of every row, NoEntry when it has none
  readOnly,   \* m_readOnly
  readers,    \* threads that hold m_dataMutex shared
  writer,     \* the thread, if any, that holds m_dataMutex exclusively
  capacity,   \* m_capacity
  recoder,    \* changes in a thread's recorders, oldest first
  saves,      \* a thread's recorders: its OwnOverlay when each was installed
  pc,         \* where a thread is in its operation
  op          \* the operation: its arguments, progress and result

vars == <<data, readOnly, readers, writer, capacity, recoder, saves, pc, op>>
rows == <<data, recoder, saves>>
locks == <<readers, writer>>
-----------------------------------------------------------------------------
(***************************************************************************)
(* Entries (interfaces/storage/Entry.h).  PURGED is only ever an argument.  *)
(***************************************************************************)
Statuses == {"NONE", "NORMAL", "DELETED", "PURGED"}
Entry == [status : Statuses, value : Values \cup {NoValue}, dirty : BOOLEAN]

NoEntry == [status |-> "NONE", value |-> NoValue, dirty |-> FALSE]

\* set() and setStatus() mark the entry dirty.
SetEntryClean(st, v) == [status |-> st, value |-> v, dirty |-> FALSE]
SetEntry(st, v) == [status |-> st, value |-> v, dirty |-> TRUE]

\* Entries whose contents were not set since they were made or read: a new one
\* (Entry()), or what a read of another row returned.  They are not dirty.
UnsetEntries == {[status |-> "NORMAL", value |-> v, dirty |-> FALSE] : v \in CleanValues}

\* What callers write: a row, newDeletedEntry(), an entry with status PURGED.
WrittenEntries == UnsetEntries \cup
                  {SetEntry("NORMAL", v) : v \in Values} \cup
                  {SetEntry(st, NoValue) : st \in {"DELETED", "PURGED"}}

\* The entry m_prev answers with, after setDirty(false).
PrevEntry(k) == IF PrevRow[k] = NoValue
                THEN NoEntry
                ELSE [status |-> "NORMAL", value |-> PrevRow[k], dirty |-> FALSE]

\* A lookup hands out NORMAL entries only.
FoundNormalAny(e) == e
FoundNormal(e) == IF e.status = "NORMAL" THEN e ELSE NoEntry

\* What the block has written: the dirty rows, which hash() and the commit
\* (parallelTraverse with onlyDirty) see.
Dirty(e) == IF e.dirty THEN e ELSE NoEntry
Overlay == [k \in Keys |-> Dirty(data[k])]
OwnOverlay(t) == [k \in Keys |-> IF Owner[k] = t THEN Dirty(data[k]) ELSE NoEntry]

\* The content a reader of row k is owed.
View(k) == IF data[k].status = "NONE" THEN PrevRow[k] ELSE data[k].value
-----------------------------------------------------------------------------
\* What m_data, and so a recorder, can hold; NoEntry stands for nullopt.
StoredEntry == {NoEntry} \cup [status : {"NORMAL", "DELETED"},
                               value : Values \cup {NoValue}, dirty : BOOLEAN]
Change == [rec : Nat, key : Keys, old : StoredEntry]

Kinds == {"none", "row", "rows", "keys", "set"}
\* want: the keys asked for; todo: the ones the present stage still has to
\* handle; miss: the ones m_data did not have; res: what the callback gets.
\* entry: the argument of asyncSetRow; cap and delta: the operands of
\* m_capacity += updatedCapacity; err: the callback gets an error.
Op == [kind : Kinds, want : SUBSET Keys, todo : SUBSET Keys, miss : SUBSET Keys,
       res : [Keys -> Entry], entry : Entry, cap : Nat, delta : Int,
       err : BOOLEAN]

NoOp == [kind |-> "none", want |-> {}, todo |-> {}, miss |-> {},
         res |-> [k \in Keys |-> NoEntry], entry |-> NoEntry,
         cap |-> 0, delta |-> 0, err |-> FALSE]

Labels == {"idle", "lookup", "prev", "import", "emplace", "count", "done",
           "undo", "reinsert", "thrown", "waiting", "traverse"}

TypeOK ==
  /\ data \in [Keys -> StoredEntry]
  /\ readOnly \in BOOLEAN
  /\ readers \subseteq Threads /\ writer \subseteq Threads
  /\ capacity \in Nat
  /\ recoder \in [Threads -> Seq(Change)]
  /\ saves \in [Threads -> Seq([Keys -> Entry])]
  /\ pc \in [Threads -> Labels]
  /\ op \in [Threads -> Op]

Init ==
  /\ data = [k \in Keys |-> NoEntry]
  /\ readOnly = FALSE
  /\ readers = {} /\ writer = {}
  /\ capacity = 0
  /\ recoder = [t \in Threads |-> <<>>]
  /\ saves = [t \in Threads |-> <<>>]
  /\ pc = [t \in Threads |-> "idle"]
  /\ op = [t \in Threads |-> NoOp]
-----------------------------------------------------------------------------
(***************************************************************************)
(* The scheduling of the callers, which is not in this repository.  Calls   *)
(* that run in parallel do not touch each other's rows ("exclusive"), or    *)
(* they may read them ("one writer"), or there is no rule ("any").          *)
(***************************************************************************)
MayRead(t, k) == Scheduling = "exclusive" => Owner[k] \in {t, Shared}
MayWrite(t, k) == Scheduling # "any" => Owner[k] = t

\* m_dataMutex is a queuing_rw_mutex: who asks for it later waits behind a
\* thread that is queued for exclusive access.
SharedFreeAlways == TRUE
SharedFree == writer = {} /\ \A u \in Threads : pc[u] # "waiting"

Goto(t, label) == pc' = [pc EXCEPT ![t] = label]
-----------------------------------------------------------------------------
(***************************************************************************)
(* asyncGetRow, asyncGetRows and asyncGetPrimaryKeys.  asyncGetRow holds    *)
(* the mutex from the lookup to the answer of m_prev, the other two never   *)
(* take it.                                                                 *)
(***************************************************************************)
Reading(kind, ks) == [NoOp EXCEPT !.kind = kind, !.want = ks]

AsyncGetRow(t, k) ==
  /\ pc[t] = "idle" /\ MayRead(t, k) /\ SharedFree
  /\ \/ /\ data[k].status # "NONE"
        /\ op' = [op EXCEPT ![t] = [Reading("row", {k}) EXCEPT
                                      !.res[k] = FoundNormal(data[k])]]
        /\ Goto(t, "done")
        /\ UNCHANGED readers
     \/ /\ data[k].status = "NONE"
        /\ op' = [op EXCEPT ![t] = [Reading("row", {k}) EXCEPT !.miss = {k}]]
        /\ Goto(t, "prev")
        /\ readers' = readers \cup {t}
  /\ UNCHANGED <<rows, readOnly, writer, capacity>>

AsyncGetRows(t, ks) ==
  /\ pc[t] = "idle" /\ \A k \in ks : MayRead(t, k)
  /\ op' = [op EXCEPT ![t] = [Reading("rows", ks) EXCEPT !.todo = ks]]
  /\ Goto(t, "lookup")
  /\ UNCHANGED <<rows, readOnly, locks, capacity>>

\* Without m_enableTraverse the rows of m_data are not looked at.
AsyncGetPrimaryKeys(t, ks) ==
  /\ pc[t] = "idle" /\ \A k \in ks : MayRead(t, k)
  /\ op' = [op EXCEPT ![t] =
              IF EnableTraverse THEN [Reading("keys", ks) EXCEPT !.todo = ks]
                                ELSE [Reading("keys", ks) EXCEPT !.miss = ks]]
  /\ Goto(t, IF EnableTraverse THEN "lookup" ELSE "prev")
  /\ UNCHANGED <<rows, readOnly, locks, capacity>>

\* One key of asyncGetRows, or one element met by the scan for primary keys.
Lookup(t, k) ==
  /\ pc[t] = "lookup" /\ k \in op[t].todo
  /\ op' = IF data[k].status = "NONE"
           THEN [op EXCEPT ![t].todo = @ \ {k}, ![t].miss = @ \cup {k}]
           ELSE [op EXCEPT ![t].todo = @ \ {k}, ![t].res[k] = FoundNormal(data[k])]
  /\ UNCHANGED <<pc, rows, readOnly, locks, capacity>>

\* The scan for primary keys iterates over m_data without a lock.  What it meets
\* is undefined while another thread inserts or erases elements: it may pass one.
ScanMisses(t, k) ==
  /\ pc[t] = "lookup" /\ op[t].kind = "keys" /\ k \in op[t].todo
  /\ \E u \in Threads \ {t} : pc[u] # "idle"
  /\ op' = [op EXCEPT ![t].todo = @ \ {k}, ![t].miss = @ \cup {k}]
  /\ UNCHANGED <<pc, rows, readOnly, locks, capacity>>

\* The last key is done.  The rows are complete, or m_prev is asked for the
\* missing ones; m_prev is always asked for its primary keys.
LookedUp(t) ==
  /\ pc[t] = "lookup" /\ op[t].todo = {}
  /\ Goto(t, IF op[t].kind = "rows" /\ op[t].miss = {} THEN "done" ELSE "prev")
  /\ UNCHANGED <<op, rows, readOnly, locks, capacity>>

\* m_prev fails: the callback gets a ReadError.
PrevFailsLocked(t) ==
  /\ pc[t] = "prev"
  /\ op' = [op EXCEPT ![t].err = TRUE]
  /\ Goto(t, "done")
  /\ UNCHANGED <<rows, readOnly, locks, capacity>>
PrevFails(t) ==
  /\ pc[t] = "prev"
  /\ op' = [op EXCEPT ![t].err = TRUE]
  /\ readers' = readers \ {t}
  /\ Goto(t, "done")
  /\ UNCHANGED <<rows, readOnly, writer, capacity>>

\* m_prev answers.  The mutex is released before the rows it has are imported.
PrevAnswers(t) ==
  LET found == {k \in op[t].miss : PrevRow[k] # NoValue}
  IN  /\ pc[t] = "prev"
      /\ IF op[t].kind = "keys"
         THEN /\ op' = [op EXCEPT ![t].res =
                          [k \in Keys |-> IF k \in found THEN PrevEntry(k) ELSE @[k]]]
              /\ Goto(t, "done")
         ELSE /\ op' = [op EXCEPT ![t].todo = found]
              /\ Goto(t, IF found = {} THEN "done" ELSE "import")
      /\ readers' = readers \ {t}
      /\ UNCHANGED <<rows, readOnly, writer, capacity>>

\* importExistingEntry.  A read-only storage passes the entry on; when another
\* thread was first, the entry that is there is returned, whatever its status.
ImportedDirty(k) ==
  IF readOnly \/ data[k].status = "NONE" THEN [PrevEntry(k) EXCEPT !.dirty = TRUE] ELSE data[k]
Imported(k) == IF readOnly \/ data[k].status = "NONE" THEN PrevEntry(k) ELSE data[k]

Import(t, k) ==
  /\ pc[t] = "import" /\ k \in op[t].todo
  /\ data' = IF readOnly THEN data ELSE [data EXCEPT ![k] = Imported(k)]
  /\ op' = [op EXCEPT ![t].todo = @ \ {k}, ![t].res[k] = Imported(k)]
  /\ Goto(t, IF op[t].todo = {k} THEN "done" ELSE "import")
  /\ UNCHANGED <<recoder, saves, readOnly, locks, capacity>>

\* The caller's callback has run.
Return(t) ==
  /\ pc[t] = "done"
  /\ op' = [op EXCEPT ![t] = NoOp]
  /\ Goto(t, "idle")
  /\ UNCHANGED <<rows, readOnly, locks, capacity>>
-----------------------------------------------------------------------------
(***************************************************************************)
(* asyncSetRow.                                                             *)
(***************************************************************************)
\* Recoder::log, when the thread has a recorder installed.
Log(t, k, old) ==
  recoder' = IF saves[t] = <<>> THEN recoder
             ELSE [recoder EXCEPT ![t] =
                     Append(@, [rec |-> Len(saves[t]), key |-> k, old |-> old])]

Writing(k, e, old) ==
  [NoOp EXCEPT !.kind = "set", !.want = {k}, !.entry = e, !.cap = capacity,
               !.delta = Size[e.value] - Size[old.value]]

\* The entry in m_data once e is stored: PURGED erases it.
StoredAsIs(e) == e
Stored(e) == IF e.status = "PURGED" THEN NoEntry ELSE e

SetRefused(t, k, e) ==
  /\ readOnly
  /\ op' = [op EXCEPT ![t] = [Writing(k, e, NoEntry) EXCEPT !.err = TRUE]]
  /\ Goto(t, "done")
  /\ UNCHANGED <<rows, readers>>

\* The row is in m_data: it is replaced or erased while its accessor is held.
SetExistingKept(t, k, e) ==
  /\ ~readOnly /\ SharedFree /\ data[k].status # "NONE"
  /\ Log(t, k, data[k])
  /\ op' = [op EXCEPT ![t] = Writing(k, e, data[k])]
  /\ Goto(t, "count")
  /\ readers' = readers \cup {t}
  /\ UNCHANGED <<data, saves>>
SetExisting(t, k, e) ==
  /\ ~readOnly /\ SharedFree /\ data[k].status # "NONE"
  /\ data' = [data EXCEPT ![k] = Stored(e)]
  /\ Log(t, k, data[k])
  /\ op' = [op EXCEPT ![t] = Writing(k, e, data[k])]
  /\ Goto(t, "count")
  /\ readers' = readers \cup {t}
  /\ UNCHANGED saves

\* A row that is not in m_data is not purged, and nothing is recorded.
PurgeMissingLogged(t, k, e) ==
  /\ ~readOnly /\ SharedFree /\ data[k].status = "NONE" /\ e.status = "PURGED"
  /\ Log(t, k, NoEntry)
  /\ op' = [op EXCEPT ![t] = Writing(k, e, NoEntry)]
  /\ Goto(t, "done")
  /\ UNCHANGED <<data, saves, readers>>
PurgeMissing(t, k, e) ==
  /\ ~readOnly /\ SharedFree /\ data[k].status = "NONE" /\ e.status = "PURGED"
  /\ op' = [op EXCEPT ![t] = Writing(k, e, NoEntry)]
  /\ Goto(t, "done")
  /\ UNCHANGED <<rows, readers>>

SetMissing(t, k, e) ==
  /\ ~readOnly /\ SharedFree /\ data[k].status = "NONE" /\ e.status # "PURGED"
  /\ op' = [op EXCEPT ![t] = [Writing(k, e, NoEntry) EXCEPT !.todo = {k}]]
  /\ Goto(t, "emplace")
  /\ readers' = readers \cup {t}
  /\ UNCHANGED rows

AsyncSetRow(t, k, e) ==
  /\ pc[t] = "idle" /\ MayWrite(t, k)
  /\ Len(recoder[t]) < MaxLog
  /\ \/ SetRefused(t, k, e)
     \/ SetExisting(t, k, e)
     \/ PurgeMissing(t, k, e)
     \/ SetMissing(t, k, e)
  /\ UNCHANGED <<readOnly, writer, capacity>>

\* m_data.emplace: it keeps the entry another thread has put there since the
\* lookup.  The write is recorded and counted whether it took place or not.
Emplace(t, k) ==
  /\ pc[t] = "emplace" /\ k \in op[t].todo
  /\ data' = IF data[k].status = "NONE" THEN [data EXCEPT ![k] = op[t].entry] ELSE data
  /\ Log(t, k, NoEntry)
  /\ op' = [op EXCEPT ![t].todo = {}, ![t].cap = capacity]
  /\ Goto(t, "count")
  /\ UNCHANGED <<saves, readOnly, locks, capacity>>

\* m_capacity += updatedCapacity on a plain size_t: another thread's addition
\* since cap was read is overwritten.  Then the mutex is released.
Count(t) ==
  /\ pc[t] = "count"
  /\ capacity' = (op[t].cap + op[t].delta) % CapMod
  /\ readers' = readers \ {t}
  /\ Goto(t, "done")
  /\ UNCHANGED <<op, rows, readOnly, writer>>
-----------------------------------------------------------------------------
(***************************************************************************)
(* Recorders and rollback.  A caller keeps a stack of recorders, one for    *)
(* each nested contract call; the last one is installed.  rollback takes no *)
(* lock, and does nothing at all on a read-only storage.                    *)
(***************************************************************************)
\* setRecoder(newRecoder())
InstallRecoder(t) ==
  /\ pc[t] = "idle" /\ Len(saves[t]) < MaxSaves
  /\ saves' = [saves EXCEPT ![t] = Append(@, OwnOverlay(t))]
  /\ UNCHANGED <<data, recoder, readOnly, locks, capacity, pc, op>>

\* The outermost call is over: setRecoder(nullptr).
DropRecoders(t) ==
  /\ pc[t] = "idle" /\ saves[t] # <<>>
  /\ saves' = [saves EXCEPT ![t] = <<>>]
  /\ recoder' = [recoder EXCEPT ![t] = <<>>]
  /\ UNCHANGED <<data, readOnly, locks, capacity, pc, op>>

Rollback(t) ==
  /\ pc[t] = "idle" /\ saves[t] # <<>> /\ ~readOnly
  /\ Scheduling # "any" => \A u \in Threads : pc[u] \notin {"waiting", "traverse"}
  /\ Goto(t, "undo")
  /\ UNCHANGED <<rows, readOnly, locks, capacity, op>>

\* The change rollback handles next: the newest of the installed recorder.
LeftToUndo(t) == recoder[t] # <<>> /\ recoder[t][Len(recoder[t])].rec = Len(saves[t])
NextToUndo(t) == Len(recoder[t])
Undone(t) == recoder' = [recoder EXCEPT ![t] = SubSeq(@, 1, Len(@) - 1)]

\* The row is in m_data: it gets its old entry back, or is erased.
Undo(t) ==
  LET change == recoder[t][NextToUndo(t)]
  IN  /\ pc[t] = "undo" /\ LeftToUndo(t) /\ data[change.key].status # "NONE"
      /\ data' = [data EXCEPT ![change.key] = change.old]
      /\ Undone(t)
      /\ UNCHANGED <<saves, readOnly, locks, capacity, pc, op>>

\* The row is not in m_data and has to come back.
UndoErased(t) ==
  LET change == recoder[t][NextToUndo(t)]
  IN  /\ pc[t] = "undo" /\ LeftToUndo(t)
      /\ change.old.status # "NONE" /\ data[change.key].status = "NONE"
      /\ Goto(t, "reinsert")
      /\ UNCHANGED <<rows, readOnly, locks, capacity, op>>

\* m_data.emplace: it keeps what another thread has imported since the lookup.
ReinsertNothing(t) ==
  /\ pc[t] = "reinsert" /\ LeftToUndo(t)
  /\ Undone(t)
  /\ Goto(t, "undo")
  /\ UNCHANGED <<data, saves, readOnly, locks, capacity, op>>
Reinsert(t) ==
  LET change == recoder[t][NextToUndo(t)]
  IN  /\ pc[t] = "reinsert" /\ LeftToUndo(t)
      /\ data' = IF data[change.key].status = "NONE"
                 THEN [data EXCEPT ![change.key] = change.old] ELSE data
      /\ Undone(t)
      /\ Goto(t, "undo")
      /\ UNCHANGED <<saves, readOnly, locks, capacity, op>>

\* "Not found rollback entry": the row to erase is not there.
UndoThrows(t) ==
  LET change == recoder[t][NextToUndo(t)]
  IN  /\ pc[t] = "undo" /\ LeftToUndo(t)
      /\ change.old.status = "NONE" /\ data[change.key].status = "NONE"
      /\ Goto(t, "thrown")
      /\ UNCHANGED <<rows, readOnly, locks, capacity, op>>

\* rollback returns and the caller drops the recorder it has rolled back.
RolledBack(t) ==
  /\ pc[t] = "undo" /\ ~LeftToUndo(t)
  /\ saves' = [saves EXCEPT ![t] = SubSeq(@, 1, Len(@) - 1)]
  /\ Goto(t, "idle")
  /\ UNCHANGED <<data, recoder, readOnly, locks, capacity, op>>
-----------------------------------------------------------------------------
(***************************************************************************)
(* hash and parallelTraverse hold the mutex exclusively while they visit    *)
(* the rows.                                                                *)
(***************************************************************************)
Traverse(t) ==
  /\ pc[t] = "idle"
  /\ Scheduling # "any" => \A u \in Threads : pc[u] \notin {"undo", "reinsert"}
  /\ Goto(t, "waiting")
  /\ UNCHANGED <<rows, readOnly, locks, capacity, op>>

TraverseLocked(t) ==
  /\ pc[t] = "waiting" /\ readers = {} /\ writer = {}
  /\ writer' = {t}
  /\ Goto(t, "traverse")
  /\ UNCHANGED <<rows, readOnly, readers, capacity, op>>

TraverseDone(t) ==
  /\ pc[t] = "traverse"
  /\ writer' = writer \ {t}
  /\ Goto(t, "idle")
  /\ UNCHANGED <<rows, readOnly, readers, capacity, op>>

\* The block is finished, or (in the tests) writable again.
SetReadOnly(b) ==
  /\ readOnly # b
  /\ readOnly' = b
  /\ UNCHANGED <<rows, locks, capacity, pc, op>>
-----------------------------------------------------------------------------
\* What a thread that is inside an operation does next.
Step(t) ==
  \/ \E k \in Keys : Lookup(t, k) \/ ScanMisses(t, k) \/ Import(t, k) \/ Emplace(t, k)
  \/ LookedUp(t) \/ PrevFails(t) \/ PrevAnswers(t) \/ Count(t) \/ Return(t)
  \/ Undo(t) \/ UndoErased(t) \/ Reinsert(t) \/ UndoThrows(t) \/ RolledBack(t)
  \/ TraverseLocked(t) \/ TraverseDone(t)

Call(t) ==
  \/ \E k \in Keys : AsyncGetRow(t, k)
  \/ \E ks \in Batches : AsyncGetRows(t, ks) \/ AsyncGetPrimaryKeys(t, ks)
  \/ \E k \in Keys, e \in WrittenEntries : AsyncSetRow(t, k, e)
  \/ InstallRecoder(t) \/ DropRecoders(t) \/ Rollback(t) \/ Traverse(t)

Next == (\E t \in Threads : Call(t) \/ Step(t)) \/ \E b \in BOOLEAN : SetReadOnly(b)

Spec == Init /\ [][Next]_vars

\* Every thread that is inside an operation is scheduled, and m_prev answers:
\* StorageInterface requires each call to invoke its callback.  A queuing mutex
\* serves the threads that ask for it in their order.
FairSpec == /\ Spec
            /\ \A t \in Threads : WF_vars(Step(t)) /\ SF_vars(TraverseLocked(t))
-----------------------------------------------------------------------------
(***************************************************************************)
(* Properties.                                                              *)
(***************************************************************************)
\* Every clean row in m_data is m_prev's row, or an entry the caller of
\* asyncSetRow had not marked dirty: whatever reads, writes, rollbacks and
\* imports of any threads come before, what hash() and the commit leave out
\* (rows that are not dirty) is what the older storage already has, except for
\* what was written clean.
CleanRowsMatchPrev ==
  \A k \in Keys : ~data[k].dirty => data[k] \in {NoEntry, PrevEntry(k)} \cup UnsetEntries

\* When rollback has undone a recorder, every row the thread may write is, as
\* hash() and the commit see it, what it was when the recorder was installed:
\* through nested recorders, deletions, purges, re-insertions and the imports
\* that reads made in between, as long as no other thread reads these rows.
RollbackRestores ==
  \A t \in Threads : pc[t] = "undo" /\ ~LeftToUndo(t) =>
    OwnOverlay(t) = saves[t][Len(saves[t])]

\* rollback never fails with "Not found rollback entry".
RollbackNeverThrows == \A t \in Threads : pc[t] # "thrown"

\* A read of rows answers, for every key asked for, the last content written to
\* the row or else m_prev's, and never hands out an entry that marks a deletion.
\* (Of asyncGetPrimaryKeys nothing is claimed, see ScanMisses.)
ReadsReturnView ==
  \A t \in Threads :
    pc[t] = "done" /\ ~op[t].err /\ op[t].kind \in {"row", "rows"}
    => \A k \in op[t].want : /\ op[t].res[k].status # "DELETED"
                             /\ op[t].res[k].value = View(k)

\* When asyncSetRow reports success the row holds the entry that was written; a
\* purged row is gone, or a read has imported it again.
AckedWriteStored ==
  \A t \in Threads : pc[t] = "done" /\ op[t].kind = "set" /\ ~op[t].err =>
    \A k \in op[t].want : data[k] \in IF op[t].entry.status = "PURGED"
                                      THEN {NoEntry, PrevEntry(k)} ELSE {op[t].entry}

\* No row that hash() or the commit takes into account changes while one of
\* them visits the rows.
OverlayStable == [][writer # {} /\ writer' = writer => Overlay' = Overlay]_vars

\* A hash() or commit that waits for the mutex gets it, although readers keep
\* it while m_prev is asked and new calls keep coming.
TraverseProceeds ==
  \A t \in Threads : pc[t] = "waiting" ~> pc[t] = "traverse"

\* capacity() is the number of bytes of the rows written, when no call runs.
DirtyBytes ==
  MapThenFoldSet(+, 0, LAMBDA k : Size[Dirty(data[k]).value],
                 LAMBDA S : CHOOSE k \in S : TRUE, Keys)
CapacityIsDirtyBytes ==
  (\A t \in Threads : pc[t] = "idle") => capacity = DirtyBytes % CapMod
=============================================================================

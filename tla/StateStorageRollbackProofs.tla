--------------------- MODULE StateStorageRollbackProofs ---------------------
(***************************************************************************)
(* Rollback, for any threads, rows, contents, older storage and bounds: it  *)
(* restores as long as the threads keep off each other's rows, and it finds *)
(* its rows as long as no row is written by two threads.                    *)
(***************************************************************************)
EXTENDS StateStorageProofs


\* A row that asyncSetRow is about to insert has not been written since it was
\* looked up, though another thread may have imported it.
InsertOK(t) ==
  pc[t] = "emplace" =>
    \A k \in op[t].todo :
      /\ Owner[k] = t /\ ~data[k].dirty
      /\ \A j \in Changes(t) :
           KeyOf(t, j) = k /\ Newest(recoder[t], j) => OldOf(t, j).status # "NONE"

\* The row rollback is about to insert is still missing.
ReinsertOK(t) ==
  pc[t] = "reinsert" => /\ recoder[t] # <<>>
                        /\ data[recoder[t][Len(recoder[t])].key].status = "NONE"

LogOK(t) ==
  /\ Undoable(t, recoder[t], saves[t], data)
  /\ InsertOK(t) /\ ReinsertOK(t)
  /\ pc[t] \in {"undo", "reinsert"} => saves[t] # <<>>

\* The rows a thread is reading are rows that no other thread writes.
ReadsOwn(t) ==
  pc[t] \in {"lookup", "prev", "import"} =>
    \A k \in op[t].todo \cup op[t].miss : Owner[k] \in {t, Shared}

RollbackInv == /\ CleanInv /\ RollbackNeverThrows
               /\ \A t \in Threads : LogOK(t) /\ ReadsOwn(t)
-----------------------------------------------------------------------------
(***************************************************************************)
(* The invariant along the steps.                                           *)
(***************************************************************************)
\* A step that leaves rows and recorders alone, and starts no insertion.
Quiet ==
  /\ UNCHANGED <<data, recoder, saves>>
  /\ \A u \in Threads :
       /\ pc'[u] = "emplace" => pc[u] = "emplace" /\ op'[u].todo = op[u].todo
       /\ pc'[u] = "reinsert" => pc[u] = "reinsert"
       /\ pc'[u] = "undo" => pc[u] = "undo" \/ saves[u] # <<>>
       /\ pc'[u] = "thrown" => pc[u] = "thrown"

LEMMA StepKinds ==
  ASSUME TypeInv, [Next]_vars
  PROVE  \/ Quiet
         \/ \E t \in Threads, k \in Keys : Import(t, k) \/ Emplace(t, k)
         \/ \E t \in Threads, k \in Keys, e \in WrittenEntries :
              /\ pc[t] = "idle" /\ MayWrite(t, k)
              /\ SetExisting(t, k, e) \/ SetMissing(t, k, e)
         \/ \E t \in Threads : \/ Undo(t) \/ UndoErased(t) \/ Reinsert(t)
                               \/ UndoThrows(t) \/ RolledBack(t)
                               \/ InstallRecoder(t) \/ DropRecoders(t)
<1>0. pc \in [Threads -> Labels] /\ op \in [Threads -> Op]
  BY DEF TypeInv, TypeOK
<1> USE <1>0 DEF rows, Goto
<1>1. ASSUME NEW t \in Threads, NEW k \in Keys, AsyncGetRow(t, k) PROVE Quiet
  BY <1>1 DEF AsyncGetRow, Quiet
<1>2. ASSUME NEW t \in Threads, NEW ks \in Batches,
             AsyncGetRows(t, ks) \/ AsyncGetPrimaryKeys(t, ks)
      PROVE  Quiet
  BY <1>2 DEF AsyncGetRows, AsyncGetPrimaryKeys, Quiet
<1>3. ASSUME NEW t \in Threads, NEW k \in Keys, NEW e \in WrittenEntries,
             AsyncSetRow(t, k, e)
      PROVE  \/ Quiet
             \/ /\ pc[t] = "idle" /\ MayWrite(t, k)
                /\ SetExisting(t, k, e) \/ SetMissing(t, k, e)
  BY <1>3, SMTT(30) DEF AsyncSetRow, SetRefused, PurgeMissing, Quiet
<1>4. ASSUME NEW t \in Threads, Rollback(t) \/ Traverse(t) PROVE Quiet
  BY <1>4 DEF Rollback, Traverse, Quiet
<1>5. ASSUME NEW t \in Threads, NEW k \in Keys, Lookup(t, k) \/ ScanMisses(t, k) PROVE Quiet
  BY <1>5 DEF Lookup, ScanMisses, Quiet
<1>6. ASSUME NEW t \in Threads, LookedUp(t) \/ PrevFails(t) \/ Count(t) \/ Return(t)
      PROVE  Quiet
  BY <1>6 DEF LookedUp, PrevFails, Count, Return, Quiet
<1>7. ASSUME NEW t \in Threads, PrevAnswers(t) PROVE Quiet
  BY <1>7 DEF PrevAnswers, Quiet
<1>8. ASSUME NEW t \in Threads, TraverseLocked(t) \/ TraverseDone(t) PROVE Quiet
  BY <1>8 DEF TraverseLocked, TraverseDone, Quiet
<1>9. ASSUME NEW b \in BOOLEAN, SetReadOnly(b) PROVE Quiet
  BY <1>9, SMTT(30) DEF SetReadOnly, Quiet
<1>10. CASE UNCHANGED vars
  BY <1>10, SMTT(30) DEF vars, Quiet
<1> QED
  BY <1>1, <1>2, <1>3, <1>4, <1>5, <1>6, <1>7, <1>8, <1>9, <1>10, SMTT(30)
  DEF Next, Call, Step

\* A thread whose rows, recorders and pending insertions stay as they are.
\* (Only a row that is looked up before it is inserted may have been imported.)
LEMMA LogOKFrame ==
  ASSUME TypeInv, NEW u \in Threads, LogOK(u),
         recoder'[u] = recoder[u], saves'[u] = saves[u],
         pc'[u] = "emplace" => pc[u] = "emplace" /\ op'[u].todo = op[u].todo,
         pc'[u] = "reinsert" => pc[u] = "reinsert" /\ \A k \in Keys :
                                  Owner[k] = u => data'[k] = data[k],
         pc'[u] = "undo" => pc[u] = "undo" \/ saves[u] # <<>>,
         \A k \in Keys : Owner[k] = u =>
           /\ Dirty(data'[k]) = Dirty(data[k])
           /\ data[k].status # "NONE" => data'[k].status # "NONE"
           /\ ~data[k].dirty => ~data'[k].dirty
  PROVE  LogOK(u)'
<1>1. recoder[u] \in Seq(Change) /\ saves[u] \in Seq([Keys -> Entry])
  BY SMTT(30) DEF TypeInv, TypeOK
<1>2. Undoable(u, recoder[u], saves[u], data')
  BY <1>1, UndoableFrame, SMTT(30) DEF LogOK
<1>3. Undoable(u, recoder[u], saves[u], data)'
  BY <1>2
<1>4. InsertOK(u)'
  <2>1. pc[u] = "emplace" => op[u].todo \subseteq Keys
    BY SMTT(30) DEF TypeInv, TypeOK, Op
  <2> QED
    BY <2>1, SMTT(30) DEF LogOK, InsertOK, Changes, KeyOf, OldOf
<1>5. ReinsertOK(u)'
  <2> SUFFICES ASSUME pc'[u] = "reinsert"
               PROVE  /\ recoder[u] # <<>>
                      /\ data'[recoder[u][Len(recoder[u])].key].status = "NONE"
    BY ZenonT(30) DEF ReinsertOK
  <2>1. /\ pc[u] = "reinsert" /\ recoder[u] # <<>>
        /\ data[recoder[u][Len(recoder[u])].key].status = "NONE"
    BY SMTT(30) DEF LogOK, ReinsertOK
  <2>2. PICK n \in Nat \ {0} : n = Len(recoder[u])
    BY <1>1, <2>1, EmptySeq
  <2>3. recoder[u][n] \in Change /\ Owner[recoder[u][n].key] = u
    BY <1>1, <2>2, ElementOfSeq, SMTT(30) DEF LogOK, Undoable, Levels
  <2> QED
    BY <2>1, <2>2, <2>3, SMTT(30) DEF Change
<1> QED
  BY <1>3, <1>4, <1>5, SMTT(30) DEF LogOK

\* The log of a thread that a step leaves alone, as it does every row.
LEMMA LogOKSame ==
  ASSUME TypeInv, NEW u \in Threads, LogOK(u), data' = data,
         recoder'[u] = recoder[u], saves'[u] = saves[u], pc'[u] = pc[u], op'[u] = op[u]
  PROVE  LogOK(u)'
  BY LogOKFrame, ZenonT(30)

\* A write by the owner of the row, recorded if a recorder is installed.
LEMMA LogOKWrite ==
  ASSUME TypeInv, NEW t \in Threads, LogOK(t), NEW k \in Keys, Owner[k] = t,
         NEW old \in StoredEntry, Log(t, k, old), saves' = saves, pc'[t] = "count",
         Dirty(old) = Dirty(data[k]),
         old.status = "NONE" => data'[k].status # "NONE",
         \A j \in Keys \ {k} : data'[j] = data[j],
         Follows(recoder[t], k, old)
  PROVE  LogOK(t)'
<1>1. recoder[t] \in Seq(Change) /\ saves[t] \in Seq([Keys -> Entry])
  BY DEF TypeInv, TypeOK
<1>2. Undoable(t, recoder[t], saves[t], data)
  BY SMTT(30) DEF LogOK
<1>3. Undoable(t, recoder'[t], saves[t], data')
  <2>1. CASE saves[t] = <<>>
    <3>1. Len(saves[t]) = 0 /\ Len(recoder[t]) \in Nat
      BY <1>1, <2>1, EmptySeq, LenProperties
    <3>2. Len(recoder[t]) = 0
      <4>1. \A j \in 1 .. Len(recoder[t]) : recoder[t][j].rec \in 1 .. Len(saves[t])
        BY <1>2, SMTT(30) DEF Undoable, Levels
      <4> QED
        BY <3>1, <4>1, SMTT(30)
    <3>3. recoder'[t] = recoder[t]
      BY <2>1, LogAppends, ZenonT(30)
    <3> QED
      BY <3>1, <3>2, <3>3, UndoableEmpty
  <2>2. CASE saves[t] # <<>>
    <3>1. Pushed(recoder[t], recoder'[t], saves[t], k, old)
      BY <2>2, LogAppends, ZenonT(30) DEF Pushed, Changes
    <3>2. Overwritten(data, data', k, old)
      BY SMTT(30) DEF Overwritten
    <3> QED
      BY <1>1, <1>2, <2>2, <3>1, <3>2, UndoablePush, ZenonT(30)
  <2> QED
    BY <2>1, <2>2, SMTT(30)
<1>4. Undoable(t, recoder[t], saves[t], data)'
  BY <1>3
<1> QED
  BY <1>4, SMTT(30) DEF LogOK, InsertOK, ReinsertOK

LEMMA ReadsOwnStep ==
  ASSUME Scheduling = "exclusive", TypeInv, \A u \in Threads : ReadsOwn(u), [Next]_vars
  PROVE  \A u \in Threads : ReadsOwn(u)'
<1>0. pc \in [Threads -> Labels] /\ op \in [Threads -> Op]
  BY DEF TypeInv, TypeOK
<1> USE <1>0 DEF Goto
<1> DEFINE Others(t) == \A u \in Threads \ {t} : pc'[u] = pc[u] /\ op'[u] = op[u]
           Reads(label) == label \in {"lookup", "prev", "import"}
           Asks(t) == op'[t].todo \cup op'[t].miss
<1>1. SUFFICES \/ pc' = pc /\ op' = op
               \/ \E t \in Threads : Others(t) /\
                    \/ ~Reads(pc'[t])
                    \/ Reads(pc[t]) /\ Asks(t) \subseteq op[t].todo \cup op[t].miss
                    \/ \A k \in Asks(t) : Owner[k] \in {t, Shared}
  BY SMTT(30) DEF ReadsOwn
<1>2. ASSUME NEW t \in Threads, NEW k \in Keys, AsyncGetRow(t, k)
      PROVE  Others(t) /\ \A q \in Asks(t) : Owner[q] \in {t, Shared}
  <2>1. Others(t) /\ Owner[k] \in {t, Shared}
    BY <1>2, SMTT(30) DEF AsyncGetRow, MayRead
  <2>2. op'[t].todo = {} /\ op'[t].miss \subseteq {k}
    <3>1. CASE op' = [op EXCEPT ![t] = [Reading("row", {k}) EXCEPT !.miss = {k}]]
      BY <3>1 DEF Reading, NoOp
    <3>2. CASE op' = [op EXCEPT ![t] = [Reading("row", {k}) EXCEPT
                                          !.res[k] = FoundNormal(data[k])]]
      BY <3>2 DEF Reading, NoOp
    <3> QED
      BY <1>2, <3>1, <3>2, SMTT(30) DEF AsyncGetRow
  <2> QED
    BY <2>1, <2>2
<1>3. ASSUME NEW t \in Threads, NEW ks \in Batches,
             AsyncGetRows(t, ks) \/ AsyncGetPrimaryKeys(t, ks)
      PROVE  Others(t) /\ \A q \in Asks(t) : Owner[q] \in {t, Shared}
  <2>1. Others(t) /\ \A q \in ks : Owner[q] \in {t, Shared}
    BY <1>3, SMTT(30) DEF AsyncGetRows, AsyncGetPrimaryKeys, MayRead
  <2>2. op'[t].todo \cup op'[t].miss \subseteq ks
    <3>1. ASSUME NEW kind, op' = [op EXCEPT ![t] = [Reading(kind, ks) EXCEPT !.todo = ks]]
          PROVE  op'[t].todo \cup op'[t].miss \subseteq ks
      BY <3>1 DEF Reading, NoOp
    <3>2. ASSUME NEW kind, op' = [op EXCEPT ![t] = [Reading(kind, ks) EXCEPT !.miss = ks]]
          PROVE  op'[t].todo \cup op'[t].miss \subseteq ks
      BY <3>2 DEF Reading, NoOp
    <3> QED
      BY <1>3, <3>1, <3>2 DEF AsyncGetRows, AsyncGetPrimaryKeys
  <2> QED
    BY <2>1, <2>2
<1>4. ASSUME NEW t \in Threads, NEW k \in Keys, NEW e \in WrittenEntries,
             AsyncSetRow(t, k, e)
      PROVE  Others(t) /\ ~Reads(pc'[t])
  BY <1>4, SMTT(30)
  DEF AsyncSetRow, SetRefused, SetExisting, PurgeMissing, SetMissing
<1>5. ASSUME NEW t \in Threads, InstallRecoder(t) \/ DropRecoders(t) \/ Undo(t)
      PROVE  pc' = pc /\ op' = op
  BY <1>5, SMTT(30) DEF InstallRecoder, DropRecoders, Undo
<1>6. ASSUME NEW t \in Threads,
             \/ Rollback(t) \/ Traverse(t) \/ PrevFails(t) \/ Count(t) \/ Return(t)
             \/ UndoErased(t) \/ Reinsert(t) \/ UndoThrows(t) \/ RolledBack(t)
             \/ TraverseLocked(t) \/ TraverseDone(t)
             \/ \E k \in Keys : Emplace(t, k)
      PROVE  Others(t) /\ ~Reads(pc'[t])
  BY <1>6, SMTT(30)
  DEF Rollback, Traverse, PrevFails, Count, Return, UndoErased, Reinsert, UndoThrows,
      RolledBack, TraverseLocked, TraverseDone, Emplace
<1>7. ASSUME NEW t \in Threads, NEW k \in Keys,
             Lookup(t, k) \/ ScanMisses(t, k) \/ Import(t, k)
      PROVE  Others(t) /\ Reads(pc[t]) /\ Asks(t) \subseteq op[t].todo \cup op[t].miss
  BY <1>7, SMTT(30) DEF Lookup, ScanMisses, Import, Op
<1>8. ASSUME NEW t \in Threads, LookedUp(t) \/ PrevAnswers(t)
      PROVE  Others(t) /\ Reads(pc[t]) /\ Asks(t) \subseteq op[t].todo \cup op[t].miss
  <2>1. CASE LookedUp(t)
    BY <2>1, SMTT(30) DEF LookedUp
  <2>2. CASE PrevAnswers(t)
    <3>1. Others(t) /\ Reads(pc[t])
      BY <2>2, SMTT(30) DEF PrevAnswers
    <3>2. CASE op[t].kind = "keys"
      <4>1. op'[t].todo = op[t].todo /\ op'[t].miss = op[t].miss
        BY <2>2, <3>2, SMTT(30) DEF PrevAnswers, Op
      <4> QED
        BY <3>1, <4>1
    <3>3. CASE op[t].kind # "keys"
      <4>1. op'[t].todo \subseteq op[t].miss /\ op'[t].miss = op[t].miss
        BY <2>2, <3>3, SMTT(30) DEF PrevAnswers, Op
      <4> QED
        BY <3>1, <4>1
    <3> QED
      BY <3>2, <3>3
  <2> QED
    BY <1>8, <2>1, <2>2
<1>9. ASSUME NEW b \in BOOLEAN, SetReadOnly(b) PROVE pc' = pc /\ op' = op
  BY <1>9 DEF SetReadOnly
<1>10. CASE UNCHANGED vars
  BY <1>10 DEF vars
<1> HIDE DEF Others, Reads, Asks
<1> QED
  BY <1>2, <1>3, <1>4, <1>5, <1>6, <1>7, <1>8, <1>9, <1>10, ZenonT(30)
  DEF Next, Call, Step

LEMMA RollbackInit == Init => RollbackInv
<1> SUFFICES ASSUME Init PROVE RollbackInv
  OBVIOUS
<1>1. ASSUME NEW t \in Threads PROVE LogOK(t) /\ ReadsOwn(t)
  <2>1. Len(recoder[t]) = 0 /\ Len(saves[t]) = 0 /\ pc[t] = "idle"
    BY EmptySeq DEF Init
  <2> QED
    BY <2>1, UndoableEmpty DEF LogOK, InsertOK, ReinsertOK, ReadsOwn
<1> QED
  BY <1>1, CleanInit, SMTT(30) DEF RollbackInv, RollbackNeverThrows, Init

LEMMA RollbackStep ==
  ASSUME Scheduling = "exclusive"
  PROVE  RollbackInv /\ [Next]_vars => RollbackInv'
<1> SUFFICES ASSUME RollbackInv, [Next]_vars PROVE RollbackInv'
  OBVIOUS
<1>1. /\ TypeInv /\ CleanInv /\ CleanInv' /\ RollbackNeverThrows
      /\ \A u \in Threads : LogOK(u)
      /\ \A u \in Threads : ReadsOwn(u)
  BY CleanStep DEF RollbackInv, CleanInv
<1>2. /\ data \in [Keys -> StoredEntry] /\ pc \in [Threads -> Labels]
      /\ op \in [Threads -> Op]
      /\ recoder \in [Threads -> Seq(Change)] /\ saves \in [Threads -> Seq([Keys -> Entry])]
  BY <1>1 DEF TypeInv, TypeOK
<1>3. NoEntry.status = "NONE" /\ NoEntry.dirty = FALSE /\ NoEntry \in StoredEntry
  BY EntryFacts DEF NoEntry
<1> SUFFICES RollbackNeverThrows' /\ \A u \in Threads : LogOK(u)'
  BY <1>1, ReadsOwnStep DEF RollbackInv
<1>4. CASE Quiet
  <2>1. RollbackNeverThrows'
    BY <1>1, <1>4, SMTT(30) DEF Quiet, RollbackNeverThrows
  <2>2. ASSUME NEW u \in Threads PROVE LogOK(u)'
    BY <1>1, <1>4, LogOKFrame, SMTT(30) DEF Quiet
  <2> QED
    BY <2>1, <2>2
<1>5. ASSUME NEW t \in Threads, NEW k \in Keys, Import(t, k)
      PROVE  RollbackNeverThrows' /\ \A u \in Threads : LogOK(u)'
  <2>1. RollbackNeverThrows'
    BY <1>1, <1>2, <1>5 DEF Import, Goto, RollbackNeverThrows
  <2>2. \A q \in Keys : /\ Dirty(data'[q]) = Dirty(data[q])
                        /\ data[q].status # "NONE" => data'[q].status # "NONE"
                        /\ ~data[q].dirty => ~data'[q].dirty
    <3>1. \A q \in Keys : \/ data'[q] = data[q]
                          \/ q = k /\ data[k].status = "NONE" /\ data'[k] = PrevEntry(k)
      <4>1. data' = data \/ (data' = [data EXCEPT ![k] = Imported(k)] /\ ~readOnly)
        BY <1>5, ZenonT(30) DEF Import
      <4>2. ~readOnly => Imported(k) \in {data[k], PrevEntry(k)}
        BY DEF Imported
      <4>3. ~readOnly /\ Imported(k) # data[k] => data[k].status = "NONE"
        BY DEF Imported
      <4> HIDE DEF Imported
      <4> QED
        BY <1>2, <4>1, <4>2, <4>3, SMTT(30)
    <3>2. data[k].status = "NONE" => ~data[k].dirty
      <4>1. data[k].status = "NONE" => data[k] = NoEntry
        BY <1>2, ZenonT(30) DEF StoredEntry
      <4> QED
        BY <1>3, <4>1
    <3>3. ~PrevEntry(k).dirty
      BY DEF PrevEntry, NoEntry
    <3> QED
      BY <3>1, <3>2, <3>3 DEF Dirty
  <2>3. ASSUME NEW u \in Threads PROVE LogOK(u)'
    <3>1. /\ recoder'[u] = recoder[u] /\ saves'[u] = saves[u]
          /\ pc'[u] = "emplace" => pc[u] = "emplace" /\ op'[u].todo = op[u].todo
          /\ pc'[u] = "undo" => pc[u] = "undo"
          /\ pc'[u] = "reinsert" => pc[u] = "reinsert" /\ u # t
      BY <1>2, <1>5 DEF Import, Goto
    <3>2. Owner[k] \in {t, Shared}
      BY <1>1, <1>5, SMTT(30) DEF Import, ReadsOwn
    <3>3. u # t => \A q \in Keys : Owner[q] = u => data'[q] = data[q]
      BY <1>2, <1>5, <3>2, ConstantsAssumption, SMTT(30) DEF Import
    <3> QED
      BY <1>1, <2>2, <3>1, <3>3, LogOKFrame
  <2> QED
    BY <2>1, <2>3
<1>6. ASSUME NEW t \in Threads, NEW k \in Keys, Emplace(t, k)
      PROVE  RollbackNeverThrows' /\ \A u \in Threads : LogOK(u)'
  <2>1. /\ pc' = [pc EXCEPT ![t] = "count"] /\ saves' = saves /\ Log(t, k, NoEntry)
        /\ \A u \in Threads \ {t} : op'[u] = op[u]
        /\ data' = IF data[k].status = "NONE"
                   THEN [data EXCEPT ![k] = op[t].entry] ELSE data
    BY <1>2, <1>6 DEF Emplace, Goto
  <2>2. /\ Owner[k] = t /\ ~data[k].dirty
        /\ \A j \in Changes(t) :
             KeyOf(t, j) = k /\ Newest(recoder[t], j) => OldOf(t, j).status # "NONE"
    BY <1>1, <1>6, SMTT(30) DEF Emplace, LogOK, InsertOK
  <2>3. RollbackNeverThrows'
    BY <1>1, <1>2, <2>1, SMTT(30) DEF RollbackNeverThrows
  <2>4. LogOK(t)'
    <3>1. Follows(recoder[t], k, NoEntry)
      BY <2>2 DEF Follows, Changes, KeyOf, OldOf
    <3>2. Dirty(NoEntry) = Dirty(data[k])
      BY <1>3, <2>2 DEF Dirty
    <3>3. op[t].entry.status # "NONE"
      BY <1>1, <1>6 DEF Emplace, TypeInv, EmplaceTyped, Insertable
    <3>4. data'[k].status # "NONE" /\ \A j \in Keys \ {k} : data'[j] = data[j]
      BY <1>2, <2>1, <3>3
    <3>5. pc'[t] = "count"
      BY <1>2, <2>1, SMTT(30)
    <3> QED
      BY <1>1, <1>3, <2>1, <2>2, <3>1, <3>2, <3>4, <3>5, LogOKWrite, ZenonT(30)
  <2>5. ASSUME NEW u \in Threads, u # t PROVE LogOK(u)'
    <3>1. /\ recoder'[u] = recoder[u] /\ saves'[u] = saves[u]
          /\ pc'[u] = pc[u] /\ op'[u] = op[u]
      BY <1>1, <1>2, <1>3, <2>1, <2>5, LogAppends, ZenonT(30)
    <3>2. \A q \in Keys : Owner[q] = u => data'[q] = data[q]
      BY <1>2, <2>1, <2>2, <2>5
    <3> QED
      BY <1>1, <3>1, <3>2, LogOKFrame, SMTT(30)
  <2> QED
    BY <2>3, <2>4, <2>5
<1>7. ASSUME NEW t \in Threads, NEW k \in Keys, NEW e \in WrittenEntries,
             pc[t] = "idle", MayWrite(t, k), SetExisting(t, k, e)
      PROVE  RollbackNeverThrows' /\ \A u \in Threads : LogOK(u)'
  <2>1. /\ pc' = [pc EXCEPT ![t] = "count"] /\ saves' = saves /\ Log(t, k, data[k])
        /\ \A u \in Threads \ {t} : op'[u] = op[u]
        /\ data' = [data EXCEPT ![k] = Stored(e)] /\ data[k].status # "NONE"
    BY <1>2, <1>7 DEF SetExisting, Goto
  <2>2. Owner[k] = t
    BY <1>7 DEF MayWrite
  <2>3. RollbackNeverThrows'
    BY <1>1, <1>2, <2>1, SMTT(30) DEF RollbackNeverThrows
  <2>4. LogOK(t)'
    <3>1. Follows(recoder[t], k, data[k]) /\ data[k] \in StoredEntry
      BY <1>2, <2>1 DEF Follows
    <3>2. pc'[t] = "count" /\ \A j \in Keys \ {k} : data'[j] = data[j]
      BY <1>2, <2>1
    <3> QED
      BY <1>1, <2>1, <2>2, <3>1, <3>2, LogOKWrite, SMTT(30)
  <2>5. ASSUME NEW u \in Threads, u # t PROVE LogOK(u)'
    <3>1. /\ recoder'[u] = recoder[u] /\ saves'[u] = saves[u]
          /\ pc'[u] = pc[u] /\ op'[u] = op[u]
      BY <1>1, <1>2, <2>1, <2>5, LogAppends, ZenonT(30)
    <3>2. \A q \in Keys : Owner[q] = u => data'[q] = data[q]
      BY <1>2, <2>1, <2>2, <2>5
    <3> QED
      BY <1>1, <3>1, <3>2, LogOKFrame, SMTT(30)
  <2> QED
    BY <2>3, <2>4, <2>5
<1>8. ASSUME NEW t \in Threads, NEW k \in Keys, NEW e \in WrittenEntries,
             pc[t] = "idle", MayWrite(t, k), SetMissing(t, k, e)
      PROVE  RollbackNeverThrows' /\ \A u \in Threads : LogOK(u)'
  <2>1. /\ pc' = [pc EXCEPT ![t] = "emplace"] /\ UNCHANGED <<data, recoder, saves>>
        /\ \A u \in Threads \ {t} : op'[u] = op[u]
        /\ op'[t].todo = {k} /\ data[k].status = "NONE"
    BY <1>2, <1>8 DEF SetMissing, Goto, rows, Writing, NoOp
  <2>2. Owner[k] = t
    BY <1>8 DEF MayWrite
  <2>3. RollbackNeverThrows'
    BY <1>1, <1>2, <2>1 DEF RollbackNeverThrows
  <2>4. LogOK(t)'
    <3>1. data[k] = NoEntry
      BY <1>2, <2>1, ZenonT(30) DEF StoredEntry
    <3>2. ASSUME NEW j \in Changes(t), KeyOf(t, j) = k, Newest(recoder[t], j)
          PROVE  OldOf(t, j).status # "NONE"
      BY <1>1, <2>1, <3>2, ZenonT(30) DEF LogOK, Undoable, Present, Changes, KeyOf, OldOf
    <3>3. InsertOK(t)'
      BY <1>3, <2>1, <2>2, <3>1, <3>2, ZenonT(30) DEF InsertOK, Changes, KeyOf, OldOf
    <3>4. Undoable(t, recoder[t], saves[t], data)'
      BY <1>1, <2>1, SMTT(30) DEF LogOK
    <3> QED
      BY <1>2, <2>1, <3>3, <3>4, SMTT(30) DEF LogOK, ReinsertOK
  <2>5. ASSUME NEW u \in Threads, u # t PROVE LogOK(u)'
    BY <1>1, <1>2, <2>1, <2>5, LogOKFrame, ZenonT(30)
  <2> QED
    BY <2>3, <2>4, <2>5
<1>9. ASSUME NEW t \in Threads, Undo(t) \/ Reinsert(t)
      PROVE  RollbackNeverThrows' /\ \A u \in Threads : LogOK(u)'
  <2> DEFINE n == Len(recoder[t])
  <2>1. /\ n \in Nat \ {0} /\ recoder[t][n] \in Change
        /\ RecOf(t, n) = Len(saves[t])
        /\ \A u \in Threads \ {t} : recoder'[u] = recoder[u]
        /\ Len(recoder'[t]) = n - 1
        /\ \A j \in 1 .. n - 1 : recoder'[t][j] = recoder[t][j]
        /\ data' = [data EXCEPT ![KeyOf(t, n)] = OldOf(t, n)]
    <3>1. ~(Reinsert(t) /\ data[KeyOf(t, n)].status # "NONE")
      BY <1>1, SMTT(30) DEF Reinsert, LogOK, ReinsertOK, KeyOf
    <3> QED
      BY <1>1, <1>9, <3>1, UndoPops, ZenonT(30)
  <2>2. /\ saves' = saves /\ op' = op /\ pc[t] \in {"undo", "reinsert"}
        /\ pc'[t] = "undo" /\ \A u \in Threads \ {t} : pc'[u] = pc[u]
    BY <1>2, <1>9, SMTT(30) DEF Undo, Reinsert, Goto
  <2>3. KeyOf(t, n) \in Keys /\ Owner[KeyOf(t, n)] = t
    <3>1. Levels(t, recoder[t], saves[t])
      BY <1>1, SMTT(30) DEF LogOK, Undoable
    <3>2. recoder[t][n].key \in Keys
      BY <2>1, SMTT(30) DEF Change
    <3>3. n \in 1 .. Len(recoder[t])
      BY <2>1
    <3>4. Owner[recoder[t][n].key] = t
      BY <3>1, <3>3, ZenonT(30) DEF Levels
    <3> QED
      BY <3>2, <3>4, SMTT(30) DEF KeyOf
  <2>4. RollbackNeverThrows'
    BY <1>1, <2>2, SMTT(30) DEF RollbackNeverThrows
  <2>5. LogOK(t)'
    <3>1. /\ recoder[t] \in Seq(Change) /\ saves[t] \in Seq([Keys -> Entry])
          /\ Undoable(t, recoder[t], saves[t], data)
      BY <1>1, <1>2, SMTT(30) DEF LogOK
    <3>2. recoder[t][Len(recoder[t])].rec = Len(saves[t])
      BY <2>1, SMTT(30) DEF RecOf
    <3>3. Popped(recoder[t], recoder'[t], data, data')
      <4>1. data' = [data EXCEPT ![recoder[t][n].key] = recoder[t][n].old]
        BY <2>1, ZenonT(30) DEF KeyOf, OldOf
      <4>2. recoder[t][n].key \in Keys
        BY <2>3, ZenonT(30) DEF KeyOf
      <4>3. /\ data'[recoder[t][n].key] = recoder[t][n].old
            /\ \A k \in Keys \ {recoder[t][n].key} : data'[k] = data[k]
        BY <1>2, <4>1, <4>2, SMTT(30)
      <4> QED
        BY <2>1, <4>3, ZenonT(30) DEF Popped
    <3>4. Undoable(t, recoder'[t], saves[t], data')
      BY <3>1, <3>2, <3>3, UndoablePop, SMTT(30)
    <3>5. Undoable(t, recoder[t], saves[t], data)'
      BY <2>2, <3>4
    <3> QED
      BY <1>1, <2>2, <3>5, SMTT(30) DEF LogOK, InsertOK, ReinsertOK
  <2>6. ASSUME NEW u \in Threads, u # t PROVE LogOK(u)'
    <3>1. recoder'[u] = recoder[u] /\ \A q \in Keys : Owner[q] = u => data'[q] = data[q]
      BY <1>2, <2>1, <2>3, <2>6, ZenonT(30)
    <3> QED
      BY <1>1, <2>2, <2>6, <3>1, LogOKFrame, SMTT(30)
  <2> QED
    BY <2>4, <2>5, <2>6
<1>10. ASSUME NEW t \in Threads, UndoThrows(t) PROVE FALSE
  <2> DEFINE n == Len(recoder[t])
  <2>1. /\ recoder[t] # <<>>
        /\ OldOf(t, n).status = "NONE" /\ data[KeyOf(t, n)].status = "NONE"
    BY <1>10 DEF UndoThrows, LeftToUndo, NextToUndo, OldOf, KeyOf
  <2>2. n \in Nat \ {0}
    BY <1>2, <2>1, EmptySeq
  <2>3. Newest(recoder[t], n)
    BY <2>2 DEF Newest
  <2> QED
    BY <1>1, <2>1, <2>2, <2>3, SMTT(30) DEF LogOK, Undoable, Present, OldOf, KeyOf
<1>11. ASSUME NEW t \in Threads, RolledBack(t)
       PROVE  RollbackNeverThrows' /\ \A u \in Threads : LogOK(u)'
  <2>1. /\ pc' = [pc EXCEPT ![t] = "idle"] /\ UNCHANGED <<data, recoder, op>>
        /\ saves' = [saves EXCEPT ![t] = SubSeq(@, 1, Len(@) - 1)]
        /\ saves[t] # <<>> /\ ~LeftToUndo(t)
    BY <1>1, <1>11 DEF RolledBack, Goto, LogOK
  <2>2. RollbackNeverThrows'
    BY <1>1, <1>2, <2>1, SMTT(30) DEF RollbackNeverThrows
  <2>3. LogOK(t)'
    <3>1. PICK L \in Nat \ {0} : L = Len(saves[t])
      BY <1>2, <2>1, EmptySeq
    <3>2. Len(saves'[t]) = L - 1 /\ \A i \in 1 .. L - 1 : saves'[t][i] = saves[t][i]
      BY <1>2, <2>1, <3>1, FrontFacts
    <3>3. NoChangeLeft(recoder[t], saves[t])
      BY <2>1 DEF LeftToUndo, NoChangeLeft
    <3>4. /\ recoder[t] \in Seq(Change) /\ saves[t] \in Seq([Keys -> Entry])
          /\ Undoable(t, recoder[t], saves[t], data)
      BY <1>1, <1>2, SMTT(30) DEF LogOK
    <3>5. Undoable(t, recoder[t], saves'[t], data)
      BY <3>1, <3>2, <3>3, <3>4, UndoableDone, ZenonT(30)
    <3>6. Undoable(t, recoder[t], saves[t], data)'
      BY <2>1, <3>5
    <3> QED
      BY <1>2, <2>1, <3>6 DEF LogOK, InsertOK, ReinsertOK
  <2>4. ASSUME NEW u \in Threads, u # t PROVE LogOK(u)'
    <3>1. pc'[u] = pc[u] /\ recoder'[u] = recoder[u] /\ saves'[u] = saves[u] /\ op'[u] = op[u]
      BY <1>2, <2>1, <2>4
    <3> QED
      BY <1>1, <2>1, <3>1, LogOKSame, ZenonT(30)
  <2> QED
    BY <2>2, <2>3, <2>4
<1>12. ASSUME NEW t \in Threads, InstallRecoder(t)
       PROVE  RollbackNeverThrows' /\ \A u \in Threads : LogOK(u)'
  <2>1. /\ UNCHANGED <<data, recoder, pc, op>> /\ pc[t] = "idle"
        /\ saves' = [saves EXCEPT ![t] = Append(@, OwnOverlay(t))]
    BY <1>12 DEF InstallRecoder
  <2>2. RollbackNeverThrows'
    BY <1>1, <2>1, SMTT(30) DEF RollbackNeverThrows
  <2>3. LogOK(t)'
    <3>1. OwnOverlay(t) \in [Keys -> Entry]
      BY <1>2, EntryFacts, SMTT(30) DEF OwnOverlay, Dirty
    <3>2. /\ Len(saves'[t]) = Len(saves[t]) + 1
          /\ \A i \in 1 .. Len(saves[t]) : saves'[t][i] = saves[t][i]
          /\ saves'[t][Len(saves[t]) + 1] = OwnOverlay(t)
      BY <1>2, <2>1, <3>1, AppendFacts
    <3>3. saves'[t][Len(saves[t]) + 1] =
            [k \in Keys |-> IF Owner[k] = t THEN Dirty(data[k]) ELSE NoEntry]
      BY <3>2, SMTT(30) DEF OwnOverlay
    <3>4. /\ recoder[t] \in Seq(Change) /\ saves[t] \in Seq([Keys -> Entry])
          /\ Undoable(t, recoder[t], saves[t], data)
      BY <1>1, <1>2, SMTT(30) DEF LogOK
    <3>5. Undoable(t, recoder[t], saves'[t], data)
      BY <3>2, <3>3, <3>4, UndoableInstall
    <3>6. Undoable(t, recoder[t], saves[t], data)'
      BY <2>1, <3>5
    <3> QED
      BY <1>2, <2>1, <3>6 DEF LogOK, InsertOK, ReinsertOK
  <2>4. ASSUME NEW u \in Threads, u # t PROVE LogOK(u)'
    <3>1. pc'[u] = pc[u] /\ recoder'[u] = recoder[u] /\ saves'[u] = saves[u] /\ op'[u] = op[u]
      BY <1>2, <2>1, <2>4
    <3> QED
      BY <1>1, <2>1, <3>1, LogOKSame, ZenonT(30)
  <2> QED
    BY <2>2, <2>3, <2>4
<1>13. ASSUME NEW t \in Threads, DropRecoders(t)
       PROVE  RollbackNeverThrows' /\ \A u \in Threads : LogOK(u)'
  <2>1. /\ UNCHANGED <<data, pc, op>> /\ pc[t] = "idle"
        /\ saves' = [saves EXCEPT ![t] = <<>>] /\ recoder' = [recoder EXCEPT ![t] = <<>>]
    BY <1>13 DEF DropRecoders
  <2>2. RollbackNeverThrows'
    BY <1>1, <2>1, SMTT(30) DEF RollbackNeverThrows
  <2>3. LogOK(t)'
    <3>1. Len(saves'[t]) = 0 /\ Len(recoder'[t]) = 0
      BY <1>2, <2>1, EmptySeq, SMTT(30)
    <3>2. Undoable(t, recoder'[t], saves'[t], data')
      BY <3>1, UndoableEmpty
    <3>3. Undoable(t, recoder[t], saves[t], data)'
      BY <3>2
    <3> QED
      BY <2>1, <3>3 DEF LogOK, InsertOK, ReinsertOK
  <2>4. ASSUME NEW u \in Threads, u # t PROVE LogOK(u)'
    <3>1. pc'[u] = pc[u] /\ recoder'[u] = recoder[u] /\ saves'[u] = saves[u] /\ op'[u] = op[u]
      BY <1>2, <2>1, <2>4, SMTT(30)
    <3> QED
      BY <1>1, <2>1, <3>1, LogOKSame, ZenonT(30)
  <2> QED
    BY <2>2, <2>3, <2>4
<1>14. ASSUME NEW t \in Threads, UndoErased(t)
       PROVE  RollbackNeverThrows' /\ \A u \in Threads : LogOK(u)'
  <2>1. /\ pc' = [pc EXCEPT ![t] = "reinsert"] /\ UNCHANGED <<data, recoder, saves, op>>
        /\ pc[t] = "undo" /\ recoder[t] # <<>>
        /\ data[recoder[t][Len(recoder[t])].key].status = "NONE"
    BY <1>14 DEF UndoErased, LeftToUndo, NextToUndo, Goto, rows
  <2>2. RollbackNeverThrows'
    BY <1>1, <1>2, <2>1, SMTT(30) DEF RollbackNeverThrows
  <2>3. LogOK(t)'
    <3>1. pc'[t] = "reinsert"
      BY <1>2, <2>1
    <3>2. Undoable(t, recoder[t], saves[t], data) /\ saves[t] # <<>>
      BY <1>1, <2>1, ZenonT(30) DEF LogOK
    <3>3. Undoable(t, recoder[t], saves[t], data)' /\ saves'[t] # <<>>
      BY <2>1, <3>2
    <3> QED
      BY <2>1, <3>1, <3>3, ZenonT(30) DEF LogOK, InsertOK, ReinsertOK
  <2>4. ASSUME NEW u \in Threads, u # t PROVE LogOK(u)'
    <3>1. pc'[u] = pc[u] /\ recoder'[u] = recoder[u] /\ saves'[u] = saves[u] /\ op'[u] = op[u]
      BY <1>2, <2>1, <2>4
    <3> QED
      BY <1>1, <2>1, <3>1, LogOKSame, ZenonT(30)
  <2> QED
    BY <2>2, <2>3, <2>4
<1> QED
  BY <1>1, <1>4, <1>5, <1>6, <1>7, <1>8, <1>9, <1>10, <1>11, <1>12, <1>13, <1>14, StepKinds

\* What the invariant says when rollback has no change left.
LEMMA RollbackInvRestores == RollbackInv => RollbackRestores
<1> SUFFICES ASSUME RollbackInv, NEW t \in Threads, pc[t] = "undo", ~LeftToUndo(t)
             PROVE  OwnOverlay(t) = saves[t][Len(saves[t])]
  BY DEF RollbackRestores
<1>1. /\ recoder[t] \in Seq(Change) /\ saves[t] \in Seq([Keys -> Entry])
      /\ Undoable(t, recoder[t], saves[t], data) /\ saves[t] # <<>>
  BY SMTT(30) DEF RollbackInv, LogOK, CleanInv, TypeInv, TypeOK
<1>2. NoChangeLeft(recoder[t], saves[t])
  BY <1>1, ZenonT(30) DEF LeftToUndo, NoChangeLeft
<1>3. \A k \in Keys : saves[t][Len(saves[t])][k] =
                        IF Owner[k] = t THEN Dirty(data[k]) ELSE NoEntry
  <2>1. AsSaved(t, saves[t], data)
    BY <1>1, <1>2, NoneLeft, ZenonT(30)
  <2> QED
    BY <2>1 DEF AsSaved
<1>4. PICK L \in Nat \ {0} : L = Len(saves[t])
  BY <1>1, EmptySeq
<1>5. saves[t][L] \in [Keys -> Entry]
  BY <1>1, <1>4, ElementOfSeq
<1> QED
  BY <1>3, <1>4, <1>5 DEF OwnOverlay

\* As long as threads that run in parallel keep off each other's rows, rollback
\* brings back what hash() and the commit saw of the thread's rows when the
\* recorder was installed, and never meets a row it has to erase and cannot
\* find: for any nesting of recorders, and any reads and imports of shared rows.
THEOREM RollbackCorrect ==
  ASSUME Scheduling = "exclusive"
  PROVE  Spec => [](RollbackRestores /\ RollbackNeverThrows)
<1>1. RollbackInv /\ [Next]_vars => RollbackInv'
  BY RollbackStep
<1>2. RollbackInv => RollbackRestores /\ RollbackNeverThrows
  BY RollbackInvRestores DEF RollbackInv
<1> QED
  BY <1>1, <1>2, RollbackInit, PTL DEF Spec
-----------------------------------------------------------------------------
(***************************************************************************)
(* That rollback finds the rows it has to erase needs less of the callers:  *)
(* others may read, and import, the rows a thread writes.                   *)
(***************************************************************************)
PresentOK(t) ==
  /\ Levels(t, recoder[t], saves[t]) /\ Present(recoder[t], data)
  /\ pc[t] = "emplace" =>
       \A k \in op[t].todo : Owner[k] = t /\ Follows(recoder[t], k, NoEntry)

FindsInv == TypeInv /\ RollbackNeverThrows /\ \A t \in Threads : PresentOK(t)

LEMMA PresentFrame ==
  ASSUME TypeInv, NEW u \in Threads, PresentOK(u),
         recoder'[u] = recoder[u], saves'[u] = saves[u],
         pc'[u] = "emplace" => pc[u] = "emplace" /\ op'[u].todo = op[u].todo,
         \A k \in Keys : Owner[k] = u /\ data[k].status # "NONE" => data'[k].status # "NONE"
  PROVE  PresentOK(u)'
<1>1. recoder[u] \in Seq(Change)
  BY DEF TypeInv, TypeOK
<1>2. \A j \in 1 .. Len(recoder[u]) : recoder[u][j].key \in Keys /\ Owner[recoder[u][j].key] = u
  <2>1. \A j \in 1 .. Len(recoder[u]) : recoder[u][j] \in Change
    BY <1>1, ElementOfSeq, SMTT(30)
  <2> QED
    BY <2>1 DEF PresentOK, Levels, Change
<1>3. Present(recoder[u], data')
  BY <1>2, SMTT(30) DEF PresentOK, Present
<1>4. Present(recoder[u], data)'
  BY <1>3
<1>5. Levels(u, recoder[u], saves[u])'
  BY DEF PresentOK
<1>6. pc'[u] = "emplace" =>
        \A k \in op'[u].todo : Owner[k] = u /\ Follows(recoder'[u], k, NoEntry)
  BY ZenonT(30) DEF PresentOK
<1> QED
  BY <1>4, <1>5, <1>6 DEF PresentOK

LEMMA PresentWrite ==
  ASSUME TypeInv, NEW t \in Threads, PresentOK(t), NEW k \in Keys, Owner[k] = t,
         NEW old \in StoredEntry, Log(t, k, old), saves' = saves, pc'[t] = "count",
         old.status = "NONE" => data'[k].status # "NONE",
         \A j \in Keys \ {k} : data'[j] = data[j],
         Follows(recoder[t], k, old)
  PROVE  PresentOK(t)'
<1>1. recoder[t] \in Seq(Change) /\ saves[t] \in Seq([Keys -> Entry])
  BY SMTT(30) DEF TypeInv, TypeOK
<1>2. Levels(t, recoder[t], saves[t]) /\ Present(recoder[t], data)
  BY SMTT(30) DEF PresentOK
<1>3. Levels(t, recoder'[t], saves[t]) /\ Present(recoder'[t], data')
  <2>1. CASE saves[t] = <<>>
    <3>1. Len(saves[t]) = 0 /\ Len(recoder[t]) \in Nat
      BY <1>1, <2>1, EmptySeq, LenProperties
    <3>2. Len(recoder[t]) = 0
      <4>1. \A j \in 1 .. Len(recoder[t]) : recoder[t][j].rec \in 1 .. Len(saves[t])
        BY <1>2 DEF Levels
      <4> QED
        BY <3>1, <4>1, SMTT(30)
    <3>3. recoder'[t] = recoder[t]
      BY <2>1, LogAppends, ZenonT(30)
    <3> QED
      BY <1>2, <3>2, <3>3, SMTT(30) DEF Present
  <2>2. CASE saves[t] # <<>>
    <3>1. Pushed(recoder[t], recoder'[t], saves[t], k, old)
      BY <2>2, LogAppends, ZenonT(30) DEF Pushed, Changes
    <3>2. Levels(t, recoder'[t], saves[t])
      BY <1>1, <1>2, <2>2, <3>1, LevelsPush
    <3>3. \A j \in Keys \ {k} : data[j].status # "NONE" => data'[j].status # "NONE"
      BY SMTT(30)
    <3>4. Present(recoder'[t], data')
      BY <1>1, <1>2, <3>1, <3>3, PresentPush
    <3> QED
      BY <3>2, <3>4
  <2> QED
    BY <2>1, <2>2, SMTT(30)
<1>4. Levels(t, recoder[t], saves[t])' /\ Present(recoder[t], data)'
  BY <1>3
<1> QED
  BY <1>4, SMTT(30) DEF PresentOK

LEMMA FindsStep ==
  ASSUME Scheduling # "any"
  PROVE  FindsInv /\ [Next]_vars => FindsInv'
<1> SUFFICES ASSUME FindsInv, [Next]_vars PROVE FindsInv'
  OBVIOUS
<1>1. TypeInv /\ TypeInv' /\ RollbackNeverThrows /\ \A u \in Threads : PresentOK(u)
  BY TypeStep DEF FindsInv
<1>2. /\ data \in [Keys -> StoredEntry] /\ pc \in [Threads -> Labels]
      /\ op \in [Threads -> Op]
      /\ recoder \in [Threads -> Seq(Change)] /\ saves \in [Threads -> Seq([Keys -> Entry])]
  BY <1>1 DEF TypeInv, TypeOK
<1> DEFINE Kept == RollbackNeverThrows' /\ \A u \in Threads : PresentOK(u)'
<1> SUFFICES Kept
  BY <1>1 DEF FindsInv
<1>3. CASE Quiet
  <2>1. ASSUME NEW u \in Threads PROVE PresentOK(u)'
    BY <1>1, <1>2, <1>3, PresentFrame, SMTT(30) DEF Quiet
  <2>2. RollbackNeverThrows'
    BY <1>1, <1>3 DEF Quiet, RollbackNeverThrows
  <2> QED
    BY <2>1, <2>2
<1>4. ASSUME NEW t \in Threads, NEW k \in Keys, Import(t, k) PROVE Kept
  <2>1. /\ UNCHANGED <<recoder, saves>> /\ pc[t] = "import" /\ pc'[t] \in {"done", "import"}
        /\ \A u \in Threads \ {t} : pc'[u] = pc[u] /\ op'[u] = op[u]
    BY <1>2, <1>4, SMTT(30) DEF Import, Goto
  <2>2. \A j \in Keys : data[j].status # "NONE" => data'[j].status # "NONE"
    BY <1>2, <1>4, SMTT(30) DEF Import, Imported
  <2>3. ASSUME NEW u \in Threads PROVE PresentOK(u)'
    <3>1. pc'[u] = "emplace" => pc[u] = "emplace" /\ op'[u].todo = op[u].todo
      BY <2>1
    <3> QED
      BY <1>1, <2>1, <2>2, <3>1, PresentFrame
  <2>4. RollbackNeverThrows'
    BY <1>1, <2>1 DEF RollbackNeverThrows
  <2> QED
    BY <2>3, <2>4
<1>5. ASSUME NEW t \in Threads, NEW k \in Keys, Emplace(t, k) PROVE Kept
  <2>1. /\ pc[t] = "emplace" /\ pc'[t] = "count" /\ saves' = saves /\ Log(t, k, NoEntry)
        /\ k \in op[t].todo
        /\ \A u \in Threads \ {t} : pc'[u] = pc[u] /\ op'[u] = op[u]
    BY <1>2, <1>5 DEF Emplace, Goto
  <2>2. \A u \in Threads \ {t} : recoder'[u] = recoder[u]
    BY <1>1, <2>1, EntryFacts, LogAppends, ZenonT(30)
  <2>3. op[t].entry.status # "NONE"
    BY <1>1, <2>1 DEF TypeInv, EmplaceTyped, Insertable
  <2>4. data'[k].status # "NONE" /\ \A j \in Keys \ {k} : data'[j] = data[j]
    BY <1>2, <1>5, <2>3, SMTT(30) DEF Emplace
  <2>5. PresentOK(t)'
    <3>1. Owner[k] = t /\ Follows(recoder[t], k, NoEntry)
      BY <1>1, <2>1, SMTT(30) DEF PresentOK
    <3> QED
      BY <1>1, <2>1, <2>4, <3>1, EntryFacts, PresentWrite, SMTT(30)
  <2>6. ASSUME NEW u \in Threads, u # t PROVE PresentOK(u)'
    <3>1. \A j \in Keys : data[j].status # "NONE" => data'[j].status # "NONE"
      BY <2>4, SMTT(30)
    <3> QED
      BY <1>1, <2>1, <2>2, <2>6, <3>1, PresentFrame
  <2>7. RollbackNeverThrows'
    BY <1>1, <2>1 DEF RollbackNeverThrows
  <2> QED
    BY <2>5, <2>6, <2>7
<1>6. ASSUME NEW t \in Threads, NEW k \in Keys, NEW e \in WrittenEntries, pc[t] = "idle",
             MayWrite(t, k), SetExisting(t, k, e)
      PROVE  Kept
  <2>1. /\ pc'[t] = "count" /\ saves' = saves /\ Log(t, k, data[k]) /\ Owner[k] = t
        /\ data[k].status # "NONE"
        /\ \A u \in Threads \ {t} : pc'[u] = pc[u] /\ op'[u] = op[u]
    BY <1>2, <1>6 DEF SetExisting, Goto, MayWrite
  <2>2. data[k] \in StoredEntry /\ \A j \in Keys \ {k} : data'[j] = data[j]
    BY <1>2, <1>6, SMTT(30) DEF SetExisting
  <2>3. \A u \in Threads \ {t} : recoder'[u] = recoder[u]
    BY <1>1, <2>1, <2>2, LogAppends, ZenonT(30)
  <2>4. PresentOK(t)'
    <3>1. Follows(recoder[t], k, data[k])
      BY <2>1, SMTT(30) DEF Follows
    <3> QED
      BY <1>1, <2>1, <2>2, <3>1, PresentWrite, SMTT(30)
  <2>5. ASSUME NEW u \in Threads, u # t PROVE PresentOK(u)'
    <3>1. \A j \in Keys : Owner[j] = u => data'[j] = data[j]
      BY <2>1, <2>2, <2>5
    <3> QED
      BY <1>1, <2>1, <2>3, <2>5, <3>1, PresentFrame, SMTT(30)
  <2>6. RollbackNeverThrows'
    BY <1>1, <2>1 DEF RollbackNeverThrows
  <2> QED
    BY <2>4, <2>5, <2>6
<1>7. ASSUME NEW t \in Threads, NEW k \in Keys, NEW e \in WrittenEntries, pc[t] = "idle",
             MayWrite(t, k), SetMissing(t, k, e)
      PROVE  Kept
  <2>1. /\ pc'[t] = "emplace" /\ UNCHANGED <<data, recoder, saves>> /\ Owner[k] = t
        /\ data[k].status = "NONE"
        /\ \A u \in Threads \ {t} : pc'[u] = pc[u] /\ op'[u] = op[u]
    BY <1>2, <1>7 DEF SetMissing, Goto, MayWrite, rows
  <2>2. op'[t].todo = {k}
    BY <1>2, <1>7, SMTT(30) DEF SetMissing, Writing, NoOp
  <2>3. PresentOK(t)'
    <3>1. Follows(recoder[t], k, NoEntry)
      <4>1. Present(recoder[t], data)
        BY <1>1, SMTT(30) DEF PresentOK
      <4> QED
        BY <2>1, <4>1 DEF Follows, Present
    <3>2. Levels(t, recoder[t], saves[t])' /\ Present(recoder[t], data)'
      BY <1>1, <2>1 DEF PresentOK
    <3> QED
      BY <2>1, <2>2, <3>1, <3>2, SMTT(30) DEF PresentOK
  <2>4. ASSUME NEW u \in Threads, u # t PROVE PresentOK(u)'
    BY <1>1, <2>1, <2>4, PresentFrame
  <2>5. RollbackNeverThrows'
    BY <1>1, <2>1 DEF RollbackNeverThrows
  <2> QED
    BY <2>3, <2>4, <2>5
<1>8. ASSUME NEW t \in Threads, Undo(t) \/ Reinsert(t) PROVE Kept
  <2>1. PICK n \in Nat \ {0} : n = Len(recoder[t])
    BY <1>1, <1>8, UndoPops, SMTT(30)
  <2>2. /\ recoder[t][n] \in Change
        /\ \A u \in Threads \ {t} : recoder'[u] = recoder[u]
        /\ Len(recoder'[t]) = n - 1
        /\ \A j \in 1 .. n - 1 : recoder'[t][j] = recoder[t][j]
        /\ \/ data' = [data EXCEPT ![KeyOf(t, n)] = OldOf(t, n)]
           \/ data' = data /\ data[KeyOf(t, n)].status # "NONE"
    BY <1>1, <1>8, <2>1, UndoPops, SMTT(30)
  <2>3. /\ saves' = saves /\ op' = op /\ pc'[t] = "undo" /\ pc[t] \in {"undo", "reinsert"}
        /\ \A u \in Threads \ {t} : pc'[u] = pc[u]
    BY <1>2, <1>8, SMTT(30) DEF Undo, Reinsert, Goto
  <2>4. KeyOf(t, n) \in Keys /\ Owner[KeyOf(t, n)] = t
    <3>1. Levels(t, recoder[t], saves[t]) /\ recoder[t] \in Seq(Change)
      BY <1>1, <1>2 DEF PresentOK
    <3>2. recoder[t][n] \in Change
      BY <2>1, <3>1, ElementOfSeq, SMTT(30)
    <3> QED
      BY <2>1, <3>1, <3>2, SMTT(30) DEF KeyOf, Levels, Change
  <2>5. \A j \in Keys \ {KeyOf(t, n)} : data'[j] = data[j]
    BY <1>2, <2>2
  <2>6. OldOf(t, n).status # "NONE" => data'[KeyOf(t, n)].status # "NONE"
    BY <1>2, <2>2, <2>4, SMTT(30)
  <2>7. PresentOK(t)'
    <3>1. Dropped(recoder[t], recoder'[t], data, data')
      BY <2>1, <2>2, <2>5, <2>6, ZenonT(30) DEF Dropped, KeyOf, OldOf
    <3>2. Present(recoder'[t], data')
      BY <1>1, <1>2, <3>1, PresentPop DEF PresentOK
    <3>3. Levels(t, recoder'[t], saves[t])
      BY <1>1, <1>2, <2>1, <2>2, LevelsPop, ZenonT(30) DEF PresentOK
    <3>4. Levels(t, recoder[t], saves[t])' /\ Present(recoder[t], data)'
      BY <2>3, <3>2, <3>3, SMTT(30)
    <3> QED
      BY <2>3, <3>4 DEF PresentOK
  <2>8. ASSUME NEW u \in Threads, u # t PROVE PresentOK(u)'
    <3>1. \A j \in Keys : Owner[j] = u => data'[j] = data[j]
      BY <2>4, <2>5, <2>8
    <3> QED
      BY <1>1, <2>2, <2>3, <2>8, <3>1, PresentFrame
  <2>9. RollbackNeverThrows'
    BY <1>1, <2>3 DEF RollbackNeverThrows
  <2> QED
    BY <2>7, <2>8, <2>9, SMTT(30)
<1>9. ASSUME NEW t \in Threads, UndoErased(t) PROVE Kept
  <2>1. /\ pc'[t] = "reinsert" /\ UNCHANGED <<data, recoder, saves, op>>
        /\ \A u \in Threads \ {t} : pc'[u] = pc[u]
    BY <1>2, <1>9 DEF UndoErased, Goto, rows
  <2>2. ASSUME NEW u \in Threads PROVE PresentOK(u)'
    <3>1. pc'[u] = "emplace" => pc[u] = "emplace"
      BY <2>1
    <3> QED
      BY <1>1, <2>1, <3>1, PresentFrame
  <2>3. RollbackNeverThrows'
    BY <1>1, <2>1, SMTT(30) DEF RollbackNeverThrows
  <2> QED
    BY <2>2, <2>3
<1>10. ASSUME NEW t \in Threads, UndoThrows(t) PROVE FALSE
  <2>1. /\ recoder[t] # <<>> /\ OldOf(t, Len(recoder[t])).status = "NONE"
        /\ data[KeyOf(t, Len(recoder[t]))].status = "NONE"
    BY <1>10 DEF UndoThrows, LeftToUndo, NextToUndo, OldOf, KeyOf
  <2>2. PICK n \in Nat \ {0} : n = Len(recoder[t])
    BY <1>2, <2>1, EmptySeq
  <2>3. Newest(recoder[t], n) /\ Present(recoder[t], data)
    BY <1>1, <2>2 DEF Newest, PresentOK
  <2> QED
    BY <2>1, <2>2, <2>3 DEF Present, OldOf, KeyOf
<1>11. ASSUME NEW t \in Threads, RolledBack(t) PROVE Kept
  <2>1. /\ pc[t] = "undo" /\ ~LeftToUndo(t) /\ UNCHANGED <<data, recoder, op>>
        /\ pc' = [pc EXCEPT ![t] = "idle"]
        /\ saves' = [saves EXCEPT ![t] = SubSeq(@, 1, Len(@) - 1)]
    BY <1>11, SMTT(30) DEF RolledBack, Goto
  <2>2. PresentOK(t)'
    <3>1. Levels(t, recoder[t], saves'[t])
      <4>1. CASE saves[t] = <<>>
        <5>1. Len(saves[t]) = 0 /\ Len(recoder[t]) \in Nat
          BY <1>2, <4>1, EmptySeq, LenProperties, SMTT(30)
        <5>2. \A j \in 1 .. Len(recoder[t]) : recoder[t][j].rec \in 1 .. Len(saves[t])
          BY <1>1 DEF PresentOK, Levels
        <5>3. Len(recoder[t]) = 0
          <6> SUFFICES ASSUME Len(recoder[t]) # 0 PROVE FALSE
            OBVIOUS
          <6>1. 1 \in 1 .. Len(recoder[t])
            BY <5>1
          <6>2. recoder[t][1].rec \in 1 .. 0
            BY <5>1, <5>2, <6>1, SMTT(30)
          <6> QED
            BY <6>2
        <5> QED
          BY <5>3 DEF Levels
      <4>2. CASE saves[t] # <<>>
        <5>1. NoChangeLeft(recoder[t], saves[t])
          BY <2>1, <4>2, ZenonT(30) DEF LeftToUndo, NoChangeLeft
        <5>2. Below(t, recoder[t], saves[t])
          BY <1>1, <1>2, <5>1, NoneLeftBelow, ZenonT(30) DEF PresentOK
        <5>3. Len(saves'[t]) = Len(saves[t]) - 1
          BY <1>2, <2>1, <4>2, FrontFacts, SMTT(30)
        <5> QED
          BY <1>1, <5>2, <5>3 DEF Below, Levels, PresentOK
      <4> QED
        BY <4>1, <4>2
    <3>2. Levels(t, recoder[t], saves[t])' /\ Present(recoder[t], data)'
      BY <1>1, <2>1, <3>1 DEF PresentOK
    <3> QED
      BY <1>2, <2>1, <3>2, SMTT(30) DEF PresentOK
  <2>3. ASSUME NEW u \in Threads, u # t PROVE PresentOK(u)'
    BY <1>1, <1>2, <2>1, <2>3, PresentFrame
  <2>4. RollbackNeverThrows'
    BY <1>1, <1>2, <2>1 DEF RollbackNeverThrows
  <2> QED
    BY <2>2, <2>3, <2>4
<1>12. ASSUME NEW t \in Threads, InstallRecoder(t) PROVE Kept
  <2>1. /\ UNCHANGED <<data, recoder, pc, op>> /\ pc[t] = "idle"
        /\ saves' = [saves EXCEPT ![t] = Append(@, OwnOverlay(t))]
    BY <1>12, SMTT(30) DEF InstallRecoder
  <2>2. PresentOK(t)'
    <3>1. OwnOverlay(t) \in [Keys -> Entry]
      BY <1>2, EntryFacts, SMTT(30) DEF OwnOverlay, Dirty
    <3>2. Len(saves'[t]) = Len(saves[t]) + 1 /\ Len(saves[t]) \in Nat
      BY <1>2, <2>1, <3>1, AppendFacts, LenProperties, SMTT(30)
    <3>3. Levels(t, recoder[t], saves'[t])
      BY <1>1, <3>2, SMTT(30) DEF PresentOK, Levels
    <3>4. Levels(t, recoder[t], saves[t])' /\ Present(recoder[t], data)'
      BY <1>1, <2>1, <3>3 DEF PresentOK
    <3> QED
      BY <2>1, <3>4 DEF PresentOK
  <2>3. ASSUME NEW u \in Threads, u # t PROVE PresentOK(u)'
    BY <1>1, <1>2, <2>1, <2>3, PresentFrame
  <2>4. RollbackNeverThrows'
    BY <1>1, <2>1 DEF RollbackNeverThrows
  <2> QED
    BY <2>2, <2>3, <2>4
<1>13. ASSUME NEW t \in Threads, DropRecoders(t) PROVE Kept
  <2>1. /\ UNCHANGED <<data, pc, op>> /\ pc[t] = "idle"
        /\ saves' = [saves EXCEPT ![t] = <<>>] /\ recoder' = [recoder EXCEPT ![t] = <<>>]
    BY <1>13, SMTT(30) DEF DropRecoders
  <2>2. PresentOK(t)'
    <3>1. Len(recoder'[t]) = 0
      BY <1>2, <2>1, EmptySeq, SMTT(30)
    <3>2. Levels(t, recoder'[t], saves'[t]) /\ Present(recoder'[t], data')
      BY <3>1 DEF Levels, Present
    <3>3. Levels(t, recoder[t], saves[t])' /\ Present(recoder[t], data)'
      BY <3>2
    <3> QED
      BY <2>1, <3>3 DEF PresentOK
  <2>3. ASSUME NEW u \in Threads, u # t PROVE PresentOK(u)'
    BY <1>1, <1>2, <2>1, <2>3, PresentFrame
  <2>4. RollbackNeverThrows'
    BY <1>1, <2>1 DEF RollbackNeverThrows
  <2> QED
    BY <2>2, <2>3, <2>4
<1> HIDE DEF Kept
<1>14. CASE \E t \in Threads, k \in Keys : Import(t, k) \/ Emplace(t, k)
  BY <1>4, <1>5, <1>14
<1>15. CASE \E t \in Threads, k \in Keys, e \in WrittenEntries :
              /\ pc[t] = "idle" /\ MayWrite(t, k)
              /\ SetExisting(t, k, e) \/ SetMissing(t, k, e)
  BY <1>6, <1>7, <1>15
<1> QED
  BY <1>1, <1>3, <1>8, <1>9, <1>10, <1>11, <1>12, <1>13, <1>14, <1>15, StepKinds

\* As long as no row is written by two threads, rollback never fails with "Not
\* found rollback entry", whoever reads and imports the rows meanwhile: through
\* nested recorders, purges, and rows that are inserted where they were not.
THEOREM RollbackFindsItsRows ==
  ASSUME Scheduling # "any"
  PROVE  Spec => []RollbackNeverThrows
<1>1. Init => FindsInv
  <2> SUFFICES ASSUME Init, NEW t \in Threads PROVE PresentOK(t)
    BY TypeInit, ZenonT(30) DEF FindsInv, RollbackNeverThrows, Init
  <2>1. Len(recoder[t]) = 0 /\ pc[t] = "idle"
    BY EmptySeq DEF Init
  <2> QED
    BY <2>1 DEF PresentOK, Levels, Present
<1>2. FindsInv /\ [Next]_vars => FindsInv'
  BY FindsStep
<1>3. FindsInv => RollbackNeverThrows
  BY DEF FindsInv
<1> QED
  BY <1>1, <1>2, <1>3, PTL DEF Spec
-----------------------------------------------------------------------------
\* The entry that waits to be inserted is one that a caller has written.
EmplaceWritten == \A t \in Threads : pc[t] = "emplace" => op[t].entry \in WrittenEntries

LEMMA EmplaceWrittenStep ==
  ASSUME TypeInv, EmplaceWritten, [Next]_vars
  PROVE  EmplaceWritten'
<1>0. pc \in [Threads -> Labels] /\ op \in [Threads -> Op]
  BY DEF TypeInv, TypeOK
<1> USE <1>0 DEF Goto
<1> DEFINE Others(t) == \A u \in Threads \ {t} : pc'[u] = pc[u] /\ op'[u] = op[u]
           Leaves(t) == Others(t) /\ (pc'[t] = "emplace" => op'[t].entry \in WrittenEntries)
<1>1. SUFFICES (pc' = pc /\ op' = op) \/ \E t \in Threads : Leaves(t)
  BY SMTT(30) DEF EmplaceWritten
<1>2. ASSUME NEW t \in Threads, NEW k \in Keys, AsyncGetRow(t, k) PROVE Leaves(t)
  BY <1>2, SMTT(30) DEF AsyncGetRow
<1>3. ASSUME NEW t \in Threads, NEW ks \in Batches,
             AsyncGetRows(t, ks) \/ AsyncGetPrimaryKeys(t, ks)
      PROVE  Leaves(t)
  BY <1>3, SMTT(30) DEF AsyncGetRows, AsyncGetPrimaryKeys
<1>4. ASSUME NEW t \in Threads, NEW k \in Keys, NEW e \in WrittenEntries,
             AsyncSetRow(t, k, e)
      PROVE  Leaves(t)
  <2>1. CASE SetMissing(t, k, e)
    <3>1. op'[t].entry = e
      BY <2>1 DEF SetMissing, Writing, NoOp
    <3> QED
      BY <2>1, <3>1, SMTT(30) DEF SetMissing
  <2>2. CASE SetRefused(t, k, e) \/ SetExisting(t, k, e) \/ PurgeMissing(t, k, e)
    BY <2>2, SMTT(30) DEF SetRefused, SetExisting, PurgeMissing
  <2> QED
    BY <1>4, <2>1, <2>2 DEF AsyncSetRow
<1>5. ASSUME NEW t \in Threads, InstallRecoder(t) \/ DropRecoders(t) \/ Undo(t)
      PROVE  pc' = pc /\ op' = op
  BY <1>5, SMTT(30) DEF InstallRecoder, DropRecoders, Undo
<1>6. ASSUME NEW t \in Threads,
             \/ Rollback(t) \/ Traverse(t) \/ PrevFails(t) \/ Count(t) \/ Return(t)
             \/ UndoErased(t) \/ Reinsert(t) \/ UndoThrows(t) \/ RolledBack(t)
             \/ TraverseLocked(t) \/ TraverseDone(t) \/ LookedUp(t) \/ PrevAnswers(t)
      PROVE  Leaves(t)
  BY <1>6, SMTT(30)
  DEF Rollback, Traverse, PrevFails, Count, Return, UndoErased, Reinsert, UndoThrows,
      RolledBack, TraverseLocked, TraverseDone, LookedUp, PrevAnswers
<1>7. ASSUME NEW t \in Threads, NEW k \in Keys,
             Lookup(t, k) \/ ScanMisses(t, k) \/ Import(t, k) \/ Emplace(t, k)
      PROVE  Leaves(t)
  BY <1>7, SMTT(30) DEF Lookup, ScanMisses, Import, Emplace
<1>8. ASSUME NEW b \in BOOLEAN, SetReadOnly(b) PROVE pc' = pc /\ op' = op
  BY <1>8 DEF SetReadOnly
<1>9. CASE UNCHANGED vars
  BY <1>9 DEF vars
<1> HIDE DEF Leaves
<1> QED
  BY <1>2, <1>3, <1>4, <1>5, <1>6, <1>7, <1>8, <1>9, ZenonT(30) DEF Next, Call, Step
=============================================================================

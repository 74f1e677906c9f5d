-------------------- MODULE StateStorageRefinementProofs --------------------
(***************************************************************************)
(* StateStorage implements SavepointStore, for any threads, rows, contents, *)
(* older storage and bounds, as long as the threads keep off each other's   *)
(* rows.  And what its calls promise their callers: a row that was set is   *)
(* stored, and a read answers what was last written or else what the older  *)
(* storage has.                                                             *)
(***************************************************************************)
EXTENDS StateStorageRollbackProofs, StateStorageRefinement

RefinementInv == RollbackInv /\ EmplaceWritten

-----------------------------------------------------------------------------
(***************************************************************************)
(* The steps that the abstract store can see.                               *)
(***************************************************************************)
Invisible ==
  /\ UNCHANGED <<data, saves>>
  /\ \A u \in Threads : RollingBack(u)' <=> RollingBack(u)

LEMMA VisibleSteps ==
  ASSUME TypeInv, [Next]_vars
  PROVE  \/ Invisible
         \/ \E t \in Threads, k \in Keys : Import(t, k) \/ Emplace(t, k)
         \/ \E t \in Threads, k \in Keys, e \in WrittenEntries :
              pc[t] = "idle" /\ MayWrite(t, k) /\ SetExisting(t, k, e)
         \/ \E t \in Threads : \/ Undo(t) \/ Reinsert(t) \/ RolledBack(t) \/ Rollback(t)
                               \/ InstallRecoder(t) \/ DropRecoders(t)
<1>0. pc \in [Threads -> Labels]
  BY DEF TypeInv, TypeOK
<1> USE <1>0 DEF rows, Goto, RollingBack
<1>1. ASSUME NEW t \in Threads, NEW k \in Keys, AsyncGetRow(t, k) PROVE Invisible
  BY <1>1, SMTT(30) DEF AsyncGetRow, Invisible
<1>2. ASSUME NEW t \in Threads, NEW ks \in Batches,
             AsyncGetRows(t, ks) \/ AsyncGetPrimaryKeys(t, ks)
      PROVE  Invisible
  BY <1>2, SMTT(30) DEF AsyncGetRows, AsyncGetPrimaryKeys, Invisible
<1>3. ASSUME NEW t \in Threads, NEW k \in Keys, NEW e \in WrittenEntries,
             AsyncSetRow(t, k, e)
      PROVE  Invisible \/ (pc[t] = "idle" /\ MayWrite(t, k) /\ SetExisting(t, k, e))
  BY <1>3, SMTT(30) DEF AsyncSetRow, SetRefused, PurgeMissing, SetMissing, Invisible
<1>4. ASSUME NEW t \in Threads, Traverse(t) \/ TraverseLocked(t) \/ TraverseDone(t)
      PROVE  Invisible
  BY <1>4, SMTT(30) DEF Traverse, TraverseLocked, TraverseDone, Invisible
<1>5. ASSUME NEW t \in Threads, NEW k \in Keys, Lookup(t, k) \/ ScanMisses(t, k)
      PROVE  Invisible
  BY <1>5 DEF Lookup, ScanMisses, Invisible
<1>6. ASSUME NEW t \in Threads,
             LookedUp(t) \/ PrevFails(t) \/ PrevAnswers(t) \/ Count(t) \/ Return(t)
      PROVE  Invisible
  BY <1>6, SMTT(30) DEF LookedUp, PrevFails, PrevAnswers, Count, Return, Invisible
<1>7. ASSUME NEW t \in Threads, UndoErased(t) \/ UndoThrows(t) PROVE Invisible
  BY <1>7, SMTT(30) DEF UndoErased, UndoThrows, Invisible
<1>8. ASSUME NEW b \in BOOLEAN, SetReadOnly(b) PROVE Invisible
  BY <1>8 DEF SetReadOnly, Invisible
<1>9. CASE UNCHANGED vars
  BY <1>9 DEF vars, Invisible
<1> QED
  BY <1>1, <1>2, <1>3, <1>4, <1>5, <1>6, <1>7, <1>8, <1>9, SMTT(30) DEF Next, Call, Step

\* A step that starts and ends no rollback, and changes at most clean rows and
\* the rows of threads that are rolling back.
LEMMA NothingSeen ==
  ASSUME saves' = saves, \A u \in Threads : RollingBack(u)' <=> RollingBack(u),
         \A k \in Keys : \/ Dirty(data'[k]) = Dirty(data[k])
                         \/ Owner[k] \in Threads /\ RollingBack(Owner[k])
  PROVE  Written' = Written /\ Savepoints' = Savepoints
  BY SMTT(30) DEF Written, Savepoints

\* The mapped variables are functions of the rows and of the threads.
LEMMA Shapes ==
  /\ Written = [k \in Keys |-> Written[k]] /\ Savepoints = [t \in Threads |-> Savepoints[t]]
  /\ Written' = [k \in Keys |-> Written'[k]]
  /\ Savepoints' = [t \in Threads |-> Savepoints'[t]]
  BY DEF Written, Savepoints

LEMMA SameSavepoints ==
  ASSUME NEW u \in Threads, saves'[u] = saves[u], RollingBack(u)' <=> RollingBack(u)
  PROVE  Savepoints'[u] = Savepoints[u]
  BY SMTT(30) DEF Savepoints

\* A caller's row is stored, replaced or erased by its owner.  An entry that is
\* not marked dirty takes the row out of what the block has written.
LEMMA WriteSeen ==
  ASSUME TypeInv, NEW t \in Threads, NEW k \in Keys, Owner[k] = t,
         ~RollingBack(t), saves' = saves,
         \A u \in Threads : RollingBack(u)' <=> RollingBack(u),
         NEW e \in WrittenEntries \cup {NoEntry}, data' = [data EXCEPT ![k] = e]
  PROVE  Store!Write(t, k)
<1>1. Dirty(e) \in WrittenEntries \cup {NoEntry}
  BY DEF Dirty
<1>2. data \in [Keys -> StoredEntry]
  BY DEF TypeInv, TypeOK
<1>3. data'[k] = e /\ \A q \in Keys \ {k} : data'[q] = data[q]
  BY <1>2
<1>4. Savepoints' = Savepoints
  BY SMTT(30) DEF Savepoints
<1>5. Written' = [Written EXCEPT ![k] = Dirty(e)]
  <2>1. \A q \in Keys : Written'[q] = IF q = k THEN Dirty(e) ELSE Written[q]
    BY <1>3, SMTT(30) DEF Written
  <2> QED
    BY <2>1, Shapes
<1> QED
  BY <1>1, <1>4, <1>5, ZenonT(30) DEF Store!Write

LEMMA RefinementStep ==
  ASSUME Scheduling = "exclusive", RefinementInv, [Next]_vars
  PROVE  [Store!Next]_(Store!storeVars)
<1>1. /\ TypeInv /\ EmplaceWritten /\ RollbackRestores
      /\ \A u \in Threads : LogOK(u) /\ ReadsOwn(u)
  BY RollbackInvRestores DEF RefinementInv, RollbackInv, CleanInv
<1>2. /\ data \in [Keys -> StoredEntry] /\ pc \in [Threads -> Labels]
      /\ op \in [Threads -> Op]
      /\ recoder \in [Threads -> Seq(Change)] /\ saves \in [Threads -> Seq([Keys -> Entry])]
  BY <1>1 DEF TypeInv, TypeOK
<1> DEFINE Unseen == Written' = Written /\ Savepoints' = Savepoints
<1>3. SUFFICES Unseen \/ Store!Next
  BY DEF Store!storeVars
<1>4. CASE Invisible
  BY <1>4, NothingSeen DEF Invisible
<1>5. ASSUME NEW t \in Threads, NEW k \in Keys, Import(t, k) PROVE Unseen
  <2>1. \A q \in Keys : Dirty(data'[q]) = Dirty(data[q])
    <3>1. \/ data' = data
          \/ data[k].status = "NONE" /\ data' = [data EXCEPT ![k] = PrevEntry(k)]
          \/ data' = [data EXCEPT ![k] = data[k]]
      BY <1>5, ZenonT(30) DEF Import, Imported
    <3>2. data[k].status = "NONE" => data[k] = NoEntry
      BY <1>2, ZenonT(30) DEF StoredEntry
    <3>3. ~PrevEntry(k).dirty /\ ~NoEntry.dirty
      BY DEF PrevEntry, NoEntry
    <3> QED
      BY <1>2, <3>1, <3>2, <3>3, SMTT(30) DEF Dirty
  <2>2. saves' = saves /\ \A u \in Threads : RollingBack(u)' <=> RollingBack(u)
    BY <1>2, <1>5, SMTT(30) DEF Import, Goto, RollingBack
  <2> QED
    BY <2>1, <2>2, NothingSeen
<1>6. ASSUME NEW t \in Threads, NEW k \in Keys, Emplace(t, k) PROVE Unseen \/ Store!Next
  <2>1. /\ saves' = saves /\ \A u \in Threads : RollingBack(u)' <=> RollingBack(u)
        /\ ~RollingBack(t)
    BY <1>2, <1>6, SMTT(30) DEF Emplace, Goto, RollingBack
  <2>2. CASE data' = data
    BY <2>1, <2>2, NothingSeen
  <2>3. CASE data' = [data EXCEPT ![k] = op[t].entry]
    <3>1. Owner[k] = t /\ op[t].entry \in WrittenEntries
      BY <1>1, <1>6, SMTT(30) DEF Emplace, LogOK, InsertOK, EmplaceWritten
    <3>2. Store!Write(t, k)
      BY <1>1, <2>1, <2>3, <3>1, WriteSeen, ZenonT(30)
    <3> QED
      BY <3>2 DEF Store!Next
  <2> QED
    BY <1>6, <2>2, <2>3 DEF Emplace
<1>7. ASSUME NEW t \in Threads, NEW k \in Keys, NEW e \in WrittenEntries,
             pc[t] = "idle", MayWrite(t, k), SetExisting(t, k, e)
      PROVE  Store!Next
  <2>1. /\ saves' = saves /\ \A u \in Threads : RollingBack(u)' <=> RollingBack(u)
        /\ ~RollingBack(t) /\ Owner[k] = t
    BY <1>2, <1>7, SMTT(30) DEF SetExisting, Goto, RollingBack, MayWrite
  <2>2. Stored(e) \in WrittenEntries \cup {NoEntry} /\ data' = [data EXCEPT ![k] = Stored(e)]
    BY <1>7 DEF SetExisting, Stored
  <2>3. Store!Write(t, k)
    BY <1>1, <2>1, <2>2, WriteSeen, ZenonT(30)
  <2> QED
    BY <2>3 DEF Store!Next
<1>8. ASSUME NEW t \in Threads, Undo(t) \/ Reinsert(t) PROVE Unseen
  <2> DEFINE n == Len(recoder[t])
             key == recoder[t][n].key
  <2>1. /\ saves' = saves /\ \A u \in Threads : RollingBack(u)' <=> RollingBack(u)
        /\ RollingBack(t)
    BY <1>2, <1>8, SMTT(30) DEF Undo, Reinsert, Goto, RollingBack
  <2>2. n \in Nat \ {0}
    BY <1>2, <1>8, EmptySeq DEF Undo, Reinsert, LeftToUndo
  <2>3. Owner[key] = t
    BY <1>1, <2>2, SMTT(30) DEF LogOK, Undoable, Levels
  <2>4. \A q \in Keys : q = key \/ data'[q] = data[q]
    BY <1>2, <1>8, SMTT(30) DEF Undo, Reinsert, NextToUndo
  <2> HIDE DEF n, key
  <2> QED
    BY <2>1, <2>3, <2>4, NothingSeen
<1>9. ASSUME NEW t \in Threads, RolledBack(t) PROVE Unseen
  <2>1. /\ data' = data /\ pc[t] = "undo" /\ pc' = [pc EXCEPT ![t] = "idle"]
        /\ saves' = [saves EXCEPT ![t] = SubSeq(@, 1, Len(@) - 1)] /\ ~LeftToUndo(t)
    BY <1>9 DEF RolledBack, Goto
  <2>2. /\ RollingBack(t) /\ ~RollingBack(t)'
        /\ \A u \in Threads \ {t} : (RollingBack(u)' <=> RollingBack(u)) /\ saves'[u] = saves[u]
        /\ saves'[t] = SubSeq(saves[t], 1, Len(saves[t]) - 1)
    BY <1>2, <2>1, SMTT(30) DEF RollingBack
  <2>3. \A k \in Keys : Owner[k] = t => Dirty(data[k]) = saves[t][Len(saves[t])][k]
    BY <1>1, <2>1, ZenonT(30) DEF RollbackRestores, OwnOverlay
  <2>4. Savepoints' = Savepoints
    <3>1. \A u \in Threads : Savepoints'[u] = Savepoints[u]
      BY <2>2, ZenonT(30) DEF Savepoints
    <3> QED
      BY <3>1, Shapes, ZenonT(30)
  <2>5. Written' = Written
    BY <2>1, <2>2, <2>3, SMTT(30) DEF Written
  <2> QED
    BY <2>4, <2>5
<1>10. ASSUME NEW t \in Threads, Rollback(t) PROVE Store!Next
  <2>1. /\ data' = data /\ saves' = saves /\ saves[t] # <<>>
        /\ RollingBack(t)' /\ ~RollingBack(t)
        /\ \A u \in Threads \ {t} : RollingBack(u)' <=> RollingBack(u)
    BY <1>2, <1>10, SMTT(30) DEF Rollback, Goto, RollingBack, rows
  <2>2. Savepoints[t] = saves[t] /\ Len(saves[t]) > 0
    BY <1>2, <2>1, EmptySeq, SMTT(30) DEF Savepoints
  <2>3. Savepoints' = [Savepoints EXCEPT ![t] = SubSeq(@, 1, Len(saves[t]) - 1)]
    <3>1. \A u \in Threads : Savepoints'[u] =
            IF u = t THEN SubSeq(saves[t], 1, Len(saves[t]) - 1) ELSE Savepoints[u]
      BY <2>1, ZenonT(30) DEF Savepoints
    <3> QED
      BY <2>2, <3>1, Shapes
  <2>4. Written' = [k \in Keys |-> IF Owner[k] = t THEN saves[t][Len(saves[t])][k] ELSE Written[k]]
    BY <2>1, SMTT(30) DEF Written
  <2>5. Store!Revert(t)
    BY <2>2, <2>3, <2>4, SMTT(30) DEF Store!Revert
  <2> QED
    BY <2>5 DEF Store!Next
<1>11. ASSUME NEW t \in Threads, InstallRecoder(t) PROVE Store!Next
  <2>1. /\ data' = data /\ ~RollingBack(t)
        /\ \A u \in Threads : RollingBack(u)' <=> RollingBack(u)
        /\ saves' = [saves EXCEPT ![t] = Append(@, OwnOverlay(t))]
    BY <1>11 DEF InstallRecoder, RollingBack
  <2>2. Store!Own(t) = OwnOverlay(t)
    BY <2>1, SMTT(30) DEF Store!Own, OwnOverlay, Written
  <2>3. Savepoints' = [Savepoints EXCEPT ![t] = Append(@, OwnOverlay(t))]
    <3>1. saves'[t] = Append(saves[t], OwnOverlay(t)) /\ \A u \in Threads \ {t} : saves'[u] = saves[u]
      BY <1>2, <2>1
    <3>2. Savepoints[t] = saves[t] /\ Savepoints'[t] = saves'[t]
      BY <2>1, ZenonT(30) DEF Savepoints
    <3>3. \A u \in Threads \ {t} : Savepoints'[u] = Savepoints[u]
      BY <2>1, <3>1, SameSavepoints
    <3> QED
      BY <3>1, <3>2, <3>3, Shapes
  <2>4. Written' = Written
    BY <1>2, <2>1, SMTT(30) DEF Written
  <2>5. Store!Save(t)
    BY <2>2, <2>3, <2>4 DEF Store!Save
  <2> QED
    BY <2>5 DEF Store!Next
<1>12. ASSUME NEW t \in Threads, DropRecoders(t) PROVE Store!Next
  <2>1. /\ data' = data /\ ~RollingBack(t)
        /\ \A u \in Threads : RollingBack(u)' <=> RollingBack(u)
        /\ saves' = [saves EXCEPT ![t] = <<>>]
    BY <1>12 DEF DropRecoders, RollingBack
  <2>2. Savepoints' = [Savepoints EXCEPT ![t] = <<>>]
    <3>1. saves'[t] = <<>> /\ \A u \in Threads \ {t} : saves'[u] = saves[u]
      BY <1>2, <2>1
    <3>2. Savepoints'[t] = saves'[t]
      BY <2>1, ZenonT(30) DEF Savepoints
    <3>3. \A u \in Threads \ {t} : Savepoints'[u] = Savepoints[u]
      BY <2>1, <3>1, SameSavepoints
    <3> QED
      BY <3>1, <3>2, <3>3, Shapes
  <2>3. Written' = Written
    BY <1>2, <2>1, SMTT(30) DEF Written
  <2>4. Store!Keep(t)
    BY <2>2, <2>3 DEF Store!Keep
  <2> QED
    BY <2>4 DEF Store!Next
<1> QED
  BY <1>1, <1>4, <1>5, <1>6, <1>7, <1>8, <1>9, <1>10, <1>11, <1>12, VisibleSteps

\* StateStorage, used by threads that keep off each other's rows, is a store
\* with atomic savepoints: every step of its reads, imports, writes, purges and
\* of the row-by-row rollback is a write of one row by its owner, a savepoint,
\* the end of the savepoints, a revert to the last one, or not seen at all.
THEOREM SavepointsImplemented ==
  ASSUME Scheduling = "exclusive"
  PROVE  Spec => ImplementsSavepoints
<1>1. Init => Store!Init
  BY SMTT(30) DEF Init, Store!Init, Written, Savepoints, RollingBack, Dirty, NoEntry
<1>2. Init => RefinementInv
  BY RollbackInit, SMTT(30) DEF RefinementInv, EmplaceWritten, Init
<1>3. RefinementInv /\ [Next]_vars => RefinementInv'
  BY RollbackStep, EmplaceWrittenStep DEF RefinementInv, RollbackInv, CleanInv
<1>4. RefinementInv /\ [Next]_vars => [Store!Next]_(Store!storeVars)
  BY RefinementStep
<1> QED
  BY <1>1, <1>2, <1>3, <1>4, PTL DEF Spec, ImplementsSavepoints, Store!Spec
-----------------------------------------------------------------------------
(* Reads and writes.                                                        *)
\* The steps of thread t that are no part of a read or a write.
OutsideCall(t) ==
  \/ Undo(t) \/ UndoErased(t) \/ Reinsert(t) \/ UndoThrows(t) \/ RolledBack(t)
  \/ TraverseLocked(t) \/ TraverseDone(t)
  \/ InstallRecoder(t) \/ DropRecoders(t) \/ Rollback(t) \/ Traverse(t)

LEMMA OutsideCalls ==
  ASSUME NEW t \in Threads, OutsideCall(t)
  PROVE  pc[t] \in {"idle", "undo", "reinsert", "waiting", "traverse"} /\ op' = op
<1>1. CASE Undo(t) \/ UndoErased(t)
  BY <1>1, SMTT(30) DEF Undo, UndoErased
<1>2. CASE Reinsert(t) \/ UndoThrows(t)
  BY <1>2 DEF Reinsert, UndoThrows
<1>3. CASE RolledBack(t) \/ TraverseLocked(t) \/ TraverseDone(t)
  BY <1>3 DEF RolledBack, TraverseLocked, TraverseDone
<1>4. CASE InstallRecoder(t) \/ DropRecoders(t) \/ Rollback(t) \/ Traverse(t)
  BY <1>4 DEF InstallRecoder, DropRecoders, Rollback, Traverse
<1> QED
  BY <1>1, <1>2, <1>3, <1>4, ZenonT(30) DEF OutsideCall

\* A step of one thread is no step of another.
Others(t) == \A u \in Threads \ {t} : pc'[u] = pc[u] /\ op'[u] = op[u]

(***************************************************************************)
(* Deletions.  An entry that marks a deletion has no content, in the rows   *)
(* and in the recorders: a reader that is told "no entry" is told the same  *)
(* as one who looks at the content.                                         *)
(***************************************************************************)
EmptyFor(e) == e.status # "NORMAL" => e.value = NoValue

EmptyLogged ==
  \A t \in Threads : \A i \in 1 .. Len(recoder[t]) : EmptyFor(recoder[t][i].old)

EmptyInv == EmplaceWritten /\ (\A k \in Keys : EmptyFor(data[k])) /\ EmptyLogged

LEMMA EmptyEntries ==
  /\ EmptyFor(NoEntry) /\ \A k \in Keys : EmptyFor(PrevEntry(k))
  /\ \A e \in WrittenEntries : EmptyFor(e) /\ EmptyFor(Stored(e))
<1>1. EmptyFor(NoEntry)
  BY DEF EmptyFor, NoEntry
<1>2. \A k \in Keys : EmptyFor(PrevEntry(k))
  BY DEF EmptyFor, PrevEntry, NoEntry
<1>3. \A e \in WrittenEntries : EmptyFor(e)
  BY DEF EmptyFor, WrittenEntries, UnsetEntries, SetEntry
<1> QED
  BY <1>1, <1>2, <1>3 DEF Stored

LEMMA EmptyInit == Init => EmptyInv
<1> SUFFICES ASSUME Init PROVE EmptyInv
  OBVIOUS
<1>1. \A t \in Threads : Len(recoder[t]) = 0 /\ pc[t] = "idle"
  BY EmptySeq DEF Init
<1>2. \A k \in Keys : data[k] = NoEntry
  BY DEF Init
<1> QED
  BY <1>1, <1>2, EmptyEntries DEF EmptyInv, EmplaceWritten, EmptyLogged

LEMMA EmptyLog ==
  ASSUME TypeInv, EmptyLogged, NEW t \in Threads, NEW k \in Keys, NEW old \in StoredEntry,
         EmptyFor(old), Log(t, k, old)
  PROVE  EmptyLogged'
<1> SUFFICES ASSUME NEW u \in Threads, NEW j \in 1 .. Len(recoder'[u])
             PROVE  EmptyFor(recoder'[u][j].old)
  BY DEF EmptyLogged, EmptyFor
<1>1. \A v \in Threads : Len(recoder[v]) \in Nat
  BY LenProperties DEF TypeInv, TypeOK
<1>2. CASE recoder'[u] = recoder[u]
  BY <1>2 DEF EmptyLogged
<1>3. CASE recoder'[u] # recoder[u]
  <2>1. u = t /\ saves[t] # <<>>
    BY <1>3, LogAppends, ZenonT(30)
  <2>2. CASE j \in Changes(t)
    BY <2>1, <2>2, LogAppends, ZenonT(30) DEF EmptyLogged, Changes
  <2>3. CASE j = Len(recoder[t]) + 1
    <3>1. recoder'[u][j] = [rec |-> Len(saves[t]), key |-> k, old |-> old]
      BY <2>1, <2>3, LogAppends, ZenonT(30)
    <3>2. recoder'[u][j].old = old
      BY <3>1
    <3> QED
      BY <3>2
  <2>4. Len(recoder'[u]) = Len(recoder[t]) + 1
    BY <2>1, LogAppends, ZenonT(30)
  <2> QED
    BY <1>1, <2>1, <2>2, <2>3, <2>4 DEF Changes
<1> QED
  BY <1>2, <1>3

LEMMA EmptyStep ==
  ASSUME TypeInv, EmptyInv, [Next]_vars
  PROVE  EmptyInv'
<1>1. /\ EmplaceWritten /\ EmptyLogged /\ data \in [Keys -> StoredEntry]
      /\ \A k \in Keys : EmptyFor(data[k])
  BY DEF EmptyInv, TypeInv, TypeOK
<1>2. EmplaceWritten'
  BY <1>1, EmplaceWrittenStep
<1> DEFINE Rows == \A k \in Keys : EmptyFor(data'[k])
<1>3. SUFFICES Rows /\ EmptyLogged'
  BY <1>2 DEF EmptyInv, EmptyFor
<1>4. CASE UNCHANGED <<data, recoder>>
  BY <1>1, <1>4 DEF EmptyLogged, EmptyFor
<1>5. ASSUME NEW t \in Threads, NEW k \in Keys, Import(t, k) PROVE Rows /\ EmptyLogged'
  <2>1. EmptyFor(Imported(k)) /\ recoder' = recoder
    BY <1>1, <1>5, EmptyEntries DEF Imported, Import
  <2>2. \A j \in Keys : data'[j] = data[j] \/ data'[j] = Imported(k)
    BY <1>1, <1>5 DEF Import
  <2>3. EmptyLogged'
    BY <1>1, <2>1 DEF EmptyLogged, EmptyFor
  <2> QED
    BY <1>1, <2>1, <2>2, <2>3
<1>6. ASSUME NEW t \in Threads, NEW k \in Keys, Emplace(t, k) PROVE Rows /\ EmptyLogged'
  <2>1. EmptyFor(op[t].entry)
    BY <1>1, <1>6, EmptyEntries DEF Emplace, EmplaceWritten
  <2>2. \A j \in Keys : data'[j] = data[j] \/ data'[j] = op[t].entry
    BY <1>1, <1>6 DEF Emplace
  <2>3. EmptyLogged'
    BY <1>1, <1>6, EmptyLog, EmptyEntries, EntryFacts DEF Emplace
  <2> QED
    BY <1>1, <2>1, <2>2, <2>3
<1>7. ASSUME NEW t \in Threads, NEW k \in Keys, NEW e \in WrittenEntries,
             SetExisting(t, k, e)
      PROVE  Rows /\ EmptyLogged'
  <2>1. \A j \in Keys : data'[j] = data[j] \/ data'[j] = Stored(e)
    BY <1>1, <1>7 DEF SetExisting
  <2>2. EmptyLogged'
    BY <1>1, <1>7, EmptyLog DEF SetExisting
  <2> QED
    BY <1>1, <2>1, <2>2, EmptyEntries
<1>8. ASSUME NEW t \in Threads, Undo(t) \/ Reinsert(t) PROVE Rows /\ EmptyLogged'
  <2> DEFINE n == Len(recoder[t])
  <2>1. /\ n \in Nat \ {0}
        /\ \A u \in Threads \ {t} : recoder'[u] = recoder[u]
        /\ Len(recoder'[t]) = n - 1
        /\ \A j \in 1 .. n - 1 : recoder'[t][j] = recoder[t][j]
        /\ data' = data \/ data' = [data EXCEPT ![KeyOf(t, n)] = OldOf(t, n)]
    BY <1>8, UndoPops
  <2>2. EmptyLogged'
    BY <1>1, <2>1, SMTT(30) DEF EmptyLogged, EmptyFor
  <2>3. EmptyFor(OldOf(t, n))
    BY <1>1, <2>1 DEF EmptyLogged, OldOf
  <2>4. \A j \in Keys : data'[j] = data[j] \/ data'[j] = OldOf(t, n)
    BY <1>1, <2>1
  <2> QED
    BY <1>1, <2>2, <2>3, <2>4
<1>9. ASSUME NEW t \in Threads, DropRecoders(t) PROVE Rows /\ EmptyLogged'
  <2>1. \A u \in Threads : recoder'[u] = recoder[u] \/ Len(recoder'[u]) = 0
    BY <1>1, <1>9, EmptySeq DEF DropRecoders, TypeInv, TypeOK
  <2>2. EmptyLogged'
    BY <1>1, <2>1 DEF EmptyLogged, EmptyFor
  <2> QED
    BY <1>1, <1>9, <2>2 DEF DropRecoders
<1> QED
  BY <1>4, <1>5, <1>6, <1>7, <1>8, <1>9, RowSteps
-----------------------------------------------------------------------------
(***************************************************************************)
(* What other threads can do to a row while a thread is inside a call.      *)
(***************************************************************************)
LEMMA OthersStay ==
  ASSUME TypeInv, NEW t \in Threads, Call(t) \/ Step(t)
  PROVE  Others(t)
<1>0. pc \in [Threads -> Labels] /\ op \in [Threads -> Op]
  BY DEF TypeInv, TypeOK
<1> USE <1>0 DEF Goto, Others
<1>1. ASSUME NEW k \in Keys, AsyncGetRow(t, k) PROVE Others(t)
  BY <1>1, SMTT(30) DEF AsyncGetRow
<1>2. ASSUME NEW ks \in Batches, AsyncGetRows(t, ks) \/ AsyncGetPrimaryKeys(t, ks)
      PROVE  Others(t)
  BY <1>2, SMTT(30) DEF AsyncGetRows, AsyncGetPrimaryKeys
<1>3. ASSUME NEW k \in Keys, NEW e \in WrittenEntries, AsyncSetRow(t, k, e)
      PROVE  Others(t)
  BY <1>3, SMTT(30) DEF AsyncSetRow, SetRefused, SetExisting, PurgeMissing, SetMissing
<1>4. ASSUME NEW k \in Keys,
             Lookup(t, k) \/ ScanMisses(t, k) \/ Import(t, k) \/ Emplace(t, k)
      PROVE  Others(t)
  BY <1>4, SMTT(30) DEF Lookup, ScanMisses, Import, Emplace
<1>5. CASE LookedUp(t) \/ PrevFails(t) \/ PrevAnswers(t) \/ Count(t) \/ Return(t)
  BY <1>5, SMTT(30) DEF LookedUp, PrevFails, PrevAnswers, Count, Return
<1>6. CASE Undo(t) \/ UndoErased(t) \/ Reinsert(t) \/ UndoThrows(t) \/ RolledBack(t)
  BY <1>6, SMTT(30) DEF Undo, UndoErased, Reinsert, UndoThrows, RolledBack
<1>7. CASE \/ TraverseLocked(t) \/ TraverseDone(t) \/ InstallRecoder(t) \/ DropRecoders(t)
           \/ Rollback(t) \/ Traverse(t)
  BY <1>7, SMTT(30)
  DEF TraverseLocked, TraverseDone, InstallRecoder, DropRecoders, Rollback, Traverse
<1> HIDE DEF Others
<1> QED
  BY <1>1, <1>2, <1>3, <1>4, <1>5, <1>6, <1>7, ZenonT(30) DEF Call, Step

\* So a thread stays where it is unless the step is its own.
LEMMA OwnStepOrStays ==
  ASSUME TypeInv, [Next]_vars, NEW t \in Threads
  PROVE  (pc'[t] = pc[t] /\ op'[t] = op[t]) \/ Call(t) \/ Step(t)
<1>1. ASSUME NEW u \in Threads, Call(u) \/ Step(u), u # t
      PROVE  pc'[t] = pc[t] /\ op'[t] = op[t]
  BY <1>1, OthersStay DEF Others
<1>2. ASSUME NEW b \in BOOLEAN, SetReadOnly(b) PROVE pc' = pc /\ op' = op
  BY <1>2 DEF SetReadOnly
<1>3. CASE UNCHANGED vars
  BY <1>3 DEF vars
<1> QED
  BY <1>1, <1>2, <1>3, ZenonT(30) DEF Next

\* A row that is the thread's own, or shared, changes under a call of the
\* thread only when it is imported, or when the thread inserts it itself.
LEMMA RowFrame ==
  ASSUME Scheduling = "exclusive", RollbackInv, [Next]_vars,
         NEW t \in Threads, NEW k \in Keys, Owner[k] \in {t, Shared},
         pc[t] \notin {"idle", "undo", "reinsert"}
  PROVE  \/ data'[k] = data[k]
         \/ /\ data[k] = NoEntry /\ data'[k] = PrevEntry(k)
            /\ Owner[k] = t => pc[t] = "import"
         \/ Emplace(t, k)
<1>0. /\ TypeInv /\ data \in [Keys -> StoredEntry] /\ pc \in [Threads -> Labels]
      /\ op \in [Threads -> Op] /\ Shared \notin Threads
      /\ \A u \in Threads : LogOK(u) /\ ReadsOwn(u)
  BY ConstantsAssumption DEF RollbackInv, CleanInv, TypeInv, TypeOK
<1> DEFINE Goal == \/ data'[k] = data[k]
                   \/ /\ data[k] = NoEntry /\ data'[k] = PrevEntry(k)
                      /\ Owner[k] = t => pc[t] = "import"
                   \/ Emplace(t, k)
<1> SUFFICES Goal
  OBVIOUS
<1>1. ASSUME NEW u \in Threads, NEW j \in Keys, Import(u, j) PROVE Goal
  <2>1. CASE j # k
    BY <1>0, <1>1, <2>1, SMTT(30) DEF Import
  <2>2. CASE j = k
    <3>1. Owner[k] \in {u, Shared} /\ pc[u] = "import"
      BY <1>0, <1>1, <2>2, ZenonT(30) DEF Import, ReadsOwn
    <3>2. Owner[k] = t => u = t
      BY <1>0, <3>1
    <3>3. data'[k] = data[k] \/ (data[k].status = "NONE" /\ data'[k] = PrevEntry(k))
      BY <1>0, <1>1, <2>2, SMTT(30) DEF Import, Imported
    <3>4. data[k].status = "NONE" => data[k] = NoEntry
      BY <1>0, SMTT(30) DEF StoredEntry
    <3> QED
      BY <3>1, <3>2, <3>3, <3>4
  <2> QED
    BY <2>1, <2>2
<1>2. ASSUME NEW u \in Threads, NEW j \in Keys, Emplace(u, j) PROVE Goal
  <2>1. CASE j # k
    BY <1>0, <1>2, <2>1, SMTT(30) DEF Emplace
  <2>2. CASE j = k
    <3>1. Owner[k] = u
      BY <1>0, <1>2, <2>2, ZenonT(30) DEF Emplace, LogOK, InsertOK
    <3> QED
      BY <1>0, <1>2, <2>2, <3>1
  <2> QED
    BY <2>1, <2>2
<1>3. ASSUME NEW u \in Threads, NEW j \in Keys, NEW e \in WrittenEntries,
             pc[u] = "idle", MayWrite(u, j), SetExisting(u, j, e)
      PROVE  Goal
  <2>1. u # t /\ Owner[j] = u
    BY <1>3 DEF MayWrite
  <2>2. j # k
    BY <1>0, <2>1
  <2> QED
    BY <1>0, <1>3, <2>2, SMTT(30) DEF SetExisting
<1>4. ASSUME NEW u \in Threads, Undo(u) \/ Reinsert(u) PROVE Goal
  <2> DEFINE n == Len(recoder[u])
  <2>1. /\ n \in Nat \ {0} /\ recoder[u][n] \in Change
        /\ data' = data \/ data' = [data EXCEPT ![KeyOf(u, n)] = OldOf(u, n)]
    BY <1>0, <1>4, UndoPops, SMTT(30)
  <2>2. u # t
    BY <1>4, SMTT(30) DEF Undo, Reinsert
  <2>3. Owner[KeyOf(u, n)] = u
    BY <1>0, <2>1, SMTT(30) DEF LogOK, Undoable, Levels, KeyOf
  <2>4. KeyOf(u, n) # k
    BY <1>0, <2>2, <2>3
  <2> HIDE DEF n
  <2> QED
    BY <1>0, <2>1, <2>4, SMTT(30)
<1>5. ASSUME NEW u \in Threads, DropRecoders(u) PROVE Goal
  BY <1>5 DEF DropRecoders
<1>6. CASE UNCHANGED <<data, recoder>>
  BY <1>6
<1> HIDE DEF Goal
<1>7. CASE \E u \in Threads, j \in Keys : Import(u, j) \/ Emplace(u, j)
  BY <1>1, <1>2, <1>7
<1>8. CASE \E u \in Threads, j \in Keys, e \in WrittenEntries :
             pc[u] = "idle" /\ MayWrite(u, j) /\ SetExisting(u, j, e)
  BY <1>3, <1>8
<1>9. CASE \E u \in Threads : Undo(u) \/ Reinsert(u) \/ DropRecoders(u)
  BY <1>4, <1>5, <1>9
<1> QED
  BY <1>6, <1>7, <1>8, <1>9, RowSteps
-----------------------------------------------------------------------------
(***************************************************************************)
(* Writes.  The row of a write is the caller's own; until it is inserted it *)
(* is still missing, and then it holds the entry that was written.          *)
(***************************************************************************)
WriteOK(t) ==
  op[t].kind = "set" =>
    /\ pc[t] \in {"emplace", "count", "done"}
    /\ \A k \in op[t].want :
         /\ Owner[k] = t
         /\ pc[t] = "emplace" =>
              op[t].todo = {k} /\ data[k] = NoEntry /\ op[t].entry.status # "PURGED"
         /\ pc[t] \in {"count", "done"} /\ ~op[t].err => data[k] = Stored(op[t].entry)

\* The operation a write starts with.
LEMMA WritingFields ==
  ASSUME NEW k, NEW e, NEW old
  PROVE  /\ Writing(k, e, old).kind = "set" /\ Writing(k, e, old).want = {k}
         /\ Writing(k, e, old).entry = e
         /\ [Writing(k, e, old) EXCEPT !.err = TRUE].kind = "set"
         /\ [Writing(k, e, old) EXCEPT !.err = TRUE].want = {k}
         /\ [Writing(k, e, old) EXCEPT !.err = TRUE].err = TRUE
         /\ [Writing(k, e, old) EXCEPT !.todo = {k}].kind = "set"
         /\ [Writing(k, e, old) EXCEPT !.todo = {k}].want = {k}
         /\ [Writing(k, e, old) EXCEPT !.todo = {k}].todo = {k}
         /\ [Writing(k, e, old) EXCEPT !.todo = {k}].entry = e
  BY DEF Writing, NoOp

LEMMA WriteStepOf ==
  ASSUME Scheduling = "exclusive", RollbackInv, NEW t \in Threads, WriteOK(t),
         Call(t) \/ Step(t)
  PROVE  WriteOK(t)'
<1>0. /\ data \in [Keys -> StoredEntry] /\ pc \in [Threads -> Labels]
      /\ op \in [Threads -> Op] /\ op[t] \in Op
      /\ \A k \in Keys : data[k].status = "NONE" => data[k] = NoEntry
  <2>1. data \in [Keys -> StoredEntry] /\ pc \in [Threads -> Labels] /\ op \in [Threads -> Op]
    BY DEF RollbackInv, CleanInv, TypeInv, TypeOK
  <2> QED
    BY <2>1, SMTT(30) DEF StoredEntry
<1> USE <1>0 DEF Goto
<1>1. ASSUME NEW k \in Keys, NEW e \in WrittenEntries, AsyncSetRow(t, k, e)
      PROVE  WriteOK(t)'
  <2>1. Owner[k] = t
    BY <1>1 DEF AsyncSetRow, MayWrite
  <2>2. CASE SetRefused(t, k, e)
    <3>1. op'[t].want = {k} /\ op'[t].err = TRUE /\ pc'[t] = "done"
      BY <2>2, WritingFields DEF SetRefused
    <3> QED
      BY <2>1, <3>1 DEF WriteOK
  <2>3. CASE SetExisting(t, k, e)
    <3>1. op'[t].want = {k} /\ op'[t].entry = e /\ pc'[t] = "count"
      BY <2>3, WritingFields DEF SetExisting
    <3>2. data'[k] = Stored(e)
      BY <2>3 DEF SetExisting
    <3> QED
      BY <2>1, <3>1, <3>2 DEF WriteOK
  <2>4. CASE PurgeMissing(t, k, e)
    <3>1. op'[t].want = {k} /\ op'[t].entry = e /\ pc'[t] = "done"
      BY <2>4, WritingFields DEF PurgeMissing
    <3>2. data'[k] = Stored(e)
      BY <2>4 DEF PurgeMissing, Stored, rows
    <3> QED
      BY <2>1, <3>1, <3>2 DEF WriteOK
  <2>5. CASE SetMissing(t, k, e)
    <3>1. op'[t].want = {k} /\ op'[t].todo = {k} /\ op'[t].entry = e /\ pc'[t] = "emplace"
      BY <2>5, WritingFields DEF SetMissing
    <3>2. data'[k] = NoEntry /\ e.status # "PURGED"
      BY <2>5 DEF SetMissing, rows
    <3> QED
      BY <2>1, <3>1, <3>2 DEF WriteOK
  <2> QED
    BY <1>1, <2>2, <2>3, <2>4, <2>5 DEF AsyncSetRow
<1>2. ASSUME NEW k \in Keys, Emplace(t, k) PROVE WriteOK(t)'
  <2>1. /\ op'[t].kind = op[t].kind /\ op'[t].want = op[t].want
        /\ op'[t].entry = op[t].entry /\ pc'[t] = "count"
        /\ pc[t] = "emplace" /\ k \in op[t].todo
    BY <1>2 DEF Emplace, Op
  <2> SUFFICES ASSUME op[t].kind = "set", NEW j \in op[t].want
               PROVE  Owner[j] = t /\ data'[j] = Stored(op[t].entry)
    BY <2>1, ZenonT(30) DEF WriteOK
  <2>2. Owner[j] = t /\ op[t].todo = {j} /\ data[j] = NoEntry /\ op[t].entry.status # "PURGED"
    BY <2>1 DEF WriteOK
  <2>3. j = k /\ data[k].status = "NONE"
    BY <2>1, <2>2, SMTT(30) DEF NoEntry
  <2> QED
    BY <1>2, <2>2, <2>3 DEF Emplace, Stored
<1>3. CASE Count(t)
  BY <1>3, SMTT(30) DEF Count, rows, WriteOK
<1>4. CASE Return(t)
  BY <1>4, SMTT(30) DEF Return, NoOp, WriteOK
<1>5. ASSUME pc[t] \notin {"emplace", "count", "done"}, op'[t].kind = op[t].kind
      PROVE  WriteOK(t)'
  BY <1>5, SMTT(30) DEF WriteOK
<1>6. ASSUME NEW k \in Keys, AsyncGetRow(t, k) PROVE WriteOK(t)'
  <2>1. op'[t].kind = "row"
    <3>1. CASE op' = [op EXCEPT ![t] = [Reading("row", {k}) EXCEPT !.miss = {k}]]
      BY <3>1 DEF Reading, NoOp
    <3>2. CASE op' = [op EXCEPT ![t] = [Reading("row", {k}) EXCEPT
                                          !.res[k] = FoundNormal(data[k])]]
      BY <3>2 DEF Reading, NoOp
    <3> QED
      BY <1>6, <3>1, <3>2, ZenonT(30) DEF AsyncGetRow
  <2> QED
    BY <2>1 DEF WriteOK
<1>7. ASSUME NEW ks \in Batches, AsyncGetRows(t, ks) \/ AsyncGetPrimaryKeys(t, ks)
      PROVE  WriteOK(t)'
  <2>1. op'[t].kind \in {"rows", "keys"}
    BY <1>7, ZenonT(30) DEF AsyncGetRows, AsyncGetPrimaryKeys, Reading, NoOp
  <2> QED
    BY <2>1 DEF WriteOK
<1>8. ASSUME NEW k \in Keys, Lookup(t, k) \/ ScanMisses(t, k) \/ Import(t, k)
      PROVE  WriteOK(t)'
  <2>1. pc[t] \in {"lookup", "import"} /\ op'[t].kind = op[t].kind
    BY <1>8, SMTT(30) DEF Lookup, ScanMisses, Import, Op
  <2> QED
    BY <1>5, <2>1
<1>9. CASE LookedUp(t) \/ PrevFails(t) \/ PrevAnswers(t)
  <2>1. pc[t] \in {"lookup", "prev"} /\ op'[t].kind = op[t].kind
    BY <1>9, SMTT(30) DEF LookedUp, PrevFails, PrevAnswers, Op
  <2> QED
    BY <1>5, <2>1
<1>10. CASE OutsideCall(t)
  BY <1>5, <1>10, OutsideCalls
<1> QED
  BY <1>1, <1>2, <1>3, <1>4, <1>6, <1>7, <1>8, <1>9, <1>10, ZenonT(30)
  DEF Call, Step, OutsideCall

LEMMA WriteStep ==
  ASSUME Scheduling = "exclusive", RollbackInv, \A t \in Threads : WriteOK(t), [Next]_vars
  PROVE  \A t \in Threads : WriteOK(t)'
<1> SUFFICES ASSUME NEW t \in Threads PROVE WriteOK(t)'
  OBVIOUS
<1>1. TypeInv /\ op[t] \in Op
  BY DEF RollbackInv, CleanInv, TypeInv, TypeOK
<1>2. ASSUME pc'[t] = pc[t], op'[t] = op[t] PROVE WriteOK(t)'
  <2> SUFFICES ASSUME op[t].kind = "set", NEW k \in op[t].want PROVE data'[k] = data[k]
    BY <1>2, SMTT(30) DEF WriteOK
  <2>1. Owner[k] = t /\ pc[t] \in {"emplace", "count", "done"} /\ k \in Keys
    BY <1>1 DEF WriteOK, Op
  <2>2. ~Emplace(t, k)
    BY <1>2, <1>1, <2>1 DEF Emplace, Goto, RollbackInv, CleanInv, TypeInv, TypeOK
  <2> QED
    BY <2>1, <2>2, RowFrame, ZenonT(30)
<1> QED
  BY <1>1, <1>2, OwnStepOrStays, WriteStepOf, ZenonT(30)

\* As long as threads that run in parallel keep off each other's rows, the row
\* holds what was written when asyncSetRow reports success, although the row is
\* looked up and inserted in two steps and the insertion keeps what it finds.
THEOREM WritesAreStored ==
  ASSUME Scheduling = "exclusive"
  PROVE  Spec => []AckedWriteStored
<1> DEFINE Inv == RollbackInv /\ \A t \in Threads : WriteOK(t)
<1>1. Init => Inv
  <2>1. Init => \A t \in Threads : WriteOK(t)
    BY DEF Init, NoOp, WriteOK
  <2> QED
    BY <2>1, RollbackInit
<1>2. Inv /\ [Next]_vars => Inv'
  BY RollbackStep, WriteStep, ZenonT(30)
<1>3. Inv => AckedWriteStored
  BY SMTT(30) DEF AckedWriteStored, WriteOK, Stored
<1> HIDE DEF Inv
<1> QED
  BY <1>1, <1>2, <1>3, PTL DEF Spec
-----------------------------------------------------------------------------
(***************************************************************************)
(* Reads.  Every key asked for is answered with its row's content, or is    *)
(* still pending.  A pending key that was looked up had no row then, and    *)
(* has none now or m_prev's, so m_prev's answer is still the right one when *)
(* it comes.                                                                *)
(***************************************************************************)
Reads(o) == o.kind \in {"row", "rows"}

\* The keys that were not found in m_data and that m_prev has to answer.
Missed(t) == CASE pc[t] \in {"lookup", "prev"} -> op[t].miss
               [] pc[t] = "import" -> op[t].todo
               [] OTHER -> {}
Unseen(t) == IF pc[t] = "lookup" THEN op[t].todo ELSE {}

Answered(t, k) == op[t].res[k].status # "DELETED" /\ op[t].res[k].value = View(k)

KeyOK(t, k) ==
  /\ Owner[k] \in {t, Shared}
  /\ k \in Missed(t) => k \notin Unseen(t) /\ data[k] \in {NoEntry, PrevEntry(k)}
  /\ pc[t] \in {"lookup", "prev"} /\ k \in Missed(t) \cup Unseen(t) =>
       op[t].res[k] = NoEntry
  /\ op[t].err \/ k \in Missed(t) \cup Unseen(t) \/ Answered(t, k)

ReadOK(t) ==
  Reads(op[t]) => /\ pc[t] \in {"lookup", "prev", "import", "done"}
                  /\ op[t].todo \cup op[t].miss \subseteq op[t].want
                  /\ \A k \in op[t].want : KeyOK(t, k)

\* A key stays in order when it is answered, and when nothing about it changes.
LEMMA KeyAnswered ==
  ASSUME NEW t \in Threads, NEW q, KeyOK(t, q), q \notin Missed(t)', q \notin Unseen(t)',
         op'[t].err \/ Answered(t, q)'
  PROVE  KeyOK(t, q)'
  BY ZenonT(30) DEF KeyOK

LEMMA KeyKept ==
  ASSUME NEW t \in Threads, NEW q, KeyOK(t, q),
         q \in Missed(t)' <=> q \in Missed(t), q \in Unseen(t)' <=> q \in Unseen(t),
         pc'[t] \in {"lookup", "prev"} => pc[t] \in {"lookup", "prev"},
         data'[q] = data[q], op'[t].res[q] = op[t].res[q], op'[t].err = op[t].err,
         Answered(t, q) => Answered(t, q)'
  PROVE  KeyOK(t, q)'
  BY ZenonT(30) DEF KeyOK

\* The content of a row does not change when the row is imported.
LEMMA ViewFrame ==
  ASSUME NEW k \in Keys,
         data'[k] = data[k] \/ (data[k] = NoEntry /\ data'[k] = PrevEntry(k))
  PROVE  /\ View(k)' = View(k)
         /\ data[k] \in {NoEntry, PrevEntry(k)} => data'[k] \in {NoEntry, PrevEntry(k)}
<1>1. CASE data'[k] = data[k]
  BY <1>1 DEF View
<1>2. CASE data[k] = NoEntry /\ data'[k] = PrevEntry(k)
  <2>1. View(k) = PrevRow[k]
    BY <1>2 DEF View, NoEntry
  <2>2. View(k)' = PrevRow[k]
    BY <1>2 DEF View, PrevEntry, NoEntry
  <2> QED
    BY <1>2, <2>1, <2>2
<1> QED
  BY <1>1, <1>2

\* What a lookup hands out.
LEMMA FoundIsView ==
  ASSUME NEW k \in Keys, data[k] \in StoredEntry, EmptyFor(data[k]), data[k].status # "NONE"
  PROVE  FoundNormal(data[k]).status # "DELETED" /\ FoundNormal(data[k]).value = View(k)
  BY SMTT(30) DEF FoundNormal, View, EmptyFor, NoEntry

\* What m_prev's answer is worth, while the row is missing or m_prev's.
LEMMA PrevIsView ==
  ASSUME NEW k \in Keys, data[k] \in {NoEntry, PrevEntry(k)}
  PROVE  /\ PrevEntry(k).status # "DELETED" /\ PrevEntry(k).value = View(k)
         /\ View(k) = PrevRow[k] /\ Imported(k) = PrevEntry(k)
         /\ data[k] = PrevEntry(k) \/ data[k] = NoEntry
<1>1. PrevEntry(k).status # "DELETED" /\ PrevEntry(k).value = PrevRow[k]
  BY DEF PrevEntry, NoEntry
<1>2. NoEntry.status = "NONE"
  BY DEF NoEntry
<1>3. View(k) = PrevRow[k]
  BY <1>1, <1>2 DEF View
<1>4. Imported(k) = PrevEntry(k)
  BY <1>2, SMTT(30) DEF Imported
<1> QED
  BY <1>1, <1>3, <1>4

\* The answer of m_prev is handed out.
LEMMA KeyFromPrev ==
  ASSUME NEW t \in Threads, NEW q \in Keys, KeyOK(t, q), q \notin Missed(t)', q \notin Unseen(t)',
         data' = data, data[q] \in {NoEntry, PrevEntry(q)}, op'[t].res[q] = PrevEntry(q)
  PROVE  KeyOK(t, q)'
<1>1. PrevEntry(q).status # "DELETED" /\ PrevEntry(q).value = View(q) /\ View(q)' = View(q)
  BY PrevIsView DEF View
<1>2. Answered(t, q)'
  BY <1>1, SMTT(30) DEF Answered
<1> QED
  BY <1>2, KeyAnswered, SMTT(30)

LEMMA ReadFrame ==
  ASSUME Scheduling = "exclusive", RollbackInv, [Next]_vars, NEW t \in Threads, ReadOK(t),
         pc'[t] = pc[t], op'[t] = op[t]
  PROVE  ReadOK(t)'
<1> SUFFICES ASSUME Reads(op[t]) PROVE ReadOK(t)'
  BY ZenonT(30) DEF ReadOK, Reads
<1>1. /\ op[t] \in Op /\ pc[t] \in {"lookup", "prev", "import", "done"}
      /\ op[t].todo \cup op[t].miss \subseteq op[t].want
      /\ \A k \in op[t].want : KeyOK(t, k)
  BY SMTT(30) DEF ReadOK, RollbackInv, CleanInv, TypeInv, TypeOK
<1> SUFFICES ASSUME NEW k \in op[t].want PROVE KeyOK(t, k)'
  BY <1>1, SMTT(30) DEF ReadOK
<1>2. k \in Keys /\ KeyOK(t, k)
  BY <1>1 DEF Op
<1>3. ~Emplace(t, k)
  BY <1>1 DEF Emplace
<1>4. data'[k] = data[k] \/ (data[k] = NoEntry /\ data'[k] = PrevEntry(k))
  BY <1>1, <1>2, <1>3, RowFrame, ZenonT(30) DEF KeyOK
<1>5. /\ View(k)' = View(k)
      /\ data[k] \in {NoEntry, PrevEntry(k)} => data'[k] \in {NoEntry, PrevEntry(k)}
  BY <1>2, <1>4, ViewFrame
<1>6. Missed(t)' = Missed(t) /\ Unseen(t)' = Unseen(t) /\ (Answered(t, k) => Answered(t, k)')
  BY <1>5 DEF Missed, Unseen, Answered
<1> QED
  BY <1>2, <1>5, <1>6, SMTT(30) DEF KeyOK

\* A read starts with nothing answered, unless its row is found at once.
LEMMA ReadCall ==
  ASSUME Scheduling = "exclusive", TypeInv, EmptyInv, NEW t \in Threads,
         \/ \E k \in Keys : AsyncGetRow(t, k)
         \/ \E ks \in Batches : AsyncGetRows(t, ks) \/ AsyncGetPrimaryKeys(t, ks)
  PROVE  ReadOK(t)'
<1>0. /\ data \in [Keys -> StoredEntry] /\ pc \in [Threads -> Labels]
      /\ op \in [Threads -> Op]
      /\ \A k \in Keys : EmptyFor(data[k])
      /\ \A k \in Keys : data[k].status = "NONE" => data[k] = NoEntry
  <2>1. data \in [Keys -> StoredEntry] /\ pc \in [Threads -> Labels] /\ op \in [Threads -> Op]
    BY DEF TypeInv, TypeOK
  <2> QED
    BY <2>1, SMTT(30) DEF StoredEntry, EmptyInv
<1> USE <1>0 DEF Goto
<1>1. ASSUME NEW k \in Keys, AsyncGetRow(t, k) PROVE ReadOK(t)'
  <2>1. Owner[k] \in {t, Shared} /\ data' = data
    BY <1>1 DEF AsyncGetRow, MayRead, rows
  <2>2. CASE data[k].status # "NONE"
    <3>1. /\ op'[t] = [Reading("row", {k}) EXCEPT !.res[k] = FoundNormal(data[k])]
          /\ pc'[t] = "done"
      BY <1>1, <2>2, ZenonT(30) DEF AsyncGetRow
    <3>2. /\ op'[t].want = {k} /\ op'[t].todo = {} /\ op'[t].miss = {}
          /\ op'[t].res[k] = FoundNormal(data[k])
      BY <3>1, SMTT(30) DEF Reading, NoOp
    <3>3. Answered(t, k)'
      BY <2>1, <2>2, <3>2, FoundIsView DEF Answered, View
    <3> QED
      BY <2>1, <3>1, <3>2, <3>3, ZenonT(30) DEF ReadOK, KeyOK, Missed, Unseen
  <2>3. CASE data[k].status = "NONE"
    <3>1. op'[t] = [Reading("row", {k}) EXCEPT !.miss = {k}] /\ pc'[t] = "prev"
      BY <1>1, <2>3, ZenonT(30) DEF AsyncGetRow
    <3>2. /\ op'[t].want = {k} /\ op'[t].todo = {} /\ op'[t].miss = {k}
          /\ op'[t].res[k] = NoEntry
      BY <3>1 DEF Reading, NoOp
    <3>3. data'[k] = NoEntry
      BY <2>1, <2>3
    <3>4. Missed(t)' = {k} /\ Unseen(t)' = {}
      BY <3>1, <3>2, SMTT(30) DEF Missed, Unseen
    <3>5. KeyOK(t, k)'
      BY <2>1, <3>2, <3>3, <3>4 DEF KeyOK
    <3> QED
      BY <3>1, <3>2, <3>5, ZenonT(30) DEF ReadOK
  <2> QED
    BY <2>2, <2>3
<1>2. ASSUME NEW ks \in Batches, AsyncGetRows(t, ks) \/ AsyncGetPrimaryKeys(t, ks)
      PROVE  ReadOK(t)'
  <2>1. (\A q \in ks : Owner[q] \in {t, Shared}) /\ ks \subseteq Keys
    BY <1>2, ConstantsAssumption, SMTT(30) DEF AsyncGetRows, AsyncGetPrimaryKeys, MayRead
  <2>2. ASSUME NEW kind, op'[t] = [Reading(kind, ks) EXCEPT !.todo = ks], pc'[t] = "lookup"
        PROVE  ReadOK(t)'
    <3>1. /\ op'[t].want = ks /\ op'[t].todo = ks /\ op'[t].miss = {}
          /\ \A q \in ks : op'[t].res[q] = NoEntry
      BY <2>1, <2>2 DEF Reading, NoOp
    <3>2. Missed(t)' = {} /\ Unseen(t)' = ks
      BY <2>2, <3>1, SMTT(30) DEF Missed, Unseen
    <3>3. \A q \in ks : KeyOK(t, q)'
      BY <2>1, <3>1, <3>2 DEF KeyOK
    <3> QED
      BY <2>2, <3>1, <3>3 DEF ReadOK
  <2>3. CASE AsyncGetRows(t, ks)
    BY <2>2, <2>3 DEF AsyncGetRows
  <2>4. CASE AsyncGetPrimaryKeys(t, ks)
    <3> DEFINE o == IF EnableTraverse THEN [Reading("keys", ks) EXCEPT !.todo = ks]
                                      ELSE [Reading("keys", ks) EXCEPT !.miss = ks]
    <3>1. op' = [op EXCEPT ![t] = o]
      BY <2>4, ZenonT(30) DEF AsyncGetPrimaryKeys
    <3>2. o.kind = "keys"
      BY SMTT(30) DEF Reading, NoOp
    <3> HIDE DEF o
    <3>3. op'[t].kind = "keys"
      BY <1>0, <3>1, <3>2, ZenonT(30)
    <3> QED
      BY <3>3, ZenonT(30) DEF ReadOK, Reads
  <2> QED
    BY <1>2, <2>3, <2>4
<1> QED
  BY <1>1, <1>2, SMTT(30)

\* A key is looked up in m_data.
LEMMA LookupStep ==
  ASSUME TypeInv, EmptyInv, NEW t \in Threads, ReadOK(t), NEW k \in Keys, Lookup(t, k)
  PROVE  ReadOK(t)'
<1>0. /\ data \in [Keys -> StoredEntry] /\ op \in [Threads -> Op] /\ op[t] \in Op
      /\ EmptyFor(data[k]) /\ data' = data /\ pc' = pc /\ pc[t] = "lookup" /\ k \in op[t].todo
  BY DEF TypeInv, TypeOK, EmptyInv, Lookup, rows
<1>1. data[k].status = "NONE" => data[k] = NoEntry
  BY <1>0, SMTT(30) DEF StoredEntry
<1>2. op'[t].kind = op[t].kind /\ op'[t].want = op[t].want /\ op'[t].err = op[t].err
  BY <1>0, SMTT(30) DEF Lookup, Op
<1>3. op'[t].todo = op[t].todo \ {k}
  BY <1>0, SMTT(30) DEF Lookup, Op
<1>4. data[k].status = "NONE" =>
        op'[t].miss = op[t].miss \cup {k} /\ op'[t].res = op[t].res
  BY <1>0, SMTT(30) DEF Lookup, Op
<1>5. data[k].status # "NONE" =>
        /\ op'[t].miss = op[t].miss
        /\ op'[t].res[k] = FoundNormal(data[k])
        /\ \A q \in Keys \ {k} : op'[t].res[q] = op[t].res[q]
  BY <1>0, SMTT(30) DEF Lookup, Op
<1> SUFFICES ASSUME Reads(op[t])
             PROVE  /\ op'[t].todo \cup op'[t].miss \subseteq op[t].want
                    /\ \A q \in op[t].want : KeyOK(t, q)'
  BY <1>0, <1>2 DEF ReadOK, Reads
<1>6. /\ op[t].todo \cup op[t].miss \subseteq op[t].want /\ op[t].want \subseteq Keys
      /\ \A q \in op[t].want : KeyOK(t, q)
  BY <1>0, SMTT(30) DEF ReadOK, Op
<1>7. op'[t].todo \cup op'[t].miss \subseteq op[t].want
  BY <1>0, <1>3, <1>4, <1>5, <1>6
<1>8. /\ Missed(t) = op[t].miss /\ Unseen(t) = op[t].todo
      /\ Missed(t)' = op'[t].miss /\ Unseen(t)' = op'[t].todo
  BY <1>0, SMTT(30) DEF Missed, Unseen
<1>9. ASSUME NEW q \in op[t].want, q # k PROVE KeyOK(t, q)'
  <2>1. KeyOK(t, q) /\ q \in Keys
    BY <1>6, SMTT(30)
  <2>2. op'[t].res[q] = op[t].res[q]
    <3>1. CASE data[k].status = "NONE"
      BY <1>4, <3>1, ZenonT(30)
    <3>2. CASE data[k].status # "NONE"
      BY <1>5, <1>9, <2>1, <3>2
    <3> QED BY <3>1, <3>2
  <2>3. (q \in Missed(t)' <=> q \in Missed(t)) /\ (q \in Unseen(t)' <=> q \in Unseen(t))
    BY <1>3, <1>4, <1>5, <1>8, <1>9, ZenonT(30)
  <2>4. Answered(t, q)' <=> Answered(t, q)
    BY <1>0, <2>2 DEF Answered, View
  <2> QED
    BY <1>0, <1>2, <2>1, <2>2, <2>3, <2>4, KeyKept, ZenonT(30)
<1>10. KeyOK(t, k)'
  <2>1. KeyOK(t, k) /\ k \notin op[t].miss /\ op[t].res[k] = NoEntry
    BY <1>0, <1>6, <1>8, SMTT(30) DEF KeyOK
  <2>2. CASE data[k].status = "NONE"
    <3>1. op'[t].miss = op[t].miss \cup {k} /\ op'[t].res[k] = NoEntry /\ data'[k] = NoEntry
      BY <1>0, <1>1, <1>4, <2>1, <2>2, ZenonT(30)
    <3>2. k \in Missed(t)' /\ k \notin Unseen(t)'
      BY <1>3, <1>8, <3>1, ZenonT(30)
    <3>3. Owner[k] \in {t, Shared}
      BY <2>1, ZenonT(30) DEF KeyOK
    <3> QED
      BY <3>1, <3>2, <3>3, ZenonT(30) DEF KeyOK
  <2>3. CASE data[k].status # "NONE"
    <3>1. Answered(t, k)'
      BY <1>0, <1>5, <2>3, FoundIsView DEF Answered, View
    <3>2. k \notin Missed(t)' /\ k \notin Unseen(t)'
      BY <1>3, <1>5, <1>8, <2>1, <2>3, ZenonT(30)
    <3> QED
      BY <2>1, <3>1, <3>2, KeyAnswered, ZenonT(30)
  <2> QED
    BY <2>2, <2>3, SMTT(30)
<1> QED
  BY <1>7, <1>9, <1>10

\* The last key is looked up, or m_prev fails, or answers.
LEMMA PrevStep ==
  ASSUME TypeInv, NEW t \in Threads, ReadOK(t),
         LookedUp(t) \/ PrevFails(t) \/ PrevAnswers(t)
  PROVE  ReadOK(t)'
<1>0. /\ op \in [Threads -> Op] /\ op[t] \in Op /\ pc \in [Threads -> Labels]
      /\ data' = data
  BY DEF TypeInv, TypeOK, LookedUp, PrevFails, PrevAnswers, rows
<1>1. op'[t].kind = op[t].kind /\ op'[t].want = op[t].want
  BY <1>0, SMTT(30) DEF LookedUp, PrevFails, PrevAnswers, Op
<1> SUFFICES ASSUME Reads(op[t]) PROVE ReadOK(t)'
  BY <1>1 DEF ReadOK, Reads
<1>2. /\ op[t].todo \cup op[t].miss \subseteq op[t].want /\ op[t].want \subseteq Keys
      /\ \A q \in op[t].want : KeyOK(t, q)
  BY <1>0, SMTT(30) DEF ReadOK, Op
<1>3. CASE LookedUp(t)
  <2>1. /\ op' = op /\ pc[t] = "lookup" /\ op[t].todo = {}
        /\ pc'[t] = "prev" \/ (pc'[t] = "done" /\ op[t].miss = {})
    BY <1>0, <1>3, SMTT(30) DEF LookedUp, Goto
  <2>2. /\ Missed(t) = op[t].miss /\ Unseen(t) = {} /\ Missed(t)' = op[t].miss
        /\ Unseen(t)' = {}
    BY <2>1 DEF Missed, Unseen
  <2>3. ASSUME NEW q \in op[t].want PROVE KeyOK(t, q)'
    <3>1. Answered(t, q) => Answered(t, q)'
      BY <1>0, <2>1, SMTT(30) DEF Answered, View
    <3> QED
      BY <1>0, <1>2, <2>1, <2>2, <3>1, KeyKept, ZenonT(30)
  <2> QED
    BY <1>2, <2>1, <2>3, SMTT(30) DEF ReadOK
<1>4. CASE PrevFails(t)
  <2>1. /\ pc'[t] = "done" /\ op'[t].err = TRUE
        /\ op'[t].todo = op[t].todo /\ op'[t].miss = op[t].miss
    BY <1>0, <1>4, SMTT(30) DEF PrevFails, Goto, Op
  <2>2. Missed(t)' = {} /\ Unseen(t)' = {}
    BY <2>1 DEF Missed, Unseen
  <2>3. \A q \in op[t].want : KeyOK(t, q)'
    BY <1>2, <2>1, <2>2, KeyAnswered, ZenonT(30)
  <2> QED
    BY <1>1, <1>2, <2>1, <2>3 DEF ReadOK
<1>5. CASE PrevAnswers(t)
  <2> DEFINE found == {k \in op[t].miss : PrevRow[k] # NoValue}
  <2>1. pc[t] = "prev" /\ Missed(t) = op[t].miss /\ Unseen(t) = {}
    BY <1>5, SMTT(30) DEF PrevAnswers, Missed, Unseen
  <2>2. \A q \in op[t].want \ op[t].miss : op[t].err \/ Answered(t, q)
    BY <1>2, <2>1, SMTT(30) DEF KeyOK
  <2>3. \A q \in op[t].miss : /\ op[t].res[q] = NoEntry /\ q \in Keys
                              /\ data[q] \in {NoEntry, PrevEntry(q)}
    BY <1>2, <2>1 DEF KeyOK
  <2>4. op'[t].err = op[t].err /\ op'[t].miss = op[t].miss
    BY <1>0, <1>5, SMTT(30) DEF PrevAnswers, Op
  <2>5. \A q \in op[t].miss \ found : PrevEntry(q) = NoEntry
    BY SMTT(30) DEF PrevEntry
  <2>6. op[t].kind # "keys"
    BY DEF Reads
  <2>7. /\ op'[t].todo = found /\ op'[t].res = op[t].res
        /\ pc'[t] = IF found = {} THEN "done" ELSE "import"
    BY <1>0, <1>5, <2>6, SMTT(30) DEF PrevAnswers, Goto, Op
  <2>8. Missed(t)' = found /\ Unseen(t)' = {}
    BY <2>7 DEF Missed, Unseen
  <2>9. ASSUME NEW q \in op[t].want PROVE KeyOK(t, q)'
    <3>1. CASE q \notin op[t].miss
      <4>1. op[t].err \/ Answered(t, q)'
        BY <1>0, <2>2, <2>7, <3>1, SMTT(30) DEF Answered, View
      <4> QED
        BY <1>2, <2>4, <2>8, <3>1, <4>1, KeyAnswered, ZenonT(30)
    <3>2. CASE q \in found
      BY <1>0, <1>2, <2>3, <2>7, <2>8, <3>2, ZenonT(30) DEF KeyOK
    <3>3. CASE q \in op[t].miss \ found
      <4>1. op'[t].res[q] = PrevEntry(q) /\ q \notin found
        BY <2>3, <2>5, <2>7, <3>3, ZenonT(30)
      <4> QED
        BY <1>0, <1>2, <2>3, <2>8, <3>3, <4>1, KeyFromPrev, ZenonT(30)
    <3> QED
      BY <3>1, <3>2, <3>3
  <2>10. op'[t].todo \cup op'[t].miss \subseteq op'[t].want
    BY <1>1, <1>2, <2>4, <2>7, ZenonT(30)
  <2> QED
    BY <1>1, <2>7, <2>9, <2>10 DEF ReadOK
<1> QED
  BY <1>3, <1>4, <1>5

\* A row that m_prev has is imported.
LEMMA ImportStep ==
  ASSUME TypeInv, NEW t \in Threads, ReadOK(t), NEW k \in Keys, Import(t, k)
  PROVE  ReadOK(t)'
<1>0. /\ data \in [Keys -> StoredEntry] /\ op \in [Threads -> Op] /\ op[t] \in Op
      /\ pc \in [Threads -> Labels] /\ pc[t] = "import" /\ k \in op[t].todo
  BY DEF TypeInv, TypeOK, Import
<1>1. /\ op'[t].kind = op[t].kind /\ op'[t].want = op[t].want /\ op'[t].err = op[t].err
      /\ op'[t].todo = op[t].todo \ {k} /\ op'[t].miss = op[t].miss
  BY <1>0, SMTT(30) DEF Import, Op
<1>2. op'[t].res[k] = Imported(k) /\ \A q \in Keys \ {k} : op'[t].res[q] = op[t].res[q]
  BY <1>0, SMTT(30) DEF Import, Op
<1>3. pc'[t] = IF op[t].todo = {k} THEN "done" ELSE "import"
  BY <1>0 DEF Import, Goto
<1>4. /\ \A q \in Keys \ {k} : data'[q] = data[q]
      /\ data'[k] = data[k] \/ data'[k] = Imported(k)
  BY <1>0, SMTT(30) DEF Import
<1> SUFFICES ASSUME Reads(op[t]) PROVE ReadOK(t)'
  BY <1>1 DEF ReadOK, Reads
<1>5. /\ op[t].todo \cup op[t].miss \subseteq op[t].want /\ op[t].want \subseteq Keys
      /\ \A q \in op[t].want : KeyOK(t, q)
  BY <1>0 DEF ReadOK, Op
<1>6. Missed(t) = op[t].todo /\ Unseen(t) = {} /\ Missed(t)' = op'[t].todo /\ Unseen(t)' = {}
  BY <1>0, <1>1, <1>3 DEF Missed, Unseen
<1>7. ASSUME NEW q \in op[t].want, q # k PROVE KeyOK(t, q)'
  <2>1. KeyOK(t, q) /\ q \in Keys /\ data'[q] = data[q] /\ op'[t].res[q] = op[t].res[q]
    BY <1>2, <1>4, <1>5, <1>7, SMTT(30)
  <2>2. q \in Missed(t)' <=> q \in Missed(t)
    BY <1>1, <1>6, <1>7, SMTT(30)
  <2>3. Answered(t, q)' <=> Answered(t, q)
    BY <2>1, SMTT(30) DEF Answered, View
  <2> QED
    BY <1>1, <1>3, <1>6, <2>1, <2>2, <2>3, KeyKept, ZenonT(30)
<1>8. KeyOK(t, k)'
  <2>1. Owner[k] \in {t, Shared} /\ data[k] \in {NoEntry, PrevEntry(k)}
    BY <1>0, <1>5, <1>6, SMTT(30) DEF KeyOK
  <2>2. op'[t].res[k] = PrevEntry(k) /\ data'[k] \in {NoEntry, PrevEntry(k)}
    BY <1>2, <1>4, <2>1, PrevIsView, ZenonT(30)
  <2>3. PrevEntry(k).status # "DELETED" /\ PrevEntry(k).value = View(k)'
    <3>1. PrevEntry(k).status # "DELETED" /\ PrevEntry(k).value = PrevRow[k]
      BY DEF PrevEntry, NoEntry
    <3>2. NoEntry.status = "NONE"
      BY DEF NoEntry
    <3> QED
      BY <2>2, <3>1, <3>2 DEF View
  <2>4. Answered(t, k)'
    BY <2>2, <2>3 DEF Answered
  <2>5. KeyOK(t, k) /\ k \notin Missed(t)' /\ k \notin Unseen(t)'
    BY <1>0, <1>1, <1>5, <1>6, ZenonT(30)
  <2> QED
    BY <2>4, <2>5, KeyAnswered, SMTT(30)
<1> QED
  BY <1>1, <1>3, <1>5, <1>7, <1>8 DEF ReadOK

LEMMA ReadStepOf ==
  ASSUME Scheduling = "exclusive", TypeInv, EmptyInv, NEW t \in Threads, ReadOK(t),
         Call(t) \/ Step(t)
  PROVE  ReadOK(t)'
<1>0. pc \in [Threads -> Labels] /\ op \in [Threads -> Op] /\ op[t] \in Op
  BY SMTT(30) DEF TypeInv, TypeOK
<1>1. ASSUME NEW k \in Keys, NEW e \in WrittenEntries, AsyncSetRow(t, k, e)
      PROVE  ReadOK(t)'
  <2>1. op'[t].kind = "set"
    <3>1. CASE SetRefused(t, k, e)
      BY <1>0, <3>1, WritingFields DEF SetRefused
    <3>2. CASE SetExisting(t, k, e)
      BY <1>0, <3>2, WritingFields DEF SetExisting
    <3>3. CASE PurgeMissing(t, k, e)
      BY <1>0, <3>3, WritingFields DEF PurgeMissing
    <3>4. CASE SetMissing(t, k, e)
      BY <1>0, <3>4, WritingFields, SMTT(30) DEF SetMissing
    <3> QED
      BY <1>1, <3>1, <3>2, <3>3, <3>4 DEF AsyncSetRow
  <2> QED
    BY <2>1, SMTT(30) DEF ReadOK, Reads
<1>2. CASE Return(t)
  BY <1>0, <1>2, SMTT(30) DEF Return, NoOp, ReadOK, Reads
<1>3. ASSUME pc[t] \notin {"lookup", "prev", "import", "done"}, op'[t].kind = op[t].kind
      PROVE  ReadOK(t)'
  BY <1>3 DEF ReadOK, Reads
<1>4. ASSUME NEW k \in Keys, Emplace(t, k) PROVE ReadOK(t)'
  BY <1>0, <1>3, <1>4 DEF Emplace, Op
<1>5. CASE Count(t)
  BY <1>0, <1>3, <1>5, SMTT(30) DEF Count
<1>6. CASE OutsideCall(t)
  BY <1>3, <1>6, OutsideCalls, ZenonT(30) DEF OutsideCall
<1>7. ASSUME NEW k \in Keys, ScanMisses(t, k) PROVE ReadOK(t)'
  BY <1>0, <1>7, SMTT(30) DEF ScanMisses, ReadOK, Reads, Op
<1> QED
  BY <1>1, <1>2, <1>4, <1>5, <1>6, <1>7, ReadCall, LookupStep, PrevStep, ImportStep, ZenonT(60)
  DEF Call, Step, OutsideCall

LEMMA ReadStep ==
  ASSUME Scheduling = "exclusive", RollbackInv, EmptyInv, \A t \in Threads : ReadOK(t),
         [Next]_vars
  PROVE  \A t \in Threads : ReadOK(t)'
<1>1. TypeInv
  BY DEF RollbackInv, CleanInv
<1> QED
  BY <1>1, OwnStepOrStays, ReadStepOf, ReadFrame, ZenonT(30)

\* As long as threads that run in parallel keep off each other's rows, every
\* read of rows (asyncGetRow, asyncGetRows) answers the content last written to the row, or else m_prev's, also
\* when m_prev's answer comes long after the lookup and the row has been
\* imported by another thread meanwhile; and no deletion mark gets out.
THEOREM ReadsAreCorrect ==
  ASSUME Scheduling = "exclusive"
  PROVE  Spec => []ReadsReturnView
<1> DEFINE Inv == RollbackInv /\ EmptyInv /\ \A t \in Threads : ReadOK(t)
<1>1. Init => Inv
  <2>1. Init => \A t \in Threads : ReadOK(t)
    BY DEF Init, NoOp, ReadOK, Reads
  <2> QED
    BY <2>1, RollbackInit, EmptyInit, SMTT(30)
<1>2. Inv /\ [Next]_vars => Inv'
  <2>1. RollbackInv => TypeInv
    BY SMTT(30) DEF RollbackInv, CleanInv
  <2> QED
    BY <2>1, RollbackStep, EmptyStep, ReadStep, ZenonT(30)
<1>3. Inv => ReadsReturnView
  <2> SUFFICES ASSUME Inv, NEW t \in Threads, pc[t] = "done", ~op[t].err, Reads(op[t]),
                      NEW k \in op[t].want
               PROVE  Answered(t, k)
    BY SMTT(30) DEF ReadsReturnView, Reads, Answered
  <2>1. Missed(t) = {} /\ Unseen(t) = {} /\ KeyOK(t, k)
    BY DEF Missed, Unseen, ReadOK
  <2> QED
    BY <2>1, ZenonT(30) DEF KeyOK
<1> HIDE DEF Inv
<1> QED
  BY <1>1, <1>2, <1>3, PTL DEF Spec
=============================================================================

----------------------- MODULE StateStorageRefinement -----------------------
(***************************************************************************)
(* StateStorage implements SavepointStore: a rollback takes effect when it *)
(* begins, since nobody but the owner of the rows may look at them before  *)
(* it has ended.                                                           *)
(***************************************************************************)
EXTENDS StateStorage

RollingBack(t) == pc[t] \in {"undo", "reinsert", "thrown"}

\* what the block has written, with the rollbacks that have begun done
Written == [k \in Keys |->
  IF Owner[k] \in Threads /\ RollingBack(Owner[k])
  THEN saves[Owner[k]][Len(saves[Owner[k]])][k]
  ELSE Dirty(data[k])]

Savepoints == [t \in Threads |->
  IF RollingBack(t) THEN SubSeq(saves[t], 1, Len(saves[t]) - 1) ELSE saves[t]]

Store == INSTANCE SavepointStore WITH
  Rows <- WrittenEntries, NoRow <- NoEntry, written <- Written, savepoints <- Savepoints

\* Whatever is read, imported, erased and re-inserted row by row, callers that
\* keep to their own rows see a store with atomic savepoints: a step of
\* StateStorage is a write of one row, a savepoint, a revert, or invisible.
ImplementsSavepoints == Store!Spec
=============================================================================

------------------------- MODULE StateStorageProofs -------------------------
(***************************************************************************)
(* Proofs about StateStorage, for any threads, rows, contents, older        *)
(* storage and bounds.                                                      *)
(***************************************************************************)
EXTENDS StateStorage, TLAPS

LEMMA ElementOfSeq ==
  ASSUME NEW S, NEW s \in Seq(S), NEW i \in 1 .. Len(s)
  PROVE  s[i] \in S
OBVIOUS

LEMMA EmptySeq ==
  ASSUME NEW S
  PROVE  /\ << >> \in Seq(S)
         /\ Len(<< >>) = 0
         /\ \A s \in Seq(S) : s # << >> => Len(s) \in Nat \ {0}
OBVIOUS

LEMMA LenProperties ==
  ASSUME NEW S, NEW s \in Seq(S)
  PROVE  /\ Len(s) \in Nat
         /\ s \in [1 .. Len(s) -> S]
         /\ DOMAIN s = 1 .. Len(s)
OBVIOUS

LEMMA AppendProperties ==
  ASSUME NEW S, NEW s \in Seq(S), NEW e \in S
  PROVE  /\ Append(s, e) \in Seq(S)
         /\ Append(s, e) # << >>
         /\ Len(Append(s, e)) = Len(s) + 1
         /\ \A i \in 1 .. Len(s) : Append(s, e)[i] = s[i]
         /\ Append(s, e)[Len(s) + 1] = e
OBVIOUS

LEMMA SubSeqProperties ==
  ASSUME NEW S, NEW s \in Seq(S), NEW m \in 1 .. Len(s) + 1, NEW n \in m - 1 .. Len(s)
  PROVE  /\ SubSeq(s, m, n) \in Seq(S)
         /\ Len(SubSeq(s, m, n)) = n - m + 1
         /\ \A i \in 1 .. n - m + 1 : SubSeq(s, m, n)[i] = s[m + i - 1]
OBVIOUS

LEMMA SubSeqEmpty ==
  ASSUME NEW s, NEW m \in Int, NEW n \in Int, n < m
  PROVE  SubSeq(s, m, n) = << >>
OBVIOUS

\* Removing the last change of a recorder.
LEMMA FrontFacts ==
  ASSUME NEW S, NEW s \in Seq(S), s # <<>>
  PROVE  /\ SubSeq(s, 1, Len(s) - 1) \in Seq(S)
         /\ Len(SubSeq(s, 1, Len(s) - 1)) = Len(s) - 1
         /\ \A i \in 1 .. Len(s) - 1 : SubSeq(s, 1, Len(s) - 1)[i] = s[i]
<1> DEFINE n == Len(s) - 1
<1>1. n \in Nat /\ \A i \in 1 .. n : s[i] \in S
  BY EmptySeq, ElementOfSeq
<1>2. \A i \in 1 .. n : SubSeq(s, 1, n)[i] = s[i]
  BY EmptySeq
<1> HIDE DEF n
<1>3. /\ SubSeq(s, 1, n) \in Seq(S)
      /\ Len(SubSeq(s, 1, n)) = IF 1 <= n THEN n - 1 + 1 ELSE 0
  BY <1>1, SubSeqProperties
<1>4. Len(SubSeq(s, 1, n)) = n
  BY <1>1, <1>3
<1> QED
  BY <1>2, <1>3, <1>4 DEF n

\* Adding a change to a recorder.
LEMMA AppendFacts ==
  ASSUME NEW S, NEW s \in Seq(S), NEW e \in S
  PROVE  /\ Append(s, e) \in Seq(S)
         /\ Len(Append(s, e)) = Len(s) + 1
         /\ \A i \in 1 .. Len(s) : Append(s, e)[i] = s[i]
         /\ Append(s, e)[Len(s) + 1] = e
  BY AppendProperties

-----------------------------------------------------------------------------
(***************************************************************************)
(* Types.  The entry that waits to be inserted is a written one, and not    *)
(* PURGED.                                                                  *)
(***************************************************************************)
Insertable(e) == e.status \in {"NORMAL", "DELETED"} /\ (e.dirty \/ e \in UnsetEntries)
EmplaceTyped == \A t \in Threads : pc[t] = "emplace" => Insertable(op[t].entry)
TypeInv == TypeOK /\ EmplaceTyped

LEMMA EntryFacts ==
  /\ NoEntry \in StoredEntry
  /\ StoredEntry \subseteq Entry
  /\ \A k \in Keys : PrevEntry(k) \in StoredEntry
  /\ WrittenEntries \subseteq Entry
  /\ \A e \in WrittenEntries : /\ Stored(e) \in StoredEntry
                               /\ e.dirty \/ e \in UnsetEntries
                               /\ e.status \in {"NORMAL", "DELETED", "PURGED"}
  /\ \A e \in StoredEntry : FoundNormal(e) \in StoredEntry
  /\ NoOp \in Op
<1>1. NoEntry \in StoredEntry /\ StoredEntry \subseteq Entry
  <2>1. NoEntry \in Entry
    BY DEF NoEntry, Entry, Statuses
  <2> QED
    BY <2>1 DEF StoredEntry, Entry, Statuses
<1>2. \A k \in Keys : PrevEntry(k) \in StoredEntry
  BY <1>1, ConstantsAssumption, ZenonT(30) DEF PrevEntry, StoredEntry, Statuses
<1>3. \A e \in StoredEntry : FoundNormal(e) \in StoredEntry
  BY <1>1 DEF FoundNormal
<1>4. ASSUME NEW e \in WrittenEntries
      PROVE  /\ e \in Entry /\ Stored(e) \in StoredEntry
             /\ e.dirty \/ e \in UnsetEntries
             /\ e.status \in {"NORMAL", "DELETED", "PURGED"}
  <2>1. PICK st \in {"NORMAL", "DELETED", "PURGED"}, v \in Values \cup {NoValue},
             b \in BOOLEAN :
          e = [status |-> st, value |-> v, dirty |-> b] /\ (b \/ e \in UnsetEntries)
    <3>1. CASE e \in UnsetEntries
      BY <3>1, ConstantsAssumption DEF UnsetEntries
    <3>2. CASE e \notin UnsetEntries
      BY <3>2 DEF WrittenEntries, SetEntry
    <3> QED
      BY <3>1, <3>2
  <2>2. e \in Entry /\ e.dirty = b /\ e.status = st
    BY <2>1 DEF Entry, Statuses
  <2> QED
    BY <1>1, <2>1, <2>2 DEF Stored, StoredEntry, Statuses
<1>5. NoOp \in Op
  BY <1>1 DEF NoOp, Op, Kinds
<1> QED
  BY <1>1, <1>2, <1>3, <1>4, <1>5

LEMMA TypeInit == Init => TypeInv
<1> SUFFICES ASSUME Init PROVE TypeInv
  OBVIOUS
<1>1. data \in [Keys -> StoredEntry] /\ op \in [Threads -> Op]
  BY EntryFacts DEF Init
<1>2. recoder \in [Threads -> Seq(Change)] /\ saves \in [Threads -> Seq([Keys -> Entry])]
  BY EmptySeq DEF Init
<1>3. pc \in [Threads -> Labels]
  BY DEF Init, Labels
<1> QED
  BY <1>1, <1>2, <1>3, ZenonT(30) DEF Init, TypeInv, TypeOK, EmplaceTyped

LEMMA ModTyped == ASSUME NEW n \in Int, NEW m \in Nat \ {0} PROVE n % m \in Nat
OBVIOUS

\* The parts of Op that an operation starts from or changes.
LEMMA ReadingTyped ==
  ASSUME NEW kind \in Kinds, NEW ks \in SUBSET Keys
  PROVE  Reading(kind, ks) \in Op /\ Reading(kind, ks).entry = NoEntry
BY EntryFacts, ZenonT(30) DEF Reading, NoOp, Op

LEMMA WritingTyped ==
  ASSUME TypeInv, NEW k \in Keys, NEW e \in WrittenEntries, NEW old \in StoredEntry
  PROVE  Writing(k, e, old) \in Op /\ Writing(k, e, old).entry = e
<1>1. e \in Entry /\ e.value \in Values \cup {NoValue} /\ old.value \in Values \cup {NoValue}
  BY EntryFacts DEF Entry, StoredEntry
<1> DEFINE d == Size[e.value] - Size[old.value]
<1>2. Size[e.value] \in Nat /\ Size[old.value] \in Nat
  BY <1>1, ConstantsAssumption, ZenonT(30)
<1>3. d \in Int
  BY <1>2
<1>4. capacity \in Nat /\ NoOp \in Op
  BY EntryFacts DEF TypeInv, TypeOK
<1>5. Writing(k, e, old) = [NoOp EXCEPT !.kind = "set", !.want = {k}, !.entry = e,
                                        !.cap = capacity, !.delta = d]
  BY DEF Writing
<1>6. \A o \in Op, c \in Nat, n \in Int :
        LET w == [o EXCEPT !.kind = "set", !.want = {k}, !.entry = e, !.cap = c,
                           !.delta = n]
        IN  w \in Op /\ w.entry = e
  BY <1>1, ZenonT(30) DEF Op, Kinds
<1> HIDE DEF d
<1>7. LET w == [NoOp EXCEPT !.kind = "set", !.want = {k}, !.entry = e, !.cap = capacity,
                           !.delta = d]
      IN  w \in Op /\ w.entry = e
  BY <1>3, <1>4, <1>6, ZenonT(30)
<1> QED
  BY <1>5, <1>7

\* A step that sets op[t] and pc[t], to anything of their types, keeps them typed.
LEMMA OpTyped ==
  ASSUME TypeInv, NEW t \in Threads, NEW o \in Op, NEW l \in Labels,
         op' = [op EXCEPT ![t] = o], pc' = [pc EXCEPT ![t] = l],
         l = "emplace" => Insertable(o.entry)
  PROVE  op' \in [Threads -> Op] /\ pc' \in [Threads -> Labels] /\ EmplaceTyped'
BY DEF TypeInv, TypeOK, EmplaceTyped

\* Recoder::log keeps the recorders typed.
LEMMA LogTyped ==
  ASSUME TypeInv, NEW t \in Threads, NEW k \in Keys, NEW old \in StoredEntry,
         Log(t, k, old)
  PROVE  recoder' \in [Threads -> Seq(Change)]
<1>1. Len(saves[t]) \in Nat
  BY LenProperties DEF TypeInv, TypeOK
<1>2. [rec |-> Len(saves[t]), key |-> k, old |-> old] \in Change
  BY <1>1 DEF Change
<1>3. Append(recoder[t], [rec |-> Len(saves[t]), key |-> k, old |-> old]) \in Seq(Change)
  BY <1>2, AppendFacts DEF TypeInv, TypeOK
<1> QED
  BY <1>3 DEF Log, TypeInv, TypeOK

\* One step per operation of the storage.
LEMMA TypeStep == TypeInv /\ [Next]_vars => TypeInv'
<1> SUFFICES ASSUME TypeInv, [Next]_vars PROVE TypeInv'
  OBVIOUS
<1> USE DEF Goto, rows, locks
<1>1. ASSUME NEW t \in Threads, NEW k \in Keys, AsyncGetRow(t, k) PROVE TypeInv'
  <2>1. data[k] \in StoredEntry /\ FoundNormal(data[k]) \in Entry
    BY EntryFacts DEF TypeInv, TypeOK
  <2>2. Reading("row", {k}) \in Op
    BY ReadingTyped DEF Kinds
  <2>3. /\ [Reading("row", {k}) EXCEPT !.res[k] = FoundNormal(data[k])] \in Op
        /\ [Reading("row", {k}) EXCEPT !.miss = {k}] \in Op
    BY <2>1, <2>2, ZenonT(30) DEF Op
  <2>4. op' \in [Threads -> Op] /\ pc' \in [Threads -> Labels] /\ EmplaceTyped'
    BY <1>1, <2>3, OpTyped, ZenonT(30) DEF AsyncGetRow, Labels
  <2> QED
    BY <1>1, <2>4 DEF AsyncGetRow, TypeInv, TypeOK
<1>2. ASSUME NEW t \in Threads, NEW ks \in Batches, AsyncGetRows(t, ks) PROVE TypeInv'
  <2>1. Reading("rows", ks) \in Op /\ ks \in SUBSET Keys
    BY ReadingTyped, ConstantsAssumption, ZenonT(30) DEF Kinds
  <2>2. [Reading("rows", ks) EXCEPT !.todo = ks] \in Op
    BY <2>1, SMTT(30) DEF Op
  <2>3. op' \in [Threads -> Op] /\ pc' \in [Threads -> Labels] /\ EmplaceTyped'
    BY <1>2, <2>2, OpTyped, ZenonT(30) DEF AsyncGetRows, Labels
  <2> QED
    BY <1>2, <2>3 DEF AsyncGetRows, TypeInv, TypeOK
<1>3. ASSUME NEW t \in Threads, NEW ks \in Batches, AsyncGetPrimaryKeys(t, ks)
      PROVE  TypeInv'
  <2>1. Reading("keys", ks) \in Op /\ ks \in SUBSET Keys
    BY ReadingTyped, ConstantsAssumption, ZenonT(30) DEF Kinds
  <2>2. /\ [Reading("keys", ks) EXCEPT !.todo = ks] \in Op
        /\ [Reading("keys", ks) EXCEPT !.miss = ks] \in Op
    BY <2>1, SMTT(30) DEF Op
  <2>3. op' \in [Threads -> Op] /\ pc' \in [Threads -> Labels] /\ EmplaceTyped'
    BY <1>3, <2>2, OpTyped, ConstantsAssumption, ZenonT(30) DEF AsyncGetPrimaryKeys, Labels
  <2> QED
    BY <1>3, <2>3 DEF AsyncGetPrimaryKeys, TypeInv, TypeOK
<1>4. ASSUME NEW t \in Threads, NEW k \in Keys, Lookup(t, k) \/ ScanMisses(t, k)
      PROVE  TypeInv'
  <2>1. op[t] \in Op /\ FoundNormal(data[k]) \in Entry
    BY EntryFacts DEF TypeInv, TypeOK
  <2>2. /\ [op[t] EXCEPT !.todo = @ \ {k}, !.miss = @ \cup {k}] \in Op
        /\ [op[t] EXCEPT !.todo = @ \ {k}, !.res[k] = FoundNormal(data[k])] \in Op
    BY <2>1, ZenonT(30) DEF Op
  <2>3. pc' = [pc EXCEPT ![t] = "lookup"]
    BY <1>4 DEF Lookup, ScanMisses, TypeInv, TypeOK
  <2>4. PICK o \in Op : op' = [op EXCEPT ![t] = o]
    <3>1. \/ op' = [op EXCEPT ![t] = [op[t] EXCEPT !.todo = @ \ {k}, !.miss = @ \cup {k}]]
          \/ op' = [op EXCEPT ![t] = [op[t] EXCEPT !.todo = @ \ {k},
                                                  !.res[k] = FoundNormal(data[k])]]
      BY <1>4, ZenonT(30) DEF Lookup, ScanMisses
    <3> QED
      BY <2>2, <3>1, ZenonT(30)
  <2>5. op' \in [Threads -> Op] /\ pc' \in [Threads -> Labels] /\ EmplaceTyped'
    BY <2>3, <2>4, OpTyped, ZenonT(30) DEF Labels
  <2> QED
    BY <1>4, <2>5 DEF Lookup, ScanMisses, TypeInv, TypeOK
<1>5. ASSUME NEW t \in Threads, LookedUp(t) PROVE TypeInv'
  BY <1>5 DEF LookedUp, TypeInv, TypeOK, EmplaceTyped, Labels
<1>6. ASSUME NEW t \in Threads, PrevFails(t) PROVE TypeInv'
  <2>1. op' = [op EXCEPT ![t] = [op[t] EXCEPT !.err = TRUE]]
    BY <1>6 DEF PrevFails
  <2>2. [op[t] EXCEPT !.err = TRUE] \in Op
    BY ZenonT(30) DEF TypeInv, TypeOK, Op
  <2>3. op' \in [Threads -> Op] /\ pc' \in [Threads -> Labels] /\ EmplaceTyped'
    BY <1>6, <2>1, <2>2, OpTyped, ZenonT(30) DEF PrevFails, Labels
  <2> QED
    BY <1>6, <2>3 DEF PrevFails, TypeInv, TypeOK
<1>7. ASSUME NEW t \in Threads, PrevAnswers(t) PROVE TypeInv'
  <2> DEFINE found == {k \in op[t].miss : PrevRow[k] # NoValue}
             res == [k \in Keys |-> IF k \in found THEN PrevEntry(k) ELSE op[t].res[k]]
  <2>1. op[t] \in Op /\ found \in SUBSET Keys /\ res \in [Keys -> Entry]
    BY EntryFacts DEF TypeInv, TypeOK, Op
  <2>2. /\ [op[t] EXCEPT !.res = res] \in Op
        /\ [op[t] EXCEPT !.todo = found] \in Op
    BY <2>1 DEF Op
  <2>3. PICK l \in {"done", "import"} : pc' = [pc EXCEPT ![t] = l]
    BY <1>7 DEF PrevAnswers
  <2>4. \/ op' = [op EXCEPT ![t] = [op[t] EXCEPT !.res = res]]
        \/ op' = [op EXCEPT ![t] = [op[t] EXCEPT !.todo = found]]
    BY <1>7 DEF PrevAnswers
  <2>5. op' \in [Threads -> Op] /\ pc' \in [Threads -> Labels] /\ EmplaceTyped'
    <3> HIDE DEF found, res
    <3> QED BY <2>2, <2>3, <2>4, OpTyped, ZenonT(30) DEF Labels
  <2> QED
    BY <1>7, <2>5 DEF PrevAnswers, TypeInv, TypeOK
<1>8. ASSUME NEW t \in Threads, NEW k \in Keys, Import(t, k) PROVE TypeInv'
  <2>1. Imported(k) \in StoredEntry /\ Imported(k) \in Entry /\ op[t] \in Op
    BY EntryFacts DEF Imported, TypeInv, TypeOK
  <2>2. [op[t] EXCEPT !.todo = @ \ {k}, !.res[k] = Imported(k)] \in Op
    BY <2>1, ZenonT(30) DEF Op
  <2>3. op' = [op EXCEPT ![t] = [op[t] EXCEPT !.todo = @ \ {k}, !.res[k] = Imported(k)]]
    BY <1>8, ZenonT(30) DEF Import
  <2>4. op' \in [Threads -> Op] /\ pc' \in [Threads -> Labels] /\ EmplaceTyped'
    BY <1>8, <2>2, <2>3, OpTyped, ZenonT(30) DEF Import, Labels
  <2>5. data' \in [Keys -> StoredEntry]
    BY <1>8, <2>1 DEF Import, TypeInv, TypeOK
  <2> QED
    BY <1>8, <2>4, <2>5 DEF Import, TypeInv, TypeOK
<1>9. ASSUME NEW t \in Threads, Return(t) PROVE TypeInv'
  <2>1. op' \in [Threads -> Op] /\ pc' \in [Threads -> Labels] /\ EmplaceTyped'
    BY <1>9, EntryFacts, OpTyped, ZenonT(30) DEF Return, Labels
  <2> QED
    BY <1>9, <2>1, SMTT(30) DEF Return, TypeInv, TypeOK
<1>10. ASSUME NEW t \in Threads, NEW k \in Keys, NEW e \in WrittenEntries,
              AsyncSetRow(t, k, e)
       PROVE  TypeInv'
  <2>1. data[k] \in StoredEntry /\ NoEntry \in StoredEntry /\ Stored(e) \in StoredEntry
    BY EntryFacts DEF TypeInv, TypeOK
  <2>2. /\ Writing(k, e, data[k]) \in Op /\ Writing(k, e, NoEntry) \in Op
        /\ Writing(k, e, NoEntry).entry = e
    BY <2>1, WritingTyped
  <2>3. /\ [Writing(k, e, NoEntry) EXCEPT !.err = TRUE] \in Op
        /\ [Writing(k, e, NoEntry) EXCEPT !.todo = {k}] \in Op
        /\ [Writing(k, e, NoEntry) EXCEPT !.todo = {k}].entry = e
    BY <2>2, ZenonT(30) DEF Op
  <2>4. op' \in [Threads -> Op] /\ pc' \in [Threads -> Labels] /\ EmplaceTyped'
    <3>1. CASE SetRefused(t, k, e)
      BY <3>1, <2>3, OpTyped, ZenonT(30) DEF SetRefused, Labels
    <3>2. CASE SetExisting(t, k, e)
      BY <3>2, <2>2, OpTyped, ZenonT(30) DEF SetExisting, Labels
    <3>3. CASE PurgeMissing(t, k, e)
      BY <3>3, <2>2, OpTyped, ZenonT(30) DEF PurgeMissing, Labels
    <3>4. CASE SetMissing(t, k, e)
      <4>1. Insertable(e)
        BY <3>4, EntryFacts DEF SetMissing, Insertable
      <4> QED
        BY <3>4, <4>1, <2>3, OpTyped, ZenonT(30) DEF SetMissing, Labels
    <3> QED
      BY <1>10, <3>1, <3>2, <3>3, <3>4 DEF AsyncSetRow
  <2>5. data' \in [Keys -> StoredEntry] /\ readers' \subseteq Threads /\ saves' = saves
    BY <1>10, <2>1, ZenonT(30)
    DEF AsyncSetRow, SetRefused, SetExisting, PurgeMissing, SetMissing, TypeInv, TypeOK
  <2>6. recoder' \in [Threads -> Seq(Change)]
    BY <1>10, <2>1, LogTyped DEF AsyncSetRow, SetRefused, SetExisting, PurgeMissing,
                                 SetMissing, TypeInv, TypeOK
  <2> QED
    BY <1>10, <2>4, <2>5, <2>6 DEF AsyncSetRow, TypeInv, TypeOK
<1>11. ASSUME NEW t \in Threads, NEW k \in Keys, Emplace(t, k) PROVE TypeInv'
  <2>1. op[t] \in Op /\ op[t].entry \in StoredEntry /\ NoEntry \in StoredEntry
    BY <1>11, EntryFacts DEF Emplace, TypeInv, TypeOK, EmplaceTyped, Insertable, Op,
                             Entry, StoredEntry, Statuses
  <2>2. [op[t] EXCEPT !.todo = {}, !.cap = capacity] \in Op
    BY <2>1, ZenonT(30) DEF Op, TypeInv, TypeOK
  <2>3. op' = [op EXCEPT ![t] = [op[t] EXCEPT !.todo = {}, !.cap = capacity]]
    BY <1>11, ZenonT(30) DEF Emplace
  <2>4. op' \in [Threads -> Op] /\ pc' \in [Threads -> Labels] /\ EmplaceTyped'
    BY <1>11, <2>2, <2>3, OpTyped, ZenonT(30) DEF Emplace, Labels
  <2>5. data' \in [Keys -> StoredEntry] /\ recoder' \in [Threads -> Seq(Change)]
    BY <1>11, <2>1, LogTyped DEF Emplace, TypeInv, TypeOK
  <2> QED
    BY <1>11, <2>4, <2>5 DEF Emplace, TypeInv, TypeOK
<1>12. ASSUME NEW t \in Threads, Count(t) PROVE TypeInv'
  <2>1. op[t].cap \in Nat /\ op[t].delta \in Int
    BY DEF TypeInv, TypeOK, Op
  <2>2. op[t].cap + op[t].delta \in Int
    BY <2>1
  <2>3. CapMod \in Nat \ {0}
    BY ConstantsAssumption, ZenonT(30)
  <2>4. capacity' \in Nat
    BY <1>12, <2>2, <2>3, ModTyped, ZenonT(30) DEF Count
  <2> QED
    BY <1>12, <2>4 DEF Count, TypeInv, TypeOK, EmplaceTyped, Labels
<1>13. ASSUME NEW t \in Threads, InstallRecoder(t) PROVE TypeInv'
  <2>1. OwnOverlay(t) \in [Keys -> Entry]
    BY EntryFacts DEF OwnOverlay, Dirty, TypeInv, TypeOK
  <2>2. saves' \in [Threads -> Seq([Keys -> Entry])]
    BY <1>13, <2>1, AppendFacts DEF InstallRecoder, TypeInv, TypeOK
  <2> QED
    BY <1>13, <2>2 DEF InstallRecoder, TypeInv, TypeOK, EmplaceTyped
<1>14. ASSUME NEW t \in Threads, DropRecoders(t) PROVE TypeInv'
  <2>1. /\ saves' \in [Threads -> Seq([Keys -> Entry])]
        /\ recoder' \in [Threads -> Seq(Change)]
    BY <1>14, EmptySeq DEF DropRecoders, TypeInv, TypeOK
  <2> QED
    BY <1>14, <2>1 DEF DropRecoders, TypeInv, TypeOK, EmplaceTyped
<1>15. ASSUME NEW t \in Threads, Rollback(t) PROVE TypeInv'
  BY <1>15 DEF Rollback, TypeInv, TypeOK, EmplaceTyped, Labels
<1>16. ASSUME NEW t \in Threads, Undo(t) \/ Reinsert(t) PROVE TypeInv'
  <2> DEFINE change == recoder[t][NextToUndo(t)]
  <2>1. recoder[t] \in Seq(Change) /\ recoder[t] # <<>>
    BY <1>16 DEF Undo, Reinsert, LeftToUndo, TypeInv, TypeOK
  <2>2. Len(recoder[t]) \in 1 .. Len(recoder[t])
    BY <2>1, EmptySeq
  <2>3. change \in Change
    BY <2>1, <2>2, ElementOfSeq DEF NextToUndo
  <2>4. data' \in [Keys -> StoredEntry]
    <3>1. data' = data \/ data' = [data EXCEPT ![change.key] = change.old]
      BY <1>16 DEF Undo, Reinsert
    <3> QED
      BY <2>3, <3>1, ZenonT(30) DEF TypeInv, TypeOK, Change
  <2>5. recoder' \in [Threads -> Seq(Change)]
    <3>1. recoder' = [recoder EXCEPT ![t] = SubSeq(@, 1, Len(@) - 1)]
      BY <1>16 DEF Undo, Reinsert, Undone
    <3> QED
      BY <2>1, <3>1, FrontFacts DEF TypeInv, TypeOK
  <2> QED
    BY <1>16, <2>4, <2>5, ZenonT(30) DEF Undo, Reinsert, TypeInv, TypeOK, EmplaceTyped, Labels
<1>17. ASSUME NEW t \in Threads, UndoErased(t) \/ UndoThrows(t) PROVE TypeInv'
  BY <1>17, ZenonT(30) DEF UndoErased, UndoThrows, TypeInv, TypeOK, EmplaceTyped, Labels
<1>18. ASSUME NEW t \in Threads, RolledBack(t) PROVE TypeInv'
  <2>1. saves[t] \in Seq([Keys -> Entry]) /\ Len(saves[t]) \in Nat
    BY LenProperties DEF TypeInv, TypeOK
  <2>2. SubSeq(saves[t], 1, Len(saves[t]) - 1) \in Seq([Keys -> Entry])
    <3>1. CASE saves[t] = <<>>
      BY <3>1, EmptySeq, SubSeqEmpty
    <3>2. CASE saves[t] # <<>>
      BY <3>2, <2>1, FrontFacts
    <3> QED BY <3>1, <3>2
  <2> QED
    BY <1>18, <2>2 DEF RolledBack, TypeInv, TypeOK, EmplaceTyped, Labels
<1>19. ASSUME NEW t \in Threads, Traverse(t) \/ TraverseLocked(t) \/ TraverseDone(t)
       PROVE  TypeInv'
  BY <1>19, ZenonT(30)
  DEF Traverse, TraverseLocked, TraverseDone, TypeInv, TypeOK, EmplaceTyped, Labels
<1>20. ASSUME NEW b \in BOOLEAN, SetReadOnly(b) PROVE TypeInv'
  BY <1>20 DEF SetReadOnly, TypeInv, TypeOK, EmplaceTyped
<1>21. CASE UNCHANGED vars
  BY <1>21 DEF vars, TypeInv, TypeOK, EmplaceTyped
<1> QED
  BY <1>1, <1>2, <1>3, <1>4, <1>5, <1>6, <1>7, <1>8, <1>9, <1>10, <1>11, <1>12,
     <1>13, <1>14, <1>15, <1>16, <1>17, <1>18, <1>19, <1>20, <1>21
     DEF Next, Call, Step

\* The state of the storage is always well typed: in particular m_data and the
\* recorders never hold a PURGED entry, and m_capacity stays a natural number
\* whatever is subtracted from it.
THEOREM TypeCorrect == Spec => []TypeOK
<1>1. Spec => []TypeInv
  BY TypeInit, TypeStep, PTL DEF Spec
<1> QED
  BY <1>1, PTL DEF TypeInv
-----------------------------------------------------------------------------
\* The changes recorded for a thread.
Changes(t) == 1 .. Len(recoder[t])
KeyOf(t, j) == recoder[t][j].key
RecOf(t, j) == recoder[t][j].rec
OldOf(t, j) == recoder[t][j].old

\* Only these steps change a row or a recorder's changes.
LEMMA RowSteps ==
  ASSUME [Next]_vars
  PROVE  \/ UNCHANGED <<data, recoder>>
         \/ \E t \in Threads, k \in Keys : Import(t, k) \/ Emplace(t, k)
         \/ \E t \in Threads, k \in Keys, e \in WrittenEntries :
              pc[t] = "idle" /\ MayWrite(t, k) /\ SetExisting(t, k, e)
         \/ \E t \in Threads : Undo(t) \/ Reinsert(t) \/ DropRecoders(t)
<1> USE DEF rows
<1>1. ASSUME NEW t \in Threads, Call(t)
      PROVE  \/ UNCHANGED <<data, recoder>>
             \/ \E k \in Keys, e \in WrittenEntries :
                  pc[t] = "idle" /\ MayWrite(t, k) /\ SetExisting(t, k, e)
             \/ DropRecoders(t)
  BY <1>1, ZenonT(30) DEF Call, AsyncGetRow, AsyncGetRows, AsyncGetPrimaryKeys, AsyncSetRow,
              SetRefused, PurgeMissing, SetMissing, InstallRecoder, Rollback, Traverse
<1>2. ASSUME NEW t \in Threads, Step(t)
      PROVE  \/ UNCHANGED <<data, recoder>>
             \/ \E k \in Keys : Import(t, k) \/ Emplace(t, k)
             \/ Undo(t) \/ Reinsert(t)
  BY <1>2, ZenonT(30) DEF Step, Lookup, ScanMisses, LookedUp, PrevFails, PrevAnswers,
              Count, Return, UndoErased, UndoThrows, RolledBack, TraverseLocked, TraverseDone
<1>3. ASSUME NEW b \in BOOLEAN, SetReadOnly(b) PROVE UNCHANGED <<data, recoder>>
  BY <1>3 DEF SetReadOnly
<1>4. CASE UNCHANGED vars
  BY <1>4 DEF vars
<1> QED
  BY <1>1, <1>2, <1>3, <1>4 DEF Next

\* What Recoder::log does to the recorders, as a sequence.
LEMMA LogAppends ==
  ASSUME TypeInv, NEW t \in Threads, NEW k \in Keys, NEW old \in StoredEntry,
         Log(t, k, old)
  PROVE  /\ \A u \in Threads \ {t} : recoder'[u] = recoder[u]
         /\ saves[t] = <<>> => recoder'[t] = recoder[t]
         /\ saves[t] # <<>> =>
              /\ Len(recoder'[t]) = Len(recoder[t]) + 1
              /\ \A j \in Changes(t) : recoder'[t][j] = recoder[t][j]
              /\ recoder'[t][Len(recoder[t]) + 1] =
                   [rec |-> Len(saves[t]), key |-> k, old |-> old]
<1> DEFINE c == [rec |-> Len(saves[t]), key |-> k, old |-> old]
<1>1. Len(saves[t]) \in Nat
  BY LenProperties DEF TypeInv, TypeOK
<1>2. c \in Change /\ recoder[t] \in Seq(Change)
  BY <1>1, ZenonT(30) DEF Change, TypeInv, TypeOK
<1>3. /\ Len(Append(recoder[t], c)) = Len(recoder[t]) + 1
      /\ \A j \in 1 .. Len(recoder[t]) : Append(recoder[t], c)[j] = recoder[t][j]
      /\ Append(recoder[t], c)[Len(recoder[t]) + 1] = c
  BY <1>2, AppendFacts
<1>4. /\ \A u \in Threads \ {t} : recoder'[u] = recoder[u]
      /\ saves[t] = <<>> => recoder'[t] = recoder[t]
      /\ saves[t] # <<>> => recoder'[t] = Append(recoder[t], c)
  BY DEF Log, TypeInv, TypeOK
<1> QED
  BY <1>3, <1>4 DEF Changes

\* What Undo and Reinsert do: the newest change is taken off and its old entry
\* put back, unless Reinsert finds the row there.
LEMMA UndoPops ==
  ASSUME TypeInv, NEW t \in Threads, Undo(t) \/ Reinsert(t)
  PROVE  LET n == Len(recoder[t])
         IN  /\ n \in Nat \ {0} /\ recoder[t][n] \in Change
             /\ RecOf(t, n) = Len(saves[t])
             /\ \A u \in Threads \ {t} : recoder'[u] = recoder[u]
             /\ Len(recoder'[t]) = n - 1
             /\ \A j \in 1 .. n - 1 : recoder'[t][j] = recoder[t][j]
             /\ \/ data' = [data EXCEPT ![KeyOf(t, n)] = OldOf(t, n)]
                \/ data' = data /\ Reinsert(t) /\ data[KeyOf(t, n)].status # "NONE"
<1>1. recoder[t] \in Seq(Change) /\ recoder[t] # <<>>
  BY DEF Undo, Reinsert, LeftToUndo, TypeInv, TypeOK
<1>2. Len(recoder[t]) \in Nat \ {0}
  BY <1>1, EmptySeq
<1>3. recoder[t][Len(recoder[t])] \in Change
  BY <1>1, <1>2, ElementOfSeq
<1>4. /\ \A u \in Threads \ {t} : recoder'[u] = recoder[u]
      /\ recoder'[t] = SubSeq(recoder[t], 1, Len(recoder[t]) - 1)
  BY DEF Undo, Reinsert, Undone, TypeInv, TypeOK
<1>5. /\ Len(recoder'[t]) = Len(recoder[t]) - 1
      /\ \A j \in 1 .. Len(recoder[t]) - 1 : recoder'[t][j] = recoder[t][j]
  BY <1>1, <1>4, FrontFacts
<1>6. \/ data' = [data EXCEPT ![KeyOf(t, Len(recoder[t]))] = OldOf(t, Len(recoder[t]))]
      \/ data' = data /\ Reinsert(t) /\ data[KeyOf(t, Len(recoder[t]))].status # "NONE"
  BY DEF Undo, Reinsert, NextToUndo, KeyOf, OldOf
<1>7. RecOf(t, Len(recoder[t])) = Len(saves[t])
  BY DEF Undo, Reinsert, LeftToUndo, RecOf
<1> QED
  BY <1>2, <1>3, <1>4, <1>5, <1>6, <1>7

LEMMA ChangeTyped ==
  ASSUME TypeInv, NEW t \in Threads, NEW j \in Changes(t)
  PROVE  /\ recoder[t][j] \in Change /\ Len(recoder[t]) \in Nat
         /\ RecOf(t, j) \in Nat /\ KeyOf(t, j) \in Keys /\ OldOf(t, j) \in StoredEntry
<1>1. recoder[t] \in Seq(Change)
  BY DEF TypeInv, TypeOK
<1>2. recoder[t][j] \in Change /\ Len(recoder[t]) \in Nat
  BY <1>1, LenProperties, ElementOfSeq DEF Changes
<1> QED
  BY <1>2 DEF Change, RecOf, KeyOf, OldOf
-----------------------------------------------------------------------------
(***************************************************************************)
(* Clean rows.  The recorders keep clean entries too, and rollback puts     *)
(* them back, so the invariant speaks of both.                              *)
(***************************************************************************)
CleanFor(k, e) == ~e.dirty => e \in {NoEntry, PrevEntry(k)} \cup UnsetEntries

CleanLogged ==
  \A t \in Threads : \A i \in 1 .. Len(recoder[t]) :
    CleanFor(recoder[t][i].key, recoder[t][i].old)

CleanInv == TypeInv /\ CleanRowsMatchPrev /\ CleanLogged

LEMMA CleanInit == Init => CleanInv
<1> SUFFICES ASSUME Init PROVE CleanInv
  OBVIOUS
<1>1. \A t \in Threads : Len(recoder[t]) = 0
  BY EmptySeq DEF Init
<1> QED
  BY <1>1, TypeInit DEF Init, CleanInv, CleanRowsMatchPrev, CleanLogged

\* Recording a clean-or-dirty entry of a row keeps CleanLogged.
LEMMA CleanLog ==
  ASSUME CleanInv, NEW t \in Threads, NEW k \in Keys, NEW old \in StoredEntry,
         CleanFor(k, old), Log(t, k, old)
  PROVE  CleanLogged'
<1> SUFFICES ASSUME NEW u \in Threads, NEW j \in 1 .. Len(recoder'[u])
             PROVE  CleanFor(recoder'[u][j].key, recoder'[u][j].old)
  BY DEF CleanLogged, CleanFor
<1>1. TypeInv /\ CleanLogged /\ \A v \in Threads : Len(recoder[v]) \in Nat
  BY LenProperties DEF CleanInv, TypeInv, TypeOK
<1>2. CASE recoder'[u] = recoder[u]
  BY <1>1, <1>2 DEF CleanLogged
<1>3. CASE recoder'[u] # recoder[u]
  <2>1. u = t /\ saves[t] # <<>>
    BY <1>1, <1>3, LogAppends, ZenonT(30)
  <2>2. CASE j \in Changes(t)
    BY <1>1, <2>1, <2>2, LogAppends, ZenonT(30) DEF CleanLogged, Changes
  <2>3. CASE j = Len(recoder[t]) + 1
    <3>1. recoder'[u][j] = [rec |-> Len(saves[t]), key |-> k, old |-> old]
      BY <1>1, <2>1, <2>3, LogAppends, ZenonT(30)
    <3>2. recoder'[u][j].key = k /\ recoder'[u][j].old = old
      BY <3>1
    <3> QED
      BY <3>2
  <2>4. Len(recoder'[u]) = Len(recoder[t]) + 1
    BY <1>1, <2>1, LogAppends, ZenonT(30)
  <2> QED
    BY <1>1, <2>2, <2>3, <2>4 DEF Changes
<1> QED
  BY <1>2, <1>3

LEMMA CleanStep == CleanInv /\ [Next]_vars => CleanInv'
<1> SUFFICES ASSUME CleanInv, [Next]_vars PROVE CleanInv'
  OBVIOUS
<1>1. TypeInv /\ CleanRowsMatchPrev /\ CleanLogged
  BY DEF CleanInv
<1>2. TypeInv'
  BY <1>1, TypeStep
<1>3. \A k \in Keys : data[k] \in StoredEntry /\ CleanFor(k, data[k])
  BY <1>1 DEF TypeInv, TypeOK, CleanRowsMatchPrev, CleanFor
<1> SUFFICES CleanRowsMatchPrev' /\ CleanLogged'
  BY <1>2 DEF CleanInv
<1>4. CASE UNCHANGED <<data, recoder>>
  BY <1>1, <1>4 DEF CleanRowsMatchPrev, CleanLogged
<1>5. ASSUME NEW t \in Threads, NEW k \in Keys, Import(t, k)
      PROVE  CleanRowsMatchPrev' /\ CleanLogged'
  <2>1. CleanFor(k, Imported(k)) /\ Imported(k) \in StoredEntry
    BY <1>3, EntryFacts DEF Imported, CleanFor
  <2>2. \A j \in Keys : data'[j] = data[j] \/ (j = k /\ data'[j] = Imported(k))
    BY <1>1, <1>5 DEF Import, TypeInv, TypeOK
  <2> QED
    BY <1>1, <1>5, <2>1, <2>2 DEF Import, CleanRowsMatchPrev, CleanLogged, CleanFor
<1>6. ASSUME NEW t \in Threads, NEW k \in Keys, Emplace(t, k)
      PROVE  CleanRowsMatchPrev' /\ CleanLogged'
  <2>1. op[t].entry.dirty \/ op[t].entry \in UnsetEntries
    BY <1>1, <1>6 DEF Emplace, TypeInv, EmplaceTyped, Insertable
  <2>2. \A j \in Keys : data'[j] = data[j] \/ data'[j] = op[t].entry
    BY <1>1, <1>6 DEF Emplace, TypeInv, TypeOK
  <2>3. CleanRowsMatchPrev'
    BY <1>1, <2>1, <2>2 DEF CleanRowsMatchPrev
  <2>4. CleanLogged'
    BY <1>6, CleanLog, EntryFacts DEF Emplace, CleanFor
  <2> QED
    BY <2>3, <2>4
<1>7. ASSUME NEW t \in Threads, NEW k \in Keys, NEW e \in WrittenEntries,
             SetExisting(t, k, e)
      PROVE  CleanRowsMatchPrev' /\ CleanLogged'
  <2>1. CleanFor(k, Stored(e))
    BY EntryFacts DEF Stored, CleanFor
  <2>2. \A j \in Keys : data'[j] = data[j] \/ (j = k /\ data'[j] = Stored(e))
    BY <1>1, <1>7 DEF SetExisting, TypeInv, TypeOK
  <2>3. CleanRowsMatchPrev'
    BY <1>1, <2>1, <2>2 DEF CleanRowsMatchPrev, CleanFor
  <2>4. CleanLogged'
    BY <1>3, <1>7, CleanLog DEF SetExisting
  <2> QED
    BY <2>3, <2>4
<1>8. ASSUME NEW t \in Threads, Undo(t) \/ Reinsert(t)
      PROVE  CleanRowsMatchPrev' /\ CleanLogged'
  <2> DEFINE n == Len(recoder[t])
  <2>1. /\ n \in Nat \ {0}
        /\ \A u \in Threads \ {t} : recoder'[u] = recoder[u]
        /\ Len(recoder'[t]) = n - 1
        /\ \A j \in 1 .. n - 1 : recoder'[t][j] = recoder[t][j]
        /\ data' = data \/ data' = [data EXCEPT ![KeyOf(t, n)] = OldOf(t, n)]
    BY <1>1, <1>8, UndoPops
  <2>2. CleanLogged'
    BY <1>1, <2>1, SMTT(30) DEF CleanLogged
  <2>3. CleanFor(KeyOf(t, n), OldOf(t, n))
    BY <1>1, <2>1 DEF CleanLogged, KeyOf, OldOf
  <2>4. CleanRowsMatchPrev'
    BY <1>1, <2>1, <2>3, ZenonT(30) DEF CleanRowsMatchPrev, CleanFor, TypeInv, TypeOK
  <2> QED
    BY <2>2, <2>4, SMTT(30)
<1>9. ASSUME NEW t \in Threads, DropRecoders(t) PROVE CleanRowsMatchPrev' /\ CleanLogged'
  <2>1. \A u \in Threads : recoder'[u] = recoder[u] \/ Len(recoder'[u]) = 0
    BY <1>1, <1>9, EmptySeq DEF DropRecoders, TypeInv, TypeOK
  <2> QED
    BY <1>1, <1>9, <2>1 DEF DropRecoders, CleanRowsMatchPrev, CleanLogged
<1> QED
  BY <1>4, <1>5, <1>6, <1>7, <1>8, <1>9, RowSteps

\* Whatever the threads do, and in whatever order their calls interleave, a row
\* in m_data that is not marked dirty is the row of the older storage or an entry
\* that asyncSetRow was given unmarked: no import, rollback or lost insertion
\* hides a change from the hash and the commit, which skip such rows.
THEOREM CleanRowsCorrect == Spec => []CleanRowsMatchPrev
<1>1. Spec => []CleanInv
  BY CleanInit, CleanStep, PTL DEF Spec
<1> QED
  BY <1>1, PTL DEF CleanInv
-----------------------------------------------------------------------------
(***************************************************************************)
(* The mutex.  Nobody shares it while a thread holds it exclusively, an     *)
(* insertion shares it until its bytes are counted, and, with callers that  *)
(* do not roll back while rows are visited, no rollback meets a visit.      *)
(***************************************************************************)
LockInv ==
  /\ writer # {} => readers = {}
  /\ \A t \in Threads : pc[t] \in {"emplace", "count"} => t \in readers
  /\ \A t \in writer : pc[t] = "traverse"
  /\ \A t, u \in Threads :
       pc[t] \in {"undo", "reinsert"} => pc[u] \notin {"waiting", "traverse"}

LEMMA LockInit == Init => LockInv
  BY DEF Init, LockInv

\* What a step of thread t may do to the mutex and to the thread's place.
LockStepOf(t) ==
  /\ \A u \in Threads \ {t} : pc'[u] = pc[u]
  /\ \/ UNCHANGED <<readers, writer>>
     \/ readers' = readers \cup {t} /\ writer' = writer /\ writer = {}
     \/ readers' = readers \ {t} /\ writer' = writer /\ pc'[t] \in {"done", "import"}
     \/ writer' = {t} /\ readers' = readers /\ readers = {} /\ pc'[t] = "traverse"
     \/ writer' = writer \ {t} /\ readers' = readers /\ pc'[t] = "idle"
  /\ pc'[t] \in {"emplace", "count"} => t \in readers'
  /\ t \in writer' => pc'[t] = "traverse"
  /\ pc'[t] \in {"undo", "reinsert"} =>
       \/ pc[t] \in {"undo", "reinsert"}
       \/ \A u \in Threads : pc[u] \notin {"waiting", "traverse"}
  /\ pc'[t] \in {"waiting", "traverse"} =>
       \/ pc[t] \in {"waiting", "traverse"}
       \/ \A u \in Threads : pc[u] \notin {"undo", "reinsert"}

LEMMA LockStepKeeps ==
  ASSUME TypeInv, LockInv, NEW t \in Threads, LockStepOf(t)
  PROVE  LockInv'
<1>1. readers \subseteq Threads /\ writer \subseteq Threads
  BY DEF TypeInv, TypeOK
<1>2. writer' \subseteq Threads
  BY <1>1, ZenonT(30) DEF LockStepOf
<1>3. writer' # {} => readers' = {}
  BY SMTT(30) DEF LockInv, LockStepOf
<1>4. \A u \in Threads : pc'[u] \in {"emplace", "count"} => u \in readers'
  <2> SUFFICES ASSUME NEW u \in Threads, pc'[u] \in {"emplace", "count"}, u # t
               PROVE  u \in readers'
    BY DEF LockStepOf
  <2> QED
    BY SMTT(30) DEF LockInv, LockStepOf
<1>5. \A u \in writer' : pc'[u] = "traverse"
  BY <1>2, SMTT(30) DEF LockInv, LockStepOf
<1>6. \A u, v \in Threads :
        pc'[u] \in {"undo", "reinsert"} => pc'[v] \notin {"waiting", "traverse"}
  <2> SUFFICES ASSUME NEW u \in Threads, NEW v \in Threads,
                      pc'[u] \in {"undo", "reinsert"}, pc'[v] \in {"waiting", "traverse"}
               PROVE  FALSE
    OBVIOUS
  <2>1. u # v
    OBVIOUS
  <2>2. CASE u = t
    BY <2>1, <2>2, SMTT(30) DEF LockInv, LockStepOf
  <2>3. CASE v = t
    BY <2>1, <2>3, SMTT(30) DEF LockInv, LockStepOf
  <2>4. CASE u # t /\ v # t
    BY <2>4, SMTT(30) DEF LockInv, LockStepOf
  <2> QED
    BY <2>2, <2>3, <2>4
<1> QED
  BY <1>3, <1>4, <1>5, <1>6 DEF LockInv

LEMMA LockStep ==
  ASSUME Scheduling # "any", TypeInv, LockInv, [Next]_vars
  PROVE  LockInv'
<1>0. pc \in [Threads -> Labels] /\ readers \subseteq Threads /\ writer \subseteq Threads
  BY DEF TypeInv, TypeOK
<1> USE <1>0 DEF Goto, locks, LockStepOf
<1>1. ASSUME NEW t \in Threads, NEW k \in Keys, AsyncGetRow(t, k) PROVE LockStepOf(t)
  BY <1>1, SMTT(30) DEF AsyncGetRow, SharedFree, LockInv
<1>2. ASSUME NEW t \in Threads, NEW ks \in Batches,
             AsyncGetRows(t, ks) \/ AsyncGetPrimaryKeys(t, ks)
      PROVE  LockStepOf(t)
  BY <1>2, SMTT(30) DEF AsyncGetRows, AsyncGetPrimaryKeys, LockInv
<1>3. ASSUME NEW t \in Threads, NEW k \in Keys, NEW e \in WrittenEntries,
             AsyncSetRow(t, k, e)
      PROVE  LockStepOf(t)
  <2>1. pc[t] = "idle" /\ writer' = writer /\ t \notin writer
    BY <1>3, SMTT(30) DEF AsyncSetRow, LockInv
  <2>2. CASE SetRefused(t, k, e) \/ PurgeMissing(t, k, e)
    BY <2>1, <2>2, SMTT(30) DEF SetRefused, PurgeMissing
  <2>3. CASE SetExisting(t, k, e) \/ SetMissing(t, k, e)
    BY <2>1, <2>3, SMTT(30) DEF SetExisting, SetMissing, SharedFree
  <2> QED
    BY <1>3, <2>2, <2>3 DEF AsyncSetRow
<1>4. ASSUME NEW t \in Threads, Rollback(t) PROVE LockStepOf(t)
  BY <1>4, SMTT(30) DEF Rollback, LockInv
<1>5. ASSUME NEW t \in Threads, Traverse(t) PROVE LockStepOf(t)
  BY <1>5, SMTT(30) DEF Traverse, LockInv
<1>6. ASSUME NEW t \in Threads, LookedUp(t) \/ Return(t) PROVE LockStepOf(t)
  BY <1>6, SMTT(30) DEF LookedUp, Return, LockInv
<1>7. ASSUME NEW t \in Threads, PrevFails(t) \/ Count(t) PROVE LockStepOf(t)
  BY <1>7, SMTT(30) DEF PrevFails, Count, LockInv
<1>8. ASSUME NEW t \in Threads, PrevAnswers(t) PROVE LockStepOf(t)
  BY <1>8, SMTT(30) DEF PrevAnswers, LockInv
<1>9. ASSUME NEW t \in Threads, NEW k \in Keys, Import(t, k) PROVE LockStepOf(t)
  BY <1>9, SMTT(30) DEF Import, LockInv
<1>10. ASSUME NEW t \in Threads, NEW k \in Keys, Emplace(t, k) PROVE LockStepOf(t)
  BY <1>10, SMTT(30) DEF Emplace, LockInv
<1>11. ASSUME NEW t \in Threads,
              UndoErased(t) \/ UndoThrows(t) \/ Reinsert(t) \/ RolledBack(t)
       PROVE  LockStepOf(t)
  BY <1>11, SMTT(30) DEF UndoErased, UndoThrows, Reinsert, RolledBack, LockInv
<1>12. ASSUME NEW t \in Threads, TraverseLocked(t) PROVE LockStepOf(t)
  BY <1>12, SMTT(30) DEF TraverseLocked
<1>13. ASSUME NEW t \in Threads, TraverseDone(t) PROVE LockStepOf(t)
  BY <1>13, SMTT(30) DEF TraverseDone, LockInv
<1>14. ASSUME NEW t \in Threads, NEW k \in Keys, Lookup(t, k) \/ ScanMisses(t, k)
       PROVE  UNCHANGED <<pc, readers, writer>>
  BY <1>14, SMTT(30) DEF Lookup, ScanMisses
<1>15. ASSUME NEW t \in Threads, InstallRecoder(t) \/ DropRecoders(t) \/ Undo(t)
       PROVE  UNCHANGED <<pc, readers, writer>>
  BY <1>15, SMTT(30) DEF InstallRecoder, DropRecoders, Undo
<1>16. ASSUME NEW b \in BOOLEAN, SetReadOnly(b) PROVE UNCHANGED <<pc, readers, writer>>
  BY <1>16 DEF SetReadOnly
<1>17. CASE UNCHANGED vars
  BY <1>17 DEF vars, LockInv
<1> HIDE DEF LockStepOf
<1>18. UNCHANGED <<pc, readers, writer>> \/ \E t \in Threads : LockStepOf(t)
  BY <1>1, <1>2, <1>3, <1>4, <1>5, <1>6, <1>7, <1>8, <1>9, <1>10, <1>11, <1>12, <1>13,
     <1>14, <1>15, <1>16, <1>17, ZenonT(60) DEF Next, Call, Step, vars
<1>19. UNCHANGED <<pc, readers, writer>> => LockInv'
  BY DEF LockInv
<1> QED
  BY <1>18, <1>19, LockStepKeeps

\* While a thread holds the mutex exclusively, only imports change rows.
LEMMA VisitedRowsStep ==
  ASSUME Scheduling # "any", TypeInv, LockInv, [Next]_vars, writer # {}
  PROVE  data' = data \/ \E t \in Threads, k \in Keys : Import(t, k)
<1>1. PICK v \in Threads : pc[v] = "traverse"
  BY DEF LockInv, TypeInv, TypeOK
<1>2. \A t \in Threads, k \in Keys : ~Emplace(t, k)
  BY SMTT(30) DEF Emplace, LockInv
<1>3. \A t \in Threads, k \in Keys, e \in WrittenEntries : ~SetExisting(t, k, e)
  BY DEF SetExisting, SharedFree
<1>4. \A t \in Threads : ~Undo(t) /\ ~Reinsert(t)
  BY <1>1, SMTT(30) DEF Undo, Reinsert, LockInv
<1>5. \A t \in Threads : DropRecoders(t) => data' = data
  BY DEF DropRecoders
<1> QED
  BY <1>2, <1>3, <1>4, <1>5, RowSteps, ZenonT(30)

\* An imported row is clean, and takes the place of no row.
LEMMA ImportKeepsOverlay ==
  ASSUME TypeInv, NEW t \in Threads, NEW k \in Keys, Import(t, k)
  PROVE  Overlay' = Overlay
<1>1. data \in [Keys -> StoredEntry] /\ data' \in [Keys -> StoredEntry]
  <2>1. data \in [Keys -> StoredEntry]
    BY DEF TypeInv, TypeOK
  <2> QED
    BY <2>1, EntryFacts DEF Import, Imported
<1>2. \A j \in Keys : Dirty(data'[j]) = Dirty(data[j])
  <2> SUFFICES ASSUME NEW j \in Keys PROVE Dirty(data'[j]) = Dirty(data[j])
    OBVIOUS
  <2>1. ~PrevEntry(k).dirty /\ ~NoEntry.dirty
    BY DEF PrevEntry, NoEntry
  <2>2. data[k].status = "NONE" => data[k] = NoEntry
    BY <1>1, SMTT(30) DEF StoredEntry
  <2>3. data'[j] = data[j] \/ (j = k /\ data[k].status = "NONE" /\ data'[k] = PrevEntry(k))
    BY <1>1, SMTT(30) DEF Import, Imported
  <2> QED
    BY <2>1, <2>2, <2>3, ZenonT(30) DEF Dirty
<1> QED
  BY <1>2 DEF Overlay

\* As long as callers do not roll back while hash() or the commit visits the
\* rows, no row these take into account changes under them, although reads go
\* on importing rows and never take the mutex for that.
THEOREM VisitedRowsStandStill ==
  ASSUME Scheduling # "any"
  PROVE  Spec => OverlayStable
<1>1. TypeInv /\ LockInv /\ [Next]_vars => (TypeInv /\ LockInv)'
  BY TypeStep, LockStep
<1>2. TypeInv /\ LockInv /\ [Next]_vars =>
        [writer # {} /\ writer' = writer => Overlay' = Overlay]_vars
  <2> SUFFICES ASSUME TypeInv, LockInv, [Next]_vars, writer # {} PROVE Overlay' = Overlay
    OBVIOUS
  <2>1. data' = data => Overlay' = Overlay
    BY DEF Overlay
  <2> QED
    BY <2>1, VisitedRowsStep, ImportKeepsOverlay
<1> QED
  BY <1>1, <1>2, TypeInit, LockInit, PTL DEF Spec, OverlayStable
-----------------------------------------------------------------------------
(***************************************************************************)
(* Rollback.  For a thread t, its changes log, its recorders sv and the     *)
(* rows d: a row that no recorder from i on has a change for is what it was *)
(* when recorder i was installed; otherwise the oldest such change holds    *)
(* that.  A change that says "the row was not there" is followed by one     *)
(* that finds it there, or else the row is there now.                       *)
(***************************************************************************)
Levels(t, log, sv) ==
  /\ \A j \in 1 .. Len(log) : log[j].rec \in 1 .. Len(sv) /\ Owner[log[j].key] = t
  /\ \A i, j \in 1 .. Len(log) : i < j => log[i].rec <= log[j].rec

Untouched(t, log, sv, d) ==
  \A i \in 1 .. Len(sv), k \in Keys :
    /\ Owner[k] # t => sv[i][k] = NoEntry
    /\ /\ Owner[k] = t
       /\ \A j \in 1 .. Len(log) : log[j].key = k => log[j].rec < i
       => Dirty(d[k]) = sv[i][k]

Oldest(log, sv) ==
  \A i \in 1 .. Len(sv), j \in 1 .. Len(log) :
    /\ log[j].rec >= i
    /\ \A h \in 1 .. Len(log) : h < j /\ log[h].key = log[j].key => log[h].rec < i
    => Dirty(log[j].old) = sv[i][log[j].key]

\* Changes i and j are for the same row, none in between is.
Adjacent(log, i, j) ==
  /\ i < j /\ log[i].key = log[j].key
  /\ \A h \in 1 .. Len(log) : i < h /\ h < j => log[h].key # log[i].key

\* No change after j is for the row of j.
Newest(log, j) == \A h \in 1 .. Len(log) : j < h => log[h].key # log[j].key

Present(log, d) ==
  /\ \A i, j \in 1 .. Len(log) :
       Adjacent(log, i, j) /\ log[i].old.status = "NONE" => log[j].old.status # "NONE"
  /\ \A j \in 1 .. Len(log) :
       Newest(log, j) /\ log[j].old.status = "NONE" => d[log[j].key].status # "NONE"

Undoable(t, log, sv, d) ==
  Levels(t, log, sv) /\ Untouched(t, log, sv, d) /\ Oldest(log, sv) /\ Present(log, d)

-----------------------------------------------------------------------------
(***************************************************************************)
(* How Undoable survives each kind of change.                               *)
(***************************************************************************)
LEMMA LevelsFacts ==
  ASSUME NEW t, NEW log \in Seq(Change), NEW sv, Levels(t, log, sv)
  PROVE  \A j \in 1 .. Len(log) : /\ log[j].key \in Keys /\ Owner[log[j].key] = t
                                  /\ log[j].rec \in 1 .. Len(sv)
<1> TAKE j \in 1 .. Len(log)
<1>1. log[j] \in Change
  BY ElementOfSeq
<1> QED
  BY <1>1 DEF Levels, Change

\* The rows of t are at most imported into.
LEMMA UndoableFrame ==
  ASSUME NEW t, NEW log \in Seq(Change), NEW sv \in Seq([Keys -> Entry]),
         NEW d, NEW d2, Undoable(t, log, sv, d),
         \A k \in Keys : Owner[k] = t =>
           /\ Dirty(d2[k]) = Dirty(d[k])
           /\ d[k].status # "NONE" => d2[k].status # "NONE"
  PROVE  Undoable(t, log, sv, d2)
<1>1. \A j \in 1 .. Len(log) : log[j].key \in Keys /\ Owner[log[j].key] = t
  BY LevelsFacts, ZenonT(30) DEF Undoable
<1>2. Untouched(t, log, sv, d2)
  BY DEF Undoable, Untouched
<1>3. Present(log, d2)
  BY <1>1 DEF Undoable, Present
<1> QED
  BY <1>2, <1>3 DEF Undoable

\* asyncSetRow writes row k and records the old entry in the last recorder.
Pushed(log, log2, sv, k, old) ==
  /\ Len(log2) = Len(log) + 1
  /\ \A j \in 1 .. Len(log) : log2[j] = log[j]
  /\ log2[Len(log) + 1] = [rec |-> Len(sv), key |-> k, old |-> old]

Overwritten(d, d2, k, old) ==
  /\ \A j \in Keys \ {k} : d2[j] = d[j]
  /\ Dirty(old) = Dirty(d[k])
  /\ old.status = "NONE" => d2[k].status # "NONE"

\* The entry that the newest change for the row says was not there is there.
Follows(log, k, old) ==
  \A j \in 1 .. Len(log) :
    log[j].key = k /\ Newest(log, j) /\ log[j].old.status = "NONE" => old.status # "NONE"

LEMMA LevelsPush ==
  ASSUME NEW t, NEW log \in Seq(Change), NEW sv \in Seq([Keys -> Entry]), sv # <<>>,
         Levels(t, log, sv), NEW k \in Keys, Owner[k] = t, NEW old, NEW log2,
         Pushed(log, log2, sv, k, old)
  PROVE  Levels(t, log2, sv)
<1>1. PICK n \in Nat : n = Len(log)
  BY LenProperties
<1>2. PICK L \in Nat \ {0} : L = Len(sv)
  BY EmptySeq
<1>3. /\ log2[n + 1].rec = L /\ log2[n + 1].key = k /\ Len(log2) = n + 1
      /\ \A j \in 1 .. n : log2[j] = log[j]
  BY <1>1, <1>2 DEF Pushed
<1>4. \A j \in 1 .. n : log[j].rec \in 1 .. L /\ Owner[log[j].key] = t
  BY <1>1, <1>2 DEF Levels
<1>5. ASSUME NEW j \in 1 .. n + 1
      PROVE  log2[j].rec \in 1 .. L /\ Owner[log2[j].key] = t
  BY <1>3, <1>4
<1>6. ASSUME NEW i \in 1 .. n + 1, NEW j \in 1 .. n + 1, i < j
      PROVE  log2[i].rec <= log2[j].rec
  <2>1. CASE j = n + 1
    BY <1>3, <1>4, <1>6, <2>1, SMTT(30)
  <2>2. CASE j \in 1 .. n
    BY <1>1, <1>3, <1>6, <2>2, SMTT(30) DEF Levels
  <2> QED
    BY <2>1, <2>2
<1> QED
  BY <1>2, <1>3, <1>5, <1>6 DEF Levels

\* A change is recorded: the rows of older changes are still there.
LEMMA PresentPush ==
  ASSUME NEW log \in Seq(Change), NEW sv, NEW d, NEW d2, Present(log, d),
         NEW k \in Keys, NEW old, NEW log2,
         Pushed(log, log2, sv, k, old), Follows(log, k, old),
         \A j \in Keys \ {k} : d[j].status # "NONE" => d2[j].status # "NONE",
         old.status = "NONE" => d2[k].status # "NONE"
  PROVE  Present(log2, d2)
<1>1. PICK n \in Nat : n = Len(log)
  BY LenProperties
<1>2. /\ log2[n + 1].key = k /\ log2[n + 1].old = old /\ Len(log2) = n + 1
      /\ \A j \in 1 .. n : log2[j] = log[j]
  BY <1>1 DEF Pushed
<1>3. \A j \in 1 .. n : log[j].key \in Keys
  <2>1. \A j \in 1 .. n : log[j] \in Change
    BY <1>1, ElementOfSeq
  <2> QED
    BY <2>1 DEF Change
<1>4. ASSUME NEW i \in 1 .. n + 1, NEW j \in 1 .. n + 1, Adjacent(log2, i, j),
             log2[i].old.status = "NONE"
      PROVE  log2[j].old.status # "NONE"
  <2>1. i \in 1 .. n /\ i < j /\ log2[i] = log[i] /\ log[i].key = log2[j].key
    BY <1>2, <1>4, SMTT(30) DEF Adjacent
  <2>2. CASE j = n + 1
    <3>1. log[i].key = k /\ Newest(log, i)
      BY <1>1, <1>2, <1>4, <2>1, <2>2, SMTT(30) DEF Adjacent, Newest
    <3> QED
      BY <1>1, <1>2, <1>4, <2>1, <2>2, <3>1, SMTT(30) DEF Follows
  <2>3. CASE j \in 1 .. n
    <3>1. Adjacent(log, i, j)
      BY <1>1, <1>2, <1>4, <2>3, SMTT(30) DEF Adjacent
    <3> QED
      BY <1>1, <1>2, <1>4, <2>1, <2>3, <3>1, SMTT(30) DEF Present
  <2> QED BY <2>2, <2>3, SMTT(30)
<1>5. ASSUME NEW j \in 1 .. n + 1, Newest(log2, j), log2[j].old.status = "NONE"
      PROVE  d2[log2[j].key].status # "NONE"
  <2>1. CASE j = n + 1
    BY <1>2, <1>5, <2>1, SMTT(30)
  <2>2. CASE j \in 1 .. n
    <3>1. log[j].key # k /\ log2[j] = log[j] /\ log[j].key \in Keys
      BY <1>2, <1>3, <1>5, <2>2, SMTT(30) DEF Newest
    <3>2. Newest(log, j)
      BY <1>1, <1>2, <1>5, <2>2, SMTT(30) DEF Newest
    <3> QED
      BY <1>1, <1>5, <2>2, <3>1, <3>2, SMTT(30) DEF Present
  <2> QED BY <2>1, <2>2
<1> QED
  BY <1>2, <1>4, <1>5, SMTT(30) DEF Present

LEMMA UndoablePush ==
  ASSUME NEW t, NEW log \in Seq(Change), NEW sv \in Seq([Keys -> Entry]), sv # <<>>,
         NEW d, NEW d2, Undoable(t, log, sv, d),
         NEW k \in Keys, Owner[k] = t, NEW old, NEW log2,
         Pushed(log, log2, sv, k, old), Overwritten(d, d2, k, old), Follows(log, k, old)
  PROVE  Undoable(t, log2, sv, d2)
<1>0. (\A j \in Keys \ {k} : d2[j] = d[j]) /\ Dirty(old) = Dirty(d[k])
  BY DEF Overwritten
<1>1. PICK n \in Nat : n = Len(log)
  BY LenProperties, SMTT(30)
<1>2. PICK L \in Nat \ {0} : L = Len(sv)
  BY EmptySeq, SMTT(30)
<1>3. /\ log2[n + 1].rec = L /\ log2[n + 1].key = k /\ log2[n + 1].old = old
      /\ Len(log2) = n + 1
      /\ \A j \in 1 .. n : log2[j] = log[j]
  BY <1>1, <1>2 DEF Pushed
<1>4. \A j \in 1 .. n : /\ log[j].key \in Keys /\ Owner[log[j].key] = t
                        /\ log[j].rec \in 1 .. L
  BY <1>1, <1>2, LevelsFacts, ZenonT(30) DEF Undoable
<1>5. Levels(t, log2, sv)
  BY LevelsPush DEF Undoable
<1>6. Untouched(t, log2, sv, d2)
  <2> SUFFICES ASSUME NEW i \in 1 .. L, NEW q \in Keys
               PROVE  /\ Owner[q] # t => sv[i][q] = NoEntry
                      /\ /\ Owner[q] = t
                         /\ \A j \in 1 .. n + 1 : log2[j].key = q => log2[j].rec < i
                         => Dirty(d2[q]) = sv[i][q]
    BY <1>2, <1>3, SMTT(30) DEF Untouched
  <2>1. CASE q = k
    BY <1>2, <1>3, <2>1, SMTT(30) DEF Undoable, Untouched
  <2>2. CASE q # k
    BY <1>0, <1>1, <1>2, <1>3, <2>2, SMTT(30) DEF Undoable, Untouched
  <2> QED BY <2>1, <2>2, SMTT(30)
<1>7. Oldest(log2, sv)
  <2>0. Len(log2) = n + 1 /\ Len(sv) = L
    BY <1>2, <1>3, SMTT(30)
  <2> SUFFICES ASSUME NEW i \in 1 .. L, NEW j \in 1 .. n + 1, log2[j].rec >= i,
                      \A h \in 1 .. n + 1 :
                        h < j /\ log2[h].key = log2[j].key => log2[h].rec < i
               PROVE  Dirty(log2[j].old) = sv[i][log2[j].key]
    BY <2>0, ZenonT(30) DEF Oldest
  <2>1. CASE j = n + 1
    <3>1. \A h \in 1 .. n : log[h].key = k => log[h].rec < i
      BY <1>3, <2>1, SMTT(30)
    <3>2. Untouched(t, log, sv, d)
      BY SMTT(30) DEF Undoable
    <3>3. Dirty(d[k]) = sv[i][k]
      BY <1>1, <1>2, <3>1, <3>2, SMTT(30) DEF Untouched
    <3> QED
      BY <1>0, <1>3, <2>1, <3>3
  <2>2. CASE j \in 1 .. n
    <3>1. log2[j] = log[j] /\ \A h \in 1 .. n : log2[h] = log[h]
      BY <1>3, <2>2, SMTT(30)
    <3>2. \A h \in 1 .. n : h < j /\ log[h].key = log[j].key => log[h].rec < i
      BY <3>1, SMTT(30)
    <3> QED
      BY <1>1, <1>2, <2>2, <3>1, <3>2, SMTT(30) DEF Undoable, Oldest
  <2>3. j = n + 1 \/ j \in 1 .. n
    BY SMTT(30)
  <2> QED BY <2>1, <2>2, <2>3, ZenonT(30)
<1>8. Present(log2, d2)
  <2>1. Present(log, d) /\ \A j \in Keys \ {k} : d[j].status # "NONE" => d2[j].status # "NONE"
    BY <1>0 DEF Undoable
  <2>2. old.status = "NONE" => d2[k].status # "NONE"
    BY DEF Overwritten
  <2> QED
    BY <2>1, <2>2, PresentPush, SMTT(30)
<1> QED
  BY <1>5, <1>6, <1>7, <1>8 DEF Undoable

LEMMA LevelsPop ==
  ASSUME NEW t, NEW log \in Seq(Change), NEW sv, Levels(t, log, sv), NEW log2,
         Len(log) \in Nat \ {0}, Len(log2) = Len(log) - 1,
         \A j \in 1 .. Len(log) - 1 : log2[j] = log[j]
  PROVE  Levels(t, log2, sv)
<1>1. \A i, j \in 1 .. Len(log) : i < j => log[i].rec <= log[j].rec
  BY DEF Levels
<1>2. \A j \in 1 .. Len(log) - 1 : log2[j].rec \in 1 .. Len(sv) /\ Owner[log2[j].key] = t
  BY DEF Levels
<1>3. \A i, j \in 1 .. Len(log) - 1 : i < j => log2[i].rec <= log2[j].rec
  BY <1>1, SMTT(30)
<1> QED
  BY <1>2, <1>3, ZenonT(30) DEF Levels

\* The newest change is undone: its row is there if it was there before.
Dropped(log, log2, d, d2) ==
  LET n == Len(log)
  IN  /\ n \in Nat \ {0} /\ Len(log2) = n - 1
      /\ \A j \in 1 .. n - 1 : log2[j] = log[j]
      /\ log[n].old.status # "NONE" => d2[log[n].key].status # "NONE"
      /\ \A k \in Keys \ {log[n].key} : d2[k] = d[k]

LEMMA PresentPop ==
  ASSUME NEW log \in Seq(Change), NEW log2, NEW d, NEW d2, Present(log, d),
         Dropped(log, log2, d, d2)
  PROVE  Present(log2, d2)
<1> SUFFICES ASSUME NEW n \in Nat \ {0}, n = Len(log), Len(log2) = n - 1,
                    \A j \in 1 .. n - 1 : log2[j] = log[j],
                    log[n].old.status # "NONE" => d2[log[n].key].status # "NONE",
                    \A k \in Keys \ {log[n].key} : d2[k] = d[k]
             PROVE  Present(log2, d2)
  BY ZenonT(30) DEF Dropped
<1>1. \A j \in 1 .. n : log[j].key \in Keys
  <2>1. \A j \in 1 .. n : log[j] \in Change
    BY ElementOfSeq, SMTT(30)
  <2> QED
    BY <2>1 DEF Change
<1>2. ASSUME NEW i \in 1 .. n - 1, NEW j \in 1 .. n - 1, Adjacent(log2, i, j),
             log2[i].old.status = "NONE"
      PROVE  log2[j].old.status # "NONE"
  <2>1. Adjacent(log, i, j)
    <3>1. i < j /\ log[i] = log2[i] /\ log[j] = log2[j] /\ log2[i].key = log2[j].key
      BY <1>2 DEF Adjacent
    <3>2. ASSUME NEW h \in 1 .. n, i < h, h < j PROVE log[h].key # log[i].key
      <4>1. h \in 1 .. n - 1
        BY <3>2
      <4> QED
        BY <1>2, <3>1, <3>2, <4>1 DEF Adjacent
    <3> QED
      BY <3>1, <3>2 DEF Adjacent
  <2> QED
    BY <1>2, <2>1, SMTT(30) DEF Present
<1>3. ASSUME NEW j \in 1 .. n - 1, Newest(log2, j), log2[j].old.status = "NONE"
      PROVE  d2[log2[j].key].status # "NONE"
  <2>1. log2[j] = log[j] /\ j \in 1 .. n /\ log[j].key \in Keys
    BY <1>1, SMTT(30)
  <2>2. CASE log[j].key = log[n].key
    <3>1. Adjacent(log, j, n)
      BY <1>3, <2>1, <2>2, SMTT(30) DEF Adjacent, Newest
    <3> QED
      BY <1>3, <2>1, <2>2, <3>1, SMTT(30) DEF Present
  <2>3. CASE log[j].key # log[n].key
    <3>1. ASSUME NEW h \in 1 .. n, j < h PROVE log[h].key # log[j].key
      <4>1. CASE h = n
        BY <2>3, <4>1, SMTT(30)
      <4>2. CASE h \in 1 .. n - 1
        BY <1>3, <2>1, <3>1, <4>2 DEF Newest
      <4> QED
        BY <4>1, <4>2
    <3>2. Newest(log, j)
      BY <3>1, SMTT(30) DEF Newest
    <3> QED
      BY <1>3, <2>1, <2>3, <3>2, SMTT(30) DEF Present
  <2> QED BY <2>2, <2>3
<1> QED
  BY <1>2, <1>3 DEF Present

\* rollback puts back the old entry of the newest change.
Popped(log, log2, d, d2) ==
  LET n == Len(log)
  IN  /\ n \in Nat \ {0} /\ Len(log2) = n - 1
      /\ \A j \in 1 .. n - 1 : log2[j] = log[j]
      /\ d2[log[n].key] = log[n].old
      /\ \A k \in Keys \ {log[n].key} : d2[k] = d[k]

LEMMA UndoablePop ==
  ASSUME NEW t, NEW log \in Seq(Change), NEW sv \in Seq([Keys -> Entry]),
         NEW d, NEW d2, NEW log2, Undoable(t, log, sv, d),
         log[Len(log)].rec = Len(sv), Popped(log, log2, d, d2)
  PROVE  Undoable(t, log2, sv, d2)
<1> SUFFICES ASSUME NEW n \in Nat \ {0}, n = Len(log), Len(log2) = n - 1,
                    \A j \in 1 .. n - 1 : log2[j] = log[j],
                    d2[log[n].key] = log[n].old,
                    \A k \in Keys \ {log[n].key} : d2[k] = d[k]
             PROVE  Undoable(t, log2, sv, d2)
  BY ZenonT(30) DEF Popped
<1>1. PICK L \in Nat : L = Len(sv)
  BY LenProperties
<1>2. \A j \in 1 .. n : /\ log[j].key \in Keys /\ Owner[log[j].key] = t
                        /\ log[j].rec \in 1 .. L
  BY <1>1, LevelsFacts, ZenonT(30) DEF Undoable
<1>3. Levels(t, log2, sv)
  BY LevelsPop DEF Undoable
<1>4. Untouched(t, log2, sv, d2)
  <2> SUFFICES ASSUME NEW i \in 1 .. L, NEW q \in Keys
               PROVE  /\ Owner[q] # t => sv[i][q] = NoEntry
                      /\ /\ Owner[q] = t
                         /\ \A j \in 1 .. n - 1 : log2[j].key = q => log2[j].rec < i
                         => Dirty(d2[q]) = sv[i][q]
    BY <1>1, ZenonT(30) DEF Untouched
  <2>1. CASE q = log[n].key
    <3>0. n \in 1 .. n
      OBVIOUS
    <3> SUFFICES ASSUME \A j \in 1 .. n - 1 : log2[j].key = q => log2[j].rec < i
                 PROVE  Dirty(log[n].old) = sv[i][q]
      BY <1>2, <2>1, <3>0, ZenonT(30)
    <3>1. \A h \in 1 .. Len(log) : h < n /\ log[h].key = log[n].key => log[h].rec < i
      <4> SUFFICES ASSUME NEW h \in 1 .. Len(log), h < n, log[h].key = log[n].key
                   PROVE  log[h].rec < i
        BY ZenonT(30)
      <4>1. h \in 1 .. n - 1
        OBVIOUS
      <4> QED
        BY <2>1, <4>1, ZenonT(30)
    <3>2. log[n].rec >= i
      BY <1>1
    <3>3. i \in 1 .. Len(sv) /\ n \in 1 .. Len(log)
      BY <1>1
    <3>4. /\ log[n].rec >= i
          /\ \A h \in 1 .. Len(log) : h < n /\ log[h].key = log[n].key => log[h].rec < i
          => Dirty(log[n].old) = sv[i][log[n].key]
      BY <3>3, ZenonT(30) DEF Undoable, Oldest
    <3> QED
      BY <2>1, <3>1, <3>2, <3>4, ZenonT(30)
  <2>2. CASE q # log[n].key
    <3> SUFFICES ASSUME Owner[q] = t,
                        \A j \in 1 .. n - 1 : log2[j].key = q => log2[j].rec < i
                 PROVE  Dirty(d[q]) = sv[i][q]
      BY <1>1, <2>2, SMTT(30) DEF Undoable, Untouched
    <3>1. \A j \in 1 .. n : log[j].key = q => log[j].rec < i
      BY <2>2, SMTT(30)
    <3> QED
      BY <1>1, <3>1, ZenonT(30) DEF Undoable, Untouched
  <2> QED BY <2>1, <2>2
<1>5. Oldest(log2, sv)
  <2> SUFFICES ASSUME NEW i \in 1 .. L, NEW j \in 1 .. n - 1, log2[j].rec >= i,
                      \A h \in 1 .. n - 1 :
                        h < j /\ log2[h].key = log2[j].key => log2[h].rec < i
               PROVE  Dirty(log2[j].old) = sv[i][log2[j].key]
    BY <1>1, ZenonT(30) DEF Oldest
  <2>1. log2[j] = log[j] /\ j \in 1 .. n
    OBVIOUS
  <2>2. \A h \in 1 .. n : h < j /\ log[h].key = log[j].key => log[h].rec < i
    BY <2>1, SMTT(30)
  <2> QED
    BY <1>1, <2>1, <2>2 DEF Undoable, Oldest
<1>6. Present(log2, d2)
  <2>1. Present(log, d) /\ Dropped(log, log2, d, d2)
    BY ZenonT(30) DEF Undoable, Dropped
  <2> QED
    BY <2>1, PresentPop
<1> QED
  BY <1>3, <1>4, <1>5, <1>6 DEF Undoable

\* Before the first recorder, and after the last.
LEMMA UndoableEmpty ==
  ASSUME NEW t, NEW log, NEW sv, NEW d, Len(log) = 0, Len(sv) = 0
  PROVE  Undoable(t, log, sv, d)
BY SMTT(30) DEF Undoable, Levels, Untouched, Oldest, Present

\* setRecoder(newRecoder()).
LEMMA UndoableInstall ==
  ASSUME NEW t, NEW log \in Seq(Change), NEW sv \in Seq([Keys -> Entry]), NEW d,
         Undoable(t, log, sv, d), NEW sv2, Len(sv2) = Len(sv) + 1,
         \A i \in 1 .. Len(sv) : sv2[i] = sv[i],
         sv2[Len(sv) + 1] = [k \in Keys |-> IF Owner[k] = t THEN Dirty(d[k]) ELSE NoEntry]
  PROVE  Undoable(t, log, sv2, d)
<1>1. PICK L \in Nat : L = Len(sv)
  BY LenProperties
<1>2. \A j \in 1 .. Len(log) : log[j].rec \in 1 .. L /\ Owner[log[j].key] = t
  BY <1>1, LevelsFacts, ZenonT(30) DEF Undoable
<1>3. Levels(t, log, sv2)
  BY <1>1, <1>2, SMTT(30) DEF Undoable, Levels
<1>4. Untouched(t, log, sv2, d)
  <2> SUFFICES ASSUME NEW i \in 1 .. L + 1, NEW q \in Keys
               PROVE  /\ Owner[q] # t => sv2[i][q] = NoEntry
                      /\ /\ Owner[q] = t
                         /\ \A j \in 1 .. Len(log) : log[j].key = q => log[j].rec < i
                         => Dirty(d[q]) = sv2[i][q]
    BY <1>1 DEF Untouched
  <2>1. CASE i = L + 1
    BY <1>1, <2>1, SMTT(30)
  <2>2. CASE i \in 1 .. L
    BY <1>1, <2>2, SMTT(30) DEF Undoable, Untouched
  <2> QED BY <1>1, <2>1, <2>2, SMTT(30)
<1>5. Oldest(log, sv2)
  <2> SUFFICES ASSUME NEW i \in 1 .. L + 1, NEW j \in 1 .. Len(log), log[j].rec >= i,
                      \A h \in 1 .. Len(log) :
                        h < j /\ log[h].key = log[j].key => log[h].rec < i
               PROVE  Dirty(log[j].old) = sv2[i][log[j].key]
    BY <1>1, ZenonT(30) DEF Oldest
  <2>1. i \in 1 .. L
    BY <1>1, <1>2
  <2> QED
    BY <1>1, <2>1, SMTT(30) DEF Undoable, Oldest
<1> QED
  BY <1>3, <1>4, <1>5 DEF Undoable

\* rollback is through with the last recorder.
NoChangeLeft(log, sv) == sv # <<>> /\ (log # <<>> => log[Len(log)].rec # Len(sv))

\* The changes that are left belong to the recorders before the last.
Below(t, log, sv) ==
  \A j \in 1 .. Len(log) : log[j].rec \in 1 .. Len(sv) - 1 /\ Owner[log[j].key] = t

\* The rows of t are what they were when the last recorder was installed.
AsSaved(t, sv, d) ==
  \A k \in Keys : sv[Len(sv)][k] = IF Owner[k] = t THEN Dirty(d[k]) ELSE NoEntry

LEMMA NoneLeftBelow ==
  ASSUME NEW t, NEW log \in Seq(Change), NEW sv \in Seq([Keys -> Entry]),
         Levels(t, log, sv), NoChangeLeft(log, sv)
  PROVE  Below(t, log, sv)
<1>0. PICK L \in Nat \ {0} : L = Len(sv) /\ (log # <<>> => log[Len(log)].rec # L)
  BY EmptySeq DEF NoChangeLeft
<1>1. \A j \in 1 .. Len(log) : log[j].rec \in 1 .. L /\ Owner[log[j].key] = t
  BY <1>0 DEF Levels
<1>2. \A j \in 1 .. Len(log) : log[j].rec \in 1 .. L - 1
  <2> TAKE j \in 1 .. Len(log)
  <2>1. Len(log) \in Nat /\ log # <<>> /\ Len(log) \in 1 .. Len(log)
    BY LenProperties, EmptySeq
  <2>2. log[Len(log)].rec \in 1 .. L - 1
    BY <1>0, <1>1, <2>1
  <2>3. j = Len(log) \/ log[j].rec <= log[Len(log)].rec
    BY <2>1 DEF Levels
  <2> QED
    BY <1>1, <2>2, <2>3
<1> QED
  BY <1>0, <1>1, <1>2 DEF Below

LEMMA NoneLeft ==
  ASSUME NEW t, NEW log \in Seq(Change), NEW sv \in Seq([Keys -> Entry]), NEW d,
         Undoable(t, log, sv, d), NoChangeLeft(log, sv)
  PROVE  Below(t, log, sv) /\ AsSaved(t, sv, d)
<1>1. Below(t, log, sv)
  BY NoneLeftBelow, ZenonT(30) DEF Undoable
<1>2. PICK L \in Nat \ {0} : L = Len(sv)
  BY EmptySeq, SMTT(30) DEF NoChangeLeft
<1>3. ASSUME NEW k \in Keys
      PROVE  sv[L][k] = IF Owner[k] = t THEN Dirty(d[k]) ELSE NoEntry
  <2>1. \A j \in 1 .. Len(log) : log[j].key = k => log[j].rec < L
    BY <1>1, <1>2 DEF Below
  <2> QED
    BY <1>2, <2>1, SMTT(30) DEF Undoable, Untouched
<1> QED
  BY <1>1, <1>2, <1>3 DEF AsSaved

LEMMA UndoableDone ==
  ASSUME NEW t, NEW log \in Seq(Change), NEW sv \in Seq([Keys -> Entry]), NEW d, NEW sv2,
         Undoable(t, log, sv, d), NoChangeLeft(log, sv), Len(sv2) = Len(sv) - 1,
         \A i \in 1 .. Len(sv) - 1 : sv2[i] = sv[i]
  PROVE  Undoable(t, log, sv2, d)
<1> SUFFICES ASSUME NEW L \in Nat \ {0}, L = Len(sv), Len(sv2) = L - 1,
                    \A i \in 1 .. L - 1 : sv2[i] = sv[i]
             PROVE  Undoable(t, log, sv2, d)
  BY EmptySeq DEF NoChangeLeft
<1>1. \A j \in 1 .. Len(log) : log[j].rec \in 1 .. L - 1 /\ Owner[log[j].key] = t
  <2>1. Below(t, log, sv)
    BY NoneLeft, ZenonT(30)
  <2> QED
    BY <2>1 DEF Below
<1>2. Levels(t, log, sv2)
  BY <1>1, SMTT(30) DEF Undoable, Levels
<1>3. Untouched(t, log, sv2, d) /\ Oldest(log, sv2)
  <2>1. Len(sv2) = L - 1 /\ \A i \in 1 .. L - 1 : i \in 1 .. L /\ sv2[i] = sv[i]
    OBVIOUS
  <2>2. Untouched(t, log, sv2, d)
    <3> SUFFICES ASSUME NEW i \in 1 .. L - 1, NEW q \in Keys
                 PROVE  /\ Owner[q] # t => sv2[i][q] = NoEntry
                        /\ /\ Owner[q] = t
                           /\ \A j \in 1 .. Len(log) : log[j].key = q => log[j].rec < i
                           => Dirty(d[q]) = sv2[i][q]
      BY <2>1, ZenonT(30) DEF Untouched
    <3>1. i \in 1 .. Len(sv) /\ sv2[i] = sv[i]
      BY <2>1, SMTT(30)
    <3>2. Untouched(t, log, sv, d)
      BY DEF Undoable
    <3>3. /\ Owner[q] # t => sv[i][q] = NoEntry
          /\ /\ Owner[q] = t
             /\ \A j \in 1 .. Len(log) : log[j].key = q => log[j].rec < i
             => Dirty(d[q]) = sv[i][q]
      BY <3>1, <3>2, ZenonT(30) DEF Untouched
    <3> QED
      BY <3>1, <3>3, ZenonT(30)
  <2>3. Oldest(log, sv2)
    <3> SUFFICES ASSUME NEW i \in 1 .. L - 1, NEW j \in 1 .. Len(log), log[j].rec >= i,
                        \A h \in 1 .. Len(log) :
                          h < j /\ log[h].key = log[j].key => log[h].rec < i
                 PROVE  Dirty(log[j].old) = sv2[i][log[j].key]
      BY <2>1, ZenonT(30) DEF Oldest
    <3>1. i \in 1 .. Len(sv) /\ sv2[i] = sv[i]
      BY <2>1, SMTT(30)
    <3>2. Oldest(log, sv)
      BY DEF Undoable
    <3>3. Dirty(log[j].old) = sv[i][log[j].key]
      BY <3>1, <3>2, ZenonT(30) DEF Oldest
    <3> QED
      BY <3>1, <3>3, ZenonT(30)
  <2> QED
    BY <2>2, <2>3
<1> QED
  BY <1>2, <1>3 DEF Undoable
=============================================================================

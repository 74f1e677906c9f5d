----------------------------- MODULE DataProofs -----------------------------
(***************************************************************************)
(* The data components, each for any objects, any values and any number of *)
(* calls.  Storage entries and the system table: an entry shows what was   *)
(* stored in it, and a schema stays.  The callback collection:             *)
(* notifications reach the living.                                         *)
(***************************************************************************)
EXTENDS Entry, Tables, CallbackCollection, SequenceTheorems, FiniteSetTheorems, TLAPS

-----------------------------------------------------------------------------
(* Entry                                                                   *)

EntrySpec == EntryInit /\ [][EntryNext]_entryVars

Bytes == Seq(0..255)
Buffers == [1..SmallSize -> 0..255]

EntryRecords ==
    [holds : {"sbo", "own", "shared"}, sbo : Buffers, own : Bytes,
     shared : Nat, size : Nat]

EntryTypes ==
    /\ entry \in [EntryObjects -> EntryRecords]
    /\ heap \in Seq(Bytes)
    /\ stored \in [EntryObjects -> {<<>>} \cup {<<v>> : v \in Bytes}]
    /\ entryCalls \in Nat

\* o holds v, wherever it keeps it, in the heap h
Keeps(o, v, h) ==
    /\ o.size = Len(v)
    /\ o.holds = "sbo" => Len(v) <= SmallSize /\ \A i \in 1..Len(v) : o.sbo[i] = v[i]
    /\ o.holds = "own" => o.own = v
    /\ o.holds = "shared" => o.shared \in 1..Len(h) /\ h[o.shared] = v

EntriesKeep ==
    \A e \in EntryObjects : stored[e] # <<>> => Keeps(entry[e], stored[e][1], heap)

EntryInv == EntryTypes /\ EntriesKeep

(* What storing a value does to the record of an entry. *)
SharedValue(o, m, n) == [o EXCEPT !.holds = "shared", !.shared = m, !.size = n]
OwnValue(o, v, n) == [o EXCEPT !.holds = "own", !.own = v, !.size = n]

LEMMA ExportedRecord ==
    ASSUME NEW o \in EntryRecords, <<>> \in Bytes
    PROVE  [o EXCEPT !.own = <<>>, !.shared = 0, !.size = 0] \in EntryRecords
  BY ZenonT(30) DEF EntryRecords

LEMMA SmallValueKeeps ==
    ASSUME NEW o \in EntryRecords, NEW v \in Bytes, Len(v) <= SmallSize, NEW h
    PROVE  SmallValue(o, v) \in EntryRecords /\ Keeps(SmallValue(o, v), v, h)
  <1> DEFINE buffer == IF o.holds = "sbo" THEN o.sbo ELSE NewSBOBuffer
             copy == CopyN(v, buffer)
  <1>1. o.sbo \in Buffers /\ NewSBOBuffer \in Buffers /\ Len(v) \in Nat
    BY SMTT(30) DEF EntryRecords, NewSBOBuffer, Buffers, Bytes
  <1>2. copy \in Buffers
    <2>1. ASSUME NEW i \in 1..SmallSize
          PROVE  (IF i <= Len(v) THEN v[i] ELSE buffer[i]) \in 0..255
      <3>1. buffer[i] \in 0..255
        BY <1>1, ZenonT(30) DEF Buffers
      <3>2. i <= Len(v) => i \in 1..Len(v)
        BY <1>1, EntrySizes
      <3>3. i <= Len(v) => v[i] \in 0..255
        BY <3>2, ElementOfSeq, SMTT(30) DEF Bytes
      <3> QED
        BY <3>1, <3>3
    <2> QED
      BY <2>1, ZenonT(30) DEF CopyN, Buffers
  <1>3. \A i \in 1..Len(v) : copy[i] = v[i]
    BY <1>1, EntrySizes DEF CopyN
  <1> HIDE DEF copy
  <1>4. LET p == [o EXCEPT !.holds = "sbo", !.sbo = copy, !.size = Len(v)]
        IN  p \in EntryRecords /\ p.holds = "sbo" /\ p.sbo = copy /\ p.size = Len(v)
    BY <1>1, <1>2, ZenonT(30) DEF EntryRecords
  <1> QED
    BY <1>3, <1>4 DEF SmallValue, Keeps, copy

(* What an entry keeps is what it shows. *)
LEMMA KeepsShows == EntryInv => EntryReadsBack
  <1> SUFFICES ASSUME EntryInv, NEW e \in EntryObjects, stored[e] # <<>>
               PROVE  ValueView(e) = stored[e][1]
    BY DEF EntryReadsBack
  <1> DEFINE o == entry[e]  v == stored[e][1]
  <1>1. v \in Bytes /\ o \in EntryRecords /\ heap \in Seq(Bytes)
    BY DEF EntryInv, EntryTypes
  <1>2. Keeps(o, v, heap)
    BY DEF EntryInv, EntriesKeep
  <1>3. SubSeq(v, 1, Len(v)) = v
    BY <1>1, SubSeqFull DEF Bytes
  <1>4. CASE o.holds = "sbo"
    <2>1. o.sbo \in Buffers /\ Len(v) <= SmallSize /\ o.size = Len(v)
      BY <1>1, <1>2, <1>4 DEF Keeps, EntryRecords
    <2> HIDE DEF o, v
    <2>2. o.sbo \in Seq(0..255) /\ Len(o.sbo) = SmallSize
      BY <2>1, EntrySizes DEF Buffers
    <2>3. SubSeq(o.sbo, 1, Len(v)) = v
      BY <1>1, <1>2, <1>4, <2>1, <2>2 DEF Keeps, Bytes
    <2> QED
      BY <1>4, <2>1, <2>3 DEF ValueView, OutputValueView, o, v
  <1>5. CASE o.holds = "own"
    BY <1>2, <1>3, <1>5 DEF ValueView, OutputValueView, Keeps
  <1>6. CASE o.holds = "shared"
    BY <1>2, <1>3, <1>6 DEF ValueView, OutputValueView, Keeps
  <1> QED
    BY <1>1, <1>4, <1>5, <1>6 DEF EntryRecords

LEMMA EntryInitInv == EntryInit => EntryInv
  <1> SUFFICES ASSUME EntryInit PROVE EntryInv
    OBVIOUS
  <1>1. <<>> \in Bytes /\ Len(<<>>) = 0 /\ <<>> \in Seq(Bytes) /\ NewSBOBuffer \in Buffers
    BY DEF Bytes, Buffers, NewSBOBuffer
  <1>2. EntryTypes
    <2>1. [holds |-> "sbo", sbo |-> NewSBOBuffer, own |-> <<>>, shared |-> 0, size |-> 0] \in EntryRecords
      BY <1>1 DEF EntryRecords
    <2> QED
      BY <1>1, <2>1 DEF EntryInit, EntryTypes
  <1>3. \A e \in EntryObjects : stored[e][1] = <<>> /\ entry[e].size = 0 /\ entry[e].holds = "sbo"
    BY ZenonT(30) DEF EntryInit
  <1>4. EntriesKeep
    BY <1>1, <1>3, EntrySizes DEF EntriesKeep, Keeps
  <1> QED
    BY <1>2, <1>4 DEF EntryInv

(* A value stored in place of another, of whatever lengths, is kept, and the *)
(* other entries still keep theirs: the heap only grows.                     *)
LEMMA SetKeepsInv ==
    ASSUME EntryInv, NEW e \in EntryObjects, NEW v \in EntryValues, SetEntry(e, v)
    PROVE  EntryInv'
  <1>1. v \in Bytes /\ Len(v) \in Nat
    BY EntryBytes DEF Bytes
  <1>2. entry[e] \in EntryRecords /\ Len(heap) \in Nat
    BY DEF EntryInv, EntryTypes
  <1>3. stored' = [stored EXCEPT ![e] = <<v>>] /\ stored' \in [EntryObjects -> {<<>>} \cup {<<w>> : w \in Bytes}]
    BY <1>1 DEF EntryInv, EntryTypes, SetEntry
  <1>4. entryCalls' \in Nat
    BY DEF EntryInv, EntryTypes, SetEntry, EntryCall
  <1>5. /\ heap' \in Seq(Bytes) /\ Len(heap) <= Len(heap')
        /\ \A i \in 1..Len(heap) : heap'[i] = heap[i]
    <2>1. heap \in Seq(Bytes) /\ (heap' = Append(heap, v) \/ heap' = heap)
      BY DEF EntryInv, EntryTypes, SetEntry
    <2> QED
      BY <1>1, <2>1, AppendProperties
  <1>6. PICK o \in EntryRecords : entry' = [entry EXCEPT ![e] = o] /\ Keeps(o, v, heap')
    <2>1. CASE Len(v) > MediumSize
      <3>0. PICK m \in Nat : m = Len(heap) + 1
        BY <1>2
      <3> DEFINE o == SharedValue(entry[e], m, Len(v))
      <3>1. heap' = Append(heap, v)
        BY <2>1 DEF SetEntry
      <3>2. Len(heap') = m /\ heap'[m] = v
        BY <3>0, <3>1, <1>1, AppendProperties DEF EntryInv, EntryTypes
      <3>3. entry' = [entry EXCEPT ![e] = o]
        BY <2>1, <3>2 DEF SetEntry, SharedValue
      <3>4. o \in EntryRecords /\ o.holds = "shared" /\ o.shared = m /\ o.size = Len(v)
        BY <1>1, <1>2, <3>0, ZenonT(30) DEF SharedValue, EntryRecords
      <3>5. Keeps(o, v, heap')
        BY <1>2, <3>0, <3>2, <3>4 DEF Keeps
      <3> QED
        BY <3>3, <3>4, <3>5, ZenonT(30)
    <2>2. CASE Len(v) <= SmallSize
      <3>1. entry' = [entry EXCEPT ![e] = SmallValue(entry[e], v)]
        <4>1. ~(Len(v) > MediumSize)
          BY <1>1, <2>2, EntrySizes
        <4> QED
          BY <2>2, <4>1 DEF SetEntry
      <3> QED
        BY <1>1, <1>2, <2>2, <3>1, SmallValueKeeps, ZenonT(30)
    <2>3. CASE ~(Len(v) > MediumSize) /\ ~(Len(v) <= SmallSize)
      <3> DEFINE o == OwnValue(entry[e], v, Len(v))
      <3>1. entry' = [entry EXCEPT ![e] = o]
        BY <2>3 DEF SetEntry, OwnValue
      <3>2. o \in EntryRecords /\ o.holds = "own" /\ o.own = v /\ o.size = Len(v)
        BY <1>1, <1>2, ZenonT(30) DEF OwnValue, EntryRecords
      <3>3. Keeps(o, v, heap')
        BY <3>2 DEF Keeps
      <3> QED
        BY <3>1, <3>2, <3>3, ZenonT(30)
    <2> QED
      BY <2>1, <2>2, <2>3
  <1>7. EntryTypes'
    BY <1>3, <1>4, <1>5, <1>6 DEF EntryInv, EntryTypes
  <1>8. ASSUME NEW f \in EntryObjects, stored'[f] # <<>>
        PROVE  Keeps(entry'[f], stored'[f][1], heap')
    <2>1. CASE f = e
      BY <1>3, <1>6, <2>1 DEF EntryInv, EntryTypes
    <2>2. CASE f # e
      <3>1. entry'[f] = entry[f] /\ stored'[f] = stored[f]
        BY <1>3, <1>6, <2>2 DEF EntryInv, EntryTypes
      <3>2. Keeps(entry[f], stored[f][1], heap)
        BY <1>8, <3>1 DEF EntryInv, EntriesKeep
      <3> QED
        BY <1>2, <1>5, <3>1, <3>2 DEF Keeps
    <2> QED
      BY <2>1, <2>2
  <1> QED
    BY <1>7, <1>8 DEF EntryInv, EntriesKeep

LEMMA CopyKeepsInv ==
    ASSUME EntryInv, NEW e \in EntryObjects, NEW f \in EntryObjects, CopyEntry(e, f)
    PROVE  EntryInv'
  <1>1. EntryTypes'
    BY DEF EntryInv, EntryTypes, CopyEntry, EntryCall
  <1>2. EntriesKeep'
    BY DEF EntryInv, EntryTypes, EntriesKeep, CopyEntry
  <1> QED
    BY <1>1, <1>2 DEF EntryInv

LEMMA ExportKeepsInv ==
    ASSUME EntryInv, NEW e \in EntryObjects, ExportFields(e)
    PROVE  EntryInv'
  <1>1. EntryTypes'
    <2>1. [entry[e] EXCEPT !.own = <<>>, !.shared = 0, !.size = 0] \in EntryRecords
      <3>1. <<>> \in Bytes /\ entry[e] \in EntryRecords
        BY DEF EntryInv, EntryTypes, Bytes
      <3> QED
        BY <3>1, ExportedRecord, ZenonT(30)
    <2> QED
      <3>1. entry' \in [EntryObjects -> EntryRecords]
        BY <2>1 DEF EntryInv, EntryTypes, ExportFields
      <3>2. heap' \in Seq(Bytes) /\ entryCalls' \in Nat
        BY DEF EntryInv, EntryTypes, ExportFields, EntryCall
      <3>3. stored' \in [EntryObjects -> {<<>>} \cup {<<v>> : v \in Bytes}]
        BY DEF EntryInv, EntryTypes, ExportFields
      <3> QED
        BY <3>1, <3>2, <3>3, ZenonT(30) DEF EntryTypes
  <1>2. EntriesKeep'
    BY DEF EntryInv, EntryTypes, EntriesKeep, ExportFields
  <1> QED
    BY <1>1, <1>2 DEF EntryInv

(* Whatever values, of whatever lengths, are stored in entries, copied       *)
(* between them and moved out of them, an entry shows the value last stored  *)
(* in it: Entry::set, the copies that share a large value, and get.          *)
THEOREM EntriesReadBack == EntrySpec => []EntryReadsBack
  <1>1. EntryInv /\ [EntryNext]_entryVars => EntryInv'
    <2> SUFFICES ASSUME EntryInv, [EntryNext]_entryVars PROVE EntryInv'
      OBVIOUS
    <2>1. CASE UNCHANGED entryVars
      BY <2>1 DEF EntryInv, EntryTypes, EntriesKeep, entryVars
    <2>2. CASE EntryNext
      BY <2>2, SetKeepsInv, CopyKeepsInv, ExportKeepsInv DEF EntryNext
    <2> QED
      BY <2>1, <2>2
  <1> QED
    BY <1>1, EntryInitInv, KeepsShows, PTL DEF EntrySpec
-----------------------------------------------------------------------------
(* Tables                                                                  *)

TablesSpec == TablesInit /\ [][TablesNext]_tableVars

CreatingCalls == [at : {"check", "put"}, table : TableNames, fields : ValueFields]
OpeningCalls == [at : {"open"}, table : TableNames]

TableTypes ==
    /\ sysTables \in [TableNames -> {<<>>} \cup {<<f>> : f \in ValueFields}]
    /\ tableCall \in [TableCallers -> {NoTableCall} \cup CreatingCalls \cup OpeningCalls]
    /\ handles \subseteq [table : TableNames, fields : ValueFields]
    /\ created \in [TableNames -> Nat]
    /\ tableCalls \in Nat

IsCreating(c) == tableCall[c].at \in {"check", "put"}

\* a table has one creation at a time, and one about to write finds no row
OneCreator ==
    \A c, d \in TableCallers :
        IsCreating(c) /\ IsCreating(d) /\ tableCall[c].table = tableCall[d].table => c = d

PutFindsNoRow ==
    \A c \in TableCallers : tableCall[c].at = "put" => sysTables[tableCall[c].table] = <<>>

CreatedHasRow == \A t \in TableNames : created[t] = 1 => sysTables[t] # <<>>

TablesInv == TableTypes /\ OneCreator /\ PutFindsNoRow /\ CreatedHasRow /\ SchemaIsStable

(* What the records of the calls say. *)
LEMMA TableCallKinds ==
    ASSUME TableTypes, NEW c \in TableCallers
    PROVE  /\ IsCreating(c) => tableCall[c] \in CreatingCalls
           /\ tableCall[c].at = "open" => tableCall[c] \in OpeningCalls
           /\ tableCall[c] \in CreatingCalls =>
                tableCall[c].table \in TableNames /\ tableCall[c].fields \in ValueFields
           /\ tableCall[c] \in OpeningCalls => tableCall[c].table \in TableNames
  BY DEF TableTypes, IsCreating, CreatingCalls, OpeningCalls, NoTableCall

LEMMA TablesInitInv == TablesInit => TablesInv
  BY DEF TablesInit, TablesInv, TableTypes, OneCreator, PutFindsNoRow, CreatedHasRow, SchemaIsStable,
         IsCreating, NoTableCall

(* A call begins: of a table that is being created, only an opening. *)
LEMMA StartKeepsInv ==
    ASSUME TablesInv, NEW c \in TableCallers, NEW t \in TableNames,
           AsyncOpenTable(c, t) \/ \E f \in ValueFields : AsyncCreateTable(c, t, f)
    PROVE  TablesInv'
  <1>1. PICK call \in CreatingCalls \cup OpeningCalls :
            /\ StartTableCall(c, call)
            /\ call.at \in {"check", "open"} /\ call.table = t
            /\ call.at = "check" => ~Creating(t)
    <2>1. CASE AsyncOpenTable(c, t)
      <3> DEFINE call == [at |-> "open", table |-> t]
      <3>1. call \in OpeningCalls /\ call.at = "open" /\ call.table = t
        BY DEF OpeningCalls
      <3>2. StartTableCall(c, call)
        BY <2>1 DEF AsyncOpenTable
      <3> QED
        BY <3>1, <3>2
    <2>2. ASSUME NEW f \in ValueFields, AsyncCreateTable(c, t, f)
          PROVE  \E call \in CreatingCalls : /\ StartTableCall(c, call) /\ ~Creating(t)
                                             /\ call.at = "check" /\ call.table = t
      <3> DEFINE call == [at |-> "check", table |-> t, fields |-> f]
      <3>1. call \in CreatingCalls /\ call.at = "check" /\ call.table = t
        BY DEF CreatingCalls
      <3>2. StartTableCall(c, call) /\ ~Creating(t)
        BY <2>2 DEF AsyncCreateTable
      <3> QED
        BY <3>1, <3>2
    <2> QED
      BY <2>1, <2>2
  <1>2. /\ tableCall' = [tableCall EXCEPT ![c] = call]
        /\ UNCHANGED <<sysTables, handles, created>> /\ tableCalls' = tableCalls + 1
    BY <1>1 DEF StartTableCall
  <1>3. TableTypes'
    BY <1>1, <1>2 DEF TablesInv, TableTypes
  <1>4. \A d \in TableCallers : tableCall'[d] = IF d = c THEN call ELSE tableCall[d]
    BY <1>2 DEF TablesInv, TableTypes
  <1>5. OneCreator'
    BY <1>1, <1>4 DEF TablesInv, OneCreator, IsCreating, Creating
  <1>6. PutFindsNoRow'
    BY <1>1, <1>2, <1>4 DEF TablesInv, PutFindsNoRow
  <1>7. CreatedHasRow' /\ SchemaIsStable'
    BY <1>2 DEF TablesInv, CreatedHasRow, SchemaIsStable
  <1> QED
    BY <1>3, <1>5, <1>6, <1>7, ZenonT(30) DEF TablesInv

(* A callback ends the call of c and hands out tables the rows agree with. *)
LEMMA CallbackKeepsInv ==
    ASSUME TablesInv, NEW c \in TableCallers, NEW opened \in SUBSET [table : TableNames, fields : ValueFields],
           Callback(c, opened), UNCHANGED <<sysTables, created>>,
           \A h \in opened : sysTables[h.table] = <<h.fields>>
    PROVE  TablesInv'
  <1>1. tableCall' = [tableCall EXCEPT ![c] = NoTableCall] /\ handles' = handles \cup opened
        /\ UNCHANGED <<sysTables, created, tableCalls>>
    BY DEF Callback
  <1>2. TableTypes'
    BY <1>1 DEF TablesInv, TableTypes
  <1>3. \A d \in TableCallers : tableCall'[d] = IF d = c THEN NoTableCall ELSE tableCall[d]
    BY <1>1 DEF TablesInv, TableTypes
  <1>4. OneCreator' /\ PutFindsNoRow'
    BY <1>1, <1>3 DEF TablesInv, OneCreator, PutFindsNoRow, IsCreating, NoTableCall
  <1>5. CreatedHasRow' /\ SchemaIsStable'
    BY <1>1, ZenonT(30) DEF TablesInv, CreatedHasRow, SchemaIsStable
  <1> QED
    BY <1>2, <1>4, <1>5 DEF TablesInv

LEMMA CheckKeepsInv ==
    ASSUME TablesInv, NEW c \in TableCallers, AnswerCheck(c)
    PROVE  TablesInv'
  <1>1. CASE Callback(c, {})
    BY <1>1, CallbackKeepsInv DEF AnswerCheck
  <1>2. CASE /\ sysTables[tableCall[c].table] = <<>>
             /\ tableCall' = [tableCall EXCEPT ![c] = [@ EXCEPT !.at = "put"]]
             /\ UNCHANGED <<handles, tableCalls>>
    <2> DEFINE call == [tableCall[c] EXCEPT !.at = "put"]
    <2>1. tableCall[c] \in CreatingCalls
      BY TableCallKinds DEF TablesInv, AnswerCheck, IsCreating
    <2>2. call \in CreatingCalls /\ call.at = "put" /\ call.table = tableCall[c].table
      BY <2>1 DEF CreatingCalls
    <2>3. tableCall' = [tableCall EXCEPT ![c] = call] /\ UNCHANGED <<sysTables, handles, created, tableCalls>>
      BY <1>2 DEF AnswerCheck
    <2> HIDE DEF call
    <2>4. TableTypes'
      BY <2>2, <2>3 DEF TablesInv, TableTypes
    <2>5. \A d \in TableCallers : tableCall'[d] = IF d = c THEN call ELSE tableCall[d]
      BY <2>3 DEF TablesInv, TableTypes
    <2>6. OneCreator'
      BY <2>2, <2>5 DEF TablesInv, OneCreator, IsCreating, AnswerCheck
    <2>7. PutFindsNoRow'
      BY <1>2, <2>2, <2>3, <2>5 DEF TablesInv, PutFindsNoRow
    <2>8. CreatedHasRow' /\ SchemaIsStable'
      BY <2>3 DEF TablesInv, CreatedHasRow, SchemaIsStable
    <2> QED
      BY <2>4, <2>6, <2>7, <2>8 DEF TablesInv
  <1> QED
    BY <1>1, <1>2 DEF AnswerCheck

(* The write of a creation, with or without effect: no other creation of the *)
(* table is on its way and no handle of it is out.                           *)
LEMMA PutKeepsInv ==
    ASSUME TablesInv, NEW c \in TableCallers, AnswerPut(c)
    PROVE  TablesInv'
  <1> DEFINE t == tableCall[c].table  f == tableCall[c].fields
  <1>1. tableCall[c].at = "put" /\ t \in TableNames /\ f \in ValueFields /\ sysTables[t] = <<>>
    BY TableCallKinds DEF TablesInv, AnswerPut, IsCreating, PutFindsNoRow
  <1>2. /\ tableCall' = [tableCall EXCEPT ![c] = NoTableCall] /\ UNCHANGED tableCalls
        /\ sysTables' \in {sysTables, [sysTables EXCEPT ![t] = <<f>>]}
        /\ \/ /\ sysTables' = [sysTables EXCEPT ![t] = <<f>>]
              /\ created' = [created EXCEPT ![t] = @ + 1] /\ handles' = handles \cup {Handle(t, f)}
           \/ created' = created /\ handles' = handles
    BY DEF AnswerPut, Callback
  <1> HIDE DEF t, f
  <1>3. Handle(t, f) \in [table : TableNames, fields : ValueFields]
    BY <1>1 DEF Handle
  <1>4. created[t] \in Nat /\ created[t] <= 1 /\ created[t] # 1
    BY <1>1 DEF TablesInv, TableTypes, CreatedHasRow, SchemaIsStable
  <1>5. TableTypes'
    <2>1. TableTypes
      BY DEF TablesInv
    <2>2. sysTables' \in [TableNames -> {<<>>} \cup {<<g>> : g \in ValueFields}]
      BY <1>1, <1>2, <2>1, SMTT(30) DEF TableTypes
    <2>3. tableCall' \in [TableCallers -> {NoTableCall} \cup CreatingCalls \cup OpeningCalls]
      BY <1>2, <2>1 DEF TableTypes
    <2>4. handles' \subseteq [table : TableNames, fields : ValueFields]
      BY <1>2, <1>3, <2>1 DEF TableTypes
    <2>5. created' \in [TableNames -> Nat] /\ tableCalls' \in Nat
      BY <1>2, <1>4, <2>1 DEF TableTypes
    <2> QED
      BY <2>2, <2>3, <2>4, <2>5, ZenonT(30) DEF TableTypes
  <1>6. \A d \in TableCallers : tableCall'[d] = IF d = c THEN NoTableCall ELSE tableCall[d]
    BY <1>2 DEF TablesInv, TableTypes
  <1>7. \A u \in TableNames : u # t => sysTables'[u] = sysTables[u] /\ created'[u] = created[u]
    BY <1>1, <1>2 DEF TablesInv, TableTypes
  <1>8. OneCreator'
    BY <1>6 DEF TablesInv, OneCreator, IsCreating, NoTableCall
  <1>9. PutFindsNoRow'
    <2> SUFFICES ASSUME NEW d \in TableCallers, tableCall'[d].at = "put"
                 PROVE  sysTables'[tableCall'[d].table] = <<>>
      BY DEF PutFindsNoRow
    <2>1. d # c /\ tableCall'[d] = tableCall[d]
      BY <1>6 DEF NoTableCall
    <2>2. tableCall[d].table # t /\ tableCall[d].table \in TableNames
      BY <1>1, <2>1, TableCallKinds DEF TablesInv, OneCreator, IsCreating, t
    <2> QED
      BY <1>7, <2>1, <2>2 DEF TablesInv, PutFindsNoRow
  <1>10. CreatedHasRow' /\ \A u \in TableNames : created'[u] <= 1
    <2> SUFFICES ASSUME NEW u \in TableNames
                 PROVE  (created'[u] = 1 => sysTables'[u] # <<>>) /\ created'[u] <= 1
      BY DEF CreatedHasRow
    <2>1. CASE u = t
      <3>1. CASE created' = created
        BY <1>4, <2>1, <3>1
      <3>2. CASE sysTables' = [sysTables EXCEPT ![t] = <<f>>] /\ created' = [created EXCEPT ![t] = @ + 1]
        <4>1. created'[u] = created[t] + 1 /\ sysTables'[u] = <<f>>
          BY <2>1, <3>2 DEF TablesInv, TableTypes
        <4> QED
          BY <1>4, <4>1
      <3> QED
        BY <1>2, <3>1, <3>2
    <2>2. CASE u # t
      BY <1>7, <2>2 DEF TablesInv, CreatedHasRow, SchemaIsStable
    <2> QED
      BY <2>1, <2>2
  <1>11. \A h \in handles' : sysTables'[h.table] = <<h.fields>>
    <2>1. ASSUME NEW h \in handles PROVE h.table \in TableNames /\ h.table # t
      <3>1. h.table \in TableNames /\ sysTables[h.table] = <<h.fields>>
        BY DEF TablesInv, TableTypes, SchemaIsStable
      <3>2. <<h.fields>> # <<>>
        OBVIOUS
      <3> QED
        BY <1>1, <3>1, <3>2, SMTT(30)
    <2>2. \A h \in handles : sysTables'[h.table] = <<h.fields>>
      BY <1>7, <2>1 DEF TablesInv, SchemaIsStable
    <2>3. sysTables' = [sysTables EXCEPT ![t] = <<f>>] =>
            sysTables'[Handle(t, f).table] = <<Handle(t, f).fields>>
      BY <1>1 DEF TablesInv, TableTypes, Handle
    <2> QED
      BY <1>2, <2>2, <2>3
  <1> QED
    BY <1>5, <1>8, <1>9, <1>10, <1>11, ZenonT(30) DEF TablesInv, SchemaIsStable

LEMMA OpenKeepsInv ==
    ASSUME TablesInv, NEW c \in TableCallers, AnswerOpen(c)
    PROVE  TablesInv'
  <1> DEFINE t == tableCall[c].table
  <1>1. t \in TableNames /\ UNCHANGED <<sysTables, created>>
    BY TableCallKinds, ZenonT(30) DEF TablesInv, AnswerOpen
  <1>2. CASE Callback(c, {})
    <2>1. {} \in SUBSET [table : TableNames, fields : ValueFields]
      OBVIOUS
    <2> QED
      BY <1>1, <1>2, <2>1, CallbackKeepsInv, ZenonT(30)
  <1>3. CASE sysTables[t] # <<>> /\ Callback(c, {Handle(t, sysTables[t][1])})
    <2>1. PICK f \in ValueFields : sysTables[t] = <<f>>
      BY <1>1, <1>3 DEF TablesInv, TableTypes
    <2>2. Handle(t, f) \in [table : TableNames, fields : ValueFields]
          /\ Handle(t, f).table = t /\ Handle(t, f).fields = f
      BY <1>1, <2>1 DEF Handle
    <2>3. Callback(c, {Handle(t, f)})
      BY <1>3, <2>1
    <2> QED
      BY <1>1, <2>1, <2>2, <2>3, CallbackKeepsInv
  <1> QED
    BY <1>2, <1>3, ZenonT(30) DEF AnswerOpen

(* However creations and openings of tables interleave and fail, as long as  *)
(* creations of one table do not overlap: a table is created at most once    *)
(* and what asyncCreateTable and asyncOpenTable gave stays its schema.       *)
THEOREM SchemasAreStable == TablesSpec => []SchemaIsStable
  <1>1. TablesInv /\ [TablesNext]_tableVars => TablesInv'
    <2> SUFFICES ASSUME TablesInv, [TablesNext]_tableVars PROVE TablesInv'
      OBVIOUS
    <2>1. CASE UNCHANGED tableVars
      BY <2>1, ZenonT(30) DEF TablesInv, TableTypes, OneCreator, PutFindsNoRow, CreatedHasRow, SchemaIsStable,
                  IsCreating, tableVars
    <2>2. CASE TablesNext
      BY <2>2, StartKeepsInv, CheckKeepsInv, PutKeepsInv, OpenKeepsInv DEF TablesNext
    <2> QED
      BY <2>1, <2>2
  <1>2. TablesInv => SchemaIsStable
    BY DEF TablesInv
  <1> QED
    BY <1>1, <1>2, TablesInitInv, PTL DEF TablesSpec
-----------------------------------------------------------------------------
(* CallbackCollection                                                      *)

\* a set of natural numbers has a least one: the argument by the smallest counterexample
LEMMA LeastNatural ==
    ASSUME NEW T \in SUBSET Nat, T # {}
    PROVE  \E x \in T : \A y \in T : x <= y
  <1> DEFINE R == OpToRel(<, Nat)
  <1>1. IsWellFoundedOn(R, Nat)
    BY NatLessThanWellFounded, ZenonT(30)
  <1>2. PICK x \in T : \A y \in T : ~ (<<y, x>> \in R)
    <2> HIDE DEF R
    <2> QED
      BY <1>1, WFMin, ZenonT(30)
  <1>3. \A y \in T : ~ (y < x)
    BY <1>2, ZenonT(30) DEF OpToRel
  <1> QED
    BY <1>3

\* a bounded set of natural numbers has a largest one
LEMMA MaxOfBounded ==
    ASSUME NEW D \in SUBSET Nat, D # {}, NEW n \in Nat, \A k \in D : k <= n
    PROVE  Max(D) \in D /\ \A k \in D : k <= Max(D)
  <1> DEFINE bounds == {m \in Nat : \A k \in D : k <= m}
  <1>1. PICK m \in bounds : \A b \in bounds : m <= b
    <2>1. bounds \in SUBSET Nat /\ n \in bounds
      OBVIOUS
    <2> QED
      BY <2>1, LeastNatural, ZenonT(30)
  <1>2. m \in D
    <2> SUFFICES ASSUME m \notin D PROVE FALSE
      OBVIOUS
    <2>1. m \in Nat /\ \A k \in D : k \in Nat /\ k < m
      BY <1>1
    <2>2. m - 1 \in bounds
      <3>1. PICK k \in D : k \in Nat /\ k < m
        BY <2>1, ZenonT(30)
      <3>2. m - 1 \in Nat /\ \A j \in D : j <= m - 1
        BY <2>1, <3>1
      <3> QED
        BY <3>2
    <2> QED
      BY <1>1, <2>1, <2>2
  <1>3. \A k \in D : m >= k
    BY <1>1
  <1> QED
    BY <1>2, <1>3, ZenonT(30) DEF Max

CallbackSpec == CallbackInit /\ [][CallbackNext]_callbackVars

Keys == DOMAIN collection

\* the place of a key in the order of the keys D
Rank(D, k) == Cardinality({j \in D : j <= k})

LEMMA RankIsBijective ==
    ASSUME NEW D \in SUBSET Nat, IsFiniteSet(D)
    PROVE  /\ Cardinality(D) \in Nat
           /\ \A k \in D : Rank(D, k) \in 1..Cardinality(D)
           /\ \A j, k \in D : Rank(D, j) = Rank(D, k) => j = k
           /\ \A i \in 1..Cardinality(D) : \E k \in D : Rank(D, k) = i
  <1> DEFINE upTo(k) == {j \in D : j <= k}
             n == Cardinality(D)
             rank == [k \in D |-> Rank(D, k)]
  <1>1. n \in Nat
    BY FS_CardinalityType
  <1>2. \A k \in D : IsFiniteSet(upTo(k)) /\ Cardinality(upTo(k)) <= n /\ Cardinality(upTo(k)) \in Nat
    <2> TAKE k \in D
    <2>1. upTo(k) \in SUBSET D
      OBVIOUS
    <2> QED
      BY <2>1, FS_Subset, FS_CardinalityType
  <1>3. \A k \in D : Rank(D, k) \in 1..n
    <2> TAKE k \in D
    <2>1. k \in upTo(k)
      OBVIOUS
    <2>2. Cardinality(upTo(k)) # 0
      BY <1>2, <2>1, FS_EmptySet
    <2> QED
      BY <1>1, <1>2, <2>2 DEF Rank
  <1>4. ASSUME NEW j \in D, NEW k \in D, j < k PROVE Rank(D, j) # Rank(D, k)
    <2>1. upTo(j) \in SUBSET upTo(k) /\ k \in upTo(k) /\ k \notin upTo(j)
      <3>1. j \in Nat /\ k \in Nat /\ \A i \in D : i \in Nat
        OBVIOUS
      <3>2. \A i \in D : i <= j => i <= k
        BY <1>4, <3>1
      <3>3. ~ (k <= j) /\ k <= k
        BY <1>4, <3>1
      <3> QED
        BY <3>2, <3>3, ZenonT(30)
    <2>2. upTo(j) # upTo(k)
      BY <2>1
    <2> QED
      BY <1>2, <2>1, <2>2, FS_Subset DEF Rank
  <1>5. \A j, k \in D : Rank(D, j) = Rank(D, k) => j = k
    BY <1>4
  <1>6. rank \in Injection(D, 1..n)
    BY <1>3, <1>5 DEF Injection, IsInjective
  <1>7. IsFiniteSet(1..n) /\ Cardinality(1..n) = n
    BY <1>1, FS_Interval
  <1>8. rank \in Surjection(D, 1..n)
    BY <1>6, <1>7, FS_Injection
  <1>9. \A i \in 1..n : \E k \in D : Rank(D, k) = i
    BY <1>8, ZenonT(30) DEF Surjection
  <1> QED
    BY <1>1, <1>3, <1>5, <1>9

CallbackTypes ==
    /\ Keys \in SUBSET Nat
    /\ \E n \in Nat : \A k \in Keys : k <= n
    /\ collection \in [Keys -> Subscribers]
    /\ key \in [Subscribers -> Nat \cup {NoKey}]
    /\ handled \in SUBSET Subscribers /\ born \in SUBSET Subscribers
    /\ round \in SUBSET Subscribers
    /\ pending \in Seq(Subscribers)

\* the key of a registration is the one its callback remembers, so that no
\* callback is registered twice
OwnKey == \A k \in Keys : key[collection[k]] = k

\* a callback lives once: what a notification began with is never added again
LivesOnce == handled \subseteq born /\ round \subseteq born

\* a notification that runs holds every live callback it has not called
RoundIsHeld ==
    /\ \A i \in 1..Len(pending) : pending[i] \in round
    /\ \A s \in round \cap Alive : s \in called \/ \E i \in 1..Len(pending) : pending[i] = s

CallbackInv ==
    /\ CallbackTypes /\ OwnKey /\ LivesOnce
    /\ RegistrationsMatch
    /\ called \subseteq round /\ RoundIsHeld

\* the key of a new registration is free, and the keys stay bounded
LEMMA NewKeyIsFree ==
    ASSUME CallbackTypes
    PROVE  /\ NewKey \in Nat \ Keys
           /\ \E n \in Nat : \A k \in Keys \cup {NewKey} : k <= n
  <1>1. CASE Keys = {}
    BY <1>1 DEF NewKey, Keys
  <1>2. CASE Keys # {}
    <2>1. PICK n \in Nat : \A k \in Keys : k <= n
      BY ZenonT(30) DEF CallbackTypes
    <2>2. Max(Keys) \in Keys /\ \A k \in Keys : k <= Max(Keys)
      BY <1>2, <2>1, MaxOfBounded, ZenonT(30) DEF CallbackTypes
    <2>3. NewKey = Max(Keys) + 1
      BY <1>2 DEF NewKey, Keys
    <2>4. Max(Keys) \in Nat /\ Keys \subseteq Nat
      BY <2>2, ZenonT(30) DEF CallbackTypes
    <2>5. NewKey \in Nat /\ NewKey \notin Keys /\ \A k \in Keys \cup {NewKey} : k <= NewKey
      BY <2>2, <2>3, <2>4
    <2> QED
      BY <2>5
  <1> QED
    BY <1>1, <1>2

\* convertMapToVector: the copy has the callbacks of the collection, all of
\* them and no others
LEMMA CopyIsComplete ==
    ASSUME CallbackTypes
    PROVE  /\ CollectionSeq \in Seq(Subscribers)
           /\ \A i \in 1..Len(CollectionSeq) : \E k \in Keys : CollectionSeq[i] = collection[k]
           /\ \A k \in Keys : \E i \in 1..Len(CollectionSeq) : CollectionSeq[i] = collection[k]
  <1> DEFINE n == Cardinality(Keys)
             at(i) == CHOOSE k \in Keys : Rank(Keys, k) = i
  <1>1. Keys \in SUBSET Nat /\ IsFiniteSet(Keys)
    BY FS_BoundedSetOfNaturals, ZenonT(30) DEF CallbackTypes
  <1>2. /\ n \in Nat
        /\ \A k \in Keys : Rank(Keys, k) \in 1..n
        /\ \A j, k \in Keys : Rank(Keys, j) = Rank(Keys, k) => j = k
        /\ \A i \in 1..n : \E k \in Keys : Rank(Keys, k) = i
    BY <1>1, RankIsBijective
  <1>3. \A i \in 1..n : at(i) \in Keys /\ Rank(Keys, at(i)) = i
    BY <1>2
  <1>4. CollectionSeq = [i \in 1..n |-> collection[at(i)]]
    BY DEF CollectionSeq, Rank, Keys
  <1> HIDE DEF at
  <1>5. \A i \in 1..n : collection[at(i)] \in Subscribers
    BY <1>3 DEF CallbackTypes
  <1>6. CollectionSeq \in Seq(Subscribers) /\ Len(CollectionSeq) = n
    BY <1>2, <1>4, <1>5
  <1>7. \A i \in 1..n : CollectionSeq[i] = collection[at(i)]
    BY <1>4
  <1>8. \A k \in Keys : at(Rank(Keys, k)) = k
    BY <1>2, <1>3
  <1> QED
    BY <1>2, <1>3, <1>6, <1>7, <1>8

LEMMA CallbackInitInv == CallbackInit => CallbackInv
  <1> SUFFICES ASSUME CallbackInit PROVE CallbackInv
    OBVIOUS
  <1> USE DEF CallbackInit
  <1>1. Keys = {}
    BY DEF Keys
  <1>2. collection \in [Keys -> Subscribers]
    BY <1>1
  <1>3. CallbackTypes
    BY <1>1, <1>2 DEF CallbackTypes
  <1> QED
    BY <1>1, <1>3 DEF CallbackInv, OwnKey, LivesOnce, RegistrationsMatch, RoundIsHeld, Keys

LEMMA AddKeepsCallbackInv ==
    ASSUME CallbackInv, NEW s \in Subscribers, Add(s)
    PROVE  CallbackInv'
  <1> USE DEF CallbackInv
  <1>1. PICK new \in Nat : new = NewKey /\ new \notin Keys
    BY NewKeyIsFree
  <1>2. PICK bound \in Nat : \A k \in Keys \cup {new} : k <= bound
    BY <1>1, NewKeyIsFree
  <1>3. /\ s \notin born /\ s \notin handled /\ s \notin round /\ open
        /\ born' = born \cup {s} /\ handled' = handled \cup {s}
        /\ pending' = pending /\ round' = round /\ called' = called /\ open' = open
    BY DEF Add, LivesOnce
  <1>4. Keys' = Keys \cup {new}
    BY <1>1 DEF Add, Keys
  <1>5. \A k \in Keys' : collection'[k] = IF k = new THEN s ELSE collection[k]
    BY <1>1, <1>4 DEF Add, Keys
  <1>6. \A t \in Subscribers : key'[t] = IF t = s THEN new ELSE key[t]
    BY <1>1 DEF Add, CallbackTypes
  <1>7. CallbackTypes'
    <2>1. collection' = [k \in Keys' |-> IF k = new THEN s ELSE collection[k]]
      BY <1>1, <1>4 DEF Add, Keys
    <2>2. collection' \in [Keys' -> Subscribers]
      BY <1>4, <2>1 DEF CallbackTypes
    <2>3. key' \in [Subscribers -> Nat \cup {NoKey}]
      BY <1>1 DEF Add, CallbackTypes
    <2> QED
      BY <1>2, <1>3, <1>4, <2>2, <2>3, ZenonT(30) DEF CallbackTypes
  <1>8. OwnKey'
    BY <1>1, <1>3, <1>4, <1>5, <1>6 DEF OwnKey, CallbackTypes, RegistrationsMatch, Keys
  <1>9. LivesOnce'
    BY <1>3, ZenonT(30) DEF LivesOnce
  <1>10. RegistrationsMatch'
    <2>1. \A t \in handled' : key'[t] \in Keys' /\ collection'[key'[t]] = t
      BY <1>1, <1>3, <1>4, <1>5, <1>6 DEF CallbackTypes, RegistrationsMatch, Keys
    <2>2. \A k \in Keys' : collection'[k] \in handled'
      BY <1>1, <1>3, <1>4, <1>5 DEF CallbackTypes, RegistrationsMatch, Keys
    <2> QED
      BY <1>3, <2>1, <2>2, ZenonT(30) DEF RegistrationsMatch, Keys
  <1>11. RoundIsHeld'
    <2>1. round' \cap Alive' \subseteq round \cap Alive
      BY <1>3, <1>6 DEF Alive, CallbackTypes
    <2> QED
      BY <1>3, <2>1 DEF RoundIsHeld
  <1> QED
    BY <1>3, <1>7, <1>8, <1>9, <1>10, <1>11

LEMMA DropKeepsCallbackInv ==
    ASSUME CallbackInv, NEW s \in Subscribers, Drop(s)
    PROVE  CallbackInv'
  <1> USE DEF CallbackInv
  <1>1. /\ handled' = handled \ {s} /\ born' = born
        /\ pending' = pending /\ round' = round /\ called' = called /\ open' = open
    BY DEF Drop
  <1>2. /\ Keys' \subseteq Keys
        /\ Keys' = {k \in Keys : collection[k] # s}
        /\ collection' = [k \in Keys' |-> collection[k]]
    <2>1. CASE s \in handled
      <3>1. Keys' = Keys \ {key[s]} /\ collection' = [k \in Keys' |-> collection[k]]
        BY <2>1 DEF Drop, Keys
      <3>2. \A k \in Keys : collection[k] = s <=> k = key[s]
        BY <2>1 DEF OwnKey, RegistrationsMatch, Keys
      <3> QED
        BY <3>1, <3>2
    <2>2. CASE s \notin handled
      <3>1. collection' = collection /\ Keys' = Keys
        BY <2>2 DEF Drop, Keys
      <3>2. \A k \in Keys : collection[k] # s
        BY <2>2 DEF RegistrationsMatch, Keys
      <3>3. collection = [k \in Keys |-> collection[k]]
        BY DEF CallbackTypes
      <3> QED
        BY <3>1, <3>2, <3>3
    <2> QED
      BY <2>1, <2>2
  <1>3. \A k \in Keys' : collection'[k] = collection[k] /\ collection[k] # s
    BY <1>2
  <1>4. \A t \in Subscribers : key'[t] = IF t = s THEN NoKey ELSE key[t]
    BY DEF Drop, CallbackTypes
  <1>5. CallbackTypes'
    <2>1. collection' \in [Keys' -> Subscribers]
      BY <1>2, ZenonT(30) DEF CallbackTypes
    <2>2. key' \in [Subscribers -> Nat \cup {NoKey}]
      BY DEF Drop, CallbackTypes
    <2>3. \E n \in Nat : \A k \in Keys' : k <= n
      BY <1>2, ZenonT(30) DEF CallbackTypes
    <2> QED
      BY <1>1, <1>2, <2>1, <2>2, <2>3, ZenonT(30) DEF CallbackTypes
  <1>6. OwnKey'
    BY <1>2, <1>3, <1>4 DEF OwnKey, CallbackTypes
  <1>7. LivesOnce'
    BY <1>1 DEF LivesOnce
  <1>8. RegistrationsMatch'
    <2>1. \A t \in handled' : key'[t] \in Keys' /\ collection'[key'[t]] = t
      BY <1>1, <1>2, <1>3, <1>4 DEF CallbackTypes, RegistrationsMatch, Keys
    <2>2. \A k \in Keys' : collection'[k] \in handled'
      BY <1>1, <1>2, <1>3 DEF RegistrationsMatch, Keys
    <2> QED
      BY <1>1, <2>1, <2>2, ZenonT(30) DEF RegistrationsMatch, Keys
  <1>9. RoundIsHeld'
    <2>1. round' \cap Alive' \subseteq round \cap Alive
      BY <1>1, <1>4 DEF Alive, CallbackTypes
    <2> QED
      BY <1>1, <2>1 DEF RoundIsHeld
  <1> QED
    BY <1>1, <1>5, <1>6, <1>7, <1>8, <1>9

LEMMA NotifyBeginKeepsCallbackInv ==
    ASSUME CallbackInv, NotifyBegin
    PROVE  CallbackInv'
  <1> USE DEF CallbackInv
  <1>1. PICK copy \in Seq(Subscribers) : copy = CollectionSeq
    BY CopyIsComplete
  <1>2. /\ \A i \in 1..Len(copy) : \E k \in Keys : copy[i] = collection[k]
        /\ \A k \in Keys : \E i \in 1..Len(copy) : copy[i] = collection[k]
    BY <1>1, CopyIsComplete
  <1>3. /\ Keys # {} /\ pending' = Tail(copy) /\ called' = {Head(copy)}
        /\ round' = {collection[k] : k \in Keys}
        /\ collection' = collection /\ key' = key /\ handled' = handled
        /\ born' = born /\ open' = open
    BY <1>1 DEF NotifyBegin, Keys
  <1>4. copy # <<>>
    BY <1>2, <1>3
  <1>5. /\ Tail(copy) \in Seq(Subscribers)
        /\ Len(copy) \in Nat \ {0} /\ Head(copy) = copy[1]
        /\ Len(Tail(copy)) = Len(copy) - 1
        /\ \A i \in 1..Len(Tail(copy)) : Tail(copy)[i] = copy[i + 1]
    BY <1>4, HeadTailProperties
  <1>6. \A i \in 1..Len(copy) : copy[i] \in round'
    BY <1>2, <1>3, ZenonT(30)
  <1>7. round' \subseteq handled
    BY <1>3 DEF RegistrationsMatch, Keys
  <1>8. RoundIsHeld'
    <2>1. \A i \in 1..Len(pending') : pending'[i] \in round'
      BY <1>3, <1>5, <1>6
    <2>2. ASSUME NEW s \in round' PROVE s \in called' \/ \E i \in 1..Len(pending') : pending'[i] = s
      <3>1. PICK j \in 1..Len(copy) : copy[j] = s
        BY <1>2, <1>3, <2>2, ZenonT(30)
      <3>2. CASE j = 1
        BY <1>3, <1>5, <3>1, <3>2
      <3>3. CASE j # 1
        <4>1. j - 1 \in 1..Len(Tail(copy)) /\ Tail(copy)[j - 1] = copy[(j - 1) + 1] /\ (j - 1) + 1 = j
          BY <1>5, <3>1, <3>3
        <4> QED
          BY <1>3, <3>1, <4>1, ZenonT(30)
      <3> QED
        BY <3>2, <3>3
    <2> QED
      BY <2>1, <2>2 DEF RoundIsHeld
  <1>9. CallbackTypes'
    BY <1>3, <1>5, <1>7 DEF CallbackTypes, Keys
  <1>10. OwnKey' /\ LivesOnce' /\ RegistrationsMatch'
    BY <1>3, <1>7 DEF OwnKey, LivesOnce, RegistrationsMatch, Keys
  <1>11. called' \subseteq round'
    BY <1>3, <1>5, <1>6
  <1> QED
    BY <1>8, <1>9, <1>10, <1>11

LEMMA NotifyNextKeepsCallbackInv ==
    ASSUME CallbackInv, NotifyNext
    PROVE  CallbackInv'
  <1> USE DEF CallbackInv
  <1>1. /\ pending # <<>> /\ pending' = Tail(pending)
        /\ called' = called \cup ({Head(pending)} \cap Alive)
        /\ round' = round /\ collection' = collection /\ key' = key
        /\ handled' = handled /\ born' = born /\ open' = open
    BY DEF NotifyNext
  <1>2. /\ pending' \in Seq(Subscribers)
        /\ Len(pending) \in Nat \ {0} /\ Head(pending) = pending[1]
        /\ Len(pending') = Len(pending) - 1
        /\ \A i \in 1..Len(pending') : pending'[i] = pending[i + 1]
    BY <1>1, HeadTailProperties DEF CallbackTypes
  <1>3. \A i \in 1..Len(pending') : pending'[i] \in round'
    BY <1>1, <1>2 DEF RoundIsHeld
  <1>4. ASSUME NEW s \in round \cap Alive
        PROVE  s \in called' \/ \E i \in 1..Len(pending') : pending'[i] = s
    <2>1. CASE s \in called
      BY <1>1, <2>1
    <2>2. CASE s \notin called
      <3>1. PICK j \in 1..Len(pending) : pending[j] = s
        BY <2>2 DEF RoundIsHeld
      <3>2. CASE j = 1
        BY <1>1, <1>2, <3>1, <3>2
      <3>3. CASE j # 1
        <4>1. j - 1 \in 1..Len(pending') /\ pending'[j - 1] = pending[(j - 1) + 1] /\ (j - 1) + 1 = j
          BY <1>2, <3>1, <3>3
        <4> QED
          BY <3>1, <4>1
      <3> QED
        BY <3>2, <3>3
    <2> QED
      BY <2>1, <2>2
  <1>5. RoundIsHeld'
    BY <1>1, <1>3, <1>4 DEF RoundIsHeld, Alive
  <1>6. called' \subseteq round'
    BY <1>1, <1>2 DEF RoundIsHeld
  <1> QED
    BY <1>1, <1>2, <1>5, <1>6 DEF CallbackTypes, OwnKey, LivesOnce, RegistrationsMatch, Keys

LEMMA DestroyKeepsCallbackInv ==
    ASSUME CallbackInv, DestroyCollection
    PROVE  CallbackInv'
  <1> USE DEF CallbackInv
  <1>1. /\ pending' = pending /\ called' = called /\ round' = round /\ key' = key
        /\ born' = born /\ open' = FALSE
        /\ handled' = handled \ {collection[k] : k \in Keys}
        /\ collection' = [k \in {} |-> 0]
    BY DEF DestroyCollection, Keys
  <1>2. Keys' = {} /\ collection' \in [Keys' -> Subscribers]
    BY <1>1 DEF Keys
  <1>3. handled' = {}
    BY <1>1 DEF RegistrationsMatch, Keys
  <1>4. CallbackTypes'
    BY <1>1, <1>2, <1>3 DEF CallbackTypes
  <1>5. RegistrationsMatch' /\ OwnKey' /\ LivesOnce'
    BY <1>1, <1>2, <1>3, SMTT(30) DEF RegistrationsMatch, OwnKey, LivesOnce, Keys
  <1> QED
    BY <1>1, <1>4, <1>5 DEF RoundIsHeld, Alive

LEMMA CallbackInvStep ==
    ASSUME CallbackInv, [CallbackNext]_callbackVars
    PROVE  CallbackInv'
  <1>1. CASE UNCHANGED callbackVars
    BY <1>1 DEF callbackVars, CallbackInv, CallbackTypes, OwnKey, LivesOnce,
                RegistrationsMatch, RoundIsHeld, Keys, Alive
  <1>2. CASE CallbackNext
    BY <1>2, AddKeepsCallbackInv, DropKeepsCallbackInv, NotifyBeginKeepsCallbackInv,
       NotifyNextKeepsCallbackInv, DestroyKeepsCallbackInv DEF CallbackNext
  <1> QED
    BY <1>1, <1>2

\* Adding, dropping and destroying (CallbackCollectionHandler.h), for any set
\* of subscribers and in any order, from inside a notification too: the
\* callbacks that will erase their iterator are exactly the registered ones,
\* each under its own key.
THEOREM RegistrationsAlwaysMatch == CallbackSpec => []RegistrationsMatch
  <1>1. CallbackInv => RegistrationsMatch
    BY DEF CallbackInv
  <1> QED
    BY <1>1, CallbackInitInv, CallbackInvStep, PTL DEF CallbackSpec

\* operator() of the collection, for any set of subscribers: a notification
\* calls only callbacks that were registered when it began, and every one of
\* them that is still alive when it ends.
THEOREM NotificationsReachTheLiving == CallbackSpec => []NotifiedOnceAlive
  <1>1. CallbackInv => NotifiedOnceAlive
    BY DEF CallbackInv, RoundIsHeld, NotifiedOnceAlive
  <1> QED
    BY <1>1, CallbackInitInv, CallbackInvStep, PTL DEF CallbackSpec
=============================================================================

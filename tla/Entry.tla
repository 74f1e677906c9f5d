-------------------------------- MODULE Entry --------------------------------
(***************************************************************************)
(* The value of a storage Entry: up to SmallSize bytes in a buffer inside  *)
(* the entry, up to MediumSize in a string of its own, above that in a     *)
(* string shared with the entry's copies.  m_size says how much of it is   *)
(* the value.  Copies are made wherever an entry crosses an interface.     *)
(***************************************************************************)
EXTENDS Naturals, Sequences

CONSTANTS
    EntryObjects,
    EntryValues,                \* byte sequences callers store
    SmallSize, MediumSize,      \* 32 and 64 in the code
    MaxEntryCalls               \* bound: calls made on the entries

ASSUME EntrySizes == SmallSize \in Nat /\ MediumSize \in Nat /\ SmallSize < MediumSize
ASSUME EntryBytes == EntryValues \subseteq Seq(0..255)

VARIABLES
    entry,      \* the entries
    heap,       \* shared strings, by address
    stored,     \* what was last stored in each: <<>> after exportFields, else <<value>>
    entryCalls

entryVars == << entry, heap, stored, entryCalls >>

NewSBOBuffer == [i \in 1..SmallSize |-> 0]

EntryInit ==
    /\ entry = [e \in EntryObjects |->
                    [holds |-> "sbo", sbo |-> NewSBOBuffer, own |-> <<>>, shared |-> 0, size |-> 0]]
    /\ heap = <<>>
    /\ stored = [e \in EntryObjects |-> << <<>> >>]
    /\ entryCalls = 0

EntryCall == entryCalls < MaxEntryCalls /\ entryCalls' = entryCalls + 1

\* std::copy_n into the buffer, which keeps its bytes behind the value
CopyN(v, buffer) == [i \in 1..SmallSize |-> IF i <= Len(v) THEN v[i] ELSE buffer[i]]

\* a small value copied in without its size
SmallValueKeepsSize(o, v) ==
    [o EXCEPT !.holds = "sbo", !.sbo = CopyN(v, IF o.holds = "sbo" THEN o.sbo ELSE NewSBOBuffer),
              !.size = IF o.holds = "sbo" /\ o.size > Len(v) THEN o.size ELSE Len(v)]

SmallValue(o, v) ==
    [o EXCEPT !.holds = "sbo", !.sbo = CopyN(v, IF o.holds = "sbo" THEN o.sbo ELSE NewSBOBuffer),
              !.size = Len(v)]

\* set, setField, setObject, importFields
SetEntry(e, v) ==
    /\ EntryCall
    /\ stored' = [stored EXCEPT ![e] = <<v>>]
    /\ IF Len(v) > MediumSize
       THEN /\ heap' = Append(heap, v)
            /\ entry' = [entry EXCEPT ![e] = [@ EXCEPT !.holds = "shared", !.shared = Len(heap'), !.size = Len(v)]]
       ELSE /\ entry' = [entry EXCEPT ![e] =
                    IF Len(v) <= SmallSize THEN SmallValue(entry[e], v)
                    ELSE [@ EXCEPT !.holds = "own", !.own = v, !.size = Len(v)]]
            /\ UNCHANGED heap

\* the copy shares a large value
CopyEntry(e, f) ==
    /\ EntryCall
    /\ entry' = [entry EXCEPT ![f] = entry[e]]
    /\ stored' = [stored EXCEPT ![f] = stored[e]]
    /\ UNCHANGED heap

\* the value is moved out: a string of its own is left empty, a shared one null
ExportFields(e) ==
    /\ EntryCall
    /\ entry' = [entry EXCEPT ![e] = [@ EXCEPT !.own = <<>>, !.shared = 0, !.size = 0]]
    /\ stored' = [stored EXCEPT ![e] = <<>>]
    /\ UNCHANGED heap

\* the bytes of whichever alternative the variant holds, cut to m_size
OutputValueView(o) ==
    SubSeq(CASE o.holds = "sbo" -> o.sbo
             [] o.holds = "own" -> o.own
             [] o.holds = "shared" -> heap[o.shared],
           1, o.size)

\* get, getField, getObject
ValueView(e) == OutputValueView(entry[e])

EntryNext == \E e \in EntryObjects :
    \/ \E v \in EntryValues : SetEntry(e, v)
    \/ \E f \in EntryObjects \ {e} : CopyEntry(e, f)
    \/ ExportFields(e)

-----------------------------------------------------------------------------

\* An entry reads back the value last stored in it or copied to it, whatever
\* lengths it held before and whatever is done to its copies.
EntryReadsBack ==
    \A e \in EntryObjects : stored[e] # <<>> => ValueView(e) = stored[e][1]
=============================================================================

--------------------------- MODULE SavepointStore ---------------------------
(***************************************************************************)
(* What StateStorage promises the contract calls that run on it, with      *)
(* recorders, imports, locks and the steps of rollback left out: each      *)
(* thread changes its own rows one at a time, keeps a stack of savepoints, *)
(* and goes back to the last one in one step that no other thread sees     *)
(* half done and that leaves the rows of the others alone.                 *)
(***************************************************************************)
EXTENDS Sequences, Naturals

CONSTANTS Threads, Keys, Owner, Rows, NoRow

VARIABLES
  written,      \* what the block has written to each row, or NoRow
  savepoints    \* of each thread: what it had written at each

storeVars == <<written, savepoints>>

Own(t) == [k \in Keys |-> IF Owner[k] = t THEN written[k] ELSE NoRow]

Init ==
  /\ written = [k \in Keys |-> NoRow]
  /\ savepoints = [t \in Threads |-> <<>>]

\* a row is stored, or erased
Write(t, k) ==
  /\ Owner[k] = t
  /\ \E r \in Rows \cup {NoRow} : written' = [written EXCEPT ![k] = r]
  /\ UNCHANGED savepoints

Save(t) ==
  /\ savepoints' = [savepoints EXCEPT ![t] = Append(@, Own(t))]
  /\ UNCHANGED written

\* what was written stays, and cannot be taken back any more
Keep(t) ==
  /\ savepoints' = [savepoints EXCEPT ![t] = <<>>]
  /\ UNCHANGED written

Revert(t) ==
  LET last == Len(savepoints[t])
  IN  /\ last > 0
      /\ written' = [k \in Keys |-> IF Owner[k] = t THEN savepoints[t][last][k] ELSE written[k]]
      /\ savepoints' = [savepoints EXCEPT ![t] = SubSeq(@, 1, last - 1)]

Next == \E t \in Threads : Save(t) \/ Keep(t) \/ Revert(t) \/ \E k \in Keys : Write(t, k)

Spec == Init /\ [][Next]_storeVars
=============================================================================

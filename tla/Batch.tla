-------------------------------- MODULE Batch --------------------------------
(***************************************************************************)
(* asyncBatchSetRows: one asyncSetRow for each entry, whose callbacks      *)
(* record their result and count, and the last of which hands the results  *)
(* to the caller.  The storage answers each call when it likes: one        *)
(* callback at a time, or, with batchOverlap, several on threads of its    *)
(* own.  The results are a std::vector<bool>, so writing one bit reads and *)
(* writes the word it shares with the others.                              *)
(***************************************************************************)
EXTENDS Naturals, Sequences, FiniteSets

CONSTANT BatchSize          \* entries.size(), at least one: no entry calls nothing back

ASSUME BatchAssumption == BatchSize \in Nat \ {0}

Rows == 1..BatchSize

VARIABLES
    batchOverlap,   \* whether callbacks may run at the same time
    callbackAt,     \* where the callback of each row is
    rowOk,          \* the storage's answer for each row
    word,           \* the word of results each callback read
    results,        \* ResultCollection::results
    resultsMoved,   \* the results were moved to the caller: size() is 0
    success, failed,
    calledBack      \* what the caller was handed, in order

batchVars == << batchOverlap, callbackAt, rowOk, word, results, resultsMoved, success, failed, calledBack >>

AllFalse == [r \in Rows |-> FALSE]

BatchInit ==
    /\ batchOverlap \in BOOLEAN
    /\ callbackAt = [r \in Rows |-> "unsent"]
    /\ rowOk = AllFalse
    /\ word = [r \in Rows |-> AllFalse]
    /\ results = AllFalse
    /\ resultsMoved = FALSE
    /\ success = 0 /\ failed = 0
    /\ calledBack = <<>>

Running(r) == callbackAt[r] \in {"write", "count", "check", "call"}

To(r, at) == callbackAt' = [callbackAt EXCEPT ![r] = at]

\* the loop calls asyncSetRow in order
SendRow(r) ==
    /\ callbackAt[r] = "unsent"
    /\ r > 1 => callbackAt[r - 1] # "unsent"
    /\ To(r, "sent")
    /\ UNCHANGED << batchOverlap, rowOk, word, results, resultsMoved, success, failed, calledBack >>

\* the storage answers: the callback reads the word
AnswerRow(r) ==
    /\ callbackAt[r] = "sent"
    /\ ~batchOverlap => \A s \in Rows : ~Running(s)
    /\ \E ok \in BOOLEAN : rowOk' = [rowOk EXCEPT ![r] = ok]
    /\ word' = [word EXCEPT ![r] = results]
    /\ To(r, "write")
    /\ UNCHANGED << batchOverlap, results, resultsMoved, success, failed, calledBack >>

WriteResult(r) ==
    /\ callbackAt[r] = "write"
    /\ results' = [word[r] EXCEPT ![r] = rowOk[r]]
    /\ To(r, "count")
    /\ UNCHANGED << batchOverlap, rowOk, word, resultsMoved, success, failed, calledBack >>

\* only the rows that were set are counted
CountSuccessOnly(r) ==
    /\ callbackAt[r] = "count"
    /\ success' = IF rowOk[r] THEN success + 1 ELSE success
    /\ To(r, "check")
    /\ UNCHANGED << batchOverlap, rowOk, word, results, resultsMoved, failed, calledBack >>

CountResult(r) ==
    /\ callbackAt[r] = "count"
    /\ IF rowOk[r] THEN success' = success + 1 /\ UNCHANGED failed
                   ELSE failed' = failed + 1 /\ UNCHANGED success
    /\ To(r, "check")
    /\ UNCHANGED << batchOverlap, rowOk, word, results, resultsMoved, calledBack >>

CheckCount(r) ==
    /\ callbackAt[r] = "check"
    /\ To(r, IF success + failed = (IF resultsMoved THEN 0 ELSE BatchSize) THEN "call" ELSE "done")
    /\ UNCHANGED << batchOverlap, rowOk, word, results, resultsMoved, success, failed, calledBack >>

\* std::move leaves nothing for a second call
CallBack(r) ==
    /\ callbackAt[r] = "call"
    /\ calledBack' = Append(calledBack, IF resultsMoved THEN AllFalse ELSE results)
    /\ resultsMoved' = TRUE
    /\ To(r, "done")
    /\ UNCHANGED << batchOverlap, rowOk, word, results, success, failed >>

RowStep(r) ==
    \/ AnswerRow(r) \/ WriteResult(r) \/ CountResult(r) \/ CheckCount(r) \/ CallBack(r)

BatchNext == \E r \in Rows : SendRow(r) \/ RowStep(r)

-----------------------------------------------------------------------------

\* Once every row was sent the caller is called back, also if callbacks overlap
\* and rows fail; and if they do not overlap, it is called once, with each row's
\* own result.
BatchCallsBack ==
    (\A r \in Rows : callbackAt[r] # "unsent") ~>
        [](/\ calledBack # <<>>
           /\ ~batchOverlap => calledBack = << rowOk >>)
=============================================================================

------------------------------ MODULE MCSealer ------------------------------
(***************************************************************************)
(* Sealer for TLC: two scenes in one run, both transactions without view    *)
(* changes and failed returns, or the system transaction with both.         *)
(***************************************************************************)
EXTENDS Sealer

VARIABLE scene      \* the scene of this behaviour

TwoTxs == cpc' # "reset" /\ \A r \in returning' : r.retry = 0
OneTx == sealed' \subseteq SysTxs

SceneInit == Init /\ scene \in {"two", "one"}

SceneNext ==
  /\ Next
  /\ IF scene = "two" THEN TwoTxs ELSE OneTx
  /\ UNCHANGED scene

SceneSpec == SceneInit /\ [][SceneNext]_<<vars, scene>> /\ Fairness
=============================================================================

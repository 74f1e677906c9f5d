--------------------------- MODULE MCStateStorage ---------------------------
(***************************************************************************)
(* Instances of StateStorage for TLC.                                       *)
(***************************************************************************)
EXTENDS StateStorageRefinement, TLC

CONSTANTS t1, t2, k1, k2, k3, v1, v2

SizeOf == v1 :> 1 @@ v2 :> 2 @@ NoValue :> 0
OwnerOf == k1 :> t1 @@ k2 :> t2 @@ k3 :> Shared
PrevRows == k1 :> v1 @@ k2 :> NoValue @@ k3 :> v1

OwnerOne == k1 :> t1
PrevRowOne == k1 :> v1
BatchesOne == {{k1}}

OwnerAlone == k1 :> t1 @@ k2 :> t1
PrevRowsAlone == k1 :> v1 @@ k2 :> NoValue

BatchesOf == {{k1, k3}, {k2, k3}}
BatchesAlone == {{k1, k2}}

\* Contents all of one size, in the runs that do not check capacity().
SizeZero == [v \in Values \cup {NoValue} |-> 0]
=============================================================================

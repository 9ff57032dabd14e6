------------------------------ MODULE Packing ------------------------------
(***************************************************************************)
(* The packings of an instance: what Solution::is_valid                    *)
(* (src/core/solution.cpp) accepts, every item in exactly one bin and no   *)
(* bin over its capacity.  The order of the bins is abstracted.            *)
(***************************************************************************)
EXTENDS BinPacking

(* The bins of an assignment of items to bins; a bin is named by an item.  *)
BinsOf(f) == {{i \in Items : f[i] = f[j]} : j \in Items}

Packings == {P \in {BinsOf(f) : f \in [Items -> Items]} : P \subseteq Patterns}

Bins(P) == Cardinality(P)

(* The bin counts a valid Solution can have.                               *)
PackingSizes == {Bins(P) : P \in Packings}

IsLowerBound(n) == \A P \in Packings : n =< Bins(P)

(* n bounds every packing but those of a set.                              *)
BoundsAllBut(n, some) == \A P \in Packings \ some : n =< Bins(P)

IsOptimum(n) == n \in PackingSizes /\ IsLowerBound(n)
=============================================================================

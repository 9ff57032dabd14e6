----------------------------- MODULE MCRounding -----------------------------
(* Instances for TLC of Rounding.                                          *)
EXTENDS Rounding

(* Five items in bins of 5 and columns that overlap in many ways, so that  *)
(* the scan skips, stops early and leaves items to the repair; {1, 3},     *)
(* {2, 4} and {5} are a packing.                                           *)
FiveItems == 1..5
FiveWeights == [i \in FiveItems |-> IF i =< 2 THEN 3 ELSE IF i = 5 THEN 1 ELSE 2]
FiveColumns == {{1, 3}, {2, 4}, {2, 3}, {1, 5}, {5}, {3, 4, 5}}
=============================================================================

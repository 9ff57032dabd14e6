--------------------------- MODULE MCIntegralNode ---------------------------
(* Instances for TLC of IntegralNode.                                      *)
EXTENDS IntegralNode

(* Items 1, 2 and 3 fit pairwise and not together, so that the master      *)
(* takes their pairs by halves; items 4 and 5 are small, go with any pair  *)
(* and may be covered one and a half times.  The populate pass may find    *)
(* the column that a pool lacks.                                           *)
FiveItems == 1..5
FiveWeights == [i \in FiveItems |-> IF i =< 3 THEN 4 ELSE i - 3]
FiveColumns == {{1, 2, 4, 5}, {2, 3, 4, 5}, {1, 3, 4, 5}, {1, 2, 4}, {3, 5}}
FivePools == {FiveColumns \ {c} : c \in {{1, 2, 4, 5}, {1, 3, 4, 5}, {3, 5}}}
FiveCuts == {{1, 2, 3}}
=============================================================================

---------------------------- MODULE MCBestBound ----------------------------
(* Instances for TLC of BestBound.                                         *)
EXTENDS BestBound

(* Two items of weight 3 and two of weight 2 in bins of 5: 8 packings of   *)
(* two, three or four bins, so that the incumbent can improve twice.       *)
FourItems == 1..4
FourWeights == [i \in FourItems |-> IF i =< 2 THEN 3 ELSE 2]

(* Three items that fit in one bin: 5 packings, in a tree of 9 nodes when  *)
(* no branching is on a bonded pair.                                       *)
ThreeItems == 1..3
ThreeWeights == [i \in ThreeItems |-> 1]
=============================================================================

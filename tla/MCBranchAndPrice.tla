-------------------------- MODULE MCBranchAndPrice --------------------------
(* Instances for TLC of BranchAndPrice and of the dive in it.              *)
EXTENDS BranchAndPrice

(* The three light items fit in one bin of 3, so that a dive can merge     *)
(* items twice on one path and packings have two, three or four bins.      *)
FourItems == 1..4
FourWeights == [i \in FourItems |-> IF i = 1 THEN 2 ELSE 1]
=============================================================================

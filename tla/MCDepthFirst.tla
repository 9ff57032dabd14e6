---------------------------- MODULE MCDepthFirst ----------------------------
(* Instances for TLC of DepthFirst.                                        *)
EXTENDS DepthFirst

FourItems == 1..4
FourWeights == [i \in FourItems |-> IF i =< 2 THEN 3 ELSE 2]
=============================================================================

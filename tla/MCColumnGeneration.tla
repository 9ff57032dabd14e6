------------------------- MODULE MCColumnGeneration -------------------------
(* Instances for TLC of Algorithm1.                                        *)
EXTENDS Algorithm1

FourItems == 1..4
FourWeights == <<1, 1, 2, 2>>

Different(i, j) == [pair |-> <<i, j>>, relation |-> "Different"]
Together(i, j) == [pair |-> <<i, j>>, relation |-> "Together"]

(* The last one ties three items that exceed a bin.                        *)
SomeNodes == {{}, {Together(1, 2), Different(1, 3)}, {Together(1, 3), Together(3, 4)}}

(* Nothing handed in, and a pool that does not cover the second node.      *)
SomeWarmStarts == {{}, {{1, 2}, {2, 3}, {1, 3}, {4}}}
=============================================================================

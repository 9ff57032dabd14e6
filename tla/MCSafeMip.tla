----------------------------- MODULE MCSafeMip -----------------------------
(* Instances for TLC of SafeMip.                                           *)
EXTENDS SafeMip

(* Two pairs of items and a triple fill the bin of 4.                      *)
FourItems == 1..4
FourWeights == <<1, 1, 2, 2>>

RootOnly == {{}}
NoWarmStart == {{}}

(* Columns of which the linear relaxation of the master is fractional.     *)
FractionalPool == {{{1}, {2}, {3}, {4}, {2, 4}, {1, 2, 3}}}
=============================================================================

--------------------------- MODULE MCLabelSetting ---------------------------
(* Instances for TLC of LabelSetting and PricersAgree.                     *)
EXTENDS PricersAgree

FiveItems == 1..5
FiveWeights == <<2, 2, 3, 3, 5>>

(* A bin costs 6.  Items compete by ratio and by value, some add nothing.  *)
SomeDuals ==
    {<<a, b, c, d, e>> : a \in {2, 3}, b \in {-1, 2, 3}, c \in {2}, d \in {-1, 3}, e \in {4, 5}}

(* A label that starts with item 1 waits for the charge of a cut that one  *)
(* with item 2 escapes.                                                    *)
SomeCuts ==
    {[T \in {} |-> 0], [T \in {{1, 3, 5}} |-> -3],
     [T \in {{1, 2, 3}, {2, 3, 4}} |-> IF 1 \in T THEN -1 ELSE -3]}

Together(i, j) == [pair |-> <<i, j>>, relation |-> "Together"]
Different(i, j) == [pair |-> <<i, j>>, relation |-> "Different"]
SomeNodes ==
    {{}, {Together(2, 3)}, {Different(1, 3)}, {Together(1, 2), Different(2, 4)},
     {Together(1, 2), Together(2, 3), Different(1, 3)}}

(* Two pairs, and items that leave room for all of them: one worth less    *)
(* than nothing costs a unit, as one rounded down does.                    *)
FourItems == 1..4
FourWeights == <<2, 2, 1, 1>>
RoundedDuals == {<<3, 3, c, d>> : c, d \in {-1, 0, 1}}
TiedNodes == {{Together(1, 2)}, {Different(1, 3)}}
NoCuts == {[T \in {} |-> 0]}
=============================================================================

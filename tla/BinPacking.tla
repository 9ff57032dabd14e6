----------------------------- MODULE BinPacking -----------------------------
(***************************************************************************)
(* Bin-packing instances and patterns, the data every other module of this *)
(* project speaks about (src/core/instance.cpp, src/core/pattern.cpp).  A  *)
(* pattern is the set of items of one bin; the order of its items is       *)
(* abstracted.                                                             *)
(***************************************************************************)
EXTENDS Integers, FiniteSets

CONSTANTS Items,      \* the item indices of the instance
          Weight,     \* the weight of each item
          Capacity    \* the capacity of a bin

(* What the Instance constructor accepts, and refuses by throwing.         *)
ASSUME InstanceAssumption ==
    /\ IsFiniteSet(Items)
    /\ Items \subseteq Nat
    /\ Weight \in [Items -> Nat \ {0}]
    /\ Capacity \in Nat \ {0}
    /\ \A i \in Items : Weight[i] =< Capacity

(* A function and not a fold, so that TLC tabulates it and everything that *)
(* is built on it once.                                                    *)
Load[S \in SUBSET Items] ==
    IF S = {} THEN 0
    ELSE LET i == CHOOSE i \in S : TRUE IN Weight[i] + Load[S \ {i}]

(* What the Pattern constructor accepts.                                   *)
Patterns == {S \in SUBSET Items : S # {} /\ Load[S] =< Capacity}
=============================================================================

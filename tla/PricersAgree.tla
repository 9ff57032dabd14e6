---------------------------- MODULE PricersAgree ----------------------------
(***************************************************************************)
(* The label-setting programs beside the other pricers, which they take    *)
(* turns with and are tested against (module PricingOracles): what each    *)
(* says of the arguments of one call.                                      *)
(***************************************************************************)
EXTENDS LabelSetting

Oracles == INSTANCE PricingOracles

(* The pricers agree: the oracle that the tests compare with finds the     *)
(* best value, and without cuts and branching so do the fixed-point and    *)
(* the batched knapsack.  The knapsacks report the value of the pattern    *)
(* they reconstruct.                                                       *)
OraclesAgree ==
    (pc = "done" /\ (branching = {} \/ DOMAIN pi # {})) =>
        LET best == BestValue(u, pi, branching)
            found == Oracles!Oracle(u, pi, branching)
            fixed == Oracles!FixedPrice(u)
            dense == Oracles!DenseCandidates(u)
        IN  /\ found \in AcceptedPatterns(branching) \cup {{}}
            /\ DualValue(u, pi, found) = best
            /\ DOMAIN pi = {} =>
                  /\ fixed.value = best /\ Worth(u, fixed.items) = best
                  /\ \A S \in dense : S \in Patterns /\ IsImproving(u, pi, S)
                  /\ best > BinCost => \E S \in dense : Worth(u, S) = best

(* The branch-aware depth-first search is the exact pricing oracle and the *)
(* correctness reference (include/bpp/pricing.hpp:51-58): it finds the     *)
(* best pattern the node accepts.                                          *)
BranchOracleExact ==
    (pc = "done" /\ branching # {} /\ DOMAIN pi = {}) =>
        DualValue(u, pi, Oracles!Oracle(u, pi, branching)) = BestValue(u, pi, branching)
=============================================================================

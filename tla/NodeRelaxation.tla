--------------------------- MODULE NodeRelaxation ---------------------------
(***************************************************************************)
(* What a tree driver may see of solve_two_phase_root_column_generation    *)
(* at a node (include/bpp/column_generation.hpp, and the two pair          *)
(* selection rules of src/search/branching.cpp applied to its master       *)
(* solution).  The engine is deterministic but its answer depends on LP    *)
(* vertices and heuristics, so the drivers are modelled against every      *)
(* answer its interface permits:                                           *)
(*                                                                         *)
(*  - incumbent_bins: the bins of a valid packing.  The rounding           *)
(*    heuristics repair with best-fit decreasing on the residual items and *)
(*    so may leave the node's branch.  PackingSizes includes the count of  *)
(*    the worst packing, which stands for INT_MAX (no incumbent) as well:  *)
(*    neither improves on an incumbent the driver already has.             *)
(*  - safe_bound: the ceiling of a certified lower bound over the packings *)
(*    the node admits; drivers read it through ceil_bins() only.           *)
(*  - pair: a pair of items whose co-occurrence is fractional, or NoPair,  *)
(*    when the master solution is integral (PairSelection chooses it).     *)
(*    The drivers take a node without a pair for one whose solution is     *)
(*    already an incumbent.  It need not be: an item may be covered twice, *)
(*    as module Rounding shows, or the heuristics were never given the     *)
(*    solution, as IntegralNode does.  The node is closed all the same,    *)
(*    and GivenUp is what the search then does without.                    *)
(*    A pair already bonded can be fractional too: the master is a         *)
(*    covering problem and may cover a bonded pair 1.5 times.  OverCovers  *)
(*    says whether it does.                                                *)
(*  - certified: converged and with a safe bound.  CanStall says whether a *)
(*    node may return without; every build that has an LP backend goes     *)
(*    through Algorithm 1, which certifies or throws, and then it is FALSE.*)
(*                                                                         *)
(* At a node that admits no packing the master is infeasible and the       *)
(* engine throws; it may throw at any other node as well (iteration        *)
(* budget, overflow), which the drivers model as an action of their own.   *)
(***************************************************************************)
EXTENDS Branching

CONSTANTS CanStall, OverCovers

ASSUME RelaxationAssumption ==
    CanStall \in BOOLEAN /\ OverCovers \in BOOLEAN

(* The ceiling of a positive bound; one bin per item is the most a packing *)
(* needs.                                                                  *)
SafeBounds(b) ==
    LET admitted == Admitted(b)
    IN  {n \in 1..Cardinality(Items) : \A P \in admitted : n =< Bins(P)}

(* Mutant: a pair that no column of the node holds passes for fractional.  *)
AnyPair(b) == Pairs

FractionalPairs(b) ==
    {p \in CoOccurring(b) : OverCovers \/ ~Bonded(b, p)}

Relaxations(b) ==
    IF Admitted(b) = {} THEN {}
    ELSE [incumbent_bins : PackingSizes,
          certified : {c \in BOOLEAN : c \/ CanStall},
          safe_bound : SafeBounds(b),
          pair : FractionalPairs(b) \cup {NoPair}]

(* The packings lost when the node is closed without a pair and with an    *)
(* incumbent of n bins: those it admits that have fewer.                   *)
GivenUp(b, n) == {P \in Admitted(b) : Bins(P) < n}

(* The bin counts of those of some packings that have fewer than n bins.   *)
SizesBelow(n, some) == {Bins(P) : P \in {Q \in some : Bins(Q) < n}}

(* Mutant: prunes a node whose bound is one short of the incumbent.        *)
PruneEarly(safe_bound, incumbent_bins) == safe_bound + 1 >= incumbent_bins

(* can_prune: no packing below the node can beat the incumbent.            *)
CanPrune(safe_bound, incumbent_bins) == safe_bound >= incumbent_bins

(* Mutant: the bin count of the new incumbent is one too small.            *)
ImproveOnPaper(incumbent_bins, found) ==
    IF found < incumbent_bins THEN found - 1 ELSE incumbent_bins

(* Mutant: the incumbent is replaced without a comparison.                 *)
AlwaysReplace(incumbent_bins, found) == found

Improve(incumbent_bins, found) ==
    IF found < incumbent_bins THEN found ELSE incumbent_bins
=============================================================================

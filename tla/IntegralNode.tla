---------------------------- MODULE IntegralNode ----------------------------
(***************************************************************************)
(* From the last master solution of a node to the verdict that the node is *)
(* integral.  run_algorithm1_loop solves the master and hands the solution *)
(* to the rounding heuristics; at the root populate_root_columns           *)
(* (src/master/column_generation.cpp) then solves a master of its own, and *)
(* once more if it found columns; the driver scans the values of the last  *)
(* of these (src/search/branch_and_price.cpp) and closes the node when no  *)
(* pair is fractional, "already captured as an incumbent".                 *)
(*                                                                         *)
(* The heuristics are taken through what module Rounding shows of them.    *)
(***************************************************************************)
EXTENDS PairSelection

(* What passes for zero in all the columns, for each item, is less than a  *)
(* bin: 1e-9 for each column and item.                                     *)
ASSUME IntegralNodeAssumption ==
    Tolerance * Cardinality(Columns) * Cardinality(Items) < One

VARIABLES node_pc,          \* "solved", then "rounded" or "stale"
          pool,             \* result.patterns
          cuts,             \* the active cuts
          incumbent_bins    \* the bins of the best packing found

node_vars == <<pair_rule, master_values, pair_pc, seen, selected,
               node_pc, pool, cuts, incumbent_bins>>

(* What the two heuristics may return, as Rounding!PartitionCaptured has   *)
(* it.                                                                     *)
RoundedSizes(v) ==
    IF CoversOnce(v) /\ UNION Heavy(v) = Items THEN {Cardinality(Heavy(v))} ELSE PackingSizes

(* The better of a packing known and one just rounded.                     *)
Improved(known, v) == {Min({m, n}) : m \in known, n \in RoundedSizes(v)}

(* The last iteration of the loop; any packing may be known from before.   *)
NodeInit ==
    /\ pair_rule \in PairRules
    /\ pool \in Pools
    /\ cuts \in SUBSET SeparatedCuts
    /\ master_values \in Optima(pool, cuts)
    /\ incumbent_bins \in Improved(PackingSizes, master_values)
    /\ pair_pc = "scan"
    /\ seen = {}
    /\ selected = NoPair
    /\ node_pc = "solved"
-----------------------------------------------------------------------------
(* A node of the tree, or a root that needs no populate pass.              *)
KeepSolution ==
    /\ node_pc = "solved"
    /\ node_pc' = "rounded"
    /\ UNCHANGED <<pair_rule, master_values, pair_pc, seen, selected, pool, cuts, incumbent_bins>>

(* Mutant: the solution with the new columns is not rounded.               *)
AddUnrounded(columns) ==
    /\ columns # {}
    /\ pool' = pool \cup columns
    /\ node_pc' = "rounded"
    /\ incumbent_bins' = incumbent_bins

(* Lines 97-113: the master is solved again, and rounded.                  *)
AddPopulated(columns) ==
    /\ columns # {}
    /\ pool' = pool \cup columns
    /\ node_pc' = "rounded"
    /\ incumbent_bins' \in Improved({incumbent_bins}, master_values')

(* The columns found are all known: the values read at line 56 stay, and   *)
(* no heuristic has seen them.                                             *)
NothingPopulated(columns) ==
    /\ columns = {}
    /\ node_pc' = "stale"
    /\ UNCHANGED <<pool, incumbent_bins>>

(* populate_root_columns solves with all active cuts, those of the last    *)
(* round included, which the loop has not solved with.                     *)
Populate ==
    /\ node_pc = "solved"
    /\ cuts' \in {more \in SUBSET SeparatedCuts : cuts \subseteq more}
    /\ \E columns \in SUBSET (Columns \ pool) :
          /\ master_values' \in Optima(pool \cup columns, cuts')
          /\ AddPopulated(columns) \/ NothingPopulated(columns)
    /\ UNCHANGED <<pair_rule, pair_pc, seen, selected>>

Select ==
    /\ node_pc # "solved"
    /\ PairNext
    /\ UNCHANGED <<node_pc, pool, cuts, incumbent_bins>>

NodeNext == KeepSolution \/ Populate \/ Select

NodeSpec == NodeInit /\ [][NodeNext]_node_vars
-----------------------------------------------------------------------------
(* Every variable has its type.                                            *)
NodeTypeOK ==
    /\ PairTypeOK
    /\ node_pc \in {"solved", "rounded", "stale"}
    /\ pool \subseteq Columns
    /\ cuts \subseteq SeparatedCuts
    /\ incumbent_bins \in PackingSizes

FathomedAsIntegral == pair_pc = "done" /\ selected = NoPair

(* No packing made of the columns at hand beats the incumbent.             *)
NothingBetterInPool == \A P \in Packings : P \subseteq pool => incumbent_bins =< Bins(P)

(* A node closed as integral has its solution as an incumbent              *)
(* (branch_and_price.cpp:54, 135-140), when the solution the scan read is  *)
(* one that the heuristics were given and covers every item once.          *)
CapturedIfRounded ==
    (FathomedAsIntegral /\ node_pc = "rounded" /\ CoversOnce(master_values)) =>
        NothingBetterInPool
=============================================================================

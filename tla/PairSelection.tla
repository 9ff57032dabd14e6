---------------------------- MODULE PairSelection ----------------------------
(***************************************************************************)
(* The two rules that choose the pair to branch on from a master solution  *)
(* (src/search/branching.cpp): select_fractional_pair, which the trees     *)
(* use, takes the pair whose items share a bin closest to half the time;   *)
(* select_most_confirmed_pair, which dives use, the one closest to always. *)
(* Both scan all pairs and keep the best so far.  A pair is compared with  *)
(* the one kept up to a tolerance, so that ties are not transitive.        *)
(***************************************************************************)
EXTENDS RestrictedMaster, Branching

CONSTANTS Tolerance,        \* tolerance, in the unit of the values
          Pools,            \* the pools of the masters solved
          SeparatedCuts     \* the cuts that may be active in them

(* Smaller than the columns and items by far: 1e-9 unless an option says   *)
(* otherwise, so that the columns of one item which pass for zero do not   *)
(* add up to half a bin.                                                   *)
ASSUME PairSelectionAssumption ==
    /\ Tolerance \in Nat
    /\ 2 * Tolerance * Cardinality(Columns) < One
    /\ Pools \subseteq SUBSET Columns
    /\ \A T \in SeparatedCuts : T \subseteq Items /\ Cardinality(T) = 3

PairRules == {"most_fractional", "most_confirmed"}

VARIABLES pair_rule,        \* which of the two rules
          master_values,    \* the master's value of each column
          pair_pc,          \* "scan" or "done"
          seen,             \* the pairs the two loops have passed
          selected          \* the pair kept so far

pair_vars == <<pair_rule, master_values, pair_pc, seen, selected>>

PairInit ==
    /\ pair_rule \in PairRules
    /\ \E pool \in Pools, cuts \in SUBSET SeparatedCuts : master_values \in Optima(pool, cuts)
    /\ pair_pc = "scan"
    /\ seen = {}
    /\ selected = NoPair
-----------------------------------------------------------------------------
(* together: nothing for NoPair, as in a default constructed result.       *)
Together(p) == Total(master_values, {c \in Columns : Both(p, c)})

(* The distance to the next integer, below or above.                       *)
Fractionality(p) ==
    LET above == Together(p) % One
    IN  IF 2 * above =< One THEN above ELSE One - above

IsFractional(p) == Fractionality(p) > Tolerance

PairWeight(p) == Weight[p[1]] + Weight[p[2]]

(* Mutant: any other pair is a tie.                                        *)
AlwaysTied(p) == selected # NoPair

Tied(p) ==
    /\ selected # NoPair
    /\ Fractionality(p) - Fractionality(selected) \in (-Tolerance)..Tolerance

MoreFractional(p) ==
    /\ IsFractional(p)
    /\ \/ Fractionality(p) > Fractionality(selected) + Tolerance
       \/ Tied(p) /\ PairWeight(p) > PairWeight(selected)

(* Mutant: a pair that the master covers more than once is confirmed.      *)
ConfirmedTwice(p) == IsFractional(p) /\ Together(p) > Together(selected) + Tolerance

(* Mutant: only a pair that is together most of the time is confirmed.     *)
LeaningTogether(p) ==
    /\ IsFractional(p)
    /\ 2 * Together(p) > One
    /\ Together(p) < One - Tolerance
    /\ Together(p) > Together(selected) + Tolerance

MoreConfirmed(p) ==
    /\ IsFractional(p)
    /\ Together(p) < One - Tolerance
    /\ Together(p) > Together(selected) + Tolerance

Better(p) ==
    \/ pair_rule = "most_fractional" /\ MoreFractional(p)
    \/ pair_rule = "most_confirmed" /\ MoreConfirmed(p)

(* The order of the two loops.                                             *)
IsNext(p) ==
    /\ p \in Pairs \ seen
    /\ \A q \in Pairs \ seen : p[1] < q[1] \/ (p[1] = q[1] /\ p[2] =< q[2])

(* Mutant: the smaller item is not the first of the pair.                  *)
Swapped(p) ==
    /\ IsNext(p)
    /\ seen' = seen \cup {p}
    /\ selected' = IF Better(p) THEN <<p[2], p[1]>> ELSE selected

Examine(p) ==
    /\ IsNext(p)
    /\ seen' = seen \cup {p}
    /\ selected' = IF Better(p) THEN p ELSE selected

ScanPairs ==
    /\ pair_pc = "scan"
    /\ \E p \in Pairs : Examine(p)
    /\ UNCHANGED <<pair_rule, master_values, pair_pc>>

ReturnPair ==
    /\ pair_pc = "scan"
    /\ seen = Pairs
    /\ pair_pc' = "done"
    /\ UNCHANGED <<pair_rule, master_values, seen, selected>>

PairNext == ScanPairs \/ ReturnPair

PairSpec == PairInit /\ [][PairNext]_pair_vars
-----------------------------------------------------------------------------
(* Every variable has its type.                                            *)
PairTypeOK ==
    /\ pair_rule \in PairRules
    /\ master_values \in MasterSolutions
    /\ pair_pc \in {"scan", "done"}
    /\ seen \subseteq Pairs
    /\ selected \in Pairs \cup {NoPair}

(* What the values of the columns of one item that pass for zero add up to.*)
Spare == Tolerance * Cardinality(Columns)

(* "integral" (branch_and_price.cpp:54, 137): when the scan finds no pair, *)
(* every column is taken whole or not at all, up to the tolerance.  The    *)
(* scan looks at pairs only and at pairs below one only (in dives), the    *)
(* rows let items be covered twice, and cuts are active.                   *)
NoPairMeansIntegral ==
    (pair_pc = "done" /\ selected = NoPair) =>
        \A c \in Columns : master_values[c] =< Tolerance \/ master_values[c] >= One - Spare

(* The master solution is fractional on both sides of the branch: neither  *)
(* child may keep it, so that no child repeats its parent.  A dive has     *)
(* this always, a tree when every item is covered once: otherwise the pair *)
(* may lie in the same columns, one and a half times.                      *)
BothSidesProgress ==
    ( /\ pair_pc = "done" /\ selected # NoPair
      /\ pair_rule = "most_confirmed" \/ CoversOnce(master_values) ) =>
        \A relation \in Relations :
            \E c \in Used(master_values) :
                ~ConstraintAccepts([pair |-> selected, relation |-> relation], c)

(* What the rules promise.  The tree's pair may lie below the pair closest *)
(* to a half by a tolerance for each tie on the way, and is the heaviest   *)
(* when there is no tolerance (branching.cpp:65-66); the dive's pair never *)
(* lies below by more than one tolerance.                                  *)
PicksBest ==
    pair_pc = "done" =>
        \A p \in Pairs :
            IF pair_rule = "most_fractional"
            THEN /\ IsFractional(p) =>
                       /\ selected # NoPair
                       /\ Fractionality(p) =<
                              Fractionality(selected) + Tolerance * Cardinality(Pairs)
                 /\ (Tolerance = 0 /\ IsFractional(p) /\ Fractionality(p) = Fractionality(selected))
                       => PairWeight(p) =< PairWeight(selected)
            ELSE (IsFractional(p) /\ Together(p) < One - Tolerance) =>
                    /\ selected # NoPair
                    /\ Together(p) =< Together(selected) + Tolerance
=============================================================================

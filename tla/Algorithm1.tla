----------------------------- MODULE Algorithm1 -----------------------------
(***************************************************************************)
(* Column generation by Algorithm 1 (solve_root_column_generation_         *)
(* algorithm1 and run_algorithm1_loop, src/master/column_generation.cpp):  *)
(* solve the restricted master, round its duals down to integers, price    *)
(* under these, and stop with a certified bound when no column improves or *)
(* when a better bound cannot matter; then separate subset-row cuts and    *)
(* start over.                                                             *)
(*                                                                         *)
(* The LP solver is external.  LP values are multiples of one Unit-th, and *)
(* the master answers with any dual vector, and any primal one, that is    *)
(* optimal among those.  Pricing is taken through what module LabelSetting *)
(* shows of it, and the rounding heuristics through what Rounding shows:   *)
(* they return some packing, inside the node's branch or not.              *)
(***************************************************************************)
EXTENDS Pricing

CONSTANTS Unit,                       \* the grid of the LP values
          Nodes,                      \* branching states of the nodes solved
          WarmStarts,                 \* pools handed in; {} if there is none
          max_columns_per_iteration,
          max_iterations,
          max_sr3_cuts_per_round,
          max_sr3_cuts_total,
          max_sr3_separation_rounds,
          epsilon_scaled              \* how close to 0 phase I is trusted

(* The units of the safe scale in one Unit-th.                             *)
Finer == BinCost \div Unit

(* safe_scale is so large that rounding every dual down by less than one   *)
(* unit does not carry a bound across an integer.                          *)
ASSUME Algorithm1Assumption ==
    /\ Unit \in Nat \ {0}
    /\ BinCost = Unit * Finer
    /\ Cardinality(Items) + max_sr3_cuts_total < Finer
    /\ Nodes \subseteq BranchingStates
    /\ WarmStarts \subseteq SUBSET Patterns
    /\ max_columns_per_iteration \in Nat \ {0}
    /\ max_iterations \in Nat \ {0}
    /\ max_sr3_cuts_per_round \in Nat \ {0}
    /\ max_sr3_cuts_total \in Nat
    /\ max_sr3_separation_rounds \in Nat \ {0}
    /\ epsilon_scaled \in Nat

VARIABLES branching,        \* options.branching
          pool,             \* the patterns of the restricted master
          cuts,             \* the active cuts, as triples of items
          incumbent_bins,   \* the bins of the best packing found
          phase2,           \* the rational solver has taken over
          iteration,        \* of the current call of run_algorithm1_loop
          round,            \* separation rounds done
          priced_cuts,      \* the cuts the last bound was certified with
          safe_bound,       \* the ceiling of that bound
          pc                \* "solve", "separate", "done" or "thrown"

vars == <<branching, pool, cuts, incumbent_bins, phase2, iteration, round,
          priced_cuts, safe_bound, pc>>

Triples == {T \in SUBSET Items : Cardinality(T) = 3}

(* INT_MAX: no incumbent yet.                                              *)
NoIncumbent == Cardinality(Items) + 1

CeilDiv(a, b) == -((-a) \div b)
-----------------------------------------------------------------------------
(* branch_seed_patterns, and with_singletons at the root                   *)
SeedPatterns(b) == {e \in Elements(b) : Accepts(b, e)}

InitialPool(b, warm) ==
    IF warm # {} THEN {S \in warm : Accepts(b, S)} ELSE SeedPatterns(b)

(* A seed that exceeds a bin, or an empty pool, throws.                    *)
PoolThrows(b, warm) ==
    \/ InitialPool(b, warm) = {}
    \/ warm = {} /\ ~(Elements(b) \subseteq Patterns)

(* The greedy packing is the first incumbent if the node accepts it.       *)
Init ==
    /\ branching \in Nodes
    /\ \E warm \in WarmStarts :
          IF PoolThrows(branching, warm)
          THEN pool = {} /\ pc = "thrown"
          ELSE pool = InitialPool(branching, warm) /\ pc = "solve"
    /\ \E P \in Packings :
          incumbent_bins = IF Admits(branching, P) THEN Bins(P) ELSE NoIncumbent
    /\ cuts = {}
    /\ phase2 = FALSE
    /\ iteration = 0
    /\ round = 0
    /\ priced_cuts = {}
    /\ safe_bound = 0
-----------------------------------------------------------------------------
(* The restricted master: cover every item, at most one unit of a cut, one *)
(* unit of cost for each column.  Sums of duals and of values are counted  *)
(* in their units.                                                         *)
Units(x, S) == Cardinality({e \in S \X (1..Unit) : e[2] =< x[e[1]]})

Negative(p) == [T \in DOMAIN p |-> -p[T]]

MasterValue(y, p, S) ==
    Units(y, S) - Units(Negative(p), {T \in DOMAIN p : Coefficient(T, S) = 1})

DualFeasible(y, p, columns) == \A S \in columns : MasterValue(y, p, S) =< Unit

Objective(y, p) == Units(y, DOMAIN y) - Units(Negative(p), DOMAIN p)

DualPairs(active) == [Items -> 0..Unit] \X [active -> (-Unit)..0]

MasterDuals(columns, active) ==
    LET value(d) == Objective(d[1], d[2])
        feasible == {d \in DualPairs(active) : DualFeasible(d[1], d[2], columns)}
    IN  UNION {{d \in best.among : value(d) = best.value} : best \in
               {[among |-> D, value |-> Max({value(d) : d \in D})] : D \in {feasible}}}

Activity(x, T) == Units(x, {S \in DOMAIN x : Coefficient(T, S) = 1})

(* The positive values of a solution, on columns tight under every optimal *)
(* dual vector.                                                            *)
MasterPrimals(columns, active) ==
    LET duals == MasterDuals(columns, active)
        value == Max({Objective(d[1], d[2]) : d \in duals})
        tight == columns \ {S \in columns : \E d \in duals : MasterValue(d[1], d[2], S) < Unit}
        supports == {B \in SUBSET tight : UNION B = Items /\ Cardinality(B) =< value}
    IN  {x \in UNION {[B -> 1..Unit] : B \in supports} :
            /\ Units(x, DOMAIN x) = value
            /\ \A i \in Items : Units(x, {S \in DOMAIN x : i \in S}) >= Unit
            /\ \A T \in active : Activity(x, T) =< Unit}

(* safe_integer_duals: nextafter takes an exact multiple one unit down.    *)
SafeIntegerDuals(y) == [k \in DOMAIN y |-> y[k] * Finer - 1]

(* Mutant: the duals of the cuts are left out of the bound.                *)
ItemsOnly(u, pi) == SumFunction(u)

(* z_dim times the scale, SafeBound::from_scaled_duals                     *)
ScaledSum(u, pi) == SumFunction(u) + SumFunction(pi)

ZDim(u, pi) == CeilDiv(ScaledSum(u, pi), BinCost)

(* SafeBound::fathoming_bound: scale - rc_int is the best value priced.    *)
FathomingBound(u, pi, top) == CeilDiv(ScaledSum(u, pi), top)

ImprovingPatterns(u, pi) == {S \in AcceptedPatterns(branching) : IsImproving(u, pi, S)}

(* What the label-setting programs return: improving patterns, a best one  *)
(* among them.                                                             *)
PricedSets(u, pi, top) ==
    {K \in SUBSET ImprovingPatterns(u, pi) :
        /\ Cardinality(K) =< max_columns_per_iteration
        /\ \E S \in K : DualValue(u, pi, S) = top}

(* The rounding and the diving heuristic: a solution that is a packing is  *)
(* kept; of another one they make some packing.                            *)
IsPacking(x) == DOMAIN x \in Packings /\ \A S \in DOMAIN x : x[S] = Unit

Better(sizes) == {incumbent_bins} \cup {n \in sizes : n < incumbent_bins}

RoundedIncumbents(columns) ==
    LET primals == MasterPrimals(columns, cuts)
    IN  IF primals = {} \/ \E x \in primals : ~IsPacking(x) THEN Better(PackingSizes)
        ELSE {Min({incumbent_bins, Cardinality(DOMAIN x)}) : x \in primals}
-----------------------------------------------------------------------------
Certify(bound) ==
    /\ safe_bound' = bound
    /\ priced_cuts' = cuts
    /\ pc' = "separate"
    /\ UNCHANGED <<pool, phase2, iteration>>

(* Mutant: the columns reach the master but not the pool.                  *)
ColumnsLost(K, top) ==
    /\ iteration' = iteration + 1
    /\ UNCHANGED <<pool, phase2, safe_bound, priced_cuts, pc>>

(* Columns already known are not added twice.                              *)
AddColumns(K, top) ==
    /\ pool' = pool \cup K
    /\ IF ~phase2 /\ top - BinCost =< epsilon_scaled
       THEN phase2' = TRUE /\ iteration' = 0
       ELSE iteration' = iteration + 1 /\ UNCHANGED phase2
    /\ UNCHANGED <<safe_bound, priced_cuts, pc>>

(* Mutant: the ceilings are not compared with what they have to reach.     *)
FathomsEarly(lbf, zdim, incumbent) == lbf + 1 >= incumbent \/ lbf = zdim

(* Fathoming rules 1 and 2.                                                *)
Fathoms(lbf, zdim, incumbent) == lbf >= incumbent \/ lbf = zdim

NoneAdded(K) == K \subseteq pool

Decide(u, pi, incumbent) ==
    LET top == BestValue(u, pi, branching)
        zdim == ZDim(u, pi)
        lbf == FathomingBound(u, pi, top)
    IN  IF top =< BinCost THEN Certify(zdim)
        ELSE IF Fathoms(lbf, zdim, incumbent) THEN Certify(lbf)
        ELSE \E K \in PricedSets(u, pi, top) :
                IF NoneAdded(K) THEN Certify(zdim) ELSE AddColumns(K, top)

Spans == UNION pool = Items

(* The rows of the cuts leave no room to cover the items: the dual of an   *)
(* infeasible master has a ray, along which no column earns anything.      *)
CutOff ==
    \E d \in DualPairs(cuts) :
        /\ Objective(d[1], d[2]) > 0
        /\ \A S \in pool : MasterValue(d[1], d[2], S) =< 0

MasterFeasible == Spans /\ ~CutOff

(* One iteration of run_algorithm1_loop.                                   *)
Iterate ==
    /\ pc = "solve"
    /\ iteration < max_iterations
    /\ MasterFeasible
    /\ \E d \in MasterDuals(pool, cuts), n \in RoundedIncumbents(pool) :
          /\ incumbent_bins' = n
          /\ Decide(SafeIntegerDuals(d[1]), SafeIntegerDuals(d[2]), n)
    /\ UNCHANGED <<branching, cuts, round>>

(* The budget of the loop is spent, or the master is infeasible.           *)
Throw ==
    /\ pc = "solve"
    /\ iteration = max_iterations \/ ~MasterFeasible
    /\ pc' = "thrown"
    /\ UNCHANGED <<branching, pool, cuts, incumbent_bins, phase2, iteration, round,
                   priced_cuts, safe_bound>>
-----------------------------------------------------------------------------
(* separate_sr3: the activity of a cut from those of its pairs and of the  *)
(* whole triple, summed once for each column.                              *)
PairsOf(T) == {R \in SUBSET T : Cardinality(R) = 2}

Sharing(x, R) == Units(x, {S \in DOMAIN x : R \subseteq S})

SeparatedActivity(x, T) ==
    SumFunction([R \in PairsOf(T) |-> Sharing(x, R)]) - 2 * Sharing(x, T)

(* Mutant: a cut that holds with equality is taken for violated.           *)
TightCuts(x, n) ==
    LET violated == {T \in Triples : SeparatedActivity(x, T) >= Unit}
    IN  kSubset(Min({n, Cardinality(violated)}), violated)

(* The most violated triples, ties broken either way.                      *)
SeparatedCuts(x, n) ==
    LET violated == {T \in Triples : SeparatedActivity(x, T) > Unit}
    IN  {K \in SUBSET violated :
            /\ Cardinality(K) = Min({n, Cardinality(violated)})
            /\ \A T \in K, R \in violated \ K : SeparatedActivity(x, T) >= SeparatedActivity(x, R)}

CutsAllowed == Min({max_sr3_cuts_per_round, max_sr3_cuts_total - Cardinality(cuts)})

(* A round of cuts; the last one is recorded but not solved again.         *)
Separate ==
    /\ pc = "separate"
    /\ Cardinality(cuts) < max_sr3_cuts_total
    /\ \E x \in MasterPrimals(pool, cuts) :
          \E K \in SeparatedCuts(x, CutsAllowed) : K # {} /\ cuts' = cuts \cup K
    /\ round' = round + 1
    /\ pc' = IF round + 1 >= max_sr3_separation_rounds THEN "done" ELSE "solve"
    /\ iteration' = 0
    /\ UNCHANGED <<branching, pool, incumbent_bins, phase2, priced_cuts, safe_bound>>

(* No cut is allowed, wanted (the gap gate) or violated.                   *)
Finish ==
    /\ pc = "separate"
    /\ pc' = "done"
    /\ UNCHANGED <<branching, pool, cuts, incumbent_bins, phase2, iteration, round,
                   priced_cuts, safe_bound>>

Generate == Iterate \/ Throw \/ Separate \/ Finish

Spec == Init /\ [][Generate]_vars
-----------------------------------------------------------------------------
(* The pool and the cuts never exceed what the code may hold, and every    *)
(* column is a pattern of the node's branch.                               *)
TypeOK ==
    /\ pool \subseteq AcceptedPatterns(branching)
    /\ cuts \subseteq Triples /\ Cardinality(cuts) =< max_sr3_cuts_total
    /\ priced_cuts \subseteq cuts
    /\ incumbent_bins \in PackingSizes \cup {NoIncumbent}
    /\ iteration \in 0..max_iterations
    /\ round \in 0..max_sr3_separation_rounds
    /\ safe_bound \in 0..Cardinality(Items)
    /\ pc \in {"solve", "separate", "done", "thrown"}

Certified == pc \in {"separate", "done"}

(* A certified bound is one: no packing the node admits has fewer bins,    *)
(* whichever of the four exits of the loop set it, although the duals are  *)
(* rounded, the cuts change from round to round and, of the columns that   *)
(* improve, only some are looked at.  NodeRelaxation takes it for granted. *)
CertifiedBoundValid ==
    Certified => /\ safe_bound >= 1
                 /\ \A P \in Admitted(branching) : safe_bound =< Bins(P)

(* Stopping early loses nothing ("no further resolve can change the        *)
(* answer", column_generation.cpp:808-812): a bound below the incumbent is *)
(* the ceiling of the bound over all the columns of the node.              *)
EarlyStopHarmless ==
    (pc = "separate" /\ safe_bound < incumbent_bins) =>
        \A d \in MasterDuals(AcceptedPatterns(branching), priced_cuts) :
            safe_bound = CeilDiv(Objective(d[1], d[2]), Unit)

(* The iteration budget is never what stops Algorithm 1, if it is not less *)
(* than the number of patterns: an iteration that neither certifies nor    *)
(* throws adds a column that was not in the pool.                          *)
BudgetSuffices ==
    (pc = "thrown" /\ Cardinality(Patterns) =< max_iterations) => ~MasterFeasible \/ iteration = 0

(* separate_sr3 does not know the active cuts.  It never proposes one of   *)
(* them again, which would spend the budget of cuts on nothing.            *)
FreshCuts == [][round' # round => cuts' # cuts]_vars
=============================================================================

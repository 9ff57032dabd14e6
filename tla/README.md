# TLA+ models of an exact branch-and-price solver for bin packing

The program packs items of integer weight into as few bins of equal capacity as
possible and proves the result optimal. Lower bounds come from column generation
whose dual values are rounded to integers, so that every bound is exact although
the LP solver computes in floating point. This directory models the pricing programs
that look for columns, the column generation that turns their answers into bounds, the
enumeration that closes a gap at the root, the tree search that turns bounds into a
certificate, the heuristics that feed it, and the contract its callers rely on. The tree
search sees column generation through the answers it may give.

Paths are relative to the repository. `bp.cpp` stands for
`src/search/branch_and_price.cpp`, `cg.cpp` for `src/master/column_generation.cpp`,
`pricer.cpp` for `src/pricing/floating_root_pricer.cpp`.

## 1. The system

| Component | State | Operations | Talks to | Hard part | Status |
|---|---|---|---|---|---|
| Instance, patterns, solutions (`src/core`) | weights, capacity; `PatternPool` with indices | construct, `add` (deduplicates), `is_valid` | everything | a duplicate returns its old index | `BinPacking`, `Packing`; the pool in `Algorithm1` |
| Ryan-Foster branching (`src/search/branching.cpp`) | the constraints of a node | `accepts`, `child`, two pair rules | drivers, pricers | rules read LP values, an implied pair may look fractional | `Branching`, `PairSelection`, `NodeRelaxation` |
| Node queue (`src/search/node_queue.cpp`) | heap of `SearchNode` | `push`, `pop`, `peek`, `can_prune` | best-bound driver | order by a bound that is the parent's | `BestBound` |
| Best-bound driver (`bp.cpp:77-160`) | queue, incumbent, counters | root, loop, two exits | engine, queue | an empty queue is the only proof of optimality | `BestBound` |
| Depth-first driver (`bp.cpp:177-257`) | call stack, `complete_`, incumbent, pool | recursive `visit` | engine, pattern pool | returns on five paths, two limit tests | `DepthFirst` (without the pool) |
| Diving driver (`bp.cpp:28-68`) | call stack, `down_budget_`, deadline, own result | recursive `dive` | engine | budget lent and given back around a recursion that a clock cuts | `Diving` |
| `solve_branch_and_price` (`bp.cpp:261-301`) | result | search, dive, adopt | CLI, drivers | a heuristic changes an already certified result | `SearchContract`, `BranchAndPrice` |
| Rounding heuristics (`src/solver/heuristics.cpp`) | partial packing | rounding, diving rule, best-fit decreasing | engine | equal values in any order, items covered twice | `Rounding` |
| Column generation, Algorithm 1 (`cg.cpp:662-957`) | pool, master, duals, cuts, bounds | price, add, fathom, switch precision, separate | pricers, master, heuristics | four ways to stop, each with a bound of its own | `Algorithm1` |
| Populate and certification by enumeration (`cg.cpp:37-405`) | restricted tree over a fixed pool, masks, a row on the count | populate, branch, round | Algorithm 1 | what is missing from the pool, masks around a recursion, a solution overwritten after it was rounded | `SafeMip`, `IntegralNode` |
| Pricing (`pricer.cpp`) | labels, tables, search stacks | nine pricers | engine | bounds, dominance, conflicts and cuts inside one another | `Pricing`, `PricingOracles`, `LabelSetting` |
| SR3 cuts (`src/cuts/sr3.cpp`) | triples | coefficient, separate | engine, pricing | does not know the active cuts | `Pricing`, `Algorithm1` |
| Safe bounds (`src/master/safe_bound.cpp`) | scaled duals | round, fathom, ceiling | engine | rounding direction, division by a difference | `Algorithm1` |
| Restricted master and LP backends (`src/master/*_rmp.cpp`) | LP | rows, columns, cuts, bounds, solve | CPLEX, Gurobi, SoPlex | external solvers; rows are covering, infeasible throws | as the LP they are given, `RestrictedMaster`, `Algorithm1`, `SafeMip` |
| Two-phase and floating column generation (`cg.cpp:440-660`, `959-1360`) | as Algorithm 1 | smooth duals, re-solve rationally | builds without SoPlex | | not modelled |
| Preprocessing (`src/core/preprocessing.cpp`) | reduced instance, singletons | reduce, reconstruct | CLI | counts must add up | planned |
| CLI, readers, writers, greedy solver | none that lasts | parse, print | everything | | not modelled: I/O and layout; the status words are planned |

The program is sequential. What is hard is not interleaving but long sequences of
legal steps: a node lost early turns into a false certificate much later, a bound
computed before an incumbent is reported after it, a budget lent before a recursive
call must come back on each of its returns, a deadline passes at any depth, one node
fails while its siblings go on. `PROJECT.json` lists these hazards at their lines with
the properties that watch them; those without a property say why.

## 2. Modules

    BinPacking            instances and patterns
      Packing             packings, optimum
        SearchContract    what solve_branch_and_price promises (abstract)
        Branching         Ryan-Foster constraints and nodes
          NodeRelaxation  what the engine may answer at a node
            BestBound     the best-bound driver and its queue
            DepthFirst    the depth-first driver
            Diving        the diving driver
              BranchAndPrice   search through SearchContract, then the dive
          Pricing         the pricing problem and what its programs share
            PricingOracles     the knapsacks and the depth-first oracles
            LabelSetting       the label-setting programs
              PricersAgree     the one beside the other
            Algorithm1    column generation with certified bounds
              SafeMip     the certification by enumeration at the root
      RestrictedMaster    the linear program over a pool, and its cheapest solutions
        Rounding          the heuristics behind an incumbent
        PairSelection     the two rules that choose a pair (with Branching)
          IntegralNode    from the last master solution to the verdict
    MC*                   instances for TLC

The theorems are in modules of their own, which extend what they are about:

    BranchingProofs           sums, loads, packings, Ryan-Foster branching
      BestBoundProofs, DepthFirstProofs
      DivingProofs            Diving and BranchAndPrice
      RoundingProofs        Rounding, PairSelection and IntegralNode
      PricingProofs           elements, the order by ratio, bounds, dual values
        LabelSettingProofs
        ColumnGenerationProofs     Algorithm1 and SafeMip

**Data.** A pattern is the set of items of a bin, a packing the set of its bins, a
branching state the set of its constraints. Orders that no property reads are dropped.
`Packings` is defined from assignments of items to bins, so that TLC builds it without
enumerating all sets of sets and TLAPS can read off that it partitions the items.

**`NodeRelaxation`** is the boundary with column generation. The engine is
deterministic, but its answer at a node depends on LP vertices, so the drivers run
against every answer the interface permits: an incumbent that is the count of some
packing (the rounding repairs with best-fit and may leave the branch), a bound that
holds for every packing the node admits, and a fractional pair or none. A node that
admits no packing has no answer: the master is infeasible and the engine throws
(`cplex_rmp.cpp:125-129`). Two constants name what the code leaves open:

* `CanStall`: a node may come back uncertified. Today's builds with an LP backend
  either certify or throw, so `TRUE` is the wider interface of
  `ColumnGenerationResult`, which both drivers test for.
* `OverCovers`: the master's rows are `>=` (`cplex_rmp.cpp:40-52`), so a pair that the
  node already forces together can be covered one and a half times and be chosen again.

A node without a pair is closed without comparing its bound with the incumbent (`bp.cpp:105`,
`135`, `222`): the drivers count on the heuristics to have turned its solution into one. The
code does not ensure it (see "Observations" below), so nothing is assumed of such a node.
Instead the drivers carry a history variable, `missed`: the packings that nodes closed in this
way admit and that beat the incumbent of that moment (`GivenUp`). Every certificate is stated
of all packings but those: it says that the tree loses nothing else. `missed` guards no action,
so it changes no behaviour of the code's variables. `ConvergedNodesCaptured` proves that
`GivenUp` is empty at a converged node whose last solution was rounded and covers every item
once; where that is so of every node closed, `missed` stays empty and the certificates are
about all packings.

**`Pricing`** holds what the pricers share: the dual value of a pattern under item duals
and cut duals, the elements that Together constraints merge items into, the conflicts of
Different constraints, the order by ratio and the fractional bound. Duals are integers, as
they are in the scaled-integer entry points; floating ones are the same up to their scale.

**`LabelSetting`** runs one call of the three label-setting programs. `labels` is the
frontier of `price_label_setting` or the map of the other two, `pending` the snapshot of
the round, whose labels are extended one at a time in any order. `StartRound` lets the
sweep of `prune_dominated_sr3_labels` remove any labels that a kept one dominates: which
ones the code removes depends on a threshold of 500 labels, a window of 8 and an unstable
sort. **`PricingOracles`** has the other six pricers as functions of their arguments; its
depth-first searches are RECURSIVE operators, so nothing is proved in a module that
uses it. They explore a node whose fractional bound exceeds the best value by any amount
(`Promising`): the values are integers, the bound is not, and with negative values ahead it
need not be a bound. **`PricersAgree`** puts it beside `LabelSetting`, which does not need it.

**`Algorithm1`** is `run_algorithm1_loop` under its driver. `Iterate` is one iteration:
solve the master, round its solution, round the duals down, price, and take one of the
four exits or add columns; `Throw` is the spent budget or an infeasible master, whose columns
do not cover the items (`Spans`) or do not within the rows of the cuts (`CutOff`), `Separate`
a round of cuts, `Finish` the end of the driver. The LP solver is external: it answers
with any optimal dual and primal vector whose values are multiples of 1/`Unit`, and
`BinCost` is the safe scale. The duals the model rounds are those multiples, so rounding
takes one unit of the safe scale from each (`safe_integer_duals` goes through
`nextafter`), and the assumption that the scale exceeds the number of rows times `Unit`
is the one the default scale of 10^13 meets. Pricing returns any set of improving patterns
with a best one among them, which is what `PricingAnswersAlgorithm1` proves of
`LabelSetting`. The
gap gate of separation is a choice. What `Certified` states is
what `NodeRelaxation` takes for granted of a node's bound.

**`SafeMip`** extends `Algorithm1` with `populate_root_columns` and
`try_safe_mip_certification`. The populate pass is exact without cuts (a recursive function
over the rounds of `price_label_setting`) and, with cuts, any result the key of
`price_label_setting_with_sr3` allows. The recursion of the restricted tree is a stack of
frames, each with the columns it fixed at zero. Its LPs are not solved: a node is
infeasible if no cover of the columns left exists, otherwise it yields such a cover or any
fractional pair, a superset of what the solver does.

**`BestBound`**: `queue`, the counters and the result are the driver's variables of
the same name. `SolveRoot` and `SolveNode` are one iteration each, with a disjunct per
outcome: stall, prune, integral, branch. The root's code differs from the loop's (it
counts pruning differently and answers at once) and is modelled on its own.
`FinishExhausted` and `FinishBudget` are the two exits of the loop.

**`DepthFirst`** and **`Diving`** model a recursion as a stack of frames. A frame is
named after the point of the function it stands at; entering the second child is an
action because the node limit, or the budget, is tested there again. In `Diving` the
clock is an action, `Expire`, that may happen at any moment or never.

**`BranchAndPrice`** composes the search, as `SearchContract`, with the step-by-step
dive and the adoption of its incumbent.

**`RestrictedMaster`** is the linear program the LP backends are given: covering rows, rows
of the cuts, the columns of a pool. Values are multiples of one `One`-th; every vertex of
a master lies on such a grid, and the theorems hold on every grid. `Optima` is what an
exact solver may answer.

**`Rounding`** runs both rounding rules and the best-fit repair on every master
solution over a small pool, values counted in thirds. Columns of equal value are
scanned in any order, as `std::sort` leaves it open.

**`PairSelection`** is `select_fractional_pair` and `select_most_confirmed_pair`, one step
for each pair in the order of the loops, with the tolerance of the comparisons.
**`IntegralNode`** joins the end of a node: the last solution of the loop is rounded, at the
root the populate pass solves again, with cuts the loop has not solved with, adds columns
and rounds or adds none and does not, and the pair rule scans the values left behind. Its
heuristics return what `PartitionCaptured` says of `Rounding`, and otherwise any packing.

## 3. Runs

| Run | Instance and bounds | States | What it shows |
|---|---|---|---|
| `best_bound` | weights 3,3,2,2, capacity 5; `max_nodes` 5; stalls and over-covering | 48262 | no improving packing is lost but those given up, queued bounds hold, an answer is right of all others unless the counters betray a stalled node, and only a bonded pair leads to an infeasible node |
| `best_bound_tree` | weights 1,1,1, capacity 3; `max_nodes` 9; over-covering, no stalls | 31975 | nodes solved and queued are bounded by the packings and the infeasible nodes queued, the driver implements `SearchContract` |
| `best_bound_partial` (violated) | weights 3,3,2,2, capacity 5; `max_nodes` 9; no stalls, no over-covering | | the lower bound of a cut search may exceed the optimum |
| `depth_first` | same weights; `max_nodes` 5; stalls and over-covering | 8526 | optimal means optimal up to what was given up, no subtree is lost, the recursion ends, the contract is kept |
| `branch_and_price` | weights 2,1,1,1, capacity 3; dive budget 1 | 35644 | the dive's budget is conserved, it stays shallow and feasible, ends without its deadline, and cannot spoil the certificate it is merged into |
| `rounding` | 5 items, 6 overlapping columns, all values in thirds | 50187 | the result is a packing, leftovers are packed without two bins that fit into one, a solution that covers every item once is returned |
| `integral_node` | weights 4,4,4,1,2, capacity 11; 5 columns, 3 pools, a cut, values in quarters | 7462 | without a pair the solution is integral and, rounded and covering once, captured; with one it is the best, and both children exclude the solution |
| `label_setting` | weights 2,2,3,3,5, capacity 8; 24 dual vectors, up to 2 cuts, 5 nodes | 26950 | the programs find the best pattern whatever they drop, labels carry what their items are worth, candidates obey the node, the exact oracles agree |
| `label_setting_oracle` (violated) | weights 2,2,1,1, capacity 6; 9 dual vectors, 2 nodes | | the branch-aware depth-first oracle misses an improving pattern |
| `column_generation` | weights 1,1,2,2, capacity 4; root, a branched node and one that throws at once, two ways to start; 2 rounds of cuts; 12 iterations | 3389 | every certified bound is one, early stops cost nothing, the budget never matters, no cut twice |
| `safe_mip` | same weights; root, a pool whose LP is fractional; 1 cut, 2 rounds, 3 tree nodes | 6488 | masks are restored, an exhausted search is exhaustive over its columns, the search ends |
| `safe_mip_certificate` (violated) | same | | an incumbent is certified although a packing has fewer bins |

**Bounds.** Four items give 8 packings (two of weight 3, two of weight 2) with two,
three or four bins: the incumbent can improve twice, and three levels of branching
exist. The weights 2,1,1,1 let one bin hold three items, so that a dive merges twice on
one path. `max_nodes` 5 cuts the search in the middle of the tree with nodes
waiting at two depths. It is odd, as the size of every tree without stalls is, so in some
behaviours the budget is spent on the node that empties the queue. In `best_bound_tree` 9 =
2 * 5 - 1 is the size `TreeBound` allows for five packings if no bonded pair is branched on;
a bonded pair lengthens the tree, and then the budget cuts it. `max_nodes` 9 is enough to reach the counterexample. One unit
of dive budget is lent and returned; nested loans only need more units. In `rounding` a
third is the coarsest grid with a value below and one above a half. In `integral_node`
three of the columns make a triangle, which a master takes by halves and so covers the two
small items one and a half times; quarters are the coarsest grid on which pairs differ in
fractionality. Its tolerance is zero: `PairSelectionAssumption` and `IntegralNodeAssumption`
ask for less than 1/(2 * columns) and 1/(columns * items), which 1e-9 meets for any pool of
practical size, and the theorems take any such tolerance.

The duals of `label_setting` make items compete by ratio and by value and leave some
worthless; the two-cut vector makes a label that looks better wait for a charge that a
rival escapes; the last of the nodes merges three items and forbids two of them. In
`column_generation` a Unit of 2 is the coarsest grid on which a master over triples is
fractional and a cut violated; 12 iterations equal the number of patterns, so
`BudgetSuffices` has its premise. In `safe_mip` 3 nodes are what a pair and its two sides
need, so the budget cuts some searches and not others. Deadlock is not checked anywhere:
the program stops when it has answered. The type invariants of the modules without one in
their run (`DepthFirst`, `LabelSetting`, `Algorithm1` by itself), `OnePath` and `IsolatedKept`
are theorems, which say more than a run could. The longest run takes about two minutes.

**Fairness.** `DepthFirst!FairSpec` has weak fairness on `Next`: one thread, which runs
until it returns. `FairSolveSpec` has it on the call's own steps and on the dive's, but
not on `Expire`: the dive ends without its deadline. `MipSpec` has it on the actions of a
search under way, and on nothing that starts one. `BestBound` claims no liveness;
its loop processes a node per iteration and `max_nodes` bounds it.

### What the violated runs show

* `best_bound_partial`. `bp.cpp:158` reports `peek().safe_bound`. A queued bound is the
  bound of the node's parent, hence holds below that node only; the nodes fathomed by
  the incumbent have left the queue. With an incumbent two bins above the optimum, a node of
  bound optimum + 1 is branched, its sibling yields the optimum, and at the limit the
  bound left at the top of the queue exceeds it. `branch_and_price.hpp:68-72`
  calls the field the certified global lower bound. The smaller of bound and incumbent
  is one: `PartialBoundSound`, checked and proved.
* `label_setting_oracle`. The branch-aware depth-first search (`pricer.cpp:1263-1382`)
  looks at a pattern only after it has decided every element, and its bound adds the
  negative values ahead (1325-1330), so a node whose elements ahead are worth less than nothing
  may be cut together with the pattern it holds. In the run the bin holds 6 and costs 5, the
  weights are 2,2,1,1, items 1 and 2 are together and the duals are 3,3,-1,-1. The search takes
  {1,2}, then 3 and 4 (a leaf worth 4), leaves 4 out (a leaf worth 5), and goes back to leave 3
  out: with {1,2} worth 6 and item 4 ahead the bound is 6 - 1 = 5, not more than the best value,
  and line 1346 returns. It answers {1,2,3}, of reduced cost 0, where {1,2} has -1 and the
  label-setting program finds it. With capacity 10, weights 4,4,5, duals 2,-5,-6, a bin cost of
  1 and items 1 and 2 apart it finds nothing at all. The compiled function gives both answers.
  `pricing.hpp:53-58` calls it exact and the correctness reference; it is the fallback
  for nodes with more than 40 conflicts. Master duals of covering rows are not negative,
  but scaled ones are rounded down to -1.
* `safe_mip_certificate`. The populate pass enumerates with the pricing program, which
  keeps of two partial patterns the better and drops items of dual zero; and the
  restricted tree fixes every older column at zero (`cg.cpp:265-270`). An improving
  packing may need one of those columns, and its absence is reported as a proof
  (`cg.cpp:116-127`, `395-401`). The model's heuristics may return any packing, as a
  proof must not depend on their luck. The code itself, linked with a textbook simplex
  method, certifies 5 bins on capacity 12 and weights 6,6,5,5,4,4,3,3,3,3,3,3, which
  fit in 4. `ResolvedMeansExhausted` states what does hold.

### Observations without a run

* A node without a fractional pair may be closed with an incumbent that is not optimal there,
  in two ways. First, the solution may cover an item more than once.
  Weights 1,20,8,8,6,6,6,6 in bins of 21; the columns {1,2}, {1,3,5,6}, {1,4,7,8} at value
  one cover item 1 three times, at the least cost. Taking the first excludes the other two,
  and best-fit decreasing packs 8,8,6,6,6,6 into three bins: four bins, where three are
  enough. The comments at `bp.cpp:54` and `cg.cpp:360-364` expect otherwise. Second,
  `populate_root_columns` overwrites `master_values` (`cg.cpp:56`) before it knows whether it
  has a column to add, and rounds only if it has: otherwise the driver scans a solution that
  no heuristic has seen, which may be another optimum, or one under the cuts of the last
  round (`cg.cpp:919-923`). `CapturedIfRounded` excludes these two cases and no other;
  without the premise `node_pc = "rounded"` it fails already on four items of weight 1 in bins
  of 2, with a pool of two packings of two pairs each.

* The tree of the certification can throw (`cg.cpp:213`): a leaf may cover an item twice,
  and the row on the count keeps the incumbent of the start, so a second leaf need not
  improve on the first. The comment at 176-178 excludes both. The model takes the throw.
* The populate pass throws when the incumbent is two bins above the LP value: its
  threshold is then not positive and pricing refuses it (`pricer.cpp:486`, `611`).
* With `options.populate` a first pass runs before the certification; the certification's
  own pass may then add nothing, and with no column added its tree gives up.
* The comment at `cg.cpp:384` says that a branched pair makes strict progress. A pair whose
  items lie in the same columns does not; the node budget ends such a search, and
  `SearchEnds` relies on it.
* A pool handed to a node need not cover the items that Together constraints merge, and the
  node then throws (`column_generation.hpp:83-88` says that it always does). Run
  `column_generation` starts from such a pool; `BudgetSuffices` tells this throw apart.

* A node that Algorithm 1 has certified can still throw. Fathomed against the incumbent before
  its columns were complete, it separates cuts all the same (`cg.cpp:909-921` tests the gap, which
  is then closed), and a pool handed in that satisfies no packing, such as {1,2}, {1,3}, {2,3},
  {4}, becomes infeasible under the cut on 1, 2, 3. The exception leaves the whole search. Pools
  that contain the node's seeds are safe: the seeds are a packing.
* A stalled node is popped and forgotten by the best-bound loop (`bp.cpp:128`), and the
  emptied queue is then taken for a proof; the depth-first driver clears `complete_`
  in the same place (`bp.cpp:209-214`). Without the premise `NoneStalled`,
  `OptimalUnlessStalled` fails. No current build lets a node stall.
* `bp.cpp:21-23` speaks of one detour in the whole dive; because `++down_budget_` gives
  the unit back, the budget bounds the detours that are open at once, as
  `branch_and_price.hpp:51` says, not their number. `BudgetConserved` states what holds.

## 4. Proofs

TLAPS checks these for every set of items, weights, capacity, node and budget, from the
named assumptions on the constants (`InstanceAssumption`, `MaxNodesAssumption`,
`Algorithm1Assumption`, ...). Of the tree drivers only `BestBoundImplements` takes a premise
more, `~CanStall`, which the loop of `bp.cpp:118-151` needs and every build with an LP backend
meets: Algorithm 1 certifies or throws. The depth-first driver needs none.

**`BranchingProofs`.** `RyanFoster`: the packings a node admits are split between its two
children. It rests on `EveryItemPacked` and `OneBinPerItem`: a packing has exactly one bin
per item, so "share a bin" and "no bin holds both" are complementary. The module also
proves what the other proofs need of data. `SumFunctionOnSet` of the community modules and
the recursive function `Load` choose their elements, and no induction theorem of the library
can be cited for them, because it takes an operator as a parameter. The induction is made on
sets instead: `SmallestSubset` finds a minimal counterexample by counting, `SumIsSummation`
shows that any function obeying the recursion is the sum, and from there sums split, add up,
swap and compare (`SumSplits` to `SumCovers`).

**`BestBoundProofs`.** `TypeCorrect` and `QueueBoundsCorrect` are inductive with the type
invariant. `Coverage` is not inductive alone: its premise `NoneStalled` is an equation
between counters that a step could restore. `Accounting` adds that twice the number of
nodes neither pruned nor lost is never below the number generated and that nothing is
answered early; a stall then breaks the equation for good. Given a packing better than
the incumbent, `CoverageOfNode` follows the queued node that admits it: a prune
contradicts the bound, an integral end enters it in `missed` (`GivenUpAreAdmitted`), a branch
hands the packing to a child by `SomeChildAdmits`. With an empty queue no such packing is left
(`OptimalCorrect`). At the node limit the top of the queue bounds the queue from below,
and the queue holds every improving packing that was not given up (`PartialBoundCorrect`).
`BestBoundImplements` adds `~CanStall` and maps each step to a step of the contract.
`QueuedFeasibleCorrect`: of a pair that is not bonded both children admit a packing, and the
Together child of a bonded one admits what its parent does (`BranchingSplits`), so only the
Different child of a bonded pair is empty. `TreeBoundCorrect` marks packings: `Separated` says
that some set of packings has one member more than branchings were made on pairs not bonded and
exactly one that each feasible queued node admits; such a branching marks one more. A branching
on a bonded pair marks none and leaves an infeasible node, which throws when it is solved. The
theorem does not say that the loop ends by itself: a master may cover the same bonded pair in
excess at node after node while the infeasible children wait, and `max_nodes` then ends it.

**`DepthFirstProofs`.** The same argument with `complete_` in the place of the counters
and frames in the place of nodes; no assumption on stalls is needed, because the flag
is cleared. `OnePathCorrect` needs a strengthening: `OnePath` compares a waiting frame
with the top of the stack, `PathBelow` with every frame above it, since it becomes the
top itself when those return.

**`DivingProofs`.** `DiveInv` has the budget and `IsPath`: a frame lies below the child that
each waiting frame called. The depth (`DivesAreShallow`) is a count of two kinds of frames.
Those on a Different side hold a unit of the budget each. Those on a Together side have
different numbers of groups of items (`Groups`, counted by the smallest item of each), and
branching on a pair that is not bonded merges two (`GroupsMerge`). `FinalCertificateHolds`
and `FinalBoundIsSound` add `Certificate`, what the contract leaves of the search, and need
nothing else of it.

**`RoundingProofs`.** `RoundingInv` adds to the properties that a column in the packing is not
taken twice, that the scan holds no column lighter than one it has still to reach, and that an
isolated column, or a heavy one of a solution that covers once, is taken or still in sight.
`RepairIsTight`: a bin is opened only when the item fits none, and loads only grow.

`PairInv` says that the pair kept is the best of those seen, up to the tolerances on the way
(`BestPairPicked`), and that the solution is a cheapest one. `IntegralWithoutPair` says that no
pair means no fraction, although the scan sees pairs only and the rows let items be covered
twice. A column in use has an item that is covered exactly once, otherwise the solution would
not be cheapest (`OptimaAreTight`): less of the column would do, and no row of a cut forbids
less. If the column is fractional, so is a second column of that item, and as columns differ,
a pair of that item is in one of them and not in the other: its value is a fraction of a bin
(`SharedItemIsFractional`). What passes for zero adds up to less than half a bin by
`PairSelectionAssumption`, and what is left is worth more than half. `BranchesMakeProgress`:
when the pair chosen is fractional and covered less than once, the solution breaks both
children's constraints; of the trees' rule this needs that items are covered once. The three
hold of a scan by itself and of the one that ends a node (`NodePairsCorrect`).

`NodeInv` says that until the populate pass overwrites it, the solution has been rounded.
Where every item is covered once, the columns worth more than half a bin are then a packing
(`HeavyIsPacking`), which the heuristics return; it costs no more than the solution
(`HeavyIsOptimal`), and the solution no more than any packing of the pool, which solves the
master as well, under every cut (`OptimumBeatsPackings`). So nothing in the pool is better
(`IntegralNodesCaptured`), nor, when the node has converged, any packing of its branch
(`ConvergedNodesCaptured`).

**`PricingProofs`, `LabelSettingProofs`.** `LabelInv` says which set of items each label stands
for. `PricedExactlyCorrect` adds `Hope`: while the best pattern improves, a label and a set of
elements ahead make a pattern of that value. `BoundIsSound` keeps it from the fractional bound:
elements are ordered by ratio, and what any set of those ahead is worth is compared with the
elements that fit whole and the one cut to size. `TakesThePlace` keeps it from dominance and
equal keys: put the other label in the place of the one that goes; its load is no larger, its
conflicts are the same, and of the cuts it loses at most the margin, by parity
(`CoefficientAdds`, `Halves`). At the end nothing is ahead, and a label worth more than a bin
has been a candidate (`ReturnsBest`).

**`ColumnGenerationProofs`**, for Algorithm 1. `BudgetSufficesCorrect`: `ColumnForEach` adds that
the pool has more patterns than there were iterations. `CertifiedBoundCorrect`: `WeakDuality`
sums the dual value over the bins of a packing and swaps the sums; each item is in one bin and
at most one bin holds two items of a triple (`OneBinPerCut`), so duals priced at most t sum to
at most t times the bins. `SafeDualsFacts` counts what rounding takes away, and `BoundCertified`
carries the bound through the rounds of cuts. No column of the pool improves under the rounded
duals (`ColumnDoesNotImprove`), so the exit "no column added" is dead behind exact pricing.
`EarlyStopLosesNothing` is the half of `EarlyStopHarmless` that the comment in the code claims.
`FreshCutsCorrect`: the sums that `separate_sr3` makes over the pairs of a triple are the
activity of the cut (`SeparatedIsActivity`), and an active cut is not violated.

For the certification, `MipInv` gives the columns fixed at each level of the stack by the
constraints of the levels above it, so that going down, turning and coming back restores them
(`MasksAreRestored`); and `Complete`, that every packing wanted still lies below the node at
hand or a side not yet turned to, makes `ResolvedIsExhausted`.

**Where modules meet.** `PricingAnswersAlgorithm1`: what `LabelSetting` returns is what
`Algorithm1!PricedSets` takes pricing for. `EngineImplementsRelaxation`: what `Algorithm1` certifies
is an answer `NodeRelaxation` allows the drivers to see, and a node that admits no packing
throws; for a pool that covers the items gives a packing of the node's elements
(`ElementsPack`). `BestBoundImplements` and `DepthFirstImplements`: the drivers keep
`SearchContract`, from which `FinalCertificateHolds` follows. `PairsAreThoseOfTheDrivers`: the pair
the rules choose is one of the `FractionalPairs` of every node whose constraints the columns in
use obey; with `OverCovers` FALSE, of a master that covers every item once, and always of the
dive's rule. `ConvergedNodesCaptured`: such a node without a pair gives up nothing (`GivenUp` is
empty), if its solution was rounded. These premises, and that column generation has converged,
are stated in the theorem; the drivers' theorems do without them and count what is given up.

What attempted proofs changed in the model: a run of `Algorithm1` whose seeds do not fit, or that
has none because there is no item, throws before it has a pool, where the model kept one that
broke its type invariant; the node {Together(1,3), Together(3,4)} of run `column_generation` now
starts there. `MipTypeOK` speaks of the columns of a search only while one is under way.
That a node without a pair is captured could not be proved of the populate pass, which is how the
second way of the first observation was found; the drivers' certificates assumed it and now count
the packings given up instead. `Throw` of `Algorithm1` knew no master that the cuts make infeasible.

**Only model-checked**: `EarlyStopHarmless` in full, whose other half compares with the optimum on
the grid of `Unit`, which an arbitrary grid need not attain (`cg.cpp:808-812` speaks of the real
optimum); `OraclesAgree`, whose oracles are RECURSIVE operators; and the liveness properties
`Terminates`, `SolveTerminates` and `SearchEnds`, which are out of the prover's reach.

## 5. Not modelled, and the plan

In order:

1. Preprocessing (`src/core/preprocessing.cpp`): forced singletons keep the optimum, and the
   reconstruction is a packing; with it the status words of the CLI.
2. The floating loop with its smoothed duals and the two-phase fallback (`cg.cpp:440-660`,
   `959-1360`), reached by builds without SoPlex or by options no driver sets.
3. Proofs: that `BestBound` with the answers of `Algorithm1` in the place of
   `Relaxations` keeps its contract (the two halves are proved, the composed module is not
   written); how many nodes the depth-first search visits when its budget does not end it.

Left out for good: LP solvers (external), file formats, logging, report layout, the greedy
solver and first-fit decreasing (no search calls them). Of pricing, the sweep of more than
500 labels inside the populate pass: it can only drop further columns. Cut duals are taken
to be zero or less, as LP theory has them (`LabelSettingAssumption`); a solver that returns
a small positive one within its tolerance is outside the model, and so is screening items
by their dual in that case (`pricer.cpp:501-503`).

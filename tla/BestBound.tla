----------------------------- MODULE BestBound -----------------------------
(***************************************************************************)
(* NodeStrategy::BestBound: solve_branch_and_price_best_bound              *)
(* (src/search/branch_and_price.cpp) and its BestBoundQueue                *)
(* (src/search/node_queue.cpp).  One action per way a node can end; the    *)
(* root and a popped node go through different code and have actions of    *)
(* their own.                                                              *)
(***************************************************************************)
EXTENDS NodeRelaxation

CONSTANT max_nodes

ASSUME MaxNodesAssumption == max_nodes \in Nat \ {0}

VARIABLES pc,               \* "root", "search", "answered" or "threw"
          queue,            \* BestBoundQueue::nodes_
          sequence,         \* the next tie-breaking number
          incumbent_bins, processed_nodes, generated_nodes, pruned_nodes,
          optimal, lower_bound,
          missed            \* history: the packings of GivenUp, node by node

counters == <<processed_nodes, generated_nodes, pruned_nodes>>
answer == <<optimal, lower_bound>>
vars == <<pc, queue, sequence, incumbent_bins, counters, answer, missed>>

NoBound == -1

SearchNodes ==
    [branching : BranchingStates, safe_bound : Nat,
     depth : Nat, sequence : Nat]

(* BestBoundQueue::Compare: smallest bound, then depth, then sequence.     *)
Before(n, m) ==
    \/ n.safe_bound < m.safe_bound
    \/ n.safe_bound = m.safe_bound /\ n.depth < m.depth
    \/ n.safe_bound = m.safe_bound /\ n.depth = m.depth /\ n.sequence < m.sequence

(* Mutant: the comparison of the priority queue is reversed.               *)
IsBottom(n, q) == n \in q /\ \A m \in q \ {n} : Before(m, n)

(* The node pop() and peek() return.                                       *)
IsTop(n, q) == n \in q /\ \A m \in q \ {n} : Before(n, m)

(* Mutant: both children are Together.                                     *)
TogetherTwice(b, r, depth) ==
    {[branching |-> Child(b, r.pair, "Together"), safe_bound |-> r.safe_bound,
      depth |-> depth, sequence |-> s] : s \in {sequence, sequence + 1}}

(* Mutant: a child is queued with a bound above its parent's.              *)
RaisedBounds(b, r, depth) ==
    {[branching |-> Child(b, r.pair, "Together"), safe_bound |-> r.safe_bound,
      depth |-> depth, sequence |-> sequence],
     [branching |-> Child(b, r.pair, "Different"), safe_bound |-> r.safe_bound + 1,
      depth |-> depth, sequence |-> sequence + 1]}

(* The two nodes a branching pushes, Together first.                       *)
Children(b, r, depth) ==
    {[branching |-> Child(b, r.pair, "Together"), safe_bound |-> r.safe_bound,
      depth |-> depth, sequence |-> sequence],
     [branching |-> Child(b, r.pair, "Different"), safe_bound |-> r.safe_bound,
      depth |-> depth, sequence |-> sequence + 1]}

Init ==
    /\ pc = "root"
    /\ queue = {}
    /\ sequence = 0
    /\ incumbent_bins \in PackingSizes
    /\ processed_nodes = 0 /\ generated_nodes = 0 /\ pruned_nodes = 0
    /\ optimal = FALSE
    /\ lower_bound = NoBound
    /\ missed = {}
-----------------------------------------------------------------------------
(* What solving a node does before its outcome is looked at.               *)
Solved(r) ==
    /\ processed_nodes' = processed_nodes + 1
    /\ incumbent_bins' = Improve(incumbent_bins, r.incumbent_bins)

Push(b, r, depth, rest) ==
    /\ queue' = rest \cup Children(b, r, depth)
    /\ sequence' = sequence + 2
    /\ generated_nodes' = generated_nodes + 2
    /\ UNCHANGED <<pruned_nodes, answer, missed>>

(* The four ways the root relaxation r can end.                            *)
RootStall(r) ==
    /\ ~r.certified
    /\ pc' = "answered"
    /\ UNCHANGED <<queue, sequence, generated_nodes, pruned_nodes, answer, missed>>

RootPrune(r) ==
    /\ r.certified
    /\ CanPrune(r.safe_bound, incumbent_bins')
    /\ pruned_nodes' = 1
    /\ optimal' = TRUE
    /\ lower_bound' = incumbent_bins'
    /\ pc' = "answered"
    /\ UNCHANGED <<queue, sequence, generated_nodes, missed>>

RootIntegral(r) ==
    /\ r.certified
    /\ ~CanPrune(r.safe_bound, incumbent_bins')
    /\ r.pair = NoPair
    /\ optimal' = TRUE
    /\ lower_bound' = incumbent_bins'
    /\ missed' = GivenUp({}, incumbent_bins')
    /\ pc' = "answered"
    /\ UNCHANGED <<queue, sequence, generated_nodes, pruned_nodes>>

RootBranch(r) ==
    /\ r.certified
    /\ ~CanPrune(r.safe_bound, incumbent_bins')
    /\ r.pair # NoPair
    /\ Push({}, r, 1, queue)
    /\ pc' = "search"

SolveRoot ==
    /\ pc = "root"
    /\ \E r \in Relaxations({}) :
        /\ Solved(r)
        /\ RootStall(r) \/ RootPrune(r) \/ RootIntegral(r) \/ RootBranch(r)

(* An exception out of column generation leaves solve_branch_and_price.    *)
RootThrow ==
    /\ pc = "root"
    /\ pc' = "threw"
    /\ UNCHANGED <<queue, sequence, incumbent_bins, counters, answer, missed>>
-----------------------------------------------------------------------------
(* The loop condition holds and pop() returns n.                           *)
Pop(n) ==
    /\ pc = "search"
    /\ processed_nodes < max_nodes
    /\ IsTop(n, queue)

(* The four ways the relaxation r of a popped node n can end.              *)
NodeStall(n, r) ==
    /\ ~r.certified
    /\ queue' = queue \ {n}
    /\ UNCHANGED <<sequence, generated_nodes, pruned_nodes, answer, missed>>

(* Mutant: the pruned node is looked at but not taken off the queue.       *)
PruneKept(n, r) ==
    /\ r.certified
    /\ CanPrune(r.safe_bound, incumbent_bins')
    /\ pruned_nodes' = pruned_nodes + 1
    /\ UNCHANGED <<queue, sequence, generated_nodes, answer, missed>>

NodePrune(n, r) ==
    /\ r.certified
    /\ CanPrune(r.safe_bound, incumbent_bins')
    /\ pruned_nodes' = pruned_nodes + 1
    /\ queue' = queue \ {n}
    /\ UNCHANGED <<sequence, generated_nodes, answer, missed>>

NodeIntegral(n, r) ==
    /\ r.certified
    /\ ~CanPrune(r.safe_bound, incumbent_bins')
    /\ r.pair = NoPair
    /\ pruned_nodes' = pruned_nodes + 1
    /\ missed' = missed \cup GivenUp(n.branching, incumbent_bins')
    /\ queue' = queue \ {n}
    /\ UNCHANGED <<sequence, generated_nodes, answer>>

NodeBranch(n, r) ==
    /\ r.certified
    /\ ~CanPrune(r.safe_bound, incumbent_bins')
    /\ r.pair # NoPair
    /\ Push(n.branching, r, n.depth + 1, queue \ {n})

SolveNode(n) ==
    /\ Pop(n)
    /\ \E r \in Relaxations(n.branching) :
        /\ Solved(r)
        /\ NodeStall(n, r) \/ NodePrune(n, r) \/ NodeIntegral(n, r) \/ NodeBranch(n, r)
    /\ UNCHANGED pc

NodeThrow(n) ==
    /\ Pop(n)
    /\ pc' = "threw"
    /\ queue' = queue \ {n}
    /\ UNCHANGED <<sequence, incumbent_bins, counters, answer, missed>>

(* The loop ends: the queue is empty or the node budget is spent.          *)
FinishExhausted ==
    /\ pc = "search"
    /\ queue = {}
    /\ optimal' = TRUE
    /\ lower_bound' = incumbent_bins
    /\ pc' = "answered"
    /\ UNCHANGED <<queue, sequence, incumbent_bins, counters, missed>>

FinishBudget(n) ==
    /\ pc = "search"
    /\ processed_nodes >= max_nodes
    /\ IsTop(n, queue)
    /\ optimal' = FALSE
    /\ lower_bound' = n.safe_bound
    /\ pc' = "answered"
    /\ UNCHANGED <<queue, sequence, incumbent_bins, counters, missed>>
-----------------------------------------------------------------------------
Next ==
    \/ SolveRoot
    \/ RootThrow
    \/ \E n \in queue : SolveNode(n) \/ NodeThrow(n) \/ FinishBudget(n)
    \/ FinishExhausted

Spec == Init /\ [][Next]_vars
-----------------------------------------------------------------------------
(* Every variable has its type.                                            *)
TypeOK ==
    /\ pc \in {"root", "search", "answered", "threw"}
    /\ queue \subseteq SearchNodes
    /\ sequence \in Nat
    /\ incumbent_bins \in PackingSizes
    /\ processed_nodes \in Nat /\ generated_nodes \in Nat /\ pruned_nodes \in Nat
    /\ optimal \in BOOLEAN
    /\ lower_bound \in {NoBound} \cup Nat
    /\ missed \subseteq Packings

(* Every solved node was pruned or branched, as the counters tell; a root  *)
(* fathomed as integral is not counted as pruned.                          *)
NoneStalled ==
    generated_nodes = 0 \/ 2 * (processed_nodes - pruned_nodes) = generated_nodes

(* No improving packing is lost: as long as no node has stalled, a packing *)
(* with fewer bins than the incumbent is admitted by a node still queued,  *)
(* or was given up when a node that admits it was closed as integral.      *)
(* This is what makes an empty queue a proof of optimality                 *)
(* (branch_and_price.cpp:152-156).                                         *)
Coverage ==
    (pc = "search" /\ NoneStalled) =>
        \A P \in Packings \ missed :
            Bins(P) < incumbent_bins => \E n \in queue : Admits(n.branching, P)

(* The bound a node was queued with, its parent's, holds for every packing *)
(* below the node (branch_and_price.cpp:145-149).                          *)
QueueBounds ==
    \A n \in queue : \A P \in Admitted(n.branching) : n.safe_bound =< Bins(P)

(* An answer that says optimal has an incumbent that only packings given   *)
(* up at integral nodes can beat, and reports it as the lower bound        *)
(* (branch_and_price.hpp:67-69), unless the counters show that a node      *)
(* stalled: the loop drops it (branch_and_price.cpp:128) and still takes   *)
(* the empty queue for a proof.                                            *)
OptimalUnlessStalled ==
    (optimal /\ NoneStalled) =>
        BoundsAllBut(incumbent_bins, missed) /\ lower_bound = incumbent_bins

(* An answer cut short by the node budget reports the queue's best bound:  *)
(* the smaller of it and the incumbent is a bound on every packing that    *)
(* was not given up, unless a node stalled (branch_and_price.cpp:157-158). *)
PartialBoundSound ==
    (pc = "answered" /\ NoneStalled /\ ~optimal /\ lower_bound # NoBound) =>
        BoundsAllBut(lower_bound, missed) \/ BoundsAllBut(incumbent_bins, missed)

(* The lower bound of any answer holds for every packing, as documented    *)
(* (branch_and_price.hpp:68-72, "the certified global lower bound over the *)
(* whole tree ... from the best remaining unprocessed node"), all the more *)
(* when no packing was given up.                                           *)
LowerBoundCertified ==
    (pc = "answered" /\ lower_bound # NoBound /\ missed = {}) => IsLowerBound(lower_bound)

(* Branching hands column generation an infeasible master, which throws    *)
(* out of the search (cplex_rmp.cpp:125), in one way only: a queued node   *)
(* admits a packing, or it is the Different child of a bonded pair, which  *)
(* the selection takes when the master covers it in excess                 *)
(* (branching.cpp:64).                                                     *)
QueuedFeasible ==
    \A n \in queue :
        \/ Admitted(n.branching) # {}
        \/ \E c \in n.branching :
              c.relation = "Different" /\ Bonded(n.branching \ {c}, c.pair)

(* The queued nodes that admit no packing.                                 *)
Infeasible(q) == {n \in q : Admitted(n.branching) = {}}

(* Every other node of the tree separates packings: the search has no more *)
(* nodes, solved and queued, than there are packings to tell apart, twice, *)
(* and two for each queued node that will throw when it is solved.  A node *)
(* that is solved once and queued again, or branched on without end, would *)
(* exceed it.                                                              *)
TreeBound ==
    pc = "search" =>
        processed_nodes + Cardinality(queue)
            =< 2 * (Cardinality(Packings) + Cardinality(Infeasible(queue))) - 1

(* The bin counts of the packings given up that beat the final incumbent.  *)
MissedSizes ==
    IF pc = "answered" THEN SizesBelow(incumbent_bins, missed) ELSE {}

(* The driver keeps the contract of solve_branch_and_price.                *)
Contract == INSTANCE SearchContract
    WITH status <- IF pc \in {"root", "search"} THEN "running" ELSE pc,
         missed <- MissedSizes

Implements == Contract!Spec
=============================================================================

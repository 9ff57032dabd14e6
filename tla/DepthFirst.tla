----------------------------- MODULE DepthFirst -----------------------------
(***************************************************************************)
(* NodeStrategy::DepthFirst: DepthFirstDriver and                          *)
(* solve_branch_and_price_depth_first (src/search/branch_and_price.cpp).   *)
(*                                                                         *)
(* The recursion is a stack of frames.  A frame is about to "visit" its    *)
(* node, or waits for its Together child to return before it visits the    *)
(* "different" child.  Visiting that child is the last thing a frame does, *)
(* so its visit takes the frame's place on the stack.  The pool of columns *)
(* handed from node to node decides which columns a node starts from, not  *)
(* what it may answer, and is left out.                                    *)
(***************************************************************************)
EXTENDS NodeRelaxation, Sequences

CONSTANT max_nodes

ASSUME MaxNodesAssumption == max_nodes \in Nat \ {0}

VARIABLES pc,               \* "search", "answered" or "threw"
          stack,            \* frames of visit(), the top one first
          complete,         \* complete_
          incumbent_bins, processed_nodes, generated_nodes, pruned_nodes,
          optimal, lower_bound,
          missed            \* history: the packings of GivenUp, node by node

counters == <<processed_nodes, generated_nodes, pruned_nodes>>
answer == <<optimal, lower_bound>>
vars == <<pc, stack, complete, incumbent_bins, counters, answer, missed>>

NoBound == -1

Visit(b) == [point |-> "visit", branching |-> b]

(* The frame remembers the Different child it still has to visit.          *)
Resume(b) == [point |-> "different", branching |-> b]

Frames == [point : {"visit", "different"}, branching : BranchingStates]

Init ==
    /\ pc = "search"
    /\ stack = <<Visit({})>>
    /\ complete = TRUE
    /\ incumbent_bins \in PackingSizes
    /\ processed_nodes = 0 /\ generated_nodes = 0 /\ pruned_nodes = 0
    /\ optimal = FALSE
    /\ lower_bound = NoBound
    /\ missed = {}
-----------------------------------------------------------------------------
At(point) == pc = "search" /\ stack # <<>> /\ Head(stack).point = point

BudgetSpent == processed_nodes >= max_nodes

(* Mutant: reaching the node limit leaves complete_ set.                   *)
GiveUpSilently ==
    /\ pc = "search"
    /\ stack # <<>>
    /\ BudgetSpent
    /\ stack' = Tail(stack)
    /\ UNCHANGED <<pc, complete, incumbent_bins, counters, answer, missed>>

(* Mutant: reaching the node limit does not return.                        *)
GiveUpInPlace ==
    /\ pc = "search"
    /\ stack # <<>>
    /\ BudgetSpent
    /\ complete' = FALSE
    /\ UNCHANGED <<pc, stack, incumbent_bins, counters, answer, missed>>

(* Either check of the node limit: the search is no longer complete.       *)
GiveUp ==
    /\ pc = "search"
    /\ stack # <<>>
    /\ BudgetSpent
    /\ complete' = FALSE
    /\ stack' = Tail(stack)
    /\ UNCHANGED <<pc, incumbent_bins, counters, answer, missed>>

(* The Together subtree has returned: on to the Different child.           *)
EnterDifferent ==
    /\ At("different")
    /\ ~BudgetSpent
    /\ stack' = <<Visit(Head(stack).branching)>> \o Tail(stack)
    /\ UNCHANGED <<pc, complete, incumbent_bins, counters, answer, missed>>

Solved(r) ==
    /\ processed_nodes' = processed_nodes + 1
    /\ incumbent_bins' = Improve(incumbent_bins, r.incumbent_bins)

(* Mutant: a stalled node leaves complete_ set.                            *)
StallSilently(r) ==
    /\ ~r.certified
    /\ stack' = Tail(stack)
    /\ UNCHANGED <<complete, generated_nodes, pruned_nodes, missed>>

Stall(r) ==
    /\ ~r.certified
    /\ complete' = FALSE
    /\ stack' = Tail(stack)
    /\ UNCHANGED <<generated_nodes, pruned_nodes, missed>>

Prune(r) ==
    /\ r.certified
    /\ CanPrune(r.safe_bound, incumbent_bins')
    /\ pruned_nodes' = pruned_nodes + 1
    /\ stack' = Tail(stack)
    /\ UNCHANGED <<complete, generated_nodes, missed>>

Integral(b, r) ==
    /\ r.certified
    /\ ~CanPrune(r.safe_bound, incumbent_bins')
    /\ r.pair = NoPair
    /\ pruned_nodes' = pruned_nodes + 1
    /\ missed' = missed \cup GivenUp(b, incumbent_bins')
    /\ stack' = Tail(stack)
    /\ UNCHANGED <<complete, generated_nodes>>

Branch(b, r) ==
    /\ r.certified
    /\ ~CanPrune(r.safe_bound, incumbent_bins')
    /\ r.pair # NoPair
    /\ generated_nodes' = generated_nodes + 2
    /\ stack' = <<Visit(Child(b, r.pair, "Together")),
                  Resume(Child(b, r.pair, "Different"))>> \o Tail(stack)
    /\ UNCHANGED <<complete, pruned_nodes, missed>>

SolveNode ==
    /\ At("visit")
    /\ ~BudgetSpent
    /\ \E r \in Relaxations(Head(stack).branching) :
        /\ Solved(r)
        /\ \/ Stall(r) \/ Prune(r)
           \/ Integral(Head(stack).branching, r) \/ Branch(Head(stack).branching, r)
    /\ UNCHANGED <<pc, answer>>

Throw ==
    /\ At("visit")
    /\ ~BudgetSpent
    /\ pc' = "threw"
    /\ UNCHANGED <<stack, complete, incumbent_bins, counters, answer, missed>>

(* The outermost visit has returned.                                       *)
Finish ==
    /\ pc = "search"
    /\ stack = <<>>
    /\ optimal' = complete
    /\ lower_bound' = IF complete THEN incumbent_bins ELSE NoBound
    /\ pc' = "answered"
    /\ UNCHANGED <<stack, complete, incumbent_bins, counters, missed>>
-----------------------------------------------------------------------------
Next == GiveUp \/ EnterDifferent \/ SolveNode \/ Throw \/ Finish

Spec == Init /\ [][Next]_vars

(* The recursion is sequential: it runs until it returns or throws.        *)
FairSpec == Spec /\ WF_vars(Next)
-----------------------------------------------------------------------------
(* Every variable has its type.                                            *)
TypeOK ==
    /\ pc \in {"search", "answered", "threw"}
    /\ stack \in Seq(Frames)
    /\ complete \in BOOLEAN
    /\ incumbent_bins \in PackingSizes
    /\ processed_nodes \in Nat /\ generated_nodes \in Nat /\ pruned_nodes \in Nat
    /\ optimal \in BOOLEAN
    /\ lower_bound \in {NoBound} \cup PackingSizes
    /\ missed \subseteq Packings

(* As long as complete_ holds, a packing that improves on the incumbent is *)
(* admitted by a node some frame still has to visit, or was given up when  *)
(* a node that admits it was closed as integral: no other return path      *)
(* drops a subtree without clearing the flag                               *)
(* (branch_and_price.cpp:185-187).                                         *)
Coverage ==
    (pc = "search" /\ complete) =>
        \A P \in Packings \ missed :
            Bins(P) < incumbent_bins =>
                \E k \in DOMAIN stack : Admits(stack[k].branching, P)

(* An answer that says optimal has an incumbent that only packings given   *)
(* up at integral nodes can beat, even when nodes may stall or the node    *)
(* limit may cut the search (branch_and_price.cpp:209-214).                *)
OptimalIsOptimal ==
    optimal => BoundsAllBut(incumbent_bins, missed) /\ lower_bound = incumbent_bins

(* The stack is one path of the tree: only the top frame can be about to   *)
(* visit, and everything above a waiting frame lies in the Together        *)
(* subtree of that frame (branch_and_price.cpp:162-165).                   *)
OnePath ==
    \A k \in DOMAIN stack :
        k > 1 =>
            /\ stack[k].point = "different"
            /\ \E c \in stack[k].branching :
                /\ c.relation = "Different"
                /\ Child(stack[k].branching \ {c}, c.pair, "Together")
                        \subseteq stack[1].branching

(* The search returns or throws.                                           *)
Terminates == <>(pc \in {"answered", "threw"})

(* The bin counts of the packings given up that beat the final incumbent.  *)
MissedSizes ==
    IF pc = "answered" THEN SizesBelow(incumbent_bins, missed) ELSE {}

(* The driver keeps the contract of solve_branch_and_price.                *)
Contract == INSTANCE SearchContract
    WITH status <- IF pc = "search" THEN "running" ELSE pc,
         missed <- MissedSizes

Implements == Contract!Spec
=============================================================================

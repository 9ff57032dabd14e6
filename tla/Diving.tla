------------------------------- MODULE Diving -------------------------------
(***************************************************************************)
(* The diving heuristic: DivingDriver (src/search/branch_and_price.cpp)    *)
(* with its pair rule select_most_confirmed_pair.                          *)
(*                                                                         *)
(* The recursion is a stack of frames, the top one first.  A frame is      *)
(* about to "visit" its node, waits for its "together" child, or waits for *)
(* its "different" child, which it owes a unit of the down budget.         *)
(***************************************************************************)
EXTENDS NodeRelaxation, Sequences

CONSTANT diving_down_budget

ASSUME DownBudgetAssumption == diving_down_budget \in Nat \ {0}

VARIABLES stack,        \* frames of dive()
          down_budget,  \* down_budget_
          expired,      \* the clock has passed deadline_
          dive_bins,    \* incumbent_bins of the driver's own result
          threw         \* an exception has left the dive

vars == <<stack, down_budget, expired, dive_bins, threw>>

Frame(point, b, p) == [point |-> point, branching |-> b, pair |-> p]

Frames == [point : {"visit", "together", "different"}, branching : BranchingStates,
           pair : Pairs \cup {NoPair}]

(* dive() is called on the root with the incumbent of the main search.     *)
Start(b, bins) ==
    /\ stack = <<Frame("visit", b, NoPair)>>
    /\ down_budget = diving_down_budget
    /\ expired = FALSE
    /\ dive_bins = bins
    /\ threw = FALSE

Init == \E bins \in PackingSizes : Start({}, bins)
-----------------------------------------------------------------------------
(* Mutant: the rule takes any pair that co-occurs.                         *)
AnyPairAnswers(b) ==
    IF Admitted(b) = {} THEN {}
    ELSE [incumbent_bins : PackingSizes,
          certified : {c \in BOOLEAN : c \/ CanStall},
          safe_bound : SafeBounds(b),
          pair : CoOccurring(b) \cup {NoPair}]

(* Most confirmed means the largest co-occurrence below one; a bonded pair *)
(* co-occurs at least once and is never chosen.  Having no such pair does  *)
(* not mean that the master solution is integral.                          *)
Answers(b) ==
    IF Admitted(b) = {} THEN {}
    ELSE [incumbent_bins : PackingSizes,
          certified : {c \in BOOLEAN : c \/ CanStall},
          safe_bound : SafeBounds(b),
          pair : {p \in CoOccurring(b) : ~Bonded(b, p)} \cup {NoPair}]

At(point) == stack # <<>> /\ Head(stack).point = point

Return == stack' = Tail(stack)

Call(b) == <<Frame("visit", b, NoPair)>>

(* deadline_ passes, at any moment.                                        *)
Expire ==
    /\ ~expired
    /\ expired' = TRUE
    /\ UNCHANGED <<stack, down_budget, dive_bins, threw>>

ReturnLate ==
    /\ At("visit")
    /\ expired
    /\ Return
    /\ UNCHANGED <<down_budget, expired, dive_bins, threw>>

(* No certificate, nothing to gain, or no pair to confirm.                 *)
Leaf(r) ==
    /\ \/ ~r.certified
       \/ CanPrune(r.safe_bound, dive_bins')
       \/ r.pair = NoPair
    /\ Return

DiveTogether(b, r) ==
    /\ r.certified
    /\ ~CanPrune(r.safe_bound, dive_bins')
    /\ r.pair # NoPair
    /\ stack' = Call(Child(b, r.pair, "Together"))
                    \o <<Frame("together", b, r.pair)>> \o Tail(stack)

SolveNode ==
    /\ At("visit")
    /\ ~expired
    /\ \E r \in Answers(Head(stack).branching) :
        /\ dive_bins' = Improve(dive_bins, r.incumbent_bins)
        /\ Leaf(r) \/ DiveTogether(Head(stack).branching, r)
    /\ UNCHANGED <<down_budget, expired, threw>>

(* An exception out of column generation leaves the whole solve.           *)
Throw ==
    /\ At("visit")
    /\ ~expired
    /\ stack' = <<>>
    /\ threw' = TRUE
    /\ UNCHANGED <<down_budget, expired, dive_bins>>

(* The Together child has returned and the budget allows a detour.         *)
DiveDifferent ==
    /\ At("together")
    /\ down_budget > 0
    /\ down_budget' = down_budget - 1
    /\ LET top == Head(stack)
       IN  stack' = Call(Child(top.branching, top.pair, "Different"))
                        \o <<Frame("different", top.branching, top.pair)>> \o Tail(stack)
    /\ UNCHANGED <<expired, dive_bins, threw>>

SkipDifferent ==
    /\ At("together")
    /\ down_budget = 0
    /\ Return
    /\ UNCHANGED <<down_budget, expired, dive_bins, threw>>

(* Mutant: the unit is not given back.                                     *)
ReturnUnrestored ==
    /\ At("different")
    /\ Return
    /\ UNCHANGED <<down_budget, expired, dive_bins, threw>>

(* The Different child has returned and gives its unit back.               *)
RestoreBudget ==
    /\ At("different")
    /\ down_budget' = down_budget + 1
    /\ Return
    /\ UNCHANGED <<expired, dive_bins, threw>>
-----------------------------------------------------------------------------
Dive == ReturnLate \/ SolveNode \/ Throw \/ DiveDifferent \/ SkipDifferent \/ RestoreBudget

Next == Expire \/ Dive

Spec == Init /\ [][Next]_vars
-----------------------------------------------------------------------------
(* Every variable has its type.                                            *)
TypeOK ==
    /\ stack \in Seq(Frames)
    /\ down_budget \in Nat
    /\ expired \in BOOLEAN
    /\ dive_bins \in PackingSizes
    /\ threw \in BOOLEAN

Owed == {k \in DOMAIN stack : stack[k].point = "different"}

(* Every open Different branch holds one unit of the budget and every      *)
(* return gives it back, on each of the ways out of a dive: no unit leaks. *)
BudgetConserved ==
    ~threw => down_budget + Cardinality(Owed) = diving_down_budget

(* The recursion is shallow: each Together on the path merges two groups   *)
(* of items and each Different holds a unit of the budget.                 *)
ShallowStack == Len(stack) =< Cardinality(Items) + diving_down_budget

(* A dive never walks into a branch that admits no packing, so its own     *)
(* branching never makes column generation throw.                          *)
DiveFeasible == \A k \in DOMAIN stack : Admitted(stack[k].branching) # {}
=============================================================================

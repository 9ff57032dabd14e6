--------------------------- MODULE BranchAndPrice ---------------------------
(***************************************************************************)
(* solve_branch_and_price (src/search/branch_and_price.cpp): the main      *)
(* search of the chosen node strategy, then the diving heuristic, seeded   *)
(* with the incumbent the search found and run on a result of its own.     *)
(*                                                                         *)
(* The main search is taken through its contract, SearchContract, which    *)
(* BestBound and DepthFirst are both shown to implement.                   *)
(***************************************************************************)
EXTENDS Diving

VARIABLES diving_enabled,  \* the caller's option
          status, incumbent_bins, optimal, lower_bound,  \* the main search's result
          missed,          \* what its answer leaves out of account
          outcome          \* of the whole call: "search", "dive", "returned" or "threw"

result == <<diving_enabled, status, incumbent_bins, optimal, lower_bound, missed>>
allvars == <<vars, result, outcome>>

Main == INSTANCE SearchContract

SolveInit ==
    /\ diving_enabled \in BOOLEAN
    /\ Main!Init
    /\ Start({}, incumbent_bins)
    /\ outcome = "search"

MainSearch ==
    /\ outcome = "search"
    /\ Main!Next
    /\ UNCHANGED <<vars, diving_enabled, outcome>>

(* Mutant: only the exception of the search is seen.                       *)
RethrowSearch ==
    /\ outcome = "search" /\ status = "threw"
    /\ outcome' = "threw"
    /\ UNCHANGED <<vars, result>>

(* The exception of the search, or of the dive, reaches the caller.        *)
Rethrow ==
    /\ \/ outcome = "search" /\ status = "threw"
       \/ outcome = "dive" /\ threw
    /\ outcome' = "threw"
    /\ UNCHANGED <<vars, result>>

StartDive ==
    /\ outcome = "search"
    /\ status = "answered"
    /\ diving_enabled
    /\ dive_bins' = incumbent_bins
    /\ outcome' = "dive"
    /\ UNCHANGED <<stack, down_budget, expired, threw, result>>

ReturnSearch ==
    /\ outcome = "search"
    /\ status = "answered"
    /\ ~diving_enabled
    /\ outcome' = "returned"
    /\ UNCHANGED <<vars, result>>

DiveStep ==
    /\ outcome = "dive"
    /\ Next
    /\ UNCHANGED <<result, outcome>>

(* Only the incumbent of the dive is adopted, and only if it is better;    *)
(* optimal and lower_bound stay as the main search left them.              *)
Adopt ==
    /\ outcome = "dive"
    /\ stack = <<>>
    /\ ~threw
    /\ incumbent_bins' = Improve(incumbent_bins, dive_bins)
    /\ outcome' = "returned"
    /\ UNCHANGED <<vars, diving_enabled, status, optimal, lower_bound, missed>>

Step == MainSearch \/ Rethrow \/ StartDive \/ ReturnSearch \/ DiveStep \/ Adopt

SolveSpec == SolveInit /\ [][Step]_allvars

(* The call is sequential; within the dive the clock may stand still.      *)
FairSolveSpec ==
    /\ SolveSpec
    /\ WF_allvars(MainSearch \/ Rethrow \/ StartDive \/ ReturnSearch \/ Adopt)
    /\ WF_allvars(DiveStep /\ Dive)
-----------------------------------------------------------------------------
(* What the caller reads: after the dive was merged in, a result that says *)
(* optimal still has an incumbent that only packings the main search left  *)
(* out can beat, and a lower bound equal to it, unless the dive found such *)
(* a packing itself (branch_and_price.cpp:284-299).                        *)
FinalCertificate ==
    (outcome = "returned" /\ optimal) =>
        /\ Main!Holds(incumbent_bins, missed)
        /\ lower_bound = incumbent_bins \/ incumbent_bins \in missed

(* The reported bound and the final incumbent stay sound together: one of  *)
(* the two bounds every packing, whoever found the incumbent.              *)
FinalBoundSound ==
    (outcome = "returned" /\ lower_bound # Main!NoBound) =>
        Main!Sound(lower_bound, incumbent_bins, missed)

(* The call returns or throws.                                             *)
SolveTerminates == <>(outcome \in {"returned", "threw"})
=============================================================================

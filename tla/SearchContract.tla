--------------------------- MODULE SearchContract ---------------------------
(***************************************************************************)
(* What solve_branch_and_price promises its caller, whatever the node      *)
(* strategy (include/bpp/branch_and_price.hpp): the incumbent is always a  *)
(* packing and only ever improves; an answer that says optimal carries an  *)
(* optimal incumbent and a lower bound equal to it; any other answer       *)
(* carries no lower bound, or one that is certified or does not exceed an  *)
(* incumbent that is itself optimal.                                       *)
(*                                                                         *)
(* All of it but for the packings of nodes that were closed for want of a  *)
(* fractional pair although they had better ones than the incumbent.  The  *)
(* code keeps no record of them; missed does, a history variable.          *)
(***************************************************************************)
EXTENDS Packing

VARIABLES status,          \* "running", "answered" or "threw"
          incumbent_bins,  \* BranchAndPriceResult::incumbent_bins
          optimal,         \* BranchAndPriceResult::optimal
          lower_bound,     \* ceil_bins() of the result's lower_bound
          missed           \* the bin counts, below the incumbent's, of the
                           \* packings that an answer leaves out of account

vars == <<status, incumbent_bins, optimal, lower_bound, missed>>

NoBound == -1

(* No packing has fewer than n bins, but for those left out.               *)
Holds(n, sizes) == \A P \in Packings : Bins(P) < n => Bins(P) \in sizes

(* The smaller of a reported bound and the incumbent bounds every packing. *)
Sound(bound, bins, sizes) == Holds(bound, sizes) \/ Holds(bins, sizes)

Init ==
    /\ status = "running"
    /\ incumbent_bins \in PackingSizes
    /\ optimal = FALSE
    /\ lower_bound = NoBound
    /\ missed = {}

Better ==
    /\ status = "running"
    /\ \E n \in PackingSizes : n < incumbent_bins /\ incumbent_bins' = n
    /\ UNCHANGED <<status, optimal, lower_bound, missed>>

AnswerOptimal ==
    /\ status = "running"
    /\ \E n \in PackingSizes :
        /\ n =< incumbent_bins
        /\ incumbent_bins' = n
        /\ lower_bound' = n
    /\ missed' \in SUBSET {n \in PackingSizes : n < incumbent_bins'}
    /\ Holds(incumbent_bins', missed')
    /\ optimal' = TRUE
    /\ status' = "answered"

AnswerPartial ==
    /\ status = "running"
    /\ \E n \in PackingSizes, bound \in {NoBound} \cup (1..Cardinality(Items)) :
        /\ n =< incumbent_bins
        /\ incumbent_bins' = n
        /\ lower_bound' = bound
    /\ missed' \in SUBSET {n \in PackingSizes : n < incumbent_bins'}
    /\ lower_bound' # NoBound => Sound(lower_bound', incumbent_bins', missed')
    /\ optimal' = FALSE
    /\ status' = "answered"

Throw ==
    /\ status = "running"
    /\ status' = "threw"
    /\ UNCHANGED <<incumbent_bins, optimal, lower_bound, missed>>

Next == Better \/ AnswerOptimal \/ AnswerPartial \/ Throw

Spec == Init /\ [][Next]_vars
=============================================================================

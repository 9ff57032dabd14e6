------------------------------ MODULE SafeMip ------------------------------
(***************************************************************************)
(* Column generation with the certification that ends it at the root       *)
(* (try_safe_mip_certification, src/master/column_generation.cpp).  When   *)
(* Algorithm 1 leaves a gap, populate_root_columns prices once more, with  *)
(* a bin so cheap that every column that could be in a better packing is   *)
(* wanted, and a search over the columns it added (restricted_branch_and_  *)
(* bound) or over the whole pool (the MIP solver) looks for that packing.  *)
(* If there is none, the incumbent is declared optimal.                    *)
(*                                                                         *)
(* The LP and MIP solvers are external.  In the search, an LP is found     *)
(* infeasible only if no integral cover is left, and otherwise answers     *)
(* with such a cover or with any fractional pair of the columns left.      *)
(***************************************************************************)
EXTENDS Algorithm1

CONSTANTS populate_max_columns,
          kMaxRounds,               \* 5 in the code
          kMaxRestrictedNodes       \* 2000 in the code

ASSUME SafeMipAssumption ==
    {populate_max_columns, kMaxRounds, kMaxRestrictedNodes} \subseteq Nat \ {0}

VARIABLES generic,          \* options.mip_certification_via_generic_solver
          mip_round,
          populated,        \* the columns the last populate pass added
          eligible,         \* the columns not fixed at zero
          target_bins,      \* the right-hand side of the row on their count
          stack,            \* one frame for each branching in progress
          nodes_used,
          ok,               \* what the last call of the search returned
          mip_certified,
          mip_pc            \* "idle", "option", "populate", "search", "node",
                            \* "return", "end" or "thrown"

search == <<eligible, target_bins, stack, nodes_used, ok>>
mip == <<generic, mip_round, populated, search, mip_certified, mip_pc>>

MipInit ==
    /\ Init
    /\ generic = FALSE
    /\ mip_round = 0
    /\ populated = {}
    /\ eligible = {}
    /\ target_bins = 0
    /\ stack = <<>>
    /\ nodes_used = 0
    /\ ok = FALSE
    /\ mip_certified = FALSE
    /\ mip_pc = "idle"

(* Only at the root; options.populate asks for a populate pass before.     *)
Start ==
    /\ mip_pc = "idle"
    /\ pc = "done"
    /\ branching = {}
    /\ mip_pc' \in {"option", "populate"}
    /\ generic' \in BOOLEAN
    /\ UNCHANGED <<vars, mip_round, populated, search, mip_certified>>
-----------------------------------------------------------------------------
(* The label-setting program without cuts, for patterns worth target or    *)
(* more: its rounds over the elements, in order.                           *)
Scan(u, order, target, frontier, k) ==
    LET e == order[k]
        can(S, from) == Reaches(u, order, from, Capacity - Load[S], Worth(u, S), target)
        kept == {l \in frontier.labels : can(l.items, k)}
        new == {[items |-> l.items \cup e, value |-> l.value + Worth(u, e)] :
                   l \in {l \in kept : MayJoin({}, e, l.items) /\ can(l.items \cup e, k + 1)}}
        merged == {l \in kept \cup new : ~Dominated(l, kept, new)}
    IN  [labels |-> merged,
         found |-> frontier.found \cup {l.items : l \in {l \in new \cap merged : l.value >= target}}]

Enumerated(u, target) ==
    LET order == ByRatio(u, Worthwhile(u, {}))
        frontier[k \in 0..Len(order)] ==
            IF k = 0 THEN [labels |-> {[items |-> {}, value |-> 0]}, found |-> {}]
                     ELSE Scan(u, order, target, frontier[k - 1], k)
    IN  frontier[Len(order)].found

(* The columns worth most, if there are too many.                          *)
Foremost(u, p, found) ==
    {K \in SUBSET found :
        /\ Cardinality(K) = Min({populate_max_columns, Cardinality(found)})
        /\ \A R \in K, S \in found \ K : DualValue(u, p, R) >= DualValue(u, p, S)}

(* With cuts, a best column of every key is found, of others some: those   *)
(* reached before their key had a better one.  (So far as there are not    *)
(* more than 500 labels, from where on dominated ones go as well.)         *)
SameState(p, R, S) ==
    Load[R] = Load[S] /\ \A T \in DOMAIN p : Cardinality(T \cap R) % 2 = Cardinality(T \cap S) % 2

FoundWithCuts(u, p, target) ==
    LET worth(S) == DualValue(u, p, S)
        wanted == {S \in (SUBSET {i \in Items : u[i] > 0}) \cap Patterns : worth(S) >= target}
        beaten == {S \in wanted : \E R \in wanted : SameState(p, R, S) /\ worth(R) > worth(S)}
    IN  {K \in SUBSET wanted :
            /\ \A S \in wanted \ K : S \in beaten \/ \E R \in K \ beaten : SameState(p, R, S)
            /\ \A R, S \in K \ beaten : R # S => ~SameState(p, R, S)}

Enumerations(u, p, target) ==
    UNION {Foremost(u, p, K) : K \in IF DOMAIN p = {} THEN {Enumerated(u, target)}
                                     ELSE FoundWithCuts(u, p, target)}

(* A column is wanted if its reduced cost is less than the gap to one bin  *)
(* fewer than the incumbent.                                               *)
Gap(objective) == Max({Unit * (incumbent_bins - 1) - objective, 0})

(* populate_root_columns.  A threshold that is not positive is refused by  *)
(* the pricer, whose exception nobody catches.                             *)
PopulateColumns(K) ==
    /\ pool' = pool \cup K
    /\ populated' = K \ pool
    /\ IF K \subseteq pool THEN UNCHANGED incumbent_bins
                           ELSE incumbent_bins' \in RoundedIncumbents(pool \cup K)
    /\ mip_pc' = IF mip_pc = "option" THEN "populate"
                 ELSE IF \/ K \subseteq pool /\ mip_round > 0
                         \/ Cardinality(K) >= populate_max_columns THEN "end" ELSE "search"

(* The head of a round: nothing to prove, or nothing to beat.              *)
NothingLeft == mip_round = kMaxRounds \/ safe_bound = incumbent_bins \/ incumbent_bins =< 1

Populate ==
    /\ mip_pc \in {"option", "populate"}
    /\ IF mip_pc = "populate" /\ NothingLeft
       THEN mip_pc' = "end" /\ UNCHANGED <<pool, populated, incumbent_bins>>
       ELSE LET duals == MasterDuals(pool, cuts)
                target == Unit - Gap(Max({Objective(d[1], d[2]) : d \in duals}))
            IN  IF target =< 0
                THEN mip_pc' = "thrown" /\ UNCHANGED <<pool, populated, incumbent_bins>>
                ELSE \E K \in UNION {Enumerations(d[1], d[2], target) : d \in duals} :
                        PopulateColumns(K)
    /\ UNCHANGED <<branching, cuts, phase2, iteration, round, priced_cuts, safe_bound, pc,
                   generic, mip_round, search, mip_certified>>
-----------------------------------------------------------------------------
(* Covers of the items by at most n columns that satisfy the active cuts.  *)
Covers(columns, n) ==
    {C \in UNION {kSubset(k, columns) : k \in 0..n} :
        /\ UNION C = Items
        /\ \A T \in cuts : Cardinality({S \in C : Coefficient(T, S) = 1}) =< 1}

(* round_master_solution keeps a packing; what covers an item twice it     *)
(* repairs, and may need more bins (module Rounding).                      *)
RoundedSizes(covers) ==
    {Cardinality(C) : C \in covers \cap Packings}
        \cup IF covers \subseteq Packings THEN {} ELSE PackingSizes

MipCertify ==
    /\ safe_bound' = incumbent_bins
    /\ mip_certified' = TRUE
    /\ mip_pc' = "end"
    /\ UNCHANGED <<incumbent_bins, mip_round>>

NextRound ==
    /\ mip_round' = mip_round + 1
    /\ mip_pc' = "populate"
    /\ UNCHANGED <<safe_bound, mip_certified>>

(* Mutant: what was inconclusive is tried again.                           *)
TryAgain ==
    /\ mip_pc' = "search"
    /\ UNCHANGED <<incumbent_bins, safe_bound, mip_round, mip_certified>>

GiveUp ==
    /\ mip_pc' = "end"
    /\ UNCHANGED <<incumbent_bins, safe_bound, mip_round, mip_certified>>

NewIncumbent(n) == incumbent_bins' = n /\ NextRound

GenericSearch ==
    LET covers == Covers(pool, incumbent_bins - 1)
    IN  \/ covers = {} /\ MipCertify
        \/ \E n \in RoundedSizes(covers) :
              IF n < incumbent_bins THEN NewIncumbent(n) ELSE GiveUp
        \/ GiveUp                                         \* the time limit

SolveMip ==
    /\ mip_pc = "search"
    /\ generic
    /\ GenericSearch
    /\ UNCHANGED <<branching, pool, cuts, phase2, iteration, round, priced_cuts, pc,
                   generic, populated, search>>

(* Mutant: the older columns are not fixed at zero.                        *)
OldColumnsToo == pool

NewColumnsOnly == populated

(* The row on the count is added once, for the incumbent of that moment.   *)
StartSearch ==
    /\ mip_pc = "search"
    /\ ~generic
    /\ eligible' = NewColumnsOnly
    /\ target_bins' = incumbent_bins - 1
    /\ nodes_used' = 0
    /\ mip_pc' = IF populated = {} THEN "end" ELSE "node"
    /\ UNCHANGED <<vars, generic, mip_round, populated, stack, ok, mip_certified>>
-----------------------------------------------------------------------------
Frame(p, relation) ==
    [pair |-> p, relation |-> relation,
     newly_ineligible |-> {S \in eligible : ~ConstraintAccepts([pair |-> p, relation |-> relation], S)}]

Push(frames, f) ==
    /\ stack' = Append(frames, f)
    /\ eligible' = eligible \ f.newly_ineligible
    /\ mip_pc' = "node"

Answer(result) ==
    /\ ok' = result
    /\ mip_pc' = "return"
    /\ UNCHANGED <<eligible, stack>>

Leaf(n) ==
    IF n >= incumbent_bins
    THEN mip_pc' = "thrown" /\ UNCHANGED <<incumbent_bins, eligible, stack, ok>>
    ELSE incumbent_bins' = n /\ Answer(TRUE)

(* restricted_branch_and_bound_node                                        *)
Explore ==
    LET covers == Covers(eligible, target_bins)
    IN  \/ covers = {} /\ Answer(TRUE) /\ UNCHANGED incumbent_bins
        \/ \E n \in RoundedSizes(covers) : Leaf(n)
        \/ \E p \in Pairs :
              /\ UNION eligible = Items
              /\ \E S \in eligible : Both(p, S)
              /\ Push(stack, Frame(p, "Together"))
              /\ UNCHANGED <<incumbent_bins, ok>>

Node ==
    /\ mip_pc = "node"
    /\ IF nodes_used >= kMaxRestrictedNodes
       THEN Answer(FALSE) /\ UNCHANGED <<incumbent_bins, nodes_used>>
       ELSE nodes_used' = nodes_used + 1 /\ Explore
    /\ UNCHANGED <<branching, pool, cuts, phase2, iteration, round, priced_cuts, safe_bound, pc,
                   generic, mip_round, populated, target_bins, mip_certified>>

(* Mutant: an eligible column stays out if it failed the constraint left.  *)
KeepMasked(f) == eligible

Restored(f) == eligible \cup f.newly_ineligible

(* Mutant: the Different side is left out when the other one is resolved.  *)
LastSide(f) == TRUE

BothSides(f) == f.relation = "Different"

(* A call returns: on to the other side of the pair, or back to the parent.*)
Return ==
    /\ mip_pc = "return"
    /\ stack # <<>>
    /\ LET f == Last(stack)
           restored == Restored(f)
           different == [pair |-> f.pair, relation |-> "Different"]
           rejected == {S \in restored : ~ConstraintAccepts(different, S)}
       IN  IF ok /\ ~BothSides(f)
           THEN /\ stack' = Append(Front(stack), [pair |-> f.pair, relation |-> "Different",
                                                  newly_ineligible |-> rejected])
                /\ eligible' = restored \ rejected
                /\ mip_pc' = "node"
           ELSE stack' = Front(stack) /\ eligible' = restored /\ UNCHANGED mip_pc
    /\ UNCHANGED <<vars, generic, mip_round, populated, target_bins, nodes_used, ok, mip_certified>>

(* The verdict of the search: unresolved, improved, or nothing found.      *)
Conclude ==
    /\ mip_pc = "return"
    /\ stack = <<>>
    /\ IF ~ok THEN GiveUp
       ELSE IF incumbent_bins =< target_bins THEN NextRound /\ UNCHANGED incumbent_bins
       ELSE MipCertify
    /\ UNCHANGED <<branching, pool, cuts, phase2, iteration, round, priced_cuts, pc,
                   generic, populated, search>>
-----------------------------------------------------------------------------
Search == SolveMip \/ StartSearch \/ Node \/ Return \/ Conclude

MipNext == (Generate /\ UNCHANGED mip) \/ Start \/ Populate \/ Search

(* One thread runs it all: a search under way is resumed.                  *)
MipSpec == MipInit /\ [][MipNext]_<<vars, mip>> /\ WF_<<vars, mip>>(Search)
-----------------------------------------------------------------------------
MipTypeOK ==
    /\ TypeOK
    /\ mip_pc \in {"idle", "option", "populate", "search", "node", "return", "end", "thrown"}
    /\ mip_round \in 0..kMaxRounds
    /\ populated \subseteq pool
    /\ mip_pc \in {"node", "return"} => eligible \subseteq populated
    /\ nodes_used \in 0..kMaxRestrictedNodes
    /\ mip_pc # "idle" => pc = "done" /\ branching = {}

(* Wherever the search is, going down or coming back with either answer,   *)
(* the columns that are not fixed at zero are the populated ones that obey *)
(* every constraint of its path: one column that two levels reject is      *)
(* freed by the level that fixed it (newly_ineligible, line 219), and by   *)
(* that level only.                                                        *)
MasksRestored ==
    mip_pc \in {"node", "return"} =>
        eligible = {S \in populated : \A k \in DOMAIN stack : ConstraintAccepts(stack[k], S)}

(* The search is complete over the columns it was given: when it ends      *)
(* without an improvement, no packing that beats the incumbent is made of  *)
(* them.  That the columns it is given are enough is another question, see *)
(* SafeMipCertificateValid.                                                *)
ResolvedMeansExhausted ==
    mip_certified =>
        LET columns == IF generic THEN pool ELSE populated
        IN  \A P \in Packings : P \subseteq columns => incumbent_bins =< Bins(P)

(* A search ends, whatever pairs are fractional and even if a child has    *)
(* all the columns of its parent, which a bonded pair makes possible.      *)
SearchEnds ==
    mip_pc \in {"search", "node", "return"} ~> mip_pc \in {"populate", "end", "thrown"}

(* "a full, self-contained proof that the incumbent is optimal"            *)
(* (column_generation.cpp:116-127): a certified incumbent is an optimum.   *)
SafeMipCertificateValid ==
    mip_certified => \A P \in Packings : safe_bound =< Bins(P)
=============================================================================

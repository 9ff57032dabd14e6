------------------------------ MODULE Rounding ------------------------------
(***************************************************************************)
(* The two heuristics that turn a master solution into an incumbent        *)
(* (src/solver/heuristics.cpp): round_master_solution, which takes columns *)
(* of value at least a half, and dive_master_solution, which takes columns *)
(* of any positive value.  Both scan the columns by decreasing value, keep *)
(* the compatible ones and pack the items left by best-fit decreasing.     *)
(*                                                                         *)
(* Thirds tell apart all that the rules tell apart: no value, less than a  *)
(* half, more than a half, and one.  Where std::sort may leave columns of  *)
(* equal value in any order the scan takes any of them.                    *)
(***************************************************************************)
EXTENDS RestrictedMaster, Sequences

Rules == {"round", "dive"}

VARIABLES rule,           \* which heuristic runs
          value,          \* the master's value of each column
          pc,             \* "scan", "repair" or "done"
          unseen,         \* columns the scan has not reached
          chosen,         \* bins taken from the pool
          loose           \* bins opened by best-fit decreasing, in order

vars == <<rule, value, pc, unseen, chosen, loose>>

Init ==
    /\ rule \in Rules
    /\ value \in MasterSolutions
    /\ pc = "scan"
    /\ unseen = Columns
    /\ chosen = {}
    /\ loose = <<>>
-----------------------------------------------------------------------------
InChosen == UNION chosen

InLoose == UNION {loose[k] : k \in DOMAIN loose}

(* Where the scan stops, or what it skips: the columns come by decreasing  *)
(* value, so that both are the same.                                       *)
Counts(c) == IF rule = "round" THEN 2 * value[c] >= One ELSE value[c] > 0

(* Mutant: the columns are sorted the other way round.                     *)
Lightest == {c \in unseen : \A d \in unseen : value[c] =< value[d]}

(* The columns that may be next in the scan.                               *)
Heaviest == {c \in unseen : \A d \in unseen : value[d] =< value[c]}

(* Mutant: the items of a bin are not marked as covered.                   *)
AlwaysCompatible(c) == c \notin chosen

Compatible(c) == c \cap InChosen = {}

Take(c) ==
    /\ Counts(c)
    /\ Compatible(c)
    /\ chosen' = chosen \cup {c}
    /\ unseen' = unseen \ {c}
    /\ UNCHANGED <<pc, loose>>

Skip(c) ==
    /\ Counts(c)
    /\ ~Compatible(c)
    /\ unseen' = unseen \ {c}
    /\ UNCHANGED <<pc, chosen, loose>>

EndScan ==
    /\ \A c \in Heaviest : ~Counts(c)
    /\ pc' = "repair"
    /\ UNCHANGED <<unseen, chosen, loose>>

Scan ==
    /\ pc = "scan"
    /\ (\E c \in Heaviest : Take(c) \/ Skip(c)) \/ EndScan
    /\ UNCHANGED <<rule, value>>
-----------------------------------------------------------------------------
Left == Items \ (InChosen \cup InLoose)

(* weight_order: heavier first, then the smaller index.                    *)
Precedes(i, j) == Weight[i] > Weight[j] \/ (Weight[i] = Weight[j] /\ i < j)

IsFirst(i) == i \in Left /\ \A j \in Left \ {i} : Precedes(i, j)

Slack(k, i) == Capacity - Load[loose[k]] - Weight[i]

(* Mutant: a bin may exceed its capacity by one.                           *)
AlmostFits(i) == {k \in DOMAIN loose : Slack(k, i) >= -1}

(* Mutant: an item never fills a bin exactly.                              *)
FitsLoosely(i) == {k \in DOMAIN loose : Slack(k, i) > 0}

Fits(i) == {k \in DOMAIN loose : Slack(k, i) >= 0}

(* The first of the bins the item leaves the least slack in.               *)
IsBestFit(k, i) ==
    /\ k \in Fits(i)
    /\ \A l \in Fits(i) : Slack(k, i) < Slack(l, i) \/ (Slack(k, i) = Slack(l, i) /\ k =< l)

Place(i) ==
    \E k \in DOMAIN loose :
        /\ IsBestFit(k, i)
        /\ loose' = [loose EXCEPT ![k] = @ \cup {i}]

Open(i) ==
    /\ Fits(i) = {}
    /\ loose' = Append(loose, {i})

PackItem ==
    /\ pc = "repair"
    /\ \E i \in Left : IsFirst(i) /\ (Place(i) \/ Open(i))
    /\ UNCHANGED <<rule, value, pc, unseen, chosen>>

Return ==
    /\ pc = "repair"
    /\ Left = {}
    /\ pc' = "done"
    /\ UNCHANGED <<rule, value, unseen, chosen, loose>>
-----------------------------------------------------------------------------
Next == Scan \/ PackItem \/ Return

Spec == Init /\ [][Next]_vars
-----------------------------------------------------------------------------
(* Every variable has its type.                                            *)
TypeOK ==
    /\ rule \in Rules
    /\ value \in [Columns -> Values]
    /\ pc \in {"scan", "repair", "done"}
    /\ unseen \subseteq Columns
    /\ chosen \subseteq Columns
    /\ loose \in Seq(Patterns)

Support == Used(value)

(* The result is a packing: no item is in two bins, no bin is overloaded   *)
(* and, at the end, no item is left out.  No caller in column generation   *)
(* checks is_valid() (column_generation.cpp:770-779).                      *)
ReturnsPacking ==
    /\ \A c, d \in chosen : c # d => c \cap d = {}
    /\ \A k, l \in DOMAIN loose : k # l => loose[k] \cap loose[l] = {}
    /\ InChosen \cap InLoose = {}
    /\ pc = "done" => InChosen \cup InLoose = Items

(* No two bins of the repair fit into one: the leftovers of the scan need  *)
(* fewer than twice the bins that their weight needs.                      *)
NoTwoBinsMerge ==
    \A k, l \in DOMAIN loose : k # l => Load[loose[k]] + Load[loose[l]] > Capacity

(* When every item is covered once, and has a column worth more than half, *)
(* both heuristics return these columns, whatever small values the others  *)
(* have; an integral solution that covers every item once is returned as   *)
(* it is.  One that covers an item more than once need not be: of columns  *)
(* that share an item only the first is taken, and best-fit decreasing may *)
(* need more bins for the rest (column_generation.cpp:360-364 excludes it).*)
PartitionCaptured ==
    (pc = "done" /\ CoversOnce(value) /\ UNION Heavy(value) = Items) =>
        chosen = Heavy(value) /\ loose = <<>>

(* A column the master takes whole, and that shares no item with another   *)
(* column it uses, is a bin of the result whatever the order of the scan.  *)
IsolatedKept ==
    pc \in {"repair", "done"} =>
        \A c \in Columns :
            (value[c] = One /\ \A d \in Support \ {c} : c \cap d = {}) => c \in chosen
=============================================================================

------------------------------ MODULE Pricing ------------------------------
(***************************************************************************)
(* The pricing problem (src/pricing/floating_root_pricer.cpp): among the   *)
(* patterns a node accepts, find those of negative reduced cost for the    *)
(* duals of the master, one dual u[i] for each item and one dual pi[T] for *)
(* each active subset-row cut.  A cut is the set T of its three items      *)
(* (src/search/sr3.cpp), and DOMAIN pi the set of active cuts.             *)
(*                                                                         *)
(* Duals and the cost of a bin are integers: exactly those of the fixed    *)
(* point pricer, and floating ones whose scale is factored out.  The       *)
(* bound_margin and the 1e-12 of the code absorb the rounding of one       *)
(* division, which is multiplied out here.                                 *)
(***************************************************************************)
EXTENDS Branching, Sequences, FiniteSetsExt, SequencesExt

CONSTANT BinCost

ASSUME BinCostAssumption == BinCost \in Nat \ {0}

Worth(u, S) == SumFunctionOnSet(u, S)

(* Sr3Cut::coefficient                                                     *)
Coefficient(T, S) == IF Cardinality(T \cap S) >= 2 THEN 1 ELSE 0

CutWorth(pi, S) == SumFunctionOnSet([T \in DOMAIN pi |-> pi[T] * Coefficient(T, S)], DOMAIN pi)

(* The dual value of a pattern; its reduced cost is BinCost less this.     *)
DualValue(u, pi, S) == Worth(u, S) + CutWorth(pi, S)

IsImproving(u, pi, S) == DualValue(u, pi, S) > BinCost

(* What pricing promises: some pattern of the node improves, or the best   *)
(* value it can return.                                                    *)
BestValue(u, pi, b) == Max({0} \cup {DualValue(u, pi, S) : S \in AcceptedPatterns(b)})
-----------------------------------------------------------------------------
(* build_branch_groups: items tied by Together constraints are one element,*)
(* with the weight and the dual of all of them.                            *)
Tied(b, S) == \A c \in b : c.relation = "Together" => (c.pair[1] \in S <=> c.pair[2] \in S)

Elements(b) ==
    {S \in (SUBSET Items) \ {{}} :
        Tied(b, S) /\ \A R \in (SUBSET S) \ {{}, S} : ~Tied(b, R)}

Separated(b, S) == \E c \in b : c.relation = "Different" /\ Both(c.pair, S)

(* An element a Different constraint splits can be in no pattern.          *)
Usable(b) == {e \in Elements(b) : ~Separated(b, e) /\ Load[e] =< Capacity}

(* The element conflicts with one of those that S is made of.              *)
Blocked(b, e, S) == Separated(b, S \cup e)

MayJoin(b, e, S) == Load[S] + Load[e] =< Capacity /\ ~Blocked(b, e, S)

(* The order of the items, and of the elements, of every search: at a      *)
(* position is the element with one fewer before it.                       *)
BetterRatio(u, e, f) ==
    LET left == Worth(u, e) * Load[f]
        right == Worth(u, f) * Load[e]
    IN  left > right \/ (left = right /\ Min(e) < Min(f))

ByRatio(u, E) ==
    [k \in 1..Cardinality(E) |->
        CHOOSE e \in E : Cardinality({f \in E : BetterRatio(u, f, e)}) = k - 1]

(* The label-setting programs drop what cannot add to a value.             *)
Worthwhile(u, b) == {e \in Usable(b) : Worth(u, e) > 0}
-----------------------------------------------------------------------------
(* FractionalBoundTable: the elements of order from position on, packed    *)
(* into the capacity left, the first that does not fit cut to size.        *)
Stretch(order, from, to) == UNION {order[k] : k \in from..(to - 1)}

WholeEnd(order, position, room) ==
    Max({to \in position..(Len(order) + 1) : Load[Stretch(order, position, to)] =< room})

(* Mutant: the bound leaves out the element that is cut to size.           *)
ReachesWhole(u, order, position, room, value, target) ==
    value + Worth(u, Stretch(order, position, WholeEnd(order, position, room))) >= target

(* value plus the bound is at least target.                                *)
Reaches(u, order, position, room, value, target) ==
    LET to == WholeEnd(order, position, room)
        whole == Stretch(order, position, to)
        missing == target - value - Worth(u, whole)
    IN  IF to > Len(order) THEN missing =< 0
        ELSE missing * Load[order[to]] =< Worth(u, order[to]) * (room - Load[whole])

(* The optimistic value of what cuts could still add.                      *)
Allowance(pi) == SumFunctionOnSet([T \in DOMAIN pi |-> Max({0, pi[T]})], DOMAIN pi)
-----------------------------------------------------------------------------
(* merge_prune_frontier: a label goes if one of smaller load, or an old    *)
(* one of the same load, is worth as much.                                 *)
Dominated(l, kept, new) ==
    \E m \in kept \cup new :
        /\ m.value >= l.value
        /\ \/ Load[m.items] < Load[l.items]
           \/ m \in kept /\ l \in new /\ Load[m.items] = Load[l.items]
=============================================================================

--------------------------- MODULE PricingOracles ---------------------------
(***************************************************************************)
(* The other pricers of src/pricing/floating_root_pricer.cpp: the dense    *)
(* knapsack, in floating and in fixed point, and the depth-first searches  *)
(* that the tests take for the reference (include/bpp/pricing.hpp:51-58)   *)
(* and that the label-setting programs fall back on.  Each is a function   *)
(* of its inputs.                                                          *)
(***************************************************************************)
EXTENDS Pricing

(* The dense knapsack of price, price_candidates and the fixed-point price:*)
(* best[r] is the best value in a bin of capacity r, take[i] where item i  *)
(* was taken.                                                              *)
EmptyTable == [best |-> [r \in 0..Capacity |-> 0], take |-> [i \in Items |-> {}]]

(* Mutant: capacities are scanned upwards, so an item can be taken twice.  *)
FillUpwards(u, table, i) ==
    LET best[r \in 0..Capacity] ==
            IF r < Weight[i] THEN table.best[r] ELSE Max({table.best[r], best[r - Weight[i]] + u[i]})
    IN  [best |-> best, take |-> [table.take EXCEPT ![i] = {r \in 0..Capacity : best[r] > table.best[r]}]]

Fill(u, table, i) ==
    LET with(r) == table.best[r - Weight[i]] + u[i]
        better == {r \in Weight[i]..Capacity : with(r) > table.best[r]}
    IN  [best |-> [r \in 0..Capacity |-> IF r \in better THEN with(r) ELSE table.best[r]],
         take |-> [table.take EXCEPT ![i] = better]]

Reconstruct(table, sequence, capacity) ==
    FoldRight(LAMBDA i, bin : IF bin.room \in table.take[i]
                              THEN [items |-> bin.items \cup {i}, room |-> bin.room - Weight[i]]
                              ELSE bin,
              sequence, [items |-> {}, room |-> capacity]).items

Knapsack(u, sequence) ==
    FoldLeft(LAMBDA table, i : Fill(u, table, i), EmptyTable, sequence)

Answer(u, sequence) ==
    LET table == Knapsack(u, sequence)
        best_capacity == Min({r \in 0..Capacity : \A s \in 0..Capacity : table.best[s] =< table.best[r]})
    IN  [value |-> table.best[best_capacity], items |-> Reconstruct(table, sequence, best_capacity)]

RootOrder(u) ==
    LET order == ByRatio(u, Worthwhile(u, {}))
    IN  [k \in DOMAIN order |-> CHOOSE i \in order[k] : TRUE]

(* FloatingRootPricer::price at the root                                   *)
DensePrice(u) == Answer(u, RootOrder(u))

(* FixedPointRootPricer::price, which screens no item and does not sort.   *)
FixedPrice(u) == Answer(u, SetToSortSeq(Items, <))

(* price_candidates before it is cut to max_candidates: one pattern for    *)
(* each used capacity whose best value improves.                           *)
DenseCandidates(u) ==
    LET order == RootOrder(u)
        table == Knapsack(u, order)
    IN  {Reconstruct(table, order, r) : r \in {r \in 1..Capacity : table.best[r] > BinCost}}
-----------------------------------------------------------------------------
(* The depth-first oracles.  S is a union of elements without a conflict.  *)
(* Each oracle bounds a node by the unblocked elements ahead; Rest is what *)
(* it keeps of them.                                                       *)
Ahead(order, position) == SubSeq(order, position, Len(order))

(* A node is explored if its bound, which may be a fraction, exceeds the   *)
(* best value.                                                             *)
Promising(u, rest, room, value, best) ==
    LET to == WholeEnd(rest, 1, room)
        whole == Stretch(rest, 1, to)
        missing == best - value - Worth(u, whole)
    IN  IF to > Len(rest) THEN missing < 0
        ELSE missing * Load[rest[to]] < Worth(u, rest[to]) * (room - Load[whole])

(* price_with_sr3 and price_with_branching_and_sr3: every node's own value *)
(* counts, and the bound skips what does not add to it.                    *)
RECURSIVE CutSearch(_, _, _, _, _, _, _)
CutSearch(u, pi, b, order, position, S, best) ==
    LET found == IF DualValue(u, pi, S) > DualValue(u, pi, best) THEN S ELSE best
        rest == SelectSeq(Ahead(order, position), LAMBDA e : ~Blocked(b, e, S) /\ Worth(u, e) > 0)
        value == Worth(u, S) + Allowance(pi)
        e == order[position]
        with == IF MayJoin(b, e, S)
                THEN CutSearch(u, pi, b, order, position + 1, S \cup e, found) ELSE found
    IN  IF position > Len(order) \/ ~Promising(u, rest, Capacity - Load[S], value, DualValue(u, pi, found))
        THEN found
        ELSE CutSearch(u, pi, b, order, position + 1, S, with)

CutPrice(u, pi, b) == CutSearch(u, pi, b, ByRatio(u, Usable(b)), 1, {}, {})

(* price with branching: only leaves count, and the bound adds up every    *)
(* element that is not blocked, of whatever value.                         *)
RECURSIVE BranchSearch(_, _, _, _, _, _)
BranchSearch(u, b, order, position, S, best) ==
    LET rest == SelectSeq(Ahead(order, position), LAMBDA e : ~Blocked(b, e, S))
        e == order[position]
        with == IF MayJoin(b, e, S)
                THEN BranchSearch(u, b, order, position + 1, S \cup e, best) ELSE best
    IN  IF position > Len(order) THEN IF Worth(u, S) > Worth(u, best) THEN S ELSE best
        ELSE IF ~Promising(u, rest, Capacity - Load[S], Worth(u, S), Worth(u, best)) THEN best
        ELSE BranchSearch(u, b, order, position + 1, S, with)

BranchPrice(u, b) == BranchSearch(u, b, ByRatio(u, Usable(b)), 1, {}, {})
(* The oracle each pair of arguments is handed to.                         *)
Oracle(u, pi, b) ==
    IF DOMAIN pi # {} THEN CutPrice(u, pi, b)
    ELSE IF b # {} THEN BranchPrice(u, b)
    ELSE DensePrice(u).items
=============================================================================

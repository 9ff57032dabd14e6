---------------------------- MODULE LabelSetting ----------------------------
(***************************************************************************)
(* The label-setting dynamic programs that price columns                   *)
(* (src/pricing/floating_root_pricer.cpp): price_label_setting, used       *)
(* without cuts and branching, price_label_setting_with_sr3, used with     *)
(* cuts at the root, and price_label_setting_with_branching_and_sr3.  They *)
(* scan the elements in one order and extend every partial pattern they    *)
(* keep, a label, by the element scanned.                                  *)
(*                                                                         *)
(* A label is the set of its items, its value and the parity bit of each   *)
(* cut, both kept up to date as elements are added.  Its load and its      *)
(* conflict mask are functions of its items.  The hash maps of the code    *)
(* are iterated in no order a reader could rely on, so labels are extended *)
(* in any order, one step each.                                            *)
(***************************************************************************)
EXTENDS Pricing

CONSTANTS DualVectors,      \* the item duals the master may answer with
          CutDuals,         \* the cuts that may be active, with their duals
          Nodes,            \* the branching states of the nodes priced
          max_candidates    \* patterns returned by one call, at most

(* An SR3 row has an upper bound in a minimisation, so its dual is never   *)
(* positive.                                                               *)
ASSUME LabelSettingAssumption ==
    /\ DualVectors \subseteq [Items -> Int]
    /\ \A p \in CutDuals : p \in [DOMAIN p -> Int]
    /\ \A p \in CutDuals : \A T \in DOMAIN p : T \in SUBSET Items /\ Cardinality(T) = 3 /\ p[T] =< 0
    /\ Nodes \subseteq BranchingStates
    /\ max_candidates \in Nat \ {0}

VARIABLES u, pi, branching, \* the arguments of the call
          order,            \* the elements by decreasing ratio
          position,         \* the element scanned
          labels,           \* the frontier, or the map of labels
          pending,          \* the labels of the snapshot not yet extended
          candidates,       \* the improving patterns kept
          pc                \* "prune", "extend" or "done"

arguments == <<u, pi, branching, order>>
vars == <<arguments, position, labels, pending, candidates, pc>>

Empty == [items |-> {}, value |-> 0, primed |-> {}]

Init ==
    /\ u \in DualVectors
    /\ pi \in CutDuals
    /\ branching \in Nodes
    /\ order = ByRatio(u, Worthwhile(u, branching))
    /\ position = 1
    /\ labels = {Empty}
    /\ pending = {}
    /\ candidates = {}
    /\ pc = "prune"

Element == order[position]

PositiveCutBound == Allowance(pi)

(* The label can still grow into an improving pattern: the test keeps a    *)
(* label that would only reach BinCost.                                    *)
CanImprove(items, value, from) ==
    Reaches(u, order, from, Capacity - Load[items], value + PositiveCutBound, BinCost)

Survivors == {l \in labels : CanImprove(l.items, l.value, position)}

(* Mutant: an element toggles the bit of a cut once, whatever it holds.    *)
TogglesOnce(T, e) == IF T \cap e = {} THEN 0 ELSE 1

(* How many times the element toggles the parity bit of the cut.           *)
Toggles(T, e) == Cardinality(T \cap e)

(* The cut's dual is charged at a change of its bit from 1 to 0.           *)
Charged(l, T) == (Toggles(T, Element) + IF T \in l.primed THEN 1 ELSE 0) \div 2

Primed(l) ==
    {T \in DOMAIN pi : (T \in l.primed) # (Toggles(T, Element) % 2 = 1)}

Extend(l) ==
    [items |-> l.items \cup Element,
     value |-> l.value + Worth(u, Element)
                 + SumFunctionOnSet([T \in DOMAIN pi |-> pi[T] * Charged(l, T)], DOMAIN pi),
     primed |-> Primed(l)]

(* Mutant: conflicts with the elements of the label are not tested.        *)
FitsOnly(l) ==
    /\ Load[l.items] + Load[Element] =< Capacity
    /\ CanImprove(l.items \cup Element, l.value + Worth(u, Element), position + 1)

(* The bound is tested before the cuts are charged.                        *)
Extensible(l) ==
    /\ MayJoin(branching, Element, l.items)
    /\ CanImprove(l.items \cup Element, l.value + Worth(u, Element), position + 1)
-----------------------------------------------------------------------------
(* consider(): the candidates are the best of the improving labels seen,   *)
(* ties at the cut broken either way.                                      *)
Best(C) ==
    {K \in SUBSET C :
        /\ Cardinality(K) = Min({Cardinality(C), max_candidates})
        /\ \A c \in K, d \in C \ K : c.value >= d.value}

Consider(new) ==
    candidates' \in Best(candidates \cup {l \in new : l.value > BinCost})

(* One round of price_label_setting.                                       *)
FrontierRound ==
    LET new == {Extend(l) : l \in {l \in Survivors : Extensible(l)}}
        merged == {l \in Survivors \cup new : ~Dominated(l, Survivors, new)}
    IN  /\ labels' = merged
        /\ Consider(new \cap merged)
        /\ position' = position + 1
        /\ UNCHANGED <<arguments, pending, pc>>
-----------------------------------------------------------------------------
(* Mutant: the charge that the better label still has to expect is ignored.*)
NoMargin(l, m) == 0

(* sr3_dominance_margin: what the primed cuts could still cost l and not m.*)
Margin(l, m) ==
    SumFunctionOnSet([T \in DOMAIN pi |->
        IF pi[T] < 0 /\ T \in l.primed \ m.primed THEN -pi[T]
        ELSE IF pi[T] > 0 /\ T \in m.primed \ l.primed THEN pi[T] ELSE 0], DOMAIN pi)

Dominates(l, m) ==
    /\ l # m
    /\ Load[l.items] =< Load[m.items]
    /\ l.value >= m.value + Margin(l, m)

(* prune_dominated_sr3_labels: some labels that a remaining one dominates  *)
(* go.  Which ones depends on the threshold of 500 labels, on the window   *)
(* of 8 and on how the sort leaves labels of equal load: here, any.        *)
Sweeps(L) ==
    {K \in SUBSET L : \A m \in L \ K : \E l \in K : Dominates(l, m)}

(* The start of a round of the two programs with cuts or branching.        *)
StartRound ==
    /\ \E K \in IF branching = {} THEN Sweeps(Survivors) ELSE {Survivors} :
          labels' = K /\ pending' = K
    /\ pc' = "extend"
    /\ UNCHANGED <<arguments, position, candidates>>

(* The elements of a label that have a conflict, by their items that a     *)
(* Different constraint names.                                             *)
ConflictMask(l) ==
    {i \in l.items : \E c \in branching : c.relation = "Different" /\ i \in {c.pair[1], c.pair[2]}}

(* Mutant: the parity of the cuts is left out of the key.                  *)
SameLoad(l, m) == Load[l.items] = Load[m.items] /\ ConflictMask(l) = ConflictMask(m)

(* pack_key, BranchKey                                                     *)
SameKey(l, m) ==
    /\ Load[l.items] = Load[m.items]
    /\ l.primed = m.primed
    /\ ConflictMask(l) = ConflictMask(m)

Insert(l) ==
    LET rivals == {m \in labels : SameKey(m, l)}
    IN  IF \E m \in rivals : m.value >= l.value THEN UNCHANGED <<labels, candidates>>
        ELSE labels' = (labels \ rivals) \cup {l} /\ Consider({l})

ExtendLabel ==
    /\ pc = "extend"
    /\ \E l \in pending :
          /\ pending' = pending \ {l}
          /\ IF Extensible(l) THEN Insert(Extend(l)) ELSE UNCHANGED <<labels, candidates>>
    /\ UNCHANGED <<arguments, position, pc>>

EndRound ==
    /\ pc = "extend"
    /\ pending = {}
    /\ position' = position + 1
    /\ pc' = "prune"
    /\ UNCHANGED <<arguments, labels, pending, candidates>>

Round ==
    /\ pc = "prune"
    /\ position =< Len(order)
    /\ Survivors # {}
    /\ IF DOMAIN pi = {} /\ branching = {} THEN FrontierRound ELSE StartRound

Return ==
    /\ pc = "prune"
    /\ position > Len(order) \/ Survivors = {}
    /\ pc' = "done"
    /\ UNCHANGED <<arguments, position, labels, pending, candidates>>

Next == Round \/ ExtendLabel \/ EndRound \/ Return

Spec == Init /\ [][Next]_vars
-----------------------------------------------------------------------------
(* Every label holds whole elements and fits, and no two labels that wait  *)
(* to be extended share a key.                                             *)
TypeOK ==
    /\ pc \in {"prune", "extend", "done"}
    /\ position \in 1..(Len(order) + 1)
    /\ \A l \in labels \cup pending : Tied(branching, l.items) /\ Load[l.items] =< Capacity
    /\ \A l, m \in pending : l # m => ~SameKey(l, m)

(* The value a label carries is the dual value of its items, and a bit is  *)
(* set just where an odd number of the items of the cut is in.  The charge *)
(* at every second toggle replaces the recount of the depth-first oracle.  *)
LabelsPriced ==
    \A l \in labels \cup pending :
        /\ l.value = DualValue(u, pi, l.items)
        /\ l.primed = {T \in DOMAIN pi : Cardinality(T \cap l.items) % 2 = 1}

(* Each candidate is a pattern that the node accepts, so that the          *)
(* logic_error of line 1052 is never thrown, and improves by what it says. *)
CandidatesSound ==
    \A c \in candidates :
        /\ c.items \in AcceptedPatterns(branching)
        /\ c.value = DualValue(u, pi, c.items)
        /\ c.value > BinCost

(* Pricing is exact: no bound, dominance or equal key drops the last label *)
(* that leads to the best pattern.  An empty answer certifies that no      *)
(* pattern of the node improves, which is what stops column generation,    *)
(* and the first of the candidates has the least reduced cost, which is    *)
(* what the safe bound divides by.                                         *)
PricedExactly ==
    pc = "done" =>
        LET best == BestValue(u, pi, branching)
        IN  IF best > BinCost THEN \E c \in candidates : c.value = best ELSE candidates = {}
=============================================================================

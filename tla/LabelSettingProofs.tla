------------------------- MODULE LabelSettingProofs -------------------------
(***************************************************************************)
(* Proofs of LabelSetting, for every instance, every duals, cuts and node, *)
(* and every order in which the labels are extended.                       *)
(***************************************************************************)
EXTENDS LabelSetting, PricingProofs

(* The label of a partial pattern.                                         *)
LabelOf(S) ==
    [items |-> S,
     value |-> DualValue(u, pi, S),
     primed |-> {T \in DOMAIN pi : Cardinality(T \cap S) % 2 = 1}]

(* What is still to be scanned, from a position on.                        *)
Ahead(k) == Stretch(order, k, Len(order) + 1)

(* The partial patterns that a label may stand for before a position is    *)
(* scanned.                                                                *)
Partial(k) ==
    {S \in SUBSET Items : /\ Tied(branching, S) /\ ~Separated(branching, S)
                          /\ Load[S] =< Capacity
                          /\ S \cap Ahead(k) = {}}

LabelsBefore(k) == {LabelOf(S) : S \in Partial(k)}

Unscanned == IF pc = "extend" THEN position + 1 ELSE position

IsFrontier == DOMAIN pi = {} /\ branching = {}

DistinctKeys(L) == \A l, m \in L : l # m => ~SameKey(l, m)

Arguments ==
    /\ u \in DualVectors
    /\ pi \in CutDuals
    /\ branching \in Nodes
    /\ order = ByRatio(u, Worthwhile(u, branching))

(* Nothing that improves is kept without a candidate as good.              *)
Considered == \A l \in labels : l.value > BinCost => \E c \in candidates : c.value >= l.value

LabelInv ==
    /\ Arguments
    /\ pc \in {"prune", "extend", "done"}
    /\ position \in 1..(Len(order) + 1)
    /\ pc = "extend" => position =< Len(order) /\ ~IsFrontier
    /\ labels \subseteq LabelsBefore(Unscanned)
    /\ pending \subseteq LabelsBefore(position)
    /\ pc # "extend" => pending = {}
    /\ ~IsFrontier => DistinctKeys(labels)
    /\ DistinctKeys(pending)
    /\ candidates \subseteq {LabelOf(S) : S \in AcceptedPatterns(branching)}
    /\ \A c \in candidates : c.value > BinCost
    /\ Considered

(* The rest completes the label to a pattern of the best value.            *)
Completes(l, R) ==
    /\ Tied(branching, R)
    /\ l.items \cup R \in AcceptedPatterns(branching)
    /\ DualValue(u, pi, l.items \cup R) >= BestValue(u, pi, branching)

Hope ==
    \/ \E l \in labels, R \in SUBSET Ahead(Unscanned) : Completes(l, R)
    \/ /\ pc = "extend"
       /\ \E l \in pending, R \in SUBSET Ahead(position) : Element \subseteq R /\ Completes(l, R)

ExactInv ==
    /\ LabelInv
    /\ BestValue(u, pi, branching) > BinCost => Hope
-----------------------------------------------------------------------------
(* What the arguments of a call are.                                       *)
LEMMA ArgumentsFacts ==
  ASSUME Arguments
  PROVE  /\ \A i \in Items : u[i] \in Int
         /\ CutDual(pi)
         /\ branching \in BranchingStates
         /\ Apart(Worthwhile(u, branching)) /\ IsFiniteSet(Worthwhile(u, branching))
         /\ Ranked(u, Worthwhile(u, branching), order)
         /\ Len(order) \in Nat
<1>1. u \in [Items -> Int]
  BY LabelSettingAssumption DEF Arguments
<1>2. CutDual(pi)
  BY LabelSettingAssumption DEF Arguments, CutDual
<1>3. branching \in BranchingStates
  BY LabelSettingAssumption DEF Arguments
<1>4. Apart(Worthwhile(u, branching)) /\ IsFiniteSet(Worthwhile(u, branching))
  BY WorthwhileFacts
<1>5. order = ByRatio(u, Worthwhile(u, branching))
  BY DEF Arguments
<1>6. \A i \in Items : u[i] \in Int
  BY <1>1
<1>7. Ranked(u, Worthwhile(u, branching), order)
  BY <1>4, <1>5, <1>6, ByRatioFacts
<1>8. order \in Seq(Worthwhile(u, branching))
  BY <1>7 DEF Ranked
<1>9. Len(order) \in Nat
  BY <1>8
<1> QED
  BY <1>2, <1>3, <1>4, <1>6, <1>7, <1>9

(* The element scanned next, and those after it.                           *)
LEMMA AheadFacts ==
  ASSUME Arguments, NEW k \in 1..Len(order)
  PROVE  /\ order[k] \in Worthwhile(u, branching)
         /\ Ahead(k) \in SUBSET Items /\ Ahead(k + 1) \in SUBSET Items
         /\ Ahead(k) = order[k] \cup Ahead(k + 1)
         /\ order[k] \cap Ahead(k + 1) = {}
<1> DEFINE E == Worthwhile(u, branching)
           n == Len(order)
           end == n + 1
           next == k + 1
<1>1. /\ Apart(E) /\ order \in Seq(E) /\ n \in Nat
      /\ \A i, j \in 1..n : i # j => order[i] # order[j]
  BY ArgumentsFacts DEF Ranked
<1>2. /\ k \in 1..(n + 1) /\ next \in 1..(n + 1)
      /\ end \in k..(n + 1) /\ end \in next..(n + 1)
      /\ next..(end - 1) = next..n /\ k..(end - 1) = {k} \cup next..n
      /\ k \notin next..(end - 1)
  BY <1>1
<1> HIDE DEF E, end, next
<1>3. Stretch(order, k, end) \in SUBSET Items
  BY <1>1, <1>2, StretchFacts
<1>4. /\ Stretch(order, next, end) \in SUBSET Items
      /\ order[k] \in E
      /\ order[k] \cap Stretch(order, next, end) = {}
  BY <1>1, <1>2, StretchFacts
<1>5. Stretch(order, k, end) = order[k] \cup Stretch(order, next, end)
  BY <1>2 DEF Stretch
<1> QED
  BY <1>3, <1>4, <1>5 DEF Ahead, E, end, next

LEMMA AheadEnds ==
  ASSUME Arguments
  PROVE  Ahead(Len(order) + 1) = {}
<1>1. Len(order) \in Nat
  BY ArgumentsFacts
<1>2. (Len(order) + 1)..((Len(order) + 1) - 1) = {}
  BY <1>1
<1> QED
  BY <1>2 DEF Ahead, Stretch

(* The elements not scanned are not split by a set that ties them.         *)
LEMMA LabelFacts ==
  ASSUME NEW k, NEW l \in LabelsBefore(k)
  PROVE  /\ l.items \in SUBSET Items /\ l = LabelOf(l.items)
         /\ Tied(branching, l.items) /\ ~Separated(branching, l.items)
         /\ Load[l.items] =< Capacity /\ l.items \cap Ahead(k) = {}
         /\ l.value = DualValue(u, pi, l.items)
         /\ l.primed = {T \in DOMAIN pi : Cardinality(T \cap l.items) % 2 = 1}
<1>1. PICK S \in Partial(k) : l = LabelOf(S)
  BY DEF LabelsBefore
<1>2. /\ l.items = S /\ l.value = DualValue(u, pi, S)
      /\ l.primed = {T \in DOMAIN pi : Cardinality(T \cap S) % 2 = 1}
  BY <1>1 DEF LabelOf
<1> QED
  BY <1>1, <1>2 DEF Partial

LEMMA LabelsOnward ==
  ASSUME Arguments, NEW k \in 1..Len(order)
  PROVE  LabelsBefore(k) \subseteq LabelsBefore(k + 1)
<1>1. Partial(k) \subseteq Partial(k + 1)
  BY AheadFacts DEF Partial
<1> QED
  BY <1>1 DEF LabelsBefore

AllLabels == {LabelOf(S) : S \in SUBSET Items}

LEMMA AllLabelsFacts ==
  ASSUME Arguments
  PROVE  /\ IsFiniteSet(AllLabels)
         /\ \A l \in AllLabels : l.value \in Int
         /\ \A k : LabelsBefore(k) \subseteq AllLabels
<1> DEFINE label == [S \in SUBSET Items |-> LabelOf(S)]
<1>1. label \in Surjection(SUBSET Items, AllLabels)
  BY DEF Surjection, AllLabels
<1>2. IsFiniteSet(SUBSET Items)
  BY ItemsFacts, FS_SUBSET
<1>3. IsFiniteSet(AllLabels)
  <2> HIDE DEF label
  <2> QED
    BY <1>1, <1>2, FS_Surjection
<1>4. \A S \in SUBSET Items : DualValue(u, pi, S) \in Int
  BY ArgumentsFacts, DualValueType
<1>5. \A l \in AllLabels : l.value \in Int
  BY <1>4 DEF AllLabels, LabelOf
<1>6. \A k : LabelsBefore(k) \subseteq AllLabels
  BY DEF LabelsBefore, Partial, AllLabels
<1> QED
  BY <1>3, <1>5, <1>6

(* A label extended is the label of its items with the element's.          *)
LEMMA ExtendFacts ==
  ASSUME Arguments, position \in 1..Len(order), NEW l \in LabelsBefore(position), Extensible(l)
  PROVE  /\ Extend(l) \in LabelsBefore(position + 1)
         /\ Extend(l) = LabelOf(l.items \cup Element)
<1> DEFINE S == l.items
           e == Element
<1>1. /\ S \in SUBSET Items /\ l = LabelOf(S) /\ Tied(branching, S)
      /\ S \cap Ahead(position) = {} /\ l.value = DualValue(u, pi, S)
      /\ l.primed = {T \in DOMAIN pi : Cardinality(T \cap S) % 2 = 1}
  BY LabelFacts
<1>2. /\ e \in Worthwhile(u, branching)
      /\ Ahead(position) = e \cup Ahead(position + 1) /\ e \cap Ahead(position + 1) = {}
      /\ Ahead(position) \in SUBSET Items
  BY AheadFacts DEF Element
<1>3. e \in SUBSET Items /\ S \cap e = {} /\ Tied(branching, e)
  BY <1>1, <1>2, WorthwhileFacts
<1>4. (\A i \in Items : u[i] \in Int) /\ CutDual(pi)
  BY ArgumentsFacts
<1> HIDE DEF S, e
<1>5. \A T \in DOMAIN pi : /\ IsFiniteSet(T) /\ Cardinality(T) = 3
                           /\ Cardinality(T \cap S) \in Nat
  BY <1>4, ItemsFacts, FS_Subset, FS_CardinalityType DEF CutDual
<1>6. ASSUME NEW T \in DOMAIN pi
      PROVE  /\ Charged(l, T) = Gain(T, S, e)
             /\ ((T \in l.primed) # (Toggles(T, e) % 2 = 1)) <=>
                    Cardinality(T \cap (S \cup e)) % 2 = 1
  <2>1. T \in l.primed <=> Cardinality(T \cap S) % 2 = 1
    BY <1>1
  <2>2. (IF T \in l.primed THEN 1 ELSE 0) = Cardinality(T \cap S) % 2
    <3> DEFINE n == Cardinality(T \cap S)
    <3>1. n \in Nat
      BY <1>5
    <3>2. T \in l.primed <=> n % 2 = 1
      BY <2>1
    <3> HIDE DEF n
    <3>3. n % 2 \in {0, 1}
      BY <3>1
    <3>4. (IF T \in l.primed THEN 1 ELSE 0) = n % 2
      BY <3>2, <3>3
    <3> QED
      BY <3>4 DEF n
  <2>3. Charged(l, T) = (Cardinality(T \cap e) + IF T \in l.primed THEN 1 ELSE 0) \div 2
    BY DEF Charged, Toggles, e
  <2>4. Cardinality(T \cap (S \cup e)) % 2 = 1 <=>
            ~(Cardinality(T \cap S) % 2 = 1 <=> Cardinality(T \cap e) % 2 = 1)
    <3> DEFINE a == Cardinality(T \cap S)
               c == Cardinality(T \cap e)
               all == Cardinality(T \cap (S \cup e))
    <3>1. IsFiniteSet(T) /\ Cardinality(T) = 3
      BY <1>5
    <3>2. a \in Nat /\ c \in Nat /\ all = a + c /\ all =< 3
      <4>1. /\ Cardinality(T \cap S) \in Nat /\ Cardinality(T \cap e) \in Nat
            /\ Cardinality(T \cap (S \cup e)) =
                   Cardinality(T \cap S) + Cardinality(T \cap e)
            /\ Cardinality(T \cap (S \cup e)) =< Cardinality(T)
        BY <1>3, <3>1, SharesAdd
      <4> QED
        BY <3>1, <4>1
    <3> HIDE DEF a, c, all
    <3>3. (a + c) % 2 = 1 <=> ~(a % 2 = 1 <=> c % 2 = 1)
      BY <3>2, Halves
    <3>4. all % 2 = 1 <=> ~(a % 2 = 1 <=> c % 2 = 1)
      BY <3>2, <3>3
    <3> QED
      BY <3>4 DEF a, c, all
  <2> QED
    BY <2>1, <2>2, <2>3, <2>4 DEF Gain, Toggles
<1>7. [T \in DOMAIN pi |-> pi[T] * Charged(l, T)] = Gains(pi, S, e)
  BY <1>6 DEF Gains
<1>8. DualValue(u, pi, S \cup e) =
          DualValue(u, pi, S) + Worth(u, e) + SumFunctionOnSet(Gains(pi, S, e), DOMAIN pi)
  BY <1>1, <1>3, <1>4, DualValueAdds
<1>9. Extend(l) = LabelOf(S \cup e)
  <2>1. Primed(l) = {T \in DOMAIN pi : Cardinality(T \cap (S \cup e)) % 2 = 1}
    BY <1>6 DEF Primed, e
  <2>2. Extend(l) = [items |-> S \cup e,
                     value |-> DualValue(u, pi, S) + Worth(u, e)
                                 + SumFunctionOnSet(Gains(pi, S, e), DOMAIN pi),
                     primed |-> Primed(l)]
    BY <1>1, <1>7 DEF Extend, S, e
  <2> QED
    BY <1>8, <2>1, <2>2 DEF LabelOf
<1>10. S \cup e \in Partial(position + 1)
  <2>1. Tied(branching, S \cup e)
    BY <1>1, <1>3, TiedFacts
  <2>2. Load[S \cup e] =< Capacity /\ ~Separated(branching, S \cup e)
    <3>1. Load[S] + Load[e] =< Capacity /\ ~Separated(branching, S \cup e)
      BY DEF Extensible, MayJoin, Blocked, S, e
    <3>2. Load[S \cup e] = Load[S] + Load[e]
      BY <1>1, <1>3, LoadAdds
    <3> QED
      BY <3>1, <3>2
  <2>3. (S \cup e) \cap Ahead(position + 1) = {} /\ S \cup e \in SUBSET Items
    BY <1>1, <1>2, <1>3
  <2> QED
    BY <2>1, <2>2, <2>3 DEF Partial
<1> QED
  BY <1>9, <1>10 DEF LabelsBefore, S, e
-----------------------------------------------------------------------------
LEMMA Stays ==
  ASSUME UNCHANGED arguments
  PROVE  /\ Arguments => Arguments'
         /\ u' = u /\ pi' = pi /\ branching' = branching /\ order' = order
         /\ \A k : LabelsBefore(k)' = LabelsBefore(k) /\ Ahead(k)' = Ahead(k)
         /\ \A S : LabelOf(S)' = LabelOf(S)
         /\ \A L : DistinctKeys(L)' <=> DistinctKeys(L)
         /\ IsFrontier' <=> IsFrontier
         /\ \A l, R : Completes(l, R)' <=> Completes(l, R)
<1>1. u' = u /\ pi' = pi /\ branching' = branching /\ order' = order
  BY DEF arguments
<1>2. Arguments => Arguments'
  BY <1>1 DEF Arguments
<1>3. \A k : LabelsBefore(k)' = LabelsBefore(k)
  BY <1>1 DEF LabelsBefore, LabelOf, Partial, Ahead
<1>4. \A S : LabelOf(S)' = LabelOf(S)
  BY <1>1 DEF LabelOf
<1>5. \A L : DistinctKeys(L)' <=> DistinctKeys(L)
  BY <1>1 DEF DistinctKeys, SameKey, ConflictMask
<1>6. IsFrontier' <=> IsFrontier
  BY <1>1 DEF IsFrontier
<1>7. \A k : Ahead(k)' = Ahead(k)
  BY <1>1 DEF Ahead
<1>8. \A l, R : Completes(l, R)' <=> Completes(l, R)
  BY <1>1 DEF Completes
<1> QED
  BY <1>1, <1>2, <1>3, <1>4, <1>5, <1>6, <1>7, <1>8

(* Whatever is left out of the best, one that is kept is worth as much.    *)
LEMMA BestKeeps ==
  ASSUME NEW C, IsFiniteSet(C), \A c \in C : c.value \in Int, NEW K \in Best(C)
  PROVE  K \subseteq C /\ \A c \in C : \E d \in K : d.value >= c.value
<1>1. /\ K \subseteq C
      /\ Cardinality(K) = Min({Cardinality(C), max_candidates})
      /\ \A c \in K, d \in C \ K : c.value >= d.value
  BY DEF Best
<1>2. ASSUME NEW c \in C PROVE K # {}
  <2>1. Cardinality(C) \in Nat /\ max_candidates \in Nat \ {0}
    BY FS_CardinalityType, LabelSettingAssumption
  <2>2. Cardinality(C) # 0
    BY <1>2, FS_EmptySet
  <2>3. Min({Cardinality(C), max_candidates}) \in {Cardinality(C), max_candidates}
    <3>1. Cardinality(C) \in Int /\ max_candidates \in Int
      BY <2>1
    <3> QED
      BY <3>1, MinOfTwo
  <2>4. Cardinality(K) # 0
    BY <1>1, <2>1, <2>2, <2>3
  <2> QED
    BY <2>4, FS_EmptySet
<1>3. ASSUME NEW c \in C PROVE \E d \in K : d.value >= c.value
  <2>1. CASE c \in K
    <3>1. c.value >= c.value
      OBVIOUS
    <3> QED
      BY <2>1, <3>1
  <2>2. CASE c \notin K
    BY <1>1, <1>2, <2>2
  <2> QED
    BY <2>1, <2>2
<1> QED
  BY <1>1, <1>3

(* The candidates after new labels are considered.                         *)
LEMMA ConsiderFacts ==
  ASSUME LabelInv, UNCHANGED arguments, NEW k, NEW new \in SUBSET LabelsBefore(k), Consider(new)
  PROVE  /\ candidates' \subseteq {LabelOf(S) : S \in AcceptedPatterns(branching)}
         /\ \A c \in candidates' : c.value > BinCost
         /\ \A l \in labels \cup new : l.value > BinCost =>
               \E c \in candidates' : c.value >= l.value
<1> DEFINE improving == {l \in new : l.value > BinCost}
           C == candidates \cup improving
           sound == {LabelOf(S) : S \in AcceptedPatterns(branching)}
<1>1. /\ Arguments /\ candidates \subseteq sound
      /\ \A c \in candidates : c.value > BinCost
      /\ \A l \in labels : l.value > BinCost => \E c \in candidates : c.value >= l.value
  BY DEF LabelInv, Considered
<1>2. ASSUME NEW l \in improving PROVE l \in sound
  <2>1. /\ l.items \in SUBSET Items /\ l = LabelOf(l.items)
        /\ Tied(branching, l.items) /\ ~Separated(branching, l.items)
        /\ Load[l.items] =< Capacity /\ l.value = DualValue(u, pi, l.items)
    BY LabelFacts
  <2>2. l.items # {}
    <3>1. DualValue(u, pi, {}) = 0
      BY <1>1, ArgumentsFacts, DualValueOfNone
    <3>2. l.value > BinCost
      OBVIOUS
    <3> QED
      BY <2>1, <3>1, <3>2, BinCostAssumption
  <2>3. Accepts(branching, l.items)
    BY <1>1, <2>1, ArgumentsFacts, AcceptsFacts
  <2>4. l.items \in AcceptedPatterns(branching)
    BY <2>1, <2>2, <2>3 DEF AcceptedPatterns, Patterns
  <2> QED
    BY <2>1, <2>4
<1>3. C \subseteq sound /\ \A c \in C : c.value > BinCost
  BY <1>1, <1>2
<1>4. IsFiniteSet(C) /\ \A c \in C : c.value \in Int
  <2>1. sound \subseteq AllLabels
    BY DEF AllLabels, AcceptedPatterns, Patterns
  <2>2. C \in SUBSET AllLabels
    BY <1>3, <2>1
  <2> HIDE DEF C
  <2> QED
    BY <1>1, <2>2, AllLabelsFacts, FS_Subset
<1>5. candidates' \in Best(C)
  BY DEF Consider
<1> HIDE DEF C
<1>6. candidates' \subseteq C /\ \A c \in C : \E d \in candidates' : d.value >= c.value
  BY <1>4, <1>5, BestKeeps
<1>7. ASSUME NEW l \in labels \cup new, l.value > BinCost
      PROVE  \E c \in candidates' : c.value >= l.value
  <2>1. l.value \in Int
    <3>1. labels \cup new \subseteq AllLabels
      BY <1>1, AllLabelsFacts DEF LabelInv
    <3> QED
      BY <1>1, <3>1, AllLabelsFacts
  <2>2. PICK c \in C : c.value >= l.value
    <3>1. CASE l \in labels
      BY <1>1, <1>7, <3>1 DEF C
    <3>2. CASE l \in new
      <4>1. l \in C /\ l.value >= l.value
        BY <1>7, <2>1, <3>2 DEF C
      <4> QED
        BY <4>1
    <3> QED
      BY <3>1, <3>2
  <2>3. PICK d \in candidates' : d.value >= c.value
    BY <1>6, <2>2
  <2>4. d.value \in Int /\ c.value \in Int
    BY <1>4, <1>6, <2>2, <2>3
  <2> QED
    BY <2>1, <2>2, <2>3, <2>4
<1>8. \A c \in candidates' : c \in sound /\ c.value > BinCost
  BY <1>3, <1>6 DEF C
<1> QED
  BY <1>7, <1>8
-----------------------------------------------------------------------------
LEMMA LabelInit == Init => LabelInv
<1> SUFFICES ASSUME Init PROVE LabelInv
  OBVIOUS
<1>1. /\ Arguments /\ position = 1 /\ labels = {Empty} /\ pending = {}
      /\ candidates = {} /\ pc = "prune"
  BY DEF Init, Arguments
<1>2. /\ CutDual(pi) /\ Len(order) \in Nat
  BY <1>1, ArgumentsFacts
<1>3. Empty = LabelOf({})
  <2>1. DualValue(u, pi, {}) = 0
    BY <1>2, DualValueOfNone
  <2>2. {T \in DOMAIN pi : Cardinality(T \cap {}) % 2 = 1} = {}
    <3>1. \A T : T \cap {} = {}
      OBVIOUS
    <3>2. Cardinality({}) % 2 = 0
      BY FS_EmptySet
    <3> QED
      BY <3>1, <3>2
  <2> QED
    BY <2>1, <2>2 DEF Empty, LabelOf
<1>4. {} \in Partial(position)
  <2>1. Tied(branching, {}) /\ ~Separated(branching, {})
    BY DEF Tied, Separated, Both
  <2>2. Load[{}] =< Capacity
    <3>1. Load[{}] = 0
      BY LoadFacts
    <3> QED
      BY <3>1, InstanceAssumption
  <2> QED
    BY <2>1, <2>2 DEF Partial
<1>5. labels \subseteq LabelsBefore(Unscanned) /\ pending \subseteq LabelsBefore(position)
  BY <1>1, <1>3, <1>4 DEF LabelsBefore, Unscanned
<1>6. position \in 1..(Len(order) + 1)
  BY <1>1, <1>2
<1>7. DistinctKeys(labels) /\ DistinctKeys(pending)
  BY <1>1 DEF DistinctKeys
<1>8. Considered
  BY <1>1, BinCostAssumption DEF Considered, Empty
<1> QED
  BY <1>1, <1>5, <1>6, <1>7, <1>8 DEF LabelInv

(* The frontier is merged with the labels extended.                        *)
LEMMA FrontierKeeps ==
  ASSUME LabelInv, pc = "prune", position =< Len(order), IsFrontier, FrontierRound
  PROVE  LabelInv'
<1> DEFINE new == {Extend(l) : l \in {l \in Survivors : Extensible(l)}}
           merged == {l \in Survivors \cup new : ~Dominated(l, Survivors, new)}
<1>1. /\ labels' = merged /\ Consider(new \cap merged) /\ position' = position + 1
      /\ UNCHANGED <<arguments, pending, pc>>
  BY DEF FrontierRound
<1>2. /\ Arguments /\ position \in 1..Len(order) /\ Len(order) \in Nat /\ pending = {}
      /\ labels \subseteq LabelsBefore(position)
      /\ Survivors \subseteq labels
  BY ArgumentsFacts DEF LabelInv, Unscanned, Survivors
<1>3. new \subseteq LabelsBefore(position + 1)
  BY <1>2, ExtendFacts
<1>4. merged \subseteq LabelsBefore(position + 1)
  BY <1>2, <1>3, LabelsOnward
<1> HIDE DEF new, merged
<1>5. /\ Arguments' /\ IsFrontier' /\ order' = order /\ branching' = branching
      /\ \A k : LabelsBefore(k)' = LabelsBefore(k)
      /\ \A S : LabelOf(S)' = LabelOf(S)
  BY <1>1, <1>2, Stays
<1>6. /\ candidates' \subseteq {LabelOf(S) : S \in AcceptedPatterns(branching)}
      /\ \A c \in candidates' : c.value > BinCost
      /\ \A l \in labels \cup (new \cap merged) : l.value > BinCost =>
            \E c \in candidates' : c.value >= l.value
  <2>1. new \cap merged \in SUBSET LabelsBefore(position + 1) /\ UNCHANGED arguments
    BY <1>1, <1>3
  <2> QED
    BY <1>1, <2>1, ConsiderFacts
<1>7. Considered'
  <2>1. labels' \subseteq labels \cup (new \cap merged)
    BY <1>1, <1>2 DEF merged
  <2> QED
    BY <1>6, <2>1 DEF Considered
<1>8. labels' \subseteq LabelsBefore(Unscanned)'
  <2>1. Unscanned' = position + 1
    BY <1>1 DEF Unscanned
  <2> QED
    BY <1>1, <1>4, <1>5, <2>1
<1>9. candidates' \subseteq {LabelOf(S)' : S \in AcceptedPatterns(branching')}
  BY <1>5, <1>6
<1>10. position' \in 1..(Len(order') + 1) /\ pc' = "prune" /\ pending' = {}
  BY <1>1, <1>2, <1>5
<1>11. pending' \subseteq LabelsBefore(position)' /\ DistinctKeys(pending)'
  BY <1>10 DEF DistinctKeys
<1> QED
  BY <1>5, <1>6, <1>7, <1>8, <1>9, <1>10, <1>11 DEF LabelInv

LEMMA StartRoundKeeps ==
  ASSUME LabelInv, pc = "prune", position =< Len(order), ~IsFrontier, StartRound
  PROVE  LabelInv'
<1>1. PICK K : /\ K \subseteq Survivors /\ labels' = K /\ pending' = K /\ pc' = "extend"
               /\ UNCHANGED <<arguments, position, candidates>>
  BY DEF StartRound, Sweeps
<1>2. /\ Arguments /\ position \in 1..Len(order) /\ Len(order) \in Nat
      /\ K \subseteq labels /\ labels \subseteq LabelsBefore(position)
      /\ DistinctKeys(labels)
  BY <1>1, ArgumentsFacts DEF LabelInv, Unscanned, Survivors
<1>3. /\ Arguments' /\ ~IsFrontier' /\ order' = order /\ branching' = branching
      /\ position' = position /\ candidates' = candidates
      /\ \A k : LabelsBefore(k)' = LabelsBefore(k)
      /\ \A S : LabelOf(S)' = LabelOf(S)
      /\ \A L : DistinctKeys(L)' <=> DistinctKeys(L)
  BY <1>1, <1>2, Stays
<1>4. labels' \subseteq LabelsBefore(Unscanned)'
  <2>1. Unscanned' = position + 1
    BY <1>1 DEF Unscanned
  <2> QED
    BY <1>1, <1>2, <1>3, <2>1, LabelsOnward
<1>5. pending' \subseteq LabelsBefore(position)'
  BY <1>1, <1>2, <1>3
<1>6. DistinctKeys(labels)' /\ DistinctKeys(pending)'
  <2>1. DistinctKeys(K)
    BY <1>2 DEF DistinctKeys
  <2>2. DistinctKeys(K)'
    BY <1>3, <2>1
  <2> QED
    BY <1>1, <2>2 DEF DistinctKeys, SameKey, ConflictMask
<1>7. Considered'
  BY <1>1, <1>2, <1>3 DEF LabelInv, Considered
<1>8. /\ candidates' \subseteq {LabelOf(S)' : S \in AcceptedPatterns(branching')}
      /\ \A c \in candidates' : c.value > BinCost
  BY <1>3 DEF LabelInv
<1>9. position' \in 1..(Len(order') + 1) /\ position' =< Len(order')
  BY <1>2, <1>3
<1> QED
  BY <1>1, <1>3, <1>4, <1>5, <1>6, <1>7, <1>8, <1>9 DEF LabelInv

(* A label extended takes the place of those of its key that it beats.     *)
LEMMA InsertKeeps ==
  ASSUME LabelInv, UNCHANGED <<arguments, position, pc>>, ~IsFrontier,
         NEW x \in LabelsBefore(Unscanned), Insert(x)
  PROVE  /\ labels' \subseteq LabelsBefore(Unscanned)
         /\ DistinctKeys(labels')
         /\ candidates' \subseteq {LabelOf(S) : S \in AcceptedPatterns(branching)}
         /\ \A c \in candidates' : c.value > BinCost
         /\ Considered'
<1> DEFINE rivals == {m \in labels : SameKey(m, x)}
<1>1. /\ labels \subseteq LabelsBefore(Unscanned) /\ DistinctKeys(labels)
      /\ candidates \subseteq {LabelOf(S) : S \in AcceptedPatterns(branching)}
      /\ \A c \in candidates : c.value > BinCost
      /\ Considered
  BY DEF LabelInv
<1>2. CASE \E m \in rivals : m.value >= x.value
  <2>1. labels' = labels /\ candidates' = candidates
    BY <1>2 DEF Insert
  <2> QED
    BY <1>1, <2>1 DEF Considered
<1>3. CASE ~\E m \in rivals : m.value >= x.value
  <2>1. labels' = (labels \ rivals) \cup {x} /\ Consider({x})
    BY <1>3 DEF Insert
  <2>2. labels' \subseteq LabelsBefore(Unscanned)
    BY <1>1, <2>1
  <2>3. DistinctKeys(labels')
    BY <1>1, <2>1 DEF DistinctKeys, SameKey
  <2>4. {x} \in SUBSET LabelsBefore(Unscanned) /\ UNCHANGED arguments
    OBVIOUS
  <2>5. /\ candidates' \subseteq {LabelOf(S) : S \in AcceptedPatterns(branching)}
        /\ \A c \in candidates' : c.value > BinCost
        /\ \A l \in labels \cup {x} : l.value > BinCost =>
              \E c \in candidates' : c.value >= l.value
    BY <2>1, <2>4, ConsiderFacts
  <2>6. Considered'
    BY <2>1, <2>5 DEF Considered
  <2> QED
    BY <2>2, <2>3, <2>5, <2>6
<1> QED
  BY <1>2, <1>3

LEMMA ExtendKeeps ==
  ASSUME LabelInv, ExtendLabel
  PROVE  LabelInv'
<1>1. /\ pc = "extend" /\ UNCHANGED <<arguments, position, pc>>
      /\ \E l \in pending :
            /\ pending' = pending \ {l}
            /\ IF Extensible(l) THEN Insert(Extend(l)) ELSE UNCHANGED <<labels, candidates>>
  BY DEF ExtendLabel
<1>2. PICK l \in pending :
            /\ pending' = pending \ {l}
            /\ IF Extensible(l) THEN Insert(Extend(l)) ELSE UNCHANGED <<labels, candidates>>
  BY <1>1
<1>3. /\ Arguments /\ position \in 1..Len(order) /\ Len(order) \in Nat /\ ~IsFrontier
      /\ labels \subseteq LabelsBefore(Unscanned) /\ Unscanned = position + 1
      /\ pending \subseteq LabelsBefore(position)
      /\ DistinctKeys(labels) /\ DistinctKeys(pending)
  BY <1>1, ArgumentsFacts DEF LabelInv, Unscanned
<1>4. /\ labels' \subseteq LabelsBefore(Unscanned)
      /\ DistinctKeys(labels')
      /\ candidates' \subseteq {LabelOf(S) : S \in AcceptedPatterns(branching)}
      /\ \A c \in candidates' : c.value > BinCost
      /\ Considered'
  <2>1. CASE Extensible(l)
    <3>1. Extend(l) \in LabelsBefore(Unscanned)
      BY <1>3, <2>1, ExtendFacts
    <3>2. Insert(Extend(l))
      BY <1>2, <2>1
    <3> QED
      BY <1>1, <1>3, <3>1, <3>2, InsertKeeps
  <2>2. CASE ~Extensible(l)
    <3>1. labels' = labels /\ candidates' = candidates
      BY <1>2, <2>2
    <3> QED
      BY <1>3, <3>1 DEF LabelInv, Considered
  <2> QED
    BY <2>1, <2>2
<1>5. /\ Arguments' /\ ~IsFrontier' /\ order' = order /\ branching' = branching
      /\ position' = position /\ pc' = pc
      /\ \A k : LabelsBefore(k)' = LabelsBefore(k)
      /\ \A S : LabelOf(S)' = LabelOf(S)
  BY <1>1, <1>3, Stays
<1>6. labels' \subseteq LabelsBefore(Unscanned)'
  <2>1. Unscanned' = Unscanned
    BY <1>5 DEF Unscanned
  <2> QED
    BY <1>4, <1>5, <2>1
<1>7. pending' \subseteq LabelsBefore(position)'
  BY <1>2, <1>3, <1>5
<1>8. DistinctKeys(labels)' /\ DistinctKeys(pending)'
  <2>1. DistinctKeys(pending')
    BY <1>2, <1>3 DEF DistinctKeys
  <2> QED
    BY <1>1, <1>4, <2>1 DEF DistinctKeys, SameKey, ConflictMask, arguments
<1>9. candidates' \subseteq {LabelOf(S)' : S \in AcceptedPatterns(branching')}
  BY <1>4, <1>5
<1>10. position' \in 1..(Len(order') + 1) /\ position' =< Len(order') /\ pc' = "extend"
  BY <1>1, <1>3, <1>5
<1> QED
  BY <1>4, <1>5, <1>6, <1>7, <1>8, <1>9, <1>10 DEF LabelInv

LEMMA EndRoundKeeps ==
  ASSUME LabelInv, EndRound
  PROVE  LabelInv'
<1>1. /\ pc = "extend" /\ pending = {} /\ position' = position + 1 /\ pc' = "prune"
      /\ UNCHANGED <<arguments, labels, pending, candidates>>
  BY DEF EndRound
<1>2. /\ Arguments /\ position \in 1..Len(order) /\ Len(order) \in Nat /\ ~IsFrontier
      /\ Unscanned = position + 1 /\ Unscanned' = position + 1
  BY <1>1, ArgumentsFacts DEF LabelInv, Unscanned
<1>3. /\ Arguments' /\ ~IsFrontier' /\ order' = order /\ branching' = branching
      /\ labels' = labels /\ pending' = pending /\ candidates' = candidates
      /\ \A k : LabelsBefore(k)' = LabelsBefore(k)
      /\ \A S : LabelOf(S)' = LabelOf(S)
      /\ \A L : DistinctKeys(L)' <=> DistinctKeys(L)
  BY <1>1, <1>2, Stays
<1>4. labels' \subseteq LabelsBefore(Unscanned)' /\ pending' \subseteq LabelsBefore(position)'
  BY <1>1, <1>2, <1>3 DEF LabelInv
<1>5. DistinctKeys(labels)' /\ DistinctKeys(pending)'
  BY <1>1, <1>2 DEF LabelInv, DistinctKeys, SameKey, ConflictMask, arguments
<1>6. Considered'
  BY <1>3 DEF LabelInv, Considered
<1>7. /\ candidates' \subseteq {LabelOf(S)' : S \in AcceptedPatterns(branching')}
      /\ \A c \in candidates' : c.value > BinCost
  BY <1>3 DEF LabelInv
<1>8. position' \in 1..(Len(order') + 1)
  BY <1>1, <1>2, <1>3
<1> QED
  BY <1>1, <1>3, <1>4, <1>5, <1>6, <1>7, <1>8 DEF LabelInv

LEMMA ReturnKeeps ==
  ASSUME LabelInv, Return
  PROVE  LabelInv'
<1>1. /\ pc = "prune" /\ pc' = "done"
      /\ UNCHANGED <<arguments, position, labels, pending, candidates>>
  BY DEF Return
<1>2. Arguments /\ Unscanned = position /\ Unscanned' = position
  BY <1>1 DEF LabelInv, Unscanned
<1>3. /\ Arguments' /\ IsFrontier' = IsFrontier /\ order' = order /\ branching' = branching
      /\ labels' = labels /\ pending' = pending /\ candidates' = candidates
      /\ \A k : LabelsBefore(k)' = LabelsBefore(k)
      /\ \A S : LabelOf(S)' = LabelOf(S)
  BY <1>1, <1>2, Stays DEF IsFrontier
<1>4. labels' \subseteq LabelsBefore(Unscanned)' /\ pending' \subseteq LabelsBefore(position)'
  BY <1>1, <1>2, <1>3 DEF LabelInv
<1>5. (~IsFrontier' => DistinctKeys(labels)') /\ DistinctKeys(pending)'
  BY <1>1, <1>3 DEF LabelInv, DistinctKeys, SameKey, ConflictMask, arguments
<1>6. Considered'
  BY <1>3 DEF LabelInv, Considered
<1>7. /\ candidates' \subseteq {LabelOf(S)' : S \in AcceptedPatterns(branching')}
      /\ \A c \in candidates' : c.value > BinCost
  BY <1>3 DEF LabelInv
<1>8. position' \in 1..(Len(order') + 1) /\ pending' = {}
  BY <1>1, <1>3 DEF LabelInv
<1> QED
  BY <1>1, <1>3, <1>4, <1>5, <1>6, <1>7, <1>8 DEF LabelInv

LEMMA LabelStep == LabelInv /\ [Next]_vars => LabelInv'
<1> SUFFICES ASSUME LabelInv, [Next]_vars PROVE LabelInv'
  OBVIOUS
<1>1. CASE Round
  <2>1. pc = "prune" /\ position =< Len(order)
    BY <1>1 DEF Round
  <2>2. CASE IsFrontier
    BY <1>1, <2>1, <2>2, FrontierKeeps DEF Round, IsFrontier
  <2>3. CASE ~IsFrontier
    BY <1>1, <2>1, <2>3, StartRoundKeeps DEF Round, IsFrontier
  <2> QED
    BY <2>2, <2>3
<1>2. CASE UNCHANGED vars
  <2>1. /\ UNCHANGED arguments /\ position' = position /\ pc' = pc
        /\ labels' = labels /\ pending' = pending /\ candidates' = candidates
    BY <1>2 DEF vars
  <2>2. Arguments' /\ IsFrontier' = IsFrontier /\ order' = order /\ branching' = branching
    BY <2>1, Stays DEF LabelInv, IsFrontier
  <2>3. /\ \A k : LabelsBefore(k)' = LabelsBefore(k)
        /\ \A S : LabelOf(S)' = LabelOf(S)
    BY <2>1, Stays
  <2>4. labels' \subseteq LabelsBefore(Unscanned)' /\ pending' \subseteq LabelsBefore(position)'
    <3>1. Unscanned' = Unscanned
      BY <2>1 DEF Unscanned
    <3> QED
      BY <2>1, <2>3, <3>1 DEF LabelInv
  <2>5. (~IsFrontier' => DistinctKeys(labels)') /\ DistinctKeys(pending)'
    BY <2>1, <2>2 DEF LabelInv, DistinctKeys, SameKey, ConflictMask, arguments
  <2>6. Considered'
    BY <2>1 DEF LabelInv, Considered
  <2>7. /\ candidates' \subseteq {LabelOf(S)' : S \in AcceptedPatterns(branching')}
        /\ \A c \in candidates' : c.value > BinCost
    BY <2>1, <2>2, <2>3 DEF LabelInv
  <2>8. /\ position' \in 1..(Len(order') + 1) /\ pc' \in {"prune", "extend", "done"}
        /\ pc' = "extend" => position' =< Len(order') /\ ~IsFrontier'
        /\ pc' # "extend" => pending' = {}
    BY <2>1, <2>2 DEF LabelInv
  <2> QED
    BY <2>2, <2>4, <2>5, <2>6, <2>7, <2>8 DEF LabelInv
<1> QED
  BY <1>1, <1>2, ExtendKeeps, EndRoundKeeps, ReturnKeeps DEF Next

LEMMA LabelInvariant == Spec => []LabelInv
<1> QED
  BY LabelInit, LabelStep, PTL DEF Spec

(* Every label holds whole elements and fits, and labels that wait to be   *)
(* extended differ in their key, at every node and for every dual.         *)
THEOREM LabelTypeCorrect == Spec => []TypeOK
<1>1. LabelInv => TypeOK
  BY LabelFacts DEF LabelInv, TypeOK, DistinctKeys
<1> QED
  BY <1>1, LabelInvariant, PTL

(* The value a label carries, updated at every second toggle of a cut's    *)
(* bit, is what a recount of its items would give.                         *)
THEOREM LabelsPricedCorrect == Spec => []LabelsPriced
<1>1. LabelInv => LabelsPriced
  BY LabelFacts DEF LabelInv, LabelsPriced
<1> QED
  BY <1>1, LabelInvariant, PTL

(* What pricing returns are patterns the node accepts, each worth what it  *)
(* says and more than a bin costs: the check of line 1052 never throws.    *)
THEOREM CandidatesAreSound == Spec => []CandidatesSound
<1>1. LabelInv => CandidatesSound
  BY DEF LabelInv, CandidatesSound, LabelOf
<1> QED
  BY <1>1, LabelInvariant, PTL
-----------------------------------------------------------------------------
(* Cuts add nothing to a value, so that the bound has no allowance to make.*)
LEMMA NoAllowance ==
  ASSUME Arguments
  PROVE  PositiveCutBound = 0
<1> DEFINE D == DOMAIN pi
           terms == [T \in D |-> Max({0, pi[T]})]
<1>1. CutDual(pi) /\ \A T \in D : pi[T] \in Int /\ pi[T] =< 0
  BY ArgumentsFacts DEF CutDual
<1>2. IsFiniteSet(D)
  BY <1>1, ItemsFacts, FS_SUBSET, FS_Subset DEF CutDual
<1>3. ASSUME NEW T \in D PROVE Max({0, pi[T]}) = 0
  <2> DEFINE both == {0} \cup {pi[T]}
  <2>1. both \in SUBSET Int /\ IsFiniteSet(both) /\ 0 \in both
    <3>1. IsFiniteSet({0}) /\ IsFiniteSet({pi[T]})
      BY FS_Singleton
    <3>2. IsFiniteSet(both)
      BY <3>1, FS_Union
    <3>3. both \in SUBSET Int
      BY <1>1
    <3> QED
      BY <3>2, <3>3
  <2>2. \A x \in both : x =< 0
    BY <1>1
  <2>3. both = {0, pi[T]}
    OBVIOUS
  <2> HIDE DEF both
  <2>4. Max(both) \in both /\ \A x \in both : x =< Max(both)
    <3>1. both # {}
      BY <2>1
    <3> QED
      BY <2>1, <3>1, MaxExists
  <2>5. Max(both) = 0
    <3>1. Max(both) \in Int /\ Max(both) =< 0 /\ 0 =< Max(both)
      BY <2>1, <2>2, <2>4
    <3> QED
      BY <3>1
  <2> QED
    BY <2>3, <2>5
<1>4. \A T \in D : terms[T] = 0
  BY <1>3
<1>5. PositiveCutBound = SumFunctionOnSet(terms, D)
  BY DEF PositiveCutBound, Allowance
<1> HIDE DEF terms
<1>6. SumFunctionOnSet(terms, D) = 0 * Cardinality(D)
  BY <1>2, <1>4, SumConstant
<1> QED
  BY <1>2, <1>5, <1>6, FS_CardinalityType

(* The bound keeps a partial pattern that items ahead make worth a bin.    *)
LEMMA BoundKeeps ==
  ASSUME Arguments, NEW k \in 1..(Len(order) + 1),
         NEW S \in SUBSET Items, NEW R \in SUBSET Ahead(k), R \in SUBSET Items,
         Tied(branching, R), Load[S] + Load[R] =< Capacity,
         NEW value \in Int, value + Worth(u, R) >= BinCost
  PROVE  CanImprove(S, value, k)
<1> DEFINE E == Worthwhile(u, branching)
           room == Capacity - Load[S]
<1>1. /\ \A i \in Items : u[i] \in Int
      /\ Apart(E) /\ IsFiniteSet(E) /\ Ranked(u, E, order)
  BY ArgumentsFacts
<1>2. /\ \A e \in E : Worth(u, e) > 0
      /\ WholeIn(E, R)
  BY WorthwhileFacts, ElementWhole DEF WholeIn
<1>3. room \in Nat /\ Load[R] =< room
  <2>1. Load[S] \in Nat /\ Load[R] \in Nat /\ Capacity \in Nat
    BY LoadFacts, InstanceAssumption
  <2> QED
    BY <2>1
<1>4. value + PositiveCutBound = value
  BY NoAllowance
<1>5. R \in SUBSET Stretch(order, k, Len(order) + 1)
  BY DEF Ahead
<1>6. BinCost \in Int
  BY BinCostAssumption
<1> HIDE DEF E, room
<1>7. Reaches(u, order, k, room, value, BinCost)
  BY <1>1, <1>2, <1>3, <1>5, <1>6, BoundIsSound
<1> QED
  BY <1>4, <1>7 DEF CanImprove, room

(* A label and what completes it.                                          *)
LEMMA CompletesFacts ==
  ASSUME Arguments, NEW k \in 1..(Len(order) + 1), NEW l \in LabelsBefore(k),
         NEW R \in SUBSET Ahead(k), Completes(l, R), BestValue(u, pi, branching) > BinCost
  PROVE  /\ R \in SUBSET Items /\ l.items \in SUBSET Items /\ l.items \cap R = {}
         /\ Tied(branching, R) /\ ~Separated(branching, l.items \cup R)
         /\ Load[l.items] + Load[R] =< Capacity
         /\ DualValue(u, pi, l.items \cup R) > BinCost
         /\ l.value + Worth(u, R) > BinCost
         /\ l.value \in Int /\ Worth(u, R) \in Int
<1>1. /\ l.items \in SUBSET Items /\ l.items \cap Ahead(k) = {}
      /\ l.value = DualValue(u, pi, l.items)
  BY LabelFacts
<1>2. /\ Tied(branching, R) /\ l.items \cup R \in AcceptedPatterns(branching)
      /\ DualValue(u, pi, l.items \cup R) >= BestValue(u, pi, branching)
  BY DEF Completes
<1>3. /\ l.items \cup R \in SUBSET Items /\ Load[l.items \cup R] =< Capacity
      /\ Accepts(branching, l.items \cup R)
  BY <1>2 DEF AcceptedPatterns, Patterns
<1>4. R \in SUBSET Items /\ l.items \cap R = {}
  BY <1>1, <1>3
<1>5. /\ \A i \in Items : u[i] \in Int
      /\ CutDual(pi) /\ branching \in BranchingStates
  BY ArgumentsFacts
<1>6. ~Separated(branching, l.items \cup R)
  BY <1>3, <1>5, AcceptsFacts
<1>7. Load[l.items] + Load[R] =< Capacity
  BY <1>1, <1>3, <1>4, LoadAdds
<1>8. /\ DualValue(u, pi, l.items \cup R) =< l.value + Worth(u, R)
      /\ l.value \in Int /\ Worth(u, R) \in Int
  <2>1. DualValue(u, pi, l.items \cup R) =< DualValue(u, pi, l.items) + Worth(u, R)
    BY <1>1, <1>4, <1>5, CutsOnlyCost
  <2>2. DualValue(u, pi, l.items) \in Int /\ Worth(u, R) \in Int
    BY <1>1, <1>4, <1>5, DualValueAdds
  <2> QED
    BY <1>1, <2>1, <2>2
<1>9. DualValue(u, pi, l.items \cup R) \in Int /\ BestValue(u, pi, branching) \in Int
  BY <1>3, <1>5, DualValueType, BestValueFacts
<1>10. DualValue(u, pi, l.items \cup R) > BinCost
  BY <1>2, <1>9, BinCostAssumption
<1>11. l.value + Worth(u, R) > BinCost
  BY <1>8, <1>9, <1>10, BinCostAssumption
<1> QED
  BY <1>1, <1>2, <1>4, <1>6, <1>7, <1>8, <1>10, <1>11

(* A label that can be completed survives the bound.                       *)
LEMMA HopeSurvives ==
  ASSUME Arguments, position \in 1..(Len(order) + 1), NEW l \in LabelsBefore(position),
         NEW R \in SUBSET Ahead(position), Completes(l, R),
         BestValue(u, pi, branching) > BinCost
  PROVE  CanImprove(l.items, l.value, position)
<1>1. /\ R \in SUBSET Items /\ l.items \in SUBSET Items /\ Tied(branching, R)
      /\ Load[l.items] + Load[R] =< Capacity
      /\ l.value \in Int /\ l.value + Worth(u, R) > BinCost /\ Worth(u, R) \in Int
  BY CompletesFacts
<1>2. l.value + Worth(u, R) >= BinCost
  BY <1>1, BinCostAssumption
<1> QED
  BY <1>1, <1>2, BoundKeeps

(* The element scanned is part of what completes a label, or comes after.  *)
LEMMA HopeSplits ==
  ASSUME Arguments, position \in 1..Len(order),
         NEW R \in SUBSET Ahead(position), Tied(branching, R)
  PROVE  Element \subseteq R \/ R \in SUBSET Ahead(position + 1)
<1>1. /\ Element \in Worthwhile(u, branching)
      /\ Ahead(position) = Element \cup Ahead(position + 1)
  BY AheadFacts DEF Element
<1>2. Element \subseteq R \/ Element \cap R = {}
  BY <1>1, WorthwhileFacts, ElementWhole
<1> QED
  BY <1>1, <1>2

(* In the first case the label is extended, and the rest completes it.     *)
LEMMA HopeExtends ==
  ASSUME Arguments, position \in 1..Len(order), NEW l \in LabelsBefore(position),
         NEW R \in SUBSET Ahead(position), Element \subseteq R, Completes(l, R),
         BestValue(u, pi, branching) > BinCost
  PROVE  /\ Extensible(l)
         /\ \E Q \in SUBSET Ahead(position + 1) : Completes(Extend(l), Q)
<1> DEFINE e == Element
           S == l.items
           Q == R \ e
<1>1. /\ e \in Worthwhile(u, branching)
      /\ Ahead(position) = e \cup Ahead(position + 1)
      /\ position \in 1..(Len(order) + 1) /\ position + 1 \in 1..(Len(order) + 1)
  BY AheadFacts, ArgumentsFacts DEF Element
<1>2. /\ R \in SUBSET Items /\ S \in SUBSET Items /\ S \cap R = {}
      /\ Tied(branching, R) /\ ~Separated(branching, S \cup R)
      /\ Load[S] + Load[R] =< Capacity
      /\ l.value \in Int /\ l.value + Worth(u, R) > BinCost
  BY <1>1, CompletesFacts
<1>3. /\ e \in SUBSET Items /\ Q \in SUBSET Items /\ e \cap Q = {} /\ e \cup Q = R
      /\ Q \in SUBSET Ahead(position + 1) /\ Tied(branching, Q)
      /\ S \cup e \in SUBSET Items /\ (S \cup e) \cap Q = {} /\ (S \cup e) \cup Q = S \cup R
      /\ S \cap e = {}
  BY <1>1, <1>2, WorthwhileFacts, TiedFacts
<1> HIDE DEF e, S, Q
<1>4. /\ Worth(u, R) = Worth(u, e) + Worth(u, Q)
      /\ Worth(u, e) \in Int /\ Worth(u, Q) \in Int
  <2>1. \A i \in Items : u[i] \in Int
    BY ArgumentsFacts
  <2>2. IsFiniteSet(e) /\ IsFiniteSet(Q) /\ \A i \in e \cup Q : u[i] \in Int
    BY <1>3, <2>1, ItemsFacts
  <2> QED
    BY <1>3, <2>2, SumDisjoint, SumType DEF Worth
<1>5. /\ Load[R] = Load[e] + Load[Q] /\ Load[S \cup e] = Load[S] + Load[e]
      /\ Load[e] \in Nat /\ Load[Q] \in Nat /\ Load[S] \in Nat
  <2>1. Load[e \cup Q] = Load[e] + Load[Q] /\ Load[S \cup e] = Load[S] + Load[e]
    BY <1>2, <1>3, LoadAdds
  <2> QED
    BY <1>2, <1>3, <2>1, LoadFacts
<1>6. MayJoin(branching, e, S)
  <2>1. Load[S] + Load[e] =< Capacity
    BY <1>2, <1>5, InstanceAssumption
  <2>2. S \cup e \subseteq S \cup R
    BY <1>3
  <2>3. ~Separated(branching, S \cup e)
    BY <1>2, <2>2, SeparatedGrows
  <2> QED
    BY <2>1, <2>3 DEF MayJoin, Blocked
<1>7. CanImprove(S \cup e, l.value + Worth(u, e), position + 1)
  <2>1. Load[S \cup e] + Load[Q] =< Capacity
    BY <1>2, <1>5, InstanceAssumption
  <2>2. /\ l.value + Worth(u, e) \in Int
        /\ (l.value + Worth(u, e)) + Worth(u, Q) >= BinCost
    BY <1>2, <1>4, BinCostAssumption
  <2> QED
    BY <1>1, <1>3, <2>1, <2>2, BoundKeeps
<1>8. Extensible(l)
  BY <1>6, <1>7 DEF Extensible, e, S
<1>9. Extend(l).items = S \cup e
  BY DEF Extend, e, S
<1>10. Completes(Extend(l), Q)
  BY <1>3, <1>9 DEF Completes, S
<1> QED
  BY <1>3, <1>8, <1>10

(* A label of no more load, no less value whatever the cuts still cost it, *)
(* and the same conflicts, is completed by what completes the other.       *)
LEMMA Replaced ==
  ASSUME Arguments, NEW k \in 1..(Len(order) + 1),
         NEW l \in LabelsBefore(k), NEW m \in LabelsBefore(k),
         NEW R \in SUBSET Ahead(k), Completes(m, R), BestValue(u, pi, branching) > BinCost,
         Load[l.items] =< Load[m.items], ConflictMask(l) = ConflictMask(m),
         NEW margin, PaysFor(margin, pi, l.items, m.items),
         l.value >= m.value + SumFunctionOnSet(margin, DOMAIN pi)
  PROVE  Completes(l, R)
<1>1. /\ l.items \in SUBSET Items /\ l.items \cap Ahead(k) = {}
      /\ Tied(branching, l.items) /\ ~Separated(branching, l.items)
      /\ l.value = DualValue(u, pi, l.items)
  BY LabelFacts
<1>2. /\ R \in SUBSET Items /\ m.items \in SUBSET Items /\ m.items \cap R = {}
      /\ Tied(branching, R) /\ ~Separated(branching, m.items \cup R)
      /\ Load[m.items] + Load[R] =< Capacity
      /\ DualValue(u, pi, m.items \cup R) > BinCost
  BY CompletesFacts
<1>3. m.value = DualValue(u, pi, m.items)
  BY LabelFacts
<1>4. DualValue(u, pi, m.items \cup R) >= BestValue(u, pi, branching)
  BY DEF Completes
<1>5. /\ \A i \in Items : u[i] \in Int
      /\ CutDual(pi) /\ branching \in BranchingStates
  BY ArgumentsFacts
<1>6. l.items \cap R = {} /\ l.items \cup R \in SUBSET Items
  BY <1>1, <1>2
<1>7. DualValue(u, pi, l.items \cup R) >= DualValue(u, pi, m.items \cup R)
  BY <1>1, <1>2, <1>3, <1>5, <1>6, TakesThePlace
<1>8. /\ DualValue(u, pi, l.items \cup R) \in Int /\ DualValue(u, pi, m.items \cup R) \in Int
      /\ BestValue(u, pi, branching) \in Int
  BY <1>2, <1>5, <1>6, DualValueType, BestValueFacts
<1>9. /\ DualValue(u, pi, l.items \cup R) >= BestValue(u, pi, branching)
      /\ DualValue(u, pi, l.items \cup R) > 0
  BY <1>2, <1>4, <1>7, <1>8, BinCostAssumption
<1>10. l.items \cup R # {}
  <2>1. DualValue(u, pi, {}) = 0
    BY <1>5, DualValueOfNone
  <2>2. ASSUME l.items \cup R = {} PROVE DualValue(u, pi, l.items \cup R) = 0
    BY <2>1, <2>2, Zenon
  <2> QED
    BY <1>9, <2>2
<1>11. Load[l.items \cup R] =< Capacity
  <2>1. Load[l.items \cup R] = Load[l.items] + Load[R]
    BY <1>1, <1>2, <1>6, LoadAdds
  <2>2. Load[l.items] \in Nat /\ Load[m.items] \in Nat /\ Load[R] \in Nat
    BY <1>1, <1>2, LoadFacts
  <2> QED
    BY <1>2, <2>1, <2>2, InstanceAssumption
<1>12. ~Separated(branching, l.items \cup R)
  BY <1>1, <1>2 DEF Separated, Both, ConflictMask
<1>13. Accepts(branching, l.items \cup R)
  <2>1. Tied(branching, l.items \cup R)
    BY <1>1, <1>2, TiedFacts
  <2> QED
    BY <1>5, <1>12, <2>1, AcceptsFacts
<1>14. l.items \cup R \in AcceptedPatterns(branching)
  BY <1>6, <1>10, <1>11, <1>13 DEF AcceptedPatterns, Patterns
<1> QED
  BY <1>2, <1>9, <1>14 DEF Completes

(* With the same bits, nothing is to be paid.                              *)
LEMMA ReplacedAlike ==
  ASSUME Arguments, NEW k \in 1..(Len(order) + 1),
         NEW l \in LabelsBefore(k), NEW m \in LabelsBefore(k),
         NEW R \in SUBSET Ahead(k), Completes(m, R), BestValue(u, pi, branching) > BinCost,
         Load[l.items] =< Load[m.items], ConflictMask(l) = ConflictMask(m),
         l.primed = m.primed, l.value >= m.value
  PROVE  Completes(l, R)
<1> DEFINE margin == [T \in DOMAIN pi |-> 0]
<1>1. /\ l.primed = {T \in DOMAIN pi : Cardinality(T \cap l.items) % 2 = 1}
      /\ m.primed = {T \in DOMAIN pi : Cardinality(T \cap m.items) % 2 = 1}
  BY LabelFacts
<1>2. PaysFor(margin, pi, l.items, m.items)
  <2>1. \A T \in DOMAIN pi : T \in l.primed <=> T \in m.primed
    OBVIOUS
  <2>2. \A T \in DOMAIN pi : Cardinality(T \cap l.items) % 2 = 1 =>
                                 Cardinality(T \cap m.items) % 2 = 1
    BY <1>1, <2>1, Zenon
  <2>3. \A T \in DOMAIN pi : margin[T] \in Int /\ margin[T] >= 0
    OBVIOUS
  <2> QED
    BY <2>2, <2>3, Zenon DEF PaysFor
<1>3. SumFunctionOnSet(margin, DOMAIN pi) = 0
  <2>1. IsFiniteSet(DOMAIN pi) /\ \A T \in DOMAIN pi : margin[T] = 0
    BY ArgumentsFacts, ItemsFacts, FS_SUBSET, FS_Subset DEF CutDual
  <2> HIDE DEF margin
  <2>2. SumFunctionOnSet(margin, DOMAIN pi) = 0 * Cardinality(DOMAIN pi)
    BY <2>1, SumConstant
  <2> QED
    BY <2>1, <2>2, FS_CardinalityType
<1>4. m.value \in Int
  BY AllLabelsFacts
<1> HIDE DEF margin
<1>5. l.value >= m.value + SumFunctionOnSet(margin, DOMAIN pi)
  BY <1>3, <1>4
<1> QED
  BY <1>2, <1>5, Replaced

(* The margin of the sweep is what the bits of a label may still cost.     *)
LEMMA ReplacedInSweep ==
  ASSUME Arguments, branching = {}, NEW k \in 1..(Len(order) + 1),
         NEW l \in LabelsBefore(k), NEW m \in LabelsBefore(k), Dominates(l, m),
         NEW R \in SUBSET Ahead(k), Completes(m, R), BestValue(u, pi, branching) > BinCost
  PROVE  Completes(l, R)
<1> DEFINE margin == [T \in DOMAIN pi |->
               IF pi[T] < 0 /\ T \in l.primed \ m.primed THEN -pi[T]
               ELSE IF pi[T] > 0 /\ T \in m.primed \ l.primed THEN pi[T] ELSE 0]
<1>1. /\ l.primed = {T \in DOMAIN pi : Cardinality(T \cap l.items) % 2 = 1}
      /\ m.primed = {T \in DOMAIN pi : Cardinality(T \cap m.items) % 2 = 1}
  BY LabelFacts
<1>2. \A T \in DOMAIN pi : pi[T] \in Int /\ pi[T] =< 0
  BY ArgumentsFacts DEF CutDual
<1>3. PaysFor(margin, pi, l.items, m.items)
  <2>1. \A T \in DOMAIN pi : margin[T] \in Int /\ margin[T] >= 0
    BY <1>2
  <2>2. \A T \in DOMAIN pi : T \in l.primed /\ T \notin m.primed => margin[T] >= -pi[T]
    BY <1>2
  <2> HIDE DEF margin
  <2>3. \A T \in DOMAIN pi :
            /\ T \in l.primed <=> Cardinality(T \cap l.items) % 2 = 1
            /\ T \in m.primed <=> Cardinality(T \cap m.items) % 2 = 1
    BY <1>1, Zenon
  <2> QED
    BY <2>1, <2>2, <2>3, Zenon DEF PaysFor
<1>4. Load[l.items] =< Load[m.items] /\ l.value >= m.value + SumFunctionOnSet(margin, DOMAIN pi)
  BY DEF Dominates, Margin
<1>5. ConflictMask(l) = ConflictMask(m)
  BY DEF ConflictMask
<1> HIDE DEF margin
<1> QED
  BY <1>3, <1>4, <1>5, Replaced

(* The empty label leads to the best pattern.                              *)
LEMMA HopeInit ==
  ASSUME Init, BestValue(u, pi, branching) > BinCost
  PROVE  Hope
<1>1. /\ Arguments /\ position = 1 /\ labels = {Empty} /\ pc = "prune"
  BY DEF Init, Arguments
<1>2. /\ \A i \in Items : u[i] \in Int
      /\ CutDual(pi) /\ branching \in BranchingStates
      /\ Ranked(u, Worthwhile(u, branching), order) /\ Len(order) \in Nat
  BY <1>1, ArgumentsFacts
<1>3. BestValue(u, pi, branching) \in Nat /\ BestValue(u, pi, branching) > 0
  <2>1. BestValue(u, pi, branching) \in Nat
    BY <1>2, BestValueFacts
  <2> QED
    BY <2>1, BinCostAssumption
<1>4. PICK S \in AcceptedPatterns(branching) :
          /\ DualValue(u, pi, S) = BestValue(u, pi, branching)
          /\ Tied(branching, S)
          /\ \A i \in S : \E e \in Worthwhile(u, branching) : i \in e /\ e \subseteq S
  BY <1>2, <1>3, BestIsWorthwhile
<1>5. S \in SUBSET Ahead(1)
  <2> SUFFICES ASSUME NEW i \in S PROVE i \in Ahead(1)
    OBVIOUS
  <2>1. PICK e \in Worthwhile(u, branching) : i \in e
    BY <1>4
  <2>2. PICK k \in 1..Len(order) : order[k] = e
    BY <1>2, <2>1 DEF Ranked
  <2>3. k \in 1..((Len(order) + 1) - 1)
    BY <1>2, <2>2
  <2> QED
    BY <2>1, <2>2, <2>3 DEF Ahead, Stretch
<1>6. Empty.items \cup S = S
  BY DEF Empty
<1>7. DualValue(u, pi, S) >= BestValue(u, pi, branching)
  BY <1>3, <1>4
<1>8. Completes(Empty, S)
  BY <1>4, <1>6, <1>7 DEF Completes
<1> QED
  BY <1>1, <1>5, <1>8 DEF Hope, Unscanned

(* Some label of a set that is completed is kept when the frontier merges. *)
LEMMA FrontierHolds ==
  ASSUME Arguments, branching = {}, DOMAIN pi = {}, BestValue(u, pi, branching) > BinCost,
         NEW k \in 1..(Len(order) + 1), NEW kept \in SUBSET LabelsBefore(k),
         NEW new \in SUBSET LabelsBefore(k), kept \cap new = {},
         NEW R \in SUBSET Ahead(k), \E l \in kept \cup new : Completes(l, R)
  PROVE  \E l \in kept \cup new : ~Dominated(l, kept, new) /\ Completes(l, R)
<1> DEFINE key == [l \in kept \cup new |-> 2 * Load[l.items] + IF l \in kept THEN 0 ELSE 1]
           led == {l \in kept \cup new : Completes(l, R)}
           keys == {key[l] : l \in led}
           bound == 2 * Capacity + 1
<1>1. \A l \in kept \cup new : Load[l.items] \in Nat /\ Load[l.items] =< Capacity
  BY LabelFacts, LoadFacts
<1>2. Capacity \in Nat
  BY InstanceAssumption
<1>3. \A l \in kept \cup new : key[l] \in 0..bound
  BY <1>1, <1>2
<1>4. PICK l \in led : \A m \in led : key[l] =< key[m]
  <2>1. keys \in SUBSET (0..bound) /\ keys # {}
    BY <1>3
  <2>2. IsFiniteSet(0..bound)
    <3>1. 0 \in Int /\ bound \in Int
      BY <1>2
    <3> HIDE DEF bound
    <3> QED
      BY <3>1, FS_Interval
  <2> HIDE DEF keys, bound
  <2>3. keys \in SUBSET Int /\ IsFiniteSet(keys)
    <3>1. IsFiniteSet(keys)
      BY <2>1, <2>2, FS_Subset
    <3>2. keys \subseteq Int
      BY <2>1
    <3> QED
      BY <3>1, <3>2
  <2>4. Min(keys) \in keys /\ \A x \in keys : Min(keys) =< x
    BY <2>1, <2>3, MinExists
  <2> HIDE DEF key, led
  <2> QED
    BY <2>4 DEF keys
<1>5. ~Dominated(l, kept, new)
  <2> SUFFICES ASSUME NEW m \in kept \cup new, m.value >= l.value,
                      \/ Load[m.items] < Load[l.items]
                      \/ m \in kept /\ l \in new /\ Load[m.items] = Load[l.items]
               PROVE  FALSE
    BY DEF Dominated
  <2>1. Load[m.items] =< Load[l.items]
    BY <1>1
  <2>2. m.primed = l.primed /\ ConflictMask(m) = ConflictMask(l)
    BY LabelFacts DEF ConflictMask
  <2>3. Completes(m, R)
    BY <2>1, <2>2, ReplacedAlike
  <2>4. key[m] < key[l]
    <3>0. /\ Load[m.items] \in Nat /\ Load[l.items] \in Nat
          /\ key[m] = 2 * Load[m.items] + IF m \in kept THEN 0 ELSE 1
          /\ key[l] = 2 * Load[l.items] + IF l \in kept THEN 0 ELSE 1
      BY <1>1
    <3> HIDE DEF key
    <3>1. CASE Load[m.items] < Load[l.items]
      BY <3>0, <3>1
    <3>2. CASE m \in kept /\ l \in new /\ Load[m.items] = Load[l.items]
      <4>1. l \notin kept
        BY <3>2
      <4> QED
        BY <3>0, <3>2, <4>1
    <3> QED
      BY <3>1, <3>2
  <2>5. key[l] =< key[m]
    BY <1>4, <2>3
  <2> HIDE DEF key, bound
  <2>6. key[l] \in Int /\ key[m] \in Int
    BY <1>3, <1>4
  <2> QED
    BY <2>4, <2>5, <2>6
<1> QED
  BY <1>4, <1>5
-----------------------------------------------------------------------------
(* Hope outlives every step.                                               *)
LEMMA HopeFrontier ==
  ASSUME LabelInv, pc = "prune", position =< Len(order), IsFrontier, FrontierRound,
         BestValue(u, pi, branching) > BinCost, Hope
  PROVE  Hope'
<1> DEFINE new == {Extend(l) : l \in {l \in Survivors : Extensible(l)}}
           merged == {l \in Survivors \cup new : ~Dominated(l, Survivors, new)}
           next == position + 1
<1>1. /\ labels' = merged /\ position' = next /\ pc' = "prune" /\ UNCHANGED arguments
  BY DEF FrontierRound
<1>2. /\ Arguments /\ position \in 1..Len(order) /\ Len(order) \in Nat
      /\ position \in 1..(Len(order) + 1) /\ next \in 1..(Len(order) + 1)
      /\ labels \subseteq LabelsBefore(position)
      /\ Survivors \subseteq labels /\ branching = {} /\ DOMAIN pi = {}
  BY ArgumentsFacts DEF LabelInv, Unscanned, Survivors, IsFrontier
<1>3. PICK l \in labels, R \in SUBSET Ahead(position) : Completes(l, R)
  BY DEF Hope, Unscanned
<1>4. l \in Survivors
  BY <1>2, <1>3, HopeSurvives DEF Survivors
<1>5. Survivors \subseteq LabelsBefore(next) /\ new \subseteq LabelsBefore(next)
  BY <1>2, ExtendFacts, LabelsOnward
<1>6. Survivors \cap new = {}
  <2> SUFFICES ASSUME NEW x \in Survivors, NEW m \in Survivors, x = Extend(m) PROVE FALSE
    OBVIOUS
  <2>1. x.items \cap Ahead(position) = {}
    BY <1>2, LabelFacts
  <2>2. Element \subseteq x.items
    BY DEF Extend
  <2>3. Element # {} /\ Element \subseteq Ahead(position)
    <3>1. Element \in Elements(branching) /\ Element \subseteq Ahead(position)
      BY <1>2, AheadFacts, WorthwhileFacts DEF Element
    <3> QED
      BY <3>1 DEF Elements
  <2> QED
    BY <2>1, <2>2, <2>3
<1>7. \E Q \in SUBSET Ahead(next), x \in Survivors \cup new : Completes(x, Q)
  <2>1. CASE Element \subseteq R
    <3>1. Extensible(l) /\ \E Q \in SUBSET Ahead(position + 1) : Completes(Extend(l), Q)
      BY <1>2, <1>3, <2>1, HopeExtends
    <3>2. Extend(l) \in new
      BY <1>4, <3>1
    <3> HIDE DEF new
    <3> QED
      BY <3>1, <3>2
  <2>2. CASE R \in SUBSET Ahead(position + 1)
    BY <1>3, <1>4, <2>2
  <2>3. Tied(branching, R)
    BY <1>3 DEF Completes
  <2> QED
    BY <1>2, <2>1, <2>2, <2>3, HopeSplits
<1> HIDE DEF new, merged, next
<1>8. PICK Q \in SUBSET Ahead(next) : \E x \in Survivors \cup new : Completes(x, Q)
  BY <1>7
<1>9. \E x \in Survivors \cup new : ~Dominated(x, Survivors, new) /\ Completes(x, Q)
  BY <1>2, <1>5, <1>6, <1>8, FrontierHolds
<1>10. PICK x \in labels' : Completes(x, Q)
  BY <1>1, <1>9 DEF merged
<1>11. Unscanned' = next
  BY <1>1 DEF Unscanned
<1>12. Q \in SUBSET Ahead(Unscanned)' /\ Completes(x, Q)'
  BY <1>1, <1>8, <1>10, <1>11, Stays
<1> QED
  BY <1>10, <1>12 DEF Hope

LEMMA HopeStart ==
  ASSUME LabelInv, pc = "prune", position =< Len(order), ~IsFrontier, StartRound,
         BestValue(u, pi, branching) > BinCost, Hope
  PROVE  Hope'
<1>1. PICK K \in IF branching = {} THEN Sweeps(Survivors) ELSE {Survivors} :
          labels' = K /\ pending' = K
  BY DEF StartRound
<1>2. pc' = "extend" /\ UNCHANGED <<arguments, position>>
  BY DEF StartRound
<1>3. /\ Arguments /\ position \in 1..Len(order) /\ Len(order) \in Nat
      /\ position \in 1..(Len(order) + 1)
      /\ labels \subseteq LabelsBefore(position) /\ Survivors \subseteq labels
  BY ArgumentsFacts DEF LabelInv, Unscanned, Survivors
<1>4. PICK l \in labels, R \in SUBSET Ahead(position) : Completes(l, R)
  BY DEF Hope, Unscanned
<1>5. l \in Survivors
  BY <1>3, <1>4, HopeSurvives DEF Survivors
<1>6. PICK m \in K : Completes(m, R)
  <2>1. CASE l \in K
    BY <1>4, <2>1
  <2>2. CASE l \notin K
    <3>1. branching = {} /\ K \in Sweeps(Survivors)
      BY <1>1, <1>5, <2>2
    <3>2. PICK m \in K : Dominates(m, l)
      BY <1>5, <2>2, <3>1 DEF Sweeps
    <3>3. m \in LabelsBefore(position) /\ l \in LabelsBefore(position)
      BY <1>3, <3>1 DEF Sweeps
    <3>4. Completes(m, R)
      BY <1>3, <1>4, <3>1, <3>2, <3>3, ReplacedInSweep
    <3> QED
      BY <3>4
  <2> QED
    BY <2>1, <2>2
<1>7. Completes(m, R)' /\ m \in labels' /\ m \in pending'
  BY <1>1, <1>2, <1>6, Stays
<1>8. CASE R \in SUBSET Ahead(position + 1)
  <2>1. Unscanned' = position + 1
    BY <1>2 DEF Unscanned
  <2>2. R \in SUBSET Ahead(Unscanned)'
    BY <1>2, <1>8, <2>1, Stays
  <2> QED
    BY <1>7, <2>2 DEF Hope
<1>9. CASE Element \subseteq R
  <2>1. R \in SUBSET Ahead(position)' /\ Element' \subseteq R
    BY <1>2, <1>4, <1>9, Stays DEF Element
  <2> QED
    BY <1>2, <1>7, <2>1 DEF Hope
<1>10. Tied(branching, R)
  BY <1>4 DEF Completes
<1> QED
  BY <1>3, <1>4, <1>8, <1>9, <1>10, HopeSplits

(* A new label that is not inserted meets one as good.                     *)
LEMMA InsertHolds ==
  ASSUME Arguments, BestValue(u, pi, branching) > BinCost,
         NEW k \in 1..(Len(order) + 1), labels \subseteq LabelsBefore(k),
         NEW x \in LabelsBefore(k), Insert(x),
         NEW R \in SUBSET Ahead(k), \E l \in labels \cup {x} : Completes(l, R)
  PROVE  \E l \in labels' : Completes(l, R)
<1> DEFINE rivals == {m \in labels : SameKey(m, x)}
<1>1. PICK l \in labels \cup {x} : Completes(l, R)
  OBVIOUS
<1>2. /\ x.value \in Int
      /\ \A m \in labels : m.value \in Int
  BY AllLabelsFacts
<1>3. \A m \in rivals : /\ Load[m.items] \in Nat /\ Load[m.items] = Load[x.items]
                        /\ m.primed = x.primed /\ ConflictMask(m) = ConflictMask(x)
                        /\ m \in LabelsBefore(k)
  BY LabelFacts, LoadFacts DEF SameKey
<1>4. \A m \in rivals : /\ Load[m.items] =< Load[x.items] /\ Load[x.items] =< Load[m.items]
  BY <1>3
<1>5. CASE \E m \in rivals : m.value >= x.value
  <2>1. labels' = labels
    BY <1>5 DEF Insert
  <2>2. CASE l \in labels
    BY <1>1, <2>1, <2>2
  <2>3. CASE l = x
    <3>1. PICK m \in rivals : m.value >= x.value
      BY <1>5
    <3>2. Completes(m, R)
      BY <1>1, <1>3, <1>4, <2>3, <3>1, ReplacedAlike
    <3> QED
      BY <2>1, <3>2
  <2> QED
    BY <2>2, <2>3
<1>6. CASE ~\E m \in rivals : m.value >= x.value
  <2>1. labels' = (labels \ rivals) \cup {x}
    BY <1>6 DEF Insert
  <2>2. CASE l \in rivals
    <3>1. x.value >= l.value
      BY <1>2, <1>6, <2>2
    <3>2. Completes(x, R)
      BY <1>1, <1>3, <1>4, <2>2, <3>1, ReplacedAlike
    <3> QED
      BY <2>1, <3>2
  <2>3. CASE l \notin rivals
    BY <1>1, <2>1, <2>3
  <2> QED
    BY <2>2, <2>3
<1> QED
  BY <1>5, <1>6

LEMMA HopeExtendLabel ==
  ASSUME LabelInv, ExtendLabel, BestValue(u, pi, branching) > BinCost, Hope
  PROVE  Hope'
<1> DEFINE next == position + 1
<1>1. /\ pc = "extend" /\ UNCHANGED <<arguments, position, pc>>
      /\ \E l \in pending :
            /\ pending' = pending \ {l}
            /\ IF Extensible(l) THEN Insert(Extend(l)) ELSE UNCHANGED <<labels, candidates>>
  BY DEF ExtendLabel
<1>2. PICK l \in pending :
            /\ pending' = pending \ {l}
            /\ IF Extensible(l) THEN Insert(Extend(l)) ELSE UNCHANGED <<labels, candidates>>
  BY <1>1
<1>3. /\ Arguments /\ position \in 1..Len(order) /\ Len(order) \in Nat
      /\ next \in 1..(Len(order) + 1)
      /\ labels \subseteq LabelsBefore(next) /\ Unscanned = next
      /\ pending \subseteq LabelsBefore(position)
  BY <1>1, ArgumentsFacts DEF LabelInv, Unscanned
<1>4. /\ pc' = "extend" /\ position' = position /\ Unscanned' = next /\ Element' = Element
      /\ \A k : Ahead(k)' = Ahead(k)
      /\ \A m, R : Completes(m, R)' <=> Completes(m, R)
  <2>1. order' = order /\ pc' = "extend" /\ position' = position
    BY <1>1, Stays
  <2>2. /\ \A k : Ahead(k)' = Ahead(k)
        /\ \A m, R : Completes(m, R)' <=> Completes(m, R)
    BY <1>1, Stays
  <2> QED
    BY <2>1, <2>2 DEF Unscanned, Element
<1> HIDE DEF next
<1>5. ASSUME NEW R \in SUBSET Ahead(next), \E m \in labels' : Completes(m, R)
      PROVE  Hope'
  <2>1. PICK m \in labels' : Completes(m, R)
    BY <1>5
  <2>2. R \in SUBSET Ahead(Unscanned)' /\ Completes(m, R)'
    BY <1>4, <2>1
  <2> QED
    BY <2>1, <2>2 DEF Hope
<1>6. Extensible(l) => Extend(l) \in LabelsBefore(next) /\ Insert(Extend(l))
  BY <1>2, <1>3, ExtendFacts DEF next
<1>7. CASE \E m \in labels, R \in SUBSET Ahead(Unscanned) : Completes(m, R)
  <2>1. PICK m \in labels, R \in SUBSET Ahead(next) : Completes(m, R)
    BY <1>3, <1>7
  <2>2. CASE Extensible(l)
    <3>1. \E x \in labels' : Completes(x, R)
      BY <1>3, <1>6, <2>1, <2>2, InsertHolds
    <3> QED
      BY <1>5, <3>1
  <2>3. CASE ~Extensible(l)
    BY <1>2, <1>5, <2>1, <2>3
  <2> QED
    BY <2>2, <2>3
<1>8. CASE \E m \in pending, R \in SUBSET Ahead(position) :
               Element \subseteq R /\ Completes(m, R)
  <2>1. PICK m \in pending, R \in SUBSET Ahead(position) :
             Element \subseteq R /\ Completes(m, R)
    BY <1>8
  <2>2. CASE m = l
    <3>1. m \in LabelsBefore(position)
      BY <1>3, <2>1
    <3>2. /\ Extensible(m)
          /\ \E Q \in SUBSET Ahead(position + 1) : Completes(Extend(m), Q)
      BY <1>3, <2>1, <3>1, HopeExtends
    <3>3. PICK Q \in SUBSET Ahead(next) : Completes(Extend(m), Q)
      BY <3>2 DEF next
    <3>4. \E x \in labels' : Completes(x, Q)
      BY <1>3, <1>6, <2>2, <3>2, <3>3, InsertHolds
    <3> QED
      BY <1>5, <3>4
  <2>3. CASE m # l
    <3>1. m \in pending'
      BY <1>2, <2>1, <2>3
    <3>2. R \in SUBSET Ahead(position)' /\ Element' \subseteq R /\ Completes(m, R)'
      BY <1>4, <2>1
    <3> QED
      BY <1>4, <3>1, <3>2 DEF Hope
  <2> QED
    BY <2>2, <2>3
<1> QED
  BY <1>7, <1>8 DEF Hope

LEMMA HopeStays ==
  ASSUME LabelInv, UNCHANGED <<arguments, labels, pending>>, Unscanned' = Unscanned, Hope,
         \/ pc' = pc /\ position' = position
         \/ pending = {}
  PROVE  Hope'
<1>1. /\ \A k : Ahead(k)' = Ahead(k)
      /\ \A m, R : Completes(m, R)' <=> Completes(m, R)
      /\ order' = order
  BY Stays
<1>2. CASE \E l \in labels, R \in SUBSET Ahead(Unscanned) : Completes(l, R)
  <2>1. PICK l \in labels, R \in SUBSET Ahead(Unscanned) : Completes(l, R)
    BY <1>2
  <2>2. R \in SUBSET Ahead(Unscanned)' /\ Completes(l, R)' /\ l \in labels'
    BY <1>1, <2>1
  <2> QED
    BY <2>2 DEF Hope
<1>3. CASE /\ pc = "extend"
           /\ \E l \in pending, R \in SUBSET Ahead(position) :
                  Element \subseteq R /\ Completes(l, R)
  <2>1. PICK l \in pending, R \in SUBSET Ahead(position) :
             Element \subseteq R /\ Completes(l, R)
    BY <1>3
  <2>2. pc' = "extend" /\ position' = position
    BY <1>3, <2>1
  <2>3. R \in SUBSET Ahead(position)' /\ Element' \subseteq R /\ Completes(l, R)'
        /\ l \in pending'
    BY <1>1, <2>1, <2>2 DEF Element
  <2> QED
    BY <2>2, <2>3 DEF Hope
<1> QED
  BY <1>2, <1>3 DEF Hope

(* When the scan ends, or no label survives, the best is a candidate.      *)
LEMMA ReturnsBest ==
  ASSUME LabelInv, Return, BestValue(u, pi, branching) > BinCost => Hope
  PROVE  PricedExactly'
<1> DEFINE best == BestValue(u, pi, branching)
<1>1. /\ pc = "prune"
      /\ position > Len(order) \/ Survivors = {}
      /\ UNCHANGED <<arguments, candidates>>
  BY DEF Return
<1>2. /\ Arguments /\ Len(order) \in Nat /\ position \in 1..(Len(order) + 1)
      /\ labels \subseteq LabelsBefore(position)
      /\ candidates \subseteq {LabelOf(S) : S \in AcceptedPatterns(branching)}
      /\ \A c \in candidates : c.value > BinCost
      /\ Considered
  BY <1>1, ArgumentsFacts DEF LabelInv, Unscanned
<1>3. best \in Nat /\ BinCost \in Nat
  BY <1>2, ArgumentsFacts, BestValueFacts, BinCostAssumption
<1>4. \A c \in candidates : c.value \in Int /\ c.value =< best
  <2> SUFFICES ASSUME NEW c \in candidates PROVE c.value \in Int /\ c.value =< best
    OBVIOUS
  <2>1. PICK S \in AcceptedPatterns(branching) : c = LabelOf(S)
    BY <1>2
  <2>2. c.value = DualValue(u, pi, S) /\ S \in SUBSET Items
    BY <2>1 DEF LabelOf, AcceptedPatterns, Patterns
  <2>3. (\A i \in Items : u[i] \in Int) /\ CutDual(pi)
    BY <1>2, ArgumentsFacts
  <2>4. DualValue(u, pi, S) \in Int
    BY <2>2, <2>3, DualValueType
  <2>5. DualValue(u, pi, S) =< best
    BY <2>3, BestValueFacts
  <2> QED
    BY <2>2, <2>4, <2>5
<1>5. ASSUME best > BinCost PROVE \E c \in candidates : c.value = best
  <2>1. PICK l \in labels, R \in SUBSET Ahead(position) : Completes(l, R)
    BY <1>1, <1>5 DEF Hope, Unscanned
  <2>2. l \in Survivors
    BY <1>2, <1>5, <2>1, HopeSurvives DEF Survivors
  <2>3. R = {}
    <3>1. position = Len(order) + 1
      BY <1>1, <1>2, <2>2
    <3> QED
      BY <1>2, <2>1, <3>1, AheadEnds
  <2>4. l.value = DualValue(u, pi, l.items) /\ l.items \cup R = l.items
    BY <1>2, <2>3, LabelFacts
  <2>5. l.value >= best
    BY <2>1, <2>4 DEF Completes
  <2>6. l.value \in Int
    BY <1>2, AllLabelsFacts
  <2>7. PICK c \in candidates : c.value >= l.value
    BY <1>2, <1>3, <1>5, <2>5, <2>6 DEF Considered
  <2>8. c.value = best
    BY <1>3, <1>4, <2>5, <2>6, <2>7
  <2> QED
    BY <2>8
<1>6. ASSUME ~(best > BinCost) PROVE candidates = {}
  BY <1>2, <1>3, <1>4, <1>6
<1>7. BestValue(u', pi', branching') = best /\ candidates' = candidates
  BY <1>1, Stays
<1> HIDE DEF best
<1> QED
  BY <1>5, <1>6, <1>7 DEF PricedExactly

ExactStrong == ExactInv /\ PricedExactly

LEMMA ExactInit == Init => ExactStrong
  BY LabelInit, HopeInit DEF Init, ExactStrong, ExactInv, PricedExactly

LEMMA ExactStep == ExactStrong /\ [Next]_vars => ExactStrong'
<1> SUFFICES ASSUME ExactStrong, [Next]_vars PROVE ExactStrong'
  OBVIOUS
<1> DEFINE best == BestValue(u, pi, branching)
<1>1. LabelInv /\ (best > BinCost => Hope)
  BY DEF ExactStrong, ExactInv
<1>2. LabelInv'
  BY <1>1, LabelStep
<1>3. BestValue(u', pi', branching') = best /\ UNCHANGED arguments
  <2>1. UNCHANGED arguments
    BY DEF Next, vars, Round, FrontierRound, StartRound, ExtendLabel, EndRound, Return
  <2> QED
    BY <2>1, Stays
<1>4. ASSUME best > BinCost PROVE Hope'
  <2>1. Hope
    BY <1>1, <1>4
  <2>2. CASE Round
    <3>1. pc = "prune" /\ position =< Len(order)
      BY <2>2 DEF Round
    <3>2. CASE IsFrontier
      BY <1>1, <1>4, <2>1, <2>2, <3>1, <3>2, HopeFrontier DEF Round, IsFrontier
    <3>3. CASE ~IsFrontier
      BY <1>1, <1>4, <2>1, <2>2, <3>1, <3>3, HopeStart DEF Round, IsFrontier
    <3> QED
      BY <3>2, <3>3
  <2>3. CASE ExtendLabel
    BY <1>1, <1>4, <2>1, <2>3, HopeExtendLabel
  <2>4. CASE EndRound
    <3>1. pending = {} /\ UNCHANGED <<arguments, labels, pending>> /\ Unscanned' = Unscanned
      BY <2>4 DEF EndRound, Unscanned
    <3> QED
      BY <1>1, <2>1, <3>1, HopeStays
  <2>5. CASE Return
    <3>1. /\ UNCHANGED <<arguments, labels, pending>> /\ Unscanned' = Unscanned
          /\ pc # "extend"
      BY <2>5 DEF Return, Unscanned
    <3>2. pending = {}
      BY <1>1, <3>1 DEF LabelInv
    <3> QED
      BY <1>1, <2>1, <3>1, <3>2, HopeStays
  <2>6. CASE UNCHANGED vars
    <3>1. /\ UNCHANGED <<arguments, labels, pending>> /\ Unscanned' = Unscanned
          /\ pc' = pc /\ position' = position
      BY <2>6 DEF vars, Unscanned, arguments
    <3> QED
      BY <1>1, <2>1, <3>1, HopeStays
  <2> QED
    BY <2>2, <2>3, <2>4, <2>5, <2>6 DEF Next
<1>5. PricedExactly'
  <2>1. CASE Return
    BY <1>1, <2>1, ReturnsBest
  <2>2. CASE Round \/ ExtendLabel \/ EndRound
    <3>1. pc' # "done"
      BY <2>2 DEF Round, FrontierRound, StartRound, ExtendLabel, EndRound
    <3> QED
      BY <3>1 DEF PricedExactly
  <2>3. CASE UNCHANGED vars
    <3>1. pc' = pc /\ candidates' = candidates
      BY <2>3 DEF vars
    <3> QED
      BY <1>3, <3>1 DEF PricedExactly, ExactStrong
  <2> QED
    BY <2>1, <2>2, <2>3 DEF Next
<1> HIDE DEF best
<1> QED
  BY <1>2, <1>3, <1>4, <1>5 DEF ExactStrong, ExactInv, best

(* Pricing is exact: neither the fractional bound, nor dominance, nor the  *)
(* sweep with its margin, nor an equal key drops every label that leads to *)
(* the best pattern, in whatever order labels are extended; so no answer   *)
(* means that no pattern of the node improves.                             *)
THEOREM PricedExactlyCorrect == Spec => []PricedExactly
<1>1. ExactStrong => PricedExactly
  BY DEF ExactStrong
<1> QED
  BY <1>1, ExactInit, ExactStep, PTL DEF Spec
-----------------------------------------------------------------------------
(* What Algorithm1!PricedSets takes the answer of pricing for.             *)
AnswerPriced ==
    LET best == BestValue(u, pi, branching)
        found == {c.items : c \in candidates}
    IN  pc = "done" =>
            /\ found \subseteq {S \in AcceptedPatterns(branching) : IsImproving(u, pi, S)}
            /\ Cardinality(found) =< max_candidates
            /\ best > BinCost => \E S \in found : DualValue(u, pi, S) = best
            /\ best =< BinCost => found = {}

(* No more candidates are kept than a call may return.                     *)
Few == Cardinality(candidates) =< max_candidates

LEMMA CandidatesFinite == LabelInv => IsFiniteSet(candidates)
<1> SUFFICES ASSUME LabelInv PROVE IsFiniteSet(candidates)
  OBVIOUS
<1>1. candidates \in SUBSET AllLabels
  BY DEF LabelInv, AllLabels, AcceptedPatterns, Patterns
<1> QED
  BY <1>1, AllLabelsFacts, FS_Subset DEF LabelInv

LEMMA ConsiderFew ==
  ASSUME LabelInv, NEW k, NEW new \in SUBSET LabelsBefore(k), Consider(new)
  PROVE  Few'
<1> DEFINE C == candidates \cup {l \in new : l.value > BinCost}
<1>1. candidates \in SUBSET AllLabels /\ Arguments
  BY DEF LabelInv, AllLabels, AcceptedPatterns, Patterns
<1>2. C \in SUBSET AllLabels
  BY <1>1, AllLabelsFacts
<1>3. candidates' \in Best(C)
  BY DEF Consider
<1> HIDE DEF C
<1>4. Cardinality(C) \in Int
  BY <1>1, <1>2, AllLabelsFacts, FS_Subset, FS_CardinalityType
<1>5. Cardinality(candidates') = Min({Cardinality(C), max_candidates})
  BY <1>3 DEF Best
<1> DEFINE n == Cardinality(C)
<1>6. n \in Int /\ max_candidates \in Int
  BY <1>4, LabelSettingAssumption
<1> HIDE DEF n
<1>7. Min({n, max_candidates}) =< max_candidates
  BY <1>6, MinOfTwo
<1> QED
  BY <1>5, <1>7 DEF Few, n

LEMMA FewStep == LabelInv /\ Few /\ [Next]_vars => Few'
<1> SUFFICES ASSUME LabelInv, Few, [Next]_vars PROVE Few'
  OBVIOUS
<1>1. candidates' = candidates => Few'
  BY DEF Few
<1>2. ASSUME FrontierRound, pc = "prune", position =< Len(order) PROVE Few'
  <2> DEFINE new == {Extend(l) : l \in {l \in Survivors : Extensible(l)}}
             merged == {l \in Survivors \cup new : ~Dominated(l, Survivors, new)}
  <2>1. /\ Arguments /\ position \in 1..Len(order)
        /\ Survivors \subseteq LabelsBefore(position)
    BY <1>2, ArgumentsFacts DEF LabelInv, Unscanned, Survivors
  <2>2. new \subseteq LabelsBefore(position + 1)
    BY <2>1, ExtendFacts
  <2>3. Consider(new \cap merged)
    BY <1>2 DEF FrontierRound
  <2>4. new \cap merged \in SUBSET LabelsBefore(position + 1)
    BY <2>2
  <2> HIDE DEF new, merged
  <2> QED
    BY <2>3, <2>4, ConsiderFew
<1>3. ASSUME ExtendLabel PROVE Few'
  <2>1. PICK l \in pending :
            IF Extensible(l) THEN Insert(Extend(l)) ELSE UNCHANGED <<labels, candidates>>
    BY <1>3 DEF ExtendLabel
  <2>2. /\ Arguments /\ position \in 1..Len(order)
        /\ pending \subseteq LabelsBefore(position)
    BY <1>3, ArgumentsFacts DEF ExtendLabel, LabelInv
  <2>3. CASE Extensible(l)
    <3>1. Extend(l) \in LabelsBefore(position + 1)
      BY <2>2, <2>3, ExtendFacts
    <3>2. Insert(Extend(l))
      BY <2>1, <2>3
    <3>3. candidates' = candidates \/ Consider({Extend(l)})
      BY <3>2 DEF Insert
    <3>4. {Extend(l)} \in SUBSET LabelsBefore(position + 1)
      BY <3>1
    <3> QED
      BY <1>1, <3>3, <3>4, ConsiderFew
  <2>4. CASE ~Extensible(l)
    BY <1>1, <2>1, <2>4
  <2> QED
    BY <2>3, <2>4
<1>4. CASE Round
  BY <1>1, <1>2, <1>4 DEF Round, StartRound
<1>5. CASE ~Round /\ ~ExtendLabel
  BY <1>1, <1>5 DEF Next, EndRound, Return, vars
<1> QED
  BY <1>3, <1>4, <1>5

(* Column generation may take pricing for what Algorithm1 does: no more    *)
(* patterns than it asked for, all improving, a best one among them, and   *)
(* none only if none improves.                                             *)
THEOREM PricingAnswersAlgorithm1 == Spec => []AnswerPriced
<1>1. Init => ExactStrong /\ Few
  <2>1. Init => Few
    BY FS_EmptySet, LabelSettingAssumption DEF Init, Few
  <2> QED
    BY <2>1, ExactInit
<1>2. ExactStrong /\ Few /\ [Next]_vars => (ExactStrong /\ Few)'
  <2>1. ExactStrong => LabelInv
    BY DEF ExactStrong, ExactInv
  <2> QED
    BY <2>1, ExactStep, FewStep
<1>3. ExactStrong /\ Few => AnswerPriced
  <2> DEFINE best == BestValue(u, pi, branching)
             found == {c.items : c \in candidates}
  <2> SUFFICES ASSUME ExactStrong, Few, pc = "done"
               PROVE  /\ found \subseteq {S \in AcceptedPatterns(branching) : IsImproving(u, pi, S)}
                      /\ Cardinality(found) =< max_candidates
                      /\ best > BinCost => \E S \in found : DualValue(u, pi, S) = best
                      /\ best =< BinCost => found = {}
    BY DEF AnswerPriced
  <2>1. LabelInv /\ PricedExactly
    BY DEF ExactStrong, ExactInv
  <2>2. CandidatesSound
    BY <2>1 DEF LabelInv, CandidatesSound, LabelOf
  <2>3. found \subseteq {S \in AcceptedPatterns(branching) : IsImproving(u, pi, S)}
    BY <2>2 DEF CandidatesSound, IsImproving
  <2>4. Cardinality(found) =< max_candidates
    <3> DEFINE of == [c \in candidates |-> c.items]
    <3>1. of \in Surjection(candidates, found)
      BY DEF Surjection
    <3>2. IsFiniteSet(candidates)
      BY <2>1, CandidatesFinite
    <3> HIDE DEF of, found
    <3>3. IsFiniteSet(found) /\ Cardinality(found) =< Cardinality(candidates)
      BY <3>1, <3>2, FS_Surjection
    <3>4. Cardinality(found) \in Nat /\ Cardinality(candidates) \in Nat /\ max_candidates \in Nat
      BY <3>2, <3>3, FS_CardinalityType, LabelSettingAssumption
    <3> QED
      BY <3>3, <3>4 DEF Few
  <2>5. IF best > BinCost THEN \E c \in candidates : c.value = best ELSE candidates = {}
    BY <2>1 DEF PricedExactly
  <2>6. best \in Nat /\ BinCost \in Nat
    BY <2>1, ArgumentsFacts, BestValueFacts, BinCostAssumption DEF LabelInv
  <2> HIDE DEF best
  <2>7. best > BinCost => \E S \in found : DualValue(u, pi, S) = best
    BY <2>2, <2>5 DEF CandidatesSound
  <2>8. best =< BinCost => found = {}
    BY <2>5, <2>6
  <2> QED
    BY <2>3, <2>4, <2>7, <2>8
<1> QED
  BY <1>1, <1>2, <1>3, PTL DEF Spec
=============================================================================

--------------------------- MODULE RoundingProofs ---------------------------
(***************************************************************************)
(* What becomes of a master solution, for every instance, every pool and   *)
(* every grid of values.  The rounding heuristics return a packing, whose  *)
(* repaired bins cannot be merged, and which keeps every column nothing    *)
(* conflicts with (src/solver/heuristics.cpp).  A pair rule finds a pair   *)
(* unless the solution is integral (src/search/branching.cpp), and a node  *)
(* closed without a pair has its solution as an incumbent, if that was     *)
(* rounded and covers every item once (src/master/column_generation.cpp).  *)
(***************************************************************************)
EXTENDS Rounding, IntegralNode, BranchingProofs, SequenceTheorems

(* A column taken whole, that shares no item with another column in use.   *)
Isolated(c) == value[c] = One /\ \A d \in Support \ {c} : c \cap d = {}

(* The scan has not lost an isolated column: it holds it or will reach it. *)
IsolatedInSight ==
    \A c \in Columns : Isolated(c) => c \in chosen \/ (pc = "scan" /\ c \in unseen)

(* The scan takes columns in use, and each of them once.                   *)
ScanTakesOnce == chosen \subseteq Support /\ chosen \cap unseen = {}

(* What the scan holds comes before what it has not reached.               *)
ScanIsOrdered == \A c \in chosen, d \in unseen : value[d] =< value[c]

(* When every item is covered once, the scan has not lost a column worth   *)
(* more than half a bin.                                                   *)
HeavyInSight ==
    CoversOnce(value) =>
        \A c \in Heavy(value) : c \in chosen \/ (pc = "scan" /\ c \in unseen)

(* Best-fit decreasing starts after the scan.                              *)
RepairFollowsScan == pc = "scan" => loose = <<>>

(* The inductive invariant.                                                *)
RoundingInv ==
    /\ TypeOK
    /\ ReturnsPacking
    /\ NoTwoBinsMerge
    /\ RepairFollowsScan
    /\ ScanTakesOnce
    /\ ScanIsOrdered
    /\ IsolatedInSight
    /\ HeavyInSight
-----------------------------------------------------------------------------
LEMMA ColumnsFacts ==
  /\ IsFiniteSet(Columns)
  /\ \A c \in Columns : c \in SUBSET Items /\ c # {} /\ Load[c] =< Capacity
<1>1. IsFiniteSet(Columns)
  BY ItemsFacts, ColumnsAssumption, FS_Subset
<1> QED
  BY <1>1, ColumnsAssumption DEF Patterns

(* The cells of a master row, counted by column.                           *)
LEMMA TotalIsSum ==
  ASSUME NEW v \in [Columns -> Values], NEW S \in SUBSET Columns
  PROVE  /\ IsFiniteSet(S)
         /\ \A c \in S : v[c] \in 0..One /\ v[c] \in Int /\ v[c] >= 0
         /\ Total(v, S) = SumFunctionOnSet(v, S)
         /\ Total(v, S) \in Nat
<1>1. IsFiniteSet(S) /\ One \in Nat /\ \A c \in S : v[c] \in 0..One
  BY ColumnsFacts, FS_Subset, OneAssumption DEF Values
<1>2. Total(v, S) = Cardinality(Cells(v, S, One))
  BY DEF Total, Cells
<1>3. /\ Cardinality(Cells(v, S, One)) = SumFunctionOnSet(v, S)
      /\ Cardinality(Cells(v, S, One)) \in Nat
  BY <1>1, CellsAddUp
<1> QED
  BY <1>1, <1>2, <1>3

(* What one column is worth to a row, and what the others are.             *)
LEMMA TotalSplits ==
  ASSUME NEW v \in [Columns -> Values], NEW S \in SUBSET Columns, NEW c \in S
  PROVE  /\ S \ {c} \in SUBSET Columns
         /\ Total(v, S) = v[c] + Total(v, S \ {c})
         /\ Total(v, S) >= v[c]
<1>1. S \ {c} \in SUBSET Columns
  OBVIOUS
<1>2. /\ IsFiniteSet(S) /\ \A d \in S : v[d] \in Int /\ v[d] >= 0
      /\ Total(v, S) = SumFunctionOnSet(v, S)
  BY TotalIsSum
<1>3. Total(v, S \ {c}) = SumFunctionOnSet(v, S \ {c}) /\ Total(v, S \ {c}) \in Nat
  BY <1>1, TotalIsSum
<1>4. SumFunctionOnSet(v, S) = v[c] + SumFunctionOnSet(v, S \ {c})
  BY <1>2, SumSplits
<1> QED
  BY <1>1, <1>2, <1>3, <1>4

(* A row in two parts.                                                     *)
LEMMA TotalDisjoint ==
  ASSUME NEW v \in [Columns -> Values], NEW S \in SUBSET Columns, NEW R \in SUBSET S
  PROVE  Total(v, S) = Total(v, R) + Total(v, S \ R)
<1>1. R \in SUBSET Columns /\ S \ R \in SUBSET Columns /\ S = R \cup (S \ R) /\ R \cap (S \ R) = {}
  OBVIOUS
<1>2. /\ IsFiniteSet(R) /\ IsFiniteSet(S \ R)
      /\ Total(v, R) = SumFunctionOnSet(v, R)
      /\ Total(v, S \ R) = SumFunctionOnSet(v, S \ R)
      /\ Total(v, S) = SumFunctionOnSet(v, S)
      /\ \A c \in S : v[c] \in Int
  BY <1>1, TotalIsSum
<1>3. SumFunctionOnSet(v, R \cup (S \ R)) = SumFunctionOnSet(v, R) + SumFunctionOnSet(v, S \ R)
  BY <1>1, <1>2, SumDisjoint
<1>4. SumFunctionOnSet(v, S) = SumFunctionOnSet(v, R) + SumFunctionOnSet(v, S \ R)
  BY <1>1, <1>3, Zenon
<1> QED
  BY <1>2, <1>4

(* A row over fewer columns is worth no more.                              *)
LEMMA TotalGrows ==
  ASSUME NEW v \in [Columns -> Values], NEW S \in SUBSET Columns, NEW R \in SUBSET S
  PROVE  Total(v, R) =< Total(v, S)
<1>1. Total(v, S) = Total(v, R) + Total(v, S \ R)
  BY TotalDisjoint
<1>2. R \in SUBSET Columns /\ S \ R \in SUBSET Columns
  OBVIOUS
<1>3. Total(v, R) \in Nat /\ Total(v, S \ R) \in Nat
  BY <1>2, TotalIsSum
<1> QED
  BY <1>1, <1>3

(* Two columns of a row are worth no more than the row.                    *)
LEMMA TwoColumnsOfRow ==
  ASSUME NEW v \in [Columns -> Values], NEW S \in SUBSET Columns,
         NEW c \in S, NEW d \in S, c # d
  PROVE  Total(v, S) >= v[c] + v[d]
<1>1. Total(v, S) = v[c] + Total(v, S \ {c}) /\ S \ {c} \in SUBSET Columns /\ d \in S \ {c}
  BY TotalSplits
<1>2. Total(v, S \ {c}) >= v[d]
  BY <1>1, TotalSplits
<1>3. v[c] \in Int /\ v[d] \in Int /\ Total(v, S \ {c}) \in Nat
  BY <1>1, TotalIsSum
<1> QED
  BY <1>1, <1>2, <1>3

(* A row of columns that are all small is small.                           *)
LEMMA TotalOfSmall ==
  ASSUME NEW v \in [Columns -> Values], NEW S \in SUBSET Columns,
         NEW k \in Nat, \A c \in S : v[c] =< k
  PROVE  /\ Cardinality(S) \in Nat
         /\ Total(v, S) =< k * Cardinality(S)
<1> DEFINE f == [c \in S |-> k]
<1>1. IsFiniteSet(S) /\ Total(v, S) = SumFunctionOnSet(v, S) /\ \A c \in S : v[c] \in Int
  BY TotalIsSum
<1>2. \A c \in S : f[c] \in Int /\ f[c] = k /\ v[c] =< f[c]
  OBVIOUS
<1> HIDE DEF f
<1>3. SumFunctionOnSet(v, S) =< SumFunctionOnSet(f, S)
  BY <1>1, <1>2, SumMonotone
<1>4. SumFunctionOnSet(f, S) = k * Cardinality(S)
  BY <1>1, <1>2, SumConstant
<1> QED
  BY <1>1, <1>3, <1>4, FS_CardinalityType

(* A row of columns that are all large is large.                           *)
LEMMA TotalOfLarge ==
  ASSUME NEW v \in [Columns -> Values], NEW S \in SUBSET Columns,
         NEW k \in Nat, \A c \in S : k =< v[c]
  PROVE  /\ Cardinality(S) \in Nat
         /\ k * Cardinality(S) =< Total(v, S)
<1> DEFINE f == [c \in S |-> k]
<1>1. IsFiniteSet(S) /\ Total(v, S) = SumFunctionOnSet(v, S) /\ \A c \in S : v[c] \in Int
  BY TotalIsSum
<1>2. \A c \in S : f[c] \in Int /\ f[c] = k /\ f[c] =< v[c]
  OBVIOUS
<1> HIDE DEF f
<1>3. SumFunctionOnSet(f, S) =< SumFunctionOnSet(v, S)
  BY <1>1, <1>2, SumMonotone
<1>4. SumFunctionOnSet(f, S) = k * Cardinality(S)
  BY <1>1, <1>2, SumConstant
<1> QED
  BY <1>1, <1>3, <1>4, FS_CardinalityType

(* A row that is worth something has a column in use.                      *)
LEMMA TotalHasColumn ==
  ASSUME NEW v \in [Columns -> Values], NEW S \in SUBSET Columns, Total(v, S) > 0
  PROVE  \E c \in S : v[c] > 0
<1> SUFFICES ASSUME \A c \in S : ~(v[c] > 0) PROVE FALSE
  OBVIOUS
<1>1. \A c \in S : v[c] =< 0
  BY TotalIsSum
<1>2. Cardinality(S) \in Nat /\ Total(v, S) =< 0 * Cardinality(S)
  BY <1>1, TotalOfSmall
<1> QED
  BY <1>2, TotalIsSum

(* The rows of an item are rows of columns.                                *)
LEMMA CoveringFacts ==
  /\ \A i \in Items : Covering(i) \in SUBSET Columns
  /\ \A c \in Columns : c \in SUBSET Items /\ \A i \in c : i \in Items /\ c \in Covering(i)
  BY ColumnsFacts DEF Covering

(* Columns worth more than half a bin share no item that is covered once.  *)
LEMMA HeavyAreDisjoint ==
  ASSUME NEW v \in [Columns -> Values], CoversOnce(v)
  PROVE  \A c, d \in Heavy(v) : c # d => c \cap d = {}
<1> SUFFICES ASSUME NEW c \in Heavy(v), NEW d \in Heavy(v), c # d, NEW i \in c \cap d
             PROVE  FALSE
  OBVIOUS
<1>1. c \in Columns /\ d \in Columns /\ 2 * v[c] > One /\ 2 * v[d] > One
  BY DEF Heavy
<1>2. i \in Items /\ c \in Covering(i) /\ d \in Covering(i) /\ Covering(i) \in SUBSET Columns
  BY <1>1, CoveringFacts
<1>3. Total(v, Covering(i)) >= v[c] + v[d] /\ Total(v, Covering(i)) = One
  BY <1>2, TwoColumnsOfRow DEF CoversOnce
<1> QED
  BY <1>1, <1>3, OneAssumption DEF Values
-----------------------------------------------------------------------------
LEMMA RoundingInit == Init => RoundingInv
<1> SUFFICES ASSUME Init PROVE RoundingInv
  OBVIOUS
<1>1. TypeOK
  BY EmptySeq DEF Init, TypeOK, MasterSolutions
<1>2. loose = <<>> /\ chosen = {} /\ pc = "scan" /\ unseen = Columns
  BY DEF Init
<1>3. DOMAIN loose = {}
  BY <1>2
<1> QED
  BY <1>1, <1>2, <1>3 DEF RoundingInv, ReturnsPacking, NoTwoBinsMerge, RepairFollowsScan,
     ScanTakesOnce, ScanIsOrdered, IsolatedInSight, HeavyInSight, Heavy, InChosen, InLoose

LEMMA TakeKeeps ==
  ASSUME RoundingInv, pc = "scan", NEW c \in Heaviest, Take(c), UNCHANGED <<rule, value>>
  PROVE  RoundingInv'
<1> USE DEF RoundingInv
<1>1. c \in Columns /\ c \in unseen /\ value[c] > 0
  <2>1. c \in Columns /\ c \in unseen /\ value[c] \in 0..One
    BY DEF Heaviest, TypeOK, Values
  <2>2. Counts(c)
    BY DEF Take
  <2> QED
    BY <2>1, <2>2, OneAssumption DEF Counts
<1>2. /\ chosen' = chosen \cup {c} /\ unseen' = unseen \ {c} /\ pc' = pc /\ loose' = loose
      /\ rule' = rule /\ value' = value
  BY DEF Take
<1>3. loose = <<>> /\ DOMAIN loose = {}
  BY DEF RepairFollowsScan
<1>4. \A d \in chosen : c \cap d = {}
  BY DEF Take, Compatible, InChosen
<1>5. TypeOK'
  BY <1>1, <1>2 DEF TypeOK
<1>6. ReturnsPacking' /\ NoTwoBinsMerge' /\ RepairFollowsScan'
  BY <1>2, <1>3, <1>4 DEF ReturnsPacking, NoTwoBinsMerge, RepairFollowsScan, InChosen, InLoose
<1>7. ScanTakesOnce' /\ IsolatedInSight'
  BY <1>1, <1>2 DEF ScanTakesOnce, IsolatedInSight, Isolated, Support, Used
<1>8. ScanIsOrdered'
  BY <1>2 DEF ScanIsOrdered, Heaviest
<1>9. HeavyInSight'
  BY <1>2 DEF HeavyInSight, CoversOnce, Heavy, Total
<1> QED
  BY <1>5, <1>6, <1>7, <1>8, <1>9

(* A column is skipped for a column of the same item that is in use, so    *)
(* that an isolated one never is, and for a column at least as heavy, so   *)
(* that one worth more than half a bin never is.                           *)
LEMMA SkipKeeps ==
  ASSUME RoundingInv, pc = "scan", NEW c \in Heaviest, Skip(c), UNCHANGED <<rule, value>>
  PROVE  RoundingInv'
<1> USE DEF RoundingInv
<1>1. c \in Columns /\ c \in unseen
  BY DEF Heaviest, TypeOK
<1>2. /\ chosen' = chosen /\ unseen' = unseen \ {c} /\ pc' = pc /\ loose' = loose
      /\ rule' = rule /\ value' = value
  BY DEF Skip
<1>3. PICK d \in chosen : c \cap d # {}
  BY DEF Skip, Compatible, InChosen
<1>4. ~Isolated(c)
  BY <1>1, <1>3 DEF ScanTakesOnce, Isolated
<1>5. TypeOK' /\ ReturnsPacking' /\ NoTwoBinsMerge' /\ RepairFollowsScan'
  BY <1>2 DEF TypeOK, ReturnsPacking, NoTwoBinsMerge, RepairFollowsScan, InChosen, InLoose
<1>6. ScanTakesOnce' /\ ScanIsOrdered' /\ IsolatedInSight'
  BY <1>2, <1>4 DEF ScanTakesOnce, ScanIsOrdered, IsolatedInSight, Isolated, Support, Used
<1>7. ASSUME CoversOnce(value) PROVE c \notin Heavy(value)
  <2>1. /\ value \in [Columns -> Values] /\ value[c] \in Int /\ value[d] \in Int /\ One \in Nat
        /\ d \in Columns /\ value[c] =< value[d] /\ c # d
    BY <1>1, OneAssumption DEF TypeOK, Values, ScanIsOrdered, ScanTakesOnce
  <2>2. c \in Heavy(value) => d \in Heavy(value)
    BY <2>1 DEF Heavy
  <2> QED
    BY <1>3, <1>7, <2>1, <2>2, HeavyAreDisjoint
<1>8. HeavyInSight'
  BY <1>2, <1>7 DEF HeavyInSight, CoversOnce, Heavy, Total
<1> QED
  BY <1>5, <1>6, <1>8

(* The scan stops at a column too light to count: isolated columns, and    *)
(* those worth more than half a bin, come before it.                       *)
LEMMA EndScanKeeps ==
  ASSUME RoundingInv, pc = "scan", EndScan, UNCHANGED <<rule, value>>
  PROVE  RoundingInv'
<1> USE DEF RoundingInv
<1>1. /\ chosen' = chosen /\ unseen' = unseen /\ pc' = "repair" /\ loose' = loose
      /\ rule' = rule /\ value' = value
  BY DEF EndScan
<1>2. ASSUME NEW c \in unseen, 2 * value[c] > One PROVE FALSE
  <2> DEFINE worths == {value[d] : d \in unseen}
  <2>1. IsFiniteSet(unseen) /\ \A d \in unseen : value[d] \in 0..One /\ value[d] \in Int
    BY ColumnsFacts, FS_Subset, OneAssumption DEF TypeOK, Values
  <2>2. IsFiniteSet(worths) /\ worths \in SUBSET Int /\ worths # {}
    <3>1. worths \in SUBSET (0..One) /\ worths # {}
      BY <1>2, <2>1
    <3>2. IsFiniteSet(0..One)
      BY OneAssumption, FS_Interval
    <3>3. worths \in SUBSET Int
      BY <2>1
    <3> QED
      BY <3>1, <3>2, <3>3, FS_Subset
  <2>3. PICK d \in unseen : \A e \in unseen : value[e] =< value[d]
    <3> HIDE DEF worths
    <3>1. Max(worths) \in worths /\ \A x \in worths : x =< Max(worths)
      BY <2>2, MaxExists
    <3> QED
      BY <3>1 DEF worths
  <2>4. d \in Heaviest /\ 2 * value[d] > One
    BY <1>2, <2>1, <2>3, OneAssumption DEF Heaviest
  <2>5. Counts(d)
    BY <2>1, <2>4, OneAssumption DEF Counts
  <2> QED
    BY <2>4, <2>5 DEF EndScan
<1>3. /\ TypeOK' /\ ReturnsPacking' /\ NoTwoBinsMerge' /\ RepairFollowsScan'
      /\ ScanTakesOnce' /\ ScanIsOrdered'
  BY <1>1 DEF TypeOK, ReturnsPacking, NoTwoBinsMerge, RepairFollowsScan, ScanTakesOnce,
     ScanIsOrdered, InChosen, InLoose, Support, Used
<1>4. IsolatedInSight'
  <2>1. \A c \in unseen : value[c] # One
    BY <1>2, OneAssumption
  <2> QED
    BY <1>1, <2>1 DEF IsolatedInSight, Isolated, Support, Used
<1>5. HeavyInSight'
  BY <1>1, <1>2 DEF HeavyInSight, CoversOnce, Heavy, Total
<1> QED
  BY <1>3, <1>4, <1>5
-----------------------------------------------------------------------------
(* What an item that is left brings into the bin it is placed in.          *)
LEMMA LooseFacts ==
  ASSUME TypeOK, NEW k \in DOMAIN loose, NEW i \in Left
  PROVE  /\ k \in 1..Len(loose) /\ loose[k] \in SUBSET Items /\ loose[k] # {}
         /\ i \in Items /\ i \notin loose[k]
         /\ Load[loose[k]] \in Nat /\ Weight[i] \in Nat /\ Capacity \in Nat
         /\ Load[loose[k] \cup {i}] = Load[loose[k]] + Weight[i]
<1>1. k \in 1..Len(loose) /\ loose[k] \in SUBSET Items /\ loose[k] # {}
  BY ElementOfSeq DEF TypeOK, Patterns
<1>2. i \in Items /\ i \notin loose[k]
  BY DEF Left, InLoose
<1>3. Load[loose[k]] \in Nat /\ Weight[i] \in Nat /\ Capacity \in Nat
  BY <1>1, <1>2, LoadFacts, InstanceAssumption
<1>4. Load[loose[k] \cup {i}] = Load[loose[k]] + Load[{i}]
  BY <1>1, <1>2, LoadAdds
<1> QED
  BY <1>1, <1>2, <1>3, <1>4, LoadOfItem

LEMMA PlaceKeeps ==
  ASSUME RoundingInv, pc = "repair", NEW i \in Left, Place(i),
         UNCHANGED <<rule, value, pc, unseen, chosen>>
  PROVE  RoundingInv'
<1> USE DEF RoundingInv
<1>1. PICK k \in DOMAIN loose : IsBestFit(k, i) /\ loose' = [loose EXCEPT ![k] = @ \cup {i}]
  BY DEF Place
<1>2. loose[k] \cup {i} \in Patterns
  <2>1. Load[loose[k]] + Weight[i] =< Capacity
    <3>1. Slack(k, i) >= 0
      BY <1>1 DEF IsBestFit, Fits
    <3>2. Load[loose[k]] \in Nat /\ Weight[i] \in Nat /\ Capacity \in Nat
      BY LooseFacts
    <3> QED
      BY <3>1, <3>2 DEF Slack
  <2> QED
    BY <2>1, LooseFacts DEF Patterns
<1>3. /\ loose \in Seq(Patterns) /\ DOMAIN loose = 1..Len(loose)
      /\ loose' \in Seq(Patterns) /\ DOMAIN loose' = DOMAIN loose
      /\ \A l \in DOMAIN loose : loose'[l] = IF l = k THEN loose[k] \cup {i} ELSE loose[l]
  BY <1>1, <1>2, ExceptSeq DEF TypeOK
<1>4. InLoose' = InLoose \cup {i}
  BY <1>3 DEF InLoose
<1>5. i \in Items /\ i \notin InChosen /\ i \notin InLoose
  BY DEF Left
<1>6. TypeOK'
  BY <1>3 DEF TypeOK
<1>7. ReturnsPacking'
  <2>1. \A l, m \in DOMAIN loose : l # m => loose'[l] \cap loose'[m] = {}
    BY <1>3, <1>5 DEF ReturnsPacking, InLoose
  <2> QED
    BY <1>3, <1>4, <1>5, <2>1 DEF ReturnsPacking, InChosen
<1>8. NoTwoBinsMerge'
  <2>1. \A l \in DOMAIN loose : /\ Load[loose[l]] \in Nat /\ Load[loose'[l]] \in Nat
                                /\ Load[loose[l]] =< Load[loose'[l]]
    <3> SUFFICES ASSUME NEW l \in DOMAIN loose
                 PROVE  /\ Load[loose[l]] \in Nat /\ Load[loose'[l]] \in Nat
                        /\ Load[loose[l]] =< Load[loose'[l]]
      OBVIOUS
    <3>1. /\ Load[loose[l]] \in Nat /\ Weight[i] \in Nat
          /\ Load[loose[l] \cup {i}] = Load[loose[l]] + Weight[i]
      BY LooseFacts
    <3>2. CASE l = k
      <4>1. loose'[l] = loose[l] \cup {i}
        BY <1>3, <3>2
      <4> QED
        BY <3>1, <4>1
    <3>3. CASE l # k
      <4>1. loose'[l] = loose[l]
        BY <1>3, <3>3
      <4> QED
        BY <3>1, <4>1
    <3> QED
      BY <3>2, <3>3
  <2> QED
    BY <1>3, <2>1, InstanceAssumption DEF NoTwoBinsMerge
<1>9. RepairFollowsScan' /\ ScanTakesOnce' /\ ScanIsOrdered' /\ IsolatedInSight' /\ HeavyInSight'
  BY DEF RepairFollowsScan, ScanTakesOnce, ScanIsOrdered, IsolatedInSight, HeavyInSight, Isolated,
     Support, Used, CoversOnce, Heavy, Total
<1> QED
  BY <1>6, <1>7, <1>8, <1>9

(* A bin is opened for an item that fits in no other.                      *)
LEMMA OpenKeeps ==
  ASSUME RoundingInv, pc = "repair", NEW i \in Left, Open(i),
         UNCHANGED <<rule, value, pc, unseen, chosen>>
  PROVE  RoundingInv'
<1> USE DEF RoundingInv
<1> DEFINE n == Len(loose) + 1
<1>1. i \in Items /\ i \notin InChosen /\ i \notin InLoose
  BY DEF Left
<1>2. /\ {i} \in Patterns /\ Load[{i}] = Weight[i]
      /\ Weight[i] \in Nat /\ Capacity \in Nat
  BY <1>1, LoadOfItem, InstanceAssumption DEF Patterns
<1>3. /\ loose \in Seq(Patterns) /\ DOMAIN loose = 1..Len(loose) /\ Len(loose) \in Nat
      /\ loose' \in Seq(Patterns) /\ DOMAIN loose' = 1..n
      /\ \A l \in 1..Len(loose) : loose'[l] = loose[l]
      /\ loose'[n] = {i}
  BY <1>2, AppendProperties DEF TypeOK, Open
<1>4. InLoose' = InLoose \cup {i}
  BY <1>3 DEF InLoose
<1>5. TypeOK'
  BY <1>3 DEF TypeOK
<1>6. ReturnsPacking'
  <2>1. \A l \in 1..Len(loose) : i \notin loose[l]
    BY <1>1, <1>3 DEF InLoose
  <2>2. \A l, m \in 1..n : l # m => loose'[l] \cap loose'[m] = {}
    BY <1>3, <2>1 DEF ReturnsPacking
  <2> QED
    BY <1>1, <1>3, <1>4, <2>2 DEF ReturnsPacking, InChosen
<1>7. NoTwoBinsMerge'
  <2>1. \A l \in 1..Len(loose) : /\ Load[loose[l]] \in Nat
                                 /\ Load[loose[l]] + Weight[i] > Capacity
    <3> SUFFICES ASSUME NEW l \in DOMAIN loose
                 PROVE  Load[loose[l]] \in Nat /\ Load[loose[l]] + Weight[i] > Capacity
      BY <1>3
    <3>1. Load[loose[l]] \in Nat
      BY LooseFacts
    <3>2. ~(Slack(l, i) >= 0)
      BY DEF Open, Fits
    <3> QED
      BY <1>2, <3>1, <3>2 DEF Slack
  <2>2. \A l, m \in 1..n : l # m => Load[loose'[l]] + Load[loose'[m]] > Capacity
    <3> SUFFICES ASSUME NEW l \in 1..n, NEW m \in 1..n, l # m
                 PROVE  Load[loose'[l]] + Load[loose'[m]] > Capacity
      OBVIOUS
    <3>1. CASE l # n /\ m # n
      <4>1. /\ l \in DOMAIN loose /\ m \in DOMAIN loose
            /\ loose'[l] = loose[l] /\ loose'[m] = loose[m]
        BY <1>3, <3>1
      <4>2. Load[loose[l]] + Load[loose[m]] > Capacity
        BY <4>1 DEF NoTwoBinsMerge
      <4> QED
        BY <4>1, <4>2
    <3>2. CASE l = n
      <4>1. m \in 1..Len(loose)
        BY <1>3, <3>2
      <4>2. loose'[m] = loose[m]
        BY <1>3, <4>1
      <4>3. Load[loose'[l]] = Weight[i]
        BY <1>2, <1>3, <3>2
      <4> QED
        BY <1>2, <2>1, <4>1, <4>2, <4>3
    <3>3. CASE m = n
      <4>1. l \in 1..Len(loose)
        BY <1>3, <3>3
      <4>2. loose'[l] = loose[l]
        BY <1>3, <4>1
      <4>3. Load[loose'[m]] = Weight[i]
        BY <1>2, <1>3, <3>3
      <4> QED
        BY <1>2, <2>1, <4>1, <4>2, <4>3
    <3> QED
      BY <3>1, <3>2, <3>3
  <2> QED
    BY <1>3, <2>2 DEF NoTwoBinsMerge
<1>8. RepairFollowsScan' /\ ScanTakesOnce' /\ ScanIsOrdered' /\ IsolatedInSight' /\ HeavyInSight'
  BY DEF RepairFollowsScan, ScanTakesOnce, ScanIsOrdered, IsolatedInSight, HeavyInSight, Isolated,
     Support, Used, CoversOnce, Heavy, Total
<1> QED
  BY <1>5, <1>6, <1>7, <1>8

LEMMA RoundingStep == RoundingInv /\ [Next]_vars => RoundingInv'
<1> SUFFICES ASSUME RoundingInv, [Next]_vars PROVE RoundingInv'
  OBVIOUS
<1>1. CASE Scan
  BY <1>1, TakeKeeps, SkipKeeps, EndScanKeeps DEF Scan
<1>2. CASE PackItem
  BY <1>2, PlaceKeeps, OpenKeeps DEF PackItem
<1>3. CASE Return
  <2>1. InChosen \cup InLoose = Items
    <3>1. InChosen \in SUBSET Items
      BY ColumnsFacts DEF RoundingInv, TypeOK, InChosen
    <3>2. InLoose \in SUBSET Items
      BY ElementOfSeq DEF RoundingInv, TypeOK, InLoose, Patterns
    <3> QED
      BY <1>3, <3>1, <3>2 DEF Return, Left
  <2> QED
    BY <1>3, <2>1 DEF Return, RoundingInv, TypeOK, ReturnsPacking, NoTwoBinsMerge,
       RepairFollowsScan, ScanTakesOnce, ScanIsOrdered, IsolatedInSight, HeavyInSight, Isolated,
       Support, Used, CoversOnce, Heavy, Total, InChosen, InLoose
<1>4. CASE UNCHANGED vars
  BY <1>4 DEF vars, RoundingInv, TypeOK, ReturnsPacking, NoTwoBinsMerge, RepairFollowsScan,
     ScanTakesOnce, ScanIsOrdered, IsolatedInSight, HeavyInSight, Isolated, Support, Used,
     CoversOnce, Heavy, Total, InChosen, InLoose
<1> QED
  BY <1>1, <1>2, <1>3, <1>4 DEF Next

(* Every state of a rounding satisfies the inductive invariant.            *)
THEOREM RoundingInvariant == Spec => []RoundingInv
<1> QED
  BY RoundingInit, RoundingStep, PTL DEF Spec
-----------------------------------------------------------------------------
(* The scan takes columns of the pool and the repair opens bins that hold  *)
(* patterns: no bin it returns is overloaded.                              *)
THEOREM RoundingTypeCorrect == Spec => []TypeOK
<1>1. RoundingInv => TypeOK
  BY DEF RoundingInv
<1> QED
  BY <1>1, RoundingInvariant, PTL

(* What is returned is a packing: no item is packed twice, and none is     *)
(* left out (src/solver/heuristics.cpp).                                   *)
THEOREM RoundingPacks == Spec => []ReturnsPacking
<1>1. RoundingInv => ReturnsPacking
  BY DEF RoundingInv
<1> QED
  BY <1>1, RoundingInvariant, PTL

(* Best-fit decreasing leaves no two bins that one would hold.             *)
THEOREM RepairIsTight == Spec => []NoTwoBinsMerge
<1>1. RoundingInv => NoTwoBinsMerge
  BY DEF RoundingInv
<1> QED
  BY <1>1, RoundingInvariant, PTL

(* A column taken whole and in conflict with no other is a bin of the      *)
(* result, in whatever order the scan meets the columns.                   *)
THEOREM IsolatedColumnsKept == Spec => []IsolatedKept
<1>1. RoundingInv => IsolatedKept
  BY DEF RoundingInv, IsolatedInSight, Isolated, IsolatedKept
<1> QED
  BY <1>1, RoundingInvariant, PTL

(* The heavy columns are kept; they hold all the items, so that the scan   *)
(* can take no other column, and nothing is left to repair.                *)
LEMMA PartitionIsCaptured == RoundingInv => PartitionCaptured
<1> SUFFICES ASSUME RoundingInv, pc = "done", CoversOnce(value), UNION Heavy(value) = Items
             PROVE  chosen = Heavy(value) /\ loose = <<>>
  BY DEF PartitionCaptured
<1> USE DEF RoundingInv
<1>1. Heavy(value) \subseteq chosen
  BY DEF HeavyInSight
<1>2. ASSUME NEW c \in chosen PROVE c \in Heavy(value)
  <2>1. c \in SUBSET Items /\ c # {}
    BY ColumnsFacts DEF TypeOK
  <2>2. PICK i \in c : i \in Items
    BY <2>1
  <2>3. PICK d \in Heavy(value) : i \in d
    BY <2>2
  <2> QED
    BY <1>1, <2>2, <2>3 DEF ReturnsPacking
<1>3. chosen = Heavy(value)
  BY <1>1, <1>2
<1>4. InChosen = Items
  BY <1>3 DEF InChosen
<1>6. ASSUME NEW k \in DOMAIN loose PROVE FALSE
  <2>1. loose[k] \in SUBSET Items /\ loose[k] # {}
    BY <1>6, ElementOfSeq DEF TypeOK, Patterns
  <2>2. PICK i \in loose[k] : TRUE
    BY <2>1
  <2>3. i \in InLoose /\ i \in InChosen
    BY <1>4, <1>6, <2>1, <2>2 DEF InLoose
  <2> QED
    BY <2>3 DEF ReturnsPacking
<1>7. loose = <<>>
  <2>1. loose \in Seq(Patterns) /\ DOMAIN loose = 1..Len(loose) /\ Len(loose) \in Nat
    BY DEF TypeOK
  <2>2. Len(loose) = 0
    <3> SUFFICES ASSUME Len(loose) # 0 PROVE FALSE
      OBVIOUS
    <3>1. 1 \in DOMAIN loose
      BY <2>1
    <3> QED
      BY <1>6, <3>1
  <2> QED
    BY <2>1, <2>2, EmptySeq
<1> QED
  BY <1>3, <1>7

(* A master solution that covers every item once, and takes a partition of *)
(* the items nearly whole, is rounded to that partition whatever small     *)
(* values its other columns have (heuristics.cpp).                         *)
THEOREM PartitionsCaptured == Spec => []PartitionCaptured
<1> QED
  BY PartitionIsCaptured, RoundingInvariant, PTL
-----------------------------------------------------------------------------
(* An optimal master solution costs no more than any other.                *)
LEMMA OptimaFacts ==
  ASSUME NEW P, NEW T, NEW v \in Optima(P, T)
  PROVE  /\ v \in PoolSolutions(P, T) /\ v \in MasterSolutions /\ v \in [Columns -> Values]
         /\ \A w \in PoolSolutions(P, T) : Cost(v) =< Cost(w)
<1> DEFINE costs == {Cost(w) : w \in PoolSolutions(P, T)}
<1>1. /\ v \in PoolSolutions(P, T) /\ Cost(v) = Min(costs)
      /\ \A w \in PoolSolutions(P, T) : w \in MasterSolutions /\ w \in [Columns -> Values]
  BY DEF Optima, PoolSolutions, MasterSolutions
<1>2. \A w \in PoolSolutions(P, T) :
          Cost(w) \in Int /\ Cost(w) \in 0..(One * Cardinality(Columns))
  <2> SUFFICES ASSUME NEW w \in PoolSolutions(P, T)
               PROVE  Cost(w) \in Int /\ Cost(w) \in 0..(One * Cardinality(Columns))
    OBVIOUS
  <2>1. w \in [Columns -> Values] /\ Columns \in SUBSET Columns
    BY <1>1
  <2>2. Total(w, Columns) \in Nat /\ \A c \in Columns : w[c] =< One
    BY <2>1, TotalIsSum
  <2>3. Total(w, Columns) =< One * Cardinality(Columns) /\ Cardinality(Columns) \in Nat
    BY <2>1, <2>2, TotalOfSmall, OneAssumption
  <2> QED
    BY <2>2, <2>3, OneAssumption DEF Cost
<1>3. costs \in SUBSET Int /\ costs # {} /\ IsFiniteSet(costs)
  <2>1. costs \in SUBSET (0..(One * Cardinality(Columns))) /\ costs \in SUBSET Int /\ costs # {}
    BY <1>1, <1>2
  <2>2. One * Cardinality(Columns) \in Int
    BY OneAssumption, ColumnsFacts, FS_CardinalityType
  <2>3. IsFiniteSet(0..(One * Cardinality(Columns)))
    BY <2>2, FS_Interval
  <2> QED
    BY <2>1, <2>3, FS_Subset
<1>4. \A x \in costs : Min(costs) =< x
  <2> HIDE DEF costs
  <2> QED
    BY <1>3, MinExists
<1> QED
  BY <1>1, <1>4

(* A column in use has an item that is covered exactly once: otherwise a   *)
(* little less of the column would do, at a lower cost.                    *)
LEMMA OptimaAreTight ==
  ASSUME NEW P, NEW T, NEW v \in Optima(P, T), NEW c \in Columns, v[c] > 0
  PROVE  \E i \in c : i \in Items /\ Total(v, Covering(i)) = One
<1> DEFINE w == [v EXCEPT ![c] = @ - 1]
<1>1. v \in PoolSolutions(P, T) /\ v \in MasterSolutions /\ v \in [Columns -> Values]
  BY OptimaFacts
<1>2. w \in [Columns -> Values] /\ w[c] = v[c] - 1 /\ \A d \in Columns \ {c} : w[d] = v[d]
  BY <1>1, OneAssumption DEF Values
<1> HIDE DEF w
<1>3. ASSUME NEW S \in SUBSET Columns
      PROVE  Total(w, S) = Total(v, S) - (IF c \in S THEN 1 ELSE 0)
  <2> DEFINE R == S \ {c}
  <2>1. R \in SUBSET Columns /\ \A d \in R : w[d] = v[d]
    BY <1>2
  <2>2. Total(w, R) = Total(v, R) /\ Total(v, R) \in Nat
    <3>1. /\ IsFiniteSet(R) /\ Total(v, R) = SumFunctionOnSet(v, R) /\ Total(v, R) \in Nat
          /\ \A d \in R : v[d] \in Int
      BY <1>1, <2>1, TotalIsSum
    <3>2. Total(w, R) = SumFunctionOnSet(w, R) /\ \A d \in R : w[d] \in Int
      BY <1>2, <2>1, TotalIsSum
    <3> HIDE DEF R
    <3>3. SumFunctionOnSet(w, R) = SumFunctionOnSet(v, R)
      BY <2>1, <3>1, <3>2, SumAgrees
    <3> QED
      BY <3>1, <3>2, <3>3
  <2>3. CASE c \in S
    <3>1. Total(w, S) = w[c] + Total(w, R)
      BY <1>2, <2>3, TotalSplits
    <3>2. Total(v, S) = v[c] + Total(v, R)
      BY <1>1, <2>3, TotalSplits
    <3>3. v[c] \in Int
      BY <1>1, TotalIsSum
    <3> HIDE DEF R
    <3> QED
      BY <1>2, <2>2, <2>3, <3>1, <3>2, <3>3
  <2>4. CASE c \notin S
    <3>1. R = S
      BY <2>4
    <3> QED
      BY <2>2, <2>4, <3>1
  <2> QED
    BY <2>3, <2>4
<1>4. c \in SUBSET Items /\ \A i \in Items : Covering(i) \in SUBSET Columns
  BY CoveringFacts
<1> SUFFICES ASSUME \A i \in c : Total(v, Covering(i)) # One PROVE FALSE
  BY <1>4
<1>5. w \in MasterSolutions
  <2> SUFFICES ASSUME NEW i \in Items PROVE Total(w, Covering(i)) >= One
    BY <1>2 DEF MasterSolutions
  <2>1. Total(v, Covering(i)) >= One /\ Total(v, Covering(i)) \in Nat
    BY <1>1, <1>4, TotalIsSum DEF MasterSolutions
  <2>2. c \in Covering(i) => i \in c
    BY DEF Covering
  <2>3. Total(w, Covering(i)) = Total(v, Covering(i)) - (IF c \in Covering(i) THEN 1 ELSE 0)
    BY <1>3, <1>4
  <2> QED
    BY <2>1, <2>2, <2>3, OneAssumption
<1>6. Used(w) \subseteq P
  <2>1. Used(w) \subseteq Used(v)
    BY <1>2 DEF Used
  <2> QED
    BY <1>1, <2>1 DEF PoolSolutions
<1>7. ASSUME NEW t \in T PROVE Total(w, CutRow(t)) =< One
  <2>1. CutRow(t) \in SUBSET Columns
    BY DEF CutRow
  <2>2. Total(v, CutRow(t)) =< One /\ Total(v, CutRow(t)) \in Nat
    BY <1>1, <2>1, TotalIsSum DEF PoolSolutions
  <2>3. Total(w, CutRow(t)) = Total(v, CutRow(t)) - (IF c \in CutRow(t) THEN 1 ELSE 0)
    BY <1>3, <2>1
  <2> QED
    BY <2>2, <2>3, OneAssumption
<1>8. w \in PoolSolutions(P, T)
  BY <1>5, <1>6, <1>7 DEF PoolSolutions
<1>9. Total(w, Columns) = Total(v, Columns) - 1 /\ Total(v, Columns) \in Nat
  BY <1>1, <1>3, TotalIsSum
<1>10. Cost(v) =< Cost(w)
  BY <1>8, OptimaFacts
<1> QED
  BY <1>9, <1>10 DEF Cost
-----------------------------------------------------------------------------
(* What the remainders of a co-occurrence can be.                          *)
LEMMA RemainderFacts ==
  ASSUME NEW n \in Nat, NEW m \in Nat \ {0}
  PROVE  /\ n % m \in Nat /\ n % m < m
         /\ n < m => n % m = n
         /\ n = m => n % m = 0
<1>1. n % m \in 0..(m - 1)
  OBVIOUS
<1>2. n < m => n % m = n
  OBVIOUS
<1>3. n = m => n % m = 0
  OBVIOUS
<1> QED
  BY <1>1, <1>2, <1>3

(* The columns in which the items of a pair share a bin.                   *)
Sharing(p) == {c \in Columns : Both(p, c)}

(* The pairs that a rule may keep.                                         *)
Wanted(p) ==
    IsFractional(p) /\ (pair_rule = "most_confirmed" => Together(p) < One - Tolerance)

(* The pair kept, k, is as good as those of S, as PicksBest has it.        *)
BestOf(S, k) ==
    /\ k # NoPair => Wanted(k)
    /\ \A p \in S : Wanted(p) =>
           /\ k # NoPair
           /\ IF pair_rule = "most_fractional"
              THEN /\ Fractionality(p) =< Fractionality(k) + Tolerance * Cardinality(S)
                   /\ (Tolerance = 0 /\ Fractionality(p) = Fractionality(k))
                          => PairWeight(p) =< PairWeight(k)
              ELSE Together(p) =< Together(k) + Tolerance

(* The solution scanned is one the LP solver may return.                   *)
MasterIsOptimal ==
    \E P \in SUBSET Columns, T \in SUBSET SeparatedCuts : master_values \in Optima(P, T)

(* The inductive invariant.                                                *)
PairInv ==
    /\ PairTypeOK
    /\ MasterIsOptimal
    /\ BestOf(seen, selected)
    /\ pair_pc = "done" => seen = Pairs

LEMMA PairsFacts ==
  /\ NoPair \notin Pairs
  /\ IsFiniteSet(Pairs)
  /\ \A p \in Pairs : /\ p[1] \in Items /\ p[2] \in Items /\ p[1] # p[2]
                      /\ PairWeight(p) \in Nat
<1>1. Items \subseteq Nat /\ Weight \in [Items -> Nat \ {0}]
  BY InstanceAssumption
<1>2. \A p \in Pairs : /\ p[1] \in Items /\ p[2] \in Items /\ p[1] \in Nat /\ p[2] \in Nat
                       /\ p[1] < p[2]
  BY <1>1 DEF Pairs
<1>3. \A p \in Pairs : p[1] # p[2] /\ PairWeight(p) \in Nat
  BY <1>1, <1>2 DEF PairWeight
<1>4. NoPair \notin Pairs
  BY <1>2 DEF NoPair
<1>5. IsFiniteSet(Items \X Items) /\ Pairs \in SUBSET (Items \X Items)
  BY ItemsFacts, FS_Product DEF Pairs
<1> QED
  BY <1>2, <1>3, <1>4, <1>5, FS_Subset

(* A pair together for part of a bin is fractional, and the other way      *)
(* round; no pair is together all the time for nothing.                    *)
LEMMA TogetherFacts ==
  ASSUME master_values \in [Columns -> Values], NEW p \in Pairs \cup {NoPair}
  PROVE  /\ Together(p) \in Nat /\ Fractionality(p) \in Nat
         /\ IsFractional(p) => Together(p) > 0 /\ Together(p) # One
         /\ IsFractional(p) /\ Together(p) < One => Together(p) > Tolerance
         /\ Tolerance < Together(p) /\ Together(p) < One - Tolerance => IsFractional(p)
         /\ p = NoPair => Together(p) = 0 /\ Fractionality(p) = 0
<1> DEFINE above == Together(p) % One
<1>1. Together(p) \in Nat
  <2>1. Sharing(p) \in SUBSET Columns /\ Together(p) = Total(master_values, Sharing(p))
    BY DEF Sharing, Together
  <2> QED
    BY <2>1, TotalIsSum
<1>2. /\ above \in Nat /\ above < One
      /\ Together(p) < One => above = Together(p)
      /\ Together(p) = One => above = 0
  BY <1>1, RemainderFacts, OneAssumption
<1>3. Fractionality(p) = IF 2 * above =< One THEN above ELSE One - above
  BY DEF Fractionality
<1>4. One \in Nat \ {0} /\ Tolerance \in Nat
  BY OneAssumption, PairSelectionAssumption
<1> HIDE DEF above
<1>5. p = NoPair => Together(p) = 0
  <2> SUFFICES ASSUME p = NoPair PROVE Together(p) = 0
    OBVIOUS
  <2>1. \A c \in Columns : c \subseteq Items /\ -1 \notin c
    BY ColumnsFacts, InstanceAssumption
  <2>2. {c \in Columns : Both(p, c)} = {}
    BY <2>1 DEF Both, NoPair
  <2>3. {} \in SUBSET Columns /\ Total(master_values, {}) = SumFunctionOnSet(master_values, {})
    BY TotalIsSum
  <2> QED
    BY <2>2, <2>3, SumEmpty DEF Together
<1> QED
  BY <1>1, <1>2, <1>3, <1>4, <1>5 DEF IsFractional

(* Examining one more pair.                                                *)
LEMMA ExamineKeepsBest ==
  ASSUME PairTypeOK, BestOf(seen, selected), NEW p \in Pairs \ seen
  PROVE  BestOf(seen \cup {p}, IF Better(p) THEN p ELSE selected)
<1> DEFINE k == IF Better(p) THEN p ELSE selected
           S == seen \cup {p}
           n == Cardinality(seen)
           t == Tolerance * n
           u == Tolerance * Cardinality(S)
<1>1. /\ pair_rule \in PairRules /\ master_values \in [Columns -> Values]
      /\ seen \subseteq Pairs /\ selected \in Pairs \cup {NoPair} /\ p \in Pairs
  BY DEF PairTypeOK, MasterSolutions
<1>2. \A q \in Pairs \cup {NoPair} : Together(q) \in Nat /\ Fractionality(q) \in Nat
  BY <1>1, TogetherFacts
<1>3. \A q \in Pairs : PairWeight(q) \in Nat /\ q # NoPair
  BY PairsFacts
<1>4. Tolerance \in Nat /\ One \in Nat
  BY PairSelectionAssumption, OneAssumption
<1>5. n \in Nat /\ Cardinality(S) = n + 1 /\ IsFiniteSet(seen)
  BY <1>1, PairsFacts, FS_Subset, FS_AddElement, FS_CardinalityType
<1>6. u = t + Tolerance /\ t \in Nat /\ (Tolerance = 0 => t = 0)
  <2>1. Tolerance * (n + 1) = Tolerance * n + Tolerance
    BY <1>4, <1>5
  <2>2. Tolerance * n \in Nat /\ (Tolerance = 0 => Tolerance * n = 0)
    BY <1>4, <1>5
  <2> HIDE DEF S, n
  <2> QED
    BY <1>5, <2>1, <2>2
<1>7. NoPair \in Pairs \cup {NoPair} /\ Together(NoPair) = 0 /\ Fractionality(NoPair) = 0
  BY <1>1, TogetherFacts
<1>8. Better(p) => Wanted(p)
  BY <1>1 DEF Better, MoreFractional, MoreConfirmed, Wanted, PairRules
<1>9. k # NoPair => Wanted(k)
  BY <1>8 DEF BestOf
<1> HIDE DEF S, n, t, u
<1>10. ASSUME NEW q \in S, Wanted(q), pair_rule = "most_fractional"
       PROVE  /\ k # NoPair
              /\ Fractionality(q) =< Fractionality(k) + u
              /\ (Tolerance = 0 /\ Fractionality(q) = Fractionality(k))
                     => PairWeight(q) =< PairWeight(k)
  <2>1. /\ q \in Pairs /\ Fractionality(q) \in Nat /\ Fractionality(p) \in Nat
        /\ Fractionality(selected) \in Nat /\ PairWeight(q) \in Nat /\ PairWeight(p) \in Nat
        /\ selected # NoPair => PairWeight(selected) \in Nat
    BY <1>1, <1>2, <1>3 DEF S
  <2>2. Fractionality(q) > Tolerance
    BY <1>10 DEF Wanted, IsFractional
  <2>3. q \in seen => /\ selected # NoPair
                      /\ Fractionality(q) =< Fractionality(selected) + t
                      /\ (Tolerance = 0 /\ Fractionality(q) = Fractionality(selected))
                             => PairWeight(q) =< PairWeight(selected)
    BY <1>10 DEF BestOf, n, t
  <2>4. Better(p) <=> MoreFractional(p)
    BY <1>10 DEF Better
  <2>5. CASE Better(p)
    <3>1. k = p /\ p # NoPair
      BY <1>3, <2>5
    <3>2. \/ Fractionality(p) > Fractionality(selected) + Tolerance
          \/ /\ selected # NoPair
             /\ Fractionality(p) - Fractionality(selected) \in (-Tolerance)..Tolerance
             /\ PairWeight(p) > PairWeight(selected)
      BY <2>4, <2>5 DEF MoreFractional, Tied
    <3>3. /\ Fractionality(p) + Tolerance >= Fractionality(selected)
          /\ Tolerance = 0 => \/ Fractionality(p) > Fractionality(selected)
                              \/ /\ Fractionality(p) = Fractionality(selected)
                                 /\ selected # NoPair /\ PairWeight(p) > PairWeight(selected)
      BY <1>4, <2>1, <3>2
    <3>4. CASE q \in seen
      <4> HIDE DEF k
      <4>1. Fractionality(q) =< Fractionality(p) + t + Tolerance
        BY <1>4, <1>6, <2>1, <2>3, <3>3, <3>4
      <4>2. ASSUME Tolerance = 0, Fractionality(q) = Fractionality(p)
            PROVE  PairWeight(q) =< PairWeight(p)
        BY <1>6, <2>1, <2>3, <3>3, <3>4, <4>2
      <4> QED
        BY <1>4, <1>6, <2>1, <3>1, <4>1, <4>2
    <3>5. CASE q = p
      <4> HIDE DEF k
      <4> QED
        BY <1>4, <1>6, <2>1, <3>1, <3>5
    <3> QED
      BY <3>4, <3>5 DEF S
  <2>6. CASE ~Better(p)
    <3>1. k = selected
      BY <2>6
    <3>2. CASE q \in seen
      <4> HIDE DEF k
      <4>1. Fractionality(q) =< Fractionality(selected) + t + Tolerance
        BY <1>4, <1>6, <2>1, <2>3, <3>2
      <4> QED
        BY <1>4, <1>6, <2>1, <2>3, <3>1, <3>2, <4>1
    <3>3. CASE q = p
      <4> HIDE DEF k
      <4>1. ~(Fractionality(p) > Fractionality(selected) + Tolerance)
        BY <1>10, <2>4, <2>6, <3>3 DEF MoreFractional, Wanted
      <4>2. selected # NoPair
        BY <1>4, <1>7, <2>1, <2>2, <3>3, <4>1
      <4>3. ASSUME Tolerance = 0, Fractionality(p) = Fractionality(selected)
            PROVE  PairWeight(p) =< PairWeight(selected)
        <5>1. Tied(p)
          BY <2>1, <4>2, <4>3 DEF Tied
        <5>2. ~(PairWeight(p) > PairWeight(selected))
          BY <1>10, <2>4, <2>6, <3>3, <5>1 DEF MoreFractional, Wanted
        <5> QED
          BY <2>1, <4>2, <5>2
      <4> QED
        BY <1>4, <1>6, <2>1, <3>1, <3>3, <4>1, <4>2, <4>3
    <3> QED
      BY <3>2, <3>3 DEF S
  <2> QED
    BY <2>5, <2>6
<1>11. ASSUME NEW q \in S, Wanted(q), pair_rule # "most_fractional"
       PROVE  k # NoPair /\ Together(q) =< Together(k) + Tolerance
  <2>1. /\ pair_rule = "most_confirmed" /\ q \in Pairs /\ Together(q) \in Nat
        /\ Together(p) \in Nat /\ Together(selected) \in Nat
    BY <1>1, <1>2, <1>11 DEF S, PairRules
  <2>2. Together(q) < One - Tolerance /\ Together(q) > Tolerance
    <3>1. IsFractional(q) /\ Together(q) < One - Tolerance
      BY <1>11, <2>1 DEF Wanted
    <3>2. Together(q) < One
      BY <1>4, <2>1, <3>1
    <3> QED
      BY <1>1, <2>1, <3>1, <3>2, TogetherFacts
  <2>3. q \in seen => selected # NoPair /\ Together(q) =< Together(selected) + Tolerance
    BY <1>11 DEF BestOf
  <2>4. Better(p) <=> MoreConfirmed(p)
    BY <2>1 DEF Better
  <2>5. CASE Better(p)
    <3>1. k = p /\ p # NoPair /\ Together(p) > Together(selected) + Tolerance
      BY <1>3, <2>4, <2>5 DEF MoreConfirmed
    <3> HIDE DEF k
    <3> QED
      BY <1>4, <2>1, <2>3, <3>1 DEF S
  <2>6. CASE ~Better(p)
    <3>1. k = selected
      BY <2>6
    <3> HIDE DEF k
    <3>2. CASE q \in seen
      BY <2>3, <3>1, <3>2
    <3>3. CASE q = p
      <4>1. ~(Together(p) > Together(selected) + Tolerance)
        BY <1>11, <2>1, <2>4, <2>6, <3>3 DEF MoreConfirmed, Wanted
      <4>2. selected # NoPair
        BY <1>4, <1>7, <2>1, <2>2, <3>3, <4>1
      <4> QED
        BY <1>4, <2>1, <3>1, <3>3, <4>1, <4>2
    <3> QED
      BY <3>2, <3>3 DEF S
  <2> QED
    BY <2>5, <2>6
<1> HIDE DEF k
<1>12. BestOf(S, k)
  BY <1>9, <1>10, <1>11 DEF BestOf, u
<1> QED
  BY <1>12 DEF S, k

LEMMA PairInitInv == PairInit => PairInv
<1> SUFFICES ASSUME PairInit PROVE PairInv
  OBVIOUS
<1>1. PICK P \in Pools, T \in SUBSET SeparatedCuts : master_values \in Optima(P, T)
  BY DEF PairInit
<1>2. MasterIsOptimal
  BY <1>1, PairSelectionAssumption DEF MasterIsOptimal
<1>3. master_values \in MasterSolutions
  BY <1>1, OptimaFacts
<1> QED
  BY <1>2, <1>3 DEF PairInit, PairInv, PairTypeOK, BestOf

LEMMA PairStep ==
  ASSUME PairInv, PairNext
  PROVE  PairInv' /\ UNCHANGED <<pair_rule, master_values>>
<1>1. CASE ScanPairs
  <2>1. PICK p \in Pairs : Examine(p)
    BY <1>1 DEF ScanPairs
  <2>2. /\ pair_rule' = pair_rule /\ master_values' = master_values
        /\ pair_pc = "scan" /\ pair_pc' = "scan"
    BY <1>1 DEF ScanPairs
  <2>3. /\ p \in Pairs \ seen /\ seen' = seen \cup {p}
        /\ selected' = IF Better(p) THEN p ELSE selected
    BY <2>1 DEF Examine, IsNext
  <2>4. BestOf(seen \cup {p}, IF Better(p) THEN p ELSE selected)
    BY <2>3, ExamineKeepsBest DEF PairInv
  <2>5. BestOf(seen, selected)'
    BY <2>2, <2>3, <2>4
       DEF BestOf, Wanted, IsFractional, Fractionality, Together, PairWeight
  <2>6. PairTypeOK'
    BY <2>2, <2>3 DEF PairInv, PairTypeOK
  <2>7. MasterIsOptimal'
    BY <2>2 DEF PairInv, MasterIsOptimal
  <2> QED
    BY <2>2, <2>5, <2>6, <2>7 DEF PairInv
<1>2. CASE ReturnPair
  BY <1>2 DEF ReturnPair, PairInv, PairTypeOK, MasterIsOptimal, BestOf, Wanted, IsFractional,
     Fractionality, Together, PairWeight
<1> QED
  BY <1>1, <1>2 DEF PairNext

(* Every state of a scan satisfies the inductive invariant.                *)
THEOREM PairInvariant == PairSpec => []PairInv
<1>1. PairInv /\ [PairNext]_pair_vars => PairInv'
  <2>1. ASSUME PairInv, UNCHANGED pair_vars PROVE PairInv'
    BY <2>1 DEF pair_vars, PairInv, PairTypeOK, MasterIsOptimal, BestOf, Wanted, IsFractional,
       Fractionality, Together, PairWeight
  <2> QED
    BY <2>1, PairStep
<1> QED
  BY <1>1, PairInitInv, PTL DEF PairSpec

(* The pair returned is a pair of items, the smaller first                 *)
(* (src/search/branching.cpp).                                             *)
THEOREM PairTypeCorrect == PairSpec => []PairTypeOK
<1>1. PairInv => PairTypeOK
  BY DEF PairInv
<1> QED
  BY <1>1, PairInvariant, PTL
-----------------------------------------------------------------------------
(* Two columns of an item that are both worth something, and that leave    *)
(* room for each other: an item in one of them only makes a pair with the  *)
(* first that both rules look for.                                         *)
LEMMA SharedItemIsFractional ==
  ASSUME PairTypeOK, NEW i \in Items, Total(master_values, Covering(i)) = One,
         NEW c \in Covering(i), NEW d \in Covering(i),
         master_values[c] > Tolerance, master_values[d] > Tolerance,
         NEW j \in c \ d
  PROVE  \E p \in Pairs : IsFractional(p) /\ Together(p) < One - Tolerance
<1>1. master_values \in [Columns -> Values] /\ Covering(i) \in SUBSET Columns
  BY CoveringFacts DEF PairTypeOK, MasterSolutions
<1>2. /\ c \in Columns /\ d \in Columns /\ i \in c /\ i \in d /\ c # d /\ i # j /\ j \in Items
      /\ i \in Nat /\ j \in Nat
  BY ColumnsFacts, InstanceAssumption DEF Covering
<1>3. PICK p \in Pairs : {p[1], p[2]} = {i, j}
  <2>1. CASE i < j
    <3>1. <<i, j>> \in Pairs /\ {<<i, j>>[1], <<i, j>>[2]} = {i, j}
      BY <1>2, <2>1 DEF Pairs
    <3> QED
      BY <3>1
  <2>2. CASE j < i
    <3>1. <<j, i>> \in Pairs /\ {<<j, i>>[1], <<j, i>>[2]} = {i, j}
      BY <1>2, <2>2 DEF Pairs
    <3> QED
      BY <3>1
  <2> QED
    BY <1>2, <2>1, <2>2
<1>4. \A e \in Columns : Both(p, e) <=> i \in e /\ j \in e
  BY <1>3 DEF Both
<1> DEFINE S == {e \in Columns : Both(p, e)}
<1>5. /\ S \in SUBSET Columns /\ c \in S
      /\ S \in SUBSET (Covering(i) \ {d}) /\ Covering(i) \ {d} \in SUBSET Columns
  BY <1>2, <1>4 DEF Covering
<1>6. Together(p) = Total(master_values, S)
  BY DEF Together
<1> HIDE DEF S
<1>7. Together(p) >= master_values[c]
  <2>1. Total(master_values, S) >= master_values[c]
    BY <1>1, <1>5, TotalSplits
  <2> QED
    BY <1>6, <2>1
<1>8. Together(p) =< Total(master_values, Covering(i) \ {d})
  BY <1>1, <1>5, <1>6, TotalGrows
<1>9. Total(master_values, Covering(i)) =
          master_values[d] + Total(master_values, Covering(i) \ {d})
  BY <1>1, TotalSplits
<1>10. /\ Together(p) \in Nat /\ Total(master_values, Covering(i) \ {d}) \in Nat
       /\ master_values[c] \in Int /\ master_values[d] \in Int
       /\ One \in Nat /\ Tolerance \in Nat
  BY <1>1, <1>2, <1>5, <1>6, TotalIsSum, OneAssumption, PairSelectionAssumption DEF Values
<1>11. Tolerance < Together(p) /\ Together(p) < One - Tolerance
  BY <1>7, <1>8, <1>9, <1>10
<1> QED
  BY <1>1, <1>11, TogetherFacts

(* A column in use beyond the tolerance has an item covered exactly once.  *)
(* Where no pair is left to keep, the other columns of that item are all   *)
(* below the tolerance, and the column holds nearly all of it.             *)
LEMMA NoPairIsIntegral == PairInv => NoPairMeansIntegral
<1> SUFFICES ASSUME PairInv, pair_pc = "done", selected = NoPair,
                    NEW c \in Columns, ~(master_values[c] =< Tolerance)
             PROVE  master_values[c] >= One - Spare
  BY DEF NoPairMeansIntegral
<1>1. PairTypeOK /\ seen = Pairs /\ BestOf(Pairs, NoPair)
  BY DEF PairInv
<1>2. /\ master_values \in [Columns -> Values] /\ master_values[c] \in Int
      /\ Tolerance \in Nat /\ One \in Nat
  BY <1>1, OneAssumption, PairSelectionAssumption DEF PairTypeOK, MasterSolutions, Values
<1>3. ASSUME NEW p \in Pairs, IsFractional(p), Together(p) < One - Tolerance PROVE FALSE
  BY <1>1, <1>3 DEF BestOf, Wanted
<1>4. PICK i \in c : i \in Items /\ Total(master_values, Covering(i)) = One
  <2>1. PICK P \in SUBSET Columns, T \in SUBSET SeparatedCuts : master_values \in Optima(P, T)
    BY DEF PairInv, MasterIsOptimal
  <2>2. master_values[c] > 0
    BY <1>2
  <2> QED
    BY <2>1, <2>2, OptimaAreTight
<1>5. c \in Covering(i) /\ Covering(i) \in SUBSET Columns /\ Covering(i) \ {c} \in SUBSET Columns
  BY <1>4, CoveringFacts DEF Covering
<1>6. ASSUME NEW d \in Covering(i) \ {c} PROVE master_values[d] =< Tolerance
  <2> SUFFICES ASSUME ~(master_values[d] =< Tolerance) PROVE FALSE
    OBVIOUS
  <2>1. master_values[d] > Tolerance /\ master_values[c] > Tolerance
    BY <1>2, <1>5, TotalIsSum
  <2>2. c # d /\ d \in Covering(i)
    BY <1>6
  <2>3. CASE \E j \in c : j \notin d
    BY <1>1, <1>3, <1>4, <1>5, <2>1, <2>2, <2>3, SharedItemIsFractional
  <2>4. CASE \E j \in d : j \notin c
    BY <1>1, <1>3, <1>4, <1>5, <2>1, <2>2, <2>4, SharedItemIsFractional
  <2> QED
    BY <2>2, <2>3, <2>4
<1>7. /\ Cardinality(Covering(i) \ {c}) \in Nat
      /\ Total(master_values, Covering(i) \ {c}) =< Tolerance * Cardinality(Covering(i) \ {c})
  BY <1>2, <1>5, <1>6, TotalOfSmall
<1>8. /\ Cardinality(Columns) \in Nat
      /\ Cardinality(Covering(i) \ {c}) =< Cardinality(Columns)
  BY <1>5, ColumnsFacts, FS_Subset, FS_CardinalityType
<1>9. Tolerance * Cardinality(Covering(i) \ {c}) =< Spare /\ Spare \in Nat
  <2> DEFINE m == Cardinality(Covering(i) \ {c})
             n == Cardinality(Columns)
  <2>1. m \in Nat /\ n \in Nat /\ m =< n
    BY <1>7, <1>8
  <2> HIDE DEF m, n
  <2>2. Tolerance * m =< Tolerance * n /\ Tolerance * n \in Nat
    BY <1>2, <2>1
  <2> QED
    BY <2>2 DEF m, n, Spare
<1>10. One = master_values[c] + Total(master_values, Covering(i) \ {c})
  BY <1>2, <1>4, <1>5, TotalSplits
<1>11. Total(master_values, Covering(i) \ {c}) \in Nat
  BY <1>2, <1>5, TotalIsSum
<1> QED
  <2> DEFINE m == Tolerance * Cardinality(Covering(i) \ {c})
  <2>1. m \in Int /\ m =< Spare /\ Total(master_values, Covering(i) \ {c}) =< m
    BY <1>2, <1>7, <1>9
  <2> HIDE DEF m
  <2> QED
    BY <1>2, <1>9, <1>10, <1>11, <2>1

(* "integral" (branch_and_price.cpp:54, 137) for every instance, pool and  *)
(* set of cuts: an optimal master solution without a pair to branch on     *)
(* takes every column nearly whole or hardly at all.                       *)
THEOREM IntegralWithoutPair == PairSpec => []NoPairMeansIntegral
<1> QED
  BY NoPairIsIntegral, PairInvariant, PTL
-----------------------------------------------------------------------------
(* Some column in use has both items of the pair kept, and some has one of *)
(* them only.                                                              *)
LEMMA KeptPairIsSplit ==
  ASSUME PairInv, pair_pc = "done", selected # NoPair,
         pair_rule = "most_confirmed" \/ CoversOnce(master_values)
  PROVE  /\ selected \in Pairs
         /\ \E c \in Used(master_values) : Both(selected, c)
         /\ \E c \in Used(master_values) : selected[1] \in c /\ selected[2] \notin c
<1> DEFINE i == selected[1]
           S == {c \in Columns : Both(selected, c)}
           R == Covering(i) \ S
<1>1. selected \in Pairs /\ IsFractional(selected) /\ master_values \in [Columns -> Values]
  BY DEF PairInv, PairTypeOK, BestOf, Wanted, MasterSolutions
<1>2. i \in Items /\ Covering(i) \in SUBSET Columns
  BY <1>1, PairsFacts, CoveringFacts
<1>3. /\ S \in SUBSET Columns /\ R \in SUBSET Columns /\ S \in SUBSET Covering(i)
      /\ Covering(i) = S \cup R /\ S \cap R = {}
  BY <1>2 DEF Both, Covering
<1>4. Together(selected) = Total(master_values, S)
  BY DEF Together
<1>5. /\ Together(selected) \in Nat /\ Together(selected) > 0 /\ Together(selected) # One
  BY <1>1, TogetherFacts
<1>6. \A c \in R : selected[1] \in c /\ selected[2] \notin c
  BY DEF Covering, Both
<1>7. \E c \in S : master_values[c] > 0
  BY <1>1, <1>3, <1>4, <1>5, TotalHasColumn
<1>8. Total(master_values, Covering(i)) = Total(master_values, S) + Total(master_values, R)
  BY <1>1, <1>2, <1>3, TotalDisjoint
<1>9. Together(selected) # Total(master_values, Covering(i))
  <2>1. CASE CoversOnce(master_values)
    BY <1>2, <1>5, <2>1 DEF CoversOnce
  <2>2. CASE pair_rule = "most_confirmed"
    <3>1. Together(selected) < One - Tolerance
      BY <2>2 DEF PairInv, BestOf, Wanted
    <3>2. Total(master_values, Covering(i)) >= One
      BY <1>2 DEF PairInv, PairTypeOK, MasterSolutions
    <3>3. Tolerance \in Nat /\ One \in Nat
      BY PairSelectionAssumption, OneAssumption
    <3> QED
      BY <1>5, <3>1, <3>2, <3>3
  <2> QED
    BY <2>1, <2>2
<1> HIDE DEF S, R
<1>10. \E c \in R : master_values[c] > 0
  <2>1. Total(master_values, R) \in Nat /\ Total(master_values, S) \in Nat
    BY <1>1, <1>3, TotalIsSum
  <2>2. Total(master_values, R) > 0
    BY <1>4, <1>8, <1>9, <2>1
  <2> QED
    BY <1>1, <1>3, <2>2, TotalHasColumn
<1> QED
  BY <1>1, <1>3, <1>6, <1>7, <1>10 DEF Used, S

(* A column with both items breaks Different, one with one item Together.  *)
LEMMA KeptPairMakesProgress == PairInv => BothSidesProgress
<1> SUFFICES ASSUME PairInv, pair_pc = "done", selected # NoPair,
                    pair_rule = "most_confirmed" \/ CoversOnce(master_values),
                    NEW relation \in Relations
             PROVE  \E c \in Used(master_values) :
                        ~ConstraintAccepts([pair |-> selected, relation |-> relation], c)
  BY DEF BothSidesProgress
<1>1. CASE relation = "Together"
  BY <1>1, KeptPairIsSplit DEF ConstraintAccepts
<1>2. CASE relation = "Different"
  BY <1>2, KeptPairIsSplit DEF ConstraintAccepts
<1> QED
  BY <1>1, <1>2 DEF Relations

(* Neither child of a dive's branch keeps its parent's solution, nor does  *)
(* a tree's when that covers every item once.                              *)
THEOREM BranchesMakeProgress == PairSpec => []BothSidesProgress
<1> QED
  BY KeptPairMakesProgress, PairInvariant, PTL

(* The pair kept when all pairs are seen is the best of all.               *)
LEMMA KeptPairIsBest == PairInv => PicksBest
<1> SUFFICES ASSUME PairInv, pair_pc = "done", NEW p \in Pairs
             PROVE  IF pair_rule = "most_fractional"
                    THEN /\ IsFractional(p) =>
                              /\ selected # NoPair
                              /\ Fractionality(p) =<
                                     Fractionality(selected) + Tolerance * Cardinality(Pairs)
                         /\ (/\ Tolerance = 0 /\ IsFractional(p)
                             /\ Fractionality(p) = Fractionality(selected))
                              => PairWeight(p) =< PairWeight(selected)
                    ELSE (IsFractional(p) /\ Together(p) < One - Tolerance) =>
                            /\ selected # NoPair
                            /\ Together(p) =< Together(selected) + Tolerance
  BY DEF PicksBest
<1>1. BestOf(Pairs, selected)
  BY DEF PairInv
<1> QED
  BY <1>1 DEF BestOf, Wanted

(* Both rules keep what they promise, up to the tolerance of each          *)
(* comparison on the way (branching.cpp:63-73, 114-117).                   *)
THEOREM BestPairPicked == PairSpec => []PicksBest
<1> QED
  BY KeptPairIsBest, PairInvariant, PTL

(* What the drivers are told of the pair (NodeRelaxation): it is one that  *)
(* the columns of the node can give, and its items are not bonded there.   *)
(* Only a tree's pair may be, when the master covers an item more than     *)
(* once.                                                                   *)
SelectedIsFractionalPair(b) ==
    ( /\ pair_pc = "done" /\ selected # NoPair
      /\ Used(master_values) \subseteq AcceptedPatterns(b)
      /\ OverCovers \/ pair_rule = "most_confirmed" \/ CoversOnce(master_values) ) =>
        selected \in FractionalPairs(b)

(* At every node whose branch the columns in use satisfy, the scan's pair  *)
(* is one of those the drivers are modelled with.                          *)
THEOREM PairsAreThoseOfTheDrivers ==
    PairSpec => [](\A b \in BranchingStates : SelectedIsFractionalPair(b))
<1>1. ASSUME PairInv, NEW b \in BranchingStates PROVE SelectedIsFractionalPair(b)
  <2> SUFFICES ASSUME pair_pc = "done", selected # NoPair,
                      Used(master_values) \subseteq AcceptedPatterns(b),
                      OverCovers \/ pair_rule = "most_confirmed" \/ CoversOnce(master_values)
               PROVE  selected \in FractionalPairs(b)
    BY DEF SelectedIsFractionalPair
  <2>1. selected \in Pairs /\ \E c \in Used(master_values) : Both(selected, c)
    <3>1. selected \in Pairs /\ IsFractional(selected) /\ master_values \in [Columns -> Values]
      BY <1>1 DEF PairInv, PairTypeOK, BestOf, Wanted, MasterSolutions
    <3>2. Together(selected) > 0
      BY <3>1, TogetherFacts
    <3>3. {c \in Columns : Both(selected, c)} \in SUBSET Columns
      OBVIOUS
    <3>4. \E c \in {c \in Columns : Both(selected, c)} : master_values[c] > 0
      BY <3>1, <3>2, <3>3, TotalHasColumn DEF Together
    <3> QED
      BY <3>1, <3>4 DEF Used
  <2>2. selected \in CoOccurring(b)
    BY <2>1 DEF CoOccurring
  <2>3. ASSUME ~OverCovers PROVE ~Bonded(b, selected)
    BY <1>1, <2>3, KeptPairIsSplit DEF Bonded
  <2> QED
    BY <2>2, <2>3 DEF FractionalPairs
<1>2. PairInv => \A b \in BranchingStates : SelectedIsFractionalPair(b)
  BY <1>1
<1> QED
  BY <1>2, PairInvariant, PTL
-----------------------------------------------------------------------------
(* What the heuristics may leave as the incumbent's size.                  *)
LEMMA HeavyIsPacking ==
  ASSUME NEW v \in [Columns -> Values], CoversOnce(v), UNION Heavy(v) = Items
  PROVE  Heavy(v) \in Packings
<1>1. Heavy(v) \in SUBSET Patterns
  BY ColumnsAssumption DEF Heavy
<1>2. \A c, d \in Heavy(v) : c # d => c \cap d = {}
  BY HeavyAreDisjoint
<1> QED
  BY <1>1, <1>2, PartitionIsPacking

LEMMA ImprovedFacts ==
  ASSUME NEW v \in [Columns -> Values], NEW known \in SUBSET PackingSizes,
         NEW m \in Improved(known, v)
  PROVE  /\ m \in PackingSizes
         /\ (CoversOnce(v) /\ UNION Heavy(v) = Items) => m =< Cardinality(Heavy(v))
<1>1. PICK k \in known, n \in RoundedSizes(v) : m = Min({k, n})
  BY DEF Improved
<1>2. RoundedSizes(v) \in SUBSET PackingSizes
  BY HeavyIsPacking DEF RoundedSizes, PackingSizes, Bins
<1>3. k \in Int /\ n \in Int /\ k \in PackingSizes /\ n \in PackingSizes
  <2>1. k \in PackingSizes /\ n \in PackingSizes
    BY <1>1, <1>2
  <2> QED
    BY <2>1, PackingSizesType
<1>4. m =< n /\ m \in {k, n}
  BY <1>1, <1>3, MinOfTwo
<1>5. (CoversOnce(v) /\ UNION Heavy(v) = Items) => n = Cardinality(Heavy(v))
  BY <1>1 DEF RoundedSizes
<1> QED
  BY <1>3, <1>4, <1>5

(* At most one bin of a packing counts for a cut.                          *)
LEMMA OneBinCounts ==
  ASSUME NEW P \in Packings, NEW t \in SeparatedCuts, NEW c \in P, NEW d \in P, c # d,
         Cardinality(c \cap t) >= 2, Cardinality(d \cap t) >= 2
  PROVE  FALSE
<1>1. t \subseteq Items /\ Cardinality(t) = 3 /\ IsFiniteSet(t)
  BY PairSelectionAssumption, ItemsFacts
<1>2. c \cap d = {}
  BY PackingFacts
<1> DEFINE C == c \cap t
           D == d \cap t
<1>3. /\ IsFiniteSet(C) /\ IsFiniteSet(D) /\ C \cap D = {} /\ C \cup D \in SUBSET t
      /\ Cardinality(C) \in Nat /\ Cardinality(D) \in Nat
  BY <1>1, <1>2, FS_Subset, FS_CardinalityType
<1>4. Cardinality(C) >= 2 /\ Cardinality(D) >= 2
  OBVIOUS
<1> HIDE DEF C, D
<1>5. Cardinality(C \cap D) = 0
  BY <1>3, FS_EmptySet
<1>6. Cardinality(C \cup D) = Cardinality(C) + Cardinality(D) - Cardinality(C \cap D)
  BY <1>3, FS_Union
<1>7. Cardinality(C \cup D) =< Cardinality(t)
  BY <1>1, <1>3, FS_Subset
<1> QED
  BY <1>1, <1>3, <1>4, <1>5, <1>6, <1>7

(* A packing made of the columns of the pool is a master solution, cuts    *)
(* included, that costs its bins.                                          *)
LEMMA OptimumBeatsPackings ==
  ASSUME NEW Q \in SUBSET Columns, NEW T \in SUBSET SeparatedCuts, NEW v \in Optima(Q, T),
         NEW P \in Packings, P \subseteq Q
  PROVE  Cost(v) =< One * Bins(P)
<1> DEFINE x == [c \in Columns |-> IF c \in P THEN One ELSE 0]
<1>1. /\ x \in [Columns -> Values] /\ \A c \in Columns : x[c] = IF c \in P THEN One ELSE 0
      /\ P \in SUBSET Columns /\ One \in Nat /\ One > 0
  BY OneAssumption DEF Values
<1> HIDE DEF x
<1>2. ASSUME NEW S \in SUBSET Columns, \A c \in S : c \notin P PROVE Total(x, S) = 0
  <2>1. \A c \in S : x[c] =< 0
    BY <1>1, <1>2
  <2>2. Cardinality(S) \in Nat /\ Total(x, S) =< 0 * Cardinality(S)
    BY <1>1, <2>1, TotalOfSmall
  <2>3. Total(x, S) \in Nat
    BY <1>1, TotalIsSum
  <2> QED
    BY <2>2, <2>3
<1>3. x \in MasterSolutions
  <2> SUFFICES ASSUME NEW i \in Items PROVE Total(x, Covering(i)) >= One
    BY <1>1 DEF MasterSolutions
  <2>1. PICK c \in P : i \in c
    BY EveryItemPacked
  <2>2. c \in Covering(i) /\ Covering(i) \in SUBSET Columns /\ x[c] = One
    BY <1>1, <2>1 DEF Covering
  <2> QED
    BY <1>1, <2>2, TotalSplits
<1>4. ASSUME NEW t \in T PROVE Total(x, CutRow(t)) =< One
  <2>1. CutRow(t) \in SUBSET Columns
    BY DEF CutRow
  <2>2. CASE \A c \in CutRow(t) : c \notin P
    BY <1>1, <1>2, <2>1, <2>2
  <2>3. CASE \E c \in CutRow(t) : c \in P
    <3>1. PICK c \in CutRow(t) : c \in P
      BY <2>3
    <3>2. \A d \in CutRow(t) \ {c} : d \notin P
      BY <3>1, OneBinCounts DEF CutRow
    <3>3. CutRow(t) \ {c} \in SUBSET Columns /\ Total(x, CutRow(t) \ {c}) = 0
      BY <1>2, <2>1, <3>2
    <3>4. Total(x, CutRow(t)) = x[c] + Total(x, CutRow(t) \ {c}) /\ x[c] = One
      BY <1>1, <2>1, <3>1, TotalSplits
    <3> QED
      BY <1>1, <3>3, <3>4
  <2> QED
    BY <2>2, <2>3
<1>5. x \in PoolSolutions(Q, T)
  <2>1. Used(x) \subseteq Q
    BY <1>1 DEF Used
  <2> QED
    BY <1>3, <1>4, <2>1 DEF PoolSolutions
<1>6. Cost(x) =< One * Bins(P)
  <2>1. Columns \in SUBSET Columns /\ Columns \ P \in SUBSET Columns
    OBVIOUS
  <2>2. Total(x, Columns) = Total(x, P) + Total(x, Columns \ P)
    BY <1>1, <2>1, TotalDisjoint
  <2>3. Total(x, Columns \ P) = 0
    BY <1>2, <2>1
  <2>4. Total(x, P) =< One * Cardinality(P) /\ Total(x, P) \in Nat
    BY <1>1, TotalOfSmall, TotalIsSum
  <2> QED
    BY <2>2, <2>3, <2>4 DEF Cost, Bins
<1>7. Cost(v) =< Cost(x)
  BY <1>5, OptimaFacts
<1>8. Cost(v) \in Nat /\ Cost(x) \in Nat /\ Bins(P) \in Nat /\ One * Bins(P) \in Nat
  <2>1. v \in [Columns -> Values] /\ Columns \in SUBSET Columns
    BY OptimaFacts
  <2>2. Bins(P) \in Nat
    BY PackingFacts
  <2> QED
    BY <1>1, <2>1, <2>2, TotalIsSum DEF Cost
<1> QED
  BY <1>6, <1>7, <1>8

(* Where no pair is left and every item is covered once, the heavy columns *)
(* pack all the items; the small values of the others amount to less than  *)
(* a bin, so that their number is what the solution costs, rounded up.     *)
LEMMA HeavyIsOptimal ==
  ASSUME PairInv, pair_pc = "done", selected = NoPair, CoversOnce(master_values)
  PROVE  /\ UNION Heavy(master_values) = Items
         /\ \A n \in Nat : Cost(master_values) =< One * n => Cardinality(Heavy(master_values)) =< n
<1> DEFINE H == Heavy(master_values)
           h == Cardinality(H)
           w == One - Spare
<1>1. /\ master_values \in [Columns -> Values] /\ Columns \in SUBSET Columns
      /\ Tolerance \in Nat /\ One \in Nat /\ One > 0
      /\ Cardinality(Columns) \in Nat /\ Cardinality(Items) \in Nat
  BY OneAssumption, PairSelectionAssumption, ColumnsFacts, ItemsFacts, FS_CardinalityType
     DEF PairInv, PairTypeOK, MasterSolutions
<1>2. /\ Spare \in Nat /\ 2 * Spare < One /\ Spare * Cardinality(Items) < One
      /\ Cardinality(Columns) # 0 => Tolerance =< Spare
  <2> DEFINE n == Cardinality(Columns)
  <2>1. Tolerance \in Nat /\ n \in Nat
    BY <1>1
  <2>2. 2 * Tolerance * n < One /\ Tolerance * n * Cardinality(Items) < One
    BY PairSelectionAssumption, IntegralNodeAssumption
  <2> HIDE DEF n
  <2>3. Tolerance * n \in Nat /\ 2 * Tolerance * n = 2 * (Tolerance * n)
    BY <2>1
  <2>4. n # 0 => Tolerance =< Tolerance * n
    BY <2>1
  <2> QED
    BY <2>2, <2>3, <2>4 DEF n, Spare
<1>3. \A c \in Columns : /\ master_values[c] \in Nat
                         /\ master_values[c] =< Tolerance \/ master_values[c] >= w
  BY <1>1, NoPairIsIntegral, TotalIsSum DEF NoPairMeansIntegral
<1>4. Columns # {} => Tolerance =< Spare
  BY <1>1, <1>2, ColumnsFacts, FS_EmptySet
<1>5. w \in Nat /\ 2 * w > One
  BY <1>1, <1>2
<1>6. \A c \in Columns : IF c \in H THEN w =< master_values[c] ELSE master_values[c] =< Tolerance
  <2> SUFFICES ASSUME NEW c \in Columns
               PROVE  IF c \in H THEN w =< master_values[c] ELSE master_values[c] =< Tolerance
    OBVIOUS
  <2>1. /\ master_values[c] \in Nat
        /\ master_values[c] =< Tolerance \/ master_values[c] >= w
        /\ Tolerance =< Spare
    BY <1>3, <1>4
  <2>2. c \in H <=> 2 * master_values[c] > One
    BY DEF Heavy
  <2> HIDE DEF w, H
  <2>3. CASE c \in H
    BY <1>1, <1>2, <2>1, <2>2, <2>3
  <2>4. CASE c \notin H
    BY <1>1, <1>5, <2>1, <2>2, <2>4
  <2> QED
    BY <2>3, <2>4
<1>7. UNION H = Items
  <2>1. ASSUME NEW i \in Items PROVE \E c \in H : i \in c
    <3> SUFFICES ASSUME \A c \in H : i \notin c PROVE FALSE
      OBVIOUS
    <3>1. Covering(i) \in SUBSET Columns /\ \A c \in Covering(i) : c \notin H
      BY CoveringFacts DEF Covering
    <3>2. \A c \in Covering(i) : master_values[c] =< Tolerance
      BY <1>6, <3>1
    <3> DEFINE m == Cardinality(Covering(i))
    <3>3. /\ m \in Nat /\ Total(master_values, Covering(i)) =< Tolerance * m
          /\ m =< Cardinality(Columns)
      BY <1>1, <3>1, <3>2, TotalOfSmall, ColumnsFacts, FS_Subset
    <3> HIDE DEF m
    <3>4. Tolerance * m =< Spare /\ Tolerance * m \in Nat
      BY <1>1, <3>3 DEF Spare
    <3>5. Total(master_values, Covering(i)) = One
      BY DEF CoversOnce
    <3> QED
      BY <1>1, <1>2, <3>3, <3>4, <3>5
  <2>2. \A c \in H : c \in SUBSET Items
    BY ColumnsFacts DEF Heavy
  <2> QED
    BY <2>1, <2>2
<1>8. h \in Nat /\ h =< Cardinality(Items)
  <2>1. H \in Packings
    BY <1>1, <1>7, HeavyIsPacking
  <2> QED
    BY <2>1, PackingFacts DEF Bins
<1>9. w * h =< Cost(master_values) /\ Cost(master_values) \in Nat /\ w * h \in Nat
  <2>1. H \in SUBSET Columns /\ \A c \in H : w =< master_values[c]
    BY <1>6 DEF Heavy
  <2>2. w * h =< Total(master_values, H) /\ Total(master_values, H) \in Nat
    BY <1>1, <1>5, <2>1, TotalOfLarge, TotalIsSum
  <2>3. Total(master_values, H) =< Cost(master_values) /\ Cost(master_values) \in Nat
    BY <1>1, <2>1, TotalGrows, TotalIsSum DEF Cost
  <2>4. w * h \in Nat
    BY <1>5, <1>8
  <2> HIDE DEF w, h, H
  <2> QED
    BY <2>2, <2>3, <2>4
<1>10. Spare * h =< Spare * Cardinality(Items) /\ Spare * h \in Nat /\ w * h = One * h - Spare * h
  <2> HIDE DEF h
  <2>1. Spare * h =< Spare * Cardinality(Items) /\ Spare * h \in Nat
    BY <1>1, <1>2, <1>8
  <2>2. (One - Spare) * h = One * h - Spare * h
    BY <1>1, <1>2, <1>8
  <2> QED
    BY <2>1, <2>2
<1>11. ASSUME NEW n \in Nat, Cost(master_values) =< One * n PROVE h =< n
  <2> HIDE DEF h, w
  <2>1. One * h < One * n + One
    <3>1. One * h \in Nat /\ One * n \in Nat /\ Spare * Cardinality(Items) \in Nat
      BY <1>1, <1>2, <1>8
    <3> QED
      BY <1>1, <1>2, <1>9, <1>10, <1>11, <3>1
  <2>2. One * (n + 1) = One * n + One
    BY <1>1
  <2>3. ASSUME h >= n + 1 PROVE One * h >= One * (n + 1)
    BY <1>1, <1>8, <2>3
  <2>4. One * h \in Nat /\ One * (n + 1) \in Nat
    BY <1>1, <1>8
  <2> QED
    BY <1>8, <2>1, <2>2, <2>3, <2>4
<1> QED
  BY <1>7, <1>11

(* The inductive invariant: until the populate pass overwrites it, the     *)
(* solution that the scan will read is one the heuristics have seen.       *)
NodeInv ==
    /\ PairInv
    /\ NodeTypeOK
    /\ master_values \in Optima(pool, cuts)
    /\ node_pc = "solved" => pair_pc = "scan" /\ seen = {} /\ selected = NoPair
    /\ (node_pc # "stale" /\ CoversOnce(master_values) /\ UNION Heavy(master_values) = Items) =>
            incumbent_bins =< Cardinality(Heavy(master_values))

(* A scan that is about to start, whatever the solution.                   *)
LEMMA FreshScan ==
  ASSUME NEW Q \in SUBSET Columns, NEW T \in SUBSET SeparatedCuts,
         master_values \in Optima(Q, T), pair_rule \in PairRules,
         pair_pc = "scan", seen = {}, selected = NoPair
  PROVE  PairInv
<1>1. master_values \in MasterSolutions
  BY OptimaFacts
<1> QED
  BY <1>1 DEF PairInv, PairTypeOK, MasterIsOptimal, BestOf

LEMMA NodeInitInv == NodeInit => NodeInv
<1> SUFFICES ASSUME NodeInit PROVE NodeInv
  OBVIOUS
<1>1. /\ pair_rule \in PairRules /\ pool \in SUBSET Columns /\ cuts \in SUBSET SeparatedCuts
      /\ master_values \in Optima(pool, cuts) /\ pair_pc = "scan" /\ seen = {}
      /\ selected = NoPair /\ node_pc = "solved"
  BY PairSelectionAssumption DEF NodeInit
<1>2. PairInv
  BY <1>1, FreshScan
<1>3. /\ incumbent_bins \in PackingSizes
      /\ (CoversOnce(master_values) /\ UNION Heavy(master_values) = Items) =>
            incumbent_bins =< Cardinality(Heavy(master_values))
  <2>1. master_values \in [Columns -> Values] /\ incumbent_bins \in Improved(PackingSizes, master_values)
    BY <1>1, OptimaFacts DEF NodeInit
  <2>2. PackingSizes \in SUBSET PackingSizes
    OBVIOUS
  <2> QED
    BY <2>1, <2>2, ImprovedFacts
<1> QED
  BY <1>1, <1>2, <1>3 DEF NodeInv, NodeTypeOK, PairInv

LEMMA PopulateKeeps == ASSUME NodeInv, Populate PROVE NodeInv'
<1>1. PICK columns \in SUBSET (Columns \ pool) :
        /\ master_values' \in Optima(pool \cup columns, cuts')
        /\ AddPopulated(columns) \/ NothingPopulated(columns)
  BY DEF Populate
<1>2. /\ pair_rule' = pair_rule /\ pair_pc' = "scan" /\ seen' = {} /\ selected' = NoPair
      /\ pair_rule \in PairRules /\ pool \in SUBSET Columns /\ incumbent_bins \in PackingSizes
      /\ cuts' \in SUBSET SeparatedCuts
  BY DEF Populate, NodeInv, NodeTypeOK, PairTypeOK
<1>3. /\ pool' = pool \cup columns /\ pool' \in SUBSET Columns
      /\ node_pc' \in {"rounded", "stale"}
  BY <1>1, <1>2 DEF AddPopulated, NothingPopulated
<1>4. master_values' \in Optima(pool', cuts') /\ master_values' \in [Columns -> Values]
  BY <1>1, <1>3, OptimaFacts
<1>5. PairInv'
  <2>1. master_values' \in MasterSolutions
    BY <1>4, OptimaFacts
  <2> QED
    BY <1>2, <1>3, <1>4, <2>1 DEF PairInv, PairTypeOK, MasterIsOptimal, BestOf
<1>6. /\ incumbent_bins' \in PackingSizes
      /\ (/\ node_pc' # "stale" /\ CoversOnce(master_values')
          /\ UNION Heavy(master_values') = Items) =>
              incumbent_bins' =< Cardinality(Heavy(master_values'))
  <2>1. CASE AddPopulated(columns)
    <3>1. incumbent_bins' \in Improved({incumbent_bins}, master_values')
      BY <2>1 DEF AddPopulated
    <3>2. {incumbent_bins} \in SUBSET PackingSizes
      BY <1>2
    <3> QED
      BY <1>4, <3>1, <3>2, ImprovedFacts
  <2>2. CASE NothingPopulated(columns)
    BY <1>2, <2>2 DEF NothingPopulated
  <2> QED
    BY <1>1, <2>1, <2>2
<1>7. NodeTypeOK'
  BY <1>2, <1>3, <1>5, <1>6 DEF NodeTypeOK, PairInv
<1>8. (/\ node_pc' # "stale" /\ CoversOnce(master_values)'
       /\ (UNION Heavy(master_values))' = Items) =>
              incumbent_bins' =< Cardinality(Heavy(master_values))'
  BY <1>6 DEF CoversOnce, Heavy, Total
<1> QED
  BY <1>3, <1>4, <1>5, <1>7, <1>8 DEF NodeInv, Optima, PoolSolutions, Cost, Total, Used

LEMMA NodeStep == NodeInv /\ [NodeNext]_node_vars => NodeInv'
<1> SUFFICES ASSUME NodeInv, [NodeNext]_node_vars PROVE NodeInv'
  OBVIOUS
<1>1. CASE KeepSolution
  BY <1>1 DEF KeepSolution, NodeInv, NodeTypeOK, PairInv, PairTypeOK, MasterIsOptimal, BestOf,
     Wanted, IsFractional, Fractionality, Together, PairWeight
<1>2. CASE Populate
  BY <1>2, PopulateKeeps
<1>3. CASE Select
  <2>1. PairInv' /\ UNCHANGED <<pair_rule, master_values>>
    BY <1>3, PairStep DEF Select, NodeInv
  <2> QED
    BY <1>3, <2>1 DEF Select, NodeInv, NodeTypeOK, PairInv
<1>4. CASE UNCHANGED node_vars
  BY <1>4 DEF node_vars, NodeInv, NodeTypeOK, PairInv, PairTypeOK, MasterIsOptimal, BestOf,
     Wanted, IsFractional, Fractionality, Together, PairWeight
<1> QED
  BY <1>1, <1>2, <1>3, <1>4 DEF NodeNext

(* Every state of a node satisfies the inductive invariant.                *)
THEOREM NodeInvariant == NodeSpec => []NodeInv
<1> QED
  BY NodeInitInv, NodeStep, PTL DEF NodeSpec

(* The scan at the end of a node keeps what the rules promise of any       *)
(* optimal solution, the one that the populate pass leaves behind included *)
(* (branch_and_price.cpp:54, 137).                                         *)
THEOREM NodePairsCorrect ==
    NodeSpec => [](NoPairMeansIntegral /\ BothSidesProgress /\ PicksBest)
<1>1. NodeInv => NoPairMeansIntegral /\ BothSidesProgress /\ PicksBest
  BY NoPairIsIntegral, KeptPairMakesProgress, KeptPairIsBest DEF NodeInv
<1> QED
  BY <1>1, NodeInvariant, PTL

(* Type correctness, of the incumbent too: its size is always that of a    *)
(* packing.                                                                *)
THEOREM NodeTypeCorrect == NodeSpec => []NodeTypeOK
<1>1. NodeInv => NodeTypeOK
  BY DEF NodeInv
<1> QED
  BY <1>1, NodeInvariant, PTL

(* "Already captured as an incumbent" (branch_and_price.cpp:54), for every *)
(* instance: a node closed for want of a pair, whose solution was rounded  *)
(* and covers every item once, leaves no better packing in the pool.       *)
THEOREM IntegralNodesCaptured == NodeSpec => []CapturedIfRounded
<1>1. NodeInv => CapturedIfRounded
  <2> SUFFICES ASSUME NodeInv, pair_pc = "done", selected = NoPair, node_pc = "rounded",
                      CoversOnce(master_values), NEW P \in Packings, P \subseteq pool
               PROVE  incumbent_bins =< Bins(P)
    BY DEF CapturedIfRounded, FathomedAsIntegral, NothingBetterInPool
  <2>1. pool \in SUBSET Columns /\ cuts \in SUBSET SeparatedCuts
    BY DEF NodeInv, NodeTypeOK
  <2>2. Cost(master_values) =< One * Bins(P) /\ Bins(P) \in Nat
    BY <2>1, OptimumBeatsPackings, PackingFacts DEF NodeInv
  <2>3. /\ UNION Heavy(master_values) = Items
        /\ Cardinality(Heavy(master_values)) =< Bins(P)
    BY <2>2, HeavyIsOptimal DEF NodeInv
  <2>4. incumbent_bins =< Cardinality(Heavy(master_values))
    BY <2>3 DEF NodeInv
  <2>5. incumbent_bins \in Nat /\ Cardinality(Heavy(master_values)) \in Nat
    <3>1. master_values \in [Columns -> Values]
      BY OptimaFacts DEF NodeInv
    <3> QED
      BY <2>3, <3>1, HeavyIsPacking, BinsType, PackingSizesType DEF Bins, NodeInv, NodeTypeOK
  <2> QED
    BY <2>2, <2>3, <2>4, <2>5
<1> QED
  BY <1>1, NodeInvariant, PTL

(* When the drivers give nothing up at a node without a pair (GivenUp of   *)
(* NodeRelaxation).  Column generation has converged: the master costs no  *)
(* more than any packing of the branch.                                    *)
ConvergedIsCaptured(b) ==
    ( /\ FathomedAsIntegral /\ node_pc = "rounded" /\ CoversOnce(master_values)
      /\ \A P \in Admitted(b) : Cost(master_values) =< One * Bins(P) ) =>
        GivenUp(b, incumbent_bins) = {}

(* At a converged node, rounded and covered once, the incumbent is as good *)
(* as any packing of the branch, whether or not its columns are known.     *)
THEOREM ConvergedNodesCaptured ==
    NodeSpec => [](\A b \in BranchingStates : ConvergedIsCaptured(b))
<1>1. ASSUME NodeInv, NEW b \in BranchingStates PROVE ConvergedIsCaptured(b)
  <2> SUFFICES ASSUME pair_pc = "done", selected = NoPair, node_pc = "rounded",
                      CoversOnce(master_values), NEW P \in Admitted(b),
                      Cost(master_values) =< One * Bins(P)
               PROVE  ~(Bins(P) < incumbent_bins)
    BY DEF ConvergedIsCaptured, FathomedAsIntegral, GivenUp
  <2>1. Bins(P) \in Nat
    BY PackingFacts DEF Admitted
  <2>2. /\ UNION Heavy(master_values) = Items
        /\ Cardinality(Heavy(master_values)) =< Bins(P)
    BY <1>1, <2>1, HeavyIsOptimal DEF NodeInv
  <2>3. incumbent_bins =< Cardinality(Heavy(master_values))
    BY <1>1, <2>2 DEF NodeInv
  <2>4. incumbent_bins \in Nat /\ Cardinality(Heavy(master_values)) \in Nat
    <3>1. master_values \in [Columns -> Values]
      BY <1>1, OptimaFacts DEF NodeInv
    <3> QED
      BY <1>1, <2>2, <3>1, HeavyIsPacking, BinsType, PackingSizesType
         DEF Bins, NodeInv, NodeTypeOK
  <2> QED
    BY <2>1, <2>2, <2>3, <2>4
<1>2. NodeInv => \A b \in BranchingStates : ConvergedIsCaptured(b)
  BY <1>1
<1> QED
  BY <1>2, NodeInvariant, PTL
=============================================================================

----------------------- MODULE ColumnGenerationProofs -----------------------
(***************************************************************************)
(* Theorems of Algorithm1 and of SafeMip, for every instance, node, pool   *)
(* handed in and budget.  Algorithm 1: its iterations end, its types, and  *)
(* that the bound it certifies is one, by weak duality of the restricted   *)
(* master.  The certification: the columns the search fixes at zero are    *)
(* freed again, and a search that ends without an improvement has looked   *)
(* at every packing of its columns.                                        *)
(***************************************************************************)
EXTENDS SafeMip, PricingProofs, SequenceTheorems

LEMMA PatternsFinite ==
  /\ IsFiniteSet(Patterns)
  /\ Cardinality(Patterns) \in Nat
  BY ItemsFacts, FS_CardinalityType

(* A pool can be counted, and outgrows no bound on the patterns.           *)
LEMMA PoolFacts ==
  ASSUME NEW columns \in SUBSET Patterns
  PROVE  /\ IsFiniteSet(columns)
         /\ Cardinality(columns) \in Nat
         /\ Cardinality(columns) =< Cardinality(Patterns)
         /\ columns # {} => Cardinality(columns) > 0
<1>1. IsFiniteSet(columns) /\ Cardinality(columns) =< Cardinality(Patterns)
  BY PatternsFinite, FS_Subset
<1>2. Cardinality(columns) \in Nat
  BY <1>1, FS_CardinalityType
<1>3. columns # {} => Cardinality(columns) # 0
  BY <1>1, FS_EmptySet
<1> QED
  BY <1>1, <1>2, <1>3

(* A column that is not in the pool makes it larger.                       *)
LEMMA NewColumnCounts ==
  ASSUME NEW columns \in SUBSET Patterns, NEW K \in SUBSET Patterns,
         ~(K \subseteq columns)
  PROVE  Cardinality(columns) + 1 =< Cardinality(columns \cup K)
<1> DEFINE larger == columns \cup K
<1>1. larger \in SUBSET Patterns /\ columns \in SUBSET larger /\ columns # larger
  OBVIOUS
<1>2. /\ IsFiniteSet(larger)
      /\ Cardinality(larger) \in Nat
      /\ Cardinality(columns) \in Nat
  BY <1>1, PoolFacts
<1>3. /\ Cardinality(columns) =< Cardinality(larger)
      /\ Cardinality(larger) # Cardinality(columns)
  BY <1>1, <1>2, FS_Subset
<1> QED
  BY <1>2, <1>3

(* A pool that does not throw holds a column, and only patterns.           *)
LEMMA InitialPoolFacts ==
  ASSUME NEW b, NEW warm \in WarmStarts, ~PoolThrows(b, warm)
  PROVE  /\ InitialPool(b, warm) # {}
         /\ InitialPool(b, warm) \subseteq Patterns
<1>1. InitialPool(b, warm) # {}
  BY DEF PoolThrows
<1>2. CASE warm # {}
  BY <1>1, <1>2, Algorithm1Assumption DEF InitialPool
<1>3. CASE warm = {}
  BY <1>1, <1>3 DEF InitialPool, SeedPatterns, PoolThrows
<1> QED
  BY <1>2, <1>3
-----------------------------------------------------------------------------
(* Every iteration of the current call has left a column in the pool, the  *)
(* first of which was there before it.                                     *)
ColumnForEach ==
    pc # "thrown" =>
        /\ pool \subseteq Patterns
        /\ iteration \in Nat
        /\ iteration < Cardinality(pool)

Budgeted == ColumnForEach /\ BudgetSuffices

LEMMA BudgetInit == Init => Budgeted
<1> SUFFICES ASSUME Init PROVE Budgeted
  OBVIOUS
<1>1. PICK warm \in WarmStarts :
          IF PoolThrows(branching, warm)
          THEN pool = {} /\ pc = "thrown"
          ELSE pool = InitialPool(branching, warm) /\ pc = "solve"
  BY DEF Init
<1>2. iteration = 0
  BY DEF Init
<1>3. ColumnForEach
  <2> SUFFICES ASSUME pc # "thrown"
               PROVE  pool \subseteq Patterns /\ 0 < Cardinality(pool)
    BY <1>2 DEF ColumnForEach
  <2>1. pool # {} /\ pool \subseteq Patterns
    BY <1>1, InitialPoolFacts
  <2> QED
    BY <2>1, PoolFacts
<1> QED
  BY <1>2, <1>3 DEF Budgeted, BudgetSuffices

(* Whatever an iteration decides, the pool and the count keep in step.     *)
LEMMA DecideCounts ==
  ASSUME ColumnForEach, pc = "solve", NEW u, NEW pi, NEW n, Decide(u, pi, n)
  PROVE  ColumnForEach' /\ pc' # "thrown"
<1> DEFINE top == BestValue(u, pi, branching)
<1>1. /\ pool \subseteq Patterns
      /\ iteration \in Nat
      /\ iteration < Cardinality(pool)
  BY DEF ColumnForEach
<1>2. ASSUME NEW bound, Certify(bound)
      PROVE  ColumnForEach' /\ pc' # "thrown"
  BY <1>1, <1>2 DEF Certify, ColumnForEach
<1>3. ASSUME NEW K \in PricedSets(u, pi, top), ~NoneAdded(K), AddColumns(K, top)
      PROVE  ColumnForEach' /\ pc' # "thrown"
  <2>1. K \subseteq Patterns
    BY DEF PricedSets, ImprovingPatterns, AcceptedPatterns
  <2>2. ~(K \subseteq pool)
    BY <1>3 DEF NoneAdded
  <2>3. Cardinality(pool) + 1 =< Cardinality(pool \cup K)
    BY <1>1, <2>1, <2>2, NewColumnCounts
  <2>4. Cardinality(pool) \in Nat /\ Cardinality(pool \cup K) \in Nat
    BY <1>1, <2>1, PoolFacts
  <2>5. /\ pool' = pool \cup K
        /\ iteration' = 0 \/ iteration' = iteration + 1
        /\ pc' = pc
    BY <1>3 DEF AddColumns
  <2> QED
    BY <1>1, <2>1, <2>3, <2>4, <2>5 DEF ColumnForEach
<1> QED
  BY <1>2, <1>3 DEF Decide

LEMMA BudgetStep == Budgeted /\ [Generate]_vars => Budgeted'
<1> SUFFICES ASSUME Budgeted, [Generate]_vars PROVE Budgeted'
  OBVIOUS
<1>1. CASE Iterate
  <2>1. pc = "solve"
    BY <1>1 DEF Iterate
  <2>2. ColumnForEach' /\ pc' # "thrown"
    BY <1>1, <2>1, DecideCounts DEF Iterate, Budgeted
  <2> QED
    BY <2>2 DEF Budgeted, BudgetSuffices
<1>2. CASE Throw
  <2>1. /\ pool \subseteq Patterns
        /\ iteration \in Nat
        /\ iteration < Cardinality(pool)
    BY <1>2 DEF Throw, Budgeted, ColumnForEach
  <2>2. /\ Cardinality(pool) \in Nat
        /\ Cardinality(pool) =< Cardinality(Patterns)
        /\ Cardinality(Patterns) \in Nat
    BY <2>1, PoolFacts, PatternsFinite
  <2>3. Cardinality(Patterns) =< max_iterations => iteration # max_iterations
    BY <2>1, <2>2, Algorithm1Assumption
  <2>4. Cardinality(Patterns) =< max_iterations => ~MasterFeasible
    BY <1>2, <2>3 DEF Throw
  <2>5. pc' = "thrown" /\ pool' = pool /\ iteration' = iteration
    BY <1>2 DEF Throw
  <2>6. MasterFeasible' <=> MasterFeasible
    BY <1>2 DEF Throw, MasterFeasible, CutOff, Spans
  <2> QED
    BY <2>4, <2>5, <2>6 DEF Budgeted, ColumnForEach, BudgetSuffices
<1>3. CASE Separate
  <2>1. /\ pool \subseteq Patterns
        /\ iteration \in Nat
        /\ iteration < Cardinality(pool)
    BY <1>3 DEF Separate, Budgeted, ColumnForEach
  <2>2. Cardinality(pool) \in Nat
    BY <2>1, PoolFacts
  <2>3. pool' = pool /\ iteration' = 0 /\ pc' # "thrown"
    BY <1>3 DEF Separate
  <2> QED
    BY <2>1, <2>2, <2>3 DEF Budgeted, ColumnForEach, BudgetSuffices
<1>4. CASE Finish
  BY <1>4 DEF Finish, Budgeted, ColumnForEach, BudgetSuffices
<1>5. CASE UNCHANGED vars
  BY <1>5 DEF vars, Budgeted, ColumnForEach, BudgetSuffices, MasterFeasible, CutOff, Spans
<1> QED
  BY <1>1, <1>2, <1>3, <1>4, <1>5 DEF Generate

(* The iteration budget of run_algorithm1_loop never stops column          *)
(* generation when it is not less than the number of patterns, whatever    *)
(* optimal duals the master chooses and whatever pricing returns.          *)
THEOREM BudgetSufficesCorrect == Spec => []BudgetSuffices
<1>1. Budgeted => BudgetSuffices
  BY DEF Budgeted
<1> QED
  BY <1>1, BudgetInit, BudgetStep, PTL DEF Spec
-----------------------------------------------------------------------------
(* The scale and the rounding of a quotient.                               *)
LEMMA FinerFacts ==
  /\ Finer \in Nat \ {0}
  /\ BinCost = Unit * Finer
  /\ BinCost \in Nat \ {0}
  /\ Unit \in Nat \ {0}
<1>1. Finer \in Int
  BY BinCostAssumption, Algorithm1Assumption DEF Finer
<1>2. Cardinality(Items) \in Nat
  BY ItemsFacts
<1> QED
  BY <1>1, <1>2, BinCostAssumption, Algorithm1Assumption

LEMMA CeilDivAtMost ==
  ASSUME NEW a \in Int, NEW t \in Nat \ {0}, NEW n \in Int, a =< t * n
  PROVE  CeilDiv(a, t) =< n
<1> DEFINE q == (-a) \div t
<1>1. q \in Int /\ t * q =< -a /\ -a < t * q + t
  OBVIOUS
<1>2. -(t * n) < t * q + t
  BY <1>1
<1>3. ~(q =< -n - 1)
  <2> SUFFICES ASSUME q =< -n - 1 PROVE FALSE
    OBVIOUS
  <2>1. t * (q + n + 1) =< 0
    BY <1>1
  <2>2. t * (q + n + 1) = t * q + t * n + t
    BY <1>1
  <2> QED
    BY <1>1, <1>2, <2>1, <2>2
<1> QED
  BY <1>1, <1>3 DEF CeilDiv

LEMMA CeilDivPositive ==
  ASSUME NEW a \in Int, NEW t \in Nat \ {0}, a > 0
  PROVE  CeilDiv(a, t) \in Int /\ CeilDiv(a, t) >= 1
<1> DEFINE q == (-a) \div t
<1>1. q \in Int /\ t * q =< -a
  OBVIOUS
<1>2. q < 0
  BY <1>1
<1> QED
  BY <1>1, <1>2 DEF CeilDiv
-----------------------------------------------------------------------------
(* Values counted in units add up to their sum.                            *)
LEMMA UnitsIsSum ==
  ASSUME NEW S, IsFiniteSet(S), NEW x, \A e \in S : x[e] \in 0..Unit
  PROVE  /\ Units(x, S) = SumFunctionOnSet(x, S)
         /\ Units(x, S) \in Nat
         /\ Units(x, S) =< Unit * Cardinality(S)
<1>1. Units(x, S) = Cardinality(Cells(x, S, Unit))
  BY DEF Units, Cells
<1> QED
  BY <1>1, FinerFacts, CellsAddUp

(* The duals of the cuts, which are not positive, are counted negated.     *)
LEMMA NegativeUnits ==
  ASSUME NEW D, IsFiniteSet(D), NEW p \in [D -> (-Unit)..0], NEW E \in SUBSET D
  PROVE  /\ SumFunctionOnSet(p, E) = -Units(Negative(p), E)
         /\ Units(Negative(p), E) \in Nat
         /\ Units(Negative(p), E) =< Unit * Cardinality(E)
<1> DEFINE q == Negative(p)
           zero == [T \in E |-> 0]
<1>0. Unit \in Nat
  BY FinerFacts
<1>1. \A T \in E : p[T] \in Int /\ q[T] \in Int /\ q[T] \in 0..Unit /\ zero[T] = p[T] + q[T]
  BY <1>0 DEF Negative
<1>2. IsFiniteSet(E) /\ \A T \in E : zero[T] = 0
  BY FS_Subset
<1> HIDE DEF q, zero
<1>3. SumFunctionOnSet(zero, E) = 0 * Cardinality(E)
  BY <1>2, SumConstant
<1>4. SumFunctionOnSet(zero, E) = 0
  BY <1>2, <1>3, FS_CardinalityType
<1>5. SumFunctionOnSet(zero, E) = SumFunctionOnSet(p, E) + SumFunctionOnSet(q, E)
  BY <1>1, <1>2, SumPlus
<1>6. SumFunctionOnSet(p, E) \in Int
  BY <1>1, <1>2, SumType
<1>7. /\ Units(q, E) = SumFunctionOnSet(q, E)
      /\ Units(q, E) \in Nat
      /\ Units(q, E) =< Unit * Cardinality(E)
  BY <1>1, <1>2, UnitsIsSum
<1> QED
  BY <1>4, <1>5, <1>6, <1>7 DEF q

LEMMA TriplesFacts ==
  ASSUME NEW D \in SUBSET Triples
  PROVE  IsFiniteSet(D) /\ Cardinality(D) \in Nat
<1>1. IsFiniteSet(SUBSET Items) /\ D \in SUBSET (SUBSET Items)
  BY InstanceAssumption, FS_SUBSET DEF Triples
<1> QED
  BY <1>1, FS_Subset, FS_CardinalityType

LEMMA ObjectiveIsSum ==
  ASSUME NEW D \in SUBSET Triples, NEW y \in [Items -> 0..Unit], NEW p \in [D -> (-Unit)..0]
  PROVE  /\ Objective(y, p) = SumFunction(y) + SumFunction(p)
         /\ Objective(y, p) \in Int
         /\ SumFunction(y) \in Int /\ SumFunction(p) \in Int
         /\ SumFunction(y) =< Unit * Cardinality(Items)
         /\ SumFunction(p) =< 0
         /\ Objective(y, p) =< Unit * Cardinality(Items)
         /\ Objective(y, p) >= -(Unit * Cardinality(D))
<1>1. /\ IsFiniteSet(Items) /\ Cardinality(Items) \in Nat
      /\ IsFiniteSet(D) /\ Cardinality(D) \in Nat
      /\ Unit \in Nat
  BY ItemsFacts, TriplesFacts, FinerFacts, InstanceAssumption
<1>2. /\ Units(y, Items) = SumFunctionOnSet(y, Items)
      /\ Units(y, Items) \in Nat
      /\ Units(y, Items) =< Unit * Cardinality(Items)
  BY <1>1, UnitsIsSum
<1>3. /\ SumFunctionOnSet(p, D) = -Units(Negative(p), D)
      /\ Units(Negative(p), D) \in Nat
      /\ Units(Negative(p), D) =< Unit * Cardinality(D)
  BY <1>1, NegativeUnits
<1>4. /\ Objective(y, p) = Units(y, Items) - Units(Negative(p), D)
      /\ SumFunction(y) = SumFunctionOnSet(y, Items)
      /\ SumFunction(p) = SumFunctionOnSet(p, D)
  BY DEF Objective, SumFunction, SumFunctionOnSet, FoldFunction
<1> QED
  BY <1>1, <1>2, <1>3, <1>4
-----------------------------------------------------------------------------
(* The duals the master answers with are feasible, and best among those    *)
(* that are.                                                               *)
LEMMA MasterDualsFacts ==
  ASSUME NEW columns, NEW D \in SUBSET Triples, NEW d \in MasterDuals(columns, D)
  PROVE  /\ d[1] \in [Items -> 0..Unit] /\ d[2] \in [D -> (-Unit)..0]
         /\ DualFeasible(d[1], d[2], columns)
         /\ \A y \in [Items -> 0..Unit], p \in [D -> (-Unit)..0] :
                DualFeasible(y, p, columns) => Objective(y, p) =< Objective(d[1], d[2])
<1> DEFINE value(e) == Objective(e[1], e[2])
           feasible == {e \in [Items -> 0..Unit] \X [D -> (-Unit)..0] :
                            DualFeasible(e[1], e[2], columns)}
           values == {value(e) : e \in feasible}
<1>1. d \in feasible /\ value(d) = Max(values)
  BY DEF MasterDuals, DualPairs
<1>2. \A e \in feasible : /\ value(e) \in Int
                          /\ value(e) =< Unit * Cardinality(Items)
                          /\ value(e) >= -(Unit * Cardinality(D))
  <2> SUFFICES ASSUME NEW e \in feasible
               PROVE  /\ value(e) \in Int
                      /\ value(e) =< Unit * Cardinality(Items)
                      /\ value(e) >= -(Unit * Cardinality(D))
    OBVIOUS
  <2>1. e[1] \in [Items -> 0..Unit] /\ e[2] \in [D -> (-Unit)..0]
    OBVIOUS
  <2> QED
    BY <2>1, ObjectiveIsSum
<1>3. Unit * Cardinality(Items) \in Int /\ -(Unit * Cardinality(D)) \in Int
  BY FinerFacts, ItemsFacts, TriplesFacts
<1>4. values \in SUBSET ((-(Unit * Cardinality(D)))..(Unit * Cardinality(Items)))
  BY <1>2, <1>3
<1>5. IsFiniteSet(values) /\ values \in SUBSET Int /\ values # {}
  <2> HIDE DEF values
  <2>1. IsFiniteSet((-(Unit * Cardinality(D)))..(Unit * Cardinality(Items)))
    BY <1>3, FS_Interval
  <2>2. IsFiniteSet(values)
    BY <1>4, <2>1, FS_Subset
  <2> QED
    BY <1>1, <1>2, <2>2 DEF values
<1>6. \A v \in values : v =< value(d)
  <2> HIDE DEF values
  <2> QED
    BY <1>1, <1>5, MaxExists
<1>7. ASSUME NEW y \in [Items -> 0..Unit], NEW p \in [D -> (-Unit)..0],
             DualFeasible(y, p, columns)
      PROVE  Objective(y, p) =< Objective(d[1], d[2])
  <2>1. <<y, p>> \in feasible /\ value(<<y, p>>) = Objective(y, p)
    BY <1>7
  <2> QED
    BY <1>6, <2>1
<1> QED
  BY <1>1, <1>7

(* An optimum is worth a unit of value at least: a dual of one for a       *)
(* single item is feasible.                                                *)
LEMMA OptimumPositive ==
  ASSUME NEW columns \in SUBSET (SUBSET Items), NEW D \in SUBSET Triples,
         NEW d \in MasterDuals(columns, D), Items # {}
  PROVE  Objective(d[1], d[2]) >= Unit
<1>1. PICK k \in Items : TRUE
  OBVIOUS
<1> DEFINE y == [i \in Items |-> IF i = k THEN Unit ELSE 0]
           p == [T \in D |-> 0]
<1>2. Unit \in Nat /\ IsFiniteSet(D) /\ IsFiniteSet(Items)
  BY FinerFacts, TriplesFacts, InstanceAssumption
<1>3. y \in [Items -> 0..Unit] /\ p \in [D -> (-Unit)..0]
  BY <1>2
<1>4. ASSUME NEW S \in SUBSET Items
      PROVE  /\ Units(y, S) =< Unit
             /\ k \in S => Units(y, S) = Unit
             /\ Units(y, S) \in Nat
  <2>1. IsFiniteSet(S) /\ IsFiniteSet(S \ {k})
    BY ItemsFacts
  <2>2. \A i \in S \ {k} : y[i] = 0
    OBVIOUS
  <2>3. \A i \in S : y[i] \in 0..Unit /\ y[i] \in Int
    BY <1>2
  <2>4. k \in S => y[k] = Unit
    OBVIOUS
  <2> HIDE DEF y
  <2>5. Units(y, S) = SumFunctionOnSet(y, S) /\ Units(y, S) \in Nat
    BY <2>1, <2>3, UnitsIsSum
  <2>6. SumFunctionOnSet(y, S \ {k}) = 0 * Cardinality(S \ {k})
    BY <2>1, <2>2, SumConstant
  <2>7. SumFunctionOnSet(y, S \ {k}) = 0
    BY <2>1, <2>6, FS_CardinalityType
  <2>8. CASE k \in S
    <3>1. SumFunctionOnSet(y, S) = y[k] + SumFunctionOnSet(y, S \ {k})
      BY <2>1, <2>3, <2>8, SumSplits
    <3> QED
      BY <1>2, <2>4, <2>5, <2>7, <2>8, <3>1
  <2>9. CASE k \notin S
    <3>1. S \ {k} = S
      BY <2>9
    <3>2. SumFunctionOnSet(y, S) = 0
      BY <2>7, <3>1
    <3> QED
      BY <1>2, <2>5, <2>9, <3>2
  <2> QED
    BY <2>8, <2>9
<1>5. ASSUME NEW E \in SUBSET D
      PROVE  Units(Negative(p), E) = 0
  <2>1. SumFunctionOnSet(p, E) = 0 * Cardinality(E)
    <3>1. IsFiniteSet(E) /\ \A T \in E : p[T] = 0
      BY <1>2, FS_Subset
    <3> HIDE DEF p
    <3> QED
      BY <3>1, SumConstant
  <2>2. IsFiniteSet(E) /\ Cardinality(E) \in Nat
    BY <1>2, FS_Subset, FS_CardinalityType
  <2> HIDE DEF p
  <2>3. SumFunctionOnSet(p, E) = -Units(Negative(p), E) /\ Units(Negative(p), E) \in Nat
    BY <1>2, <1>3, NegativeUnits
  <2> QED
    BY <2>1, <2>2, <2>3
<1>6. DOMAIN y = Items /\ DOMAIN p = D
  OBVIOUS
<1> HIDE DEF y, p
<1>7. DualFeasible(y, p, columns)
  <2> SUFFICES ASSUME NEW S \in columns PROVE MasterValue(y, p, S) =< Unit
    BY DEF DualFeasible
  <2> DEFINE E == {T \in DOMAIN p : Coefficient(T, S) = 1}
  <2>1. E \in SUBSET D
    BY <1>6
  <2>2. S \in SUBSET Items
    OBVIOUS
  <2>3. MasterValue(y, p, S) = Units(y, S) - Units(Negative(p), E)
    BY DEF MasterValue
  <2> HIDE DEF E
  <2> QED
    BY <1>2, <1>4, <1>5, <2>1, <2>2, <2>3
<1>8. Objective(y, p) = Unit
  BY <1>2, <1>4, <1>5, <1>6 DEF Objective
<1>9. Objective(y, p) =< Objective(d[1], d[2])
  BY <1>3, <1>7, MasterDualsFacts
<1>10. Objective(d[1], d[2]) \in Int
  BY MasterDualsFacts, ObjectiveIsSum
<1> QED
  BY <1>2, <1>8, <1>9, <1>10
-----------------------------------------------------------------------------
(* The sum over the bins of a packing is the sum over its items.           *)
LEMMA WorthOfPacking ==
  ASSUME NEW P \in Packings, NEW u, \A i \in Items : u[i] \in Int,
         NEW w, \A S \in P : w[S] = Worth(u, S)
  PROVE  SumFunctionOnSet(w, P) = SumFunctionOnSet(u, Items)
<1>1. /\ IsFiniteSet(P)
      /\ \A R, S \in P : R # S => R \cap S = {}
      /\ UNION P = Items
      /\ P \subseteq Patterns
  BY PackingFacts
<1>2. \A S \in P : IsFiniteSet(S)
  BY <1>1, ItemsFacts DEF Patterns
<1> QED
  BY <1>1, <1>2, SumOfParts DEF Worth

(* A subset-row cut is an inequality of the problem: two bins of a packing *)
(* cannot both hold two of the three items.                                *)
LEMMA OneBinPerCut ==
  ASSUME NEW P \in Packings, NEW T \in Triples, NEW R \in P, NEW S \in P,
         Coefficient(T, R) = 1, Coefficient(T, S) = 1
  PROVE  R = S
<1> SUFFICES ASSUME R # S PROVE FALSE
  OBVIOUS
<1> DEFINE r == T \cap R
           s == T \cap S
<1>1. Cardinality(r) >= 2 /\ Cardinality(s) >= 2
  BY DEF Coefficient
<1>2. T \in SUBSET Items /\ Cardinality(T) = 3 /\ IsFiniteSet(T)
  BY ItemsFacts DEF Triples
<1>3. r \cap s = {}
  BY PackingFacts
<1>4. IsFiniteSet(r) /\ IsFiniteSet(s) /\ IsFiniteSet(r \cup s)
  BY <1>2, FS_Subset
<1>5. Cardinality(r \cup s) =< 3
  BY <1>2, FS_Subset
<1>6. /\ Cardinality(r \cup s) = Cardinality(r) + Cardinality(s) - Cardinality(r \cap s)
      /\ Cardinality(r) \in Nat /\ Cardinality(s) \in Nat
  BY <1>4, FS_Union, FS_CardinalityType
<1>7. Cardinality(r \cap s) = 0
  BY <1>3, FS_EmptySet
<1> QED
  BY <1>1, <1>5, <1>6, <1>7

LEMMA CoefficientType == \A T, S : Coefficient(T, S) \in {0, 1}
  BY DEF Coefficient

(* What the bins of a packing pay for one cut is no more than its dual.    *)
LEMMA CutOfPacking ==
  ASSUME NEW P \in Packings, NEW T \in Triples, NEW c \in Int, c =< 0,
         NEW f, \A S \in P : f[S] = c * Coefficient(T, S)
  PROVE  SumFunctionOnSet(f, P) >= c
<1>1. IsFiniteSet(P)
  BY PackingFacts
<1>2. \A S \in P : /\ Coefficient(T, S) = 0 => f[S] = 0
                   /\ Coefficient(T, S) = 1 => f[S] = c
                   /\ f[S] \in Int
  BY CoefficientType
<1>3. CASE \A S \in P : Coefficient(T, S) = 0
  <2>1. \A S \in P : f[S] = 0
    BY <1>2, <1>3
  <2>2. SumFunctionOnSet(f, P) = 0 * Cardinality(P)
    BY <1>1, <2>1, SumConstant
  <2> QED
    BY <1>1, <2>2, FS_CardinalityType
<1>4. CASE \E S \in P : Coefficient(T, S) # 0
  <2>1. PICK S \in P : Coefficient(T, S) = 1
    BY <1>4, CoefficientType
  <2>2. \A R \in P \ {S} : f[R] = 0
    BY <1>2, <2>1, OneBinPerCut, CoefficientType
  <2>3. IsFiniteSet(P \ {S})
    BY <1>1, FS_RemoveElement
  <2>4. SumFunctionOnSet(f, P \ {S}) = 0 * Cardinality(P \ {S})
    BY <2>2, <2>3, SumConstant
  <2>5. SumFunctionOnSet(f, P \ {S}) = 0
    BY <2>3, <2>4, FS_CardinalityType
  <2>6. SumFunctionOnSet(f, P) = f[S] + SumFunctionOnSet(f, P \ {S})
    BY <1>1, <1>2, SumSplits
  <2> QED
    BY <1>2, <2>1, <2>5, <2>6
<1> QED
  BY <1>3, <1>4

(* Weak duality: if no pattern of a packing is worth more than t, the duals*)
(* add up to no more than t for each of its bins.                          *)
LEMMA WeakDuality ==
  ASSUME NEW P \in Packings, NEW D \in SUBSET Triples,
         NEW u \in [Items -> Int], NEW pi \in [D -> Int], \A T \in D : pi[T] =< 0,
         NEW t \in Int, \A S \in P : DualValue(u, pi, S) =< t
  PROVE  ScaledSum(u, pi) =< t * Bins(P) /\ ScaledSum(u, pi) \in Int
<1> DEFINE a == [T \in D |-> [S \in P |-> pi[T] * Coefficient(T, S)]]
           b == [S \in P |-> [T \in D |-> pi[T] * Coefficient(T, S)]]
           paid == [S \in P |-> CutWorth(pi, S)]
           worth == [S \in P |-> Worth(u, S)]
           dual == [S \in P |-> DualValue(u, pi, S)]
           cut == [T \in D |-> SumFunctionOnSet(a[T], P)]
           top == [S \in P |-> t]
<1>1. /\ IsFiniteSet(P) /\ IsFiniteSet(D) /\ IsFiniteSet(Items)
      /\ P \subseteq SUBSET Items
  BY PackingFacts, TriplesFacts, InstanceAssumption DEF Patterns
<1>2. \A T \in D, S \in P : a[T][S] \in Int
  BY CoefficientType
<1>3. ASSUME NEW S \in P
      PROVE  /\ worth[S] \in Int /\ paid[S] \in Int
             /\ dual[S] = worth[S] + paid[S] /\ dual[S] \in Int
             /\ paid[S] = SumFunctionOnSet(b[S], D)
  <2>1. IsFiniteSet(S) /\ \A i \in S : u[i] \in Int
    BY <1>1, ItemsFacts
  <2>2. worth[S] \in Int
    BY <2>1, SumType DEF Worth
  <2> DEFINE row == [T \in D |-> pi[T] * Coefficient(T, S)]
  <2>3. row = b[S]
    OBVIOUS
  <2>4. CutWorth(pi, S) = SumFunctionOnSet(row, D)
    BY DEF CutWorth
  <2>5. \A T \in D : row[T] \in Int
    BY CoefficientType
  <2>6. SumFunctionOnSet(row, D) \in Int
    <3> HIDE DEF row
    <3> QED
      BY <1>1, <2>5, SumType
  <2>7. dual[S] = worth[S] + paid[S]
    BY DEF DualValue
  <2> QED
    BY <2>2, <2>3, <2>4, <2>6, <2>7
<1>4. SumFunctionOnSet(worth, P) = SumFunctionOnSet(u, Items)
  BY WorthOfPacking
<1>5. SumFunctionOnSet(paid, P) = SumFunctionOnSet(cut, D)
  <2>1. AreSums(cut, a, D, P)
    BY DEF AreSums
  <2>2. AreSums(paid, b, P, D)
    BY <1>3 DEF AreSums
  <2>3. Transposed(a, b, D, P)
    BY <1>2 DEF Transposed
  <2> HIDE DEF a, b, paid, cut
  <2> QED
    BY <1>1, <2>1, <2>2, <2>3, SumSwaps
<1>6. ASSUME NEW T \in D
      PROVE  pi[T] =< cut[T] /\ cut[T] \in Int /\ pi[T] \in Int
  <2> DEFINE f == a[T]
  <2>1. \A S \in P : f[S] = pi[T] * Coefficient(T, S) /\ f[S] \in Int
    BY <1>2
  <2>2. cut[T] = SumFunctionOnSet(f, P)
    OBVIOUS
  <2> HIDE DEF f
  <2>3. SumFunctionOnSet(f, P) >= pi[T] /\ SumFunctionOnSet(f, P) \in Int
    BY <1>1, <2>1, CutOfPacking, SumType DEF Triples
  <2> QED
    BY <2>2, <2>3
<1>7. SumFunctionOnSet(pi, D) =< SumFunctionOnSet(cut, D)
  <2> HIDE DEF cut
  <2> QED
    BY <1>1, <1>6, SumMonotone
<1>8. SumFunctionOnSet(dual, P) = SumFunctionOnSet(worth, P) + SumFunctionOnSet(paid, P)
  <2>1. \A S \in P : worth[S] \in Int /\ paid[S] \in Int /\ dual[S] = worth[S] + paid[S]
    BY <1>3
  <2> HIDE DEF worth, paid, dual
  <2> QED
    BY <1>1, <2>1, SumPlus
<1>9. SumFunctionOnSet(dual, P) =< SumFunctionOnSet(top, P)
  <2>1. \A S \in P : top[S] = t /\ dual[S] =< t
    OBVIOUS
  <2>2. \A S \in P : dual[S] \in Int
    BY <1>3
  <2>3. \A S \in P : dual[S] \in Int /\ top[S] \in Int /\ dual[S] =< top[S]
    BY <2>1, <2>2
  <2> HIDE DEF dual, top, worth, paid
  <2> QED
    BY <1>1, <2>3, SumMonotone
<1>10. SumFunctionOnSet(top, P) = t * Bins(P)
  <2>1. \A S \in P : top[S] = t
    OBVIOUS
  <2> HIDE DEF top
  <2> QED
    BY <1>1, <2>1, SumConstant DEF Bins
<1>11. ScaledSum(u, pi) = SumFunctionOnSet(u, Items) + SumFunctionOnSet(pi, D)
  BY DEF ScaledSum, SumFunction, SumFunctionOnSet, FoldFunction
<1>12. /\ SumFunctionOnSet(u, Items) \in Int
       /\ SumFunctionOnSet(pi, D) \in Int
       /\ SumFunctionOnSet(cut, D) \in Int
  <2> HIDE DEF cut
  <2> QED
    BY <1>1, <1>6, SumType
<1>13. t * Bins(P) \in Int
  BY PackingFacts
<1> HIDE DEF worth, paid, dual, top, cut
<1> QED
  BY <1>4, <1>5, <1>7, <1>8, <1>9, <1>10, <1>11, <1>12, <1>13
-----------------------------------------------------------------------------
(* The integer duals are those of the master, less than a unit below.      *)
LEMMA SafeDualsFacts ==
  ASSUME NEW columns, NEW D \in SUBSET Triples, NEW d \in MasterDuals(columns, D),
         NEW u, u = SafeIntegerDuals(d[1]), NEW pi, pi = SafeIntegerDuals(d[2])
  PROVE  /\ u \in [Items -> Int] /\ pi \in [D -> Int] /\ \A T \in D : pi[T] =< 0
         /\ ScaledSum(u, pi) = Objective(d[1], d[2]) * Finer - Cardinality(Items) - Cardinality(D)
<1> DEFINE y == d[1]
           p == d[2]
<1>1. y \in [Items -> 0..Unit] /\ p \in [D -> (-Unit)..0] /\ DOMAIN y = Items /\ DOMAIN p = D
  BY MasterDualsFacts
<1>2. Unit \in Nat /\ Finer \in Nat
  BY FinerFacts
<1>3. \A i \in Items : y[i] \in Int /\ u[i] = y[i] * Finer - 1 /\ u[i] \in Int
  BY <1>1, <1>2 DEF SafeIntegerDuals
<1>4. \A T \in D : p[T] \in Int /\ p[T] =< 0 /\ pi[T] = p[T] * Finer - 1
  BY <1>1, <1>2 DEF SafeIntegerDuals
<1>5. \A T \in D : pi[T] \in Int /\ pi[T] =< 0
  BY <1>2, <1>4
<1>6. DOMAIN u = Items /\ DOMAIN pi = D
  BY <1>1 DEF SafeIntegerDuals
<1>7. u \in [Items -> Int] /\ pi \in [D -> Int]
  BY <1>3, <1>5, <1>6 DEF SafeIntegerDuals
<1>8. IsFiniteSet(Items) /\ IsFiniteSet(D)
  BY InstanceAssumption, TriplesFacts
<1> HIDE DEF y, p
<1>9. SumFunctionOnSet(u, Items) = SumFunctionOnSet(y, Items) * Finer - Cardinality(Items)
  <2>1. \A i \in Items : y[i] \in Int /\ u[i] = y[i] * Finer - 1
    BY <1>3
  <2>2. Finer \in Int
    BY <1>2
  <2> QED
    BY <1>8, <2>1, <2>2, SumScaled
<1>10. SumFunctionOnSet(pi, D) = SumFunctionOnSet(p, D) * Finer - Cardinality(D)
  <2>1. \A T \in D : p[T] \in Int /\ pi[T] = p[T] * Finer - 1
    BY <1>4
  <2>2. Finer \in Int
    BY <1>2
  <2> QED
    BY <1>8, <2>1, <2>2, SumScaled
<1>11. Objective(y, p) = SumFunctionOnSet(y, Items) + SumFunctionOnSet(p, D)
  BY <1>1, ObjectiveIsSum DEF SumFunction, SumFunctionOnSet, FoldFunction
<1>12. ScaledSum(u, pi) = SumFunctionOnSet(u, Items) + SumFunctionOnSet(pi, D)
  BY <1>6 DEF ScaledSum, SumFunction, SumFunctionOnSet, FoldFunction
<1>13. SumFunctionOnSet(y, Items) \in Int /\ SumFunctionOnSet(p, D) \in Int
  <2>1. \A T \in D : p[T] \in Int
    BY <1>4
  <2>2. \A i \in Items : y[i] \in Int
    BY <1>3
  <2> QED
    BY <1>8, <2>1, <2>2, SumType
<1>14. Cardinality(Items) \in Nat /\ Cardinality(D) \in Nat
  BY <1>8, FS_CardinalityType
<1>15. (SumFunctionOnSet(y, Items) + SumFunctionOnSet(p, D)) * Finer =
           SumFunctionOnSet(y, Items) * Finer + SumFunctionOnSet(p, D) * Finer
  BY <1>2, <1>13
<1>16. ScaledSum(u, pi) = Objective(y, p) * Finer - Cardinality(Items) - Cardinality(D)
  <2>1. SumFunctionOnSet(y, Items) * Finer \in Int /\ SumFunctionOnSet(p, D) * Finer \in Int
    BY <1>2, <1>13
  <2> QED
    BY <1>9, <1>10, <1>11, <1>12, <1>14, <1>15, <2>1
<1> QED
  BY <1>5, <1>7, <1>16 DEF y, p

(* A column of the master does not improve under the rounded duals, which  *)
(* are below duals that are feasible for it.                               *)
LEMMA ColumnDoesNotImprove ==
  ASSUME NEW columns \in SUBSET (SUBSET Items), NEW D \in SUBSET Triples,
         NEW d \in MasterDuals(columns, D),
         NEW u, u = SafeIntegerDuals(d[1]), NEW pi, pi = SafeIntegerDuals(d[2]),
         NEW S \in columns
  PROVE  DualValue(u, pi, S) =< BinCost
<1> DEFINE y == d[1]
           p == d[2]
           E == {T \in D : Coefficient(T, S) = 1}
           c == [T \in D |-> pi[T] * Coefficient(T, S)]
<1>1. /\ y \in [Items -> 0..Unit] /\ p \in [D -> (-Unit)..0] /\ DOMAIN p = D
      /\ MasterValue(y, p, S) =< Unit
  BY MasterDualsFacts DEF DualFeasible
<1>2. /\ Unit \in Nat /\ Finer \in Nat /\ BinCost = Unit * Finer
      /\ IsFiniteSet(D) /\ IsFiniteSet(S) /\ Cardinality(S) \in Nat
  BY FinerFacts, TriplesFacts, ItemsFacts
<1>3. E \in SUBSET D /\ IsFiniteSet(E) /\ Cardinality(E) \in Nat
      /\ IsFiniteSet(D \ E) /\ E \cap (D \ E) = {} /\ E \cup (D \ E) = D
  BY <1>2, FS_Subset, FS_CardinalityType
<1>4. \A i \in S : y[i] \in 0..Unit /\ y[i] \in Int /\ u[i] = y[i] * Finer - 1
  BY <1>1, <1>2 DEF SafeIntegerDuals
<1>5. \A T \in D : p[T] \in Int /\ pi[T] = p[T] * Finer - 1 /\ pi[T] \in Int
  BY <1>1, <1>2 DEF SafeIntegerDuals
<1>6. \A T \in D : /\ c[T] \in Int
                   /\ T \in E => c[T] = p[T] * Finer - 1
                   /\ T \in D \ E => c[T] = 0
  BY <1>5, CoefficientType
<1>7. MasterValue(y, p, S) = Units(y, S) - Units(Negative(p), E)
  BY <1>1 DEF MasterValue
<1>8. DualValue(u, pi, S) = SumFunctionOnSet(u, S) + SumFunctionOnSet(c, D)
  <2>1. DOMAIN pi = D
    BY <1>1 DEF SafeIntegerDuals
  <2> QED
    BY <2>1 DEF DualValue, Worth, CutWorth
<1> HIDE DEF y, p, c, E
<1>9. Units(y, S) = SumFunctionOnSet(y, S) /\ Units(y, S) \in Nat
  BY <1>2, <1>4, UnitsIsSum
<1>10. /\ SumFunctionOnSet(p, E) = -Units(Negative(p), E)
       /\ Units(Negative(p), E) \in Nat
  BY <1>1, <1>2, <1>3, NegativeUnits
<1>11. SumFunctionOnSet(u, S) = SumFunctionOnSet(y, S) * Finer - Cardinality(S)
  <2>1. \A i \in S : y[i] \in Int /\ u[i] = y[i] * Finer - 1
    BY <1>4
  <2>2. IsFiniteSet(S) /\ Finer \in Int
    BY <1>2
  <2> QED
    BY <2>1, <2>2, SumScaled
<1>12. SumFunctionOnSet(c, E) = SumFunctionOnSet(p, E) * Finer - Cardinality(E)
  <2>1. \A T \in E : p[T] \in Int /\ c[T] = p[T] * Finer - 1
    BY <1>3, <1>5, <1>6
  <2>2. IsFiniteSet(E) /\ Finer \in Int
    BY <1>2, <1>3
  <2> QED
    BY <2>1, <2>2, SumScaled
<1>13. SumFunctionOnSet(c, D) = SumFunctionOnSet(c, E)
  <2>1. SumFunctionOnSet(c, D \ E) = 0 * Cardinality(D \ E)
    BY <1>3, <1>6, SumConstant
  <2>2. Cardinality(D \ E) \in Nat
    BY <1>3, FS_CardinalityType
  <2>3. SumFunctionOnSet(c, E \cup (D \ E)) = SumFunctionOnSet(c, E) + SumFunctionOnSet(c, D \ E)
    BY <1>3, <1>6, SumDisjoint
  <2>4. SumFunctionOnSet(c, E) \in Int
    BY <1>3, <1>6, SumType
  <2>5. SumFunctionOnSet(c, D) = SumFunctionOnSet(c, E) + SumFunctionOnSet(c, D \ E)
    BY <1>3, <2>3
  <2>6. SumFunctionOnSet(c, D \ E) = 0
    BY <2>1, <2>2
  <2> QED
    BY <2>4, <2>5, <2>6
<1>14. (Units(y, S) - Units(Negative(p), E)) * Finer =
           Units(y, S) * Finer - Units(Negative(p), E) * Finer
  BY <1>2, <1>9, <1>10
<1>15. (-Units(Negative(p), E)) * Finer = -(Units(Negative(p), E) * Finer)
  BY <1>2, <1>10
<1>16. (Units(y, S) - Units(Negative(p), E)) * Finer =< Unit * Finer
  BY <1>1, <1>2, <1>7, <1>9, <1>10
<1>17. Units(y, S) * Finer \in Int /\ Units(Negative(p), E) * Finer \in Int /\ Unit * Finer \in Int
  BY <1>2, <1>9, <1>10
<1> QED
  BY <1>2, <1>3, <1>8, <1>9, <1>10, <1>11, <1>12, <1>13, <1>14, <1>15, <1>16, <1>17
-----------------------------------------------------------------------------
(* A bound as the callers of column generation need it.                    *)
ValidBound(n) ==
    /\ n \in 1..Cardinality(Items)
    /\ \A P \in Admitted(branching) : n =< Bins(P)

(* Whatever duals the master chose: their sum, divided by a price no       *)
(* pattern of the node exceeds, is such a bound.                           *)
LEMMA DualBound ==
  ASSUME NEW columns \in SUBSET (SUBSET Items), cuts \in SUBSET Triples, Items # {},
         Cardinality(cuts) =< max_sr3_cuts_total,
         NEW d \in MasterDuals(columns, cuts),
         NEW u, u = SafeIntegerDuals(d[1]), NEW pi, pi = SafeIntegerDuals(d[2]),
         NEW t \in Int, t >= BinCost,
         \A S \in AcceptedPatterns(branching) : DualValue(u, pi, S) =< t
  PROVE  ValidBound(CeilDiv(ScaledSum(u, pi), t))
<1> DEFINE sum == ScaledSum(u, pi)
           value == Objective(d[1], d[2])
<1>1. /\ u \in [Items -> Int] /\ pi \in [cuts -> Int] /\ \A T \in cuts : pi[T] =< 0
      /\ sum = value * Finer - Cardinality(Items) - Cardinality(cuts)
  BY SafeDualsFacts
<1>2. /\ Unit \in Nat \ {0} /\ Finer \in Nat \ {0}
      /\ BinCost = Unit * Finer /\ BinCost \in Nat \ {0}
      /\ Cardinality(Items) \in Nat /\ Cardinality(cuts) \in Nat
      /\ t \in Nat \ {0}
      /\ max_sr3_cuts_total \in Nat /\ Cardinality(Items) + max_sr3_cuts_total < Finer
  BY FinerFacts, ItemsFacts, TriplesFacts, Algorithm1Assumption
<1>3. value \in Int /\ value >= Unit /\ value =< Unit * Cardinality(Items)
  BY OptimumPositive, MasterDualsFacts, ObjectiveIsSum
<1> HIDE DEF sum, value
<1>4. sum \in Int /\ sum > 0
  <2>1. value * Finer >= Finer /\ value * Finer \in Int
    BY <1>2, <1>3
  <2> QED
    BY <1>1, <1>2, <2>1
<1>5. sum =< t * Cardinality(Items)
  <2>1. value * Finer =< (Unit * Cardinality(Items)) * Finer
    BY <1>2, <1>3
  <2>2. (Unit * Cardinality(Items)) * Finer = BinCost * Cardinality(Items)
    BY <1>2
  <2>3. BinCost * Cardinality(Items) =< t * Cardinality(Items)
    BY <1>2
  <2>4. /\ value * Finer \in Int
        /\ BinCost * Cardinality(Items) \in Int /\ t * Cardinality(Items) \in Int
    BY <1>2, <1>3
  <2> QED
    BY <1>1, <1>2, <2>1, <2>2, <2>3, <2>4
<1>6. CeilDiv(sum, t) \in 1..Cardinality(Items)
  BY <1>2, <1>4, <1>5, CeilDivAtMost, CeilDivPositive
<1>7. ASSUME NEW P \in Admitted(branching) PROVE CeilDiv(sum, t) =< Bins(P)
  <2>1. P \in Packings /\ P \subseteq AcceptedPatterns(branching)
    BY PackingFacts DEF Admitted, Admits, AcceptedPatterns
  <2>2. sum =< t * Bins(P)
    BY <1>1, <2>1, WeakDuality DEF sum
  <2> QED
    BY <1>2, <1>4, <2>1, <2>2, CeilDivAtMost, BinsType
<1> QED
  BY <1>6, <1>7 DEF ValidBound, sum
-----------------------------------------------------------------------------
(* The bound is valid from its certificate on.  A bound needs an item to   *)
(* bound, and the rounds of cuts end before their budget is exceeded.      *)
BoundCertified ==
    /\ TypeOK
    /\ pc # "thrown" => Items # {}
    /\ pc \in {"solve", "separate"} => round < max_sr3_separation_rounds
    /\ Certified => ValidBound(safe_bound)

LEMMA CertifiedInit == Init => BoundCertified
<1> SUFFICES ASSUME Init PROVE BoundCertified
  OBVIOUS
<1>1. PICK warm \in WarmStarts :
          IF PoolThrows(branching, warm)
          THEN pool = {} /\ pc = "thrown"
          ELSE pool = InitialPool(branching, warm) /\ pc = "solve"
  BY DEF Init
<1>2. pool \subseteq AcceptedPatterns(branching) /\ (pc # "thrown" => Items # {})
  <2>1. CASE PoolThrows(branching, warm)
    BY <1>1, <2>1
  <2>2. CASE ~PoolThrows(branching, warm)
    <3>1. InitialPool(branching, warm) # {} /\ InitialPool(branching, warm) \subseteq Patterns
      BY <2>2, InitialPoolFacts
    <3>2. \A S \in InitialPool(branching, warm) : Accepts(branching, S)
      BY DEF InitialPool, SeedPatterns
    <3> QED
      BY <1>1, <2>2, <3>1, <3>2 DEF AcceptedPatterns, Patterns
  <2> QED
    BY <2>1, <2>2
<1>3. incumbent_bins \in PackingSizes \cup {NoIncumbent}
  BY DEF Init, PackingSizes
<1>4. /\ cuts \subseteq Triples /\ priced_cuts \subseteq cuts
      /\ Cardinality(cuts) =< max_sr3_cuts_total
  BY FS_EmptySet, Algorithm1Assumption DEF Init
<1>5. pc \in {"solve", "thrown"}
  BY <1>1
<1>6. /\ iteration \in 0..max_iterations
      /\ round \in 0..max_sr3_separation_rounds /\ round < max_sr3_separation_rounds
      /\ safe_bound \in 0..Cardinality(Items)
  BY Algorithm1Assumption, ItemsFacts DEF Init
<1>7. TypeOK
  BY <1>2, <1>3, <1>4, <1>5, <1>6 DEF TypeOK
<1> QED
  BY <1>2, <1>5, <1>6, <1>7 DEF BoundCertified, Certified

(* An incumbent only ever comes from a packing.                            *)
LEMMA IncumbentFacts ==
  ASSUME NEW columns, incumbent_bins \in PackingSizes \cup {NoIncumbent},
         NEW n \in RoundedIncumbents(columns)
  PROVE  n \in PackingSizes \cup {incumbent_bins}
<1> DEFINE primals == MasterPrimals(columns, cuts)
<1>1. CASE primals = {} \/ \E x \in primals : ~IsPacking(x)
  <2>1. n \in Better(PackingSizes)
    BY <1>1 DEF RoundedIncumbents
  <2> QED
    BY <2>1 DEF Better
<1>2. CASE ~(primals = {} \/ \E x \in primals : ~IsPacking(x))
  <2>1. PICK x \in primals : n = Min({incumbent_bins, Cardinality(DOMAIN x)})
    BY <1>2 DEF RoundedIncumbents
  <2>2. DOMAIN x \in Packings
    BY <1>2 DEF IsPacking
  <2>3. Cardinality(DOMAIN x) \in PackingSizes
    BY <2>2 DEF PackingSizes, Bins
  <2>4. incumbent_bins \in Int /\ Cardinality(DOMAIN x) \in Int
    <3>1. NoIncumbent \in Int
      BY ItemsFacts DEF NoIncumbent
    <3>2. PackingSizes \cup {NoIncumbent} \subseteq Int
      BY <3>1, PackingSizesType
    <3> QED
      BY <2>3, <3>2
  <2>5. n \in {incumbent_bins, Cardinality(DOMAIN x)}
    BY <2>1, <2>4, MinOfTwo
  <2> QED
    BY <2>3, <2>5
<1> QED
  BY <1>1, <1>2

(* Each exit of an iteration certifies a valid bound.  The exit that adds  *)
(* no column is never taken after pricing found one that improves: it is   *)
(* not in the pool.                                                        *)
LEMMA DecideCertifies ==
  ASSUME BoundCertified, pc = "solve", iteration < max_iterations,
         NEW d \in MasterDuals(pool, cuts),
         NEW u, u = SafeIntegerDuals(d[1]), NEW pi, pi = SafeIntegerDuals(d[2]),
         NEW n, Decide(u, pi, n)
  PROVE  /\ pool' \subseteq AcceptedPatterns(branching)
         /\ iteration' \in 0..max_iterations
         /\ \/ /\ pc' = "separate" /\ priced_cuts' = cuts
               /\ ValidBound(safe_bound')
            \/ pc' = "solve" /\ priced_cuts' = priced_cuts /\ safe_bound' = safe_bound
<1> DEFINE top == BestValue(u, pi, branching)
           zdim == ZDim(u, pi)
           lbf == FathomingBound(u, pi, top)
<1>1. /\ pool \subseteq AcceptedPatterns(branching) /\ pool \in SUBSET (SUBSET Items)
      /\ cuts \in SUBSET Triples /\ Cardinality(cuts) =< max_sr3_cuts_total
      /\ Items # {}
      /\ iteration \in 0..max_iterations
  BY DEF BoundCertified, TypeOK, AcceptedPatterns, Patterns
<1>2. (\A i \in Items : u[i] \in Int) /\ CutDual(pi)
  <2>1. u \in [Items -> Int] /\ pi \in [cuts -> Int] /\ \A T \in cuts : pi[T] =< 0
    BY <1>1, SafeDualsFacts
  <2> QED
    BY <1>1, <2>1 DEF CutDual, Triples
<1>3. /\ top \in Int
      /\ \A S \in AcceptedPatterns(branching) : DualValue(u, pi, S) =< top
  <2>1. /\ BestValue(u, pi, branching) \in Nat
        /\ \A S \in AcceptedPatterns(branching) :
               DualValue(u, pi, S) =< BestValue(u, pi, branching)
    BY <1>2, BestValueFacts
  <2> QED
    BY <2>1
<1>4. BinCost \in Int /\ max_iterations \in Int
  BY FinerFacts, Algorithm1Assumption
<1>5. ASSUME top =< BinCost PROVE ValidBound(zdim)
  <2>1. \A S \in AcceptedPatterns(branching) : DualValue(u, pi, S) \in Int
    <3>1. \A S \in AcceptedPatterns(branching) : S \in SUBSET Items
      BY DEF AcceptedPatterns, Patterns
    <3> HIDE DEF top
    <3> QED
      BY <1>2, <3>1, DualValueType
  <2>2. \A S \in AcceptedPatterns(branching) : DualValue(u, pi, S) =< BinCost
    <3> HIDE DEF top
    <3> QED
      BY <1>3, <1>4, <1>5, <2>1
  <2> QED
    BY <1>1, <1>4, <2>2, DualBound DEF ZDim
<1>6. ASSUME ~(top =< BinCost) PROVE ValidBound(lbf)
  <2>1. top >= BinCost
    <3> HIDE DEF top
    <3> QED
      BY <1>3, <1>4, <1>6
  <2> HIDE DEF top
  <2> QED
    BY <1>1, <1>3, <2>1, DualBound DEF FathomingBound
<1>7. ASSUME NEW bound, ValidBound(bound), Certify(bound)
      PROVE  /\ pool' = pool /\ iteration' = iteration
             /\ pc' = "separate" /\ priced_cuts' = cuts /\ ValidBound(safe_bound')
  BY <1>7 DEF Certify
<1>8. ASSUME NEW K \in PricedSets(u, pi, top), ~(top =< BinCost)
      PROVE  K \subseteq AcceptedPatterns(branching) /\ ~NoneAdded(K)
  <2>1. K \subseteq AcceptedPatterns(branching) /\ \E S \in K : DualValue(u, pi, S) = top
    BY DEF PricedSets, ImprovingPatterns
  <2>2. PICK S \in K : DualValue(u, pi, S) = top
    BY <2>1
  <2>3. S \notin pool
    BY <1>1, <1>8, <2>2, ColumnDoesNotImprove
  <2> QED
    BY <2>1, <2>3 DEF NoneAdded
<1>9. ASSUME NEW K \in PricedSets(u, pi, top), ~(top =< BinCost), AddColumns(K, top)
      PROVE  /\ pool' \subseteq AcceptedPatterns(branching)
             /\ iteration' \in 0..max_iterations
             /\ pc' = "solve" /\ priced_cuts' = priced_cuts /\ safe_bound' = safe_bound
  <2>1. pool' = pool \cup K /\ iteration' \in {0, iteration + 1}
        /\ pc' = pc /\ priced_cuts' = priced_cuts /\ safe_bound' = safe_bound
    BY <1>9 DEF AddColumns
  <2>2. iteration' \in 0..max_iterations
    BY <1>1, <1>4, <2>1
  <2> QED
    BY <1>1, <1>8, <1>9, <2>1, <2>2
<1>10. CASE top =< BinCost
  <2>1. Certify(zdim)
    BY <1>10 DEF Decide
  <2> QED
    BY <1>1, <1>5, <1>7, <1>10, <2>1
<1>11. CASE ~(top =< BinCost)
  <2>1. \/ Certify(lbf)
        \/ \E K \in PricedSets(u, pi, top) :
              IF NoneAdded(K) THEN Certify(zdim) ELSE AddColumns(K, top)
    BY <1>11 DEF Decide
  <2>2. CASE Certify(lbf)
    BY <1>1, <1>6, <1>7, <1>11, <2>2
  <2>3. CASE \E K \in PricedSets(u, pi, top) :
                IF NoneAdded(K) THEN Certify(zdim) ELSE AddColumns(K, top)
    <3>1. PICK K \in PricedSets(u, pi, top) :
              IF NoneAdded(K) THEN Certify(zdim) ELSE AddColumns(K, top)
      BY <2>3
    <3>2. AddColumns(K, top)
      BY <1>8, <1>11, <3>1
    <3> QED
      BY <1>9, <1>11, <3>2
  <2> QED
    BY <2>1, <2>2, <2>3
<1> QED
  BY <1>10, <1>11

(* A round of cuts stays within the budget of cuts.                        *)
LEMMA CutsStayWithin ==
  ASSUME cuts \in SUBSET Triples, Cardinality(cuts) =< max_sr3_cuts_total,
         NEW x, NEW K \in SeparatedCuts(x, CutsAllowed)
  PROVE  cuts \cup K \subseteq Triples /\ Cardinality(cuts \cup K) =< max_sr3_cuts_total
<1> DEFINE violated == {T \in Triples : SeparatedActivity(x, T) > Unit}
<1>1. /\ K \in SUBSET Triples
      /\ Cardinality(K) = Min({CutsAllowed, Cardinality(violated)})
  BY DEF SeparatedCuts
<1>2. /\ max_sr3_cuts_per_round \in Int /\ max_sr3_cuts_total \in Int
      /\ IsFiniteSet(cuts) /\ Cardinality(cuts) \in Nat
      /\ IsFiniteSet(K) /\ Cardinality(K) \in Nat
      /\ violated \in SUBSET Triples
      /\ Cardinality(violated) \in Int
  BY <1>1, TriplesFacts, Algorithm1Assumption
<1> HIDE DEF violated
<1> DEFINE room == max_sr3_cuts_total - Cardinality(cuts)
<1>3. CutsAllowed \in Int /\ CutsAllowed =< room
  <2>1. room \in Int
    BY <1>2
  <2>2. CutsAllowed = Min({max_sr3_cuts_per_round, room})
    BY DEF CutsAllowed
  <2> HIDE DEF room
  <2> QED
    BY <1>2, <2>1, <2>2, MinOfTwo
<1>4. Cardinality(K) =< CutsAllowed
  <2> DEFINE m == CutsAllowed
             n == Cardinality(violated)
  <2>1. m \in Int /\ n \in Int
    BY <1>2, <1>3
  <2> HIDE DEF m, n
  <2>2. Min({m, n}) =< m
    BY <2>1, MinOfTwo
  <2> QED
    BY <1>1, <2>2 DEF m, n
<1>5. /\ Cardinality(cuts \cup K) = Cardinality(cuts) + Cardinality(K) - Cardinality(cuts \cap K)
      /\ IsFiniteSet(cuts \cap K)
  BY <1>2, FS_Union, FS_Intersection
<1>6. Cardinality(cuts \cap K) \in Nat
  BY <1>5, FS_CardinalityType
<1> QED
  BY <1>1, <1>2, <1>3, <1>4, <1>5, <1>6

LEMMA CertifiedStep == BoundCertified /\ [Generate]_vars => BoundCertified'
<1> SUFFICES ASSUME BoundCertified, [Generate]_vars PROVE BoundCertified'
  OBVIOUS
<1>1. CASE Iterate
  <2>1. pc = "solve" /\ iteration < max_iterations
    BY <1>1 DEF Iterate
  <2>2. PICK d \in MasterDuals(pool, cuts), n \in RoundedIncumbents(pool) :
            /\ incumbent_bins' = n
            /\ Decide(SafeIntegerDuals(d[1]), SafeIntegerDuals(d[2]), n)
    BY <1>1 DEF Iterate
  <2>3. /\ pool' \subseteq AcceptedPatterns(branching)
        /\ iteration' \in 0..max_iterations
        /\ \/ /\ pc' = "separate" /\ priced_cuts' = cuts
              /\ ValidBound(safe_bound')
           \/ pc' = "solve" /\ priced_cuts' = priced_cuts /\ safe_bound' = safe_bound
    BY <2>1, <2>2, DecideCertifies
  <2>4. branching' = branching /\ cuts' = cuts /\ round' = round
    BY <1>1 DEF Iterate
  <2>5. incumbent_bins' \in PackingSizes \cup {NoIncumbent}
    BY <2>2, IncumbentFacts DEF BoundCertified, TypeOK
  <2>6. ValidBound(safe_bound') => safe_bound' \in 0..Cardinality(Items)
    BY ItemsFacts DEF ValidBound
  <2>7. TypeOK'
    BY <2>3, <2>4, <2>5, <2>6 DEF BoundCertified, TypeOK
  <2>8. Items # {} /\ round < max_sr3_separation_rounds
    BY <2>1 DEF BoundCertified
  <2>9. ValidBound(safe_bound') => ValidBound(safe_bound)'
    BY <2>4 DEF ValidBound
  <2> QED
    BY <2>3, <2>4, <2>7, <2>8, <2>9 DEF BoundCertified, Certified
<1>2. CASE Throw
  BY <1>2 DEF Throw, BoundCertified, TypeOK, Certified, ValidBound
<1>3. CASE Separate
  <2>1. PICK x \in MasterPrimals(pool, cuts) :
            \E K \in SeparatedCuts(x, CutsAllowed) : cuts' = cuts \cup K
    BY <1>3 DEF Separate
  <2>2. /\ pc = "separate" /\ round' = round + 1 /\ iteration' = 0
        /\ pc' = IF round + 1 >= max_sr3_separation_rounds THEN "done" ELSE "solve"
        /\ UNCHANGED <<branching, pool, incumbent_bins, phase2, priced_cuts, safe_bound>>
    BY <1>3 DEF Separate
  <2>3. cuts' \subseteq Triples /\ Cardinality(cuts') =< max_sr3_cuts_total /\ cuts \subseteq cuts'
    BY <2>1, CutsStayWithin DEF BoundCertified, TypeOK
  <2>4. round \in Nat /\ max_sr3_separation_rounds \in Nat /\ max_iterations \in Nat
        /\ round < max_sr3_separation_rounds
    BY <2>2, Algorithm1Assumption DEF BoundCertified, TypeOK
  <2>5. TypeOK'
    BY <2>2, <2>3, <2>4 DEF BoundCertified, TypeOK
  <2>6. /\ Items # {}
        /\ pc' = "solve" => round' < max_sr3_separation_rounds
        /\ pc' \in {"solve", "done"}
    BY <2>2, <2>4 DEF BoundCertified
  <2>7. ValidBound(safe_bound)'
    BY <2>2 DEF BoundCertified, Certified, ValidBound
  <2> QED
    BY <2>5, <2>6, <2>7 DEF BoundCertified
<1>4. CASE Finish
  BY <1>4 DEF Finish, BoundCertified, TypeOK, Certified, ValidBound
<1>5. CASE UNCHANGED vars
  BY <1>5 DEF vars, BoundCertified, TypeOK, Certified, ValidBound
<1> QED
  BY <1>1, <1>2, <1>3, <1>4, <1>5 DEF Generate

LEMMA CertifiedAlways == Spec => []BoundCertified
  BY CertifiedInit, CertifiedStep, PTL DEF Spec

(* The pool holds patterns of the node only, the cuts stay within their    *)
(* budget and the last certificate was computed with cuts that are active, *)
(* whatever the master and pricing answer.                                 *)
THEOREM Algorithm1TypeCorrect == Spec => []TypeOK
<1>1. BoundCertified => TypeOK
  BY DEF BoundCertified
<1> QED
  BY <1>1, CertifiedAlways, PTL

(* The bound Algorithm 1 certifies is at least one bin and no more than    *)
(* the bins of any packing the node admits, for every instance, scale,     *)
(* node and pool, and whichever optimal duals the LP solver returns: weak  *)
(* duality for the duals as safe_integer_duals rounds them.                *)
THEOREM CertifiedBoundCorrect == Spec => []CertifiedBoundValid
<1>1. BoundCertified => CertifiedBoundValid
  <2>1. \A n : ValidBound(n) => /\ n >= 1
                                /\ \A P \in Admitted(branching) : n =< Bins(P)
    BY ItemsFacts DEF ValidBound
  <2> QED
    BY <2>1 DEF BoundCertified, CertifiedBoundValid
<1> QED
  BY <1>1, CertifiedAlways, PTL
-----------------------------------------------------------------------------
(* Over all the columns of the node the master could only be cheaper to    *)
(* bound: a certified bound below the incumbent is no weaker than that of  *)
(* its duals, although it was computed over the pool or given early.       *)
NothingLost ==
    Certified /\ safe_bound < incumbent_bins =>
        \A d \in MasterDuals(AcceptedPatterns(branching), priced_cuts) :
            CeilDiv(Objective(d[1], d[2]), Unit) =< safe_bound

LEMMA CeilDivReaches ==
  ASSUME NEW a \in Int, NEW t \in Nat \ {0}
  PROVE  CeilDiv(a, t) \in Int /\ a =< t * CeilDiv(a, t)
<1> DEFINE q == (-a) \div t
<1>1. q \in Int /\ t * q =< -a
  OBVIOUS
<1>2. t * (-q) = -(t * q)
  BY <1>1
<1> QED
  BY <1>1, <1>2 DEF CeilDiv

(* Rounding the duals down does not lower the ceiling of their value: what *)
(* it takes away is less than a Unit-th.                                   *)
LEMMA RoundingIsHarmless ==
  ASSUME NEW columns, cuts \in SUBSET Triples, Cardinality(cuts) =< max_sr3_cuts_total,
         NEW d \in MasterDuals(columns, cuts),
         NEW u, u = SafeIntegerDuals(d[1]), NEW pi, pi = SafeIntegerDuals(d[2]),
         NEW v \in Int, v =< Objective(d[1], d[2])
  PROVE  CeilDiv(v, Unit) =< ZDim(u, pi)
<1> DEFINE sum == ScaledSum(u, pi)
           value == Objective(d[1], d[2])
           n == CeilDiv(sum, BinCost)
<1>1. sum = value * Finer - Cardinality(Items) - Cardinality(cuts)
  BY SafeDualsFacts
<1>2. /\ Unit \in Nat \ {0} /\ Finer \in Nat \ {0} /\ BinCost = Unit * Finer
      /\ BinCost \in Nat \ {0}
      /\ Cardinality(Items) \in Nat /\ Cardinality(cuts) \in Nat
      /\ max_sr3_cuts_total \in Nat /\ Cardinality(Items) + max_sr3_cuts_total < Finer
  BY FinerFacts, ItemsFacts, TriplesFacts, Algorithm1Assumption
<1>3. value \in Int
  BY MasterDualsFacts, ObjectiveIsSum
<1> HIDE DEF sum, value
<1>4. sum \in Int /\ sum > (value - 1) * Finer
  BY <1>1, <1>2, <1>3
<1>5. n \in Int /\ sum =< BinCost * n
  BY <1>2, <1>4, CeilDivReaches
<1> HIDE DEF n
<1>6. value =< Unit * n
  <2> SUFFICES ASSUME value - 1 >= Unit * n PROVE FALSE
    BY <1>2, <1>3, <1>5
  <2>1. (value - 1) * Finer >= (Unit * n) * Finer
    BY <1>2, <1>3, <1>5
  <2>2. (Unit * n) * Finer = BinCost * n
    BY <1>2, <1>5
  <2>3. (value - 1) * Finer \in Int /\ BinCost * n \in Int
    BY <1>2, <1>3, <1>5
  <2> QED
    BY <1>4, <1>5, <2>1, <2>2, <2>3
<1>7. v =< Unit * n
  <2>1. v =< value
    BY DEF value
  <2>2. Unit * n \in Int
    BY <1>2, <1>5
  <2> QED
    BY <1>3, <1>6, <2>1, <2>2
<1>8. CeilDiv(v, Unit) =< n
  BY <1>2, <1>5, <1>7, CeilDivAtMost
<1> QED
  BY <1>8 DEF n, sum, ZDim

(* The duals over all columns of the node are feasible for the pool.       *)
LEMMA MoreColumnsCostLess ==
  ASSUME NEW b, NEW columns \in SUBSET AcceptedPatterns(b), NEW D \in SUBSET Triples,
         NEW d \in MasterDuals(columns, D), NEW e \in MasterDuals(AcceptedPatterns(b), D)
  PROVE  Objective(e[1], e[2]) \in Int /\ Objective(e[1], e[2]) =< Objective(d[1], d[2])
<1>1. /\ e[1] \in [Items -> 0..Unit] /\ e[2] \in [D -> (-Unit)..0]
      /\ DualFeasible(e[1], e[2], AcceptedPatterns(b))
  BY MasterDualsFacts
<1>2. DualFeasible(e[1], e[2], columns)
  BY <1>1 DEF DualFeasible
<1> QED
  BY <1>1, <1>2, MasterDualsFacts, ObjectiveIsSum

LEMMA DecideLosesNothing ==
  ASSUME BoundCertified, pc = "solve", iteration < max_iterations,
         NEW d \in MasterDuals(pool, cuts),
         NEW u, u = SafeIntegerDuals(d[1]), NEW pi, pi = SafeIntegerDuals(d[2]),
         NEW n, Decide(u, pi, n), pc' = "separate", branching' = branching,
         ~(n =< safe_bound')
  PROVE  \A e \in MasterDuals(AcceptedPatterns(branching), priced_cuts') :
             CeilDiv(Objective(e[1], e[2]), Unit) =< safe_bound'
<1> DEFINE top == BestValue(u, pi, branching)
           zdim == ZDim(u, pi)
           lbf == FathomingBound(u, pi, top)
<1>1. /\ pool \in SUBSET AcceptedPatterns(branching)
      /\ cuts \in SUBSET Triples /\ Cardinality(cuts) =< max_sr3_cuts_total
  BY DEF BoundCertified, TypeOK
<1>2. \A bound : Certify(bound) => safe_bound' = bound /\ priced_cuts' = cuts
  BY DEF Certify
<1>3. \A K : ~AddColumns(K, top)
  BY DEF AddColumns
<1>4. \/ Certify(zdim)
      \/ Certify(lbf) /\ Fathoms(lbf, zdim, n)
  BY <1>3 DEF Decide
<1>5. safe_bound' = zdim /\ priced_cuts' = cuts
  <2>1. CASE Certify(zdim)
    BY <1>2, <2>1
  <2>2. CASE Certify(lbf) /\ Fathoms(lbf, zdim, n)
    <3>1. safe_bound' = lbf /\ priced_cuts' = cuts
      BY <1>2, <2>2
    <3>2. lbf >= n \/ lbf = zdim
      BY <2>2 DEF Fathoms
    <3>3. ~(lbf >= n)
      BY <3>1
    <3> QED
      BY <3>1, <3>2, <3>3
  <2> QED
    BY <1>4, <2>1, <2>2
<1>6. ASSUME NEW e \in MasterDuals(AcceptedPatterns(branching), cuts)
      PROVE  CeilDiv(Objective(e[1], e[2]), Unit) =< zdim
  <2>1. Objective(e[1], e[2]) \in Int /\ Objective(e[1], e[2]) =< Objective(d[1], d[2])
    BY <1>1, MoreColumnsCostLess
  <2> QED
    BY <1>1, <2>1, RoundingIsHarmless
<1> QED
  BY <1>5, <1>6

LEMMA NothingLostStep == BoundCertified /\ NothingLost /\ [Generate]_vars => NothingLost'
<1> SUFFICES ASSUME BoundCertified, NothingLost, [Generate]_vars PROVE NothingLost'
  OBVIOUS
<1>1. CASE Iterate
  <2>1. pc = "solve" /\ iteration < max_iterations /\ branching' = branching
    BY <1>1 DEF Iterate
  <2>2. PICK d \in MasterDuals(pool, cuts), n \in RoundedIncumbents(pool) :
            /\ incumbent_bins' = n
            /\ Decide(SafeIntegerDuals(d[1]), SafeIntegerDuals(d[2]), n)
    BY <1>1 DEF Iterate
  <2>3. \/ pc' = "separate" /\ safe_bound' \in Int
        \/ pc' = "solve"
    <3>1. \/ pc' = "separate" /\ ValidBound(safe_bound')
          \/ pc' = "solve"
      BY <2>1, <2>2, DecideCertifies
    <3> QED
      BY <3>1, ItemsFacts DEF ValidBound
  <2>4. n \in Int
    <3>1. incumbent_bins \in PackingSizes \cup {NoIncumbent}
      BY DEF BoundCertified, TypeOK
    <3>2. n \in PackingSizes \cup {NoIncumbent}
      BY <2>2, <3>1, IncumbentFacts
    <3> QED
      BY <3>2, PackingSizesType, ItemsFacts DEF NoIncumbent
  <2>5. pc' = "separate" /\ ~(n =< safe_bound') =>
            \A e \in MasterDuals(AcceptedPatterns(branching), priced_cuts') :
                CeilDiv(Objective(e[1], e[2]), Unit) =< safe_bound'
    BY <2>1, <2>2, DecideLosesNothing
  <2>6. Certified' /\ safe_bound' < incumbent_bins' => pc' = "separate" /\ ~(n =< safe_bound')
    BY <2>2, <2>3, <2>4 DEF Certified
  <2> QED
    BY <2>1, <2>5, <2>6 DEF NothingLost
<1>2. CASE Separate \/ Finish \/ UNCHANGED vars
  <2>1. /\ UNCHANGED <<branching, priced_cuts, safe_bound, incumbent_bins>>
        /\ Certified' => Certified
    BY <1>2 DEF Separate, Finish, vars, Certified
  <2> QED
    BY <2>1 DEF NothingLost
<1>3. CASE Throw
  BY <1>3 DEF Throw, NothingLost, Certified
<1> QED
  BY <1>1, <1>2, <1>3 DEF Generate

(* Stopping early loses nothing: a bound certified below the incumbent is  *)
(* at least the ceiling of the master's optimum over every column the node *)
(* accepts, whichever exit gave it (column_generation.cpp:808-812).  That  *)
(* it is no more than that ceiling either, EarlyStopHarmless, needs a grid *)
(* fine enough to carry the optimum of the LP.                             *)
THEOREM EarlyStopLosesNothing == Spec => []NothingLost
<1>1. Init => NothingLost
  BY DEF Init, NothingLost, Certified
<1> QED
  BY <1>1, NothingLostStep, CertifiedAlways, PTL DEF Spec
-----------------------------------------------------------------------------
(* Sets of two and three elements, by their members.                       *)
LEMMA TwoMembers ==
  ASSUME NEW X, IsFiniteSet(X)
  PROVE  Cardinality(X) >= 2 <=> \E a, b \in X : a # b
<1>1. Cardinality(X) \in Nat
  BY FS_CardinalityType
<1>2. ASSUME Cardinality(X) >= 2 PROVE \E a, b \in X : a # b
  <2>1. PICK a \in X : TRUE
    BY <1>1, <1>2, FS_EmptySet
  <2>2. X # {a}
    BY <1>2, FS_Singleton
  <2> QED
    BY <2>1, <2>2
<1>3. ASSUME NEW a \in X, NEW b \in X, a # b PROVE Cardinality(X) >= 2
  <2>1. X # {} /\ ~\E c : X = {c}
    BY <1>3
  <2>2. Cardinality(X) # 0 /\ Cardinality(X) # 1
    BY <2>1, FS_EmptySet, FS_Singleton
  <2> QED
    BY <1>1, <2>2
<1> QED
  BY <1>2, <1>3

LEMMA SizeOfPair ==
  ASSUME NEW a, NEW b, a # b
  PROVE  IsFiniteSet({a, b}) /\ Cardinality({a, b}) = 2
<1>1. IsFiniteSet({b}) /\ Cardinality({b}) = 1 /\ {b} \cup {a} = {a, b}
  BY FS_Singleton
<1>2. IsFiniteSet({b} \cup {a}) /\ Cardinality({b} \cup {a}) = Cardinality({b}) + 1
  BY <1>1, FS_AddElement
<1> QED
  BY <1>1, <1>2

LEMMA ThreeMembers ==
  ASSUME NEW T, IsFiniteSet(T), Cardinality(T) = 3
  PROVE  \E a, b, c : a # b /\ a # c /\ b # c /\ T = {a, b, c}
<1>1. PICK a, b \in T : a # b
  BY TwoMembers
<1>2. IsFiniteSet({a, b}) /\ Cardinality({a, b}) = 2
  BY <1>1, SizeOfPair
<1>3. PICK c \in T : c \notin {a, b}
  BY <1>1, <1>2
<1>4. Cardinality({a, b} \cup {c}) = 3
  <2>1. Cardinality({a, b} \cup {c}) = Cardinality({a, b}) + 1
    BY <1>2, <1>3, FS_AddElement
  <2> QED
    BY <1>2, <2>1
<1>5. {a, b} \cup {c} = T
  BY <1>1, <1>3, <1>4, FS_Subset
<1>6. T = {a, b, c}
  BY <1>5
<1> QED
  BY <1>1, <1>3, <1>6

(* The pairs of a triple, which separate_sr3 enumerates.                   *)
ThreePairs(a, b, c) == {{a, b}, {a, c}, {b, c}}

LEMMA PairsOfThree ==
  ASSUME NEW a, NEW b, NEW c, a # b, a # c, b # c, NEW T, T = {a, b, c}
  PROVE  PairsOf(T) = ThreePairs(a, b, c)
<1> DEFINE pairs == {{a, b}, {a, c}, {b, c}}
<1>1. \A R \in pairs : R \subseteq T /\ Cardinality(R) = 2
  BY SizeOfPair
<1>2. ASSUME NEW R \in SUBSET T, Cardinality(R) = 2 PROVE R \in pairs
  <2>1. IsFiniteSet(T)
    <3>1. IsFiniteSet({a, b} \cup {c}) /\ {a, b} \cup {c} = T
      BY SizeOfPair, FS_AddElement
    <3> QED
      BY <3>1
  <2>2. IsFiniteSet(R)
    BY <2>1, FS_Subset
  <2>3. PICK p, q \in R : p # q
    BY <1>2, <2>2, TwoMembers
  <2>4. IsFiniteSet({p, q}) /\ Cardinality({p, q}) = Cardinality(R)
    BY <1>2, <2>3, SizeOfPair
  <2>5. {p, q} = R
    BY <2>2, <2>3, <2>4, FS_Subset
  <2> QED
    BY <2>3, <2>5
<1> QED
  BY <1>1, <1>2 DEF PairsOf, ThreePairs

(* A column takes part in a cut when it holds one of its pairs.            *)
LEMMA TakesPart ==
  ASSUME NEW a, NEW b, NEW c, a # b, a # c, b # c, NEW S
  PROVE  Coefficient({a, b, c}, S) = 1 <=>
             {a, b} \subseteq S \/ {a, c} \subseteq S \/ {b, c} \subseteq S
<1> DEFINE X == {a, b, c} \cap S
<1>1. IsFiniteSet(X)
  <2>1. IsFiniteSet({a, b} \cup {c}) /\ {a, b} \cup {c} = {a, b, c}
    BY SizeOfPair, FS_AddElement
  <2> QED
    BY <2>1, FS_Subset
<1>2. Coefficient({a, b, c}, S) = 1 <=> Cardinality(X) >= 2
  BY DEF Coefficient
<1>3. Cardinality(X) >= 2 <=> \E p, q \in X : p # q
  BY <1>1, TwoMembers
<1> QED
  BY <1>2, <1>3

(* separate_sr3 sums the columns that share the pairs of a triple and      *)
(* takes those that hold all of it away twice: what is left is the         *)
(* activity of the cut.                                                    *)
LEMMA SeparatedIsActivity ==
  ASSUME NEW D, IsFiniteSet(D), NEW x \in [D -> 1..Unit],
         NEW T, IsFiniteSet(T), Cardinality(T) = 3
  PROVE  SeparatedActivity(x, T) = Activity(x, T)
<1>1. PICK a, b, c : a # b /\ a # c /\ b # c /\ T = {a, b, c}
  BY ThreeMembers
<1> DEFINE Sum(A) == SumFunctionOnSet(x, A)
           Of(R) == {S \in D : R \subseteq S}
           Whole == Of(T)
           Ab == Of({a, b}) \ Whole
           Ac == Of({a, c}) \ Whole
           Bc == Of({b, c}) \ Whole
           Part == {S \in D : Coefficient(T, S) = 1}
<1>2. \A A \in SUBSET D : /\ IsFiniteSet(A)
                          /\ Units(x, A) = Sum(A)
                          /\ Sum(A) \in Int
  <2> SUFFICES ASSUME NEW A \in SUBSET D
               PROVE  IsFiniteSet(A) /\ Units(x, A) = Sum(A) /\ Sum(A) \in Int
    OBVIOUS
  <2>1. IsFiniteSet(A) /\ \A S \in A : x[S] \in 0..Unit
    BY FS_Subset, FinerFacts
  <2> QED
    BY <2>1, UnitsIsSum
<1>3. \A S \in D : x[S] \in Int
  BY FinerFacts
<1>4. ASSUME NEW A \in SUBSET D, NEW B \in SUBSET D, A \cap B = {}
      PROVE  Sum(A \cup B) = Sum(A) + Sum(B)
  <2>1. /\ IsFiniteSet(A) /\ IsFiniteSet(B)
        /\ \A S \in A \cup B : x[S] \in Int
    BY <1>2, <1>3
  <2>2. SumFunctionOnSet(x, A \cup B) = SumFunctionOnSet(x, A) + SumFunctionOnSet(x, B)
    BY <1>4, <2>1, SumDisjoint
  <2> QED
    BY <2>2
<1>5. /\ Whole \in SUBSET D /\ Ab \in SUBSET D /\ Ac \in SUBSET D /\ Bc \in SUBSET D
      /\ Of({a, b}) = Ab \cup Whole /\ Of({a, c}) = Ac \cup Whole /\ Of({b, c}) = Bc \cup Whole
      /\ Ab \cap Whole = {} /\ Ac \cap Whole = {} /\ Bc \cap Whole = {}
      /\ Ab \cap Ac = {} /\ Ab \cap Bc = {} /\ Ac \cap Bc = {}
  BY <1>1
<1>6. Part = ((Ab \cup Ac) \cup Bc) \cup Whole
  <2>1. \A S \in D : Coefficient(T, S) = 1 <=>
            {a, b} \subseteq S \/ {a, c} \subseteq S \/ {b, c} \subseteq S
    <3>1. \A S : Coefficient({a, b, c}, S) = 1 <=>
              {a, b} \subseteq S \/ {a, c} \subseteq S \/ {b, c} \subseteq S
      BY <1>1, TakesPart
    <3> QED
      BY <1>1, <3>1, Zenon
  <2> QED
    BY <1>1, <2>1
<1>7. Activity(x, T) = Sum(Part)
  BY <1>2 DEF Activity
<1>8. SeparatedActivity(x, T) =
          Sum(Of({a, b})) + Sum(Of({a, c})) + Sum(Of({b, c})) - 2 * Sum(Whole)
  <2> DEFINE f == [R \in PairsOf(T) |-> Sharing(x, R)]
             ab == {a, b}
             ac == {a, c}
             bc == {b, c}
  <2>1. PairsOf(T) = {ab, ac, bc} /\ ab # ac /\ ab # bc /\ ac # bc
    <3>1. PairsOf(T) = ThreePairs(a, b, c)
      BY <1>1, PairsOfThree
    <3> QED
      BY <1>1, <3>1 DEF ThreePairs
  <2>2. \A R : Sharing(x, R) = Sum(Of(R)) /\ Sum(Of(R)) \in Int
    BY <1>2 DEF Sharing
  <2> HIDE DEF ab, ac, bc, Sum, Of
  <2>3. /\ f[ab] = Sum(Of(ab)) /\ f[ac] = Sum(Of(ac)) /\ f[bc] = Sum(Of(bc))
        /\ DOMAIN f = {ab, ac, bc}
    BY <2>1, <2>2
  <2> HIDE DEF f
  <2>4. SumFunctionOnSet(f, {} \cup {bc}) = f[bc] + SumFunctionOnSet(f, {})
    BY <2>2, <2>3, FS_EmptySet, SumAdds
  <2>5. SumFunctionOnSet(f, {bc} \cup {ac}) = f[ac] + SumFunctionOnSet(f, {bc})
    <3>1. IsFiniteSet({bc}) /\ ac \notin {bc}
      BY <2>1, FS_Singleton
    <3>2. \A y \in {bc} \cup {ac} : f[y] \in Int
      BY <2>2, <2>3
    <3> QED
      BY <3>1, <3>2, SumAdds
  <2>6. SumFunctionOnSet(f, {bc, ac} \cup {ab}) = f[ab] + SumFunctionOnSet(f, {bc, ac})
    <3>1. IsFiniteSet({bc, ac})
      BY <2>1, SizeOfPair
    <3>2. \A y \in {bc, ac} \cup {ab} : f[y] \in Int
      BY <2>2, <2>3
    <3> QED
      BY <2>1, <3>1, <3>2, SumAdds
  <2>7. /\ {} \cup {bc} = {bc} /\ {bc} \cup {ac} = {bc, ac}
        /\ {bc, ac} \cup {ab} = {ab, ac, bc}
    OBVIOUS
  <2>8. SumFunctionOnSet(f, {}) = 0
    BY SumEmpty
  <2>9. SumFunctionOnSet(f, {ab, ac, bc}) = f[ab] + f[ac] + f[bc]
    <3>1. f[ab] \in Int /\ f[ac] \in Int /\ f[bc] \in Int
      BY <2>2, <2>3
    <3>2. SumFunctionOnSet(f, {bc}) = f[bc]
      BY <2>4, <2>7, <2>8, <3>1
    <3>3. SumFunctionOnSet(f, {bc, ac}) = f[ac] + f[bc]
      BY <2>5, <2>7, <3>2
    <3>4. SumFunctionOnSet(f, {ab, ac, bc}) = f[ab] + (f[ac] + f[bc])
      BY <2>6, <2>7, <3>3
    <3> QED
      BY <3>1, <3>4
  <2>10. SumFunction(f) = SumFunctionOnSet(f, {ab, ac, bc})
    BY <2>3 DEF SumFunction, SumFunctionOnSet, FoldFunction
  <2>11. SeparatedActivity(x, T) = SumFunction(f) - 2 * Sum(Of(T))
    BY <2>2 DEF SeparatedActivity, f
  <2>12. SeparatedActivity(x, T) =
            Sum(Of(ab)) + Sum(Of(ac)) + Sum(Of(bc)) - 2 * Sum(Of(T))
    BY <2>2, <2>3, <2>9, <2>10, <2>11
  <2> QED
    BY <2>12, Zenon DEF ab, ac, bc, Whole
<1> HIDE DEF Sum, Of, Whole, Ab, Ac, Bc, Part
<1>9. /\ Sum(Of({a, b})) = Sum(Ab) + Sum(Whole)
      /\ Sum(Of({a, c})) = Sum(Ac) + Sum(Whole)
      /\ Sum(Of({b, c})) = Sum(Bc) + Sum(Whole)
  BY <1>4, <1>5
<1>10. Sum(Part) = Sum(Ab) + Sum(Ac) + Sum(Bc) + Sum(Whole)
  <2>1. Sum(Ab \cup Ac) = Sum(Ab) + Sum(Ac)
    BY <1>4, <1>5
  <2>2. Sum((Ab \cup Ac) \cup Bc) = Sum(Ab \cup Ac) + Sum(Bc)
    BY <1>4, <1>5
  <2>3. Sum(((Ab \cup Ac) \cup Bc) \cup Whole) = Sum((Ab \cup Ac) \cup Bc) + Sum(Whole)
    BY <1>4, <1>5
  <2> QED
    BY <1>6, <2>1, <2>2, <2>3
<1>11. Sum(Ab) \in Int /\ Sum(Ac) \in Int /\ Sum(Bc) \in Int /\ Sum(Whole) \in Int
  BY <1>2, <1>5
<1> QED
  BY <1>7, <1>8, <1>9, <1>10, <1>11

(* A cut the master holds has an activity of one unit at most, so it is    *)
(* not among the violated ones.                                            *)
LEMMA ActiveNotViolated ==
  ASSUME NEW columns \in SUBSET Patterns, NEW active \in SUBSET Triples,
         NEW x \in MasterPrimals(columns, active), NEW T \in active
  PROVE  ~(SeparatedActivity(x, T) > Unit)
<1>1. PICK D \in SUBSET columns : x \in [D -> 1..Unit] /\ Activity(x, T) =< Unit
  BY DEF MasterPrimals
<1>2. IsFiniteSet(D)
  BY <1>1, PatternsFinite, FS_Subset
<1>3. T \in SUBSET Items /\ IsFiniteSet(T) /\ Cardinality(T) = 3
  BY InstanceAssumption, FS_Subset DEF Triples
<1>4. SeparatedActivity(x, T) = Activity(x, T)
  BY <1>1, <1>2, <1>3, SeparatedIsActivity
<1>5. Activity(x, T) \in Nat
  <2> DEFINE A == {S \in D : Coefficient(T, S) = 1}
  <2>1. IsFiniteSet(A) /\ \A S \in A : x[S] \in 0..Unit
    BY <1>1, <1>2, FS_Subset, FinerFacts
  <2>2. Activity(x, T) = Units(x, A)
    BY <1>1 DEF Activity
  <2> QED
    BY <2>1, <2>2, UnitsIsSum
<1> QED
  BY <1>1, <1>4, <1>5, FinerFacts

(* A round of cuts adds one that was not active, although separate_sr3     *)
(* does not know the active cuts: the budget of cuts is never spent on a   *)
(* cut the master has already.                                             *)
THEOREM FreshCutsCorrect == Spec => FreshCuts
<1>1. BoundCertified /\ [Generate]_vars => [round' # round => cuts' # cuts]_vars
  <2> SUFFICES ASSUME BoundCertified, Generate, round' # round
               PROVE  cuts' # cuts
    BY DEF vars
  <2>1. Separate
    BY DEF Generate, Iterate, Throw, Finish
  <2>2. PICK x \in MasterPrimals(pool, cuts) :
            \E K \in SeparatedCuts(x, CutsAllowed) : K # {} /\ cuts' = cuts \cup K
    BY <2>1 DEF Separate
  <2>3. PICK K \in SeparatedCuts(x, CutsAllowed) : K # {} /\ cuts' = cuts \cup K
    BY <2>2
  <2>4. PICK T \in K : SeparatedActivity(x, T) > Unit
    BY <2>3 DEF SeparatedCuts
  <2>5. pool \in SUBSET Patterns /\ cuts \in SUBSET Triples
    BY DEF BoundCertified, TypeOK, AcceptedPatterns
  <2>6. T \notin cuts
    BY <2>2, <2>4, <2>5, ActiveNotViolated
  <2> QED
    BY <2>3, <2>4, <2>6
<1> QED
  BY <1>1, CertifiedAlways, PTL DEF Spec, FreshCuts
-----------------------------------------------------------------------------
(* What a tree driver is told of a node, which NodeRelaxation states: here *)
(* from what Algorithm 1 does.  Having no incumbent counts as having that  *)
(* of one bin per item.                                                    *)
EngineAnswer(p) ==
    [incumbent_bins |-> IF incumbent_bins = NoIncumbent THEN Cardinality(Items) ELSE incumbent_bins,
     certified |-> TRUE,
     safe_bound |-> safe_bound,
     pair |-> p]

AnswersAllowed ==
    Certified =>
        /\ Admitted(branching) # {}
        /\ \A p \in FractionalPairs(branching) \cup {NoPair} :
               EngineAnswer(p) \in Relaxations(branching)

(* Bins of one item each are a packing.                                    *)
LEMMA WorstPacking == Cardinality(Items) \in PackingSizes
<1> DEFINE one == [i \in Items |-> {i}]
           Q == {{i} : i \in Items}
<1>1. Q \in SUBSET Patterns
  <2> SUFFICES ASSUME NEW i \in Items PROVE {i} \in Patterns
    OBVIOUS
  <2>1. Load[{i}] = Weight[i] /\ Weight[i] =< Capacity
    BY LoadOfItem, InstanceAssumption
  <2> QED
    BY <2>1 DEF Patterns
<1>2. UNION Q = Items /\ \A R, S \in Q : R # S => R \cap S = {}
  OBVIOUS
<1>3. Q \in Packings
  <2> HIDE DEF Q
  <2> QED
    BY <1>1, <1>2, PartitionIsPacking
<1>4. one \in Bijection(Items, Q)
  BY DEF Bijection, Injection, IsInjective, Surjection
<1>5. Cardinality(Q) = Cardinality(Items)
  <2> HIDE DEF one, Q
  <2>1. ExistsBijection(Items, Q)
    BY <1>4 DEF ExistsBijection
  <2> QED
    BY <2>1, ItemsFacts, FS_Bijection
<1> QED
  BY <1>3, <1>5 DEF PackingSizes, Bins

(* A node whose columns cover every item admits a packing: its elements,   *)
(* one to a bin.                                                           *)
LEMMA ElementsPack ==
  ASSUME NEW b \in BranchingStates, NEW columns \in SUBSET AcceptedPatterns(b),
         UNION columns = Items
  PROVE  Admitted(b) # {}
<1> DEFINE P == Elements(b)
<1>1. \A e \in P : e \in SUBSET Items /\ e # {} /\ Tied(b, e)
  BY DEF Elements
<1>2. ASSUME NEW e \in P PROVE e \in Patterns /\ Accepts(b, e)
  <2>1. PICK i \in e : i \in Items
    BY <1>1
  <2>2. PICK S \in columns : i \in S
    BY <2>1
  <2>3. S \in Patterns /\ Tied(b, S) /\ ~Separated(b, S)
    BY AcceptsFacts DEF AcceptedPatterns
  <2>4. e \in SUBSET S
    BY <2>1, <2>2, <2>3, ElementWhole
  <2>5. S \in SUBSET Items /\ Load[S] =< Capacity
    BY <2>3 DEF Patterns
  <2>6. Load[e] =< Load[S] /\ Load[e] \in Nat /\ Load[S] \in Nat
    BY <1>1, <2>4, <2>5, LoadGrows, LoadFacts
  <2>7. e \in Patterns
    BY <1>1, <2>5, <2>6, InstanceAssumption DEF Patterns
  <2>8. ~Separated(b, e)
    BY <2>3, <2>4, SeparatedGrows
  <2> QED
    BY <1>1, <2>7, <2>8, AcceptsFacts
<1>3. UNION P = Items
  <2>1. ASSUME NEW i \in Items PROVE \E e \in P : i \in e
    <3>1. Tied(b, Items)
      BY DEF Tied, BranchingStates, Constraints, Pairs
    <3> QED
      BY <3>1, ElementOf
  <2> QED
    BY <1>1, <2>1
<1>4. \A R, S \in P : R # S => R \cap S = {}
  BY <1>1, ElementWhole
<1>5. P \in Packings
  <2>1. P \in SUBSET Patterns
    BY <1>2
  <2> HIDE DEF P
  <2> QED
    BY <1>3, <1>4, <2>1, PartitionIsPacking
<1> QED
  BY <1>2, <1>5 DEF Admitted, Admits

(* A certificate needs a master that covers every item.                    *)
Spanned == BoundCertified /\ (Certified => Spans) /\ branching \in BranchingStates

LEMMA PoolGrows ==
  ASSUME NEW u, NEW pi, NEW n, Decide(u, pi, n)
  PROVE  pool \subseteq pool'
<1>1. \A bound : Certify(bound) => pool' = pool
  BY DEF Certify
<1>2. \A K, top : AddColumns(K, top) => pool' = pool \cup K
  BY DEF AddColumns
<1> QED
  BY <1>1, <1>2 DEF Decide

LEMMA SpannedStep == Spanned /\ [Generate]_vars => Spanned'
<1> SUFFICES ASSUME Spanned, [Generate]_vars PROVE Spanned'
  OBVIOUS
<1>1. BoundCertified'
  BY CertifiedStep DEF Spanned
<1>2. branching' = branching
  BY DEF Generate, Iterate, Throw, Separate, Finish, vars
<1>3. CASE Iterate
  <2>1. Spans /\ \E u, pi, n : Decide(u, pi, n)
    BY <1>3 DEF Iterate, MasterFeasible
  <2>2. pool \subseteq pool'
    BY <2>1, PoolGrows
  <2>3. pool' \subseteq SUBSET Items
    BY <1>1 DEF BoundCertified, TypeOK, AcceptedPatterns, Patterns
  <2>4. Spans'
    BY <2>1, <2>2, <2>3 DEF Spans
  <2> QED
    BY <1>1, <1>2, <2>4 DEF Spanned
<1>4. CASE Throw
  BY <1>1, <1>2, <1>4 DEF Throw, Spanned, Certified
<1>5. CASE Separate
  <2>1. Certified /\ pool' = pool
    BY <1>5 DEF Separate, Certified
  <2> QED
    BY <1>1, <1>2, <2>1 DEF Spanned, Spans
<1>6. CASE Finish
  <2>1. Certified /\ pool' = pool
    BY <1>6 DEF Finish, Certified
  <2> QED
    BY <1>1, <1>2, <2>1 DEF Spanned, Spans
<1>7. CASE UNCHANGED vars
  <2>1. pool' = pool /\ pc' = pc
    BY <1>7 DEF vars
  <2> QED
    BY <1>1, <1>2, <2>1 DEF Spanned, Spans, Certified
<1> QED
  BY <1>3, <1>4, <1>5, <1>6, <1>7 DEF Generate

(* Algorithm 1 answers as the tree drivers are modelled to be answered: a  *)
(* node it certifies admits a packing, its bound is one of those that      *)
(* NodeRelaxation allows and its incumbent counts the bins of a packing.   *)
(* At a node that admits none it throws.  Which pair the rules choose      *)
(* stays with the interface.                                               *)
THEOREM EngineImplementsRelaxation == Spec => []AnswersAllowed
<1>1. Init => Spanned
  <2> SUFFICES ASSUME Init PROVE Spanned
    OBVIOUS
  <2>1. BoundCertified
    BY CertifiedInit
  <2>2. ~Certified
    BY DEF Init, Certified
  <2>3. branching \in BranchingStates
    BY Algorithm1Assumption DEF Init
  <2> QED
    BY <2>1, <2>2, <2>3 DEF Spanned
<1>2. Spanned => AnswersAllowed
  <2> SUFFICES ASSUME Spanned, Certified
               PROVE  /\ Admitted(branching) # {}
                      /\ \A p \in FractionalPairs(branching) \cup {NoPair} :
                             EngineAnswer(p) \in Relaxations(branching)
    BY DEF AnswersAllowed
  <2>1. Admitted(branching) # {}
    BY ElementsPack DEF Spanned, BoundCertified, TypeOK, Spans
  <2>2. safe_bound \in SafeBounds(branching)
    BY DEF Spanned, BoundCertified, ValidBound, SafeBounds
  <2>3. incumbent_bins \in PackingSizes \cup {NoIncumbent}
    BY DEF Spanned, BoundCertified, TypeOK
  <2> DEFINE known == IF incumbent_bins = NoIncumbent THEN Cardinality(Items) ELSE incumbent_bins
  <2>4. known \in PackingSizes /\ known \in Nat /\ incumbent_bins \in Nat /\ known =< incumbent_bins
    BY <2>3, WorstPacking, PackingSizesType, ItemsFacts DEF NoIncumbent
  <2> HIDE DEF known
  <2>6. ASSUME NEW p \in FractionalPairs(branching) \cup {NoPair}
        PROVE  EngineAnswer(p) \in Relaxations(branching)
    <3>1. EngineAnswer(p) = [incumbent_bins |-> known, certified |-> TRUE,
                             safe_bound |-> safe_bound, pair |-> p]
      BY DEF EngineAnswer, known
    <3> DEFINE r == [incumbent_bins |-> known, certified |-> TRUE,
                     safe_bound |-> safe_bound, pair |-> p]
    <3>2. r \in [incumbent_bins : PackingSizes, certified : {c \in BOOLEAN : c \/ CanStall},
                 safe_bound : SafeBounds(branching),
                 pair : FractionalPairs(branching) \cup {NoPair}]
      BY <2>2, <2>4
    <3> HIDE DEF r
    <3>4. r \in Relaxations(branching)
      BY <2>1, <3>2 DEF Relaxations
    <3> QED
      BY <3>1, <3>4 DEF r
  <2> QED
    BY <2>1, <2>6
<1> QED
  BY <1>1, <1>2, SpannedStep, PTL DEF Spec
-----------------------------------------------------------------------------
(* What a column must do to pass the first n levels of the search.         *)
Obeys(s, n, S) == \A j \in DOMAIN s : j =< n => ConstraintAccepts(s[j], S)

(* The column passes the levels above level k and fails there.             *)
FixedAt(s, k, S) == Obeys(s, k - 1, S) /\ ~ConstraintAccepts(s[k], S)

(* The masks of the levels s, over the columns all, of which those of free *)
(* are not fixed at zero.                                                  *)
Masks(s, free, all) ==
    /\ free = {S \in all : Obeys(s, Len(s), S)}
    /\ \A k \in DOMAIN s : s[k].newly_ineligible = {S \in all : FixedAt(s, k, S)}

Other(f) == [pair |-> f.pair, relation |-> "Different"]

(* The search has yet to turn to the side of level k that P lies on.       *)
Pending(s, k, P) ==
    /\ s[k].relation = "Together"
    /\ \A S \in P : Obeys(s, k - 1, S) /\ ConstraintAccepts(Other(s[k]), S)

MaskFrames == [pair : Pairs, relation : Relations, newly_ineligible : SUBSET populated]

Searching == mip_pc \in {"node", "return"}

(* A packing the search looks for: of the columns it was given.            *)
Wanted(P) == P \subseteq populated /\ Bins(P) =< target_bins

(* Nothing wanted is lost: the search is about to look at it or has to     *)
(* come back to it, unless it found a better one or gave up.               *)
Complete ==
    /\ incumbent_bins =< target_bins + 1
    /\ \/ incumbent_bins =< target_bins
       \/ mip_pc = "return" /\ ok = FALSE
       \/ \A P \in Packings : Wanted(P) =>
            \/ mip_pc = "node" /\ P \subseteq eligible
            \/ \E k \in DOMAIN stack : Pending(stack, k, P)

(* The inductive invariant.                                                *)
MipInv ==
    /\ mip_pc = "idle" => BoundCertified
    /\ mip_pc # "idle" => pc = "done" /\ branching = {}
    /\ branching = {} => incumbent_bins \in PackingSizes
    /\ cuts \subseteq Triples
    /\ target_bins \in Int /\ ok \in BOOLEAN
    /\ stack \in Seq(MaskFrames)
    /\ mip_pc \notin {"node", "return", "thrown"} => stack = <<>>
    /\ Searching => ~generic /\ Masks(stack, eligible, populated) /\ Complete
    /\ mip_certified => mip_pc = "end"
    /\ ResolvedMeansExhausted
-----------------------------------------------------------------------------
(* A level more, and a level less.                                         *)
LEMMA ObeysAppend ==
  ASSUME NEW X, NEW s \in Seq(X), NEW f \in X, NEW S
  PROVE  /\ \A n \in 0..Len(s) : Obeys(Append(s, f), n, S) <=> Obeys(s, n, S)
         /\ Obeys(Append(s, f), Len(s) + 1, S) <=>
                Obeys(s, Len(s), S) /\ ConstraintAccepts(f, S)
<1> DEFINE t == Append(s, f)
<1>1. /\ DOMAIN s = 1..Len(s) /\ DOMAIN t = 1..(Len(s) + 1) /\ Len(s) \in Nat
      /\ \A j \in DOMAIN s : t[j] = s[j]
      /\ t[Len(s) + 1] = f
  OBVIOUS
<1> HIDE DEF t
<1>2. \A n \in 0..Len(s) : Obeys(t, n, S) <=> Obeys(s, n, S)
  BY <1>1 DEF Obeys
<1>3. Obeys(t, Len(s) + 1, S) <=> Obeys(s, Len(s), S) /\ ConstraintAccepts(f, S)
  <2>1. ASSUME Obeys(t, Len(s) + 1, S)
        PROVE  Obeys(s, Len(s), S) /\ ConstraintAccepts(f, S)
    BY <1>1, <2>1 DEF Obeys
  <2>2. ASSUME Obeys(s, Len(s), S), ConstraintAccepts(f, S), NEW j \in DOMAIN t
        PROVE  ConstraintAccepts(t[j], S)
    <3>1. j = Len(s) + 1 \/ j \in DOMAIN s
      BY <1>1
    <3> QED
      BY <1>1, <2>2, <3>1 DEF Obeys
  <2> QED
    BY <2>1, <2>2 DEF Obeys
<1> QED
  BY <1>2, <1>3 DEF t

LEMMA PendingAppend ==
  ASSUME NEW X, NEW s \in Seq(X), NEW f \in X, NEW k \in DOMAIN s, NEW P
  PROVE  Pending(Append(s, f), k, P) <=> Pending(s, k, P)
<1>1. k - 1 \in 0..Len(s) /\ Append(s, f)[k] = s[k]
  OBVIOUS
<1> QED
  BY <1>1, ObeysAppend DEF Pending

LEMMA PushMasks ==
  ASSUME NEW X, NEW s \in Seq(X), NEW free, NEW all, Masks(s, free, all), NEW f \in X,
         f.newly_ineligible = {S \in free : ~ConstraintAccepts(f, S)}
  PROVE  Masks(Append(s, f), free \ f.newly_ineligible, all)
<1> DEFINE t == Append(s, f)
<1>1. /\ Len(t) = Len(s) + 1 /\ Len(s) \in Nat
      /\ DOMAIN t = 1..(Len(s) + 1) /\ DOMAIN s = 1..Len(s)
      /\ t[Len(s) + 1] = f
      /\ \A k \in DOMAIN s : t[k] = s[k]
  OBVIOUS
<1>2. \A S : /\ \A n \in 0..Len(s) : Obeys(t, n, S) <=> Obeys(s, n, S)
             /\ Obeys(t, Len(s) + 1, S) <=> Obeys(s, Len(s), S) /\ ConstraintAccepts(f, S)
  BY ObeysAppend
<1> HIDE DEF t
<1>3. free \ f.newly_ineligible = {S \in all : Obeys(t, Len(t), S)}
  BY <1>1, <1>2 DEF Masks
<1>4. ASSUME NEW k \in DOMAIN t
      PROVE  t[k].newly_ineligible = {S \in all : FixedAt(t, k, S)}
  <2>1. CASE k = Len(s) + 1
    <3>1. \A S : Obeys(t, k - 1, S) <=> Obeys(s, Len(s), S)
      BY <1>1, <1>2, <2>1
    <3>2. t[k].newly_ineligible = {S \in free : ~ConstraintAccepts(t[k], S)}
      BY <1>1, <2>1
    <3> QED
      BY <3>1, <3>2 DEF Masks, FixedAt
  <2>2. CASE k \in DOMAIN s
    <3>1. k - 1 \in 0..Len(s) /\ t[k] = s[k]
      BY <1>1, <2>2
    <3>2. \A S : FixedAt(t, k, S) <=> FixedAt(s, k, S)
      BY <1>2, <3>1 DEF FixedAt
    <3> QED
      BY <2>2, <3>1, <3>2 DEF Masks
  <2> QED
    BY <1>1, <2>1, <2>2
<1> QED
  BY <1>3, <1>4 DEF Masks, t

LEMMA FrontFacts ==
  ASSUME NEW X, NEW s \in Seq(X), s # <<>>
  PROVE  /\ Front(s) \in Seq(X) /\ Last(s) \in X
         /\ s = Append(Front(s), Last(s))
         /\ Last(s) = s[Len(s)] /\ Len(s) \in DOMAIN s
         /\ Len(s) = Len(Front(s)) + 1
         /\ \A k \in DOMAIN s : k \in DOMAIN Front(s) \/ k = Len(s)
<1>1. Len(s) \in Nat /\ Len(s) > 0 /\ DOMAIN s = 1..Len(s)
  OBVIOUS
<1>2. /\ Front(s) \in Seq(X) /\ Len(Front(s)) = Len(s) - 1
      /\ \A k \in 1..(Len(s) - 1) : Front(s)[k] = s[k]
  BY <1>1 DEF Front
<1>3. Last(s) = s[Len(s)] /\ Last(s) \in X
  BY <1>1 DEF Last
<1>4. s = Append(Front(s), Last(s))
  <2> DEFINE t == Append(Front(s), Last(s))
  <2>1. t \in Seq(X) /\ Len(t) = Len(s) /\ t[Len(s)] = s[Len(s)]
    <3>1. t \in Seq(X) /\ Len(t) = Len(Front(s)) + 1 /\ t[Len(Front(s)) + 1] = Last(s)
      BY <1>2, <1>3
    <3>2. Len(Front(s)) + 1 = Len(s)
      BY <1>1, <1>2
    <3> QED
      BY <1>3, <3>1, <3>2
  <2>2. \A k \in 1..(Len(s) - 1) : t[k] = s[k]
    BY <1>1, <1>2, <1>3
  <2> HIDE DEF t
  <2>3. \A k \in 1..Len(s) : t[k] = s[k]
    BY <1>1, <2>1, <2>2
  <2>4. t = s
    BY <2>1, <2>3, SeqEqual
  <2> QED
    BY <2>4 DEF t
<1>5. DOMAIN Front(s) = 1..(Len(s) - 1) /\ Len(s) = Len(Front(s)) + 1
  <2>1. DOMAIN Front(s) = 1..Len(Front(s))
    BY <1>2
  <2> QED
    BY <1>1, <1>2, <2>1
<1>6. \A k \in DOMAIN s : k \in DOMAIN Front(s) \/ k = Len(s)
  BY <1>1, <1>5
<1>7. Len(s) \in DOMAIN s
  BY <1>1
<1> QED
  BY <1>2, <1>3, <1>4, <1>5, <1>6, <1>7

LEMMA PopMasks ==
  ASSUME NEW X, NEW s \in Seq(X), s # <<>>, NEW free, NEW all, Masks(s, free, all)
  PROVE  Masks(Front(s), free \cup Last(s).newly_ineligible, all)
<1> DEFINE r == Front(s)
           f == Last(s)
<1>1. /\ r \in Seq(X) /\ f \in X /\ s = Append(r, f)
      /\ f = s[Len(s)] /\ Len(s) \in DOMAIN s /\ Len(s) = Len(r) + 1
      /\ Len(r) \in Nat /\ DOMAIN r = 1..Len(r) /\ DOMAIN s = 1..Len(s)
  BY FrontFacts
<1> HIDE DEF r, f
<1>2. \A S : /\ \A n \in 0..Len(r) : Obeys(s, n, S) <=> Obeys(r, n, S)
             /\ Obeys(s, Len(r) + 1, S) <=> Obeys(r, Len(r), S) /\ ConstraintAccepts(f, S)
  BY <1>1, ObeysAppend
<1>3. f.newly_ineligible = {S \in all : Obeys(r, Len(r), S) /\ ~ConstraintAccepts(f, S)}
  <2>1. \A S : FixedAt(s, Len(s), S) <=> Obeys(r, Len(r), S) /\ ~ConstraintAccepts(f, S)
    BY <1>1, <1>2 DEF FixedAt
  <2> QED
    BY <1>1, <2>1 DEF Masks
<1>4. free = {S \in all : Obeys(r, Len(r), S) /\ ConstraintAccepts(f, S)}
  BY <1>1, <1>2 DEF Masks
<1>5. free \cup f.newly_ineligible = {S \in all : Obeys(r, Len(r), S)}
  BY <1>3, <1>4
<1>6. ASSUME NEW k \in DOMAIN r
      PROVE  r[k].newly_ineligible = {S \in all : FixedAt(r, k, S)}
  <2>1. k - 1 \in 0..Len(r) /\ s[k] = r[k] /\ k \in DOMAIN s
    BY <1>1
  <2>2. \A S : FixedAt(s, k, S) <=> FixedAt(r, k, S)
    BY <1>2, <2>1 DEF FixedAt
  <2> QED
    BY <2>1, <2>2 DEF Masks
<1> QED
  BY <1>5, <1>6 DEF Masks, r, f
-----------------------------------------------------------------------------
(* A packing of few enough of the columns is a cover the LP can find.      *)
LEMMA PackingIsCover ==
  ASSUME cuts \subseteq Triples, NEW n \in Int, NEW columns,
         NEW P \in Packings, P \subseteq columns, Bins(P) =< n
  PROVE  P \in Covers(columns, n)
<1>1. UNION P = Items /\ Bins(P) \in Nat /\ IsFiniteSet(P)
  BY PackingFacts
<1>2. Bins(P) \in 0..n /\ P \in kSubset(Bins(P), columns)
  BY <1>1 DEF kSubset, Bins
<1>3. ASSUME NEW T \in cuts
      PROVE  Cardinality({S \in P : Coefficient(T, S) = 1}) =< 1
  <2> DEFINE paying == {S \in P : Coefficient(T, S) = 1}
  <2>1. \A R, S \in paying : R = S
    BY <1>3, OneBinPerCut
  <2>2. paying = {} \/ \E S \in paying : paying = {S}
    BY <2>1
  <2> HIDE DEF paying
  <2>3. Cardinality(paying) \in {0, 1}
    BY <2>2, FS_EmptySet, FS_Singleton
  <2> QED
    BY <2>3 DEF paying
<1> QED
  BY <1>1, <1>2, <1>3 DEF Covers

LEMMA RoundedSizesFacts ==
  ASSUME NEW covers, NEW n \in RoundedSizes(covers)
  PROVE  n \in PackingSizes
  BY DEF RoundedSizes, PackingSizes, Bins

(* A pair divides the packings, whatever was decided before.               *)
LEMMA PairDivides ==
  ASSUME NEW p \in Pairs, NEW P \in Packings
  PROVE  \/ \A S \in P : ConstraintAccepts([pair |-> p, relation |-> "Together"], S)
         \/ \A S \in P : ConstraintAccepts([pair |-> p, relation |-> "Different"], S)
<1>1. \/ Admits(Child({}, p, "Together"), P)
      \/ Admits(Child({}, p, "Different"), P)
  BY RootAdmitsAll, RyanFoster
<1> QED
  BY <1>1 DEF Admits, Accepts, Child
-----------------------------------------------------------------------------
(* The levels of the search, as it goes down and comes back.               *)
LEMMA Descends ==
  ASSUME MipInv, mip_pc = "node", NEW p \in Pairs,
         Push(stack, Frame(p, "Together")), UNCHANGED <<incumbent_bins, target_bins, populated>>
  PROVE  stack' \in Seq(MaskFrames) /\ Masks(stack', eligible', populated) /\ Complete'
<1> DEFINE f == Frame(p, "Together")
<1>1. /\ stack \in Seq(MaskFrames) /\ Masks(stack, eligible, populated) /\ Complete
      /\ incumbent_bins = incumbent_bins' /\ target_bins' = target_bins /\ populated' = populated
      /\ stack' = Append(stack, f) /\ eligible' = eligible \ f.newly_ineligible
      /\ mip_pc' = "node"
  BY DEF MipInv, Searching, Push
<1>2. /\ f.pair = p /\ f.relation = "Together"
      /\ f.newly_ineligible =
             {S \in eligible : ~ConstraintAccepts([pair |-> p, relation |-> "Together"], S)}
  BY DEF Frame
<1>3. f \in MaskFrames
  <2>1. f.newly_ineligible \in SUBSET populated
    BY <1>1, <1>2 DEF Masks
  <2> QED
    BY <2>1 DEF Frame, MaskFrames, Relations
<1>4. \A S : ConstraintAccepts(f, S) <=>
                 ConstraintAccepts([pair |-> p, relation |-> "Together"], S)
  BY <1>2 DEF ConstraintAccepts
<1> HIDE DEF f
<1>5. stack' \in Seq(MaskFrames)
  BY <1>1, <1>3
<1>6. Masks(stack', eligible', populated)
  BY <1>1, <1>2, <1>3, <1>4, PushMasks
<1>7. ASSUME NEW P \in Packings, P \subseteq eligible
      PROVE  P \subseteq eligible' \/ \E k \in DOMAIN stack' : Pending(stack', k, P)
  <2>1. CASE \A S \in P : ConstraintAccepts([pair |-> p, relation |-> "Together"], S)
    BY <1>1, <1>2, <1>7, <2>1
  <2>2. CASE \A S \in P : ConstraintAccepts([pair |-> p, relation |-> "Different"], S)
    <3> DEFINE k == Len(stack) + 1
    <3>1. k \in DOMAIN stack' /\ stack'[k] = f /\ k - 1 = Len(stack) /\ Len(stack) \in 0..Len(stack)
      BY <1>1, <1>3
    <3>2. \A S \in P : Obeys(stack, Len(stack), S)
      BY <1>1, <1>7 DEF Masks
    <3>3. \A S \in P : Obeys(stack', Len(stack), S)
      BY <1>1, <1>3, <3>1, <3>2, ObeysAppend
    <3>4. Other(f) = [pair |-> p, relation |-> "Different"]
      BY <1>2 DEF Other
    <3>5. Pending(stack', k, P)
      BY <1>2, <2>2, <3>1, <3>3, <3>4 DEF Pending
    <3> QED
      BY <3>1, <3>5
  <2> QED
    BY <2>1, <2>2, PairDivides
<1>8. ASSUME NEW P \in Packings, NEW k \in DOMAIN stack, Pending(stack, k, P)
      PROVE  k \in DOMAIN stack' /\ Pending(stack', k, P)
  <2>1. k \in DOMAIN stack'
    BY <1>1, <1>3
  <2> QED
    BY <1>1, <1>3, <1>8, <2>1, PendingAppend
<1>9. Complete'
  BY <1>1, <1>7, <1>8 DEF Complete, Wanted
<1> QED
  BY <1>5, <1>6, <1>9

(* The level that looks at the other side of the pair of f.                *)
Rejected(f) == {S \in Restored(f) : ~ConstraintAccepts(Other(f), S)}

Turned(f) == [pair |-> f.pair, relation |-> "Different", newly_ineligible |-> Rejected(f)]

(* A call has returned: on to the other side of the pair.                  *)
LEMMA TurnsToOther ==
  ASSUME MipInv, mip_pc = "return", stack # <<>>, ok = TRUE, Last(stack).relation = "Together",
         stack' = Append(Front(stack), Turned(Last(stack))),
         eligible' = Restored(Last(stack)) \ Rejected(Last(stack)),
         mip_pc' = "node", UNCHANGED <<incumbent_bins, target_bins, populated>>
  PROVE  stack' \in Seq(MaskFrames) /\ Masks(stack', eligible', populated) /\ Complete'
<1> DEFINE r == Front(stack)
           f == Last(stack)
           free == eligible \cup f.newly_ineligible
           rejected == {S \in free : ~ConstraintAccepts(Other(f), S)}
           g == Turned(f)
<1>1. /\ stack \in Seq(MaskFrames) /\ Masks(stack, eligible, populated) /\ Complete
      /\ stack' = Append(r, g) /\ eligible' = free \ rejected
  BY DEF MipInv, Searching, Restored, Rejected
<1>2. /\ r \in Seq(MaskFrames) /\ f \in MaskFrames /\ stack = Append(r, f)
      /\ f = stack[Len(stack)] /\ Len(stack) = Len(r) + 1 /\ Len(r) \in Nat
      /\ \A k \in DOMAIN stack : k \in DOMAIN r \/ k = Len(stack)
  BY <1>1, FrontFacts
<1>3. Masks(r, free, populated)
  BY <1>1, PopMasks
<1>4. g \in MaskFrames /\ g.newly_ineligible = rejected
  <2>1. rejected \in SUBSET populated /\ rejected = Rejected(f)
    BY <1>3 DEF Masks, Rejected, Restored
  <2>2. f.pair \in Pairs
    BY <1>2 DEF MaskFrames
  <2> QED
    BY <2>1, <2>2 DEF MaskFrames, Relations, Turned
<1>5. \A S : ConstraintAccepts(g, S) <=> ConstraintAccepts(Other(f), S)
  BY DEF ConstraintAccepts, Other, Turned
<1> HIDE DEF r, f, g, free
<1>6. stack' \in Seq(MaskFrames)
  BY <1>1, <1>2, <1>4
<1>7. Masks(stack', eligible', populated)
  BY <1>1, <1>2, <1>3, <1>4, <1>5, PushMasks
<1>8. ASSUME NEW P \in Packings, Wanted(P), Pending(stack, Len(stack), P)
      PROVE  P \subseteq eligible'
  <2>1. /\ \A S \in P : Obeys(stack, Len(r), S) /\ ConstraintAccepts(Other(f), S)
        /\ P \subseteq populated
    BY <1>2, <1>8 DEF Pending, Wanted
  <2>2. Len(r) \in 0..Len(r)
    BY <1>2
  <2>3. \A S \in P : Obeys(r, Len(r), S)
    BY <1>2, <2>1, <2>2, ObeysAppend
  <2>4. P \subseteq free
    BY <1>3, <2>1, <2>3 DEF Masks
  <2> QED
    BY <1>1, <1>4, <2>1, <2>4
<1>9. ASSUME NEW P \in Packings, NEW k \in DOMAIN r, Pending(stack, k, P)
      PROVE  k \in DOMAIN stack' /\ Pending(stack', k, P)
  <2>1. Pending(r, k, P)
    BY <1>2, <1>9, PendingAppend
  <2>2. k \in DOMAIN stack'
    BY <1>1, <1>2, <1>4
  <2> QED
    BY <1>1, <1>2, <1>4, <2>1, <2>2, PendingAppend
<1>10. Complete'
  BY <1>1, <1>2, <1>8, <1>9 DEF Complete, Wanted
<1> QED
  BY <1>6, <1>7, <1>10

(* A call has returned: back to the parent, which has no side left or is   *)
(* not to look at it.                                                      *)
LEMMA ReturnsToParent ==
  ASSUME MipInv, mip_pc = "return", stack # <<>>,
         ok = FALSE \/ Last(stack).relation = "Different",
         stack' = Front(stack), eligible' = Restored(Last(stack)),
         UNCHANGED <<mip_pc, ok, incumbent_bins, target_bins, populated>>
  PROVE  stack' \in Seq(MaskFrames) /\ Masks(stack', eligible', populated) /\ Complete'
<1> DEFINE r == Front(stack)
           f == Last(stack)
<1>1. /\ stack \in Seq(MaskFrames) /\ Masks(stack, eligible, populated) /\ Complete
      /\ eligible' = eligible \cup f.newly_ineligible
  BY DEF MipInv, Searching, Restored
<1>2. /\ r \in Seq(MaskFrames) /\ f \in MaskFrames /\ stack = Append(r, f)
      /\ f = stack[Len(stack)]
      /\ \A k \in DOMAIN stack : k \in DOMAIN r \/ k = Len(stack)
  BY <1>1, FrontFacts
<1>3. Masks(r, eligible', populated)
  BY <1>1, PopMasks
<1>4. ASSUME NEW P \in Packings, NEW k \in DOMAIN stack, Pending(stack, k, P), ok # FALSE
      PROVE  k \in DOMAIN stack' /\ Pending(stack', k, P)
  <2>1. k \in DOMAIN r
    BY <1>2, <1>4 DEF Pending
  <2> QED
    BY <1>2, <1>4, <2>1, PendingAppend
<1>5. Complete'
  BY <1>1, <1>4 DEF Complete, Wanted
<1> QED
  BY <1>2, <1>3, <1>5
-----------------------------------------------------------------------------
(* Outside the search no level is open, and nothing is certified before    *)
(* the end.                                                                *)
LEMMA QuietStep ==
  ASSUME MipInv, mip_pc # "end", mip_pc' # "idle", pc' = "done", branching' = {},
         incumbent_bins' \in PackingSizes, cuts' = cuts,
         stack' = <<>>, mip_pc' \notin {"node", "return"},
         UNCHANGED <<target_bins, ok, mip_certified>>
  PROVE  MipInv'
<1>1. ~mip_certified'
  BY DEF MipInv
<1>2. <<>> \in Seq(MaskFrames')
  OBVIOUS
<1> QED
  BY <1>1, <1>2 DEF MipInv, Searching, ResolvedMeansExhausted

LEMMA GenerateKeeps == MipInv /\ Generate /\ UNCHANGED mip => MipInv'
<1> SUFFICES ASSUME MipInv, Generate, UNCHANGED mip PROVE MipInv'
  OBVIOUS
<1>1. mip_pc = "idle" /\ branching' = branching
  BY DEF MipInv, Generate, Iterate, Throw, Separate, Finish
<1>2. BoundCertified /\ BoundCertified'
  BY <1>1, CertifiedStep DEF MipInv
<1>3. cuts' \subseteq Triples
  BY <1>2 DEF BoundCertified, TypeOK
<1>4. branching' = {} => incumbent_bins' \in PackingSizes
  <2>1. CASE Iterate
    <3>1. PICK n \in RoundedIncumbents(pool) : incumbent_bins' = n
      BY <2>1 DEF Iterate
    <3>2. incumbent_bins \in PackingSizes \cup {NoIncumbent}
      BY <1>2 DEF BoundCertified, TypeOK
    <3>3. incumbent_bins' \in PackingSizes \cup {incumbent_bins}
      BY <3>1, <3>2, IncumbentFacts
    <3> QED
      BY <1>1, <3>3 DEF MipInv
  <2>2. CASE Throw \/ Separate \/ Finish
    BY <1>1, <2>2 DEF MipInv, Throw, Separate, Finish
  <2> QED
    BY <2>1, <2>2 DEF Generate
<1>5. ~mip_certified'
  BY <1>1 DEF MipInv, mip
<1>6. stack' = <<>> /\ mip_pc' = "idle" /\ target_bins' \in Int /\ ok' \in BOOLEAN
  BY <1>1 DEF MipInv, mip, search
<1>7. <<>> \in Seq(MaskFrames')
  OBVIOUS
<1> QED
  BY <1>2, <1>3, <1>4, <1>5, <1>6, <1>7 DEF MipInv, Searching, ResolvedMeansExhausted

LEMMA StartKeeps == MipInv /\ Start => MipInv'
  BY QuietStep DEF MipInv, Start, vars, search

LEMMA PopulateKeeps == MipInv /\ Populate => MipInv'
<1> SUFFICES ASSUME MipInv, Populate PROVE MipInv'
  OBVIOUS
<1>1. /\ mip_pc \in {"option", "populate"} /\ pc = "done" /\ branching = {}
      /\ incumbent_bins \in PackingSizes /\ stack = <<>>
  BY DEF MipInv, Populate
<1>2. mip_pc' \in {"end", "thrown", "populate", "search"} /\ incumbent_bins' \in PackingSizes
  <2>1. CASE mip_pc' \in {"end", "thrown"} /\ UNCHANGED incumbent_bins
    BY <1>1, <2>1
  <2>2. ASSUME NEW K, PopulateColumns(K)
        PROVE  mip_pc' \in {"end", "populate", "search"} /\ incumbent_bins' \in PackingSizes
    BY <1>1, <2>2, IncumbentFacts DEF PopulateColumns
  <2> QED
    BY <2>1, <2>2 DEF Populate
<1>3. UNCHANGED <<branching, cuts, pc, target_bins, stack, ok, mip_certified>>
  BY DEF Populate, search
<1> QED
  BY <1>1, <1>2, <1>3, QuietStep

LEMMA SolveMipKeeps == MipInv /\ SolveMip => MipInv'
<1> SUFFICES ASSUME MipInv, SolveMip PROVE MipInv'
  OBVIOUS
<1> DEFINE covers == Covers(pool, incumbent_bins - 1)
<1>1. /\ mip_pc = "search" /\ generic /\ pc = "done" /\ branching = {} /\ cuts \subseteq Triples
      /\ incumbent_bins \in PackingSizes /\ stack = <<>>
      /\ UNCHANGED <<branching, pool, cuts, pc, generic, populated, search>>
  BY DEF MipInv, SolveMip
<1>2. CASE covers = {} /\ MipCertify
  <2>1. mip_pc' = "end" /\ incumbent_bins' = incumbent_bins
    BY <1>2 DEF MipCertify
  <2>2. ASSUME NEW P \in Packings, P \subseteq pool PROVE incumbent_bins =< Bins(P)
    <3>1. incumbent_bins \in Int /\ Bins(P) \in Int
      BY <1>1, PackingSizesType, BinsType
    <3>2. ASSUME Bins(P) =< incumbent_bins - 1 PROVE FALSE
      <4>1. incumbent_bins - 1 \in Int
        BY <3>1
      <4>2. P \in Covers(pool, incumbent_bins - 1)
        BY <1>1, <2>2, <3>2, <4>1, PackingIsCover
      <4> QED
        BY <1>2, <4>2
    <3> QED
      BY <3>1, <3>2
  <2>3. ResolvedMeansExhausted'
    BY <1>1, <2>1, <2>2 DEF ResolvedMeansExhausted
  <2> QED
    BY <1>1, <2>1, <2>3 DEF MipInv, Searching, search
<1>3. ASSUME NEW n \in RoundedSizes(covers), NewIncumbent(n) PROVE MipInv'
  BY <1>1, <1>3, RoundedSizesFacts, QuietStep DEF NewIncumbent, NextRound, search
<1>4. CASE GiveUp
  BY <1>1, <1>4, QuietStep DEF GiveUp, search
<1>5. GenericSearch
  BY DEF SolveMip
<1> QED
  BY <1>2, <1>3, <1>4, <1>5 DEF GenericSearch

LEMMA StartSearchKeeps == MipInv /\ StartSearch => MipInv'
<1> SUFFICES ASSUME MipInv, StartSearch PROVE MipInv'
  OBVIOUS
<1>1. /\ mip_pc = "search" /\ pc = "done" /\ branching = {} /\ cuts \subseteq Triples
      /\ incumbent_bins \in PackingSizes /\ stack = <<>> /\ ~mip_certified
      /\ eligible' = populated /\ target_bins' = incumbent_bins - 1 /\ ~generic'
      /\ mip_pc' \in {"end", "node"}
      /\ UNCHANGED <<branching, pool, cuts, pc, incumbent_bins, populated, stack, ok,
                     mip_certified>>
  BY DEF MipInv, StartSearch, NewColumnsOnly, vars
<1>2. incumbent_bins \in Int
  BY <1>1, PackingSizesType
<1>3. <<>> \in Seq(MaskFrames')
  OBVIOUS
<1>4. Masks(<<>>, populated, populated)
  BY DEF Masks, Obeys
<1>5. mip_pc' = "node" => Complete'
  BY <1>1, <1>2 DEF Complete, Wanted
<1> QED
  BY <1>1, <1>2, <1>3, <1>4, <1>5 DEF MipInv, Searching, ResolvedMeansExhausted

LEMMA NodeKeeps == MipInv /\ Node => MipInv'
<1> SUFFICES ASSUME MipInv, Node PROVE MipInv'
  OBVIOUS
<1> DEFINE covers == Covers(eligible, target_bins)
<1>1. /\ mip_pc = "node" /\ pc = "done" /\ branching = {} /\ incumbent_bins \in PackingSizes
      /\ cuts \subseteq Triples /\ target_bins \in Int /\ ok \in BOOLEAN /\ ~mip_certified
      /\ ~generic /\ stack \in Seq(MaskFrames) /\ Masks(stack, eligible, populated) /\ Complete
      /\ UNCHANGED <<branching, pool, cuts, pc, generic, populated, target_bins, mip_certified>>
  BY DEF MipInv, Node, Searching
<1>2. MaskFrames' = MaskFrames
  BY <1>1 DEF MaskFrames
<1>3. ASSUME stack' \in Seq(MaskFrames), ok' \in BOOLEAN, incumbent_bins' \in PackingSizes,
             mip_pc' \in {"node", "return", "thrown"},
             mip_pc' # "thrown" => Masks(stack', eligible', populated) /\ Complete'
      PROVE  MipInv'
  BY <1>1, <1>2, <1>3 DEF MipInv, Searching, ResolvedMeansExhausted
<1>4. CASE Answer(FALSE) /\ UNCHANGED incumbent_bins
  <2>1. Complete'
    BY <1>1, <1>4 DEF Complete, Answer
  <2> QED
    BY <1>1, <1>3, <1>4, <2>1 DEF Answer
<1>5. CASE covers = {} /\ Answer(TRUE) /\ UNCHANGED incumbent_bins
  <2>1. \A P \in Packings : ~(Wanted(P) /\ P \subseteq eligible)
    BY <1>1, <1>5, PackingIsCover DEF Wanted
  <2>2. Complete'
    BY <1>1, <1>5, <2>1 DEF Complete, Answer, Wanted
  <2> QED
    BY <1>1, <1>3, <1>5, <2>2 DEF Answer
<1>6. ASSUME NEW n \in RoundedSizes(covers), Leaf(n) PROVE MipInv'
  <2>1. n \in PackingSizes
    BY <1>6, RoundedSizesFacts
  <2>2. n \in Int /\ incumbent_bins \in Int
    BY <1>1, <2>1, PackingSizesType
  <2>3. CASE n >= incumbent_bins
    BY <1>1, <1>3, <1>6, <2>3 DEF Leaf
  <2>4. CASE ~(n >= incumbent_bins)
    <3>1. incumbent_bins' = n /\ Answer(TRUE)
      BY <1>6, <2>4 DEF Leaf
    <3>2. Complete'
      BY <1>1, <2>2, <2>4, <3>1 DEF Complete
    <3> QED
      BY <1>1, <1>3, <2>1, <3>1, <3>2 DEF Answer
  <2> QED
    BY <2>3, <2>4
<1>7. ASSUME NEW p \in Pairs, Push(stack, Frame(p, "Together")), UNCHANGED <<incumbent_bins, ok>>
      PROVE  MipInv'
  <2>1. stack' \in Seq(MaskFrames) /\ Masks(stack', eligible', populated) /\ Complete'
    BY <1>1, <1>7, Descends
  <2> QED
    BY <1>1, <1>3, <1>7, <2>1 DEF Push
<1>8. (Answer(FALSE) /\ UNCHANGED incumbent_bins) \/ Explore
  BY DEF Node
<1> QED
  BY <1>4, <1>5, <1>6, <1>7, <1>8 DEF Explore

LEMMA ReturnKeeps == MipInv /\ Return => MipInv'
<1> SUFFICES ASSUME MipInv, Return PROVE MipInv'
  OBVIOUS
<1> DEFINE f == Last(stack)
<1>1. /\ mip_pc = "return" /\ pc = "done" /\ branching = {} /\ incumbent_bins \in PackingSizes
      /\ cuts \subseteq Triples /\ target_bins \in Int /\ ok \in BOOLEAN /\ ~mip_certified
      /\ ~generic /\ stack # <<>> /\ stack \in Seq(MaskFrames)
      /\ UNCHANGED <<branching, pool, cuts, pc, generic, incumbent_bins, populated, target_bins, ok,
                     mip_certified>>
  BY DEF MipInv, Return, Searching, vars
<1>2. MaskFrames' = MaskFrames
  BY <1>1 DEF MaskFrames
<1>3. f.relation \in {"Together", "Different"}
  <2>1. f \in MaskFrames
    BY <1>1, FrontFacts
  <2> QED
    BY <2>1 DEF MaskFrames, Relations
<1>4. ASSUME stack' \in Seq(MaskFrames), Masks(stack', eligible', populated), Complete',
             mip_pc' \in {"node", "return"}
      PROVE  MipInv'
  BY <1>1, <1>2, <1>4 DEF MipInv, Searching, ResolvedMeansExhausted
<1>5. CASE ok /\ ~BothSides(f)
  <2>1. /\ stack' = Append(Front(stack), Turned(f))
        /\ eligible' = Restored(f) \ Rejected(f) /\ mip_pc' = "node"
    BY <1>5 DEF Return, Turned, Rejected, Other
  <2>2. ok = TRUE /\ f.relation = "Together"
    BY <1>1, <1>3, <1>5 DEF BothSides
  <2> QED
    BY <1>1, <1>4, <2>1, <2>2, TurnsToOther
<1>6. CASE ~(ok /\ ~BothSides(f))
  <2>1. stack' = Front(stack) /\ eligible' = Restored(f) /\ mip_pc' = mip_pc
    BY <1>6 DEF Return
  <2>2. ok = FALSE \/ f.relation = "Different"
    BY <1>1, <1>6 DEF BothSides
  <2> QED
    BY <1>1, <1>4, <2>1, <2>2, ReturnsToParent
<1> QED
  BY <1>5, <1>6

LEMMA ConcludeKeeps == MipInv /\ Conclude => MipInv'
<1> SUFFICES ASSUME MipInv, Conclude PROVE MipInv'
  OBVIOUS
<1>1. /\ mip_pc = "return" /\ pc = "done" /\ branching = {} /\ incumbent_bins \in PackingSizes
      /\ cuts \subseteq Triples /\ target_bins \in Int /\ ok \in BOOLEAN /\ ~mip_certified
      /\ ~generic /\ stack = <<>> /\ Complete
      /\ UNCHANGED <<branching, pool, cuts, pc, generic, populated, search>>
  BY DEF MipInv, Conclude, Searching
<1>2. CASE GiveUp
  BY <1>1, <1>2, QuietStep DEF GiveUp, search
<1>3. CASE NextRound /\ UNCHANGED incumbent_bins
  BY <1>1, <1>3, QuietStep DEF NextRound, search
<1>4. CASE ok /\ ~(incumbent_bins =< target_bins) /\ MipCertify
  <2>1. mip_pc' = "end" /\ incumbent_bins' = incumbent_bins
    BY <1>4 DEF MipCertify
  <2>2. ASSUME NEW P \in Packings, P \subseteq populated PROVE incumbent_bins =< Bins(P)
    <3>1. incumbent_bins \in Int /\ Bins(P) \in Int
      BY <1>1, PackingSizesType, BinsType
    <3>2. ~Wanted(P)
      BY <1>1, <1>4 DEF Complete
    <3> QED
      BY <1>1, <2>2, <3>1, <3>2 DEF Complete, Wanted
  <2>3. ResolvedMeansExhausted'
    BY <1>1, <2>1, <2>2 DEF ResolvedMeansExhausted
  <2> QED
    BY <1>1, <2>1, <2>3 DEF MipInv, Searching, search
<1> QED
  BY <1>2, <1>3, <1>4 DEF Conclude

LEMMA MipInvariant == MipSpec => []MipInv
<1>1. MipInit => MipInv
  <2> SUFFICES ASSUME MipInit PROVE MipInv
    OBVIOUS
  <2>1. BoundCertified
    BY CertifiedInit DEF MipInit
  <2>2. branching = {} => incumbent_bins \in PackingSizes
    BY RootAdmitsAll DEF MipInit, Init, PackingSizes
  <2>3. <<>> \in Seq(MaskFrames)
    OBVIOUS
  <2>4. cuts \subseteq Triples
    BY <2>1 DEF BoundCertified, TypeOK
  <2>5. /\ mip_pc = "idle" /\ mip_certified = FALSE /\ ok = FALSE /\ target_bins = 0
        /\ stack = <<>>
    BY DEF MipInit
  <2>6. stack \in Seq(MaskFrames) /\ target_bins \in Int /\ ok \in BOOLEAN
    <3>1. stack \in Seq(MaskFrames) /\ ok \in BOOLEAN
      BY <2>3, <2>5, Zenon
    <3>2. target_bins \in Int
      BY <2>5
    <3> QED
      BY <3>1, <3>2
  <2>7. ResolvedMeansExhausted /\ (mip_certified => mip_pc = "end") /\ ~Searching
    BY <2>5 DEF ResolvedMeansExhausted, Searching
  <2> QED
    BY <2>1, <2>2, <2>4, <2>5, <2>6, <2>7 DEF MipInv
<1>2. MipInv /\ [MipNext]_<<vars, mip>> => MipInv'
  <2> SUFFICES ASSUME MipInv, [MipNext]_<<vars, mip>> PROVE MipInv'
    OBVIOUS
  <2>1. CASE UNCHANGED <<vars, mip>>
    <3>1. UNCHANGED <<branching, pool, cuts, incumbent_bins, phase2, iteration, round, priced_cuts,
                      safe_bound, pc, generic, mip_round, populated, eligible, target_bins, stack,
                      nodes_used, ok, mip_certified, mip_pc>>
      BY <2>1 DEF vars, mip, search
    <3>2. BoundCertified => BoundCertified'
      BY <2>1, CertifiedStep
    <3>3. MaskFrames' = MaskFrames
      BY <3>1 DEF MaskFrames
    <3>4. Complete => Complete'
      BY <3>1 DEF Complete, Wanted
    <3>5. ResolvedMeansExhausted => ResolvedMeansExhausted'
      BY <3>1 DEF ResolvedMeansExhausted
    <3> QED
      BY <3>1, <3>2, <3>3, <3>4, <3>5 DEF MipInv, Searching
  <2> QED
    BY <2>1, GenerateKeeps, StartKeeps, PopulateKeeps, SolveMipKeeps, StartSearchKeeps,
       NodeKeeps, ReturnKeeps, ConcludeKeeps DEF MipNext, Search
<1> QED
  BY <1>1, <1>2, PTL DEF MipSpec

(* The columns that are not fixed at zero are at any moment the populated  *)
(* ones that obey the path: what a level fixes it frees, on each of the    *)
(* ways back from the search (column_generation.cpp:219).                  *)
THEOREM MasksAreRestored == MipSpec => []MasksRestored
<1>1. MipInv => MasksRestored
  <2> SUFFICES ASSUME MipInv, mip_pc \in {"node", "return"}
               PROVE  eligible = {S \in populated :
                                     \A k \in DOMAIN stack : ConstraintAccepts(stack[k], S)}
    BY DEF MasksRestored
  <2>1. eligible = {S \in populated : Obeys(stack, Len(stack), S)} /\ stack \in Seq(MaskFrames)
    BY DEF MipInv, Searching, Masks
  <2>2. \A k \in DOMAIN stack : k =< Len(stack)
    BY <2>1
  <2> QED
    BY <2>1, <2>2 DEF Obeys
<1> QED
  BY <1>1, MipInvariant, PTL

(* When the search ends with a certificate, no packing made of the columns *)
(* it was given has fewer bins than the incumbent, whichever fractional    *)
(* pairs it branched on and wherever the LP left it a choice.              *)
THEOREM ResolvedIsExhausted == MipSpec => []ResolvedMeansExhausted
<1>1. MipInv => ResolvedMeansExhausted
  BY DEF MipInv
<1> QED
  BY <1>1, MipInvariant, PTL
-----------------------------------------------------------------------------
(* The rounds of the label-setting program, and what they find.            *)
Frontiers(u, order, target, n, frontier) ==
    frontier = [k \in 0..n |->
                  IF k = 0 THEN [labels |-> {[items |-> {}, value |-> 0]}, found |-> {}]
                           ELSE Scan(u, order, target, frontier[k - 1], k)]

LEMMA EnumeratedUnfolds ==
  ASSUME NEW u, NEW target
  PROVE  LET order == ByRatio(u, Worthwhile(u, {}))
         IN  Enumerated(u, target) =
                 (CHOOSE f : Frontiers(u, order, target, Len(order), f))[Len(order)].found
  BY DEF Enumerated, Frontiers

LEMMA FrontiersExist ==
  ASSUME NEW u, NEW order, NEW target, NEW n \in Nat
  PROVE  \E f : Frontiers(u, order, target, n, f)
<1> DEFINE First == [labels |-> {[items |-> {}, value |-> 0]}, found |-> {}]
           Round(f, k) == Scan(u, order, target, f[k - 1], k)
           N == {m \in Nat : \E f : Frontiers(u, order, target, m, f)}
<1>1. 0 \in N
  <2> DEFINE f == [k \in 0..0 |-> First]
  <2>1. f = [k \in 0..0 |-> IF k = 0 THEN First ELSE Round(f, k)]
    OBVIOUS
  <2>2. Frontiers(u, order, target, 0, f)
    BY <2>1 DEF Frontiers
  <2> QED
    BY <2>2
<1>2. ASSUME NEW m \in N PROVE m + 1 \in N
  <2>1. PICK f : Frontiers(u, order, target, m, f)
    BY <1>2
  <2> DEFINE g == [k \in 0..(m + 1) |-> IF k = 0 THEN First ELSE Round(f, k)]
  <2>2. f = [k \in 0..m |-> IF k = 0 THEN First ELSE Round(f, k)]
    BY <2>1 DEF Frontiers
  <2>3. \A k \in 0..m : g[k] = f[k]
    <3> SUFFICES ASSUME NEW k \in 0..m PROVE g[k] = f[k]
      OBVIOUS
    <3>1. k \in 0..(m + 1)
      OBVIOUS
    <3>2. f[k] = IF k = 0 THEN First ELSE Round(f, k)
      BY <2>2
    <3> QED
      BY <3>1, <3>2
  <2>4. \A k \in 0..(m + 1) : k # 0 => Round(f, k) = Round(g, k)
    <3> SUFFICES ASSUME NEW k \in 0..(m + 1), k # 0 PROVE Round(f, k) = Round(g, k)
      OBVIOUS
    <3>1. k - 1 \in 0..m
      OBVIOUS
    <3> QED
      BY <2>3, <3>1
  <2> HIDE DEF First, Round
  <2>5. g = [k \in 0..(m + 1) |-> IF k = 0 THEN First ELSE Round(g, k)]
    <3> DEFINE h == [k \in 0..(m + 1) |-> IF k = 0 THEN First ELSE Round(g, k)]
    <3>1. \A k \in 0..(m + 1) : g[k] = h[k]
      BY <2>4
    <3> QED
      BY <3>1
  <2>6. Frontiers(u, order, target, m + 1, g)
    BY <2>5 DEF Frontiers, First, Round
  <2> HIDE DEF g
  <2> QED
    BY <2>6
<1>3. N = Nat
  <2> HIDE DEF N
  <2>1. N \in SUBSET Nat
    BY DEF N
  <2> QED
    BY <1>1, <1>2, <2>1, NumberInduction
<1> QED
  BY <1>3

Parts == (SUBSET Items) \ {{}}

OfItems(frontier) ==
    /\ \A l \in frontier.labels : l.items \subseteq Items
    /\ frontier.found \subseteq Patterns

LEMMA ScanFinds ==
  ASSUME NEW u, NEW order, NEW target, NEW k, order[k] \in Parts,
         NEW frontier, OfItems(frontier)
  PROVE  OfItems(Scan(u, order, target, frontier, k))
<1> DEFINE e == order[k]
           next == Scan(u, order, target, frontier, k)
           Grown(l) == [items |-> l.items \cup e, value |-> l.value + Worth(u, e)]
           Joined == {l \in frontier.labels : MayJoin({}, e, l.items)}
<1>1. /\ \A l \in next.labels : l \in frontier.labels \/ \E m \in Joined : l = Grown(m)
      /\ \A S \in next.found : S \in frontier.found \/ \E m \in Joined : S = Grown(m).items
  BY DEF Scan
<1>2. \A m : Grown(m).items = m.items \cup e
  OBVIOUS
<1>3. e \subseteq Items /\ e # {}
  BY DEF Parts
<1> HIDE DEF next, Grown, e
<1>4. ASSUME NEW m \in Joined PROVE m.items \cup e \in Patterns /\ m.items \subseteq Items
  <2>1. /\ m.items \in SUBSET Items /\ e \in SUBSET Items
        /\ Load[m.items] + Load[e] =< Capacity
    BY <1>3 DEF OfItems, MayJoin
  <2>2. Load[m.items \cup e] = Load[m.items] + Load[e \ m.items]
    <3>1. m.items \cup e = m.items \cup (e \ m.items) /\ m.items \cap (e \ m.items) = {}
      OBVIOUS
    <3>2. e \ m.items \in SUBSET Items
      BY <2>1
    <3> QED
      BY <2>1, <3>1, <3>2, LoadAdds
  <2>3. Load[e \ m.items] =< Load[e]
    BY <2>1, LoadGrows
  <2>4. /\ Load[m.items] \in Nat /\ Load[e] \in Nat /\ Load[e \ m.items] \in Nat
        /\ Capacity \in Nat
    BY <2>1, LoadFacts, InstanceAssumption
  <2>5. Load[m.items \cup e] =< Capacity
    BY <2>1, <2>2, <2>3, <2>4
  <2> QED
    BY <1>3, <2>1, <2>5 DEF Patterns
<1>5. \A l \in next.labels : l.items \subseteq Items
  BY <1>1, <1>2, <1>3, <1>4 DEF OfItems
<1>6. next.found \subseteq Patterns
  BY <1>1, <1>2, <1>4 DEF OfItems
<1>7. OfItems(next)
  BY <1>5, <1>6 DEF OfItems
<1> QED
  BY <1>7 DEF next

LEMMA EnumeratedFacts ==
  ASSUME NEW u, \A i \in Items : u[i] \in Int, NEW target
  PROVE  Enumerated(u, target) \subseteq Patterns
<1> DEFINE order == ByRatio(u, Worthwhile(u, {}))
           f == CHOOSE f : Frontiers(u, order, target, Len(order), f)
<1>1. order \in Seq(Parts)
  <2> DEFINE E == Worthwhile(u, {})
  <2>1. Apart(E) /\ IsFiniteSet(E)
    BY WorthwhileFacts
  <2>2. Ranked(u, E, order)
    BY <2>1, ByRatioFacts
  <2>3. E \subseteq Parts
    BY <2>1 DEF Apart, Parts
  <2> HIDE DEF E
  <2> QED
    BY <2>2, <2>3 DEF Ranked
<1>2. Enumerated(u, target) = f[Len(order)].found
  BY EnumeratedUnfolds
<1> HIDE DEF order
<1>3. Len(order) \in Nat /\ \A k \in 1..Len(order) : order[k] \in Parts
  BY <1>1
<1>4. Frontiers(u, order, target, Len(order), f)
  BY <1>3, FrontiersExist
<1> HIDE DEF f
<1>5. /\ f[0] = [labels |-> {[items |-> {}, value |-> 0]}, found |-> {}]
      /\ \A k \in 1..Len(order) : f[k] = Scan(u, order, target, f[k - 1], k)
  <2> DEFINE Value(k) == IF k = 0 THEN [labels |-> {[items |-> {}, value |-> 0]}, found |-> {}]
                              ELSE Scan(u, order, target, f[k - 1], k)
  <2>1. f = [k \in 0..Len(order) |-> Value(k)]
    BY <1>4 DEF Frontiers
  <2> HIDE DEF Value
  <2>2. \A k \in 0..Len(order) : f[k] = Value(k)
    BY <2>1
  <2>3. 0 \in 0..Len(order) /\ \A k \in 1..Len(order) : k \in 0..Len(order) /\ k # 0
    BY <1>3
  <2> QED
    BY <2>2, <2>3 DEF Value
<1> DEFINE N == {k \in Nat : k =< Len(order) => OfItems(f[k])}
<1>6. 0 \in N
  BY <1>5 DEF OfItems
<1>7. ASSUME NEW k \in N PROVE k + 1 \in N
  <2> SUFFICES ASSUME k + 1 =< Len(order) PROVE OfItems(f[k + 1])
    OBVIOUS
  <2>1. k + 1 \in 1..Len(order) /\ k + 1 - 1 = k /\ k =< Len(order)
    BY <1>3
  <2>2. OfItems(f[k]) /\ order[k + 1] \in Parts
    BY <1>3, <1>7, <2>1
  <2>3. f[k + 1] = Scan(u, order, target, f[k], k + 1)
    BY <1>5, <2>1
  <2> QED
    BY <2>2, <2>3, ScanFinds
<1>8. N = Nat
  <2> HIDE DEF N
  <2>1. N \in SUBSET Nat
    BY DEF N
  <2> QED
    BY <1>6, <1>7, <2>1, NumberInduction
<1>9. OfItems(f[Len(order)])
  BY <1>3, <1>8
<1> QED
  BY <1>2, <1>9 DEF OfItems

(* Whatever a populate pass finds is a pattern.                            *)
LEMMA EnumerationsFacts ==
  ASSUME NEW u, \A i \in Items : u[i] \in Int, NEW p, NEW target,
         NEW K \in Enumerations(u, p, target)
  PROVE  K \subseteq Patterns
<1>1. PICK found \in IF DOMAIN p = {} THEN {Enumerated(u, target)}
                                          ELSE FoundWithCuts(u, p, target) :
          K \in Foremost(u, p, found)
  BY DEF Enumerations
<1>2. found \subseteq Patterns
  <2>1. CASE DOMAIN p = {}
    BY <1>1, <2>1, EnumeratedFacts
  <2>2. CASE DOMAIN p # {}
    <3>1. found \in FoundWithCuts(u, p, target)
      BY <1>1, <2>2
    <3>2. found \subseteq (SUBSET {i \in Items : u[i] > 0}) \cap Patterns
      BY <3>1, Zenon DEF FoundWithCuts
    <3> QED
      BY <3>2
  <2> QED
    BY <2>1, <2>2
<1> QED
  BY <1>1, <1>2 DEF Foremost
-----------------------------------------------------------------------------
(* The inductive invariant of the types, beside the one above: a round is  *)
(* begun only while one is left.                                           *)
MipTyped ==
    /\ MipInv
    /\ MipTypeOK
    /\ mip_pc \in {"search", "node", "return"} => mip_round < kMaxRounds
    /\ mip_pc = "idle" => populated = {}

(* The variables of Algorithm 1 after it is done.                          *)
LEMMA TypeStays ==
  ASSUME TypeOK, branching = {}, pc = "done", UNCHANGED <<branching, cuts, iteration, round,
         priced_cuts, pc>>,
         pool' \subseteq Patterns, incumbent_bins' \in PackingSizes,
         safe_bound' \in {safe_bound, incumbent_bins'}
  PROVE  TypeOK'
<1>1. pool' \subseteq AcceptedPatterns(branching')
  BY DEF AcceptedPatterns, Accepts
<1>2. safe_bound' \in 0..Cardinality(Items)
  <2>1. incumbent_bins' \in 0..Cardinality(Items)
    <3>1. PICK P \in Packings : incumbent_bins' = Bins(P)
      BY DEF PackingSizes
    <3> QED
      BY <3>1, PackingFacts, ItemsFacts
  <2> QED
    BY <2>1 DEF TypeOK
<1> QED
  BY <1>1, <1>2 DEF TypeOK

LEMMA PoolIsPatterns == TypeOK => pool \subseteq Patterns
  BY DEF TypeOK, AcceptedPatterns

(* What a round of the search says of the types; in it, one is left.       *)
TypedStep == MipTypeOK' /\ (Searching' \/ mip_pc' = "search" => mip_round' < kMaxRounds)

LEMMA PopulateTyped == MipTyped /\ Populate => TypedStep
<1> SUFFICES ASSUME MipTyped, Populate PROVE TypedStep
  OBVIOUS
<1>1. /\ mip_pc \in {"option", "populate"} /\ pc = "done" /\ branching = {} /\ TypeOK
      /\ cuts \subseteq Triples /\ incumbent_bins \in PackingSizes /\ pool \subseteq Patterns
      /\ mip_round \in 0..kMaxRounds /\ nodes_used \in 0..kMaxRestrictedNodes
      /\ populated \subseteq pool
  BY PoolIsPatterns DEF MipTyped, MipInv, MipTypeOK, Populate
<1>2. UNCHANGED <<branching, cuts, iteration, round, priced_cuts, safe_bound, pc, mip_round,
                  nodes_used>>
  BY DEF Populate, search
<1>3. CASE mip_pc' \in {"end", "thrown"} /\ UNCHANGED <<pool, populated, incumbent_bins>>
  BY <1>1, <1>2, <1>3, TypeStays DEF MipTypeOK, TypedStep, Searching
<1>4. ASSUME NEW d \in MasterDuals(pool, cuts), NEW target,
             NEW K \in Enumerations(d[1], d[2], target), PopulateColumns(K),
             ~(mip_pc = "populate" /\ NothingLeft)
      PROVE  TypedStep
  <2>1. \A i \in Items : d[1][i] \in Int
    BY <1>1, MasterDualsFacts, Algorithm1Assumption
  <2>2. K \subseteq Patterns
    BY <1>4, <2>1, EnumerationsFacts
  <2>3. /\ pool' = pool \cup K /\ populated' = K \ pool
        /\ mip_pc' \in {"populate", "end", "search"}
        /\ incumbent_bins' \in PackingSizes
    BY <1>1, <1>4, IncumbentFacts DEF PopulateColumns
  <2>4. TypeOK'
    BY <1>1, <1>2, <2>2, <2>3, TypeStays
  <2>5. mip_pc' = "search" => mip_round < kMaxRounds
    BY <1>1, <1>4, SafeMipAssumption DEF PopulateColumns, NothingLeft
  <2> QED
    BY <1>1, <1>2, <2>3, <2>4, <2>5 DEF MipTypeOK, TypedStep, Searching
<1> QED
  BY <1>3, <1>4 DEF Populate

LEMMA SearchTyped == MipTyped /\ Search => TypedStep
<1> SUFFICES ASSUME MipTyped, Search PROVE TypedStep
  OBVIOUS
<1>1. /\ mip_pc \in {"search", "node", "return"} /\ pc = "done" /\ branching = {} /\ TypeOK
      /\ incumbent_bins \in PackingSizes /\ pool \subseteq Patterns /\ populated \subseteq pool
      /\ mip_round \in 0..kMaxRounds /\ mip_round < kMaxRounds /\ kMaxRounds \in Nat
      /\ nodes_used \in 0..kMaxRestrictedNodes /\ kMaxRestrictedNodes \in Nat
      /\ mip_pc \in {"node", "return"} => eligible \subseteq populated
  BY PoolIsPatterns, SafeMipAssumption
     DEF MipTyped, MipInv, MipTypeOK, Search, SolveMip, StartSearch, Node, Return, Conclude
<1>2. /\ UNCHANGED <<branching, pool, cuts, iteration, round, priced_cuts, pc, populated>>
  BY DEF Search, SolveMip, StartSearch, Node, Return, Conclude, vars
<1>3. ASSUME incumbent_bins' \in PackingSizes, safe_bound' \in {safe_bound, incumbent_bins'}
      PROVE  TypeOK'
  BY <1>1, <1>2, <1>3, TypeStays
<1>4. ASSUME MipCertify \/ GiveUp \/ (NextRound /\ incumbent_bins' \in PackingSizes),
             nodes_used' = nodes_used
      PROVE  TypedStep
  <2>1. /\ incumbent_bins' \in PackingSizes /\ safe_bound' \in {safe_bound, incumbent_bins'}
        /\ mip_pc' \in {"end", "populate"} /\ mip_round' \in 0..kMaxRounds
    BY <1>1, <1>4 DEF MipCertify, GiveUp, NextRound
  <2>2. TypeOK'
    BY <1>3, <2>1
  <2> QED
    BY <1>1, <1>2, <1>4, <2>1, <2>2 DEF TypedStep, MipTypeOK, Searching
<1>5. CASE SolveMip
  <2>1. /\ nodes_used' = nodes_used
        /\ MipCertify \/ GiveUp \/ (NextRound /\ incumbent_bins' \in PackingSizes)
    BY <1>5, RoundedSizesFacts DEF SolveMip, GenericSearch, NewIncumbent, search
  <2> QED
    BY <1>4, <2>1
<1>6. CASE Conclude
  <2>1. /\ nodes_used' = nodes_used
        /\ MipCertify \/ GiveUp \/ (NextRound /\ incumbent_bins' \in PackingSizes)
    BY <1>1, <1>6 DEF Conclude, search
  <2> QED
    BY <1>4, <2>1
<1>7. ASSUME incumbent_bins' \in PackingSizes, safe_bound' = safe_bound, mip_round' = mip_round,
             nodes_used' \in 0..kMaxRestrictedNodes,
             mip_pc' \in {"node", "return", "end", "thrown"},
             mip_pc' \in {"node", "return"} => eligible' \subseteq populated'
      PROVE  TypedStep
  <2>1. TypeOK'
    BY <1>3, <1>7
  <2> QED
    BY <1>1, <1>2, <1>7, <2>1 DEF TypedStep, MipTypeOK, Searching
<1>8. CASE StartSearch
  BY <1>1, <1>2, <1>7, <1>8 DEF StartSearch, NewColumnsOnly, vars
<1>9. CASE Node
  <2>1. /\ mip_pc = "node" /\ safe_bound' = safe_bound /\ mip_round' = mip_round
        /\ nodes_used' \in 0..kMaxRestrictedNodes
    BY <1>1, <1>9 DEF Node, Answer
  <2>2. /\ incumbent_bins' \in PackingSizes
        /\ mip_pc' \in {"node", "return", "thrown"}
        /\ eligible' \subseteq eligible
    BY <1>1, <1>9, RoundedSizesFacts DEF Node, Explore, Answer, Leaf, Push
  <2> QED
    BY <1>1, <1>2, <1>7, <2>1, <2>2
<1>10. CASE Return
  <2>1. /\ mip_pc = "return" /\ UNCHANGED <<incumbent_bins, safe_bound, mip_round, nodes_used>>
        /\ mip_pc' \in {"node", "return"}
        /\ eligible' \subseteq eligible \cup Last(stack).newly_ineligible
    BY <1>10 DEF Return, Restored, vars
  <2>2. Last(stack) \in MaskFrames
    BY <1>10, FrontFacts DEF MipTyped, MipInv, Return
  <2>3. Last(stack).newly_ineligible \subseteq populated
    BY <2>2 DEF MaskFrames
  <2> QED
    BY <1>1, <1>2, <1>7, <2>1, <2>3
<1> QED
  BY <1>5, <1>6, <1>8, <1>9, <1>10 DEF Search

LEMMA MipTypedInvariant == MipSpec => []MipTyped
<1>1. MipInit /\ MipInv => MipTyped
  <2> SUFFICES ASSUME MipInit, MipInv PROVE MipTyped
    OBVIOUS
  <2>1. TypeOK
    BY DEF MipInit, MipInv, BoundCertified
  <2> QED
    BY <2>1, SafeMipAssumption DEF MipInit, MipTyped, MipTypeOK
<1>2. MipTyped /\ MipInv' /\ [MipNext]_<<vars, mip>> => MipTyped'
  <2> SUFFICES ASSUME MipTyped, MipInv', [MipNext]_<<vars, mip>> PROVE MipTyped'
    OBVIOUS
  <2>1. CASE Generate /\ UNCHANGED mip
    <3>1. mip_pc = "idle"
      BY <2>1 DEF MipTyped, MipInv, Generate, Iterate, Throw, Separate, Finish
    <3>2. TypeOK'
      BY <3>1, <2>1 DEF MipTyped, MipInv, BoundCertified, mip
    <3> QED
      BY <2>1, <3>1, <3>2 DEF MipTyped, MipTypeOK, mip, search
  <2>2. CASE Start
    <3>1. /\ UNCHANGED <<branching, pool, cuts, incumbent_bins, iteration, round, priced_cuts,
                         safe_bound, pc, mip_round, populated, nodes_used>>
          /\ mip_pc = "idle" /\ pc = "done" /\ branching = {}
          /\ mip_pc' \in {"option", "populate"}
      BY <2>2 DEF Start, vars, search
    <3> QED
      BY <3>1 DEF MipTyped, MipTypeOK, TypeOK
  <2>3. CASE Populate \/ Search
    <3>1. TypedStep
      BY <2>3, PopulateTyped, SearchTyped
    <3>2. mip_pc # "idle" /\ mip_pc' # "idle"
      <4>1. TypeOK' /\ mip_pc # "idle"
        BY <2>3, <3>1 DEF TypedStep, MipTypeOK, Populate, Search, SolveMip, StartSearch, Node,
                          Return, Conclude
      <4> QED
        BY <2>3, <4>1 DEF Populate, PopulateColumns, Search, SolveMip, GenericSearch, NewIncumbent,
           NextRound, MipCertify, GiveUp, StartSearch, Node, Explore, Answer, Leaf, Push,
           Return, Conclude
    <3> QED
      BY <3>1, <3>2 DEF MipTyped, TypedStep, Searching
  <2>4. CASE UNCHANGED <<vars, mip>>
    BY <2>4 DEF MipTyped, MipTypeOK, TypeOK, vars, mip, search
  <2> QED
    BY <2>1, <2>2, <2>3, <2>4 DEF MipNext
<1> QED
  BY <1>1, <1>2, MipInvariant, PTL DEF MipSpec

(* Through every populate pass and search the pool stays one of patterns,  *)
(* the columns to search are in it, no round is begun after the last, and  *)
(* what the pass enumerates fits a bin whatever the duals were.            *)
THEOREM MipTypeCorrect == MipSpec => []MipTypeOK
<1>1. MipTyped => MipTypeOK
  BY DEF MipTyped
<1> QED
  BY <1>1, MipTypedInvariant, PTL
=============================================================================

--------------------------- MODULE PricingProofs ---------------------------
(***************************************************************************)
(* What the proofs about column generation and its pricing programs need   *)
(* to know of the pricing problem, for every instance: the order by ratio, *)
(* the elements of a node, the fractional bound, and what items add to the *)
(* dual value of a partial pattern.                                        *)
(***************************************************************************)
EXTENDS Pricing, BranchingProofs, SequenceTheorems

(* The order by value for each unit of load is one of products.            *)
LEMMA Scaling ==
  ASSUME NEW x \in Int, NEW y \in Int, NEW k \in Int, k > 0
  PROVE  x * k > y * k <=> x > y
<1>1. ASSUME x > y PROVE x * k > y * k
  <2>1. (x - y) * k > 0
    BY <1>1
  <2> QED
    BY <2>1
<1>2. ASSUME x =< y PROVE x * k =< y * k
  <2>1. (y - x) * k >= 0
    BY <1>2
  <2> QED
    BY <2>1
<1> DEFINE left == x * k
           right == y * k
<1>3. left \in Int /\ right \in Int
  OBVIOUS
<1> HIDE DEF left, right
<1>4. x > y => left > right
  BY <1>1 DEF left, right
<1>5. x =< y => left =< right
  BY <1>2 DEF left, right
<1>6. left > right <=> x > y
  BY <1>3, <1>4, <1>5
<1> QED
  BY <1>6 DEF left, right

(* a of l against b of m, and b of m against c of n.                       *)
LEMMA RatiosChain ==
  ASSUME NEW a \in Int, NEW b \in Int, NEW c \in Int,
         NEW l \in Int, NEW m \in Int, NEW n \in Int, l > 0, m > 0, n > 0,
         ~(b * l > a * m), ~(c * m > b * n)
  PROVE  /\ ~(c * l > a * n)
         /\ a * n = c * l => a * m = b * l /\ b * n = c * m
<1> DEFINE am == a * m
           bl == b * l
           bn == b * n
           cm == c * m
           an == a * n
           cl == c * l
<1>1. /\ am \in Int /\ bl \in Int /\ bn \in Int /\ cm \in Int /\ an \in Int /\ cl \in Int
      /\ am * n = an * m /\ bl * n = bn * l /\ cm * l = cl * m
  OBVIOUS
<1>2. am >= bl /\ bn >= cm
  BY <1>1
<1> HIDE DEF am, bl, bn, cm, an, cl
<1>3. /\ bl * n > am * n <=> bl > am
      /\ am * n > bl * n <=> am > bl
      /\ cm * l > bn * l <=> cm > bn
      /\ bn * l > cm * l <=> bn > cm
      /\ cl * m > an * m <=> cl > an
      /\ an * m > cl * m <=> an > cl
  BY <1>1, Scaling
<1> DEFINE A == an * m
           B == bn * l
           C == cl * m
<1>4. A \in Int /\ B \in Int /\ C \in Int
  BY <1>1
<1>5. /\ B > A <=> bl > am
      /\ A > B <=> am > bl
      /\ C > B <=> cm > bn
      /\ B > C <=> bn > cm
      /\ C > A <=> cl > an
      /\ A > C <=> an > cl
  BY <1>1, <1>3
<1> HIDE DEF A, B, C
<1>6. ~(cl > an) /\ (an = cl => am = bl /\ bn = cm)
  BY <1>1, <1>2, <1>4, <1>5
<1> QED
  BY <1>6 DEF am, bl, bn, cm, an, cl
(* Parts of the items that share none.                                     *)
Apart(E) ==
    /\ \A e \in E : e \in SUBSET Items /\ e # {}
    /\ \A e, f \in E : e # f => e \cap f = {}

LEMMA PartFacts ==
  ASSUME NEW u, \A i \in Items : u[i] \in Int, NEW E, Apart(E), NEW e \in E
  PROVE  /\ Load[e] \in Int /\ Load[e] > 0
         /\ Worth(u, e) \in Int
         /\ Min(e) \in e /\ Min(e) \in Int
<1>1. PICK i \in Items : i \in e
  BY DEF Apart
<1>2. e \in SUBSET Items
  BY DEF Apart
<1>3. Load[e] \in Nat /\ Weight[i] =< Load[e] /\ Weight[i] \in Int /\ Weight[i] > 0
  BY <1>1, <1>2, LoadFacts, ItemsFacts
<1>4. IsFiniteSet(e) /\ \A j \in e : u[j] \in Int
  BY <1>2, ItemsFacts
<1>5. Worth(u, e) \in Int
  BY <1>4, SumType DEF Worth
<1>6. e \in SUBSET Int /\ e # {}
  BY <1>1, <1>2, InstanceAssumption
<1>7. Min(e) \in e
  BY <1>4, <1>6, MinExists
<1>8. Load[e] \in Int /\ Load[e] > 0
  BY <1>3
<1>9. Min(e) \in Int
  BY <1>6, <1>7
<1> QED
  BY <1>5, <1>7, <1>8, <1>9

LEMMA RatioOrders ==
  ASSUME NEW u, \A i \in Items : u[i] \in Int, NEW E, Apart(E)
  PROVE  /\ \A e \in E : ~BetterRatio(u, e, e)
         /\ \A e, f \in E : e # f => BetterRatio(u, e, f) \/ BetterRatio(u, f, e)
         /\ \A e, f, g \in E :
                BetterRatio(u, e, f) /\ BetterRatio(u, f, g) => BetterRatio(u, e, g)
<1>1. \A e \in E : ~BetterRatio(u, e, e)
  <2> SUFFICES ASSUME NEW e \in E PROVE ~BetterRatio(u, e, e)
    OBVIOUS
  <2>1. Load[e] \in Int /\ Worth(u, e) \in Int /\ Min(e) \in Int
    BY PartFacts
  <2>2. Worth(u, e) * Load[e] \in Int
    BY <2>1
  <2> QED
    BY <2>1, <2>2 DEF BetterRatio
<1>2. \A e, f \in E : e # f => BetterRatio(u, e, f) \/ BetterRatio(u, f, e)
  <2> SUFFICES ASSUME NEW e \in E, NEW f \in E, e # f
               PROVE  BetterRatio(u, e, f) \/ BetterRatio(u, f, e)
    OBVIOUS
  <2>1. /\ Worth(u, e) * Load[f] \in Int /\ Worth(u, f) * Load[e] \in Int
        /\ Min(e) \in Int /\ Min(f) \in Int /\ Min(e) \in e /\ Min(f) \in f
    BY PartFacts
  <2>2. Min(e) # Min(f)
    BY <2>1 DEF Apart
  <2> QED
    BY <2>1, <2>2 DEF BetterRatio
<1>3. ASSUME NEW e \in E, NEW f \in E, NEW g \in E,
             BetterRatio(u, e, f), BetterRatio(u, f, g)
      PROVE  BetterRatio(u, e, g)
  <2> DEFINE a == Worth(u, e)
             b == Worth(u, f)
             c == Worth(u, g)
             l == Load[e]
             m == Load[f]
             n == Load[g]
  <2>1. /\ a \in Int /\ b \in Int /\ c \in Int
        /\ l \in Int /\ m \in Int /\ n \in Int /\ l > 0 /\ m > 0 /\ n > 0
        /\ Min(e) \in Int /\ Min(f) \in Int /\ Min(g) \in Int
    BY PartFacts
  <2>2. a * m > b * l \/ (a * m = b * l /\ Min(e) < Min(f))
    BY <1>3 DEF BetterRatio
  <2>3. b * n > c * m \/ (b * n = c * m /\ Min(f) < Min(g))
    BY <1>3 DEF BetterRatio
  <2> HIDE DEF a, b, c, l, m, n
  <2>4. /\ a * m \in Int /\ b * l \in Int /\ b * n \in Int /\ c * m \in Int
        /\ a * n \in Int /\ c * l \in Int
    BY <2>1
  <2>5. ~(b * l > a * m) /\ ~(c * m > b * n)
    BY <2>2, <2>3, <2>4
  <2>6. ~(c * l > a * n) /\ (a * n = c * l => a * m = b * l /\ b * n = c * m)
    BY <2>1, <2>5, RatiosChain
  <2>7. a * n > c * l \/ (a * n = c * l /\ Min(e) < Min(g))
    BY <2>1, <2>2, <2>3, <2>4, <2>6
  <2> QED
    BY <2>7 DEF BetterRatio, a, c, l, n
<1> QED
  BY <1>1, <1>2, <1>3

HasRank(u, E, e, k) == Cardinality({f \in E : BetterRatio(u, f, e)}) = k - 1

(* Of a finite set of single items, each has a rank of its own: the one    *)
(* it is found at.                                                         *)
LEMMA EveryRankTaken ==
  ASSUME NEW u, \A i \in Items : u[i] \in Int, NEW E, Apart(E), IsFiniteSet(E),
         NEW k \in 1..Cardinality(E)
  PROVE  \E e \in E : HasRank(u, E, e, k)
<1> DEFINE Before(e) == {f \in E : BetterRatio(u, f, e)}
           rank == [e \in E |-> Cardinality(Before(e))]
           Ranks == 0..(Cardinality(E) - 1)
           Others == Ranks \ {k - 1}
<1>1. Cardinality(E) \in Nat /\ k - 1 \in Ranks
  BY FS_CardinalityType
<1>2. IsFiniteSet(Others) /\ Cardinality(Others) < Cardinality(E)
  <2>1. IsFiniteSet(Ranks) /\ Cardinality(Ranks) = Cardinality(E)
    BY <1>1, FS_Interval
  <2> HIDE DEF Ranks
  <2>2. IsFiniteSet(Others) /\ Cardinality(Others) = Cardinality(Ranks) - 1
    BY <1>1, <2>1, FS_RemoveElement
  <2> QED
    BY <1>1, <2>1, <2>2
<1>3. ASSUME NEW e \in E PROVE IsFiniteSet(Before(e)) /\ Cardinality(Before(e)) \in Nat
  BY FS_Subset, FS_CardinalityType
<1>4. ASSUME NEW e \in E PROVE rank[e] \in 0..(Cardinality(E) - 1)
  <2>1. Before(e) \in SUBSET (E \ {e})
    BY RatioOrders
  <2>2. IsFiniteSet(E \ {e}) /\ Cardinality(E \ {e}) = Cardinality(E) - 1
    BY FS_RemoveElement
  <2>3. Cardinality(Before(e)) =< Cardinality(E) - 1
    BY <2>1, <2>2, FS_Subset
  <2> QED
    BY <1>1, <1>3, <2>3
<1>5. ASSUME NEW e \in E, NEW f \in E, BetterRatio(u, e, f) PROVE rank[e] # rank[f]
  <2>1. Before(e) \in SUBSET Before(f)
    BY <1>5, RatioOrders
  <2>2. e \in Before(f) /\ e \notin Before(e)
    BY <1>5, RatioOrders
  <2> HIDE DEF Before
  <2>3. Cardinality(Before(e)) # Cardinality(Before(f))
    BY <1>3, <2>1, <2>2, FS_Subset
  <2> QED
    BY <2>3
<1>6. ASSUME NEW e \in E, NEW f \in E, e # f PROVE rank[e] # rank[f]
  <2>1. BetterRatio(u, e, f) \/ BetterRatio(u, f, e)
    BY <1>6, RatioOrders
  <2> HIDE DEF rank
  <2> QED
    BY <1>5, <2>1
<1>7. \E e \in E : rank[e] = k - 1
  <2> SUFFICES ASSUME \A e \in E : rank[e] # k - 1 PROVE FALSE
    OBVIOUS
  <2> HIDE DEF rank, Others
  <2>1. rank \in [E -> Others]
    BY <1>4 DEF rank, Others
  <2> QED
    BY <1>2, <1>6, <2>1, FS_PigeonHole
<1> QED
  BY <1>7 DEF HasRank

(* All of the parts in order, the better ratio first.                      *)
Ranked(u, E, order) ==
    /\ order \in Seq(E)
    /\ \A e \in E : \E k \in 1..Len(order) : order[k] = e
    /\ \A j, k \in 1..Len(order) : j < k => BetterRatio(u, order[j], order[k])
    /\ \A j, k \in 1..Len(order) : j # k => order[j] # order[k]

LEMMA ByRatioFacts ==
  ASSUME NEW u, \A i \in Items : u[i] \in Int, NEW E, Apart(E), IsFiniteSet(E),
         NEW order, order = ByRatio(u, E)
  PROVE  Ranked(u, E, order) /\ Len(order) = Cardinality(E)
<1> DEFINE n == Cardinality(E)
           Before(e) == {f \in E : BetterRatio(u, f, e)}
<1>1. n \in Nat
  BY FS_CardinalityType
<1>2. \A k \in 1..n : order[k] \in E /\ HasRank(u, E, order[k], k)
  <2> SUFFICES ASSUME NEW k \in 1..n PROVE order[k] \in E /\ HasRank(u, E, order[k], k)
    OBVIOUS
  <2>1. \E e \in E : HasRank(u, E, e, k)
    BY EveryRankTaken
  <2>2. order[k] = CHOOSE e \in E : HasRank(u, E, e, k)
    BY DEF ByRatio, HasRank
  <2> QED
    BY <2>1, <2>2
<1>3. order \in [1..n -> E]
  BY <1>2 DEF ByRatio
<1>4. order \in Seq(E) /\ Len(order) = n
  BY <1>1, <1>3
<1>5. \A e \in E : IsFiniteSet(Before(e)) /\ Cardinality(Before(e)) \in Nat
  BY FS_Subset, FS_CardinalityType
<1>6. \A e, f \in E : BetterRatio(u, e, f) => Cardinality(Before(e)) < Cardinality(Before(f))
  <2> SUFFICES ASSUME NEW e \in E, NEW f \in E, BetterRatio(u, e, f)
               PROVE  Cardinality(Before(e)) < Cardinality(Before(f))
    OBVIOUS
  <2>1. Before(e) \in SUBSET Before(f)
    BY RatioOrders
  <2>2. e \in Before(f) /\ e \notin Before(e)
    BY RatioOrders
  <2> HIDE DEF Before
  <2> QED
    BY <1>5, <2>1, <2>2, FS_Subset
<1>7. \A k \in 1..n : Cardinality(Before(order[k])) = k - 1
  BY <1>2 DEF HasRank
<1> HIDE DEF Before
<1>8. ASSUME NEW j \in 1..n, NEW k \in 1..n, j < k
      PROVE  BetterRatio(u, order[j], order[k])
  <2>1. order[j] \in E /\ order[k] \in E /\ order[j] # order[k]
    BY <1>2, <1>7, <1>8
  <2>2. ~(Cardinality(Before(order[k])) < Cardinality(Before(order[j])))
    BY <1>7, <1>8
  <2>3. ~BetterRatio(u, order[k], order[j])
    BY <1>6, <2>1, <2>2
  <2> QED
    BY <2>1, <2>3, RatioOrders
<1>9. ASSUME NEW e \in E PROVE \E k \in 1..n : order[k] = e
  <2> DEFINE k == Cardinality(Before(e)) + 1
  <2>1. Cardinality(Before(e)) < n
    <3>1. Before(e) \in SUBSET (E \ {e})
      BY RatioOrders DEF Before
    <3>2. IsFiniteSet(E \ {e}) /\ Cardinality(E \ {e}) = n - 1
      BY FS_RemoveElement
    <3>3. Cardinality(Before(e)) =< n - 1
      BY <3>1, <3>2, FS_Subset
    <3> QED
      BY <1>1, <1>5, <3>3
  <2>2. k \in 1..n
    BY <1>1, <1>5, <2>1
  <2>3. order[k] \in E /\ Cardinality(Before(order[k])) = Cardinality(Before(e))
    BY <1>2, <1>5, <1>7, <2>2
  <2>4. order[k] = e
    BY <1>5, <1>6, <2>3, RatioOrders
  <2> QED
    BY <2>2, <2>4
<1>10. ASSUME NEW j \in 1..n, NEW k \in 1..n, j # k PROVE order[j] # order[k]
  BY <1>7, <1>10
<1>11. order \in Seq(E)
  BY <1>4
<1>12. \A j, k \in 1..n : j < k => BetterRatio(u, order[j], order[k])
  BY <1>8
<1>13. \A j, k \in 1..n : j # k => order[j] # order[k]
  BY <1>10
<1>14. \A e \in E : \E k \in 1..n : order[k] = e
  BY <1>9
<1> QED
  BY <1>4, <1>11, <1>12, <1>13, <1>14 DEF Ranked
-----------------------------------------------------------------------------
(* The elements of a node: each item is in one, and sets that obey the     *)
(* Together constraints are made of them.                                  *)
LEMMA TiedFacts ==
  ASSUME NEW b, NEW R, NEW S, Tied(b, R), Tied(b, S)
  PROVE  Tied(b, R \cap S) /\ Tied(b, R \cup S) /\ Tied(b, R \ S)
  BY DEF Tied

LEMMA ElementWhole ==
  ASSUME NEW b, NEW e \in Elements(b), NEW S, Tied(b, S)
  PROVE  e \subseteq S \/ e \cap S = {}
<1>1. Tied(b, e) /\ \A R \in (SUBSET e) \ {{}, e} : ~Tied(b, R)
  BY DEF Elements
<1>2. Tied(b, e \cap S)
  BY <1>1, TiedFacts
<1>3. e \cap S \in {{}, e}
  BY <1>1, <1>2
<1> QED
  BY <1>3

LEMMA ElementsApart ==
  ASSUME NEW b
  PROVE  Apart(Elements(b)) /\ IsFiniteSet(Elements(b))
<1>1. \A e \in Elements(b) : e \in SUBSET Items /\ e # {} /\ Tied(b, e)
  BY DEF Elements
<1>2. \A e, f \in Elements(b) : e # f => e \cap f = {}
  BY <1>1, ElementWhole
<1>3. IsFiniteSet(SUBSET Items)
  BY ItemsFacts, FS_SUBSET
<1>4. Elements(b) \in SUBSET (SUBSET Items)
  BY <1>1
<1>5. IsFiniteSet(Elements(b))
  BY <1>3, <1>4, FS_Subset
<1> QED
  BY <1>1, <1>2, <1>5 DEF Apart

LEMMA ElementOf ==
  ASSUME NEW b, NEW S \in SUBSET Items, Tied(b, S), NEW i \in S
  PROVE  \E e \in Elements(b) : i \in e /\ e \subseteq S
<1> DEFINE F == {R \in SUBSET S : i \in R /\ Tied(b, R)}
<1>1. S \in F /\ F \in SUBSET (SUBSET S) /\ IsFiniteSet(S)
  BY ItemsFacts
<1>2. PICK e \in F : \A R \in F : R \subseteq e => R = e
  <2> HIDE DEF F
  <2> QED
    BY <1>1, SmallestSubset
<1>3. ASSUME NEW R \in (SUBSET e) \ {{}, e}, Tied(b, R) PROVE FALSE
  <2>1. CASE i \in R
    BY <1>2, <1>3, <2>1
  <2>2. CASE i \notin R
    <3>1. Tied(b, e \ R)
      BY <1>2, <1>3, TiedFacts
    <3>2. e \ R \in F /\ e \ R \subseteq e
      BY <1>2, <2>2, <3>1
    <3>3. e \ R = e
      BY <1>2, <3>2
    <3> QED
      BY <1>3, <3>3
  <2> QED
    BY <2>1, <2>2
<1>4. e \in Elements(b)
  BY <1>2, <1>3 DEF Elements
<1> QED
  BY <1>2, <1>4

LEMMA AcceptsFacts ==
  ASSUME NEW b \in BranchingStates, NEW S
  PROVE  Accepts(b, S) <=> Tied(b, S) /\ ~Separated(b, S)
<1>1. \A c \in b : c.relation = "Together" \/ c.relation = "Different"
  BY DEF BranchingStates, Constraints, Relations
<1> QED
  BY <1>1 DEF Accepts, ConstraintAccepts, Tied, Separated

LEMMA SeparatedGrows ==
  ASSUME NEW b, NEW S, NEW R, R \subseteq S, Separated(b, R)
  PROVE  Separated(b, S)
  BY DEF Separated, Both

(* The elements to price are apart, and fit.                               *)
LEMMA WorthwhileFacts ==
  ASSUME NEW u, NEW b
  PROVE  /\ Apart(Worthwhile(u, b)) /\ IsFiniteSet(Worthwhile(u, b))
         /\ \A e \in Worthwhile(u, b) : /\ e \in Elements(b) /\ Tied(b, e)
                                        /\ ~Separated(b, e) /\ Load[e] =< Capacity
                                        /\ Worth(u, e) > 0
<1>1. \A e \in Worthwhile(u, b) : /\ e \in Elements(b) /\ Tied(b, e)
                                  /\ ~Separated(b, e) /\ Load[e] =< Capacity
                                  /\ Worth(u, e) > 0
  BY DEF Worthwhile, Usable, Elements
<1>2. Apart(Worthwhile(u, b))
  BY <1>1, ElementsApart DEF Apart
<1>3. Worthwhile(u, b) \in SUBSET Elements(b)
  BY <1>1
<1>4. IsFiniteSet(Worthwhile(u, b))
  BY <1>3, ElementsApart, FS_Subset
<1> QED
  BY <1>1, <1>2, <1>4
-----------------------------------------------------------------------------
(* Sums of combinations, and of parts each of which adds something.        *)
LEMMA SumLinear ==
  ASSUME NEW S, IsFiniteSet(S), NEW f, NEW g, \A x \in S : f[x] \in Int /\ g[x] \in Int,
         NEW p \in Int, NEW w \in Int, NEW h, \A x \in S : h[x] = p * f[x] - w * g[x]
  PROVE  SumFunctionOnSet(h, S) = p * SumFunctionOnSet(f, S) - w * SumFunctionOnSet(g, S)
<1> DEFINE Sum(k, T) == SumFunctionOnSet(k, T)
           Linear == {T \in SUBSET S : Sum(h, T) = p * Sum(f, T) - w * Sum(g, T)}
<1>1. {} \in Linear
  BY SumEmpty
<1>2. ASSUME NEW T \in Linear, NEW x \in S \ T
      PROVE  T \cup {x} \in Linear
  <2>1. IsFiniteSet(T)
    BY FS_Subset
  <2>2. \A y \in T \cup {x} : f[y] \in Int /\ g[y] \in Int /\ h[y] \in Int
    <3> SUFFICES ASSUME NEW y \in S PROVE h[y] \in Int
      OBVIOUS
    <3>1. p * f[y] \in Int /\ w * g[y] \in Int
      OBVIOUS
    <3> QED
      BY <3>1
  <2>3. Sum(f, T) \in Int /\ Sum(g, T) \in Int
    BY <2>1, <2>2, SumType
  <2>4. /\ Sum(f, T \cup {x}) = f[x] + Sum(f, T)
        /\ Sum(g, T \cup {x}) = g[x] + Sum(g, T)
        /\ Sum(h, T \cup {x}) = h[x] + Sum(h, T)
    BY <2>1, <2>2, SumAdds
  <2>5. h[x] = p * f[x] - w * g[x] /\ Sum(h, T) = p * Sum(f, T) - w * Sum(g, T)
    OBVIOUS
  <2> HIDE DEF Sum
  <2>6. /\ p * (f[x] + Sum(f, T)) = p * f[x] + p * Sum(f, T)
        /\ w * (g[x] + Sum(g, T)) = w * g[x] + w * Sum(g, T)
    BY <2>2, <2>3
  <2>7. /\ p * f[x] \in Int /\ p * Sum(f, T) \in Int
        /\ w * g[x] \in Int /\ w * Sum(g, T) \in Int
    BY <2>2, <2>3
  <2>8. Sum(h, T \cup {x}) = p * Sum(f, T \cup {x}) - w * Sum(g, T \cup {x})
    BY <2>4, <2>5, <2>6, <2>7
  <2> QED
    BY <2>8
<1>3. Linear = SUBSET S
  <2> HIDE DEF Linear
  <2>1. Linear \in SUBSET (SUBSET S)
    BY DEF Linear
  <2> QED
    BY <1>1, <1>2, <2>1, SubsetInduction
<1> QED
  BY <1>3

LEMMA SumOfGains ==
  ASSUME NEW Q, IsFiniteSet(Q), \A S \in Q : IsFiniteSet(S),
         \A R, S \in Q : R # S => R \cap S = {},
         NEW f, \A x \in UNION Q : f[x] \in Int, \A S \in Q : SumFunctionOnSet(f, S) >= 0
  PROVE  SumFunctionOnSet(f, UNION Q) >= 0
<1> DEFINE gain == [S \in Q |-> SumFunctionOnSet(f, S)]
           none == [S \in Q |-> 0]
<1>1. \A S \in Q : gain[S] \in Int /\ gain[S] >= 0 /\ none[S] = 0
  BY SumType
<1>2. \A S \in Q : gain[S] = SumFunctionOnSet(f, S)
  OBVIOUS
<1> HIDE DEF gain, none
<1>3. SumFunctionOnSet(gain, Q) = SumFunctionOnSet(f, UNION Q)
  BY <1>2, SumOfParts
<1>4. SumFunctionOnSet(none, Q) =< SumFunctionOnSet(gain, Q)
  BY <1>1, SumMonotone
<1>5. SumFunctionOnSet(none, Q) = 0 * Cardinality(Q)
  BY <1>1, SumConstant
<1>6. SumFunctionOnSet(none, Q) = 0
  BY <1>5, FS_CardinalityType
<1> QED
  BY <1>3, <1>4, <1>6

(* A set that takes each of the parts whole or not at all.                 *)
WholeIn(E, R) == \A e \in E : e \subseteq R \/ e \cap R = {}

LEMMA StretchFacts ==
  ASSUME NEW E, Apart(E), NEW order \in Seq(E),
         \A j, k \in 1..Len(order) : j # k => order[j] # order[k],
         NEW from \in 1..(Len(order) + 1), NEW to \in from..(Len(order) + 1)
  PROVE  /\ Stretch(order, from, to) \in SUBSET Items
         /\ Stretch(order, from, from) = {}
         /\ \A k \in 1..Len(order) :
                /\ order[k] \in E
                /\ k \in from..(to - 1) => order[k] \subseteq Stretch(order, from, to)
                /\ k \notin from..(to - 1) => order[k] \cap Stretch(order, from, to) = {}
<1>1. Len(order) \in Nat /\ \A k \in 1..Len(order) : order[k] \in E
  OBVIOUS
<1>2. \A k \in from..(to - 1) : k \in 1..Len(order)
  BY <1>1
<1>3. Stretch(order, from, to) \in SUBSET Items
  BY <1>1, <1>2 DEF Stretch, Apart
<1>4. from..(from - 1) = {}
  OBVIOUS
<1>5. Stretch(order, from, from) = {}
  BY <1>4 DEF Stretch
<1>6. ASSUME NEW k \in 1..Len(order), k \notin from..(to - 1)
      PROVE  order[k] \cap Stretch(order, from, to) = {}
  <2>1. \A j \in from..(to - 1) : order[k] \cap order[j] = {}
    BY <1>1, <1>2, <1>6 DEF Apart
  <2> QED
    BY <2>1 DEF Stretch
<1>7. ASSUME NEW k \in from..(to - 1) PROVE order[k] \subseteq Stretch(order, from, to)
  BY DEF Stretch
<1> QED
  BY <1>1, <1>3, <1>5, <1>6, <1>7

LEMMA WholeEndFacts ==
  ASSUME NEW E, Apart(E), NEW order \in Seq(E),
         \A j, k \in 1..Len(order) : j # k => order[j] # order[k],
         NEW from \in 1..(Len(order) + 1), NEW room \in Nat
  PROVE  /\ WholeEnd(order, from, room) \in from..(Len(order) + 1)
         /\ Load[Stretch(order, from, WholeEnd(order, from, room))] =< room
<1> DEFINE ends == {to \in from..(Len(order) + 1) : Load[Stretch(order, from, to)] =< room}
<1>1. from \in Int /\ Len(order) + 1 \in Int /\ from \in from..(Len(order) + 1)
  OBVIOUS
<1>2. from \in ends
  <2>1. Stretch(order, from, from) = {}
    BY <1>1, StretchFacts
  <2>2. Load[{}] = 0
    BY LoadFacts
  <2>3. Load[Stretch(order, from, from)] =< room
    BY <2>1, <2>2
  <2> QED
    BY <1>1, <2>3
<1>3. IsFiniteSet(from..(Len(order) + 1))
  BY <1>1, FS_Interval
<1>4. IsFiniteSet(ends)
  BY <1>3, FS_Subset
<1>5. ends \in SUBSET Int
  OBVIOUS
<1>6. Max(ends) \in ends
  <2> HIDE DEF ends
  <2> QED
    BY <1>2, <1>4, <1>5, MaxExists
<1>7. WholeEnd(order, from, room) = Max(ends)
  BY DEF WholeEnd
<1> HIDE DEF ends
<1> QED
  BY <1>6, <1>7 DEF ends

LEMMA SumsDiffer ==
  ASSUME NEW R, IsFiniteSet(R), NEW W, IsFiniteSet(W), NEW f, \A x \in R \cup W : f[x] \in Int
  PROVE  SumFunctionOnSet(f, R) - SumFunctionOnSet(f, W) =
             SumFunctionOnSet(f, R \ W) - SumFunctionOnSet(f, W \ R)
<1> DEFINE Sum(T) == SumFunctionOnSet(f, T)
<1>1. IsFiniteSet(R \ W) /\ IsFiniteSet(W \ R) /\ IsFiniteSet(R \cap W)
  BY FS_Subset
<1>2. /\ Sum((R \ W) \cup (R \cap W)) = Sum(R \ W) + Sum(R \cap W)
      /\ Sum((W \ R) \cup (R \cap W)) = Sum(W \ R) + Sum(R \cap W)
  BY <1>1, SumDisjoint
<1>3. (R \ W) \cup (R \cap W) = R /\ (W \ R) \cup (R \cap W) = W
  OBVIOUS
<1>4. Sum(R \ W) \in Int /\ Sum(W \ R) \in Int /\ Sum(R \cap W) \in Int
  BY <1>1, SumType
<1>5. /\ Sum(R) = Sum(R \ W) + Sum(R \cap W)
      /\ Sum(W) = Sum(W \ R) + Sum(R \cap W)
  BY <1>2, <1>3
<1> HIDE DEF Sum
<1>6. Sum(R) - Sum(W) = Sum(R \ W) - Sum(W \ R)
  BY <1>4, <1>5
<1> QED
  BY <1>6 DEF Sum

(* Beside the element that is cut to size: one before it is worth as much  *)
(* for its load, one after it no more.                                     *)
Balance(u, e) == [i \in Items |-> Worth(u, e) * Weight[i] - Load[e] * u[i]]

Deficit(u, e) == [i \in Items |-> Load[e] * u[i] - Worth(u, e) * Weight[i]]

LEMMA BalanceFacts ==
  ASSUME NEW u, \A i \in Items : u[i] \in Int, NEW E, Apart(E), NEW e \in E
  PROVE  /\ \A i \in Items : Balance(u, e)[i] \in Int /\ Deficit(u, e)[i] \in Int
         /\ \A S \in SUBSET Items :
                /\ SumFunctionOnSet(Balance(u, e), S) =
                       Worth(u, e) * Load[S] - Load[e] * Worth(u, S)
                /\ SumFunctionOnSet(Deficit(u, e), S) =
                       Load[e] * Worth(u, S) - Worth(u, e) * Load[S]
                /\ Worth(u, S) \in Int
<1> DEFINE p == Worth(u, e)
           w == Load[e]
           balance == Balance(u, e)
           deficit == Deficit(u, e)
<1>1. p \in Int /\ w \in Int
  BY PartFacts
<1>2. \A i \in Items : /\ balance[i] = p * Weight[i] - w * u[i]
                       /\ deficit[i] = w * u[i] - p * Weight[i]
                       /\ u[i] \in Int /\ Weight[i] \in Int
  BY ItemsFacts DEF Balance, Deficit
<1> HIDE DEF p, w, balance, deficit
<1>3. \A i \in Items : balance[i] \in Int /\ deficit[i] \in Int
  <2> SUFFICES ASSUME NEW i \in Items PROVE balance[i] \in Int /\ deficit[i] \in Int
    OBVIOUS
  <2>1. p * Weight[i] \in Int /\ w * u[i] \in Int
    BY <1>1, <1>2
  <2> QED
    BY <1>2, <2>1
<1>4. ASSUME NEW S \in SUBSET Items
      PROVE  /\ SumFunctionOnSet(balance, S) = p * Load[S] - w * Worth(u, S)
             /\ SumFunctionOnSet(deficit, S) = w * Worth(u, S) - p * Load[S]
             /\ Worth(u, S) \in Int
  <2>1. IsFiniteSet(S) /\ Load[S] = SumFunctionOnSet(Weight, S)
    BY ItemsFacts, LoadIsSum
  <2>2. \A i \in S : Weight[i] \in Int /\ u[i] \in Int
    BY <1>2
  <2>3. /\ \A i \in S : balance[i] = p * Weight[i] - w * u[i]
        /\ \A i \in S : deficit[i] = w * u[i] - p * Weight[i]
    BY <1>2
  <2>4. SumFunctionOnSet(balance, S) = p * SumFunctionOnSet(Weight, S) - w * SumFunctionOnSet(u, S)
    BY <1>1, <2>1, <2>2, <2>3, SumLinear
  <2>5. SumFunctionOnSet(deficit, S) = w * SumFunctionOnSet(u, S) - p * SumFunctionOnSet(Weight, S)
    BY <1>1, <2>1, <2>2, <2>3, SumLinear
  <2>6. SumFunctionOnSet(u, S) \in Int
    BY <1>2, <2>1, SumType
  <2> QED
    BY <2>1, <2>4, <2>5, <2>6 DEF Worth
<1> QED
  BY <1>3, <1>4 DEF p, w, balance, deficit

LEMMA CutToSize ==
  ASSUME NEW u, \A i \in Items : u[i] \in Int, NEW E, Apart(E), NEW e \in E, NEW f \in E,
         e = f \/ BetterRatio(u, e, f)
  PROVE  /\ SumFunctionOnSet(Balance(u, e), f) >= 0
         /\ SumFunctionOnSet(Deficit(u, f), e) >= 0
<1>1. e \in SUBSET Items /\ f \in SUBSET Items
  BY DEF Apart
<1>2. /\ SumFunctionOnSet(Balance(u, e), f) = Worth(u, e) * Load[f] - Load[e] * Worth(u, f)
      /\ SumFunctionOnSet(Deficit(u, f), e) = Load[f] * Worth(u, e) - Worth(u, f) * Load[e]
  BY <1>1, BalanceFacts
<1> DEFINE p == Worth(u, e)
           q == Worth(u, f)
           v == Load[e]
           w == Load[f]
<1>3. p \in Int /\ q \in Int /\ v \in Int /\ w \in Int
  BY PartFacts
<1>4. p * w >= q * v
  BY <1>3 DEF BetterRatio
<1> HIDE DEF p, q, v, w
<1>5. p * w = w * p /\ q * v = v * q /\ p * w \in Int /\ q * v \in Int
  BY <1>3
<1>6. p * w - v * q >= 0 /\ w * p - q * v >= 0
  BY <1>4, <1>5
<1> QED
  BY <1>2, <1>6 DEF p, q, v, w

LEMMA CutsLess ==
  ASSUME NEW p \in Int, p >= 0, NEW w \in Int, w > 0,
         NEW gain \in Int, NEW lost \in Int, NEW filled \in Int, NEW freed \in Int,
         p * filled - w * gain >= 0, w * lost - p * freed >= 0,
         NEW missing \in Int, missing =< gain - lost,
         NEW spare \in Int, filled - freed =< spare
  PROVE  missing * w =< p * spare
<1> DEFINE a == p * filled
           b == w * gain
           c == w * lost
           d == p * freed
<1>1. a \in Int /\ b \in Int /\ c \in Int /\ d \in Int
  OBVIOUS
<1>2. (gain - lost) * w = b - c /\ p * (filled - freed) = a - d
  OBVIOUS
<1>3. missing * w =< (gain - lost) * w
  OBVIOUS
<1>4. p * (filled - freed) =< p * spare
  OBVIOUS
<1>5. a - b >= 0 /\ c - d >= 0
  OBVIOUS
<1>6. missing * w \in Int /\ p * spare \in Int
  OBVIOUS
<1> HIDE DEF a, b, c, d
<1> QED
  BY <1>1, <1>2, <1>3, <1>4, <1>5, <1>6

(* The bound is sound: if elements not yet scanned that fit into the room  *)
(* left bring the value to the target, it says that the target is reached. *)
LEMMA BoundIsSound ==
  ASSUME NEW u, \A i \in Items : u[i] \in Int,
         NEW E, Apart(E), IsFiniteSet(E), \A e \in E : Worth(u, e) > 0,
         NEW order, Ranked(u, E, order), NEW from \in 1..(Len(order) + 1),
         NEW room \in Nat, NEW value \in Int, NEW target \in Int,
         NEW R \in SUBSET Stretch(order, from, Len(order) + 1), WholeIn(E, R),
         Load[R] =< room, value + Worth(u, R) >= target
  PROVE  Reaches(u, order, from, room, value, target)
<1> DEFINE n == Len(order)
           to == WholeEnd(order, from, room)
           W == Stretch(order, from, to)
           Out == {e \in E : e \subseteq W \ R}
           In == {e \in E : e \subseteq R \ W}
<1>1. /\ order \in Seq(E) /\ n \in Nat
      /\ \A e \in E : \E k \in 1..n : order[k] = e
      /\ \A j, k \in 1..n : j < k => BetterRatio(u, order[j], order[k])
      /\ \A k \in 1..n : order[k] \in E
  <2>1. /\ order \in Seq(E)
        /\ \A e \in E : \E k \in 1..n : order[k] = e
        /\ \A j, k \in 1..n : j < k => BetterRatio(u, order[j], order[k])
    BY DEF Ranked
  <2>2. n \in Nat /\ \A k \in 1..n : order[k] \in E
    BY <2>1
  <2> QED
    BY <2>1, <2>2
<1>2. \A j, k \in 1..n : j # k => order[j] # order[k]
  BY DEF Ranked
<1>3. /\ to \in from..(n + 1) /\ Load[W] =< room
      /\ to \in Int /\ n + 1 \in from..(n + 1)
  <2>1. to \in from..(n + 1) /\ Load[W] =< room
    BY <1>1, <1>2, WholeEndFacts
  <2>2. n + 1 \in from..(n + 1)
    BY <1>1
  <2> HIDE DEF to, W
  <2> QED
    BY <2>1, <2>2
<1> HIDE DEF to
<1>4. /\ W \in SUBSET Items
      /\ \A k \in 1..n : /\ k \in from..(to - 1) => order[k] \subseteq W
                         /\ k \notin from..(to - 1) => order[k] \cap W = {}
  BY <1>1, <1>2, <1>3, StretchFacts
<1>5. /\ R \in SUBSET Items
      /\ \A k \in 1..n : k \notin from..n => order[k] \cap R = {}
  <2> DEFINE end == n + 1
  <2>1. end \in from..(n + 1) /\ end - 1 = n
    BY <1>1, <1>3
  <2>2. R \in SUBSET Stretch(order, from, end)
    OBVIOUS
  <2> HIDE DEF end
  <2>3. /\ Stretch(order, from, end) \in SUBSET Items
        /\ \A k \in 1..n : k \notin from..(end - 1) => order[k] \cap Stretch(order, from, end) = {}
    BY <1>1, <1>2, <2>1, StretchFacts
  <2> QED
    BY <2>1, <2>2, <2>3
<1>6. \A i \in R \cup W : \E k \in 1..n : i \in order[k]
  <2>1. \A k \in from..((n + 1) - 1) : k \in 1..n
    BY <1>1
  <2>2. \A k \in from..(to - 1) : k \in 1..n
    BY <1>1, <1>3
  <2> QED
    BY <2>1, <2>2 DEF Stretch
<1> HIDE DEF W
<1>7. UNION Out = W \ R /\ UNION In = R \ W
  BY <1>1, <1>4, <1>6 DEF WholeIn
<1>8. /\ \A e \in Out : \E k \in from..(to - 1) : k \in 1..n /\ order[k] = e
      /\ \A e \in In : \E k \in to..n : k \in 1..n /\ order[k] = e
  <2>1. \A e \in E : e # {}
    BY DEF Apart
  <2>2. ASSUME NEW e \in Out PROVE \E k \in from..(to - 1) : k \in 1..n /\ order[k] = e
    BY <1>1, <1>4, <2>1
  <2>3. ASSUME NEW e \in In PROVE \E k \in to..n : k \in 1..n /\ order[k] = e
    <3>1. PICK k \in 1..n : order[k] = e
      BY <1>1
    <3>2. k \in from..n /\ k \notin from..(to - 1)
      BY <1>4, <1>5, <2>1, <3>1
    <3>3. k \in to..n
      BY <1>1, <1>3, <3>2
    <3> QED
      BY <3>1, <3>3
  <2> QED
    BY <2>2, <2>3
<1>9. /\ Out \in SUBSET E /\ In \in SUBSET E
      /\ IsFiniteSet(Out) /\ IsFiniteSet(In)
      /\ \A e \in Out \cup In : IsFiniteSet(e) /\ e \in SUBSET Items
      /\ \A e, f \in Out \cup In : e # f => e \cap f = {}
  <2>1. Out \in SUBSET E /\ In \in SUBSET E
    OBVIOUS
  <2> QED
    BY <2>1, FS_Subset, ItemsFacts DEF Apart
<1>10. /\ IsFiniteSet(R) /\ IsFiniteSet(W)
       /\ R \ W \in SUBSET Items /\ W \ R \in SUBSET Items
  BY <1>4, <1>5, ItemsFacts
<1> HIDE DEF In, Out
<1>11. /\ Worth(u, R) - Worth(u, W) = Worth(u, R \ W) - Worth(u, W \ R)
       /\ Worth(u, R) \in Int /\ Worth(u, W) \in Int
       /\ Worth(u, R \ W) \in Int /\ Worth(u, W \ R) \in Int
  <2>1. \A S \in SUBSET Items : Worth(u, S) \in Int
    BY ItemsFacts, SumType DEF Worth
  <2>2. \A i \in R \cup W : u[i] \in Int
    BY <1>4, <1>5
  <2> QED
    BY <1>4, <1>5, <1>10, <2>1, <2>2, SumsDiffer DEF Worth
<1>12. /\ Load[R] - Load[W] = Load[R \ W] - Load[W \ R]
       /\ Load[R] \in Int /\ Load[W] \in Int /\ Load[R \ W] \in Int /\ Load[W \ R] \in Int
  <2>1. \A i \in R \cup W : Weight[i] \in Int
    BY <1>4, <1>5, ItemsFacts
  <2>2. SumFunctionOnSet(Weight, R) - SumFunctionOnSet(Weight, W) =
            SumFunctionOnSet(Weight, R \ W) - SumFunctionOnSet(Weight, W \ R)
    BY <1>10, <2>1, SumsDiffer
  <2>3. \A S \in SUBSET Items : Load[S] = SumFunctionOnSet(Weight, S) /\ Load[S] \in Int
    BY LoadIsSum, LoadFacts
  <2> QED
    BY <1>4, <1>5, <1>10, <2>2, <2>3
<1> DEFINE missing == target - value - Worth(u, W)
<1>13. missing \in Int /\ missing =< Worth(u, R \ W) - Worth(u, W \ R)
  BY <1>11
<1>14. CASE to > n
  <2>1. In = {}
    <3>1. to..n = {}
      BY <1>1, <1>3, <1>14
    <3> QED
      BY <1>8, <3>1
  <2>2. R \ W = {}
    BY <1>7, <2>1
  <2>3. Worth(u, R \ W) = 0
    BY <2>2, SumEmpty DEF Worth
  <2>4. \A e \in Out : SumFunctionOnSet(u, e) >= 0
    <3> SUFFICES ASSUME NEW e \in Out PROVE SumFunctionOnSet(u, e) >= 0
      OBVIOUS
    <3>1. e \in E
      BY <1>9
    <3>2. Worth(u, e) > 0 /\ Worth(u, e) \in Int
      BY <3>1, PartFacts
    <3> QED
      BY <3>2 DEF Worth
  <2>5. \A i \in UNION Out : u[i] \in Int
    BY <1>4, <1>7
  <2>6. Worth(u, W \ R) >= 0
    <3>1. SumFunctionOnSet(u, UNION Out) >= 0
      BY <1>9, <2>4, <2>5, SumOfGains
    <3> QED
      BY <1>7, <3>1 DEF Worth
  <2>7. missing =< 0
    BY <1>11, <1>13, <2>3, <2>6
  <2> QED
    BY <1>14, <2>7 DEF Reaches, to, W
<1>15. CASE ~(to > n)
  <2> DEFINE e == order[to]
             p == Worth(u, e)
             w == Load[e]
  <2>1. to \in 1..n /\ e \in E
    <3>1. to \in 1..n
      BY <1>1, <1>3, <1>15
    <3> QED
      BY <1>1, <3>1
  <2>2. p \in Int /\ p >= 0 /\ w \in Int /\ w > 0
    BY <2>1, PartFacts
  <2>3. \A f \in In : e = f \/ BetterRatio(u, e, f)
    <3> SUFFICES ASSUME NEW f \in In PROVE e = f \/ BetterRatio(u, e, f)
      OBVIOUS
    <3>1. PICK k \in 1..n : k \in to..n /\ order[k] = f
      BY <1>8
    <3>2. to = k \/ to < k
      BY <1>1, <1>3, <3>1
    <3> QED
      BY <1>1, <2>1, <3>1, <3>2
  <2>4. \A f \in Out : BetterRatio(u, f, e)
    <3> SUFFICES ASSUME NEW f \in Out PROVE BetterRatio(u, f, e)
      OBVIOUS
    <3>1. PICK k \in 1..n : k \in from..(to - 1) /\ order[k] = f
      BY <1>8
    <3>2. k < to
      BY <1>1, <1>3, <3>1
    <3> QED
      BY <1>1, <2>1, <3>1, <3>2
  <2> HIDE DEF e
  <2>5. /\ \A f \in In : SumFunctionOnSet(Balance(u, e), f) >= 0
        /\ \A f \in Out : SumFunctionOnSet(Deficit(u, e), f) >= 0
    <3>1. \A f \in In : SumFunctionOnSet(Balance(u, e), f) >= 0
      BY <1>9, <2>1, <2>3, CutToSize
    <3>2. \A f \in Out : SumFunctionOnSet(Deficit(u, e), f) >= 0
      BY <1>9, <2>1, <2>4, CutToSize
    <3> QED
      BY <3>1, <3>2
  <2>6. /\ \A i \in UNION In : Balance(u, e)[i] \in Int
        /\ \A i \in UNION Out : Deficit(u, e)[i] \in Int
    BY <1>7, <1>10, <2>1, BalanceFacts
  <2>7. /\ SumFunctionOnSet(Balance(u, e), UNION In) >= 0
        /\ SumFunctionOnSet(Deficit(u, e), UNION Out) >= 0
    BY <1>9, <2>5, <2>6, SumOfGains
  <2>8. /\ p * Load[R \ W] - w * Worth(u, R \ W) >= 0
        /\ w * Worth(u, W \ R) - p * Load[W \ R] >= 0
    <3>1. \A S \in SUBSET Items :
             /\ SumFunctionOnSet(Balance(u, e), S) = p * Load[S] - w * Worth(u, S)
             /\ SumFunctionOnSet(Deficit(u, e), S) = w * Worth(u, S) - p * Load[S]
      BY <2>1, BalanceFacts
    <3> HIDE DEF p, w
    <3> QED
      BY <1>7, <1>10, <2>7, <3>1
  <2>9. room - Load[W] \in Int /\ Load[R \ W] - Load[W \ R] =< room - Load[W]
    BY <1>12
  <2> HIDE DEF p, w, missing
  <2>10. missing * w =< p * (room - Load[W])
    BY <1>11, <1>12, <1>13, <2>2, <2>8, <2>9, CutsLess
  <2> QED
    BY <1>15, <2>10 DEF Reaches, to, W, p, w, e, missing
<1> QED
  BY <1>14, <1>15
-----------------------------------------------------------------------------
(* A cut has three items, and a dual that is never positive.               *)
CutDual(pi) ==
    /\ pi \in [DOMAIN pi -> Int]
    /\ \A T \in DOMAIN pi : T \in SUBSET Items /\ Cardinality(T) = 3 /\ pi[T] =< 0

(* How often items put to a partial pattern complete a pair of the cut.    *)
Gain(T, S, R) == (Cardinality(T \cap R) + (Cardinality(T \cap S) % 2)) \div 2

Gains(pi, S, R) == [T \in DOMAIN pi |-> pi[T] * Gain(T, S, R)]

LEMMA Halves ==
  ASSUME NEW a \in Nat, NEW c \in Nat, a + c =< 3
  PROVE  /\ (IF a + c >= 2 THEN 1 ELSE 0) =
                (IF a >= 2 THEN 1 ELSE 0) + (c + (a % 2)) \div 2
         /\ (c + (a % 2)) \div 2 \in 0..2
         /\ (a % 2) \in {0, 1}
         /\ (a + c) % 2 = 1 <=> ~(a % 2 = 1 <=> c % 2 = 1)
<1>1. a \in {0, 1, 2, 3} /\ c \in {0, 1, 2, 3}
  OBVIOUS
<1> QED
  BY <1>1

LEMMA SharesAdd ==
  ASSUME NEW T, IsFiniteSet(T), NEW S, NEW R, S \cap R = {}
  PROVE  /\ Cardinality(T \cap S) \in Nat /\ Cardinality(T \cap R) \in Nat
         /\ Cardinality(T \cap (S \cup R)) = Cardinality(T \cap S) + Cardinality(T \cap R)
         /\ Cardinality(T \cap (S \cup R)) =< Cardinality(T)
<1> DEFINE a == Cardinality(T \cap S)
           c == Cardinality(T \cap R)
           all == Cardinality(T \cap (S \cup R))
<1>1. IsFiniteSet(T \cap S) /\ IsFiniteSet(T \cap R) /\ IsFiniteSet(T \cap (S \cup R))
  BY FS_Subset
<1>2. a \in Nat /\ c \in Nat /\ all \in Nat
  BY <1>1, FS_CardinalityType
<1>3. /\ T \cap (S \cup R) = (T \cap S) \cup (T \cap R)
      /\ (T \cap S) \cap (T \cap R) = {}
  OBVIOUS
<1>4. all = a + c - Cardinality((T \cap S) \cap (T \cap R))
  BY <1>1, <1>3, FS_Union
<1>5. all = a + c
  BY <1>2, <1>3, <1>4, FS_EmptySet
<1>6. all =< Cardinality(T)
  BY FS_Subset
<1> QED
  BY <1>2, <1>5, <1>6

LEMMA CoefficientAdds ==
  ASSUME NEW T, IsFiniteSet(T), Cardinality(T) = 3, NEW S, NEW R, S \cap R = {}
  PROVE  /\ Coefficient(T, S \cup R) = Coefficient(T, S) + Gain(T, S, R)
         /\ Coefficient(T, S) \in {0, 1}
         /\ Gain(T, S, R) \in 0..2
<1> DEFINE a == Cardinality(T \cap S)
           c == Cardinality(T \cap R)
           all == Cardinality(T \cap (S \cup R))
<1>1. a \in Nat /\ c \in Nat /\ all = a + c /\ all =< 3
  <2>1. /\ Cardinality(T \cap S) \in Nat /\ Cardinality(T \cap R) \in Nat
        /\ Cardinality(T \cap (S \cup R)) = Cardinality(T \cap S) + Cardinality(T \cap R)
        /\ Cardinality(T \cap (S \cup R)) =< Cardinality(T)
    BY SharesAdd
  <2> QED
    BY <2>1
<1>2. /\ Coefficient(T, S \cup R) = IF all >= 2 THEN 1 ELSE 0
      /\ Coefficient(T, S) = IF a >= 2 THEN 1 ELSE 0
      /\ Gain(T, S, R) = (c + (a % 2)) \div 2
  BY DEF Coefficient, Gain
<1> HIDE DEF a, c, all
<1>3. /\ (IF a + c >= 2 THEN 1 ELSE 0) = (IF a >= 2 THEN 1 ELSE 0) + (c + (a % 2)) \div 2
      /\ (c + (a % 2)) \div 2 \in 0..2
  BY <1>1, Halves
<1> QED
  BY <1>1, <1>2, <1>3

LEMMA GainsFacts ==
  ASSUME NEW pi, CutDual(pi), NEW S \in SUBSET Items, NEW R \in SUBSET Items, S \cap R = {}
  PROVE  /\ IsFiniteSet(DOMAIN pi)
         /\ \A T \in DOMAIN pi : /\ pi[T] \in Int /\ pi[T] =< 0
                                 /\ Gain(T, S, R) \in 0..2
                                 /\ Gains(pi, S, R)[T] = pi[T] * Gain(T, S, R)
                                 /\ Gains(pi, S, R)[T] \in Int /\ Gains(pi, S, R)[T] =< 0
         /\ SumFunctionOnSet(Gains(pi, S, R), DOMAIN pi) \in Int
         /\ SumFunctionOnSet(Gains(pi, S, R), DOMAIN pi) =< 0
<1>1. DOMAIN pi \in SUBSET (SUBSET Items)
  BY DEF CutDual
<1>2. IsFiniteSet(DOMAIN pi)
  BY <1>1, ItemsFacts, FS_SUBSET, FS_Subset
<1>3. ASSUME NEW T \in DOMAIN pi
      PROVE  /\ pi[T] \in Int /\ pi[T] =< 0 /\ Gain(T, S, R) \in 0..2
             /\ pi[T] * Gain(T, S, R) \in Int /\ pi[T] * Gain(T, S, R) =< 0
  <2>1. T \in SUBSET Items /\ Cardinality(T) = 3 /\ pi[T] \in Int /\ pi[T] =< 0
    BY DEF CutDual
  <2>2. Gain(T, S, R) \in {0, 1, 2}
    <3>1. IsFiniteSet(T)
      BY <2>1, ItemsFacts
    <3>2. Gain(T, S, R) \in 0..2
      BY <2>1, <3>1, CoefficientAdds
    <3> QED
      BY <3>2
  <2> QED
    BY <2>1, <2>2
<1> DEFINE gains == Gains(pi, S, R)
           none == [T \in DOMAIN pi |-> 0]
<1>4. \A T \in DOMAIN pi : gains[T] = pi[T] * Gain(T, S, R) /\ none[T] = 0
  BY DEF Gains
<1> HIDE DEF gains, none
<1>5. \A T \in DOMAIN pi : gains[T] \in Int /\ gains[T] =< 0
  BY <1>3, <1>4
<1>6. SumFunctionOnSet(gains, DOMAIN pi) =< SumFunctionOnSet(none, DOMAIN pi)
  BY <1>2, <1>4, <1>5, SumMonotone
<1>7. SumFunctionOnSet(none, DOMAIN pi) = 0 * Cardinality(DOMAIN pi)
  BY <1>2, <1>4, SumConstant
<1>8. SumFunctionOnSet(none, DOMAIN pi) = 0
  BY <1>2, <1>7, FS_CardinalityType
<1>9. SumFunctionOnSet(gains, DOMAIN pi) \in Int
  BY <1>2, <1>5, SumType
<1> QED
  BY <1>2, <1>3, <1>4, <1>5, <1>6, <1>8, <1>9 DEF gains

(* What items put to a partial pattern add to its dual value.              *)
LEMMA DualValueAdds ==
  ASSUME NEW u, \A i \in Items : u[i] \in Int, NEW pi, CutDual(pi),
         NEW S \in SUBSET Items, NEW R \in SUBSET Items, S \cap R = {}
  PROVE  /\ DualValue(u, pi, S) \in Int /\ Worth(u, R) \in Int
         /\ DualValue(u, pi, S \cup R) =
                DualValue(u, pi, S) + Worth(u, R) + SumFunctionOnSet(Gains(pi, S, R), DOMAIN pi)
<1> DEFINE D == DOMAIN pi
           gains == Gains(pi, S, R)
           Terms(X) == [T \in D |-> pi[T] * Coefficient(T, X)]
           before == Terms(S)
           after == Terms(S \cup R)
<1>1. /\ IsFiniteSet(D)
      /\ \A T \in D : /\ pi[T] \in Int /\ Gain(T, S, R) \in Int
                      /\ gains[T] = pi[T] * Gain(T, S, R) /\ gains[T] \in Int
      /\ SumFunctionOnSet(gains, D) \in Int
  BY GainsFacts, SMTT(30)
<1>2. \A T \in D : /\ Coefficient(T, S \cup R) = Coefficient(T, S) + Gain(T, S, R)
                   /\ Coefficient(T, S) \in Int
  <2> SUFFICES ASSUME NEW T \in D
               PROVE  /\ Coefficient(T, S \cup R) = Coefficient(T, S) + Gain(T, S, R)
                      /\ Coefficient(T, S) \in Int
    OBVIOUS
  <2>1. IsFiniteSet(T) /\ Cardinality(T) = 3
    BY ItemsFacts DEF CutDual
  <2>2. /\ Coefficient(T, S \cup R) = Coefficient(T, S) + Gain(T, S, R)
        /\ Coefficient(T, S) \in {0, 1}
    BY <2>1, CoefficientAdds
  <2> QED
    BY <2>2
<1>3. \A T \in D : /\ before[T] \in Int
                   /\ after[T] = before[T] + gains[T]
  <2> SUFFICES ASSUME NEW T \in D
               PROVE  before[T] \in Int /\ after[T] = before[T] + gains[T]
    OBVIOUS
  <2>1. before[T] = pi[T] * Coefficient(T, S) /\ after[T] = pi[T] * Coefficient(T, S \cup R)
    OBVIOUS
  <2>2. pi[T] * (Coefficient(T, S) + Gain(T, S, R)) =
            pi[T] * Coefficient(T, S) + pi[T] * Gain(T, S, R)
    BY <1>1, <1>2
  <2>3. pi[T] * Coefficient(T, S) \in Int
    BY <1>1, <1>2
  <2> QED
    BY <1>1, <1>2, <2>1, <2>2, <2>3
<1>4. /\ CutWorth(pi, S) = SumFunctionOnSet(before, D)
      /\ CutWorth(pi, S \cup R) = SumFunctionOnSet(after, D)
  BY DEF CutWorth
<1> HIDE DEF gains, before, after
<1>5. SumFunctionOnSet(after, D) = SumFunctionOnSet(before, D) + SumFunctionOnSet(gains, D)
  BY <1>1, <1>3, SumPlus
<1>6. SumFunctionOnSet(before, D) \in Int
  BY <1>1, <1>3, SumType
<1>7. /\ IsFiniteSet(S) /\ IsFiniteSet(R)
      /\ \A i \in S \cup R : u[i] \in Int
  BY ItemsFacts
<1>8. /\ Worth(u, S \cup R) = Worth(u, S) + Worth(u, R)
      /\ Worth(u, S) \in Int /\ Worth(u, R) \in Int
  BY <1>7, SumDisjoint, SumType DEF Worth
<1> DEFINE cs == CutWorth(pi, S)
           ca == CutWorth(pi, S \cup R)
           g == SumFunctionOnSet(gains, D)
           ws == Worth(u, S)
           wr == Worth(u, R)
           wa == Worth(u, S \cup R)
<1>9. /\ cs \in Int /\ g \in Int /\ ws \in Int /\ wr \in Int
      /\ ca = cs + g /\ wa = ws + wr
  BY <1>1, <1>4, <1>5, <1>6, <1>8
<1>10. DualValue(u, pi, S) = ws + cs /\ DualValue(u, pi, S \cup R) = wa + ca
  BY DEF DualValue
<1> HIDE DEF cs, ca, g, ws, wr, wa
<1>11. /\ DualValue(u, pi, S) \in Int /\ wr \in Int
       /\ DualValue(u, pi, S \cup R) = DualValue(u, pi, S) + wr + g
  BY <1>9, <1>10
<1> QED
  BY <1>11 DEF wr, g, gains

(* Cuts only take away.                                                    *)
LEMMA CutsOnlyCost ==
  ASSUME NEW u, \A i \in Items : u[i] \in Int, NEW pi, CutDual(pi),
         NEW S \in SUBSET Items, NEW R \in SUBSET Items, S \cap R = {}
  PROVE  DualValue(u, pi, S \cup R) =< DualValue(u, pi, S) + Worth(u, R)
<1>1. /\ DualValue(u, pi, S) \in Int /\ Worth(u, R) \in Int
      /\ DualValue(u, pi, S \cup R) =
             DualValue(u, pi, S) + Worth(u, R) + SumFunctionOnSet(Gains(pi, S, R), DOMAIN pi)
  BY DualValueAdds, ZenonT(40)
<1>2. /\ SumFunctionOnSet(Gains(pi, S, R), DOMAIN pi) \in Int
      /\ SumFunctionOnSet(Gains(pi, S, R), DOMAIN pi) =< 0
  BY GainsFacts
<1> QED
  BY <1>1, <1>2

(* S may take the place of M before the items of R: it is worth as much,   *)
(* even when it has to pay for the cuts of which only S holds an odd number*)
(* of items.                                                               *)
PaysFor(margin, pi, S, M) ==
    \A T \in DOMAIN pi :
        /\ margin[T] \in Int /\ margin[T] >= 0
        /\ (Cardinality(T \cap S) % 2 = 1 /\ ~(Cardinality(T \cap M) % 2 = 1)) =>
               margin[T] >= -pi[T]

LEMMA TakesThePlace ==
  ASSUME NEW u, \A i \in Items : u[i] \in Int, NEW pi, CutDual(pi),
         NEW S \in SUBSET Items, NEW M \in SUBSET Items, NEW R \in SUBSET Items,
         S \cap R = {}, M \cap R = {},
         NEW margin, PaysFor(margin, pi, S, M),
         DualValue(u, pi, S) >= DualValue(u, pi, M) + SumFunctionOnSet(margin, DOMAIN pi)
  PROVE  DualValue(u, pi, S \cup R) >= DualValue(u, pi, M \cup R)
<1> DEFINE D == DOMAIN pi
           ours == Gains(pi, S, R)
           theirs == Gains(pi, M, R)
           least == [T \in D |-> ours[T] + margin[T]]
<1>1. /\ IsFiniteSet(D)
      /\ \A T \in D : /\ pi[T] \in Int /\ pi[T] =< 0
                      /\ ours[T] = pi[T] * Gain(T, S, R) /\ ours[T] \in Int
                      /\ Gain(T, S, R) \in 0..2
      /\ SumFunctionOnSet(ours, D) \in Int
  <2>1. /\ IsFiniteSet(DOMAIN pi)
        /\ \A T \in DOMAIN pi : /\ pi[T] \in Int /\ pi[T] =< 0
                                /\ Gain(T, S, R) \in 0..2
                                /\ Gains(pi, S, R)[T] = pi[T] * Gain(T, S, R)
                                /\ Gains(pi, S, R)[T] \in Int /\ Gains(pi, S, R)[T] =< 0
        /\ SumFunctionOnSet(Gains(pi, S, R), DOMAIN pi) \in Int
    BY GainsFacts
  <2> QED
    BY <2>1
<1>2. /\ \A T \in D : /\ theirs[T] = pi[T] * Gain(T, M, R) /\ theirs[T] \in Int
                      /\ Gain(T, M, R) \in 0..2
      /\ SumFunctionOnSet(theirs, D) \in Int
  <2>1. /\ IsFiniteSet(DOMAIN pi)
        /\ \A T \in DOMAIN pi : /\ pi[T] \in Int /\ pi[T] =< 0
                                /\ Gain(T, M, R) \in 0..2
                                /\ Gains(pi, M, R)[T] = pi[T] * Gain(T, M, R)
                                /\ Gains(pi, M, R)[T] \in Int /\ Gains(pi, M, R)[T] =< 0
        /\ SumFunctionOnSet(Gains(pi, M, R), DOMAIN pi) \in Int
    BY GainsFacts
  <2> QED
    BY <2>1
<1> HIDE DEF ours, theirs
<1>3. ASSUME NEW T \in D PROVE theirs[T] =< ours[T] + margin[T]
  <2> DEFINE a == Cardinality(T \cap S)
             b == Cardinality(T \cap M)
             c == Cardinality(T \cap R)
             x == Gain(T, S, R)
             y == Gain(T, M, R)
  <2>1. a \in Nat /\ b \in Nat /\ c \in Nat
    <3>1. IsFiniteSet(T)
      BY ItemsFacts DEF CutDual
    <3> QED
      BY <3>1, FS_Subset, FS_CardinalityType
  <2>2. x = (c + (a % 2)) \div 2 /\ y = (c + (b % 2)) \div 2
    BY DEF Gain
  <2>3. /\ margin[T] \in Int /\ margin[T] >= 0
        /\ (a % 2 = 1 /\ ~(b % 2 = 1)) => margin[T] >= -pi[T]
    BY DEF PaysFor
  <2>4. /\ pi[T] \in Int /\ pi[T] =< 0 /\ margin[T] \in Int /\ margin[T] >= 0
        /\ ours[T] = pi[T] * x /\ theirs[T] = pi[T] * y /\ x \in 0..2 /\ y \in 0..2
    BY <1>1, <1>2, <2>3
  <2> HIDE DEF a, b, c, x, y
  <2>5. (a % 2) \in {0, 1} /\ (b % 2) \in {0, 1}
    BY <2>1
  <2>6. x =< y + 1 /\ (x = y + 1 => a % 2 = 1 /\ ~(b % 2 = 1))
    BY <2>1, <2>2, <2>5
  <2>7. x \in {0, 1, 2} /\ y \in {0, 1, 2}
    BY <2>4
  <2>8. CASE x =< y
    <3>1. theirs[T] =< ours[T] /\ ours[T] \in Int /\ theirs[T] \in Int
      BY <2>4, <2>7, <2>8
    <3> QED
      BY <2>3, <3>1
  <2>9. CASE x = y + 1
    <3>1. margin[T] >= -pi[T]
      BY <2>3, <2>6, <2>9
    <3>2. ours[T] = theirs[T] + pi[T] /\ theirs[T] \in Int
      BY <2>4, <2>7, <2>9
    <3>3. pi[T] \in Int /\ margin[T] \in Int
      BY <2>4
    <3> QED
      BY <3>1, <3>2, <3>3
  <2>10. x =< y \/ x = y + 1
    BY <2>6, <2>7
  <2> QED
    BY <2>8, <2>9, <2>10
<1>4. \A T \in D : margin[T] \in Int
  BY DEF PaysFor
<1>5. \A T \in D : /\ least[T] = ours[T] + margin[T] /\ least[T] \in Int
                   /\ theirs[T] =< least[T]
  BY <1>1, <1>3, <1>4
<1>6. \A T \in D : ours[T] \in Int /\ margin[T] \in Int /\ theirs[T] \in Int
  BY <1>1, <1>2, <1>4
<1> HIDE DEF least
<1>7. SumFunctionOnSet(theirs, D) =< SumFunctionOnSet(least, D)
  BY <1>1, <1>5, <1>6, SumMonotone
<1>8. SumFunctionOnSet(least, D) = SumFunctionOnSet(ours, D) + SumFunctionOnSet(margin, D)
  BY <1>1, <1>5, <1>6, SumPlus
<1>9. SumFunctionOnSet(margin, D) \in Int
  BY <1>1, <1>6, SumType
<1>10. /\ DualValue(u, pi, S) \in Int /\ DualValue(u, pi, M) \in Int /\ Worth(u, R) \in Int
      /\ DualValue(u, pi, S \cup R) =
             DualValue(u, pi, S) + Worth(u, R) + SumFunctionOnSet(ours, D)
      /\ DualValue(u, pi, M \cup R) =
             DualValue(u, pi, M) + Worth(u, R) + SumFunctionOnSet(theirs, D)
  <2>1. /\ DualValue(u, pi, S) \in Int /\ Worth(u, R) \in Int
        /\ DualValue(u, pi, S \cup R) =
               DualValue(u, pi, S) + Worth(u, R) + SumFunctionOnSet(Gains(pi, S, R), D)
    BY DualValueAdds, ZenonT(40)
  <2>2. /\ DualValue(u, pi, M) \in Int
        /\ DualValue(u, pi, M \cup R) =
               DualValue(u, pi, M) + Worth(u, R) + SumFunctionOnSet(Gains(pi, M, R), D)
    BY DualValueAdds, ZenonT(40)
  <2> QED
    BY <2>1, <2>2 DEF ours, theirs
<1> DEFINE so == SumFunctionOnSet(ours, D)
           st == SumFunctionOnSet(theirs, D)
           sm == SumFunctionOnSet(margin, D)
<1>11. so \in Int /\ st \in Int /\ sm \in Int /\ st =< so + sm
  BY <1>1, <1>2, <1>7, <1>8, <1>9
<1>12. /\ DualValue(u, pi, S \cup R) = DualValue(u, pi, S) + Worth(u, R) + so
       /\ DualValue(u, pi, M \cup R) = DualValue(u, pi, M) + Worth(u, R) + st
       /\ DualValue(u, pi, S) >= DualValue(u, pi, M) + sm
  BY <1>10
<1> HIDE DEF so, st, sm
<1> QED
  BY <1>10, <1>11, <1>12
-----------------------------------------------------------------------------
LEMMA DualValueType ==
  ASSUME NEW u, \A i \in Items : u[i] \in Int, NEW pi, CutDual(pi), NEW S \in SUBSET Items
  PROVE  DualValue(u, pi, S) \in Int
<1>1. {} \in SUBSET Items /\ S \cap {} = {}
  OBVIOUS
<1> QED
  BY <1>1, DualValueAdds

(* An empty pattern is worth nothing.                                      *)
LEMMA DualValueOfNone ==
  ASSUME NEW u, NEW pi, CutDual(pi)
  PROVE  DualValue(u, pi, {}) = 0
<1> DEFINE D == DOMAIN pi
           terms == [T \in D |-> pi[T] * Coefficient(T, {})]
<1>1. D \in SUBSET (SUBSET Items) /\ \A T \in D : pi[T] \in Int
  BY DEF CutDual
<1>2. IsFiniteSet(D)
  BY <1>1, ItemsFacts, FS_SUBSET, FS_Subset
<1>3. \A T \in D : terms[T] = 0
  <2> SUFFICES ASSUME NEW T \in D PROVE terms[T] = 0
    OBVIOUS
  <2>1. T \cap {} = {} /\ Cardinality({}) = 0
    BY FS_EmptySet
  <2>2. Coefficient(T, {}) = 0
    BY <2>1 DEF Coefficient
  <2>3. pi[T] * Coefficient(T, {}) = 0
    BY <1>1, <2>2
  <2> QED
    BY <2>3
<1>4. CutWorth(pi, {}) = SumFunctionOnSet(terms, D)
  BY DEF CutWorth
<1> HIDE DEF terms
<1>5. SumFunctionOnSet(terms, D) = 0 * Cardinality(D)
  BY <1>2, <1>3, SumConstant
<1>6. CutWorth(pi, {}) = 0
  BY <1>2, <1>4, <1>5, FS_CardinalityType
<1>7. Worth(u, {}) = 0
  BY SumEmpty DEF Worth
<1> QED
  BY <1>6, <1>7 DEF DualValue

(* The best value pricing can find: some pattern of the node has it, and   *)
(* none is worth more.                                                     *)
LEMMA BestValueFacts ==
  ASSUME NEW u, \A i \in Items : u[i] \in Int, NEW pi, CutDual(pi), NEW b
  PROVE  /\ BestValue(u, pi, b) \in Nat
         /\ \A S \in AcceptedPatterns(b) : DualValue(u, pi, S) =< BestValue(u, pi, b)
         /\ BestValue(u, pi, b) > 0 =>
                \E S \in AcceptedPatterns(b) : DualValue(u, pi, S) = BestValue(u, pi, b)
<1> DEFINE A == AcceptedPatterns(b)
           value == [S \in A |-> DualValue(u, pi, S)]
           priced == {DualValue(u, pi, S) : S \in A}
           values == {0} \cup priced
<1>1. A \in SUBSET (SUBSET Items)
  BY DEF AcceptedPatterns, Patterns
<1>2. IsFiniteSet(A)
  BY <1>1, ItemsFacts, FS_SUBSET, FS_Subset
<1>3. \A S \in A : DualValue(u, pi, S) \in Int
  BY <1>1, DualValueType
<1>4. value \in Surjection(A, priced)
  BY DEF Surjection
<1>5. IsFiniteSet(priced)
  <2> HIDE DEF value, priced, A
  <2> QED
    BY <1>2, <1>4, FS_Surjection
<1>6. IsFiniteSet(values) /\ values \in SUBSET Int /\ values # {}
  <2>1. priced \in SUBSET Int
    BY <1>3
  <2> HIDE DEF priced
  <2>2. IsFiniteSet({0} \cup priced)
    BY <1>5, FS_Singleton, FS_Union
  <2>3. {0} \cup priced \in SUBSET Int /\ {0} \cup priced # {}
    BY <2>1
  <2> QED
    BY <2>2, <2>3
<1>7. Max(values) \in values /\ \A v \in values : v =< Max(values)
  <2> HIDE DEF values
  <2> QED
    BY <1>6, MaxExists
<1>8. BestValue(u, pi, b) = Max(values)
  BY DEF BestValue
<1>9. /\ 0 \in values /\ \A S \in A : DualValue(u, pi, S) \in values
      /\ \A v \in values : v = 0 \/ \E S \in A : DualValue(u, pi, S) = v
  OBVIOUS
<1> HIDE DEF values
<1>10. Max(values) \in Int /\ Max(values) >= 0
  BY <1>6, <1>7, <1>9
<1>11. /\ \A S \in A : DualValue(u, pi, S) =< Max(values)
       /\ Max(values) > 0 => \E S \in A : DualValue(u, pi, S) = Max(values)
  BY <1>7, <1>9
<1> HIDE DEF A
<1> QED
  BY <1>8, <1>10, <1>11 DEF A

LEMMA PartAccepted ==
  ASSUME NEW b \in BranchingStates, NEW S \in AcceptedPatterns(b),
         NEW R, R \subseteq S, R # {}, Tied(b, R)
  PROVE  R \in AcceptedPatterns(b)
<1>1. S \in SUBSET Items /\ Load[S] =< Capacity /\ Accepts(b, S)
  BY DEF AcceptedPatterns, Patterns
<1>2. ~Separated(b, R)
  BY <1>1, AcceptsFacts, SeparatedGrows
<1>3. R \in SUBSET Items /\ R \in SUBSET S
  BY <1>1
<1>4. Load[R] =< Load[S] /\ Load[R] \in Int /\ Load[S] \in Int
  BY <1>1, <1>3, LoadGrows, LoadFacts
<1>5. Load[R] =< Capacity
  BY <1>1, <1>4, InstanceAssumption
<1>6. Accepts(b, R)
  BY <1>2, AcceptsFacts
<1> QED
  BY <1>3, <1>5, <1>6 DEF AcceptedPatterns, Patterns

(* Of the best patterns one is made of elements that are worth something:  *)
(* what is left when the others are taken out is worth no less, because    *)
(* cuts only cost.  So they can be left out before the search.             *)
LEMMA BestIsWorthwhile ==
  ASSUME NEW u, \A i \in Items : u[i] \in Int, NEW pi, CutDual(pi),
         NEW b \in BranchingStates, BestValue(u, pi, b) > 0
  PROVE  \E S \in AcceptedPatterns(b) :
             /\ DualValue(u, pi, S) = BestValue(u, pi, b)
             /\ Tied(b, S)
             /\ \A i \in S : \E e \in Worthwhile(u, b) : i \in e /\ e \subseteq S
<1> DEFINE best == BestValue(u, pi, b)
           F == {S \in AcceptedPatterns(b) : DualValue(u, pi, S) = best}
<1>1. /\ best \in Int /\ best > 0
      /\ \A S \in AcceptedPatterns(b) : DualValue(u, pi, S) =< best
      /\ F # {}
  BY BestValueFacts
<1>2. /\ F \in SUBSET (SUBSET Items)
      /\ \A S \in AcceptedPatterns(b) : S \in SUBSET Items /\ S # {}
  BY DEF AcceptedPatterns, Patterns
<1>3. PICK S \in F : \A R \in F : R \subseteq S => R = S
  <2> HIDE DEF F
  <2> QED
    BY <1>1, <1>2, ItemsFacts, SmallestSubset
<1>4. S \in SUBSET Items /\ S \in AcceptedPatterns(b) /\ DualValue(u, pi, S) = best
  BY <1>2, <1>3
<1>5. Tied(b, S) /\ ~Separated(b, S) /\ Load[S] =< Capacity
  BY <1>4, AcceptsFacts DEF AcceptedPatterns, Patterns
<1>6. ASSUME NEW e \in Elements(b), e \subseteq S PROVE Worth(u, e) > 0
  <2> SUFFICES ASSUME ~(Worth(u, e) > 0) PROVE FALSE
    OBVIOUS
  <2> DEFINE R == S \ e
  <2>1. e # {} /\ Tied(b, e)
    BY DEF Elements
  <2>2. R \in SUBSET Items /\ e \in SUBSET Items /\ R \cap e = {} /\ R \cup e = S
    BY <1>4, <1>6
  <2>3. Tied(b, R)
    BY <1>5, <2>1, TiedFacts
  <2>4. R \subseteq S /\ R # S
    BY <1>6, <2>1
  <2> HIDE DEF R
  <2>5. DualValue(u, pi, R \cup e) =< DualValue(u, pi, R) + Worth(u, e)
    BY <2>2, CutsOnlyCost
  <2>6. /\ DualValue(u, pi, R) \in Int /\ Worth(u, e) \in Int
        /\ DualValue(u, pi, R \cup e) = best
    BY <1>4, <2>2, DualValueAdds
  <2>7. DualValue(u, pi, R) >= best
    BY <1>1, <2>5, <2>6
  <2>8. CASE R = {}
    <3>1. DualValue(u, pi, R) = 0
      BY <2>8, DualValueOfNone
    <3> QED
      BY <1>1, <2>7, <3>1
  <2>9. CASE R # {}
    <3>1. R \in AcceptedPatterns(b)
      BY <1>4, <2>3, <2>4, <2>9, PartAccepted
    <3>2. DualValue(u, pi, R) = best
      BY <1>1, <2>6, <2>7, <3>1
    <3>3. R \in F
      BY <3>1, <3>2
    <3> QED
      BY <1>3, <2>4, <3>3
  <2> QED
    BY <2>8, <2>9
<1>7. ASSUME NEW i \in S PROVE \E e \in Worthwhile(u, b) : i \in e /\ e \subseteq S
  <2>1. PICK e \in Elements(b) : i \in e /\ e \subseteq S
    BY <1>4, <1>5, ElementOf
  <2>2. ~Separated(b, e)
    BY <1>5, <2>1, SeparatedGrows
  <2>3. Load[e] =< Load[S] /\ Load[e] \in Int /\ Load[S] \in Int
    BY <1>4, <2>1, LoadGrows, LoadFacts
  <2>4. Load[e] =< Capacity
    BY <1>5, <2>3, InstanceAssumption
  <2>5. e \in Worthwhile(u, b)
    BY <1>6, <2>1, <2>2, <2>4 DEF Worthwhile, Usable
  <2> QED
    BY <2>1, <2>5
<1> QED
  BY <1>4, <1>5, <1>7
=============================================================================

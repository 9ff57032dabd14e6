-------------------------- MODULE BranchingProofs --------------------------
(***************************************************************************)
(* What the proofs of the other modules share.  First induction over sets  *)
(* and numbers, in a form the provers can use, where the property proved   *)
(* is the set of the things that have it, and what it shows of sums and    *)
(* maxima.  Then, for every instance, loads and packings                   *)
(* (src/core/pattern.cpp, src/core/solution.cpp), Ryan-Foster branching    *)
(* (src/search/branching.cpp) and what a driver sees of a node (module     *)
(* NodeRelaxation).                                                        *)
(***************************************************************************)
EXTENDS NodeRelaxation, FiniteSetsExt, FiniteSetTheorems, TLAPS

(* A set of numbers that holds 0 and the successor of each of its members. *)
LEMMA NumberInduction ==
  ASSUME NEW N \in SUBSET Nat, 0 \in N, \A n \in N : n + 1 \in N
  PROVE  N = Nat
<1> SUFFICES ASSUME Nat \ N # {} PROVE FALSE
  OBVIOUS
<1>1. PICK n \in Nat \ N : \A m \in Nat \ N : ~(<<m, n>> \in OpToRel(<, Nat))
  <2>1. Nat \ N \subseteq Nat
    OBVIOUS
  <2> QED
    BY <2>1, NatLessThanWellFounded, WFMin
<1>2. n # 0 /\ n - 1 \in Nat
  OBVIOUS
<1>3. <<n - 1, n>> \in OpToRel(<, Nat)
  BY <1>2 DEF OpToRel
<1>4. n - 1 \in N
  BY <1>1, <1>2, <1>3
<1>5. (n - 1) + 1 \in N
  BY <1>4
<1> QED
  BY <1>2, <1>5

(* Of the subsets of a finite set that have a property, one is smallest.   *)
LEMMA SmallestSubset ==
  ASSUME NEW S, IsFiniteSet(S), NEW F \in SUBSET (SUBSET S), F # {}
  PROVE  \E T \in F : \A R \in F : R \subseteq T => R = T
<1>1. IsWellFoundedOn(StrictSubsetOrdering(S), SUBSET S)
  BY FS_StrictSubsetOrderingWellFounded, FS_FiniteSubsetsOfFinite
<1>2. PICK T \in F : \A R \in F : ~(<<R, T>> \in StrictSubsetOrdering(S))
  BY <1>1, WFMin
<1>3. \A R \in F : R \subseteq T => R = T
  BY <1>2 DEF StrictSubsetOrdering
<1> QED
  BY <1>3

(* A property of the empty set that adding an element preserves.           *)
LEMMA SubsetInduction ==
  ASSUME NEW S, IsFiniteSet(S), NEW F \in SUBSET (SUBSET S), {} \in F,
         \A T \in F : \A x \in S \ T : T \cup {x} \in F
  PROVE  F = SUBSET S
<1> DEFINE G == (SUBSET S) \ F
<1> SUFFICES ASSUME G # {} PROVE FALSE
  OBVIOUS
<1>1. PICK T \in G : \A R \in G : R \subseteq T => R = T
  <2>1. G \in SUBSET (SUBSET S)
    OBVIOUS
  <2> HIDE DEF G
  <2> QED
    BY <2>1, SmallestSubset
<1>2. PICK x \in T : TRUE
  BY <1>1
<1>3. T \ {x} \in F
  BY <1>1, <1>2
<1>4. (T \ {x}) \cup {x} \in F
  BY <1>1, <1>2, <1>3
<1>5. (T \ {x}) \cup {x} = T
  BY <1>2
<1> QED
  BY <1>1, <1>4, <1>5
-----------------------------------------------------------------------------
(* The functions the sums of the community modules unfold to.              *)
Chosen(s) == CHOOSE x \in s : TRUE

Rest(s) == s \ {Chosen(s)}

Summation(f, S, g) ==
    g = [s \in SUBSET S |-> IF s = {} THEN 0 ELSE f[Chosen(s)] + g[Rest(s)]]

LEMMA SumUnfolds ==
  ASSUME NEW f, NEW S
  PROVE  SumFunctionOnSet(f, S) = (CHOOSE g : Summation(f, S, g))[S]
  BY DEF SumFunctionOnSet, FoldFunctionOnSet, MapThenFoldSet, Summation, Chosen, Rest

LEMMA ChosenFacts ==
  ASSUME NEW s, s # {}, IsFiniteSet(s)
  PROVE  /\ Chosen(s) \in s
         /\ Rest(s) \subseteq s /\ Rest(s) # s
         /\ IsFiniteSet(Rest(s))
         /\ Cardinality(Rest(s)) = Cardinality(s) - 1
<1>1. Chosen(s) \in s
  BY DEF Chosen
<1>2. /\ IsFiniteSet(Rest(s))
      /\ Cardinality(Rest(s)) = Cardinality(s) - 1
  BY <1>1, FS_RemoveElement DEF Rest
<1> QED
  BY <1>1, <1>2 DEF Rest

(* The recursive definition of a sum defines a function, and its values    *)
(* are integers: by induction on the size of the sets it is defined on.    *)
LEMMA SummationExists ==
  ASSUME NEW S, IsFiniteSet(S), NEW f, \A x \in S : f[x] \in Int
  PROVE  \E g \in [SUBSET S -> Int] : Summation(f, S, g)
<1> DEFINE Small(n) == {s \in SUBSET S : Cardinality(s) =< n}
           Value(s, g) == IF s = {} THEN 0 ELSE f[Chosen(s)] + g[Rest(s)]
           Sums(n, g) == g \in [Small(n) -> Int] /\ \A s \in Small(n) : g[s] = Value(s, g)
           N == {n \in Nat : \E g : Sums(n, g)}
<1>1. \A s \in SUBSET S : IsFiniteSet(s) /\ Cardinality(s) \in Nat
  BY FS_Subset, FS_CardinalityType
<1>2. \A s \in SUBSET S : s # {} => /\ Chosen(s) \in S
                                    /\ Rest(s) \in SUBSET S
                                    /\ Cardinality(Rest(s)) = Cardinality(s) - 1
  BY <1>1, ChosenFacts
<1>3. 0 \in N
  <2>1. \A s \in Small(0) : s = {}
    BY <1>1, FS_EmptySet
  <2>2. Sums(0, [s \in Small(0) |-> 0])
    BY <2>1
  <2> QED
    BY <2>2
<1>4. ASSUME NEW n \in N PROVE n + 1 \in N
  <2>1. PICK g : Sums(n, g)
    BY <1>4
  <2> DEFINE h == [s \in Small(n + 1) |-> Value(s, g)]
  <2>2. \A s \in Small(n + 1) : s # {} => Rest(s) \in Small(n)
    BY <1>1, <1>2
  <2>3. \A s \in Small(n + 1) : Value(s, g) \in Int
    <3> SUFFICES ASSUME NEW s \in Small(n + 1), s # {} PROVE Value(s, g) \in Int
      OBVIOUS
    <3>1. f[Chosen(s)] \in Int /\ g[Rest(s)] \in Int
      BY <1>2, <2>1, <2>2
    <3> QED
      BY <3>1
  <2>4. \A s \in Small(n) : s \in Small(n + 1) /\ h[s] = g[s]
    BY <1>1, <2>1
  <2>5. \A s \in Small(n + 1) : h[s] = Value(s, h)
    BY <2>2, <2>4
  <2>6. h \in [Small(n + 1) -> Int]
    BY <2>3
  <2>7. Sums(n + 1, h)
    BY <2>5, <2>6
  <2> HIDE DEF Sums, h
  <2> QED
    BY <2>7
<1>5. N = Nat
  <2> HIDE DEF N
  <2>1. N \in SUBSET Nat
    BY DEF N
  <2> QED
    BY <1>3, <1>4, <2>1, NumberInduction
<1>6. PICK g : Sums(Cardinality(S), g)
  BY <1>1, <1>5
<1>7. Small(Cardinality(S)) = SUBSET S
  BY FS_Subset
<1>8. Summation(f, S, g)
  BY <1>6, <1>7 DEF Summation
<1> QED
  BY <1>6, <1>7, <1>8

(* Two sums of one function agree where both are defined.                  *)
LEMMA SummationAgrees ==
  ASSUME NEW S, IsFiniteSet(S), NEW T \in SUBSET S, NEW f, NEW g, NEW h,
         Summation(f, S, g), Summation(f, T, h)
  PROVE  \A s \in SUBSET T : g[s] = h[s]
<1> DEFINE Differ == {s \in SUBSET T : g[s] # h[s]}
<1> SUFFICES ASSUME Differ # {} PROVE FALSE
  OBVIOUS
<1>1. IsFiniteSet(T) /\ Differ \in SUBSET (SUBSET T)
  BY FS_Subset
<1>2. PICK s \in Differ : \A r \in Differ : r \subseteq s => r = s
  <2> HIDE DEF Differ
  <2> QED
    BY <1>1, SmallestSubset
<1>3. IsFiniteSet(s) /\ s \in SUBSET S
  BY <1>1, FS_Subset
<1>4. s # {}
  BY <1>3 DEF Summation
<1>5. /\ g[s] = f[Chosen(s)] + g[Rest(s)]
      /\ h[s] = f[Chosen(s)] + h[Rest(s)]
  BY <1>3, <1>4 DEF Summation
<1>6. Rest(s) \in SUBSET T /\ Rest(s) \notin Differ
  BY <1>2, <1>3, <1>4, ChosenFacts
<1> QED
  BY <1>5, <1>6

LEMMA SumIsSummation ==
  ASSUME NEW S, IsFiniteSet(S), NEW T \in SUBSET S, NEW f, \A x \in S : f[x] \in Int,
         NEW g, Summation(f, S, g)
  PROVE  SumFunctionOnSet(f, T) = g[T]
<1>1. IsFiniteSet(T)
  BY FS_Subset
<1>2. PICK h : Summation(f, T, h)
  BY <1>1, SummationExists
<1>3. Summation(f, T, CHOOSE k : Summation(f, T, k))
  BY <1>2
<1>4. g[T] = (CHOOSE k : Summation(f, T, k))[T]
  BY <1>3, SummationAgrees
<1> QED
  BY <1>4, SumUnfolds

LEMMA SumOfChosen ==
  ASSUME NEW S, IsFiniteSet(S), NEW f, \A x \in S : f[x] \in Int
  PROVE  /\ SumFunctionOnSet(f, S) \in Int
         /\ S = {} => SumFunctionOnSet(f, S) = 0
         /\ S # {} => SumFunctionOnSet(f, S) = f[Chosen(S)] + SumFunctionOnSet(f, Rest(S))
<1>1. PICK g \in [SUBSET S -> Int] : Summation(f, S, g)
  BY SummationExists
<1>2. SumFunctionOnSet(f, S) = g[S]
  BY <1>1, SumIsSummation
<1>3. S # {} => Rest(S) \in SUBSET S /\ SumFunctionOnSet(f, Rest(S)) = g[Rest(S)]
  BY <1>1, ChosenFacts, SumIsSummation
<1> QED
  BY <1>1, <1>2, <1>3 DEF Summation

(* A sum may be taken in any order: whichever element comes first.         *)
LEMMA SumSplits ==
  ASSUME NEW S, IsFiniteSet(S), NEW f, \A x \in S : f[x] \in Int, NEW x \in S
  PROVE  SumFunctionOnSet(f, S) = f[x] + SumFunctionOnSet(f, S \ {x})
<1> DEFINE Sum(s) == SumFunctionOnSet(f, s)
           Wrong == {s \in SUBSET S : \E y \in s : Sum(s) # f[y] + Sum(s \ {y})}
<1> SUFFICES ASSUME Wrong # {} PROVE FALSE
  OBVIOUS
<1>1. PICK s \in Wrong : \A r \in Wrong : r \subseteq s => r = s
  <2>1. Wrong \in SUBSET (SUBSET S)
    OBVIOUS
  <2> HIDE DEF Wrong
  <2> QED
    BY <2>1, SmallestSubset
<1>2. PICK y \in s : Sum(s) # f[y] + Sum(s \ {y})
  BY <1>1
<1> DEFINE c == Chosen(s)
<1>3. IsFiniteSet(s) /\ s # {} /\ s \in SUBSET S
  BY <1>1, <1>2, FS_Subset
<1>4. c \in s /\ Rest(s) = s \ {c}
  BY <1>3, ChosenFacts DEF Rest
<1>5. \A r \in SUBSET S : Sum(r) \in Int
  BY FS_Subset, SumOfChosen
<1>6. Sum(s) = f[c] + Sum(s \ {c})
  BY <1>3, <1>4, SumOfChosen
<1>7. c # y
  BY <1>2, <1>6
<1>8. ASSUME NEW r \in SUBSET s, r # s, NEW z \in r
      PROVE  Sum(r) = f[z] + Sum(r \ {z})
  <2>1. r \in SUBSET S /\ r \notin Wrong
    BY <1>1, <1>3, <1>8
  <2> QED
    BY <2>1
<1> DEFINE rest == s \ {c, y}
<1>9. Sum(s \ {c}) = f[y] + Sum(rest)
  <2>1. (s \ {c}) \ {y} = rest
    OBVIOUS
  <2> QED
    BY <1>2, <1>4, <1>7, <1>8, <2>1
<1>10. Sum(s \ {y}) = f[c] + Sum(rest)
  <2>1. (s \ {y}) \ {c} = rest
    OBVIOUS
  <2> QED
    BY <1>2, <1>4, <1>7, <1>8, <2>1
<1>11. f[c] \in Int /\ f[y] \in Int /\ Sum(rest) \in Int
  BY <1>3, <1>4, <1>5
<1> HIDE DEF c, Sum, rest, Wrong
<1> QED
  BY <1>2, <1>6, <1>9, <1>10, <1>11
-----------------------------------------------------------------------------
(* What the proofs of the other modules need to know of sums.              *)
LEMMA SumType ==
  ASSUME NEW S, IsFiniteSet(S), NEW f, \A x \in S : f[x] \in Int
  PROVE  SumFunctionOnSet(f, S) \in Int
  BY SumOfChosen

LEMMA SumEmpty ==
  ASSUME NEW f
  PROVE  SumFunctionOnSet(f, {}) = 0
  BY FS_EmptySet, SumOfChosen

LEMMA SumAdds ==
  ASSUME NEW S, IsFiniteSet(S), NEW x, x \notin S, NEW f, \A y \in S \cup {x} : f[y] \in Int
  PROVE  SumFunctionOnSet(f, S \cup {x}) = f[x] + SumFunctionOnSet(f, S)
<1>1. IsFiniteSet(S \cup {x})
  BY FS_AddElement
<1>2. (S \cup {x}) \ {x} = S
  OBVIOUS
<1> QED
  BY <1>1, <1>2, SumSplits

(* Only the values on the set count.                                       *)
LEMMA SumAgrees ==
  ASSUME NEW S, IsFiniteSet(S), NEW f, NEW g,
         \A x \in S : f[x] \in Int /\ f[x] = g[x]
  PROVE  SumFunctionOnSet(f, S) = SumFunctionOnSet(g, S)
<1> DEFINE Equal == {T \in SUBSET S : SumFunctionOnSet(f, T) = SumFunctionOnSet(g, T)}
<1>1. {} \in Equal
  BY SumEmpty
<1>2. ASSUME NEW T \in Equal, NEW x \in S \ T
      PROVE  T \cup {x} \in Equal
  <2>1. IsFiniteSet(T)
    BY FS_Subset
  <2>2. \A y \in T \cup {x} : f[y] \in Int /\ g[y] \in Int
    OBVIOUS
  <2>3. /\ SumFunctionOnSet(f, T \cup {x}) = f[x] + SumFunctionOnSet(f, T)
        /\ SumFunctionOnSet(g, T \cup {x}) = g[x] + SumFunctionOnSet(g, T)
    BY <2>1, <2>2, SumAdds
  <2> QED
    BY <2>3
<1>3. Equal = SUBSET S
  <2> HIDE DEF Equal
  <2>1. Equal \in SUBSET (SUBSET S)
    BY DEF Equal
  <2> QED
    BY <1>1, <1>2, <2>1, SubsetInduction
<1> QED
  BY <1>3

(* Sums are ordered as their terms are.                                    *)
LEMMA SumMonotone ==
  ASSUME NEW S, IsFiniteSet(S), NEW f, NEW g,
         \A x \in S : f[x] \in Int /\ g[x] \in Int /\ f[x] =< g[x]
  PROVE  SumFunctionOnSet(f, S) =< SumFunctionOnSet(g, S)
<1> DEFINE Below == {T \in SUBSET S : SumFunctionOnSet(f, T) =< SumFunctionOnSet(g, T)}
<1>1. {} \in Below
  BY SumEmpty
<1>2. ASSUME NEW T \in Below, NEW x \in S \ T
      PROVE  T \cup {x} \in Below
  <2>1. IsFiniteSet(T)
    BY FS_Subset
  <2>2. SumFunctionOnSet(f, T) \in Int /\ SumFunctionOnSet(g, T) \in Int
    BY <2>1, SumType
  <2>3. /\ SumFunctionOnSet(f, T \cup {x}) = f[x] + SumFunctionOnSet(f, T)
        /\ SumFunctionOnSet(g, T \cup {x}) = g[x] + SumFunctionOnSet(g, T)
    BY <2>1, SumAdds
  <2> QED
    BY <2>2, <2>3
<1>3. Below = SUBSET S
  <2> HIDE DEF Below
  <2>1. Below \in SUBSET (SUBSET S)
    BY DEF Below
  <2> QED
    BY <1>1, <1>2, <2>1, SubsetInduction
<1> QED
  BY <1>3

(* The sum of two functions, term by term.                                 *)
LEMMA SumPlus ==
  ASSUME NEW S, IsFiniteSet(S), NEW f, NEW g, NEW h,
         \A x \in S : f[x] \in Int /\ g[x] \in Int /\ h[x] = f[x] + g[x]
  PROVE  SumFunctionOnSet(h, S) = SumFunctionOnSet(f, S) + SumFunctionOnSet(g, S)
<1> DEFINE Sum(k, T) == SumFunctionOnSet(k, T)
           Adds == {T \in SUBSET S : Sum(h, T) = Sum(f, T) + Sum(g, T)}
<1>1. {} \in Adds
  BY SumEmpty
<1>2. ASSUME NEW T \in Adds, NEW x \in S \ T
      PROVE  T \cup {x} \in Adds
  <2>1. IsFiniteSet(T)
    BY FS_Subset
  <2>2. \A y \in T \cup {x} : f[y] \in Int /\ g[y] \in Int /\ h[y] \in Int
    OBVIOUS
  <2>3. Sum(f, T) \in Int /\ Sum(g, T) \in Int
    BY <2>1, <2>2, SumType
  <2>4. /\ Sum(f, T \cup {x}) = f[x] + Sum(f, T)
        /\ Sum(g, T \cup {x}) = g[x] + Sum(g, T)
        /\ Sum(h, T \cup {x}) = h[x] + Sum(h, T)
    BY <2>1, <2>2, SumAdds
  <2>5. h[x] = f[x] + g[x] /\ Sum(h, T) = Sum(f, T) + Sum(g, T)
    OBVIOUS
  <2> HIDE DEF Sum
  <2> QED
    BY <2>2, <2>3, <2>4, <2>5
<1>3. Adds = SUBSET S
  <2> HIDE DEF Adds
  <2>1. Adds \in SUBSET (SUBSET S)
    BY DEF Adds
  <2> QED
    BY <1>1, <1>2, <2>1, SubsetInduction
<1> QED
  BY <1>3

LEMMA SumScaled ==
  ASSUME NEW S, IsFiniteSet(S), NEW f, NEW k \in Int, NEW h,
         \A x \in S : f[x] \in Int /\ h[x] = f[x] * k - 1
  PROVE  SumFunctionOnSet(h, S) = SumFunctionOnSet(f, S) * k - Cardinality(S)
<1> DEFINE Sum(g, T) == SumFunctionOnSet(g, T)
           Scaled == {T \in SUBSET S : Sum(h, T) = Sum(f, T) * k - Cardinality(T)}
<1>1. {} \in Scaled
  BY SumEmpty, FS_EmptySet
<1>2. ASSUME NEW T \in Scaled, NEW x \in S \ T
      PROVE  T \cup {x} \in Scaled
  <2>1. IsFiniteSet(T) /\ Cardinality(T) \in Nat
    BY FS_Subset, FS_CardinalityType
  <2>2. \A y \in T \cup {x} : f[y] \in Int /\ h[y] \in Int
    OBVIOUS
  <2>3. Sum(f, T) \in Int
    BY <2>1, <2>2, SumType
  <2>4. /\ Sum(f, T \cup {x}) = f[x] + Sum(f, T)
        /\ Sum(h, T \cup {x}) = h[x] + Sum(h, T)
    BY <2>1, <2>2, SumAdds
  <2>5. Cardinality(T \cup {x}) = Cardinality(T) + 1
    BY <2>1, FS_AddElement
  <2>6. h[x] = f[x] * k - 1 /\ Sum(h, T) = Sum(f, T) * k - Cardinality(T)
    OBVIOUS
  <2>7. (f[x] + Sum(f, T)) * k = f[x] * k + Sum(f, T) * k
    BY <2>2, <2>3
  <2>8. Sum(h, T \cup {x}) = Sum(f, T \cup {x}) * k - Cardinality(T \cup {x})
    <3>1. f[x] * k \in Int /\ Sum(f, T) * k \in Int
      BY <2>2, <2>3
    <3> HIDE DEF Sum
    <3> QED
      BY <2>1, <2>4, <2>5, <2>6, <2>7, <3>1
  <2> QED
    BY <2>8
<1>3. Scaled = SUBSET S
  <2> HIDE DEF Scaled
  <2>1. Scaled \in SUBSET (SUBSET S)
    BY DEF Scaled
  <2> QED
    BY <1>1, <1>2, <2>1, SubsetInduction
<1> QED
  BY <1>3

LEMMA SumConstant ==
  ASSUME NEW S, IsFiniteSet(S), NEW c \in Int, NEW f, \A x \in S : f[x] = c
  PROVE  SumFunctionOnSet(f, S) = c * Cardinality(S)
<1> DEFINE Sum(T) == SumFunctionOnSet(f, T)
           Constant == {T \in SUBSET S : Sum(T) = c * Cardinality(T)}
<1>1. {} \in Constant
  BY SumEmpty, FS_EmptySet
<1>2. ASSUME NEW T \in Constant, NEW x \in S \ T
      PROVE  T \cup {x} \in Constant
  <2>1. IsFiniteSet(T) /\ Cardinality(T) \in Nat
    BY FS_Subset, FS_CardinalityType
  <2>2. Sum(T \cup {x}) = c + Sum(T)
    <3>1. \A y \in T \cup {x} : f[y] \in Int
      OBVIOUS
    <3>2. SumFunctionOnSet(f, T \cup {x}) = f[x] + SumFunctionOnSet(f, T)
      BY <2>1, <3>1, SumAdds
    <3> QED
      BY <3>2
  <2>3. Cardinality(T \cup {x}) = Cardinality(T) + 1
    BY <2>1, FS_AddElement
  <2>4. c * (Cardinality(T) + 1) = c + c * Cardinality(T)
    BY <2>1
  <2> QED
    BY <2>2, <2>3, <2>4
<1>3. Constant = SUBSET S
  <2> HIDE DEF Constant
  <2>1. Constant \in SUBSET (SUBSET S)
    BY DEF Constant
  <2> QED
    BY <1>1, <1>2, <2>1, SubsetInduction
<1> QED
  BY <1>3

LEMMA SumDisjoint ==
  ASSUME NEW S, IsFiniteSet(S), NEW R, IsFiniteSet(R), S \cap R = {},
         NEW f, \A x \in S \cup R : f[x] \in Int
  PROVE  SumFunctionOnSet(f, S \cup R) = SumFunctionOnSet(f, S) + SumFunctionOnSet(f, R)
<1> DEFINE Sum(T) == SumFunctionOnSet(f, T)
           Splits == {T \in SUBSET S : Sum(T \cup R) = Sum(T) + Sum(R)}
<1>0. Sum(R) \in Int
  BY SumType
<1>1. {} \in Splits
  <2>1. {} \cup R = R
    OBVIOUS
  <2> QED
    BY <1>0, <2>1, SumEmpty
<1>2. ASSUME NEW T \in Splits, NEW x \in S \ T
      PROVE  T \cup {x} \in Splits
  <2>1. IsFiniteSet(T) /\ IsFiniteSet(T \cup R)
    BY FS_Subset, FS_Union
  <2>2. Sum(T \cup {x}) = f[x] + Sum(T)
    BY <2>1, SumAdds
  <2>3. Sum((T \cup R) \cup {x}) = f[x] + Sum(T \cup R)
    BY <2>1, SumAdds
  <2>4. (T \cup R) \cup {x} = (T \cup {x}) \cup R
    OBVIOUS
  <2>5. Sum(T) \in Int /\ f[x] \in Int
    BY <2>1, SumType
  <2>6. Sum(T \cup R) = Sum(T) + Sum(R)
    OBVIOUS
  <2>7. Sum((T \cup {x}) \cup R) = f[x] + (Sum(T) + Sum(R))
    BY <2>3, <2>4, <2>6
  <2> HIDE DEF Sum
  <2>8. Sum((T \cup {x}) \cup R) = Sum(T \cup {x}) + Sum(R)
    BY <1>0, <2>2, <2>5, <2>7
  <2> QED
    BY <2>8
<1>3. Splits = SUBSET S
  <2> HIDE DEF Splits
  <2>1. Splits \in SUBSET (SUBSET S)
    BY DEF Splits
  <2> QED
    BY <1>1, <1>2, <2>1, SubsetInduction
<1> QED
  BY <1>3

(* The parts of a partition sum to the sum of the whole.                   *)
LEMMA SumOfParts ==
  ASSUME NEW Q, IsFiniteSet(Q), \A S \in Q : IsFiniteSet(S),
         \A R, S \in Q : R # S => R \cap S = {},
         NEW f, \A x \in UNION Q : f[x] \in Int,
         NEW w, \A S \in Q : w[S] = SumFunctionOnSet(f, S)
  PROVE  SumFunctionOnSet(w, Q) = SumFunctionOnSet(f, UNION Q)
<1> DEFINE Partial == {A \in SUBSET Q : SumFunctionOnSet(w, A) = SumFunctionOnSet(f, UNION A)}
<1>1. {} \in Partial
  <2>1. UNION {} = {}
    OBVIOUS
  <2> QED
    BY <2>1, SumEmpty
<1>2. ASSUME NEW A \in Partial, NEW S \in Q \ A
      PROVE  A \cup {S} \in Partial
  <2>1. /\ IsFiniteSet(A)
        /\ IsFiniteSet(UNION A)
        /\ IsFiniteSet(S)
    BY FS_Subset, FS_UNION
  <2>2. \A R \in A \cup {S} : w[R] \in Int
    <3> SUFFICES ASSUME NEW R \in A \cup {S} PROVE w[R] \in Int
      OBVIOUS
    <3>1. \A x \in R : f[x] \in Int
      OBVIOUS
    <3> QED
      BY <3>1, SumType
  <2>3. SumFunctionOnSet(w, A \cup {S}) = w[S] + SumFunctionOnSet(w, A)
    BY <2>1, <2>2, SumAdds
  <2>4. S \cap UNION A = {}
    OBVIOUS
  <2>5. SumFunctionOnSet(f, S \cup UNION A) =
            SumFunctionOnSet(f, S) + SumFunctionOnSet(f, UNION A)
    BY <2>1, <2>4, SumDisjoint
  <2>6. UNION (A \cup {S}) = S \cup UNION A
    OBVIOUS
  <2> QED
    BY <2>3, <2>5, <2>6
<1>3. Partial = SUBSET Q
  <2> HIDE DEF Partial
  <2>1. Partial \in SUBSET (SUBSET Q)
    BY DEF Partial
  <2> QED
    BY <1>1, <1>2, <2>1, SubsetInduction
<1> QED
  BY <1>3

(* Rows first or columns first, of a matrix a and its transpose b.         *)
Transposed(a, b, D, Q) == \A d \in D, q \in Q : a[d][q] \in Int /\ b[q][d] = a[d][q]

AreSums(v, a, D, Q) == \A d \in D : v[d] = SumFunctionOnSet(a[d], Q)

LEMMA SumSwaps ==
  ASSUME NEW D, IsFiniteSet(D), NEW Q, IsFiniteSet(Q),
         NEW a, NEW b, Transposed(a, b, D, Q),
         NEW col, AreSums(col, a, D, Q), NEW row, AreSums(row, b, Q, D)
  PROVE  SumFunctionOnSet(row, Q) = SumFunctionOnSet(col, D)
<1> USE DEF Transposed, AreSums
<1> DEFINE Sum(f, T) == SumFunctionOnSet(f, T)
           Part(A) == [q \in Q |-> Sum(b[q], A)]
           Swaps == {A \in SUBSET D : Sum(Part(A), Q) = Sum(col, A)}
<1>1. {} \in Swaps
  <2>1. \A q \in Q : Part({})[q] = 0
    BY SumEmpty
  <2>2. Sum(Part({}), Q) = 0 * Cardinality(Q)
    <3> HIDE DEF Part
    <3> QED
      BY <2>1, SumConstant
  <2> QED
    BY <2>2, FS_CardinalityType, SumEmpty
<1>2. ASSUME NEW A \in Swaps, NEW d \in D \ A
      PROVE  A \cup {d} \in Swaps
  <2>1. IsFiniteSet(A)
    BY FS_Subset
  <2>2. \A q \in Q : Part(A \cup {d})[q] = a[d][q] + Part(A)[q] /\ Part(A)[q] \in Int
    <3> SUFFICES ASSUME NEW q \in Q
                 PROVE  Part(A \cup {d})[q] = a[d][q] + Part(A)[q] /\ Part(A)[q] \in Int
      OBVIOUS
    <3>1. \A e \in A \cup {d} : b[q][e] \in Int
      OBVIOUS
    <3>2. Sum(b[q], A \cup {d}) = b[q][d] + Sum(b[q], A) /\ Sum(b[q], A) \in Int
      BY <2>1, <3>1, SumAdds, SumType
    <3> QED
      BY <3>2
  <2>3. Sum(Part(A \cup {d}), Q) = Sum(a[d], Q) + Sum(Part(A), Q)
    <3> DEFINE c == a[d]
               p == Part(A)
               r == Part(A \cup {d})
    <3>1. \A q \in Q : c[q] \in Int /\ p[q] \in Int /\ r[q] = c[q] + p[q]
      BY <2>2
    <3> HIDE DEF c, p, r
    <3>2. Sum(r, Q) = Sum(c, Q) + Sum(p, Q)
      BY <3>1, SumPlus
    <3> QED
      BY <3>2 DEF c, p, r
  <2>4. \A e \in A \cup {d} : col[e] \in Int
    BY SumType
  <2>5. Sum(col, A \cup {d}) = col[d] + Sum(col, A)
    BY <2>1, <2>4, SumAdds
  <2> HIDE DEF Part
  <2> QED
    BY <2>3, <2>5
<1>3. Swaps = SUBSET D
  <2> HIDE DEF Swaps
  <2>1. Swaps \in SUBSET (SUBSET D)
    BY DEF Swaps
  <2> QED
    BY <1>1, <1>2, <2>1, SubsetInduction
<1>4. Sum(Part(D), Q) = Sum(row, Q)
  <2>1. \A q \in Q : Part(D)[q] = row[q] /\ Part(D)[q] \in Int
    <3> SUFFICES ASSUME NEW q \in Q PROVE Part(D)[q] = row[q] /\ Part(D)[q] \in Int
      OBVIOUS
    <3>1. \A e \in D : b[q][e] \in Int
      OBVIOUS
    <3>2. Sum(b[q], D) \in Int
      BY <3>1, SumType
    <3> QED
      BY <3>2
  <2> HIDE DEF Part
  <2> QED
    BY <2>1, SumAgrees
<1> QED
  BY <1>3, <1>4

(* A sum of terms that are not negative is at least each of them.          *)
LEMMA SumCovers ==
  ASSUME NEW S, IsFiniteSet(S), NEW f, \A x \in S : f[x] \in Int /\ f[x] >= 0, NEW x \in S
  PROVE  SumFunctionOnSet(f, S) >= f[x]
<1> DEFINE zero == [y \in S \ {x} |-> 0]
<1>1. IsFiniteSet(S \ {x})
  BY FS_RemoveElement
<1>2. \A y \in S \ {x} : zero[y] = 0
  OBVIOUS
<1>3. SumFunctionOnSet(f, S \ {x}) \in Int
  BY <1>1, SumType
<1> HIDE DEF zero
<1>4. SumFunctionOnSet(zero, S \ {x}) =< SumFunctionOnSet(f, S \ {x})
  BY <1>1, <1>2, SumMonotone
<1>5. SumFunctionOnSet(zero, S \ {x}) = 0 * Cardinality(S \ {x})
  BY <1>1, <1>2, SumConstant
<1>6. SumFunctionOnSet(zero, S \ {x}) = 0
  BY <1>1, <1>5, FS_CardinalityType
<1>7. SumFunctionOnSet(f, S) = f[x] + SumFunctionOnSet(f, S \ {x})
  BY SumSplits
<1> QED
  BY <1>3, <1>4, <1>6, <1>7
-----------------------------------------------------------------------------
(* The greatest and the least of finitely many integers.                   *)
LEMMA MaxExists ==
  ASSUME NEW S \in SUBSET Int, IsFiniteSet(S), S # {}
  PROVE  Max(S) \in S /\ \A x \in S : x =< Max(S)
<1> DEFINE Bounded == {T \in SUBSET S : T = {} \/ \E m \in T : \A x \in T : m >= x}
<1>1. {} \in Bounded
  OBVIOUS
<1>2. ASSUME NEW T \in Bounded, NEW y \in S \ T
      PROVE  T \cup {y} \in Bounded
  <2>1. CASE T = {}
    BY <2>1
  <2>2. CASE \E m \in T : \A x \in T : m >= x
    <3>1. PICK m \in T : \A x \in T : m >= x
      BY <2>2
    <3>2. CASE m >= y
      BY <3>1, <3>2
    <3>3. CASE ~(m >= y)
      <4>1. y >= y /\ \A x \in T : y >= x
        BY <3>1, <3>3
      <4> QED
        BY <4>1
    <3> QED
      BY <3>2, <3>3
  <2> QED
    BY <2>1, <2>2
<1>3. Bounded = SUBSET S
  <2> HIDE DEF Bounded
  <2>1. Bounded \in SUBSET (SUBSET S)
    BY DEF Bounded
  <2> QED
    BY <1>1, <1>2, <2>1, SubsetInduction
<1>4. \E m \in S : \A x \in S : m >= x
  BY <1>3
<1>5. Max(S) \in S /\ \A x \in S : Max(S) >= x
  BY <1>4 DEF Max
<1> QED
  BY <1>5

LEMMA MinExists ==
  ASSUME NEW S \in SUBSET Int, IsFiniteSet(S), S # {}
  PROVE  Min(S) \in S /\ \A x \in S : Min(S) =< x
<1> DEFINE Bounded == {T \in SUBSET S : T = {} \/ \E m \in T : \A x \in T : m =< x}
<1>1. {} \in Bounded
  OBVIOUS
<1>2. ASSUME NEW T \in Bounded, NEW y \in S \ T
      PROVE  T \cup {y} \in Bounded
  <2>1. CASE T = {}
    BY <2>1
  <2>2. CASE \E m \in T : \A x \in T : m =< x
    <3>1. PICK m \in T : \A x \in T : m =< x
      BY <2>2
    <3>2. CASE m =< y
      BY <3>1, <3>2
    <3>3. CASE ~(m =< y)
      <4>1. y =< y /\ \A x \in T : y =< x
        BY <3>1, <3>3
      <4> QED
        BY <4>1
    <3> QED
      BY <3>2, <3>3
  <2> QED
    BY <2>1, <2>2
<1>3. Bounded = SUBSET S
  <2> HIDE DEF Bounded
  <2>1. Bounded \in SUBSET (SUBSET S)
    BY DEF Bounded
  <2> QED
    BY <1>1, <1>2, <2>1, SubsetInduction
<1>4. \E m \in S : \A x \in S : m =< x
  BY <1>3
<1> QED
  BY <1>4 DEF Min

LEMMA CountTo ==
  ASSUME NEW n \in Nat
  PROVE  IsFiniteSet(1..n) /\ Cardinality(1..n) = n
<1>1. /\ IsFiniteSet(1..n)
      /\ Cardinality(1..n) = IF 1 > n THEN 0 ELSE n - 1 + 1
  BY FS_Interval
<1> QED
  BY <1>1

(* Values up to k, drawn as columns of cells, add up to the number of cells.*)
Cells(x, S, k) == {e \in S \X (1..k) : e[2] =< x[e[1]]}

LEMMA CellsAddUp ==
  ASSUME NEW S, IsFiniteSet(S), NEW k \in Nat, NEW x, \A e \in S : x[e] \in 0..k
  PROVE  /\ Cardinality(Cells(x, S, k)) = SumFunctionOnSet(x, S)
         /\ Cardinality(Cells(x, S, k)) \in Nat
         /\ Cardinality(Cells(x, S, k)) =< k * Cardinality(S)
<1> DEFINE C(T) == Cells(x, T, k)
           Counted == {T \in SUBSET S :
                         IsFiniteSet(C(T)) /\ Cardinality(C(T)) = SumFunctionOnSet(x, T)}
<1>1. {} \in Counted
  <2>1. C({}) = {}
    BY DEF Cells
  <2> QED
    BY <2>1, SumEmpty, FS_EmptySet
<1>2. ASSUME NEW T \in Counted, NEW e \in S \ T
      PROVE  T \cup {e} \in Counted
  <2> DEFINE column == {e} \X (1..x[e])
  <2>1. x[e] \in Nat /\ x[e] =< k /\ k \in Nat
    OBVIOUS
  <2>2. C(T \cup {e}) = C(T) \cup column /\ C(T) \cap column = {}
    BY <2>1 DEF Cells
  <2>3. IsFiniteSet(1..x[e]) /\ Cardinality(1..x[e]) = x[e]
    BY <2>1, CountTo
  <2>4. IsFiniteSet({e}) /\ Cardinality({e}) = 1
    BY FS_Singleton
  <2>5. IsFiniteSet(column) /\ Cardinality(column) = x[e]
    <3>1. /\ IsFiniteSet({e} \X (1..x[e]))
          /\ Cardinality({e} \X (1..x[e])) = Cardinality({e}) * Cardinality(1..x[e])
      BY <2>3, <2>4, FS_Product
    <3> QED
      BY <2>1, <2>3, <2>4, <3>1
  <2>6. IsFiniteSet(T) /\ \A y \in T \cup {e} : x[y] \in Int
    BY FS_Subset
  <2>7. SumFunctionOnSet(x, T \cup {e}) = x[e] + SumFunctionOnSet(x, T)
    BY <2>6, SumAdds
  <2>8. IsFiniteSet(C(T)) /\ Cardinality(C(T)) \in Nat
    BY FS_CardinalityType
  <2>9. /\ IsFiniteSet(C(T) \cup column)
        /\ Cardinality(C(T) \cup column) = Cardinality(C(T)) + Cardinality(column) - Cardinality({})
    <3> HIDE DEF column, C
    <3> QED
      BY <2>2, <2>5, <2>8, FS_Union
  <2>10. Cardinality(C(T)) = SumFunctionOnSet(x, T)
    OBVIOUS
  <2>11. /\ IsFiniteSet(C(T \cup {e}))
         /\ Cardinality(C(T \cup {e})) = SumFunctionOnSet(x, T \cup {e})
    <3>1. Cardinality({}) = 0
      BY FS_EmptySet
    <3> HIDE DEF C, column
    <3>2. Cardinality(C(T) \cup column) = Cardinality(C(T)) + x[e]
      BY <2>1, <2>5, <2>8, <2>9, <3>1
    <3>3. Cardinality(C(T \cup {e})) = Cardinality(C(T)) + x[e]
      BY <2>2, <3>2
    <3>4. IsFiniteSet(C(T \cup {e}))
      BY <2>2, <2>9
    <3> QED
      BY <2>1, <2>7, <2>8, <2>10, <3>3, <3>4
  <2>12. T \cup {e} \in SUBSET S
    OBVIOUS
  <2> HIDE DEF C
  <2> QED
    BY <2>11, <2>12
<1>3. Counted = SUBSET S
  <2> HIDE DEF Counted
  <2>1. Counted \in SUBSET (SUBSET S)
    BY DEF Counted
  <2> QED
    BY <1>1, <1>2, <2>1, SubsetInduction
<1>4. Cardinality(Cells(x, S, k)) = SumFunctionOnSet(x, S) /\ IsFiniteSet(C(S))
  BY <1>3
<1>5. Cardinality(Cells(x, S, k)) \in Nat /\ Cardinality(Cells(x, S, k)) = Cardinality(C(S))
  BY <1>4, FS_CardinalityType
<1>6. Cardinality(Cells(x, S, k)) =< k * Cardinality(S)
  <2>1. IsFiniteSet(1..k) /\ Cardinality(1..k) = k
    BY CountTo
  <2>2. /\ IsFiniteSet(S \X (1..k))
        /\ Cardinality(S \X (1..k)) = Cardinality(S) * k
    BY <2>1, FS_Product
  <2>3. Cardinality(C(S)) =< Cardinality(S \X (1..k))
    BY <2>2, FS_Subset DEF Cells
  <2>4. Cardinality(S) \in Nat /\ k \in Nat
    BY FS_CardinalityType
  <2> QED
    BY <1>5, <2>2, <2>3, <2>4
<1> QED
  BY <1>4, <1>5, <1>6

(* The smaller of two.                                                     *)
LEMMA MinOfTwo ==
  ASSUME NEW m \in Int, NEW n \in Int
  PROVE  /\ Min({m, n}) =< m /\ Min({m, n}) =< n
         /\ Min({m, n}) \in {m, n}
<1>1. IsFiniteSet({m}) /\ IsFiniteSet({n})
  BY FS_Singleton
<1>2. IsFiniteSet({m} \cup {n})
  BY <1>1, FS_Union
<1>3. {m} \cup {n} = {m, n}
  OBVIOUS
<1>4. IsFiniteSet({m, n}) /\ {m, n} \in SUBSET Int /\ {m, n} # {}
  BY <1>2, <1>3
<1>5. Min({m, n}) \in {m, n} /\ \A x \in {m, n} : Min({m, n}) =< x
  BY <1>4, MinExists
<1> QED
  BY <1>5
-----------------------------------------------------------------------------
LEMMA ItemsFacts ==
  /\ IsFiniteSet(Items) /\ Cardinality(Items) \in Nat
  /\ \A S \in SUBSET Items : IsFiniteSet(S) /\ Cardinality(S) \in Nat
  /\ IsFiniteSet(Patterns)
  /\ \A i \in Items : Weight[i] \in Int /\ Weight[i] > 0
<1>1. \A S \in SUBSET Items : IsFiniteSet(S) /\ Cardinality(S) \in Nat
  BY InstanceAssumption, FS_Subset, FS_CardinalityType
<1>2. Patterns \in SUBSET (SUBSET Items)
  BY DEF Patterns
<1>3. IsFiniteSet(Patterns)
  BY <1>2, InstanceAssumption, FS_SUBSET, FS_Subset
<1> QED
  BY <1>1, <1>3, InstanceAssumption

(* The load of a set is the sum of the weights of its items.               *)
LEMMA LoadIsSum ==
  ASSUME NEW S \in SUBSET Items
  PROVE  Load[S] = SumFunctionOnSet(Weight, S)
<1>1. IsFiniteSet(Items) /\ \A i \in Items : Weight[i] \in Int
  BY InstanceAssumption
<1>2. PICK g : Summation(Weight, Items, g)
  BY <1>1, SummationExists
<1>3. Load = CHOOSE h : Summation(Weight, Items, h)
  BY DEF Load, Summation, Chosen, Rest
<1>4. Summation(Weight, Items, Load)
  BY <1>2, <1>3
<1> QED
  BY <1>1, <1>4, SumIsSummation

LEMMA LoadFacts ==
  ASSUME NEW S \in SUBSET Items
  PROVE  /\ Load[S] \in Nat
         /\ S = {} => Load[S] = 0
         /\ \A i \in S : Weight[i] =< Load[S]
<1>1. IsFiniteSet(S) /\ \A i \in S : Weight[i] \in Int /\ Weight[i] >= 0
  BY ItemsFacts
<1>2. Load[S] = SumFunctionOnSet(Weight, S) /\ Load[S] \in Int
  BY <1>1, LoadIsSum, SumType
<1>3. \A i \in S : Weight[i] =< Load[S]
  BY <1>1, <1>2, SumCovers
<1>4. S = {} => Load[S] = 0
  BY <1>2, SumEmpty
<1>5. CASE S = {}
  BY <1>4, <1>5
<1>6. CASE S # {}
  BY <1>1, <1>2, <1>3, <1>6
<1> QED
  BY <1>3, <1>4, <1>5, <1>6

(* The loads of disjoint sets add up.                                      *)
LEMMA LoadAdds ==
  ASSUME NEW S \in SUBSET Items, NEW R \in SUBSET Items, S \cap R = {}
  PROVE  Load[S \cup R] = Load[S] + Load[R]
<1>1. IsFiniteSet(S) /\ IsFiniteSet(R) /\ \A i \in S \cup R : Weight[i] \in Int
  BY ItemsFacts
<1>2. SumFunctionOnSet(Weight, S \cup R) =
          SumFunctionOnSet(Weight, S) + SumFunctionOnSet(Weight, R)
  BY <1>1, SumDisjoint
<1> QED
  BY <1>2, LoadIsSum

LEMMA LoadOfItem ==
  ASSUME NEW i \in Items
  PROVE  Load[{i}] = Weight[i]
<1>1. SumFunctionOnSet(Weight, {} \cup {i}) = Weight[i] + SumFunctionOnSet(Weight, {})
  BY FS_EmptySet, ItemsFacts, SumAdds
<1>2. {} \cup {i} = {i}
  OBVIOUS
<1> QED
  BY <1>1, <1>2, SumEmpty, LoadIsSum, ItemsFacts

(* A larger set is heavier.                                                *)
LEMMA LoadGrows ==
  ASSUME NEW S \in SUBSET Items, NEW R \in SUBSET S
  PROVE  Load[R] =< Load[S]
<1>1. Load[R \cup (S \ R)] = Load[R] + Load[S \ R]
  BY LoadAdds
<1>2. R \cup (S \ R) = S
  OBVIOUS
<1>3. R \in SUBSET Items /\ S \ R \in SUBSET Items
  OBVIOUS
<1>4. Load[R] \in Nat /\ Load[S \ R] \in Nat
  BY <1>3, LoadFacts
<1>5. Load[S] = Load[R] + Load[S \ R]
  BY <1>1, <1>2
<1> QED
  BY <1>4, <1>5
-----------------------------------------------------------------------------
(* Every item lies in a bin of a packing (src/core/solution.cpp).          *)
LEMMA EveryItemPacked ==
  ASSUME NEW P \in Packings, NEW i \in Items
  PROVE  \E S \in P : i \in S
<1>1. PICK f \in [Items -> Items] : P = BinsOf(f)
  BY DEF Packings
<1>2. {j \in Items : f[j] = f[i]} \in P
  BY <1>1 DEF BinsOf
<1> QED
  BY <1>2

(* No item lies in two bins of a packing.                                  *)
LEMMA OneBinPerItem ==
  ASSUME NEW P \in Packings, NEW S \in P, NEW T \in P, NEW i \in Items,
         i \in S, i \in T
  PROVE  S = T
<1>1. PICK f \in [Items -> Items] : P = BinsOf(f)
  BY DEF Packings
<1>2. PICK j \in Items : S = {k \in Items : f[k] = f[j]}
  BY <1>1 DEF BinsOf
<1>3. PICK l \in Items : T = {k \in Items : f[k] = f[l]}
  BY <1>1 DEF BinsOf
<1>4. f[j] = f[l]
  BY <1>2, <1>3
<1> QED
  BY <1>2, <1>3, <1>4

(* A packing partitions the items into patterns.                           *)
LEMMA PackingFacts ==
  ASSUME NEW P \in Packings
  PROVE  /\ P \subseteq Patterns
         /\ IsFiniteSet(P)
         /\ UNION P = Items
         /\ \A R, S \in P : R # S => R \cap S = {}
         /\ Bins(P) \in Nat
         /\ Bins(P) =< Cardinality(Items)
<1>1. PICK f \in [Items -> Items] : P = BinsOf(f)
  BY DEF Packings
<1>2. P \subseteq Patterns
  BY DEF Packings
<1>3. IsFiniteSet(P)
  BY <1>2, ItemsFacts, FS_Subset
<1>4. UNION P = Items
  BY <1>2, EveryItemPacked DEF Patterns
<1>5. ASSUME NEW R \in P, NEW S \in P, R # S
      PROVE  R \cap S = {}
  <2> SUFFICES ASSUME NEW i \in R, i \in S PROVE FALSE
    OBVIOUS
  <2> QED
    BY <1>2, <1>5, OneBinPerItem DEF Patterns
<1>6. Cardinality(P) =< Cardinality(Items)
  <2> DEFINE bin == [j \in Items |-> {i \in Items : f[i] = f[j]}]
  <2>1. bin \in Surjection(Items, P)
    BY <1>1 DEF BinsOf, Surjection
  <2> QED
    BY <2>1, InstanceAssumption, FS_Surjection
<1> QED
  BY <1>2, <1>3, <1>4, <1>5, <1>6, FS_CardinalityType DEF Bins

LEMMA BinsType == \A P \in Packings : Bins(P) \in Nat
  BY PackingFacts

LEMMA PackingSizesType == PackingSizes \subseteq Nat
  BY PackingFacts DEF PackingSizes
-----------------------------------------------------------------------------

(* Branching on a pair loses no packing of the node and gives none to both *)
(* children: each goes to exactly one (branching.cpp:19-31).               *)
THEOREM RyanFoster ==
  ASSUME NEW b \in BranchingStates, NEW p \in Pairs, NEW P \in Packings
  PROVE  /\ \/ Admits(Child(b, p, "Together"), P)
            \/ Admits(Child(b, p, "Different"), P)
            <=> Admits(b, P)
         /\ ~(/\ Admits(Child(b, p, "Together"), P)
              /\ Admits(Child(b, p, "Different"), P))
<1> DEFINE shared == \E S \in P : Both(p, S)
           together == [pair |-> p, relation |-> "Together"]
           different == [pair |-> p, relation |-> "Different"]
<1>1. p[1] \in Items /\ p[2] \in Items
  BY DEF Pairs
<1>2. (\A S \in P : ConstraintAccepts(together, S)) <=> shared
  <2>1. ASSUME shared, NEW S \in P
        PROVE  p[1] \in S <=> p[2] \in S
    <3>1. PICK T \in P : p[1] \in T /\ p[2] \in T
      BY <2>1 DEF Both
    <3> QED
      BY <1>1, <3>1, OneBinPerItem
  <2>2. ASSUME \A S \in P : p[1] \in S <=> p[2] \in S
        PROVE  shared
    <3>1. PICK T \in P : p[1] \in T
      BY <1>1, EveryItemPacked
    <3> QED
      BY <2>2, <3>1 DEF Both
  <2> QED
    BY <2>1, <2>2 DEF ConstraintAccepts
<1>3. (\A S \in P : ConstraintAccepts(different, S)) <=> ~shared
  BY DEF ConstraintAccepts
<1>4. Admits(Child(b, p, "Together"), P) <=>
        Admits(b, P) /\ \A S \in P : ConstraintAccepts(together, S)
  BY DEF Admits, Accepts, Child
<1>5. Admits(Child(b, p, "Different"), P) <=>
        Admits(b, P) /\ \A S \in P : ConstraintAccepts(different, S)
  BY DEF Admits, Accepts, Child
<1> HIDE DEF shared, together, different
<1>6. Admits(b, P) \in BOOLEAN /\ shared \in BOOLEAN
      /\ Admits(Child(b, p, "Together"), P) \in BOOLEAN
      /\ Admits(Child(b, p, "Different"), P) \in BOOLEAN
  BY DEF Admits, shared
<1> QED
  BY <1>2, <1>3, <1>4, <1>5, <1>6

(* The half of RyanFoster that a covering argument needs.                  *)
COROLLARY SomeChildAdmits ==
  ASSUME NEW b \in BranchingStates, NEW p \in Pairs, NEW P \in Packings,
         Admits(b, P)
  PROVE  \/ Admits(Child(b, p, "Together"), P)
         \/ Admits(Child(b, p, "Different"), P)
  BY RyanFoster

(* A child admits only packings its parent admits.                         *)
LEMMA ChildAdmitsLess ==
  ASSUME NEW b \in BranchingStates, NEW p \in Pairs, NEW relation,
         NEW P \in Packings, Admits(Child(b, p, relation), P)
  PROVE  Admits(b, P)
  BY DEF Admits, Accepts, Child

LEMMA ChildType ==
  ASSUME NEW b \in BranchingStates, NEW p \in Pairs, NEW relation \in Relations
  PROVE  Child(b, p, relation) \in BranchingStates
  BY DEF Child, BranchingStates, Constraints

(* The root admits every packing.                                          *)
LEMMA RootAdmitsAll ==
  /\ {} \in BranchingStates
  /\ \A P \in Packings : Admits({}, P)
  BY DEF Admits, Accepts, BranchingStates

(* Patterns that partition the items are the bins of a packing.            *)
LEMMA PartitionIsPacking ==
  ASSUME NEW Q \in SUBSET Patterns, UNION Q = Items,
         \A R, S \in Q : R # S => R \cap S = {}
  PROVE  Q \in Packings
<1> DEFINE bin(i) == CHOOSE S \in Q : i \in S
           f == [i \in Items |-> CHOOSE j \in bin(i) : TRUE]
<1>1. \A S \in Q : S \in SUBSET Items /\ S # {}
  BY DEF Patterns
<1>2. ASSUME NEW S \in Q, NEW i \in S PROVE bin(i) = S
  BY <1>2
<1>3. \A i \in Items : bin(i) \in Q /\ i \in bin(i)
  BY DEF bin
<1>4. \A i \in Items : f[i] \in bin(i) /\ f[i] \in Items
  BY <1>1, <1>3
<1>5. f \in [Items -> Items]
  BY <1>4
<1>6. ASSUME NEW S \in Q, NEW i \in S PROVE {k \in Items : f[k] = f[i]} = S
  <2>1. i \in Items
    BY <1>1, <1>6
  <2>2. ASSUME NEW k \in Items, f[k] = f[i] PROVE k \in S
    <3> HIDE DEF f, bin
    <3>1. bin(i) = S
      BY <1>2
    <3>2. f[i] \in S
      BY <1>4, <2>1, <3>1
    <3>3. bin(k) \in Q /\ k \in bin(k) /\ f[k] \in bin(k)
      BY <1>3, <1>4
    <3> QED
      BY <2>2, <3>2, <3>3
  <2>3. ASSUME NEW k \in S PROVE k \in Items /\ f[k] = f[i]
    BY <1>1, <1>2, <1>6, <2>1, <2>3
  <2> QED
    BY <1>1, <2>2, <2>3
<1>7. BinsOf(f) = Q
  <2> HIDE DEF f
  <2>1. ASSUME NEW j \in Items PROVE {i \in Items : f[i] = f[j]} \in Q
    <3> HIDE DEF bin
    <3>1. bin(j) \in Q /\ j \in bin(j)
      BY <1>3
    <3>2. {k \in Items : f[k] = f[j]} = bin(j)
      BY <1>6, <3>1
    <3> QED
      BY <3>1, <3>2
  <2>2. ASSUME NEW S \in Q PROVE \E j \in Items : S = {i \in Items : f[i] = f[j]}
    <3>1. PICK j \in S : TRUE
      BY <1>1
    <3> QED
      BY <1>1, <1>6, <3>1
  <2> QED
    BY <2>1, <2>2 DEF BinsOf
<1> QED
  BY <1>5, <1>7 DEF Packings

(* Every pattern of a node that admits a packing is a bin of one: what is  *)
(* left of the other bins still obeys the constraints.                     *)
LEMMA PatternInPacking ==
  ASSUME NEW b \in BranchingStates, NEW P \in Packings, Admits(b, P),
         NEW S \in AcceptedPatterns(b)
  PROVE  \E Q \in Packings : S \in Q /\ Admits(b, Q)
<1> DEFINE rests == {R \ S : R \in P} \ {{}}
           Q == {S} \cup rests
<1>1. /\ S \in Patterns /\ S \in SUBSET Items /\ Accepts(b, S)
      /\ P \subseteq Patterns /\ UNION P = Items
      /\ \A R, T \in P : R # T => R \cap T = {}
  BY PackingFacts DEF AcceptedPatterns, Patterns
<1>2. ASSUME NEW R \in P PROVE R \ S = {} \/ R \ S \in Patterns
  <2>1. R \in SUBSET Items /\ R \ S \in SUBSET R /\ Load[R] =< Capacity
    BY <1>1 DEF Patterns
  <2>2. Load[R \ S] =< Load[R] /\ Load[R] \in Nat /\ Load[R \ S] \in Nat /\ Capacity \in Nat
    BY <2>1, LoadGrows, LoadFacts, InstanceAssumption
  <2> QED
    BY <2>1, <2>2 DEF Patterns
<1>3. ASSUME NEW R \in P PROVE Accepts(b, R \ S)
  <2>1. Accepts(b, R)
    BY DEF Admits
  <2>2. ASSUME NEW c \in b PROVE ConstraintAccepts(c, R \ S)
    BY <1>1, <2>1 DEF Accepts, ConstraintAccepts, Both
  <2> QED
    BY <2>2 DEF Accepts
<1>4. Q \in SUBSET Patterns
  BY <1>1, <1>2
<1>5. UNION Q = Items
  <2>1. ASSUME NEW i \in Items, i \notin S PROVE i \in UNION Q
    <3>1. PICK R \in P : i \in R
      BY <1>1
    <3>2. i \in R \ S /\ R \ S \in rests
      BY <2>1, <3>1
    <3> QED
      BY <3>2
  <2>2. UNION Q \subseteq Items
    BY <1>4 DEF Patterns
  <2> QED
    BY <2>1, <2>2
<1>6. ASSUME NEW R \in Q, NEW T \in Q, R # T PROVE R \cap T = {}
  <2>1. CASE R = S \/ T = S
    BY <1>6, <2>1
  <2>2. CASE R \in rests /\ T \in rests
    <3>1. PICK R1 \in P : R = R1 \ S
      BY <2>2
    <3>2. PICK T1 \in P : T = T1 \ S
      BY <2>2
    <3>3. R1 # T1
      BY <1>6, <3>1, <3>2
    <3> QED
      BY <1>1, <3>1, <3>2, <3>3
  <2> QED
    BY <2>1, <2>2
<1>7. Q \in Packings
  BY <1>4, <1>5, <1>6, PartitionIsPacking
<1>8. Admits(b, Q)
  BY <1>1, <1>3 DEF Admits
<1> QED
  BY <1>7, <1>8

(* A pair with a column that holds both items and one that splits them     *)
(* leaves a packing to both children.                                      *)
LEMMA BothChildrenAdmit ==
  ASSUME NEW b \in BranchingStates, Admitted(b) # {}, NEW p \in CoOccurring(b),
         ~Bonded(b, p), NEW relation \in Relations
  PROVE  Admitted(Child(b, p, relation)) # {}
<1>1. PICK P \in Packings : Admits(b, P)
  BY DEF Admitted
<1>2. p \in Pairs /\ p[1] \in Items /\ p[2] \in Items
  BY DEF CoOccurring, Pairs
<1>3. ASSUME NEW Q \in Packings, Admits(b, Q),
             \A S \in Q : ConstraintAccepts([pair |-> p, relation |-> relation], S)
      PROVE  Admitted(Child(b, p, relation)) # {}
  BY <1>3 DEF Admitted, Admits, Accepts, Child
<1>4. CASE relation = "Together"
  <2>1. PICK S \in AcceptedPatterns(b) : Both(p, S)
    BY DEF CoOccurring
  <2>2. PICK Q \in Packings : S \in Q /\ Admits(b, Q)
    BY <1>1, <2>1, PatternInPacking
  <2>3. ASSUME NEW T \in Q PROVE p[1] \in T <=> p[2] \in T
    BY <1>2, <2>1, <2>2, <2>3, OneBinPerItem DEF Both
  <2> QED
    BY <1>3, <1>4, <2>2, <2>3 DEF ConstraintAccepts
<1>5. CASE relation = "Different"
  <2>1. PICK S \in AcceptedPatterns(b) : ~(p[1] \in S <=> p[2] \in S)
    BY DEF Bonded
  <2>2. PICK Q \in Packings : S \in Q /\ Admits(b, Q)
    BY <1>1, <2>1, PatternInPacking
  <2>3. ASSUME NEW T \in Q PROVE ~Both(p, T)
    BY <1>2, <2>1, <2>2, <2>3, OneBinPerItem DEF Both
  <2> QED
    BY <1>3, <1>5, <2>2, <2>3 DEF ConstraintAccepts
<1> QED
  BY <1>4, <1>5 DEF Relations

(* What an answer of the engine carries.                                   *)
LEMMA RelaxationFacts ==
  ASSUME NEW b \in BranchingStates, NEW r \in Relaxations(b)
  PROVE  /\ r.incumbent_bins \in PackingSizes
         /\ r.certified \in BOOLEAN
         /\ r.safe_bound \in Nat
         /\ \A P \in Packings : Admits(b, P) => r.safe_bound =< Bins(P)
         /\ r.pair # NoPair => r.pair \in Pairs
<1>1. r \in [incumbent_bins : PackingSizes,
             certified : {c \in BOOLEAN : c \/ CanStall},
             safe_bound : SafeBounds(b),
             pair : FractionalPairs(b) \cup {NoPair}]
  BY DEF Relaxations
<1>2. FractionalPairs(b) \subseteq Pairs
  BY DEF FractionalPairs, CoOccurring
<1>3. SafeBounds(b) \subseteq Nat
  BY FS_CardinalityType, InstanceAssumption DEF SafeBounds
<1>4. \A P \in Packings : Admits(b, P) => r.safe_bound =< Bins(P)
  BY <1>1 DEF SafeBounds, Admitted
<1> QED
  BY <1>1, <1>2, <1>3, <1>4

(* What is given up at a node are packings.                                *)
LEMMA GivenUpAreAdmitted ==
  ASSUME NEW b, NEW n
  PROVE  GivenUp(b, n) \subseteq Packings
  BY DEF GivenUp, Admitted

(* A bound that fails for some packings only fails for their sizes only.   *)
LEMMA SizesBelowFacts ==
  ASSUME NEW some \in SUBSET Packings, NEW m \in PackingSizes, NEW n \in Nat,
         BoundsAllBut(n, some)
  PROVE  LET sizes == SizesBelow(m, some)
         IN  /\ sizes \in SUBSET {k \in PackingSizes : k < m}
             /\ \/ \A P \in Packings : Bins(P) < n => Bins(P) \in sizes
                \/ \A P \in Packings : Bins(P) < m => Bins(P) \in sizes
             /\ n =< m => \A P \in Packings : Bins(P) < n => Bins(P) \in sizes
<1> DEFINE sizes == SizesBelow(m, some)
<1>1. sizes \in SUBSET {k \in PackingSizes : k < m}
  BY DEF SizesBelow, PackingSizes
<1>2. m \in Nat
  BY PackingSizesType
<1>3. ASSUME NEW P \in Packings, Bins(P) < n, Bins(P) < m PROVE Bins(P) \in sizes
  <2>1. P \in some
    BY <1>3, BinsType DEF BoundsAllBut
  <2> QED
    BY <1>3, <2>1 DEF SizesBelow
<1> HIDE DEF sizes
<1>4. n =< m => \A P \in Packings : Bins(P) < n => Bins(P) \in sizes
  BY <1>2, <1>3, BinsType
<1>5. m =< n => \A P \in Packings : Bins(P) < m => Bins(P) \in sizes
  BY <1>2, <1>3, BinsType
<1> QED
  BY <1>1, <1>2, <1>4, <1>5 DEF sizes

(* The incumbent never gets worse.                                        *)
LEMMA ImproveFacts ==
  ASSUME NEW m \in PackingSizes, NEW n \in PackingSizes
  PROVE  /\ Improve(m, n) \in PackingSizes
         /\ Improve(m, n) =< m
         /\ Improve(m, n) =< n
  BY PackingSizesType DEF Improve
=============================================================================

---------------------------- MODULE DivingProofs ----------------------------
(***************************************************************************)
(* Theorems of Diving and of BranchAndPrice, for every instance, budget    *)
(* and answer of the engine: the diving budget is conserved, the recursion *)
(* is shallow, no dive enters an empty branch, and what the dive brings    *)
(* back leaves the certificate of the main search as it was.               *)
(***************************************************************************)
EXTENDS BranchAndPrice, BranchingProofs, SequenceTheorems

(* The relation a frame waits for a child of.                              *)
RelationOf(frame) == IF frame.point = "together" THEN "Together" ELSE "Different"

(* The node below which a frame waits.                                     *)
ChildOf(frame) == Child(frame.branching, frame.pair, RelationOf(frame))

(* The frames are a path of the tree: each admits a packing; one that      *)
(* waits branches on a pair that splits its columns; and, below the top    *)
(* one, all wait, each for a child that is above it or an ancestor of what *)
(* is.                                                                     *)
IsPath(s) ==
    /\ \A k \in DOMAIN s : Admitted(s[k].branching) # {}
    /\ \A k \in DOMAIN s : s[k].point # "visit" =>
            s[k].pair \in CoOccurring(s[k].branching) /\ ~Bonded(s[k].branching, s[k].pair)
    /\ \A k, l \in DOMAIN s :
            k < l => s[l].point # "visit" /\ ChildOf(s[l]) \subseteq s[k].branching

(* The inductive invariant.                                                *)
DiveInv ==
    /\ TypeOK
    /\ threw => stack = <<>>
    /\ IsPath(stack)
    /\ BudgetConserved
-----------------------------------------------------------------------------
(* How the stack changes: a frame is taken off or pushed.                  *)
OwedOf(s) == {k \in DOMAIN s : s[k].point = "different"}

LEMMA OwedFacts ==
  ASSUME NEW s \in Seq(Frames)
  PROVE  IsFiniteSet(OwedOf(s)) /\ Cardinality(OwedOf(s)) \in Nat
<1>1. DOMAIN s = 1..Len(s) /\ Len(s) \in Nat
  OBVIOUS
<1>2. IsFiniteSet(DOMAIN s)
  BY <1>1, CountTo
<1> QED
  BY <1>2, FS_Subset, FS_CardinalityType DEF OwedOf

LEMMA PushFacts ==
  ASSUME NEW s \in Seq(Frames), NEW frame \in Frames
  PROVE  /\ <<frame>> \o s \in Seq(Frames)
         /\ Len(<<frame>> \o s) = Len(s) + 1
         /\ (<<frame>> \o s)[1] = frame
         /\ \A k \in DOMAIN s : (<<frame>> \o s)[k + 1] = s[k]
         /\ Cardinality(OwedOf(<<frame>> \o s)) =
                Cardinality(OwedOf(s)) + (IF frame.point = "different" THEN 1 ELSE 0)
<1> DEFINE t == <<frame>> \o s
           above == {k + 1 : k \in OwedOf(s)}
           head == IF frame.point = "different" THEN {1} ELSE {}
<1>1. /\ t \in Seq(Frames) /\ Len(t) = Len(s) + 1 /\ t[1] = frame
      /\ \A k \in DOMAIN s : t[k + 1] = s[k]
      /\ DOMAIN s = 1..Len(s) /\ DOMAIN t = 1..(Len(s) + 1) /\ Len(s) \in Nat
  OBVIOUS
<1> HIDE DEF t
<1>2. OwedOf(t) = above \cup head
  <2>1. ASSUME NEW k \in OwedOf(t) PROVE k \in above \cup head
    <3>1. k \in 1..(Len(s) + 1) /\ t[k].point = "different"
      BY <1>1 DEF OwedOf
    <3>2. CASE k = 1
      BY <1>1, <3>1, <3>2
    <3>3. CASE k # 1
      <4>1. k - 1 \in DOMAIN s /\ k = (k - 1) + 1
        BY <1>1, <3>1, <3>3
      <4>2. s[k - 1].point = "different"
        BY <1>1, <3>1, <4>1
      <4> QED
        BY <4>1, <4>2 DEF OwedOf
    <3> QED
      BY <3>2, <3>3
  <2>2. ASSUME NEW k \in OwedOf(s) PROVE k + 1 \in OwedOf(t)
    BY <1>1 DEF OwedOf
  <2>3. ASSUME frame.point = "different" PROVE 1 \in OwedOf(t)
    BY <1>1, <2>3 DEF OwedOf
  <2> QED
    BY <2>1, <2>2, <2>3
<1>3. IsFiniteSet(OwedOf(s)) /\ Cardinality(OwedOf(s)) \in Nat
  BY OwedFacts
<1>4. \A k \in OwedOf(s) : k \in Nat /\ k >= 1
  BY <1>1 DEF OwedOf
<1>5. IsFiniteSet(above) /\ Cardinality(above) = Cardinality(OwedOf(s))
  <2> DEFINE up == [k \in OwedOf(s) |-> k + 1]
  <2>1. up \in Bijection(OwedOf(s), above)
    BY <1>4 DEF Bijection, Injection, Surjection, IsInjective
  <2> QED
    BY <1>3, <2>1, FS_Bijection DEF ExistsBijection
<1>6. IsFiniteSet(head) /\ Cardinality(head) = IF frame.point = "different" THEN 1 ELSE 0
  BY FS_EmptySet, FS_Singleton
<1>7. above \cap head = {}
  BY <1>4
<1>8. Cardinality(above \cup head) = Cardinality(above) + Cardinality(head)
  <2> HIDE DEF above, head
  <2>1. Cardinality(above) \in Nat /\ Cardinality(head) \in Nat /\ Cardinality({}) = 0
    BY <1>5, <1>6, FS_CardinalityType, FS_EmptySet
  <2>2. Cardinality(above \cup head) =
            Cardinality(above) + Cardinality(head) - Cardinality(above \cap head)
    BY <1>5, <1>6, FS_Union
  <2>3. Cardinality(above \cap head) = 0
    BY <1>7, <2>1
  <2> QED
    BY <2>1, <2>2, <2>3
<1> HIDE DEF above, head
<1>9. Cardinality(OwedOf(t)) =
          Cardinality(OwedOf(s)) + (IF frame.point = "different" THEN 1 ELSE 0)
  BY <1>2, <1>5, <1>6, <1>8
<1> QED
  BY <1>1, <1>9 DEF t

LEMMA PopFacts ==
  ASSUME NEW s \in Seq(Frames), s # <<>>
  PROVE  /\ Tail(s) \in Seq(Frames) /\ Head(s) \in Frames /\ Head(s) = s[1]
         /\ s = <<Head(s)>> \o Tail(s)
         /\ Len(s) = Len(Tail(s)) + 1
         /\ \A k \in DOMAIN Tail(s) : Tail(s)[k] = s[k + 1] /\ k + 1 \in DOMAIN s
         /\ Cardinality(OwedOf(s)) =
                Cardinality(OwedOf(Tail(s)))
                    + (IF Head(s).point = "different" THEN 1 ELSE 0)
<1>1. /\ Tail(s) \in Seq(Frames) /\ Head(s) \in Frames /\ Head(s) = s[1]
      /\ s = <<Head(s)>> \o Tail(s)
      /\ Len(s) = Len(Tail(s)) + 1
      /\ \A k \in DOMAIN Tail(s) : Tail(s)[k] = s[k + 1] /\ k + 1 \in DOMAIN s
  OBVIOUS
<1>2. Cardinality(OwedOf(<<Head(s)>> \o Tail(s))) =
          Cardinality(OwedOf(Tail(s))) + (IF Head(s).point = "different" THEN 1 ELSE 0)
  BY <1>1, PushFacts
<1> QED
  BY <1>1, <1>2

LEMMA PathPush ==
  ASSUME NEW s \in Seq(Frames), NEW frame \in Frames, IsPath(s),
         Admitted(frame.branching) # {},
         frame.point # "visit" =>
             frame.pair \in CoOccurring(frame.branching) /\ ~Bonded(frame.branching, frame.pair),
         \A l \in DOMAIN s : s[l].point # "visit" /\ ChildOf(s[l]) \subseteq frame.branching
  PROVE  IsPath(<<frame>> \o s)
<1> DEFINE t == <<frame>> \o s
<1>1. /\ t[1] = frame /\ DOMAIN s = 1..Len(s) /\ DOMAIN t = 1..(Len(s) + 1) /\ Len(s) \in Nat
      /\ \A k \in DOMAIN s : t[k + 1] = s[k]
  OBVIOUS
<1> HIDE DEF t
<1>2. \A k \in DOMAIN t \ {1} : k - 1 \in DOMAIN s /\ t[k] = s[k - 1]
  <2> TAKE k \in DOMAIN t \ {1}
  <2>1. k - 1 \in DOMAIN s /\ (k - 1) + 1 = k
    BY <1>1
  <2> QED
    BY <1>1, <2>1
<1>3. \A k \in DOMAIN t : k = 1 \/ k \in DOMAIN t \ {1}
  OBVIOUS
<1>4. ASSUME NEW k \in DOMAIN t
      PROVE  /\ Admitted(t[k].branching) # {}
             /\ t[k].point # "visit" =>
                    t[k].pair \in CoOccurring(t[k].branching)
                    /\ ~Bonded(t[k].branching, t[k].pair)
  BY <1>1, <1>2, <1>3 DEF IsPath
<1>5. ASSUME NEW k \in DOMAIN t, NEW l \in DOMAIN t, k < l
      PROVE  t[l].point # "visit" /\ ChildOf(t[l]) \subseteq t[k].branching
  <2>1. l # 1 /\ k \in Int /\ l \in Int
    BY <1>1, <1>5
  <2>2. l - 1 \in DOMAIN s /\ t[l] = s[l - 1]
    BY <1>2, <2>1
  <2>3. CASE k = 1
    BY <1>1, <2>2, <2>3
  <2>4. CASE k # 1
    <3>1. k - 1 \in DOMAIN s /\ t[k] = s[k - 1] /\ k - 1 < l - 1
      BY <1>2, <1>5, <2>1, <2>4
    <3> QED
      BY <2>2, <3>1 DEF IsPath
  <2> QED
    BY <2>3, <2>4
<1>6. IsPath(t)
  BY <1>4, <1>5 DEF IsPath
<1> QED
  BY <1>6 DEF t

LEMMA PathPop ==
  ASSUME NEW s \in Seq(Frames), s # <<>>, IsPath(s)
  PROVE  /\ IsPath(Tail(s))
         /\ Admitted(Head(s).branching) # {}
         /\ Head(s).point # "visit" =>
                Head(s).pair \in CoOccurring(Head(s).branching)
                /\ ~Bonded(Head(s).branching, Head(s).pair)
         /\ \A l \in DOMAIN Tail(s) :
                Tail(s)[l].point # "visit" /\ ChildOf(Tail(s)[l]) \subseteq Head(s).branching
<1> DEFINE t == Tail(s)
<1>1. /\ Head(s) = s[1] /\ 1 \in DOMAIN s /\ DOMAIN t \subseteq Nat \ {0}
      /\ \A k \in DOMAIN t : t[k] = s[k + 1] /\ k + 1 \in DOMAIN s
  BY PopFacts
<1> HIDE DEF t
<1>2. \A k, l \in DOMAIN t : k < l => k + 1 < l + 1
  BY <1>1
<1>3. \A l \in DOMAIN t : 1 < l + 1
  BY <1>1
<1>4. IsPath(t)
  <2>1. ASSUME NEW k \in DOMAIN t, NEW l \in DOMAIN t, k < l
        PROVE  t[l].point # "visit" /\ ChildOf(t[l]) \subseteq t[k].branching
    BY <1>1, <1>2, <2>1 DEF IsPath
  <2>2. ASSUME NEW k \in DOMAIN t
        PROVE  /\ Admitted(t[k].branching) # {}
               /\ t[k].point # "visit" =>
                      t[k].pair \in CoOccurring(t[k].branching)
                      /\ ~Bonded(t[k].branching, t[k].pair)
    BY <1>1, <2>2 DEF IsPath
  <2> QED
    BY <2>1, <2>2 DEF IsPath
<1>5. \A l \in DOMAIN t :
          t[l].point # "visit" /\ ChildOf(t[l]) \subseteq Head(s).branching
  BY <1>1, <1>3 DEF IsPath
<1> QED
  BY <1>1, <1>4, <1>5 DEF IsPath, t

(* The top frame, which visits its node or has waited for it, waits for a  *)
(* child, whose visit is pushed.                                           *)
LEMMA CallFacts ==
  ASSUME TypeOK, IsPath(stack), stack # <<>>,
         NEW b, b = Head(stack).branching,
         NEW p \in CoOccurring(b), ~Bonded(b, p),
         NEW point \in {"together", "different"},
         NEW relation, relation = (IF point = "together" THEN "Together" ELSE "Different"),
         NEW called, called = Call(Child(b, p, relation)) \o <<Frame(point, b, p)>> \o Tail(stack)
  PROVE  /\ called \in Seq(Frames)
         /\ IsPath(called)
         /\ Cardinality(OwedOf(called)) =
                Cardinality(OwedOf(Tail(stack))) + (IF point = "different" THEN 1 ELSE 0)
<1> DEFINE rest == Tail(stack)
           waiting == Frame(point, b, p)
           visit == Frame("visit", Child(b, p, relation), NoPair)
<1>1. stack \in Seq(Frames) /\ Head(stack) \in Frames /\ rest \in Seq(Frames)
  BY PopFacts DEF TypeOK
<1>2. b \in BranchingStates /\ p \in Pairs /\ relation \in Relations
  BY <1>1 DEF Frames, CoOccurring, Relations
<1>3. Child(b, p, relation) \in BranchingStates
  BY <1>2, ChildType
<1>4. waiting \in Frames /\ visit \in Frames
  BY <1>2, <1>3 DEF Frames, Frame
<1>5. /\ waiting.point = point /\ waiting.branching = b /\ waiting.pair = p
      /\ visit.point = "visit" /\ visit.branching = Child(b, p, relation)
      /\ ChildOf(waiting) = Child(b, p, relation)
  BY DEF Frame, ChildOf, RelationOf
<1>6. called = <<visit>> \o (<<waiting>> \o rest)
  BY <1>1, <1>4 DEF Call
<1> HIDE DEF rest, waiting, visit
<1>7. /\ IsPath(rest) /\ Admitted(b) # {}
      /\ \A l \in DOMAIN rest : rest[l].point # "visit" /\ ChildOf(rest[l]) \subseteq b
  BY <1>1, PathPop DEF rest
<1>8. IsPath(<<waiting>> \o rest)
  BY <1>1, <1>4, <1>5, <1>7, PathPush
<1>9. /\ <<waiting>> \o rest \in Seq(Frames)
      /\ Cardinality(OwedOf(<<waiting>> \o rest)) =
             Cardinality(OwedOf(rest)) + (IF point = "different" THEN 1 ELSE 0)
      /\ DOMAIN (<<waiting>> \o rest) = 1..(Len(rest) + 1) /\ Len(rest) \in Nat
      /\ (<<waiting>> \o rest)[1] = waiting
      /\ DOMAIN rest = 1..Len(rest)
      /\ \A k \in DOMAIN rest : (<<waiting>> \o rest)[k + 1] = rest[k]
  BY <1>1, <1>4, <1>5, PushFacts
<1> DEFINE tail == <<waiting>> \o rest
<1> HIDE DEF tail
<1>10. ASSUME NEW l \in DOMAIN tail
       PROVE  tail[l].point # "visit" /\ ChildOf(tail[l]) \subseteq Child(b, p, relation)
  <2>1. b \subseteq Child(b, p, relation)
    BY DEF Child
  <2>2. CASE l = 1
    BY <1>5, <1>9, <2>2 DEF tail
  <2>3. CASE l # 1
    <3>1. l - 1 \in DOMAIN rest /\ (l - 1) + 1 = l
      BY <1>9, <2>3 DEF tail
    <3>2. tail[l] = rest[l - 1]
      BY <1>9, <3>1 DEF tail
    <3> QED
      BY <1>7, <2>1, <3>1, <3>2
  <2> QED
    BY <2>2, <2>3
<1>11. Admitted(Child(b, p, relation)) # {}
  BY <1>2, <1>7, BothChildrenAdmit
<1>12. IsPath(<<visit>> \o tail)
  BY <1>4, <1>5, <1>8, <1>9, <1>10, <1>11, PathPush DEF tail
<1>13. /\ <<visit>> \o tail \in Seq(Frames)
       /\ Cardinality(OwedOf(<<visit>> \o tail)) = Cardinality(OwedOf(tail)) + 0
  BY <1>4, <1>5, <1>9, PushFacts DEF tail
<1>14. Cardinality(OwedOf(tail)) \in Nat /\ Cardinality(OwedOf(rest)) \in Nat
  BY <1>1, <1>9, OwedFacts DEF tail
<1>15. Cardinality(OwedOf(<<visit>> \o tail)) = Cardinality(OwedOf(tail))
  BY <1>13, <1>14
<1>16. called = <<visit>> \o tail
  BY <1>6 DEF tail
<1> QED
  BY <1>9, <1>12, <1>13, <1>15, <1>16 DEF tail, rest
-----------------------------------------------------------------------------
(* Taking the top frame off keeps a path.                                  *)
LEMMA ReturnFacts ==
  ASSUME DiveInv, stack # <<>>, Return
  PROVE  /\ stack' \in Seq(Frames) /\ IsPath(stack')
         /\ Cardinality(Owed) =
                Cardinality(Owed') + (IF Head(stack).point = "different" THEN 1 ELSE 0)
         /\ Cardinality(Owed) \in Nat /\ Cardinality(Owed') \in Nat
  BY PopFacts, PathPop, OwedFacts DEF DiveInv, TypeOK, Return, Owed, OwedOf

LEMMA StartFacts ==
  ASSUME NEW bins \in PackingSizes, Start({}, bins)
  PROVE  DiveInv
<1>1. Frame("visit", {}, NoPair) \in Frames
  BY RootAdmitsAll DEF Frames, Frame
<1>2. stack \in Seq(Frames) /\ DOMAIN stack = {1} /\ stack[1] = Frame("visit", {}, NoPair)
  BY <1>1 DEF Start
<1>3. TypeOK
  BY <1>2, DownBudgetAssumption DEF Start, TypeOK
<1>4. IsPath(stack)
  <2>1. Admitted({}) # {}
    <3>1. PICK P \in Packings : bins = Bins(P)
      BY DEF PackingSizes
    <3> QED
      BY <3>1, RootAdmitsAll DEF Admitted
  <2>2. stack[1].branching = {} /\ stack[1].point = "visit"
    BY <1>2 DEF Frame
  <2>3. \A k, l \in DOMAIN stack : ~(k < l)
    BY <1>2
  <2> QED
    BY <1>2, <2>1, <2>2, <2>3 DEF IsPath
<1>5. BudgetConserved
  <2>1. Owed = {}
    BY <1>2 DEF Owed, Frame
  <2> QED
    BY <2>1, FS_EmptySet, DownBudgetAssumption DEF Start, BudgetConserved
<1> QED
  BY <1>3, <1>4, <1>5 DEF Start, DiveInv

LEMMA DiveInvStep == DiveInv /\ [Next]_vars => DiveInv'
<1> SUFFICES ASSUME DiveInv, [Next]_vars PROVE DiveInv'
  OBVIOUS
<1> USE DEF DiveInv
<1>1. ASSUME NEW point, At(point), point \in {"visit", "together"}, Return,
             UNCHANGED <<down_budget, threw>>, expired' \in BOOLEAN,
             dive_bins' \in PackingSizes
      PROVE  DiveInv'
  <2>1. stack # <<>> /\ Head(stack).point # "different"
    BY <1>1 DEF At
  <2>2. /\ stack' \in Seq(Frames) /\ IsPath(stack')
        /\ Cardinality(Owed) = Cardinality(Owed') + 0
        /\ Cardinality(Owed) \in Nat /\ Cardinality(Owed') \in Nat
    BY <1>1, <2>1, ReturnFacts
  <2>3. Cardinality(Owed') = Cardinality(Owed)
    BY <2>2
  <2> QED
    BY <1>1, <2>1, <2>2, <2>3 DEF TypeOK, BudgetConserved
<1>2. CASE Expire
  BY <1>2 DEF Expire, TypeOK, BudgetConserved, Owed
<1>3. CASE ReturnLate
  BY <1>1, <1>3 DEF ReturnLate, TypeOK
<1>4. CASE SolveNode
  <2> DEFINE b == Head(stack).branching
  <2>1. PICK r \in Answers(b) : /\ dive_bins' = Improve(dive_bins, r.incumbent_bins)
                                /\ Leaf(r) \/ DiveTogether(b, r)
    BY <1>4 DEF SolveNode
  <2>2. r.incumbent_bins \in PackingSizes
        /\ (r.pair # NoPair => r.pair \in CoOccurring(b) /\ ~Bonded(b, r.pair))
    BY DEF Answers
  <2>3. dive_bins' \in PackingSizes
    BY <2>1, <2>2, ImproveFacts DEF TypeOK
  <2>4. At("visit") /\ stack # <<>> /\ UNCHANGED <<down_budget, expired, threw>>
    BY <1>4 DEF SolveNode, At
  <2>5. CASE Leaf(r)
    BY <1>1, <2>3, <2>4, <2>5 DEF Leaf, TypeOK
  <2>6. CASE DiveTogether(b, r)
    <3>1. /\ r.pair \in CoOccurring(b) /\ ~Bonded(b, r.pair)
          /\ stack' = Call(Child(b, r.pair, "Together"))
                          \o <<Frame("together", b, r.pair)>> \o Tail(stack)
      BY <2>2, <2>6 DEF DiveTogether
    <3>2. /\ stack' \in Seq(Frames) /\ IsPath(stack')
          /\ Cardinality(OwedOf(stack')) = Cardinality(OwedOf(Tail(stack))) + 0
      BY <2>4, <3>1, CallFacts
    <3>3. Cardinality(OwedOf(stack)) = Cardinality(OwedOf(Tail(stack))) + 0
      BY <2>4, PopFacts DEF TypeOK, At
    <3>4. Cardinality(Owed') = Cardinality(Owed)
      BY <3>2, <3>3 DEF Owed, OwedOf
    <3> QED
      BY <2>3, <2>4, <3>2, <3>4 DEF TypeOK, BudgetConserved
  <2> QED
    BY <2>1, <2>5, <2>6
<1>5. CASE Throw
  <2>1. stack' \in Seq(Frames) /\ IsPath(stack')
    BY <1>5 DEF Throw, IsPath
  <2> QED
    BY <1>5, <2>1 DEF Throw, TypeOK, BudgetConserved
<1>6. CASE DiveDifferent
  <2> DEFINE b == Head(stack).branching
             p == Head(stack).pair
  <2>1. /\ stack # <<>> /\ Head(stack).point = "together"
        /\ down_budget > 0 /\ down_budget' = down_budget - 1
        /\ stack' = Call(Child(b, p, "Different"))
                        \o <<Frame("different", b, p)>> \o Tail(stack)
        /\ UNCHANGED <<expired, dive_bins, threw>>
    BY <1>6 DEF DiveDifferent, At
  <2>2. p \in CoOccurring(b) /\ ~Bonded(b, p)
    BY <2>1, PathPop DEF TypeOK
  <2>3. /\ stack' \in Seq(Frames) /\ IsPath(stack')
        /\ Cardinality(OwedOf(stack')) = Cardinality(OwedOf(Tail(stack))) + 1
    BY <2>1, <2>2, CallFacts
  <2>4. Cardinality(OwedOf(stack)) = Cardinality(OwedOf(Tail(stack))) + 0
    BY <2>1, PopFacts DEF TypeOK
  <2>5. Cardinality(OwedOf(stack)) \in Nat /\ Cardinality(OwedOf(Tail(stack))) \in Nat
    BY <2>1, PopFacts, OwedFacts DEF TypeOK
  <2>6. Cardinality(Owed') = Cardinality(Owed) + 1 /\ Cardinality(Owed) \in Nat
    <3>1. Cardinality(OwedOf(stack')) = Cardinality(OwedOf(stack)) + 1
      BY <2>3, <2>4, <2>5
    <3> QED
      BY <2>5, <3>1 DEF Owed, OwedOf
  <2>7. TypeOK'
    BY <2>1, <2>3 DEF TypeOK
  <2>8. BudgetConserved'
    BY <2>1, <2>6 DEF TypeOK, BudgetConserved
  <2> QED
    BY <2>1, <2>3, <2>7, <2>8
<1>7. CASE SkipDifferent
  BY <1>1, <1>7 DEF SkipDifferent, TypeOK
<1>8. CASE RestoreBudget
  <2>1. /\ stack # <<>> /\ Head(stack).point = "different" /\ Return
        /\ down_budget' = down_budget + 1 /\ UNCHANGED <<expired, dive_bins, threw>>
    BY <1>8 DEF RestoreBudget, At
  <2>2. /\ stack' \in Seq(Frames) /\ IsPath(stack')
        /\ Cardinality(Owed) = Cardinality(Owed') + 1
        /\ Cardinality(Owed) \in Nat /\ Cardinality(Owed') \in Nat
    BY <2>1, ReturnFacts
  <2>3. TypeOK'
    BY <2>1, <2>2 DEF TypeOK
  <2>4. BudgetConserved'
    BY <2>1, <2>2 DEF TypeOK, BudgetConserved
  <2> QED
    BY <2>1, <2>2, <2>3, <2>4
<1>9. CASE UNCHANGED vars
  BY <1>9 DEF vars, TypeOK, BudgetConserved, Owed
<1> QED
  BY <1>2, <1>3, <1>4, <1>5, <1>6, <1>7, <1>8, <1>9 DEF Next, Dive

LEMMA DiveInvariant == Spec => []DiveInv
<1>1. Init => DiveInv
  BY StartFacts DEF Init
<1> QED
  BY <1>1, DiveInvStep, PTL DEF Spec

(* Every variable of the dive keeps its type.                              *)
THEOREM DivingTypeCorrect == Spec => []TypeOK
<1>1. DiveInv => TypeOK
  BY DEF DiveInv
<1> QED
  BY <1>1, DiveInvariant, PTL

(* Each Different branch that is open holds one unit of the budget, and    *)
(* each way out of it gives the unit back (branch_and_price.cpp,           *)
(* DivingDriver::dive).                                                    *)
THEOREM BudgetIsConserved == Spec => []BudgetConserved
<1>1. DiveInv => BudgetConserved
  BY DEF DiveInv
<1> QED
  BY <1>1, DiveInvariant, PTL

(* A dive never enters a branch that admits no packing: a pair it branches *)
(* on has a column with both items and one with one of them.               *)
THEOREM DivesAreFeasible == Spec => []DiveFeasible
<1>1. DiveInv => DiveFeasible
  BY DEF DiveInv, IsPath, DiveFeasible
<1> QED
  BY <1>1, DiveInvariant, PTL
-----------------------------------------------------------------------------
(* The items a node cannot tell apart form groups; the smallest of a group *)
(* leads it.                                                               *)
Alike(b, i, j) == \A S \in AcceptedPatterns(b) : i \in S <=> j \in S

Leaders(b) == {i \in Items : \A j \in Items : Alike(b, i, j) => i =< j}

Groups(b) == Cardinality(Leaders(b))

LEMMA LeaderFacts ==
  ASSUME NEW b, NEW i \in Items
  PROVE  \E l \in Leaders(b) : Alike(b, i, l)
<1> DEFINE group == {j \in Items : Alike(b, i, j)}
<1>1. i \in group /\ group \in SUBSET Items
  BY DEF Alike
<1>2. IsFiniteSet(group) /\ \A j \in group : j \in Int
  BY <1>1, ItemsFacts, InstanceAssumption
<1>3. PICK l \in group : \A j \in group : l =< j
  <2> HIDE DEF group
  <2> QED
    BY <1>1, <1>2, MinExists
<1>4. \A j \in Items : Alike(b, l, j) => j \in group
  BY DEF Alike
<1> QED
  BY <1>3, <1>4 DEF Leaders

LEMMA GroupsType ==
  ASSUME NEW b
  PROVE  /\ IsFiniteSet(Leaders(b))
         /\ Groups(b) \in Nat /\ Groups(b) =< Cardinality(Items)
         /\ Items # {} => Groups(b) >= 1
<1>1. IsFiniteSet(Leaders(b)) /\ Groups(b) \in Nat /\ Groups(b) =< Cardinality(Items)
  BY ItemsFacts, FS_Subset DEF Leaders, Groups
<1>2. ASSUME Items # {} PROVE Groups(b) # 0
  <2>1. Leaders(b) # {}
    BY <1>2, LeaderFacts
  <2> QED
    BY <1>1, <2>1, FS_EmptySet DEF Groups
<1> QED
  BY <1>1, <1>2

(* Below the Together child of a pair that is not bonded yet there are     *)
(* fewer groups: one of the two leaders loses its group.                   *)
LEMMA GroupsMerge ==
  ASSUME NEW b, NEW p \in Pairs, ~Bonded(b, p), NEW c, Child(b, p, "Together") \subseteq c
  PROVE  Groups(c) < Groups(b)
<1> DEFINE together == [pair |-> p, relation |-> "Together"]
<1>1. p[1] \in Items /\ p[2] \in Items /\ Items \subseteq Nat
  BY InstanceAssumption DEF Pairs
<1>2. \A S \in AcceptedPatterns(c) : S \in AcceptedPatterns(b) /\ (p[1] \in S <=> p[2] \in S)
  BY DEF AcceptedPatterns, Accepts, Child, ConstraintAccepts
<1>3. \A i, j : Alike(b, i, j) => Alike(c, i, j)
  BY <1>2 DEF Alike
<1>4. Alike(c, p[1], p[2]) /\ ~Alike(b, p[1], p[2])
  BY <1>2 DEF Alike, Bonded
<1>5. Leaders(c) \subseteq Leaders(b)
  BY <1>3 DEF Leaders
<1>6. PICK k \in Leaders(b) : Alike(b, p[1], k)
  BY <1>1, LeaderFacts
<1>7. PICK l \in Leaders(b) : Alike(b, p[2], l)
  BY <1>1, LeaderFacts
<1>8. k # l
  BY <1>4, <1>6, <1>7 DEF Alike
<1>9. Alike(c, k, l) /\ Alike(c, l, k)
  BY <1>3, <1>4, <1>6, <1>7 DEF Alike
<1>10. k \notin Leaders(c) \/ l \notin Leaders(c)
  <2>1. k \in Items /\ l \in Items /\ k \in Nat /\ l \in Nat
    BY <1>1, <1>6, <1>7 DEF Leaders
  <2> QED
    BY <1>8, <1>9, <2>1 DEF Leaders
<1>11. Leaders(c) # Leaders(b)
  BY <1>6, <1>7, <1>10
<1>12. /\ Groups(c) \in Nat /\ Groups(b) \in Nat
       /\ IsFiniteSet(Leaders(b))
  BY GroupsType
<1>13. Groups(c) =< Groups(b) /\ Groups(c) # Groups(b)
  BY <1>5, <1>11, <1>12, FS_Subset DEF Groups
<1> QED
  BY <1>12, <1>13

(* The frames that wait for a Together child have different numbers of     *)
(* groups, and two at least.                                               *)
LEMMA FewTogether ==
  ASSUME DiveInv, Items # {},
         NEW W, W = {k \in DOMAIN stack : stack[k].point = "together"}
  PROVE  IsFiniteSet(W) /\ Cardinality(W) \in Nat /\ Cardinality(W) + 1 =< Cardinality(Items)
<1> DEFINE n == Cardinality(Items)
           groups == [k \in W |-> Groups(stack[k].branching) - 1]
<1> USE DEF DiveInv
<1>1. n \in Nat
  BY ItemsFacts
<1>2. ASSUME NEW k \in W
      PROVE  /\ stack[k].pair \in Pairs
             /\ ~Bonded(stack[k].branching, stack[k].pair)
             /\ ChildOf(stack[k]) = Child(stack[k].branching, stack[k].pair, "Together")
  BY DEF IsPath, CoOccurring, ChildOf, RelationOf
<1>3. ASSUME NEW k \in W PROVE groups[k] \in 1..(n - 1)
  <2>1. Groups(ChildOf(stack[k])) < Groups(stack[k].branching)
    BY <1>2, GroupsMerge
  <2>2. /\ Groups(ChildOf(stack[k])) \in Nat /\ Groups(ChildOf(stack[k])) >= 1
        /\ Groups(stack[k].branching) \in Nat /\ Groups(stack[k].branching) =< n
    BY GroupsType
  <2> QED
    BY <1>1, <2>1, <2>2
<1>4. ASSUME NEW k \in W, NEW l \in W, k # l PROVE groups[k] # groups[l]
  <2>1. k \in Nat /\ l \in Nat
    BY DEF TypeOK
  <2>2. \A b : Groups(b) \in Int
    BY GroupsType
  <2>3. ASSUME NEW i \in W, NEW j \in W, i < j
        PROVE  Groups(stack[i].branching) < Groups(stack[j].branching)
    <3>1. ChildOf(stack[j]) \subseteq stack[i].branching
      BY <2>3 DEF IsPath
    <3> QED
      BY <1>2, <3>1, GroupsMerge
  <2>4. CASE k < l
    BY <2>2, <2>3, <2>4
  <2>5. CASE l < k
    BY <2>2, <2>3, <2>5
  <2> QED
    BY <1>4, <2>1, <2>4, <2>5
<1>5. groups \in Injection(W, 1..(n - 1))
  <2>1. \A k \in W : groups[k] \in 1..(n - 1)
    BY <1>3
  <2>2. groups = [k \in W |-> groups[k]]
    OBVIOUS
  <2> HIDE DEF groups
  <2>3. groups \in [W -> 1..(n - 1)]
    BY <2>1, <2>2
  <2>4. \A k, l \in W : groups[k] = groups[l] => k = l
    BY <1>4
  <2> QED
    BY <2>3, <2>4 DEF Injection, IsInjective
<1>6. n >= 1
  BY <1>1, ItemsFacts, FS_EmptySet
<1>7. IsFiniteSet(1..(n - 1)) /\ Cardinality(1..(n - 1)) = n - 1
  BY <1>1, <1>6, CountTo
<1>8. IsFiniteSet(W) /\ Cardinality(W) =< n - 1
  BY <1>5, <1>7, FS_Injection
<1> QED
  BY <1>1, <1>8, FS_CardinalityType

LEMMA StackIsShallow == DiveInv => ShallowStack
<1> SUFFICES ASSUME DiveInv PROVE ShallowStack
  OBVIOUS
<1> USE DEF DiveInv
<1> DEFINE W == {k \in DOMAIN stack : stack[k].point = "together"}
           n == Cardinality(Items)
<1>1. /\ DOMAIN stack = 1..Len(stack) /\ Len(stack) \in Nat /\ n \in Nat
      /\ \A k \in DOMAIN stack : stack[k].point \in {"visit", "together", "different"}
  <2>1. stack \in Seq(Frames) /\ n \in Nat
    BY ItemsFacts DEF TypeOK
  <2>2. \A k \in DOMAIN stack : stack[k] \in Frames
    BY <2>1
  <2>3. \A k \in DOMAIN stack : stack[k].point \in {"visit", "together", "different"}
    BY <2>2 DEF Frames
  <2>4. DOMAIN stack = 1..Len(stack) /\ Len(stack) \in Nat
    BY <2>1
  <2> QED
    BY <2>1, <2>3, <2>4
<1>2. DOMAIN stack \subseteq {1} \cup (W \cup Owed)
  <2>1. \A k \in DOMAIN stack : k = 1 \/ (1 \in DOMAIN stack /\ 1 < k)
    BY <1>1
  <2> QED
    BY <1>1, <2>1 DEF IsPath, Owed
<1>3. IsFiniteSet(Owed) /\ Cardinality(Owed) \in Nat /\ Cardinality(Owed) =< diving_down_budget
  <2>1. IsFiniteSet(Owed) /\ Cardinality(Owed) \in Nat
    BY OwedFacts DEF Owed, OwedOf, TypeOK
  <2>2. CASE threw
    <3>1. Owed = {}
      BY <2>2 DEF Owed
    <3> QED
      BY <2>1, <3>1, FS_EmptySet, DownBudgetAssumption
  <2>3. CASE ~threw
    BY <2>1, <2>3, DownBudgetAssumption DEF BudgetConserved, TypeOK
  <2> QED
    BY <2>1, <2>2, <2>3
<1>4. ASSUME NEW A, NEW B, IsFiniteSet(A), IsFiniteSet(B)
      PROVE  IsFiniteSet(A \cup B) /\ Cardinality(A \cup B) =< Cardinality(A) + Cardinality(B)
  <2>1. /\ IsFiniteSet(A \cup B) /\ IsFiniteSet(A \cap B)
        /\ Cardinality(A \cup B) = Cardinality(A) + Cardinality(B) - Cardinality(A \cap B)
    BY <1>4, FS_Union, FS_Intersection
  <2>2. Cardinality(A) \in Nat /\ Cardinality(B) \in Nat /\ Cardinality(A \cap B) \in Nat
    BY <1>4, <2>1, FS_CardinalityType
  <2> QED
    BY <2>1, <2>2
<1>5. ASSUME NEW m \in Nat, IsFiniteSet(W), Cardinality(W) \in Nat, Cardinality(W) =< m
      PROVE  Len(stack) =< 1 + m + diving_down_budget
  <2> HIDE DEF W
  <2>1. IsFiniteSet({1}) /\ Cardinality({1}) = 1
    BY FS_Singleton
  <2>2. IsFiniteSet(W \cup Owed) /\ Cardinality(W \cup Owed) =< Cardinality(W) + Cardinality(Owed)
    BY <1>3, <1>4, <1>5
  <2>3. /\ IsFiniteSet({1} \cup (W \cup Owed))
        /\ Cardinality({1} \cup (W \cup Owed)) =< 1 + Cardinality(W \cup Owed)
    BY <1>4, <2>1, <2>2
  <2>4. Len(stack) =< Cardinality({1} \cup (W \cup Owed))
    BY <1>1, <1>2, <2>3, CountTo, FS_Subset
  <2>5. Cardinality(W \cup Owed) \in Nat /\ Cardinality({1} \cup (W \cup Owed)) \in Nat
    BY <2>2, <2>3, FS_CardinalityType
  <2> QED
    BY <1>1, <1>3, <1>5, <2>2, <2>3, <2>4, <2>5, DownBudgetAssumption
<1>6. CASE Items # {}
  <2>1. IsFiniteSet(W) /\ Cardinality(W) \in Nat /\ Cardinality(W) + 1 =< n
    BY <1>6, FewTogether
  <2>2. n - 1 \in Nat /\ Cardinality(W) =< n - 1
    BY <1>1, <2>1
  <2>3. Len(stack) =< 1 + (n - 1) + diving_down_budget
    BY <1>5, <2>1, <2>2
  <2> QED
    BY <1>1, <2>3, DownBudgetAssumption DEF ShallowStack
<1>7. CASE Items = {}
  <2>1. Pairs = {}
    BY <1>7 DEF Pairs
  <2>2. \A k \in DOMAIN stack : stack[k].point = "visit"
    BY <2>1 DEF IsPath, CoOccurring
  <2>3. ~(2 \in DOMAIN stack)
    <3>1. 2 \in DOMAIN stack => 1 \in DOMAIN stack /\ 1 < 2
      BY <1>1
    <3> QED
      BY <2>2, <3>1 DEF IsPath
  <2>4. Len(stack) =< 1
    BY <1>1, <2>3
  <2> QED
    BY <1>1, <2>4, DownBudgetAssumption DEF ShallowStack
<1> QED
  BY <1>6, <1>7

(* The recursion of a dive is no deeper than the items and the budget      *)
(* together: an overflow of the program's stack is out of question.        *)
THEOREM DivesAreShallow == Spec => []ShallowStack
<1> QED
  BY StackIsShallow, DiveInvariant, PTL
-----------------------------------------------------------------------------
(* The packings the contract of the main search speaks of are these.       *)
LEMMA SamePackings ==
  /\ Main!PackingSizes = PackingSizes
  /\ \A n, sizes : Main!Holds(n, sizes) <=>
        \A P \in Packings : Bins(P) < n => Bins(P) \in sizes
<1>1. Main!Load = Load
  BY DEF Main!Load, Load
<1>2. Main!Packings = Packings
  BY <1>1 DEF Main!Packings, Packings, Main!BinsOf, BinsOf, Main!Patterns, Patterns
<1>3. \A P : Main!Bins(P) = Bins(P)
  BY DEF Main!Bins, Bins, Main!Cardinality, Cardinality
<1> QED
  BY <1>2, <1>3 DEF Main!PackingSizes, PackingSizes, Main!Holds

(* What the answer of the main search says, now and after the dive.        *)
Certificate ==
    /\ incumbent_bins \in PackingSizes
    /\ optimal =>
        /\ Main!Holds(incumbent_bins, missed)
        /\ lower_bound = incumbent_bins \/ incumbent_bins \in missed
    /\ lower_bound # Main!NoBound => Main!Sound(lower_bound, incumbent_bins, missed)
    /\ status = "running" => optimal = FALSE /\ lower_bound = Main!NoBound
    /\ outcome \in {"dive", "returned"} => status = "answered"

(* The inductive invariant of the whole call.                              *)
SolveInv == DiveInv /\ Certificate

LEMMA MainSearchKeeps == Certificate /\ MainSearch => Certificate'
<1> SUFFICES ASSUME Certificate, MainSearch PROVE Certificate'
  OBVIOUS
<1> USE DEF Certificate
<1>1. Main!Next /\ outcome' = "search"
  BY DEF MainSearch
<1>2. CASE Main!Better
  BY <1>1, <1>2, SamePackings DEF Main!Better
<1>3. CASE Main!AnswerOptimal
  <2>1. /\ incumbent_bins' \in PackingSizes /\ lower_bound' = incumbent_bins'
        /\ Main!Holds(incumbent_bins', missed') /\ status' = "answered"
    BY <1>3, SamePackings DEF Main!AnswerOptimal
  <2> QED
    BY <1>1, <2>1 DEF Main!Sound
<1>4. CASE Main!AnswerPartial
  BY <1>1, <1>4, SamePackings DEF Main!AnswerPartial
<1>5. CASE Main!Throw
  BY <1>1, <1>5 DEF Main!Throw
<1> QED
  BY <1>1, <1>2, <1>3, <1>4, <1>5 DEF Main!Next

(* The merge with the dive: the incumbent only improves, and one that      *)
(* improves on an optimal answer is among those left out.                  *)
LEMMA AdoptKeeps == SolveInv /\ Adopt => Certificate'
<1> SUFFICES ASSUME SolveInv, Adopt PROVE Certificate'
  OBVIOUS
<1> USE DEF SolveInv, Certificate
<1>1. dive_bins \in PackingSizes
  BY DEF DiveInv, TypeOK
<1>2. /\ incumbent_bins' \in PackingSizes /\ incumbent_bins' =< incumbent_bins
      /\ incumbent_bins \in Nat /\ incumbent_bins' \in Nat
  BY <1>1, ImproveFacts, PackingSizesType DEF Adopt
<1>3. UNCHANGED <<status, optimal, lower_bound, missed>> /\ status = "answered"
  BY DEF Adopt
<1>4. PICK P \in Packings : Bins(P) = incumbent_bins'
  BY <1>2 DEF PackingSizes
<1>5. Main!Holds(incumbent_bins, missed) => Main!Holds(incumbent_bins', missed')
  BY <1>2, <1>3, SamePackings, BinsType
<1>6. ASSUME Main!Holds(incumbent_bins, missed)
      PROVE  incumbent_bins' = incumbent_bins \/ incumbent_bins' \in missed
  BY <1>2, <1>4, <1>6, SamePackings
<1>7. optimal' => /\ Main!Holds(incumbent_bins', missed')
                  /\ lower_bound' = incumbent_bins' \/ incumbent_bins' \in missed'
  BY <1>3, <1>5, <1>6
<1>8. lower_bound' # Main!NoBound => Main!Sound(lower_bound', incumbent_bins', missed')
  <2>1. Main!Holds(lower_bound, missed) => Main!Holds(lower_bound', missed')
    BY <1>3, SamePackings
  <2> QED
    BY <1>3, <1>5, <2>1 DEF Main!Sound
<1> QED
  BY <1>2, <1>3, <1>7, <1>8

LEMMA SolveInvariant == SolveSpec => []SolveInv
<1>1. SolveInit => SolveInv
  <2> SUFFICES ASSUME SolveInit PROVE SolveInv
    OBVIOUS
  <2>1. incumbent_bins \in PackingSizes
    BY SamePackings DEF SolveInit, Main!Init
  <2>2. DiveInv
    BY <2>1, StartFacts DEF SolveInit
  <2> QED
    BY <2>1, <2>2 DEF SolveInit, Main!Init, SolveInv, Certificate
<1>2. SolveInv /\ [Step]_allvars => SolveInv'
  <2> SUFFICES ASSUME SolveInv, [Step]_allvars PROVE SolveInv'
    OBVIOUS
  <2>1. ASSUME UNCHANGED vars PROVE DiveInv'
    BY <2>1, DiveInvStep DEF SolveInv
  <2>2. ASSUME UNCHANGED result, outcome' \in {"dive", "returned"} => status = "answered"
        PROVE  Certificate'
    BY <2>2, SamePackings DEF SolveInv, Certificate, result, Main!Sound
  <2>3. CASE MainSearch
    BY <2>1, <2>3, MainSearchKeeps DEF SolveInv, MainSearch
  <2>4. CASE Rethrow
    BY <2>1, <2>2, <2>4 DEF SolveInv, Rethrow
  <2>5. CASE StartDive
    <3>1. dive_bins' \in PackingSizes /\ UNCHANGED <<stack, down_budget, expired, threw>>
      BY <2>5 DEF StartDive, SolveInv, Certificate
    <3>2. DiveInv'
      BY <3>1 DEF SolveInv, DiveInv, TypeOK, BudgetConserved, Owed
    <3> QED
      BY <2>2, <2>5, <3>2 DEF StartDive, SolveInv
  <2>6. CASE ReturnSearch
    BY <2>1, <2>2, <2>6 DEF SolveInv, ReturnSearch
  <2>7. CASE DiveStep
    <3>1. DiveInv'
      BY <2>7, DiveInvStep DEF DiveStep, SolveInv
    <3> QED
      BY <2>2, <2>7, <3>1 DEF DiveStep, SolveInv, Certificate
  <2>8. CASE Adopt
    <3>1. UNCHANGED vars
      BY <2>8 DEF Adopt
    <3> QED
      BY <2>1, <2>8, <3>1, AdoptKeeps DEF SolveInv
  <2>9. CASE UNCHANGED allvars
    BY <2>1, <2>2, <2>9 DEF allvars, SolveInv, Certificate
  <2> QED
    BY <2>3, <2>4, <2>5, <2>6, <2>7, <2>8, <2>9 DEF Step
<1> QED
  BY <1>1, <1>2, PTL DEF SolveSpec

(* The facts about a dive hold of the dive the whole call makes, too.      *)
THEOREM DiveWithinTheSolve ==
  SolveSpec => [](TypeOK /\ BudgetConserved /\ DiveFeasible /\ ShallowStack)
<1>1. SolveInv => TypeOK /\ BudgetConserved /\ DiveFeasible /\ ShallowStack
  BY StackIsShallow DEF SolveInv, DiveInv, IsPath, DiveFeasible
<1> QED
  BY <1>1, SolveInvariant, PTL

(* Only packings the main search left out can beat what the caller reads   *)
(* as optimal, whatever the dive found (branch_and_price.cpp:284-299).     *)
THEOREM FinalCertificateHolds == SolveSpec => []FinalCertificate
<1>1. SolveInv => FinalCertificate
  BY DEF SolveInv, Certificate, FinalCertificate
<1> QED
  BY <1>1, SolveInvariant, PTL

(* The lower bound the caller reads stays sound beside the incumbent that  *)
(* the dive brought back.                                                  *)
THEOREM FinalBoundIsSound == SolveSpec => []FinalBoundSound
<1>1. SolveInv => FinalBoundSound
  BY DEF SolveInv, Certificate, FinalBoundSound
<1> QED
  BY <1>1, SolveInvariant, PTL
=============================================================================

-------------------------- MODULE DepthFirstProofs --------------------------
(***************************************************************************)
(* Theorems of DepthFirst, for every instance and every node budget, also  *)
(* when nodes may stall.                                                   *)
(***************************************************************************)
EXTENDS DepthFirst, BranchingProofs

(* Some frame of s still has to visit a node that admits P.                *)
Waiting(s, P) == \E k \in DOMAIN s : Admits(s[k].branching, P)

LEMMA HeadAndTail ==
  ASSUME NEW s \in Seq(Frames), s # <<>>
  PROVE  /\ Head(s) \in Frames /\ Tail(s) \in Seq(Frames)
         /\ \A P : Waiting(s, P) =>
                Admits(Head(s).branching, P) \/ Waiting(Tail(s), P)
<1>1. Head(s) \in Frames /\ Head(s) = s[1] /\ Tail(s) \in Seq(Frames)
  OBVIOUS
<1>2. ASSUME NEW k \in DOMAIN s, k # 1
      PROVE  k - 1 \in DOMAIN Tail(s) /\ Tail(s)[k - 1] = s[k]
  BY <1>2
<1> QED
  BY <1>1, <1>2 DEF Waiting

LEMMA OnTop ==
  ASSUME NEW t \in Seq(Frames), NEW f \in Frames
  PROVE  /\ <<f>> \o t \in Seq(Frames)
         /\ \A P : Admits(f.branching, P) \/ Waiting(t, P) => Waiting(<<f>> \o t, P)
<1>1. <<f>> \o t \in Seq(Frames) /\ 1 \in DOMAIN (<<f>> \o t) /\ (<<f>> \o t)[1] = f
  OBVIOUS
<1>2. ASSUME NEW k \in DOMAIN t
      PROVE  k + 1 \in DOMAIN (<<f>> \o t) /\ (<<f>> \o t)[k + 1] = t[k]
  BY <1>2
<1> QED
  BY <1>1, <1>2 DEF Waiting

LEMMA TwoOnTop ==
  ASSUME NEW t \in Seq(Frames), NEW f \in Frames, NEW g \in Frames
  PROVE  /\ <<f, g>> \o t \in Seq(Frames)
         /\ \A P : \/ Admits(f.branching, P) \/ Admits(g.branching, P) \/ Waiting(t, P)
                   => Waiting(<<f, g>> \o t, P)
<1> DEFINE s == <<f, g>> \o t
<1>1. /\ s \in Seq(Frames) /\ 1 \in DOMAIN s /\ 2 \in DOMAIN s
      /\ s[1] = f /\ s[2] = g
  OBVIOUS
<1>2. ASSUME NEW k \in DOMAIN t
      PROVE  k + 2 \in DOMAIN s /\ s[k + 2] = t[k]
  BY <1>2
<1> HIDE DEF s
<1>3. \A P : \/ Admits(f.branching, P) \/ Admits(g.branching, P) \/ Waiting(t, P)
             => Waiting(s, P)
  BY <1>1, <1>2 DEF Waiting
<1> QED
  BY <1>1, <1>3 DEF s

LEMMA SolvedFacts ==
  ASSUME NEW b \in BranchingStates, NEW r \in Relaxations(b), TypeOK, Solved(r)
  PROVE  /\ incumbent_bins' \in PackingSizes
         /\ incumbent_bins' =< incumbent_bins
         /\ incumbent_bins' =< r.incumbent_bins
         /\ processed_nodes' \in Nat
<1>1. r.incumbent_bins \in PackingSizes
  BY RelaxationFacts
<1> QED
  BY <1>1, ImproveFacts DEF Solved, TypeOK

(* The two frames a branching leaves in place of its own.                  *)
LEMMA BranchFrames ==
  ASSUME NEW b \in BranchingStates, NEW r \in Relaxations(b), r.pair # NoPair
  PROVE  /\ Visit(Child(b, r.pair, "Together")) \in Frames
         /\ Resume(Child(b, r.pair, "Different")) \in Frames
         /\ \A P \in Packings : Admits(b, P) =>
                \/ Admits(Visit(Child(b, r.pair, "Together")).branching, P)
                \/ Admits(Resume(Child(b, r.pair, "Different")).branching, P)
<1>1. r.pair \in Pairs
  BY RelaxationFacts
<1>2. /\ Child(b, r.pair, "Together") \in BranchingStates
      /\ Child(b, r.pair, "Different") \in BranchingStates
  BY <1>1, ChildType DEF Relations
<1> QED
  BY <1>1, <1>2, SomeChildAdmits DEF Visit, Resume, Frames
-----------------------------------------------------------------------------
(* Every variable keeps its type.                                          *)
THEOREM TypeCorrect == Spec => []TypeOK
<1>1. Init => TypeOK
  <2> SUFFICES ASSUME Init PROVE TypeOK
    OBVIOUS
  <2>1. Visit({}) \in Frames
    BY RootAdmitsAll DEF Visit, Frames
  <2>2. stack \in Seq(Frames)
    BY <2>1 DEF Init
  <2>3. complete \in BOOLEAN /\ optimal \in BOOLEAN
    BY DEF Init
  <2>4. processed_nodes \in Nat /\ generated_nodes \in Nat /\ pruned_nodes \in Nat
    BY DEF Init
  <2> QED
    BY <2>2, <2>3, <2>4 DEF Init, TypeOK
<1>2. TypeOK /\ [Next]_vars => TypeOK'
  <2> SUFFICES ASSUME TypeOK, [Next]_vars PROVE TypeOK'
    OBVIOUS
  <2> USE DEF TypeOK
  <2>1. CASE GiveUp
    BY <2>1, HeadAndTail DEF GiveUp, counters, answer
  <2>2. CASE EnterDifferent
    <3>1. Head(stack) \in Frames /\ Tail(stack) \in Seq(Frames)
      BY <2>2, HeadAndTail DEF EnterDifferent, At
    <3>2. Visit(Head(stack).branching) \in Frames
      BY <3>1 DEF Visit, Frames
    <3>3. stack' \in Seq(Frames)
      BY <2>2, <3>1, <3>2, OnTop DEF EnterDifferent
    <3> QED
      BY <2>2, <3>3 DEF EnterDifferent, counters, answer
  <2>3. CASE SolveNode
    <3> DEFINE b == Head(stack).branching
    <3>1. b \in BranchingStates /\ Tail(stack) \in Seq(Frames)
      BY <2>3, HeadAndTail DEF SolveNode, At, Frames
    <3>2. PICK r \in Relaxations(b) :
             Solved(r) /\ (Stall(r) \/ Prune(r) \/ Integral(b, r) \/ Branch(b, r))
      BY <2>3 DEF SolveNode
    <3> HIDE DEF b
    <3>3. incumbent_bins' \in PackingSizes /\ processed_nodes' \in Nat
      BY <3>1, <3>2, SolvedFacts
    <3>4. UNCHANGED <<pc, optimal, lower_bound>>
      BY <2>3 DEF SolveNode, answer
    <3>5. CASE Stall(r)
      <4>1. complete' = FALSE /\ UNCHANGED <<generated_nodes, pruned_nodes, missed>>
            /\ stack' \in Seq(Frames)
        BY <3>1, <3>5 DEF Stall
      <4> QED
        BY <3>3, <3>4, <4>1
    <3>6. CASE Prune(r) \/ Integral(b, r)
      <4>1. pruned_nodes' \in Nat /\ UNCHANGED <<complete, generated_nodes>>
            /\ stack' \in Seq(Frames) /\ missed' \subseteq Packings
        BY <3>1, <3>6, GivenUpAreAdmitted DEF Prune, Integral
      <4> QED
        BY <3>3, <3>4, <4>1
    <3>7. CASE Branch(b, r)
      <4>1. stack' \in Seq(Frames)
        BY <3>1, <3>7, BranchFrames, TwoOnTop DEF Branch
      <4> QED
        BY <3>3, <3>4, <3>7, <4>1 DEF Branch
    <3> QED
      BY <3>2, <3>5, <3>6, <3>7
  <2>4. CASE Throw
    BY <2>4 DEF Throw, counters, answer
  <2>5. CASE Finish
    BY <2>5 DEF Finish, counters
  <2>6. CASE UNCHANGED vars
    BY <2>6 DEF vars, counters, answer
  <2> QED
    BY <2>1, <2>2, <2>3, <2>4, <2>5, <2>6 DEF Next
<1> QED
  BY <1>1, <1>2, PTL DEF Spec
-----------------------------------------------------------------------------
(* Coverage with what makes it inductive: no answer is written before the  *)
(* end, and the answer is what the flag says.                              *)
Correct ==
    /\ Coverage
    /\ OptimalIsOptimal
    /\ pc # "answered" => optimal = FALSE /\ lower_bound = NoBound
    /\ ~optimal => lower_bound = NoBound

(* A node the search has solved is done with, or its children wait, or it  *)
(* is given up.                                                            *)
LEMMA CoverageOfNode ==
  ASSUME TypeOK, Coverage, SolveNode, complete',
         NEW P \in Packings, P \notin missed', Bins(P) < incumbent_bins'
  PROVE  Waiting(stack', P)
<1> DEFINE b == Head(stack).branching
<1>1. PICK r \in Relaxations(b) :
         Solved(r) /\ (Stall(r) \/ Prune(r) \/ Integral(b, r) \/ Branch(b, r))
  BY DEF SolveNode
<1>2. /\ b \in BranchingStates /\ Tail(stack) \in Seq(Frames)
      /\ Waiting(stack, P) => Admits(b, P) \/ Waiting(Tail(stack), P)
  BY HeadAndTail DEF TypeOK, Frames, SolveNode, At
<1> HIDE DEF b
<1>3. /\ incumbent_bins \in Nat /\ incumbent_bins' \in Nat
      /\ incumbent_bins' =< incumbent_bins
      /\ incumbent_bins' =< r.incumbent_bins
      /\ r.incumbent_bins \in Nat
  BY <1>1, <1>2, SolvedFacts, RelaxationFacts, PackingSizesType DEF TypeOK
<1>4. /\ r.safe_bound \in Nat
      /\ Admits(b, P) => r.safe_bound =< Bins(P)
  BY <1>2, RelaxationFacts
<1>5. Bins(P) \in Nat
  BY BinsType
<1>6. complete /\ P \notin missed => Admits(b, P) \/ Waiting(Tail(stack), P)
  <2>1. Bins(P) < incumbent_bins /\ pc = "search"
    BY <1>3, <1>5 DEF SolveNode, At
  <2> QED
    BY <1>2, <2>1 DEF Coverage, Waiting
<1>7. CASE Stall(r)
  BY <1>7 DEF Stall
<1>8. CASE Prune(r)
  <2>1. ~Admits(b, P)
    BY <1>3, <1>4, <1>5, <1>8 DEF Prune, CanPrune
  <2> QED
    BY <1>6, <1>8, <2>1 DEF Prune
<1>9. CASE Integral(b, r)
  <2>1. ~Admits(b, P) /\ P \notin missed
    BY <1>9 DEF Integral, GivenUp, Admitted
  <2> QED
    BY <1>6, <1>9, <2>1 DEF Integral
<1>10. CASE Branch(b, r)
  <2>1. r.pair # NoPair /\ complete /\ P \notin missed
    BY <1>10 DEF Branch
  <2>2. stack' = <<Visit(Child(b, r.pair, "Together")),
                   Resume(Child(b, r.pair, "Different"))>> \o Tail(stack)
    BY <1>10 DEF Branch
  <2> QED
    BY <1>2, <1>6, <2>1, <2>2, BranchFrames, TwoOnTop
<1> QED
  BY <1>1, <1>7, <1>8, <1>9, <1>10

LEMMA CorrectStep ==
  ASSUME TypeOK, Correct, [Next]_vars
  PROVE  Correct'
<1> USE DEF Correct
<1>1. CASE GiveUp
  BY <1>1 DEF GiveUp, counters, answer, Coverage, OptimalIsOptimal
<1>2. CASE EnterDifferent
  <2>1. /\ Head(stack) \in Frames /\ Tail(stack) \in Seq(Frames)
        /\ \A P : Waiting(stack, P) =>
                Admits(Head(stack).branching, P) \/ Waiting(Tail(stack), P)
    BY <1>2, HeadAndTail DEF EnterDifferent, At, TypeOK
  <2>2. Visit(Head(stack).branching) \in Frames
        /\ Visit(Head(stack).branching).branching = Head(stack).branching
    BY <2>1 DEF Visit, Frames
  <2>3. \A P : Waiting(stack, P) => Waiting(stack', P)
    BY <1>2, <2>1, <2>2, OnTop DEF EnterDifferent
  <2>4. Coverage'
    BY <1>2, <2>3 DEF EnterDifferent, Coverage, Waiting
  <2> QED
    BY <1>2, <2>4 DEF EnterDifferent, answer, OptimalIsOptimal
<1>3. CASE SolveNode
  <2>1. Coverage'
    BY <1>3, CoverageOfNode DEF Coverage, Waiting
  <2>2. pc = "search" /\ UNCHANGED <<pc, optimal, lower_bound>>
    BY <1>3 DEF SolveNode, At, answer
  <2> QED
    BY <2>1, <2>2 DEF OptimalIsOptimal
<1>4. CASE Throw
  BY <1>4 DEF Throw, At, answer, counters, Coverage, OptimalIsOptimal
<1>5. CASE Finish
  <2>1. complete => BoundsAllBut(incumbent_bins, missed)
    BY <1>5, BinsType, PackingSizesType
    DEF Finish, Coverage, BoundsAllBut, TypeOK
  <2>2. CASE complete
    BY <1>5, <2>1, <2>2 DEF Finish, Coverage, OptimalIsOptimal
  <2>3. CASE ~complete
    BY <1>5, <2>3 DEF Finish, Coverage, OptimalIsOptimal, TypeOK
  <2> QED
    BY <2>2, <2>3
<1>6. CASE UNCHANGED vars
  BY <1>6 DEF vars, counters, answer, Coverage, OptimalIsOptimal
<1> QED
  BY <1>1, <1>2, <1>3, <1>4, <1>5, <1>6 DEF Next

LEMMA CorrectAlways == Spec => []Correct
<1>1. Init => Correct
  <2> SUFFICES ASSUME Init PROVE Correct
    OBVIOUS
  <2>1. stack = <<Visit({})>> /\ DOMAIN stack = {1}
    BY DEF Init
  <2>2. Coverage
    BY <2>1, RootAdmitsAll DEF Coverage, Visit
  <2> QED
    BY <2>2 DEF Init, Correct, OptimalIsOptimal
<1>2. TypeOK /\ Correct /\ [Next]_vars => Correct'
  BY CorrectStep
<1> QED
  BY <1>1, <1>2, TypeCorrect, PTL DEF Spec

(* While complete_ holds, no improving packing is lost but those given up  *)
(* at nodes closed as integral (branch_and_price.cpp:194-234).             *)
THEOREM CoverageCorrect == Spec => []Coverage
<1>1. Correct => Coverage
  BY DEF Correct
<1> QED
  BY <1>1, CorrectAlways, PTL

(* Only packings given up can beat the incumbent of an answer that says    *)
(* optimal, whatever stalls and whenever the node budget ends the search.  *)
THEOREM OptimalCorrect == Spec => []OptimalIsOptimal
<1>1. Correct => OptimalIsOptimal
  BY DEF Correct
<1> QED
  BY <1>1, CorrectAlways, PTL
-----------------------------------------------------------------------------
(* The contract speaks of the same packings.                               *)
LEMMA SamePackings ==
  /\ Contract!PackingSizes = PackingSizes
  /\ \A S : Contract!Cardinality(S) = Cardinality(S)
  /\ \A n, sizes : Contract!Holds(n, sizes) <=>
        \A P \in Packings : Bins(P) < n => Bins(P) \in sizes
  /\ Contract!NoBound = NoBound
<1>1. Contract!Load = Load
  BY DEF Contract!Load, Load
<1>2. Contract!Packings = Packings
  BY <1>1 DEF Contract!Packings, Packings, Contract!BinsOf, BinsOf,
              Contract!Patterns, Patterns
<1>3. \A S : Contract!Cardinality(S) = Cardinality(S)
  BY DEF Contract!Cardinality, Cardinality
<1>4. \A P : Contract!Bins(P) = Bins(P)
  BY <1>3 DEF Contract!Bins, Bins
<1>5. Contract!PackingSizes = PackingSizes
  BY <1>2, <1>4 DEF Contract!PackingSizes, PackingSizes
<1>6. \A n, sizes : Contract!Holds(n, sizes) <=>
        \A P \in Packings : Bins(P) < n => Bins(P) \in sizes
  BY <1>2, <1>4 DEF Contract!Holds
<1>7. Contract!NoBound = NoBound
  BY DEF Contract!NoBound, NoBound
<1> QED
  BY <1>3, <1>5, <1>6, <1>7

LEMMA ContractStep ==
  ASSUME TypeOK, TypeOK', Correct, Correct', [Next]_vars
  PROVE  [Contract!Next]_Contract!vars
<1>1. CASE GiveUp
  BY <1>1 DEF GiveUp, answer, Contract!vars, MissedSizes
<1>2. CASE EnterDifferent
  BY <1>2 DEF EnterDifferent, answer, Contract!vars, MissedSizes
<1>3. CASE SolveNode
  <2>1. PICK r \in Relaxations(Head(stack).branching) : Solved(r)
    BY <1>3 DEF SolveNode
  <2>2. Head(stack).branching \in BranchingStates
    BY <1>3, HeadAndTail DEF SolveNode, At, TypeOK, Frames
  <2>3. incumbent_bins' =< incumbent_bins
    BY <2>1, <2>2, SolvedFacts
  <2>4. pc = "search" /\ UNCHANGED <<pc, answer>> /\ MissedSizes = {} /\ MissedSizes' = {}
    BY <1>3 DEF SolveNode, At, MissedSizes
  <2>5. CASE incumbent_bins' = incumbent_bins
    BY <2>4, <2>5 DEF Contract!vars, answer
  <2>6. CASE incumbent_bins' < incumbent_bins
    <3>1. Contract!Better
      BY <2>4, <2>6, SamePackings DEF Contract!Better, answer, TypeOK
    <3> QED
      BY <3>1 DEF Contract!Next
  <2> QED
    BY <2>3, <2>5, <2>6, PackingSizesType DEF TypeOK
<1>4. CASE Throw
  <2>1. Contract!Throw
    BY <1>4 DEF Throw, At, answer, Contract!Throw, MissedSizes
  <2> QED
    BY <2>1 DEF Contract!Next
<1>5. CASE Finish
  <2>1. /\ pc = "search" /\ pc' = "answered" /\ incumbent_bins' = incumbent_bins
        /\ optimal' = complete
    BY <1>5 DEF Finish
  <2>2. /\ incumbent_bins' \in PackingSizes /\ incumbent_bins' =< incumbent_bins
        /\ incumbent_bins' \in Nat /\ missed' \in SUBSET Packings
        /\ MissedSizes' = SizesBelow(incumbent_bins', missed')
    BY <2>1, PackingSizesType DEF TypeOK, MissedSizes
  <2>3. CASE complete
    <3>1. BoundsAllBut(incumbent_bins', missed') /\ lower_bound' = incumbent_bins'
          /\ optimal' = TRUE
      BY <2>1, <2>3 DEF Correct, OptimalIsOptimal, TypeOK
    <3>2. /\ MissedSizes' \in SUBSET {n \in PackingSizes : n < incumbent_bins'}
          /\ Contract!Holds(incumbent_bins', MissedSizes')
      BY <2>2, <3>1, SizesBelowFacts, SamePackings
    <3>3. Contract!AnswerOptimal
      BY <2>1, <2>2, <3>1, <3>2, SamePackings DEF Contract!AnswerOptimal
    <3> QED
      BY <3>3 DEF Contract!Next
  <2>4. CASE ~complete
    <3>1. optimal' = FALSE /\ lower_bound' = NoBound
      BY <1>5, <2>4 DEF Finish, TypeOK
    <3>2. MissedSizes' \in SUBSET {n \in PackingSizes : n < incumbent_bins'}
      BY <2>2 DEF SizesBelow, PackingSizes
    <3>3. Contract!AnswerPartial
      BY <2>1, <2>2, <3>1, <3>2, SamePackings DEF Contract!AnswerPartial
    <3> QED
      BY <3>3 DEF Contract!Next
  <2> QED
    BY <2>3, <2>4
<1>6. CASE UNCHANGED vars
  BY <1>6 DEF vars, answer, Contract!vars, MissedSizes
<1> QED
  BY <1>1, <1>2, <1>3, <1>4, <1>5, <1>6 DEF Next

(* The depth-first driver implements the contract of                       *)
(* solve_branch_and_price, whatever stalls.                                *)
THEOREM DepthFirstImplements == Spec => Implements
<1>1. Init => Contract!Init
  BY SamePackings DEF Init, Contract!Init, MissedSizes
<1>2. TypeOK /\ TypeOK' /\ Correct /\ Correct' /\ [Next]_vars
        => [Contract!Next]_Contract!vars
  BY ContractStep
<1> QED
  BY <1>1, <1>2, TypeCorrect, CorrectAlways, PTL DEF Spec, Implements, Contract!Spec
-----------------------------------------------------------------------------
(* OnePath compares a waiting frame with the top of the stack only; it is  *)
(* inductive when every frame above is compared, because a waiting frame   *)
(* becomes the top once the subtrees above it have returned.               *)
TogetherSide(b, c) == Child(b \ {c}, c.pair, "Together")

HangsBelow(f, k, s) ==
    /\ f.point = "different"
    /\ \E c \in f.branching :
        /\ c.relation = "Different"
        /\ \A j \in 1..(k - 1) : TogetherSide(f.branching, c) \subseteq s[j].branching

PathBelow(s) == \A k \in DOMAIN s : k > 1 => HangsBelow(s[k], k, s)

(* A frame keeps its place under frames that extend those above it before. *)
LEMMA StillHangs ==
  ASSUME NEW f, NEW k \in Nat, NEW l \in Nat, NEW s, NEW t, HangsBelow(f, k, s),
         \A j \in 1..(l - 1) : \E i \in 1..(k - 1) : s[i].branching \subseteq t[j].branching
  PROVE  HangsBelow(f, l, t)
<1>1. PICK c \in f.branching :
          /\ c.relation = "Different"
          /\ \A j \in 1..(k - 1) : TogetherSide(f.branching, c) \subseteq s[j].branching
  BY DEF HangsBelow
<1>2. ASSUME NEW j \in 1..(l - 1)
      PROVE  TogetherSide(f.branching, c) \subseteq t[j].branching
  <2>1. PICK i \in 1..(k - 1) : s[i].branching \subseteq t[j].branching
    OBVIOUS
  <2>2. TogetherSide(f.branching, c) \subseteq s[i].branching
    BY <1>1
  <2> QED
    BY <2>1, <2>2
<1> QED
  BY <1>1, <1>2 DEF HangsBelow

LEMMA PathOfTail ==
  ASSUME NEW s \in Seq(Frames), s # <<>>, PathBelow(s)
  PROVE  PathBelow(Tail(s))
<1> DEFINE t == Tail(s)
<1>1. ASSUME NEW k \in DOMAIN t, k > 1 PROVE HangsBelow(t[k], k, t)
  <2>1. PICK l \in Nat : l = k + 1
    OBVIOUS
  <2>2. k \in Nat /\ l > 1 /\ l \in DOMAIN s /\ t[k] = s[l]
    BY <2>1
  <2>3. \A j \in 1..(k - 1) : j + 1 \in 1..(l - 1) /\ t[j] = s[j + 1]
    BY <2>1
  <2> HIDE DEF t
  <2>4. HangsBelow(t[k], l, s)
    BY <2>2 DEF PathBelow
  <2>5. \A j \in 1..(k - 1) : \E i \in 1..(l - 1) : s[i].branching \subseteq t[j].branching
    BY <2>3
  <2> QED
    BY <2>1, <2>2, <2>4, <2>5, StillHangs
<1> QED
  BY <1>1 DEF PathBelow

(* A frame goes on top when it extends the frame it replaces.              *)
LEMMA PathReplaced ==
  ASSUME NEW s \in Seq(Frames), s # <<>>, PathBelow(s), NEW f \in Frames,
         Head(s).branching \subseteq f.branching
  PROVE  PathBelow(<<f>> \o Tail(s))
<1> DEFINE t == <<f>> \o Tail(s)
<1>1. /\ DOMAIN t = DOMAIN s /\ DOMAIN s = 1..Len(s) /\ Len(s) \in Nat
      /\ t[1] = f /\ s[1] = Head(s)
      /\ \A k \in DOMAIN s : k > 1 => t[k] = s[k]
  OBVIOUS
<1> HIDE DEF t
<1>2. \A j \in DOMAIN s : s[j].branching \subseteq t[j].branching
  BY <1>1
<1>3. ASSUME NEW k \in DOMAIN t, k > 1 PROVE HangsBelow(t[k], k, t)
  <2>1. k \in Nat /\ HangsBelow(t[k], k, s)
    BY <1>1, <1>3 DEF PathBelow
  <2>2. \A j \in 1..(k - 1) : s[j].branching \subseteq t[j].branching
    BY <1>1, <1>2
  <2> QED
    BY <2>1, <2>2, StillHangs
<1>4. PathBelow(t)
  BY <1>3 DEF PathBelow
<1> QED
  BY <1>4 DEF t

(* Branching leaves the Different child under the Together child.          *)
LEMMA PathBranched ==
  ASSUME NEW s \in Seq(Frames), s # <<>>, PathBelow(s), NEW p \in Pairs,
         NEW f \in Frames, NEW g \in Frames,
         f.branching = Child(Head(s).branching, p, "Together"),
         g.point = "different", g.branching = Child(Head(s).branching, p, "Different")
  PROVE  PathBelow(<<f, g>> \o Tail(s))
<1> DEFINE t == <<f, g>> \o Tail(s)
           c == [pair |-> p, relation |-> "Different"]
<1>1. /\ t[1] = f /\ t[2] = g /\ s[1] = Head(s)
      /\ DOMAIN s = 1..Len(s) /\ Len(s) \in Nat /\ DOMAIN t = 1..(Len(s) + 1)
      /\ \A k \in DOMAIN t : k > 2 => t[k] = s[k - 1]
  OBVIOUS
<1> HIDE DEF t
<1>2. /\ c \in g.branching /\ c.relation = "Different"
      /\ TogetherSide(g.branching, c) \subseteq f.branching
  BY DEF Child, TogetherSide
<1>3. s[1].branching \subseteq f.branching /\ s[1].branching \subseteq g.branching
  BY <1>1 DEF Child
<1>4. HangsBelow(g, 2, t)
  <2>1. \A j \in 1..(2 - 1) : t[j] = f
    BY <1>1
  <2> QED
    BY <1>2, <2>1 DEF HangsBelow
<1>5. ASSUME NEW k \in DOMAIN t, k > 2 PROVE HangsBelow(t[k], k, t)
  <2>1. k - 1 \in Nat /\ k \in Nat /\ HangsBelow(t[k], k - 1, s)
    BY <1>1, <1>5 DEF PathBelow
  <2>2. ASSUME NEW j \in 1..(k - 1)
        PROVE  \E i \in 1..(k - 1 - 1) : s[i].branching \subseteq t[j].branching
    <3>1. CASE j =< 2
      <4>1. 1 \in 1..(k - 1 - 1) /\ (j = 1 \/ j = 2)
        BY <1>5, <2>1, <3>1
      <4> QED
        BY <1>1, <1>3, <4>1
    <3>2. CASE j > 2
      <4>1. j - 1 \in 1..(k - 1 - 1) /\ j \in DOMAIN t
        BY <1>1, <3>2
      <4> QED
        BY <1>1, <3>2, <4>1
    <3> QED
      BY <2>1, <3>1, <3>2
  <2> QED
    BY <2>1, <2>2, StillHangs
<1>6. PathBelow(t)
  BY <1>1, <1>4, <1>5 DEF PathBelow
<1> QED
  BY <1>6 DEF t

LEMMA PathStep == TypeOK /\ PathBelow(stack) /\ [Next]_vars => PathBelow(stack')
<1> SUFFICES ASSUME TypeOK, PathBelow(stack), [Next]_vars PROVE PathBelow(stack')
  OBVIOUS
<1>1. ASSUME stack # <<>>, stack' = Tail(stack) PROVE PathBelow(stack')
  BY <1>1, PathOfTail DEF TypeOK
<1>2. CASE EnterDifferent
  <2>1. stack # <<>> /\ stack' = <<Visit(Head(stack).branching)>> \o Tail(stack)
    BY <1>2 DEF EnterDifferent, At
  <2>2. Visit(Head(stack).branching) \in Frames
        /\ Visit(Head(stack).branching).branching = Head(stack).branching
    BY <2>1, HeadAndTail DEF Visit, Frames, TypeOK
  <2> QED
    BY <2>1, <2>2, PathReplaced DEF TypeOK
<1>3. CASE SolveNode
  <2> DEFINE b == Head(stack).branching
  <2>1. stack # <<>> /\ b \in BranchingStates
    BY <1>3, HeadAndTail DEF SolveNode, At, TypeOK, Frames
  <2>2. PICK r \in Relaxations(b) : Stall(r) \/ Prune(r) \/ Integral(b, r) \/ Branch(b, r)
    BY <1>3 DEF SolveNode
  <2>3. CASE Stall(r) \/ Prune(r) \/ Integral(b, r)
    BY <1>1, <2>1, <2>3 DEF Stall, Prune, Integral
  <2>4. CASE Branch(b, r)
    <3> DEFINE f == Visit(Child(b, r.pair, "Together"))
               g == Resume(Child(b, r.pair, "Different"))
    <3>1. r.pair \in Pairs /\ stack' = <<f, g>> \o Tail(stack)
      BY <2>1, <2>4, RelaxationFacts DEF Branch
    <3>2. f \in Frames /\ g \in Frames
      BY <2>1, <2>4, BranchFrames DEF Branch
    <3>3. /\ f.branching = Child(b, r.pair, "Together")
          /\ g.branching = Child(b, r.pair, "Different")
          /\ g.point = "different"
      BY DEF Visit, Resume
    <3> HIDE DEF f, g
    <3> QED
      BY <2>1, <3>1, <3>2, <3>3, PathBranched DEF TypeOK
  <2> QED
    BY <2>2, <2>3, <2>4
<1>4. CASE GiveUp \/ Throw \/ Finish \/ UNCHANGED vars
  BY <1>1, <1>4 DEF GiveUp, Throw, Finish, vars
<1> QED
  BY <1>2, <1>3, <1>4 DEF Next

(* The stack is one path of the tree (branch_and_price.cpp:162-165).       *)
THEOREM OnePathCorrect == Spec => []OnePath
<1>1. Init => PathBelow(stack)
  BY DEF Init, PathBelow
<1>2. TypeOK /\ PathBelow(stack) => OnePath
  <2> SUFFICES ASSUME TypeOK, PathBelow(stack), NEW k \in DOMAIN stack, k > 1
               PROVE  HangsBelow(stack[k], k, stack) /\ 1 \in 1..(k - 1)
    BY DEF OnePath, HangsBelow, TogetherSide
  <2>1. DOMAIN stack \subseteq Nat
    BY DEF TypeOK
  <2> QED
    BY <2>1 DEF PathBelow
<1> DEFINE Path == PathBelow(stack)
<1>3. Path /\ TypeOK /\ [Next]_vars => Path'
  BY PathStep
<1>4. Init => Path
  BY <1>1
<1>5. TypeOK /\ Path => OnePath
  BY <1>2
<1> HIDE DEF Path
<1> QED
  BY <1>3, <1>4, <1>5, TypeCorrect, PTL DEF Spec
=============================================================================

-------------------------- MODULE BestBoundProofs --------------------------
(***************************************************************************)
(* Theorems of BestBound, for every instance and every node budget.        *)
(***************************************************************************)
EXTENDS BestBound, BranchingProofs

LEMMA SolvedFacts ==
  ASSUME NEW b \in BranchingStates, NEW r \in Relaxations(b), TypeOK, Solved(r)
  PROVE  /\ incumbent_bins' \in PackingSizes
         /\ incumbent_bins' =< incumbent_bins
         /\ incumbent_bins' =< r.incumbent_bins
         /\ processed_nodes' = processed_nodes + 1
         /\ processed_nodes' \in Nat
<1>1. r.incumbent_bins \in PackingSizes
  BY RelaxationFacts
<1> QED
  BY <1>1, ImproveFacts DEF Solved, TypeOK

LEMMA ChildrenFacts ==
  ASSUME NEW b \in BranchingStates, NEW r \in Relaxations(b), r.pair # NoPair,
         NEW depth \in Nat, TypeOK
  PROVE  /\ Children(b, r, depth) \subseteq SearchNodes
         /\ Children(b, r, depth) # {}
         /\ \A n \in Children(b, r, depth) :
                n.safe_bound = r.safe_bound
                /\ \A P \in Packings : Admits(n.branching, P) => Admits(b, P)
         /\ \A P \in Packings : Admits(b, P) =>
                \E n \in Children(b, r, depth) : Admits(n.branching, P)
<1>1. r.pair \in Pairs /\ r.safe_bound \in Nat
  BY RelaxationFacts
<1>2. /\ Child(b, r.pair, "Together") \in BranchingStates
      /\ Child(b, r.pair, "Different") \in BranchingStates
  BY <1>1, ChildType DEF Relations
<1>3. Children(b, r, depth) \subseteq SearchNodes /\ Children(b, r, depth) # {}
  BY <1>1, <1>2 DEF Children, SearchNodes, TypeOK
<1>4. ASSUME NEW n \in Children(b, r, depth)
      PROVE  n.safe_bound = r.safe_bound
             /\ \A P \in Packings : Admits(n.branching, P) => Admits(b, P)
  BY <1>1, ChildAdmitsLess DEF Children
<1>5. ASSUME NEW P \in Packings, Admits(b, P)
      PROVE  \E n \in Children(b, r, depth) : Admits(n.branching, P)
  BY <1>1, <1>5, SomeChildAdmits DEF Children
<1> QED
  BY <1>3, <1>4, <1>5
-----------------------------------------------------------------------------
(* Every variable keeps its type.                                          *)
THEOREM TypeCorrect == Spec => []TypeOK
<1>1. Init => TypeOK
  <2> SUFFICES ASSUME Init PROVE TypeOK
    OBVIOUS
  <2>1. queue \subseteq SearchNodes
    BY DEF Init
  <2>2. optimal \in BOOLEAN
    BY DEF Init
  <2>3. /\ sequence \in Nat /\ processed_nodes \in Nat
        /\ generated_nodes \in Nat /\ pruned_nodes \in Nat
    BY DEF Init
  <2> QED
    BY <2>1, <2>2, <2>3 DEF Init, TypeOK
<1>2. TypeOK /\ [Next]_vars => TypeOK'
  <2> SUFFICES ASSUME TypeOK, [Next]_vars PROVE TypeOK'
    OBVIOUS
  <2> USE PackingSizesType DEF TypeOK
  <2>1. CASE SolveRoot
    <3>1. PICK r \in Relaxations({}) :
             Solved(r) /\ (RootStall(r) \/ RootPrune(r) \/ RootIntegral(r) \/ RootBranch(r))
      BY <2>1 DEF SolveRoot
    <3>2. incumbent_bins' \in PackingSizes /\ processed_nodes' \in Nat
      BY <3>1, RootAdmitsAll, SolvedFacts
    <3>3. CASE RootStall(r)
      BY <3>2, <3>3 DEF RootStall, answer
    <3>4. CASE RootPrune(r)
      BY <3>2, <3>4 DEF RootPrune
    <3>5. CASE RootIntegral(r)
      BY <3>2, <3>5, GivenUpAreAdmitted DEF RootIntegral
    <3>6. CASE RootBranch(r)
      <4>1. Children({}, r, 1) \subseteq SearchNodes
        BY <3>6, ChildrenFacts, RootAdmitsAll DEF RootBranch
      <4> QED
        BY <3>2, <3>6, <4>1 DEF RootBranch, Push, answer
    <3> QED
      BY <3>1, <3>3, <3>4, <3>5, <3>6
  <2>2. CASE RootThrow
    BY <2>2 DEF RootThrow, counters, answer
  <2>3. ASSUME NEW n \in queue, SolveNode(n) PROVE TypeOK'
    <3>1. PICK r \in Relaxations(n.branching) :
             Solved(r) /\ (NodeStall(n, r) \/ NodePrune(n, r)
                             \/ NodeIntegral(n, r) \/ NodeBranch(n, r))
      BY <2>3 DEF SolveNode
    <3>2. n.branching \in BranchingStates /\ n.depth + 1 \in Nat
      BY DEF SearchNodes
    <3>3. incumbent_bins' \in PackingSizes /\ processed_nodes' \in Nat /\ pc' = pc
      BY <2>3, <3>1, <3>2, SolvedFacts DEF SolveNode
    <3>4. CASE NodeStall(n, r)
      BY <3>3, <3>4 DEF NodeStall, answer
    <3>5. CASE NodePrune(n, r)
      BY <3>3, <3>5 DEF NodePrune, answer
    <3>6. CASE NodeIntegral(n, r)
      BY <3>3, <3>6, GivenUpAreAdmitted DEF NodeIntegral, answer
    <3>7. CASE NodeBranch(n, r)
      <4>1. Children(n.branching, r, n.depth + 1) \subseteq SearchNodes
        BY <3>2, <3>7, ChildrenFacts DEF NodeBranch
      <4> QED
        BY <3>3, <3>7, <4>1 DEF NodeBranch, Push, answer
    <3> QED
      BY <3>1, <3>4, <3>5, <3>6, <3>7
  <2>4. ASSUME NEW n \in queue, NodeThrow(n) PROVE TypeOK'
    BY <2>4 DEF NodeThrow, counters, answer
  <2>5. ASSUME NEW n \in queue, FinishBudget(n) PROVE TypeOK'
    BY <2>5 DEF FinishBudget, counters, SearchNodes
  <2>6. CASE FinishExhausted
    BY <2>6 DEF FinishExhausted, counters
  <2>7. CASE UNCHANGED vars
    BY <2>7 DEF vars, counters, answer
  <2> QED
    BY <2>1, <2>2, <2>3, <2>4, <2>5, <2>6, <2>7 DEF Next
<1> QED
  BY <1>1, <1>2, PTL DEF Spec
-----------------------------------------------------------------------------
(* What the counters say of the search and that no answer is written       *)
(* before the end.                                                         *)
Accounting ==
    /\ pc = "root" =>
        queue = {} /\ processed_nodes = 0 /\ generated_nodes = 0 /\ pruned_nodes = 0
    /\ pc = "search" =>
        generated_nodes > 0 /\ 2 * (processed_nodes - pruned_nodes) >= generated_nodes
    /\ pc # "answered" => optimal = FALSE /\ lower_bound = NoBound

LEMMA AccountingStep == TypeOK /\ Accounting /\ [Next]_vars => Accounting'
<1> SUFFICES ASSUME TypeOK, Accounting, [Next]_vars PROVE Accounting'
  OBVIOUS
<1> USE DEF TypeOK, Accounting
<1>1. CASE SolveRoot
  <2>1. PICK r \in Relaxations({}) :
           Solved(r) /\ (RootStall(r) \/ RootPrune(r) \/ RootIntegral(r) \/ RootBranch(r))
    BY <1>1 DEF SolveRoot
  <2>2. processed_nodes' = processed_nodes + 1 /\ pc = "root"
    BY <1>1, <2>1 DEF Solved, SolveRoot
  <2>3. CASE RootStall(r)
    BY <2>3 DEF RootStall
  <2>4. CASE RootPrune(r)
    BY <2>4 DEF RootPrune
  <2>5. CASE RootIntegral(r)
    BY <2>5 DEF RootIntegral
  <2>6. CASE RootBranch(r)
    BY <2>2, <2>6 DEF RootBranch, Push, answer
  <2> QED
    BY <2>1, <2>3, <2>4, <2>5, <2>6
<1>2. CASE RootThrow
  BY <1>2 DEF RootThrow, counters, answer
<1>3. ASSUME NEW n \in queue, SolveNode(n) PROVE Accounting'
  <2>1. PICK r \in Relaxations(n.branching) :
           Solved(r) /\ (NodeStall(n, r) \/ NodePrune(n, r)
                           \/ NodeIntegral(n, r) \/ NodeBranch(n, r))
    BY <1>3 DEF SolveNode
  <2>2. processed_nodes' = processed_nodes + 1 /\ pc = "search" /\ pc' = "search"
    BY <1>3, <2>1 DEF Solved, SolveNode, Pop
  <2>3. CASE NodeStall(n, r)
    BY <2>2, <2>3 DEF NodeStall, answer
  <2>4. CASE NodePrune(n, r)
    BY <2>2, <2>4 DEF NodePrune, answer
  <2>5. CASE NodeIntegral(n, r)
    BY <2>2, <2>5 DEF NodeIntegral, answer
  <2>6. CASE NodeBranch(n, r)
    BY <2>2, <2>6 DEF NodeBranch, Push, answer
  <2> QED
    BY <2>1, <2>3, <2>4, <2>5, <2>6
<1>4. ASSUME NEW n \in queue, NodeThrow(n) PROVE Accounting'
  BY <1>4 DEF NodeThrow, Pop, counters, answer
<1>5. ASSUME NEW n \in queue, FinishBudget(n) PROVE Accounting'
  BY <1>5 DEF FinishBudget
<1>6. CASE FinishExhausted
  BY <1>6 DEF FinishExhausted
<1>7. CASE UNCHANGED vars
  BY <1>7 DEF vars, counters, answer
<1> QED
  BY <1>1, <1>2, <1>3, <1>4, <1>5, <1>6, <1>7 DEF Next

LEMMA AccountingCorrect == Spec => []Accounting
<1>1. Init => Accounting
  BY DEF Init, Accounting
<1> QED
  BY <1>1, AccountingStep, TypeCorrect, PTL DEF Spec
-----------------------------------------------------------------------------
LEMMA QueueBoundsStep == TypeOK /\ QueueBounds /\ [Next]_vars => QueueBounds'
<1> SUFFICES ASSUME TypeOK, QueueBounds, [Next]_vars PROVE QueueBounds'
  OBVIOUS
<1>1. ASSUME queue' \subseteq queue PROVE QueueBounds'
  BY <1>1 DEF QueueBounds
<1>2. ASSUME NEW b \in BranchingStates, NEW r \in Relaxations(b), NEW depth \in Nat,
             NEW rest \in SUBSET queue, r.pair # NoPair, Push(b, r, depth, rest)
      PROVE  QueueBounds'
  <2>1. ASSUME NEW n \in Children(b, r, depth), NEW P \in Packings, Admits(n.branching, P)
        PROVE  n.safe_bound =< Bins(P)
    BY <1>2, <2>1, ChildrenFacts, RelaxationFacts
  <2> QED
    BY <1>2, <2>1 DEF Push, QueueBounds, Admitted
<1>3. CASE SolveRoot
  <2>1. PICK r \in Relaxations({}) :
           RootStall(r) \/ RootPrune(r) \/ RootIntegral(r) \/ RootBranch(r)
    BY <1>3 DEF SolveRoot
  <2>2. CASE RootBranch(r)
    BY <1>2, <2>2, RootAdmitsAll DEF RootBranch
  <2> QED
    BY <1>1, <2>1, <2>2 DEF RootStall, RootPrune, RootIntegral
<1>4. ASSUME NEW n \in queue, SolveNode(n) PROVE QueueBounds'
  <2>1. PICK r \in Relaxations(n.branching) :
           NodeStall(n, r) \/ NodePrune(n, r) \/ NodeIntegral(n, r) \/ NodeBranch(n, r)
    BY <1>4 DEF SolveNode
  <2>2. CASE NodeBranch(n, r)
    <3>1. n.branching \in BranchingStates /\ n.depth + 1 \in Nat
      BY DEF TypeOK, SearchNodes
    <3> QED
      BY <1>2, <2>2, <3>1 DEF NodeBranch
  <2> QED
    BY <1>1, <2>1, <2>2 DEF NodeStall, NodePrune, NodeIntegral
<1>5. CASE RootThrow \/ FinishExhausted \/ UNCHANGED vars
         \/ \E n \in queue : NodeThrow(n) \/ FinishBudget(n)
  BY <1>1, <1>5 DEF RootThrow, FinishExhausted, vars, NodeThrow, FinishBudget
<1> QED
  BY <1>3, <1>4, <1>5 DEF Next

(* The bound a node is queued with holds for every packing below it        *)
(* (branch_and_price.cpp:145-149).                                         *)
THEOREM QueueBoundsCorrect == Spec => []QueueBounds
<1>1. Init => QueueBounds
  BY DEF Init, QueueBounds
<1> QED
  BY <1>1, QueueBoundsStep, TypeCorrect, PTL DEF Spec
-----------------------------------------------------------------------------
(* The inductive step of the three results below.  A packing that improves *)
(* on the incumbent has a node in the queue; solving that node passes it   *)
(* to a child, ends with an incumbent that is as good, or gives it up.     *)
Correct == Coverage /\ OptimalUnlessStalled /\ PartialBoundSound

LEMMA CoverageOfNode ==
  ASSUME TypeOK, Accounting, Coverage, NEW n \in queue, SolveNode(n),
         NoneStalled', NEW P \in Packings, P \notin missed', Bins(P) < incumbent_bins'
  PROVE  \E m \in queue' : Admits(m.branching, P)
<1>1. PICK r \in Relaxations(n.branching) :
         Solved(r) /\ (NodeStall(n, r) \/ NodePrune(n, r)
                         \/ NodeIntegral(n, r) \/ NodeBranch(n, r))
  BY DEF SolveNode
<1>2. n.branching \in BranchingStates /\ n.depth + 1 \in Nat
  BY DEF TypeOK, SearchNodes
<1>3. /\ incumbent_bins \in Nat /\ incumbent_bins' \in Nat
      /\ incumbent_bins' =< incumbent_bins
      /\ incumbent_bins' =< r.incumbent_bins
      /\ r.incumbent_bins \in Nat
      /\ processed_nodes' = processed_nodes + 1
  BY <1>1, <1>2, SolvedFacts, RelaxationFacts, PackingSizesType DEF TypeOK
<1>4. /\ r.safe_bound \in Nat
      /\ Admits(n.branching, P) => r.safe_bound =< Bins(P)
  BY <1>2, RelaxationFacts
<1>5. Bins(P) \in Nat
  BY BinsType
<1>6. pc = "search" /\ generated_nodes > 0
      /\ 2 * (processed_nodes - pruned_nodes) >= generated_nodes
  BY DEF SolveNode, Pop, Accounting
<1>7. ASSUME NoneStalled, P \notin missed PROVE \E m \in queue : Admits(m.branching, P)
  BY <1>3, <1>5, <1>6, <1>7 DEF Coverage
<1>8. CASE NodeStall(n, r)
  <2>1. FALSE
    BY <1>3, <1>6, <1>8 DEF NodeStall, NoneStalled, TypeOK
  <2> QED
    BY <2>1
<1>9. CASE NodePrune(n, r)
  <2>1. NoneStalled
    BY <1>3, <1>6, <1>9 DEF NodePrune, NoneStalled, TypeOK
  <2>2. ~Admits(n.branching, P)
    BY <1>3, <1>4, <1>5, <1>9 DEF NodePrune, CanPrune
  <2> QED
    BY <1>7, <1>9, <2>1, <2>2 DEF NodePrune
<1>10. CASE NodeIntegral(n, r)
  <2>1. NoneStalled
    BY <1>3, <1>6, <1>10 DEF NodeIntegral, NoneStalled, TypeOK
  <2>2. ~Admits(n.branching, P) /\ P \notin missed
    BY <1>10 DEF NodeIntegral, GivenUp, Admitted
  <2> QED
    BY <1>7, <1>10, <2>1, <2>2 DEF NodeIntegral
<1>11. CASE NodeBranch(n, r)
  <2>1. NoneStalled
    BY <1>3, <1>6, <1>11 DEF NodeBranch, Push, NoneStalled, TypeOK
  <2>2. Admits(n.branching, P) =>
          \E m \in Children(n.branching, r, n.depth + 1) : Admits(m.branching, P)
    BY <1>2, <1>11, ChildrenFacts DEF NodeBranch
  <2> QED
    BY <1>7, <1>11, <2>1, <2>2 DEF NodeBranch, Push
<1> QED
  BY <1>1, <1>8, <1>9, <1>10, <1>11

LEMMA CorrectStep ==
  ASSUME TypeOK, TypeOK', Accounting, Accounting', QueueBounds, Correct,
         [Next]_vars
  PROVE  Correct'
<1> USE DEF Correct
<1>1. ASSUME pc' # "answered", pc' # "search" PROVE Correct'
  BY <1>1 DEF Accounting, Coverage, OptimalUnlessStalled, PartialBoundSound
<1>2. CASE SolveRoot
  <2>1. PICK r \in Relaxations({}) :
           Solved(r) /\ (RootStall(r) \/ RootPrune(r) \/ RootIntegral(r) \/ RootBranch(r))
    BY <1>2 DEF SolveRoot
  <2>2. /\ incumbent_bins' \in PackingSizes
        /\ incumbent_bins' \in Nat /\ r.incumbent_bins \in Nat /\ r.safe_bound \in Nat
        /\ incumbent_bins' =< r.incumbent_bins
    BY <2>1, RootAdmitsAll, SolvedFacts, RelaxationFacts, PackingSizesType
  <2>3. \A P \in Packings :
            Bins(P) \in Nat /\ r.safe_bound =< Bins(P) /\ P \in Admitted({})
    BY RootAdmitsAll, RelaxationFacts, BinsType DEF Admitted
  <2>4. pc = "root" /\ optimal = FALSE /\ lower_bound = NoBound
    BY <1>2 DEF SolveRoot, Accounting
  <2>5. CASE RootStall(r)
    BY <2>4, <2>5 DEF RootStall, answer, Coverage, OptimalUnlessStalled, PartialBoundSound
  <2>6. CASE RootPrune(r) \/ RootIntegral(r)
    <3>1. BoundsAllBut(incumbent_bins', missed')
      BY <2>2, <2>3, <2>6 DEF RootPrune, RootIntegral, CanPrune, GivenUp, BoundsAllBut
    <3> QED
      BY <2>6, <3>1 DEF RootPrune, RootIntegral, Coverage, OptimalUnlessStalled,
                        PartialBoundSound
  <2>7. CASE RootBranch(r)
    <3>1. \A P \in Packings : \E n \in Children({}, r, 1) : Admits(n.branching, P)
      BY <2>7, RootAdmitsAll, ChildrenFacts DEF RootBranch
    <3>2. Coverage'
      BY <2>7, <3>1 DEF RootBranch, Push, Coverage
    <3> QED
      BY <2>4, <2>7, <3>2 DEF RootBranch, Push, answer, OptimalUnlessStalled,
                              PartialBoundSound
  <2> QED
    BY <2>1, <2>5, <2>6, <2>7
<1>3. CASE RootThrow
  BY <1>1, <1>3 DEF RootThrow
<1>4. ASSUME NEW n \in queue, SolveNode(n) PROVE Correct'
  <2>1. Coverage'
    BY <1>4, CoverageOfNode DEF Coverage
  <2>2. pc' = "search"
    BY <1>4 DEF SolveNode, Pop
  <2> QED
    BY <2>1, <2>2 DEF Accounting, OptimalUnlessStalled, PartialBoundSound
<1>5. ASSUME NEW n \in queue, NodeThrow(n) PROVE Correct'
  BY <1>1, <1>5 DEF NodeThrow
<1>6. ASSUME NEW n \in queue, FinishBudget(n) PROVE Correct'
  <2>1. ASSUME NoneStalled, NEW Q \in Packings \ missed, Bins(Q) < incumbent_bins,
               NEW P \in Packings \ missed
        PROVE  n.safe_bound =< Bins(P)
    <3>1. PICK m \in queue : Admits(m.branching, Q)
      BY <1>6, <2>1 DEF FinishBudget, Coverage
    <3>2. m.safe_bound =< Bins(Q)
      BY <3>1 DEF QueueBounds, Admitted
    <3>3. n.safe_bound =< m.safe_bound /\ n.safe_bound \in Nat /\ m.safe_bound \in Nat
      BY <1>6 DEF FinishBudget, IsTop, Before, TypeOK, SearchNodes
    <3>4. n.safe_bound < incumbent_bins
      BY <2>1, <3>2, <3>3, BinsType, PackingSizesType DEF TypeOK
    <3>5. CASE Bins(P) < incumbent_bins
      <4>1. PICK l \in queue : Admits(l.branching, P)
        BY <1>6, <2>1, <3>5 DEF FinishBudget, Coverage
      <4>2. l.safe_bound =< Bins(P)
        BY <4>1 DEF QueueBounds, Admitted
      <4>3. n.safe_bound =< l.safe_bound /\ l.safe_bound \in Nat
        BY <1>6 DEF FinishBudget, IsTop, Before, TypeOK, SearchNodes
      <4> QED
        BY <3>3, <4>2, <4>3, BinsType
    <3> QED
      BY <3>3, <3>4, <3>5, BinsType, PackingSizesType DEF TypeOK
  <2>2. NoneStalled => \/ BoundsAllBut(n.safe_bound, missed)
                       \/ BoundsAllBut(incumbent_bins, missed)
    BY <2>1, BinsType, PackingSizesType DEF BoundsAllBut, TypeOK
  <2> QED
    BY <1>6, <2>2 DEF FinishBudget, counters, NoneStalled, Coverage,
                      OptimalUnlessStalled, PartialBoundSound
<1>7. CASE FinishExhausted
  <2>1. NoneStalled => BoundsAllBut(incumbent_bins, missed)
    BY <1>7, BinsType, PackingSizesType
    DEF FinishExhausted, Coverage, BoundsAllBut, TypeOK
  <2> QED
    BY <1>7, <2>1 DEF FinishExhausted, counters, NoneStalled, Coverage,
                      OptimalUnlessStalled, PartialBoundSound
<1>8. CASE UNCHANGED vars
  BY <1>8 DEF vars, counters, answer, NoneStalled, Coverage, OptimalUnlessStalled,
              PartialBoundSound
<1> QED
  BY <1>2, <1>3, <1>4, <1>5, <1>6, <1>7, <1>8 DEF Next

LEMMA CorrectAlways == Spec => []Correct
<1>1. Init => Correct
  BY DEF Init, Correct, Coverage, OptimalUnlessStalled, PartialBoundSound
<1>2. TypeOK /\ TypeOK' /\ Accounting /\ Accounting' /\ QueueBounds
      /\ Correct /\ [Next]_vars => Correct'
  BY CorrectStep
<1> QED
  BY <1>1, <1>2, TypeCorrect, AccountingCorrect, QueueBoundsCorrect, PTL DEF Spec

(* No improving packing is lost while no node has stalled, but those given *)
(* up at nodes closed as integral.                                         *)
THEOREM CoverageCorrect == Spec => []Coverage
<1>1. Correct => Coverage
  BY DEF Correct
<1> QED
  BY <1>1, CorrectAlways, PTL

(* Only packings given up can beat the incumbent of an answer that says    *)
(* optimal, unless a node stalled (branch_and_price.cpp:152-156).          *)
THEOREM OptimalCorrect == Spec => []OptimalUnlessStalled
<1>1. Correct => OptimalUnlessStalled
  BY DEF Correct
<1> QED
  BY <1>1, CorrectAlways, PTL

(* The smaller of a partial answer's bound and incumbent bounds all but    *)
(* the packings given up, unless a node stalled                            *)
(* (branch_and_price.cpp:157-158).                                         *)
THEOREM PartialBoundCorrect == Spec => []PartialBoundSound
<1>1. Correct => PartialBoundSound
  BY DEF Correct
<1> QED
  BY <1>1, CorrectAlways, PTL
-----------------------------------------------------------------------------
(* When no node can stall, the driver implements the contract: the bounds  *)
(* it may report are counts of bins, and NoneStalled always holds.         *)
Certifying ==
    /\ NoneStalled
    /\ \A n \in queue : n.safe_bound \in 1..Cardinality(Items)

LEMMA CertifyingStep ==
  ASSUME ~CanStall, TypeOK, Accounting, Certifying, [Next]_vars
  PROVE  Certifying'
<1>1. ASSUME NEW b \in BranchingStates, NEW r \in Relaxations(b)
      PROVE  r.certified /\ r.safe_bound \in 1..Cardinality(Items)
  <2>1. /\ r.certified \in {c \in BOOLEAN : c \/ CanStall}
        /\ r.safe_bound \in 1..Cardinality(Items)
    BY <1>1 DEF Relaxations, SafeBounds
  <2>2. Cardinality(Items) \in Nat
    BY InstanceAssumption, FS_CardinalityType
  <2> QED
    BY <2>1, <2>2
<1>2. ASSUME NEW b, NEW r, r.safe_bound \in 1..Cardinality(Items), NEW depth,
             NEW n \in Children(b, r, depth)
      PROVE  n.safe_bound \in 1..Cardinality(Items)
  BY <1>2 DEF Children
<1>3. CASE SolveRoot
  <2>1. PICK r \in Relaxations({}) :
           Solved(r) /\ (RootStall(r) \/ RootPrune(r) \/ RootIntegral(r) \/ RootBranch(r))
    BY <1>3 DEF SolveRoot
  <2>2. r.certified /\ r.safe_bound \in 1..Cardinality(Items)
    BY <1>1, RootAdmitsAll
  <2>3. pc = "root"
    BY <1>3 DEF SolveRoot
  <2>4. CASE RootPrune(r) \/ RootIntegral(r)
    BY <2>3, <2>4 DEF RootPrune, RootIntegral, Certifying, NoneStalled, Accounting
  <2>5. CASE RootBranch(r)
    BY <1>2, <2>1, <2>2, <2>3, <2>5
    DEF Solved, RootBranch, Push, Certifying, NoneStalled, Accounting
  <2> QED
    BY <2>1, <2>2, <2>4, <2>5 DEF RootStall
<1>4. ASSUME NEW n \in queue, SolveNode(n) PROVE Certifying'
  <2>1. PICK r \in Relaxations(n.branching) :
           Solved(r) /\ (NodeStall(n, r) \/ NodePrune(n, r)
                           \/ NodeIntegral(n, r) \/ NodeBranch(n, r))
    BY <1>4 DEF SolveNode
  <2>2. r.certified /\ r.safe_bound \in 1..Cardinality(Items)
    BY <1>1 DEF TypeOK, SearchNodes
  <2>3. processed_nodes' = processed_nodes + 1 /\ generated_nodes > 0
    BY <1>4, <2>1 DEF SolveNode, Pop, Solved, Accounting
  <2>4. CASE NodePrune(n, r) \/ NodeIntegral(n, r)
    BY <2>3, <2>4 DEF NodePrune, NodeIntegral, Certifying, NoneStalled, TypeOK
  <2>5. CASE NodeBranch(n, r)
    <3>1. NoneStalled'
      BY <2>3, <2>5 DEF NodeBranch, Push, Certifying, NoneStalled, TypeOK
    <3> QED
      BY <1>2, <2>2, <2>5, <3>1 DEF NodeBranch, Push, Certifying
  <2> QED
    BY <2>1, <2>2, <2>4, <2>5 DEF NodeStall
<1>5. CASE RootThrow \/ FinishExhausted \/ UNCHANGED vars
         \/ \E n \in queue : NodeThrow(n) \/ FinishBudget(n)
  BY <1>5 DEF RootThrow, FinishExhausted, vars, NodeThrow, FinishBudget, counters,
              Certifying, NoneStalled
<1> QED
  BY <1>3, <1>4, <1>5 DEF Next

LEMMA CertifyingAlways == ASSUME ~CanStall PROVE Spec => []Certifying
<1>1. Init => Certifying
  BY DEF Init, Certifying, NoneStalled
<1>2. TypeOK /\ Accounting /\ Certifying /\ [Next]_vars => Certifying'
  BY CertifyingStep
<1> QED
  BY <1>1, <1>2, TypeCorrect, AccountingCorrect, PTL DEF Spec

(* The contract speaks of the same packings.                               *)
LEMMA SamePackings ==
  /\ Contract!PackingSizes = PackingSizes
  /\ \A S : Contract!Cardinality(S) = Cardinality(S)
  /\ \A n, sizes : Contract!Holds(n, sizes) <=>
        \A P \in Packings : Bins(P) < n => Bins(P) \in sizes
  /\ Contract!NoBound = NoBound
<1>1. Contract!Load = Load
  BY DEF Contract!Load, Load
<1>2. Contract!Packings = Packings
  BY <1>1 DEF Contract!Packings, Packings, Contract!BinsOf, BinsOf,
              Contract!Patterns, Patterns
<1>3. \A S : Contract!Cardinality(S) = Cardinality(S)
  BY DEF Contract!Cardinality, Cardinality
<1>4. \A P : Contract!Bins(P) = Bins(P)
  BY <1>3 DEF Contract!Bins, Bins
<1>5. Contract!PackingSizes = PackingSizes
  BY <1>2, <1>4 DEF Contract!PackingSizes, PackingSizes
<1>6. \A n, sizes : Contract!Holds(n, sizes) <=>
        \A P \in Packings : Bins(P) < n => Bins(P) \in sizes
  BY <1>2, <1>4 DEF Contract!Holds
<1>7. Contract!NoBound = NoBound
  BY DEF Contract!NoBound, NoBound
<1> QED
  BY <1>3, <1>5, <1>6, <1>7

LEMMA ContractStep ==
  ASSUME ~CanStall, TypeOK, TypeOK', Accounting, Accounting',
         Certifying, Certifying', Correct', [Next]_vars
  PROVE  [Contract!Next]_Contract!vars
<1>1. ASSUME pc \in {"root", "search"}, pc' \in {"root", "search"},
             incumbent_bins' =< incumbent_bins, UNCHANGED answer
      PROVE  [Contract!Next]_Contract!vars
  <2>0. MissedSizes = {} /\ MissedSizes' = {}
    BY <1>1 DEF MissedSizes
  <2>1. CASE incumbent_bins' = incumbent_bins
    BY <1>1, <2>0, <2>1 DEF Contract!vars, answer
  <2>2. CASE incumbent_bins' < incumbent_bins
    <3>1. Contract!Better
      BY <1>1, <2>0, <2>2, SamePackings DEF Contract!Better, answer, TypeOK
    <3> QED
      BY <3>1 DEF Contract!Next
  <2> QED
    BY <1>1, <2>1, <2>2, PackingSizesType DEF TypeOK
<1>2. ASSUME pc \in {"root", "search"}, pc' = "answered", optimal' = TRUE,
             incumbent_bins' =< incumbent_bins
      PROVE  Contract!Next
  <2>1. /\ incumbent_bins' \in PackingSizes /\ BoundsAllBut(incumbent_bins', missed')
        /\ lower_bound' = incumbent_bins' /\ missed' \in SUBSET Packings
    BY <1>2 DEF Correct, OptimalUnlessStalled, Certifying, TypeOK
  <2>2. MissedSizes' = SizesBelow(incumbent_bins', missed')
    BY <1>2 DEF MissedSizes
  <2>3. /\ MissedSizes' \in SUBSET {n \in PackingSizes : n < incumbent_bins'}
        /\ Contract!Holds(incumbent_bins', MissedSizes')
    BY <2>1, <2>2, SizesBelowFacts, SamePackings, PackingSizesType
  <2>4. Contract!AnswerOptimal
    BY <1>2, <2>1, <2>3, SamePackings DEF Contract!AnswerOptimal
  <2> QED
    BY <2>4 DEF Contract!Next
<1>3. ASSUME pc \in {"root", "search"}, pc' = "threw",
             UNCHANGED <<incumbent_bins, answer>>
      PROVE  Contract!Next
  BY <1>3 DEF Contract!Next, Contract!Throw, answer, MissedSizes
<1>4. CASE SolveRoot
  <2>1. PICK r \in Relaxations({}) :
           Solved(r) /\ (RootStall(r) \/ RootPrune(r) \/ RootIntegral(r) \/ RootBranch(r))
    BY <1>4 DEF SolveRoot
  <2>2. r.certified
    BY <2>1 DEF Relaxations
  <2>3. incumbent_bins' =< incumbent_bins /\ pc = "root"
    BY <1>4, <2>1, RootAdmitsAll, SolvedFacts DEF SolveRoot
  <2>4. CASE RootPrune(r) \/ RootIntegral(r)
    BY <1>2, <2>3, <2>4 DEF RootPrune, RootIntegral
  <2>5. CASE RootBranch(r)
    BY <1>1, <2>3, <2>5 DEF RootBranch, Push
  <2> QED
    BY <2>1, <2>2, <2>4, <2>5 DEF RootStall
<1>5. CASE RootThrow
  BY <1>3, <1>5 DEF RootThrow
<1>6. ASSUME NEW n \in queue, SolveNode(n) PROVE [Contract!Next]_Contract!vars
  <2>1. PICK r \in Relaxations(n.branching) :
           Solved(r) /\ (NodeStall(n, r) \/ NodePrune(n, r)
                           \/ NodeIntegral(n, r) \/ NodeBranch(n, r))
    BY <1>6 DEF SolveNode
  <2>2. incumbent_bins' =< incumbent_bins
    BY <2>1, SolvedFacts DEF TypeOK, SearchNodes
  <2>3. UNCHANGED answer
    BY <2>1 DEF NodeStall, NodePrune, NodeIntegral, NodeBranch, Push
  <2> QED
    BY <1>1, <1>6, <2>2, <2>3 DEF SolveNode, Pop
<1>7. ASSUME NEW n \in queue, NodeThrow(n) PROVE Contract!Next
  BY <1>3, <1>7 DEF NodeThrow, Pop
<1>8. ASSUME NEW n \in queue, FinishBudget(n) PROVE Contract!Next
  <2>1. /\ pc = "search" /\ pc' = "answered" /\ optimal' = FALSE
        /\ incumbent_bins' = incumbent_bins /\ lower_bound' = n.safe_bound
    BY <1>8 DEF FinishBudget
  <2>2. lower_bound' \in 1..Cardinality(Items)
    BY <2>1 DEF Certifying
  <2>3. /\ incumbent_bins' \in PackingSizes /\ incumbent_bins' \in Nat
        /\ lower_bound' \in Nat /\ missed' \in SUBSET Packings
    BY <2>2, PackingSizesType, ItemsFacts DEF TypeOK
  <2>4. \/ BoundsAllBut(lower_bound', missed')
        \/ BoundsAllBut(incumbent_bins', missed')
    BY <2>1, <2>3 DEF Correct, PartialBoundSound, Certifying, NoBound
  <2>5. MissedSizes' = SizesBelow(incumbent_bins', missed')
    BY <2>1 DEF MissedSizes
  <2>6. /\ MissedSizes' \in SUBSET {k \in PackingSizes : k < incumbent_bins'}
        /\ Contract!Sound(lower_bound', incumbent_bins', MissedSizes')
    BY <2>3, <2>4, <2>5, SizesBelowFacts, SamePackings DEF Contract!Sound
  <2>7. Contract!AnswerPartial
    BY <2>1, <2>2, <2>3, <2>6, SamePackings DEF Contract!AnswerPartial
  <2> QED
    BY <2>7 DEF Contract!Next
<1>9. CASE FinishExhausted
  BY <1>2, <1>9, PackingSizesType DEF FinishExhausted, TypeOK
<1>10. CASE UNCHANGED vars
  BY <1>10 DEF vars, answer, Contract!vars, MissedSizes
<1> QED
  BY <1>4, <1>5, <1>6, <1>7, <1>8, <1>9, <1>10 DEF Next

(* When nodes are always certified, the best-bound driver implements the   *)
(* contract of solve_branch_and_price.                                     *)
THEOREM BestBoundImplements ==
  ASSUME ~CanStall PROVE Spec => Implements
<1>1. Init => Contract!Init
  BY SamePackings DEF Init, Contract!Init, MissedSizes
<1>2. TypeOK /\ TypeOK' /\ Accounting /\ Accounting' /\ Certifying /\ Certifying'
      /\ Correct' /\ [Next]_vars => [Contract!Next]_Contract!vars
  BY ContractStep
<1> QED
  BY <1>1, <1>2, TypeCorrect, AccountingCorrect, CertifyingAlways, CorrectAlways, PTL
  DEF Spec, Implements, Contract!Spec
-----------------------------------------------------------------------------
(* The child that holds the two items together is never empty, and the     *)
(* other only if the pair is bonded, which is not a constraint of the      *)
(* node.                                                                   *)
LEMMA BranchingSplits ==
  ASSUME NEW b \in BranchingStates, NEW r \in Relaxations(b), r.pair # NoPair
  PROVE  LET together == Admitted(Child(b, r.pair, "Together"))
             different == Admitted(Child(b, r.pair, "Different"))
         IN  /\ together \cup different = Admitted(b) /\ together \cap different = {}
             /\ together # {}
             /\ different # {} \/ Bonded(b, r.pair)
             /\ [pair |-> r.pair, relation |-> "Different"] \notin b
<1> DEFINE c == [pair |-> r.pair, relation |-> "Different"]
<1>1. Admitted(b) # {} /\ r.pair \in CoOccurring(b) /\ r.pair \in Pairs
  BY RelaxationFacts DEF Relaxations, FractionalPairs
<1>2. PICK S \in AcceptedPatterns(b) : Both(r.pair, S)
  BY <1>1 DEF CoOccurring
<1>3. \A P \in Packings :
        /\ P \in Admitted(b) <=> \/ P \in Admitted(Child(b, r.pair, "Together"))
                                 \/ P \in Admitted(Child(b, r.pair, "Different"))
        /\ ~(/\ P \in Admitted(Child(b, r.pair, "Together"))
             /\ P \in Admitted(Child(b, r.pair, "Different")))
  BY <1>1, RyanFoster DEF Admitted
<1>4. \A d : Admitted(d) \subseteq Packings
  BY DEF Admitted
<1>5. ~ConstraintAccepts(c, S)
  BY <1>2 DEF ConstraintAccepts
<1>6. Admitted(Child(b, r.pair, "Together")) # {}
  <2>1. PICK P \in Packings : Admits(b, P)
    BY <1>1 DEF Admitted
  <2>2. PICK Q \in Packings : S \in Q /\ Admits(b, Q)
    BY <1>2, <2>1, PatternInPacking
  <2>3. ~Admits(Child(b, r.pair, "Different"), Q)
    BY <1>5, <2>2 DEF Admits, Accepts, Child
  <2> QED
    BY <1>3, <2>2, <2>3 DEF Admitted
<1>7. Admitted(Child(b, r.pair, "Different")) # {} \/ Bonded(b, r.pair)
  BY <1>1, BothChildrenAdmit DEF Relations
<1>8. c \notin b
  BY <1>2, <1>5 DEF AcceptedPatterns, Accepts
<1> QED
  BY <1>3, <1>4, <1>6, <1>7, <1>8

LEMMA QueuedFeasibleStep == TypeOK /\ QueuedFeasible /\ [Next]_vars => QueuedFeasible'
<1> SUFFICES ASSUME TypeOK, QueuedFeasible, [Next]_vars PROVE QueuedFeasible'
  OBVIOUS
<1>1. ASSUME queue' \subseteq queue PROVE QueuedFeasible'
  BY <1>1 DEF QueuedFeasible
<1>2. ASSUME NEW b \in BranchingStates, NEW r \in Relaxations(b), NEW depth,
             NEW rest \in SUBSET queue, r.pair # NoPair, Push(b, r, depth, rest)
      PROVE  QueuedFeasible'
  <2> DEFINE c == [pair |-> r.pair, relation |-> "Different"]
  <2>1. /\ Admitted(Child(b, r.pair, "Together")) # {}
        /\ Admitted(Child(b, r.pair, "Different")) # {} \/ Bonded(b, r.pair)
        /\ c \notin b
    BY <1>2, BranchingSplits
  <2>2. Child(b, r.pair, "Different") \ {c} = b /\ c \in Child(b, r.pair, "Different")
    BY <2>1 DEF Child
  <2>3. ASSUME NEW n \in Children(b, r, depth)
        PROVE  \/ Admitted(n.branching) # {}
               \/ \E d \in n.branching :
                     d.relation = "Different" /\ Bonded(n.branching \ {d}, d.pair)
    <3>1. CASE n.branching = Child(b, r.pair, "Together")
      BY <2>1, <3>1
    <3>2. CASE n.branching = Child(b, r.pair, "Different")
      <4>1. c.relation = "Different" /\ c.pair = r.pair
        OBVIOUS
      <4> HIDE DEF c
      <4> QED
        BY <2>1, <2>2, <3>2, <4>1
    <3> QED
      BY <3>1, <3>2 DEF Children
  <2>4. queue' = rest \cup Children(b, r, depth)
    BY <1>2 DEF Push
  <2> QED
    BY <2>3, <2>4 DEF QueuedFeasible
<1>3. CASE SolveRoot
  <2>1. PICK r \in Relaxations({}) :
           RootStall(r) \/ RootPrune(r) \/ RootIntegral(r) \/ RootBranch(r)
    BY <1>3 DEF SolveRoot
  <2>2. CASE RootBranch(r)
    BY <1>2, <2>2, RootAdmitsAll DEF RootBranch
  <2> QED
    BY <1>1, <2>1, <2>2 DEF RootStall, RootPrune, RootIntegral
<1>4. ASSUME NEW n \in queue, SolveNode(n) PROVE QueuedFeasible'
  <2>1. PICK r \in Relaxations(n.branching) :
           NodeStall(n, r) \/ NodePrune(n, r) \/ NodeIntegral(n, r) \/ NodeBranch(n, r)
    BY <1>4 DEF SolveNode
  <2>2. CASE NodeBranch(n, r)
    <3>1. n.branching \in BranchingStates
      BY DEF TypeOK, SearchNodes
    <3> QED
      BY <1>2, <2>2, <3>1 DEF NodeBranch
  <2> QED
    BY <1>1, <2>1, <2>2 DEF NodeStall, NodePrune, NodeIntegral
<1>5. CASE RootThrow \/ FinishExhausted \/ UNCHANGED vars
         \/ \E n \in queue : NodeThrow(n) \/ FinishBudget(n)
  BY <1>1, <1>5 DEF RootThrow, FinishExhausted, vars, NodeThrow, FinishBudget
<1> QED
  BY <1>3, <1>4, <1>5 DEF Next

(* The only infeasible master branching can hand to column generation is   *)
(* the one that keeps a bonded pair apart (branch_and_price.cpp:145-149).  *)
THEOREM QueuedFeasibleCorrect == Spec => []QueuedFeasible
<1>1. Init => QueuedFeasible
  BY DEF Init, QueuedFeasible
<1> QED
  BY <1>1, QueuedFeasibleStep, TypeCorrect, PTL DEF Spec
-----------------------------------------------------------------------------
(* Every feasible node of the tree is told apart by packings.  What the    *)
(* nodes of a queue q admit is disjoint, node by node, and a set of        *)
(* packings grows with the tree, so that every feasible node admits        *)
(* exactly one of the set: each branching marks one more packing, or       *)
(* leaves one more infeasible node.                                        *)
Disjoint(q) ==
    \A m, n \in q : m # n => Admitted(m.branching) \cap Admitted(n.branching) = {}

Represented(b, Marked) == \E P \in Marked : Admitted(b) \cap Marked = {P}

Separates(Marked, q, generated) ==
    /\ Marked \in SUBSET Packings
    /\ 2 * Cardinality(Marked) + 2 * Cardinality(Infeasible(q)) = 2 + generated
    /\ \A n \in q \ Infeasible(q) : Represented(n.branching, Marked)

Separated(q, generated) == Disjoint(q) /\ \E Marked : Separates(Marked, q, generated)

(* The inductive invariant of the size of the tree.                        *)
TreeInv ==
    pc = "search" =>
        /\ IsFiniteSet(queue)
        /\ \A n \in queue : n.sequence < sequence
        /\ processed_nodes + Cardinality(queue) = 1 + generated_nodes
        /\ Separated(queue, generated_nodes)

LEMMA PackingsFinite == IsFiniteSet(Packings) /\ Cardinality(Packings) \in Nat
<1>1. IsFiniteSet(SUBSET Patterns)
  BY ItemsFacts, FS_SUBSET
<1>2. Packings \subseteq SUBSET Patterns
  BY DEF Packings
<1> QED
  BY <1>1, <1>2, FS_Subset, FS_CardinalityType

(* One more packing, Q, marks the part of a node that P does not mark.     *)
Marks(Marked, one, P, other, Q) ==
    /\ Marked \cup {Q} \in SUBSET Packings
    /\ Cardinality(Marked \cup {Q}) = Cardinality(Marked) + 1
    /\ one \cap (Marked \cup {Q}) = {P} /\ other \cap (Marked \cup {Q}) = {Q}

(* One more packing is chosen for the child that the chosen packing of its *)
(* parent does not go to.                                                  *)
LEMMA OneMoreMarked ==
  ASSUME NEW Marked \in SUBSET Packings, NEW one \in SUBSET Packings,
         NEW other \in SUBSET Packings, one \cap other = {}, other # {},
         NEW P \in Marked, (one \cup other) \cap Marked = {P}, P \in one
  PROVE  \E Q \in other : Marks(Marked, one, P, other, Q)
<1>1. PICK Q \in other : Q \notin Marked
  OBVIOUS
<1>2. IsFiniteSet(Marked)
  BY PackingsFinite, FS_Subset
<1>3. Cardinality(Marked \cup {Q}) = Cardinality(Marked) + 1
  BY <1>1, <1>2, FS_AddElement
<1>4. one \cap (Marked \cup {Q}) = {P}
  <2>1. Q \notin one
    BY <1>1
  <2>2. one \cap Marked = {P}
    OBVIOUS
  <2> QED
    BY <2>1, <2>2
<1>5. other \cap (Marked \cup {Q}) = {Q}
  <2>1. other \cap Marked = {}
    OBVIOUS
  <2> QED
    BY <1>1, <2>1
<1>6. Marked \cup {Q} \in SUBSET Packings
  BY <1>1
<1> QED
  BY <1>1, <1>3, <1>4, <1>5, <1>6 DEF Marks

(* A node to branch on beside the rest of the queue.                       *)
Beside(b, rest, generated, Marked) ==
    /\ rest \in SUBSET SearchNodes /\ IsFiniteSet(rest) /\ generated \in Nat
    /\ \A m \in rest : m.sequence < sequence
    /\ Disjoint(rest)
    /\ \A m \in rest : Admitted(m.branching) \cap Admitted(b) = {}
    /\ Separates(Marked, rest, generated)
    /\ Represented(b, Marked)

(* A branching keeps the queue separated and makes it one node longer.     *)
LEMMA BranchSeparates ==
  ASSUME NEW b \in BranchingStates, NEW r \in Relaxations(b), r.pair # NoPair,
         NEW rest, NEW generated, NEW Marked, Beside(b, rest, generated, Marked),
         NEW depth, sequence \in Nat
  PROVE  LET q == rest \cup Children(b, r, depth)
         IN  /\ IsFiniteSet(q) /\ Cardinality(q) = Cardinality(rest) + 2
             /\ \A n \in q : n.sequence < sequence + 2
             /\ Separated(q, generated + 2)
<1> DEFINE first == [branching |-> Child(b, r.pair, "Together"), safe_bound |-> r.safe_bound,
                     depth |-> depth, sequence |-> sequence]
           second == [branching |-> Child(b, r.pair, "Different"), safe_bound |-> r.safe_bound,
                      depth |-> depth, sequence |-> sequence + 1]
           together == Admitted(first.branching)
           different == Admitted(second.branching)
           q == rest \cup Children(b, r, depth)
<1>1. q = (rest \cup {first}) \cup {second}
  BY DEF Children
<1>2. /\ together \cup different = Admitted(b) /\ together \cap different = {}
      /\ together # {}
  BY BranchingSplits
<1>3. first.sequence = sequence /\ second.sequence = sequence + 1
  OBVIOUS
<1> USE DEF Beside
<1> HIDE DEF first, second, q
<1>4. first \notin rest /\ second \notin rest /\ first # second
  BY <1>3 DEF SearchNodes
<1>5. /\ IsFiniteSet(q) /\ Cardinality(q) = Cardinality(rest) + 2
      /\ \A n \in q : n.sequence < sequence + 2
  <2>1. /\ IsFiniteSet(rest \cup {first})
        /\ Cardinality(rest \cup {first}) = Cardinality(rest) + 1
    BY <1>4, FS_AddElement
  <2>2. /\ IsFiniteSet((rest \cup {first}) \cup {second})
        /\ Cardinality((rest \cup {first}) \cup {second}) = Cardinality(rest \cup {first}) + 1
    BY <1>4, <2>1, FS_AddElement
  <2>3. Cardinality(rest) \in Nat
    BY FS_CardinalityType
  <2>4. \A n \in q : n.sequence < sequence + 2
    BY <1>1, <1>3 DEF SearchNodes
  <2> QED
    BY <1>1, <2>1, <2>2, <2>3, <2>4
<1>6. \A m \in rest : /\ Admitted(m.branching) \cap together = {}
                      /\ Admitted(m.branching) \cap different = {}
  BY <1>2
<1>7. Disjoint(q)
  BY <1>1, <1>2, <1>6 DEF Disjoint
<1>8. /\ Marked \in SUBSET Packings /\ Cardinality(Marked) \in Nat
      /\ 2 * Cardinality(Marked) + 2 * Cardinality(Infeasible(rest)) = 2 + generated
      /\ \A m \in rest \ Infeasible(rest) : Represented(m.branching, Marked)
  BY PackingsFinite, FS_Subset, FS_CardinalityType DEF Separates
<1>9. PICK P \in Marked : Admitted(b) \cap Marked = {P}
  BY DEF Represented
<1>10. Admitted(b) \subseteq Packings
  BY DEF Admitted
<1>11. IsFiniteSet(Infeasible(rest)) /\ Cardinality(Infeasible(rest)) \in Nat
  BY FS_Subset, FS_CardinalityType DEF Infeasible
<1>12. CASE different = {}
  <2>1. Infeasible(q) = Infeasible(rest) \cup {second} /\ second \notin Infeasible(rest)
    BY <1>1, <1>2, <1>4, <1>12 DEF Infeasible
  <2>2. Cardinality(Infeasible(q)) = Cardinality(Infeasible(rest)) + 1
    BY <1>11, <2>1, FS_AddElement
  <2>3. Represented(first.branching, Marked)
    BY <1>2, <1>9, <1>12 DEF Represented
  <2>4. \A m \in q \ Infeasible(q) : Represented(m.branching, Marked)
    BY <1>1, <1>8, <2>1, <2>3
  <2>5. Separates(Marked, q, generated + 2)
    BY <1>8, <1>11, <2>2, <2>4 DEF Separates
  <2> QED
    BY <1>5, <1>7, <2>5 DEF q, Separated
<1>13. CASE different # {}
  <2>1. Infeasible(q) = Infeasible(rest)
    BY <1>1, <1>2, <1>13 DEF Infeasible
  <2>2. PICK Q \in together \cup different :
           /\ Marked \cup {Q} \in SUBSET Packings
           /\ Cardinality(Marked \cup {Q}) = Cardinality(Marked) + 1
           /\ Represented(first.branching, Marked \cup {Q})
           /\ Represented(second.branching, Marked \cup {Q})
    <3> HIDE DEF together, different
    <3>0. /\ together \in SUBSET Packings /\ different \in SUBSET Packings
          /\ together \cap different = {} /\ different \cap together = {}
          /\ (together \cup different) \cap Marked = {P}
          /\ (different \cup together) \cap Marked = {P}
      BY <1>2, <1>9, <1>10
    <3>1. CASE P \in together
      <4>1. PICK Q \in different : Marks(Marked, together, P, different, Q)
        BY <1>8, <1>9, <1>13, <3>0, <3>1, OneMoreMarked
      <4> QED
        BY <4>1 DEF Marks, Represented, together, different
    <3>2. CASE P \in different
      <4>1. PICK Q \in together : Marks(Marked, different, P, together, Q)
        BY <1>2, <1>8, <1>9, <3>0, <3>2, OneMoreMarked
      <4> QED
        BY <4>1 DEF Marks, Represented, together, different
    <3> QED
      BY <1>2, <1>9, <3>1, <3>2
  <2>3. \A m \in rest \ Infeasible(rest) : Represented(m.branching, Marked \cup {Q})
    <3>1. \A m \in rest : Q \notin Admitted(m.branching)
      BY <1>6, <2>2
    <3> QED
      BY <1>8, <3>1 DEF Represented
  <2>4. \A m \in q \ Infeasible(q) : Represented(m.branching, Marked \cup {Q})
    BY <1>1, <2>1, <2>2, <2>3
  <2>5. 2 * Cardinality(Marked \cup {Q}) + 2 * Cardinality(Infeasible(q)) = 2 + (generated + 2)
    BY <1>8, <1>11, <2>1, <2>2
  <2>6. Separates(Marked \cup {Q}, q, generated + 2)
    BY <2>2, <2>4, <2>5 DEF Separates
  <2> QED
    BY <1>5, <1>7, <2>6 DEF q, Separated
<1> QED
  BY <1>12, <1>13

LEMMA TreeInvStep == TypeOK /\ Accounting /\ TreeInv /\ [Next]_vars => TreeInv'
<1> SUFFICES ASSUME TypeOK, Accounting, TreeInv, [Next]_vars, pc' = "search" PROVE TreeInv'
  BY DEF TreeInv
<1>1. CASE SolveRoot
  <2>1. PICK r \in Relaxations({}) :
           Solved(r) /\ (RootStall(r) \/ RootPrune(r) \/ RootIntegral(r) \/ RootBranch(r))
    BY <1>1 DEF SolveRoot
  <2>2. RootBranch(r)
    BY <2>1 DEF RootStall, RootPrune, RootIntegral
  <2>3. /\ queue = {} /\ generated_nodes = 0 /\ processed_nodes' = 1
        /\ r.pair # NoPair /\ Push({}, r, 1, {}) /\ sequence \in Nat
    BY <1>1, <2>1, <2>2 DEF SolveRoot, RootBranch, Solved, Accounting, TypeOK
  <2>4. PICK P \in Packings : Admitted({}) \cap {P} = {P}
    BY RootAdmitsAll DEF TypeOK, PackingSizes, Admitted
  <2>5. {P} \in SUBSET Packings /\ Cardinality({P}) = 1
    BY FS_Singleton
  <2>6. Represented({}, {P})
    BY <2>4 DEF Represented
  <2>7. /\ IsFiniteSet({}) /\ Cardinality({}) = 0 /\ {} \in SUBSET SearchNodes
        /\ Disjoint({}) /\ Infeasible({}) = {}
    BY FS_EmptySet DEF Disjoint, Infeasible
  <2>8. Beside({}, {}, 0, {P})
    BY <2>5, <2>6, <2>7 DEF Beside, Separates
  <2> DEFINE q == {} \cup Children({}, r, 1)
  <2>9. /\ IsFiniteSet(q) /\ Cardinality(q) = 0 + 2
        /\ \A n \in q : n.sequence < sequence + 2
        /\ Separated(q, 0 + 2)
    BY <2>3, <2>7, <2>8, RootAdmitsAll, BranchSeparates
  <2>10. queue' = q /\ generated_nodes' = 0 + 2 /\ sequence' = sequence + 2
    BY <2>3 DEF Push
  <2> HIDE DEF q
  <2> QED
    BY <2>3, <2>9, <2>10 DEF TreeInv
<1>2. ASSUME NEW n \in queue, SolveNode(n) PROVE TreeInv'
  <2>1. PICK r \in Relaxations(n.branching) :
           Solved(r) /\ (NodeStall(n, r) \/ NodePrune(n, r)
                           \/ NodeIntegral(n, r) \/ NodeBranch(n, r))
    BY <1>2 DEF SolveNode
  <2>2. /\ processed_nodes' = processed_nodes + 1 /\ pc = "search"
        /\ processed_nodes \in Nat /\ generated_nodes \in Nat /\ sequence \in Nat
    BY <1>2, <2>1 DEF Solved, SolveNode, Pop, TypeOK
  <2> DEFINE rest == queue \ {n}
  <2>3. /\ IsFiniteSet(queue) /\ \A m \in queue : m.sequence < sequence
        /\ processed_nodes + Cardinality(queue) = 1 + generated_nodes
        /\ Disjoint(queue)
    BY <2>2 DEF TreeInv, Separated
  <2>4. PICK Marked : Separates(Marked, queue, generated_nodes)
    BY <2>2 DEF TreeInv, Separated
  <2>5. /\ IsFiniteSet(rest) /\ Cardinality(rest) = Cardinality(queue) - 1
        /\ Cardinality(queue) \in Nat /\ Cardinality(rest) \in Nat
    BY <2>3, FS_RemoveElement, FS_CardinalityType
  <2>6. Admitted(n.branching) # {}
    BY <2>1 DEF Relaxations
  <2>7. Infeasible(rest) = Infeasible(queue) /\ n \notin Infeasible(queue)
    BY <2>6 DEF Infeasible
  <2>8. Separates(Marked, rest, generated_nodes)
    BY <2>4, <2>7 DEF Separates
  <2>9. Disjoint(rest)
    BY <2>3 DEF Disjoint
  <2> HIDE DEF rest
  <2>10. CASE NodeStall(n, r) \/ NodePrune(n, r) \/ NodeIntegral(n, r)
    <3>1. queue' = rest /\ generated_nodes' = generated_nodes /\ sequence' = sequence
      BY <2>10 DEF NodeStall, NodePrune, NodeIntegral, rest
    <3>2. processed_nodes' + Cardinality(queue') = 1 + generated_nodes'
      BY <2>2, <2>3, <2>5, <3>1
    <3>3. \A m \in rest : m.sequence < sequence
      BY <2>3 DEF rest
    <3> QED
      BY <2>5, <2>8, <2>9, <3>1, <3>2, <3>3 DEF TreeInv, Separated
  <2>11. CASE NodeBranch(n, r)
    <3> DEFINE q == rest \cup Children(n.branching, r, n.depth + 1)
    <3>1. /\ queue' = q /\ generated_nodes' = generated_nodes + 2
          /\ sequence' = sequence + 2 /\ r.pair # NoPair
      BY <2>11 DEF NodeBranch, Push, rest
    <3>2. n.branching \in BranchingStates /\ rest \in SUBSET SearchNodes
      BY DEF TypeOK, SearchNodes, rest
    <3>3. \A m \in rest : /\ m.sequence < sequence
                          /\ Admitted(m.branching) \cap Admitted(n.branching) = {}
      BY <2>3 DEF Disjoint, rest
    <3>4. Represented(n.branching, Marked)
      BY <2>4, <2>7 DEF Separates
    <3>5. Beside(n.branching, rest, generated_nodes, Marked)
      BY <2>2, <2>5, <2>8, <2>9, <3>2, <3>3, <3>4 DEF Beside
    <3>6. /\ IsFiniteSet(q) /\ Cardinality(q) = Cardinality(rest) + 2
          /\ \A m \in q : m.sequence < sequence + 2
          /\ Separated(q, generated_nodes + 2)
      BY <2>2, <3>1, <3>2, <3>5, BranchSeparates
    <3> HIDE DEF q
    <3>7. processed_nodes' + Cardinality(queue') = 1 + generated_nodes'
      BY <2>2, <2>3, <2>5, <3>1, <3>6
    <3> QED
      BY <3>1, <3>6, <3>7 DEF TreeInv
  <2> QED
    BY <2>1, <2>10, <2>11
<1>3. CASE RootThrow \/ FinishExhausted
         \/ \E n \in queue : NodeThrow(n) \/ FinishBudget(n)
  BY <1>3 DEF RootThrow, FinishExhausted, NodeThrow, FinishBudget
<1>4. CASE UNCHANGED vars
  BY <1>4 DEF vars, counters, TreeInv
<1> QED
  BY <1>1, <1>2, <1>3, <1>4 DEF Next

LEMMA TreeInvariant == Spec => []TreeInv
<1>1. Init => TreeInv
  BY DEF Init, TreeInv
<1> QED
  BY <1>1, TreeInvStep, TypeCorrect, AccountingCorrect, PTL DEF Spec

(* The search has no more nodes, solved and queued, than there are         *)
(* packings to tell apart, twice, and two for each queued node that throws *)
(* when it is solved, whatever the engine answers.                         *)
THEOREM TreeBoundCorrect == Spec => []TreeBound
<1>1. TypeOK /\ TreeInv => TreeBound
  <2> SUFFICES ASSUME TypeOK, TreeInv, pc = "search"
               PROVE  processed_nodes + Cardinality(queue)
                        =< 2 * (Cardinality(Packings) + Cardinality(Infeasible(queue))) - 1
    BY DEF TreeBound
  <2>1. PICK Marked : Separates(Marked, queue, generated_nodes)
    BY DEF TreeInv, Separated
  <2>2. Cardinality(Marked) =< Cardinality(Packings) /\ Cardinality(Marked) \in Nat
    BY <2>1, PackingsFinite, FS_Subset, FS_CardinalityType DEF Separates
  <2>3. Cardinality(Infeasible(queue)) \in Nat
    BY FS_Subset, FS_CardinalityType DEF TreeInv, Infeasible
  <2>4. /\ processed_nodes + Cardinality(queue) = 1 + generated_nodes
        /\ generated_nodes \in Nat /\ Cardinality(Packings) \in Nat
    BY PackingsFinite DEF TreeInv, TypeOK
  <2>5. 2 * Cardinality(Marked) + 2 * Cardinality(Infeasible(queue)) = 2 + generated_nodes
    BY <2>1 DEF Separates
  <2> QED
    BY <2>2, <2>3, <2>4, <2>5
<1> QED
  BY <1>1, TypeCorrect, TreeInvariant, PTL
=============================================================================

----------------------------- MODULE Branching -----------------------------
(***************************************************************************)
(* Ryan-Foster branching (src/search/branching.cpp).  A constraint says    *)
(* that two items share a bin (Together) or do not (Different); a          *)
(* branching state is the list of constraints of a node, kept here as a    *)
(* set because accepts() does not depend on their order or repetition.     *)
(***************************************************************************)
EXTENDS Packing

Pairs == {p \in Items \X Items : p[1] < p[2]}

(* FractionalPair() as it is default constructed: no fractional pair.      *)
NoPair == <<-1, -1>>

Relations == {"Together", "Different"}

Constraints == [pair : Pairs, relation : Relations]

BranchingStates == SUBSET Constraints

Both(p, S) == p[1] \in S /\ p[2] \in S

(* RyanFosterConstraint::accepts                                           *)
ConstraintAccepts(c, S) ==
    IF c.relation = "Together" THEN c.pair[1] \in S <=> c.pair[2] \in S
                               ELSE ~Both(c.pair, S)

(* BranchingState::accepts                                                 *)
Accepts(b, S) == \A c \in b : ConstraintAccepts(c, S)

(* BranchingState::child                                                   *)
Child(b, p, relation) == b \cup {[pair |-> p, relation |-> relation]}

AcceptedPatterns(b) == {S \in Patterns : Accepts(b, S)}

(* The packings a node stands for: those all of whose bins it accepts.     *)
Admits(b, P) == \A S \in P : Accepts(b, S)

Admitted(b) == {P \in Packings : Admits(b, P)}

(* The pairs that can have a positive co-occurrence in a master solution   *)
(* of the node: some column with both items exists.                        *)
CoOccurring(b) ==
    LET columns == AcceptedPatterns(b)
    IN  {p \in Pairs : \E S \in columns : Both(p, S)}

(* The items of the pair lie in exactly the same columns of the node: the  *)
(* node's Together constraints already imply that they share a bin.        *)
Bonded(b, p) == \A S \in AcceptedPatterns(b) : p[1] \in S <=> p[2] \in S
=============================================================================

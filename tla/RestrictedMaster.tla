-------------------------- MODULE RestrictedMaster --------------------------
(***************************************************************************)
(* The restricted master problem (src/master/cplex_rmp.cpp and the other   *)
(* backends): one variable for each column of the pool, a row for each     *)
(* item, which must be covered, and one for each active subset-row cut.    *)
(* The LP solver is external: it answers with any cheapest solution.       *)
(*                                                                         *)
(* Values are multiples of one One-th of a bin: every vertex of the master *)
(* is rational and so lies on such a grid.  A column has no upper bound in *)
(* the code, but no cheapest solution takes more than a whole one.         *)
(***************************************************************************)
EXTENDS BinPacking, FiniteSetsExt

CONSTANTS Columns,          \* the patterns a pool may hold
          One               \* the parts a whole column is counted in

ASSUME ColumnsAssumption == Columns \subseteq Patterns

ASSUME OneAssumption == One \in Nat \ {0}

Values == 0..One

Total(v, S) == Cardinality({e \in S \X (1..One) : e[2] =< v[e[1]]})

Covering(i) == {c \in Columns : i \in c}

(* The rows of the master: every item is covered, and may be covered twice.*)
MasterSolutions ==
    {v \in [Columns -> Values] : \A i \in Items : Total(v, Covering(i)) >= One}

(* Sr3Cut::coefficient is one on the columns with two items of the triple. *)
CutRow(T) == {c \in Columns : Cardinality(c \cap T) >= 2}

Used(v) == {c \in Columns : v[c] > 0}

Cost(v) == Total(v, Columns)

(* The columns outside the pool are not there; those that a node fixes at  *)
(* zero (set_pattern_eligible) might as well not be.                       *)
PoolSolutions(pool, cuts) ==
    {v \in MasterSolutions : /\ Used(v) \subseteq pool
                             /\ \A T \in cuts : Total(v, CutRow(T)) =< One}

Optima(pool, cuts) ==
    LET solutions == PoolSolutions(pool, cuts)
        least == Min({Cost(v) : v \in solutions})
    IN  {v \in solutions : Cost(v) = least}

(* Every item is covered once, which the rows do not ask for.              *)
CoversOnce(v) == \A i \in Items : Total(v, Covering(i)) = One

(* The columns worth more than half a bin.                                 *)
Heavy(v) == {c \in Columns : 2 * v[c] > One}
=============================================================================

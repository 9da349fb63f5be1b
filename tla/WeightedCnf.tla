----------------------------- MODULE WeightedCnf -----------------------------
(***************************************************************************)
(* A CNF formula with weights on its literals and a set of projected       *)
(* variables, and the number d4 is asked for: the weighted number of       *)
(* assignments of the projected variables that extend to a model.          *)
(* The definitions are a reference: nothing here follows the algorithm.    *)
(***************************************************************************)
EXTENDS Cnf

CONSTANTS
  Weight,    \* the weight of each literal
  Projected  \* the variables the count is projected on

ASSUME WeightAssumption == Weight \in [Literal -> Int]
ASSUME ProjectedAssumption == Projected \subseteq Var

WeightOf(m) == FoldSet(LAMBDA l, w : Weight[l] * w, 1, m)

\* The weighted projected count, over the variables C, of clauses over C.
Count(cls, C) ==
  MapThenSumSet(WeightOf, {Over(m, Projected) : m \in ModelsOver(cls, C)})

FormulaCount == Count(Clauses, Var)
=============================================================================

---------------------------- MODULE ResidualFormula ----------------------------
(***************************************************************************)
(* The occurrence manager as the search sees it: what is left of the       *)
(* clauses cls once the literals o have been passed to preUpdate, and the  *)
(* components it falls into.  Module OccurrenceManager is how.             *)
(***************************************************************************)
EXTENDS Cnf

Left(c, o) == {l \in c : VarOf(l) \notin VarsOf(o)}
Unsatisfied(cls, o) == {c \in cls : c \cap o = {}}

\* computeConnectedComponent: variables are connected by unsatisfied clauses
\* (connectedToLit for both literals); a variable that reaches no other is free.
Touches(c, S) == VarsOf(c) \cap S # {}
ComponentOf(cls, v, o) ==
  LET left == {Left(c, o) : c \in Unsatisfied(cls, o)}
      step == [S \in SUBSET Var |-> S \cup UNION {VarsOf(c) : c \in {d \in left : Touches(d, S)}}]
      reach[n \in 0 .. Cardinality(Var)] == IF n = 0 THEN {v} ELSE step[reach[n - 1]]
  IN  reach[Cardinality(Var)]
IsAlone(cls, v, o) == ComponentOf(cls, v, o) = {v}
FreeVariables(cls, C, o) == {v \in C \ VarsOf(o) : IsAlone(cls, v, o)}
Components(cls, C, o) ==
  {ComponentOf(cls, v, o) \cap C : v \in {w \in C \ VarsOf(o) : ~IsAlone(cls, w, o)}}

CurrentClauses(cls, C, o) == {c \in Unsatisfied(cls, o) : VarsOf(Left(c, o)) \cap C # {}}
Residual(cls, C, o) == {Left(c, o) : c \in CurrentClauses(cls, C, o)}

\* (Mutant of PostUpdate: one literal is not undone.)
PostUpdateButOne(o, units) == o \ {l \in units : l # CHOOSE x \in units : TRUE}
PostUpdate(o, units) == o \ units
=============================================================================

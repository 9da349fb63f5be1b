--------------------------------- MODULE Cnf ---------------------------------
(***************************************************************************)
(* A CNF formula over the signed integers of the DIMACS format, what it    *)
(* implies, and what unit propagation finds of that.  The definitions are  *)
(* a reference: nothing here follows the code.                             *)
(***************************************************************************)
EXTENDS Integers, FiniteSets, FiniteSetsExt

CONSTANTS
  Var,      \* the variables, positive integers
  Clauses   \* a set of clauses, each a set of literals

Literal == Var \cup {-v : v \in Var}

ASSUME VarAssumption == Var \subseteq Nat \ {0} /\ IsFiniteSet(Var)
ASSUME ClausesAssumption == Clauses \in SUBSET ((SUBSET Literal) \ {{}})

VarOf(l) == IF l > 0 THEN l ELSE -l
VarsOf(S) == {VarOf(l) : l \in S}
Over(S, C) == {l \in S : VarOf(l) \in C}
Negated(S) == {-l : l \in S}
Conflicting(S) == \E l \in S : -l \in S

Assignments(C) == {{IF b[v] THEN v ELSE -v : v \in C} : b \in [C -> BOOLEAN]}
ModelsOver(cls, C) == {m \in Assignments(C) : \A c \in cls : c \cap m # {}}
Models == ModelsOver(Clauses, Var)

Satisfiable(S) == \E m \in Models : S \subseteq m
Implied == [S \in SUBSET Literal |-> {l \in Literal : \A m \in Models : S \subseteq m => l \in m}]

Consequences == [S \in SUBSET Literal |->
  S \cup {l \in Literal : \E c \in Clauses : l \in c /\ Negated(c \ {l}) \subseteq S}]
Propagate == [S \in SUBSET Literal |->
  LET up[n \in 0 .. Cardinality(Var)] == IF n = 0 THEN S ELSE Consequences[up[n - 1]]
  IN  up[Cardinality(Var)]]
=============================================================================

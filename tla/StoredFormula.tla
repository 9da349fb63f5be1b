----------------------------- MODULE StoredFormula -----------------------------
(***************************************************************************)
(* The key of the cache: the variables of a component and, of its clauses, *)
(* the ones the storing mode keeps: all, those with more than two          *)
(* literals, or those that lost a literal.  The literals of a clause are   *)
(* stored by the places of their variables in the component.               *)
(***************************************************************************)
EXTENDS ResidualFormula

CONSTANT CacheMode   \* "ALL", "NB", "NT" (option cs) or "off" (optCache = 0)

ASSUME CacheModeAssumption == CacheMode \in {"ALL", "NB", "NT", "off"}

Stored(c, o) == CASE CacheMode = "NB" -> Cardinality(c) > 2
                  [] CacheMode = "NT" -> Left(c, o) # c
                  [] OTHER -> TRUE
PlaceIn(l, C) == LET p == Cardinality({v \in C : v <= VarOf(l)}) IN IF l > 0 THEN p ELSE -p
StoredClauses(cls, C, o) ==
  {{PlaceIn(l, C) : l \in Left(c, o)} : c \in {d \in CurrentClauses(cls, C, o) : Stored(d, o)}}
\* (Mutant of Key: the variables are not part of it.)
KeyWithoutVariables(cls, C, o) == [variables |-> {}, clauses |-> StoredClauses(cls, C, o)]
Key(cls, C, o) == [variables |-> C, clauses |-> StoredClauses(cls, C, o)]
=============================================================================

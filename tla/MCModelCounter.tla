---------------------------- MODULE MCModelCounter ----------------------------
(* Deciding variable 1 separates {2, 3} from {4, 5}; -4 is implied by two    *)
(* clauses, which propagation does not find but a learnt clause or a failed  *)
(* literal does.                                                             *)
EXTENDS ModelCounter

MCVar == 1 .. 5
MCClauses == {{2, 3}, {1, 2, 4}, {-4, 5}, {-4, -5}, {1, 3, 5}}
MCUnitWeight == [l \in MCVar \cup {-v : v \in MCVar} |-> 1]
MCWeight == [l \in MCVar \cup {-v : v \in MCVar} |-> IF l > 0 THEN l ELSE 2]
MCProjected == {1, 5}
MCAllTrue == {TRUE}
MCBoth == BOOLEAN

\* A formula whose unsatisfiable branch (1 true) takes a decision to refute.
MCHardClauses == {{2, 3}, {1, 2, 4}, {-1, 4, 5}, {-1, 4, -5}, {-1, -4, 5}, {-1, -4, -5}}
==============================================================================

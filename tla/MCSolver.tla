------------------------------- MODULE MCSolver -------------------------------
(* Nine clauses over five variables: the solver learns, restarts, reduces   *)
(* its clauses with and without moving them while they are reasons, and finds *)
(* failed literals and classes.                                               *)
EXTENDS Solver

MCVar == 1 .. 5
MCInput == <<{2, -4}, {-1, 2, 4}, {-2, 3, -5}, {-2, -3, -5}, {1, -3, 4, -5}, {-5, -1, 4, -3},
             {1, 5}, {-1, 4, 5, -3}, {4, 1, 3, -5}>>
MCClauses == ToSet(MCInput)
MCActivities == {[v \in MCVar |-> 0], [v \in MCVar |-> v], [v \in MCVar |-> 5 - v],
                 [v \in MCVar |-> (2 * v) % 5], [v \in MCVar |-> (3 * v) % 5]}
MCBranches == {-2, 1}
=============================================================================

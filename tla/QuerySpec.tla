------------------------------- MODULE QuerySpec -------------------------------
(***************************************************************************)
(* What d4 -dDNNF promises of the graph it compiles: whatever was asked    *)
(* before, the number asked for is the count of the formula under the      *)
(* literals of the query, and it is satisfiable if a model has them.       *)
(***************************************************************************)
EXTENDS WeightedCnf

CONSTANT Queries   \* sets of literals

VARIABLES asked, answer   \* the last query and its answer

CountUnder(q) == Count(Clauses \cup {{l} : l \in q}, Var)

Init == asked = <<>> /\ answer = <<>>

Number(q) == asked' = <<"m", q>> /\ answer' = <<CountUnder(q)>>
Decide(q) == asked' = <<"d", q>> /\ answer' = <<IF Satisfiable(q) THEN 1 ELSE 0>>

Next == Number({}) \/ \E q \in Queries : Number(q) \/ Decide(q)
Spec == Init /\ [][Next]_<<asked, answer>>
=============================================================================

------------------------------- MODULE MCCompiler -------------------------------
(* Deciding variable 1 false leaves 4 and 5 to failed literals and the other *)
(* clauses to them; deciding it true makes 2 and 3 equivalent.               *)
EXTENDS Compiler

MCVar == 1 .. 6
MCClauses ==
  {{1, 4, -5}, {1, -4, 5}, {1, -4, -5}, {-1, -2, 3}, {-1, 2, -3}, {2, 4, 6}, {2, -6}, {-3, 5}}
MCWeight == [l \in MCVar \cup {-v : v \in MCVar} |-> IF l > 0 THEN l ELSE 2]
MCOption(order, phase, certified, decomposable) ==
  [order |-> order, phase |-> phase, certified |-> certified, decomposableAndNode |-> decomposable]
MCOptions ==
  {MCOption(<<1, 2, 3, 4, 5, 6>>, FALSE, TRUE, TRUE), MCOption(<<4, 5, 1, 2, 3, 6>>, TRUE, TRUE, TRUE),
   MCOption(<<3, 1, 2, 6, 5, 4>>, TRUE, FALSE, FALSE)}
MCQueries == {{1}, {-2, 5}}

\* 2 and 3 are in a class when 4 and 5 turn out to be determined, and with them
\* 2.
MCStaleClauses == {{-5, 6}, {-5, -6}, {5, 4}, {5, -4, 2}, {-2, 3}, {2, -3}, {1, -5, 3}}
=============================================================================

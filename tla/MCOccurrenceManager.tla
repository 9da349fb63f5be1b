------------------------- MODULE MCOccurrenceManager -------------------------
(* A formula that variable 1 holds together: once it is true, {2, 3} and     *)
(* {4, 5} are separate components.  The last clause is a tautology, which    *)
(* the model counter does not remove.                                        *)
EXTENDS OccurrenceManagerInv, Heuristics, TLC

MCVar == 1 .. 5
MCClauses == << <<1, 2, 4>>, <<3, -2, -1>>, <<5, -5, -4>> >>
MCLits == [c \in 0 .. 2 |-> {MCClauses[c + 1][k] : k \in DOMAIN MCClauses[c + 1]}]
MCFirstOf(c, S) ==
  LET cl == MCClauses[c + 1]
      P == {k \in DOMAIN cl : cl[k] \in S}
  IN  cl[CHOOSE k \in P : \A j \in P : k <= j]
MCActivity == [v \in MCVar |-> IF v = 4 THEN 2 ELSE 0]
MCPolarity == [v \in MCVar |-> FALSE]
MCProjected == MCVar \ {1}
=============================================================================

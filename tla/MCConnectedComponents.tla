------------------------ MODULE MCConnectedComponents ------------------------
(* Six variables: a chain of three, a pair that a clause of three joins to it, *)
(* one in no clause, and calls nested four deep.                              *)
EXTENDS ConnectedComponents, TLC

MCVars == <<3, 1, 6, 5, 2, 4>>
MCVarsOf == <<{1, 2}, {2, 3}, {3, 4, 5}, {4, 5}>>
=============================================================================

----------------------------- MODULE Subsequence -----------------------------
(***************************************************************************)
(* A loop over a vector that pushes on another one what passes a test:     *)
(* SelectSeq for a test that is a set, defined by recursion over the       *)
(* positions so that it can be reasoned about.                             *)
(***************************************************************************)
EXTENDS Integers, Sequences

\* The members of the set S that s lists, in the order in which s lists them.
Kept(s, S) ==
  LET kept[n \in 0 .. Len(s)] ==
        IF n = 0 THEN <<>>
        ELSE IF s[n] \in S THEN Append(kept[n - 1], s[n]) ELSE kept[n - 1]
  IN kept[Len(s)]
=============================================================================

---------------------------- MODULE MCBucketSort ----------------------------
(* Four variables and one assigned; any four clauses out of six shapes: equal  *)
(* clauses, clauses that share a prefix, clauses with a literal out of date.   *)
(* A byte has four values, so the widths change at 4 and 16: components end    *)
(* on both sides of these, alike but for the last variable, have six variables *)
(* and more, and a clause of sixteen literals makes the distribution too wide  *)
(* for the header.                                                             *)
EXTENDS KeyForm, TLC

CONSTANTS c1, c2, c3, c4
Symmetry == Permutations({c1, c2, c3, c4})

Request(vs, shapes) ==
  {[component |-> vs, clauses |-> f] : f \in [{c1, c2, c3, c4} -> shapes]}
Sixteen == [i \in 1 .. 16 |-> i + 4]
MCInputs ==
  Request(<<1, 2, 3, 4>>, {{1, 2}, {1, 2, 3}, {-2, 3}, {1, 3, 4}, {1, -2, 3}, {}})
    \cup Request(<<3>>, {{}}) \cup Request(<<2, 3>>, {{2, -3}, {-2, 3}})
    \cup Request(<<2, 8>>, {{2, -8}, {}}) \cup Request(<<2, 12>>, {{2, -12}, {}})
    \cup Request(<<2, 16>>, {{2, -16}, {}}) \cup Request(<<2, 24>>, {{2, -24}, {}})
    \cup Request(<<1, 2, 3>>, {{1, 2}, {-2, 3}, {1, 3}, {-1, -3}})
    \cup Request(<<1, 2, 3, 5, 6, 7>>, {{1, 2}, {6, -7}})
    \cup Request(<<1, 2, 3, 5, 6, 16>>, {{1, 2}, {6, -16}})
    \cup Request(Sixteen, {ToSet(Sixteen), {}})
    \cup Request(Sixteen, {ToSet(Sixteen) \ {5}, {}})
=============================================================================

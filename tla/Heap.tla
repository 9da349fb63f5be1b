--------------------------------- MODULE Heap ---------------------------------
(***************************************************************************)
(* The binary heap of the decisions: a sequence whose element at k comes   *)
(* before those at 2k and 2k + 1.  The place of an element (the vector     *)
(* "indices") is its place in the sequence.                                *)
(***************************************************************************)
EXTENDS Naturals, Sequences, SequencesExt

InHeap(h, n) == n \in ToSet(h)
Parent(k) == k \div 2
MoreActive(activity, x, y) == activity[x] > activity[y]   \* VarOrderLt

\* The element at i moves towards the root, past those it comes before.
PercolateUp(h, i, activity) ==
  LET x == h[i]
      up[k \in 1 .. i] ==
        IF k > 1 /\ MoreActive(activity, x, h[Parent(k)]) THEN [up[Parent(k)] EXCEPT ![k] = h[Parent(k)]]
                                            ELSE [h EXCEPT ![k] = x]
  IN  up[i]

\* The element at i moves towards the leaves, past the first of two children.
FirstChild(h, k, activity) ==
  IF 2 * k + 1 <= Len(h) /\ MoreActive(activity, h[2 * k + 1], h[2 * k]) THEN 2 * k + 1 ELSE 2 * k
PercolateDown(h, i, activity) ==
  LET x == h[i]
      down[k \in 1 .. Len(h)] ==
        LET child == FirstChild(h, k, activity) IN
        IF 2 * k <= Len(h) /\ MoreActive(activity, h[child], x) THEN [down[child] EXCEPT ![k] = h[child]]
                                                  ELSE [h EXCEPT ![k] = x]
  IN  down[i]

Insert(h, n, activity) == PercolateUp(Append(h, n), Len(h) + 1, activity)

\* The element n comes earlier than before.
Decrease(h, n, activity) ==
  PercolateUp(h, CHOOSE k \in DOMAIN h : h[k] = n, activity)

RemoveMin(h, activity) ==
  LET rest == Front([h EXCEPT ![1] = h[Len(h)]]) IN
  IF Len(rest) > 1 THEN PercolateDown(rest, 1, activity) ELSE rest

Build(ns, activity) ==
  FoldLeft(LAMBDA h, k : PercolateDown(h, k, activity),
           ns, Reverse([k \in 1 .. Len(ns) \div 2 |-> k]))
=============================================================================

----------------------------- MODULE SolverSearch -----------------------------
(***************************************************************************)
(* The methods of the class Solver that a solve is made of, as operators   *)
(* on the object: assigning and unassigning, the visit of a watch list,    *)
(* the two analyses of a conflict, the final conflict, and the reduction   *)
(* of the clauses.  None of them chooses: which learnt clauses go, and     *)
(* when, is chosen by the actions of module Solver.                        *)
(***************************************************************************)
EXTENDS SolverTypes

UncheckedEnqueue(s, p, from) == [s EXCEPT !.trail = Append(@, [lit |-> p, reason |-> from])]
NewDecisionLevel(s) == [s EXCEPT !.lim = Append(@, Len(s.trail))]

\* A variable goes back to the heap of the decisions if it belongs to the
\* component that is solved.
InsertVarOrder(s, v) ==
  IF InHeap(s.heap, v) \/ v \notin s.component THEN s
  ELSE [s EXCEPT !.heap = Insert(@, v, s.activity)]

\* Each value is kept as the phase of its variable.
CancelUntil(s, lev) ==
  IF DecisionLevel(s) <= lev THEN s
  ELSE LET n == s.lim[lev + 1]
           undo(t, entry) == InsertVarOrder([t EXCEPT !.polarity[VarOf(entry.lit)] = entry.lit < 0],
                                            VarOf(entry.lit))
           freed == FoldLeft(undo, s, Reverse(SubSeq(s.trail, n + 1, Len(s.trail))))
       IN  [freed EXCEPT !.qhead = n, !.trail = SubSeq(@, 1, n), !.lim = SubSeq(@, 1, lev)]

\* pickBranchLit: variables leave the heap until one is unassigned; "var" is 0
\* if none is.
PickBranchLit(s) ==
  LET after[n \in 0 .. Len(s.heap)] ==
        IF n = 0 THEN s.heap ELSE RemoveMin(after[n - 1], s.activity)
      found == {n \in 0 .. Len(s.heap) - 1 : Unassigned(s, after[n][1])}
      v == after[Min(found)][1]
  IN  IF found = {} THEN [lit |-> 0, heap |-> <<>>]
      ELSE [lit |-> IF s.polarity[v] THEN -v ELSE v, heap |-> after[Min(found) + 1]]

\* Rescaling divides all activities by the same number and is left out.
VarBumpActivity(s, v) ==
  LET activity == [s.activity EXCEPT ![v] = @ + s.varInc] IN
  [s EXCEPT !.activity = activity,
            !.heap = IF InHeap(@, v) THEN Decrease(@, v, activity) ELSE @]
VarDecayActivity(s) == [s EXCEPT !.varInc = 2 * @]

-----------------------------------------------------------------------------
(* propagate.  Visiting the watchers of a literal p that became true: acc  *)
(* holds the object, the watchers that stay in the list of p and the       *)
(* clause found false, if any.                                             *)

\* The clause with the literal that became false in second place.
FalseSecond(c, falseLit) == IF c[1] = falseLit THEN [c EXCEPT ![1] = c[2], ![2] = falseLit] ELSE c

\* (Mutant of NewWatches: the last literal is never looked at.)
NewWatchesButLast(s, c) == {k \in 3 .. Len(c) - 1 : ~IsFalse(s, c[k])}
NewWatches(s, c) == {k \in 3 .. Len(c) : ~IsFalse(s, c[k])}

\* A watcher that is not looked at stays as it is.
Keep(acc, w) == [acc EXCEPT !.kept = Append(@, w)]

VisitWatcher(acc, w, p) ==
  LET s == acc.s
      c == FalseSecond(s.ca[w.cref].lits, -p)
      first == c[1]
      kept == [acc EXCEPT !.s.ca[w.cref].lits = c, !.kept = Append(@, Watcher(w.cref, first))]
      k == Min(NewWatches(s, c))
  IN  IF acc.confl # 0 \/ IsTrue(s, w.blocker) THEN Keep(acc, w)
      ELSE IF IsTrue(s, first) THEN kept
      ELSE IF NewWatches(s, c) # {}
        THEN [acc EXCEPT !.s.ca[w.cref].lits = [c EXCEPT ![2] = c[k], ![k] = -p],
                         !.s.watches[-c[k]] = Append(@, Watcher(w.cref, first))]
      ELSE IF IsFalse(s, first)
        THEN [kept EXCEPT !.confl = w.cref, !.s.qhead = Len(s.trail)]
      ELSE [kept EXCEPT !.s = UncheckedEnqueue(@, first, w.cref)]

\* One turn of the loop over the trail.
PropagateOne(dirty) ==
  LET s == CleanAll(dirty)
      p == s.trail[s.qhead + 1].lit
      acc == FoldLeft(LAMBDA a, w : VisitWatcher(a, w, p),
                      [s |-> [s EXCEPT !.qhead = @ + 1], kept |-> <<>>, confl |-> 0], s.watches[p])
  IN  [s |-> [acc.s EXCEPT !.watches[p] = acc.kept], confl |-> acc.confl]

-----------------------------------------------------------------------------
(* analyze and analyzeLastUIP.  The trail is walked downwards from a       *)
(* conflict; "open" holds the variables of the current level that were met *)
(* and not yet resolved, "out" the literals of lower levels; the activity  *)
(* of every variable met ("seen", in that order) is bumped.                *)

Antecedents(s, cr) == Tail(s.ca[cr].lits)

Resolve(s, acc, lits) ==
  FoldLeft(LAMBDA a, q :
             IF VarOf(q) \in ToSet(a.seen) \/ Level(s, q) = 0 THEN a
             ELSE IF Level(s, q) >= DecisionLevel(s)
               THEN [a EXCEPT !.seen = Append(@, VarOf(q)), !.open = @ \cup {VarOf(q)}]
             ELSE [a EXCEPT !.seen = Append(@, VarOf(q)), !.out = Append(@, q)],
           acc, lits)

\* Where the walk stops: at the only open variable, or (last) at one without
\* a reason.
Walk(s, confl, last) ==
  LET start == Resolve(s, [seen |-> <<>>, open |-> {}, out |-> <<>>, uip |-> 0], s.ca[confl].lits)
      step(acc, entry) ==
        LET v == VarOf(entry.lit) IN
        IF acc.uip # 0 \/ v \notin acc.open THEN acc
        ELSE IF (IF last THEN entry.reason = 0 ELSE acc.open = {v})
          THEN [acc EXCEPT !.uip = entry.lit]
        ELSE Resolve(s, [acc EXCEPT !.open = @ \ {v}], Antecedents(s, entry.reason))
  IN  FoldLeft(step, start, Reverse(s.trail))

\* litRedundant: the places of the trail whose literals follow from those of
\* the clause, going down only through levels of the clause.
Absorbed(s, lits) ==
  LET levels == {Level(s, q) : q \in ToSet(lits)}
      step(A, k) ==
        IF \/ LevelAt(s, k) = 0
           \/ VarOf(s.trail[k].lit) \in VarsOf(ToSet(lits))
           \/ /\ s.trail[k].reason # 0
              /\ LevelAt(s, k) \in levels
              /\ \A q \in ToSet(Antecedents(s, s.trail[k].reason)) : Place(s, q) \in A
        THEN A \cup {k} ELSE A
  IN  FoldLeft(step, {}, [k \in DOMAIN s.trail |-> k])

Minimised(s, lits) ==
  LET absorbed == Absorbed(s, lits) IN
  SelectSeq(lits, LAMBDA q : \/ Reason(s, q) = 0
                             \/ \E a \in ToSet(Antecedents(s, Reason(s, q))) : Place(s, a) \notin absorbed)

\* The first literal of the highest level comes second: it is watched.
HighestSecond(s, c) ==
  IF Len(c) < 3 THEN c
  ELSE LET k == Min({j \in 2 .. Len(c) : \A i \in 2 .. Len(c) : Level(s, c[i]) <= Level(s, c[j])})
       IN  [c EXCEPT ![2] = c[k], ![k] = c[2]]

LearntFrom(s, walk) ==
  [clause |-> HighestSecond(s, <<-walk.uip>> \o Minimised(s, walk.out)),
   s |-> FoldLeft(VarBumpActivity, s, walk.seen)]
Analyze(s, confl) == LearntFrom(s, Walk(s, confl, FALSE))
AnalyzeLastUIP(s, confl) == LearntFrom(s, Walk(s, confl, TRUE))
\* The level to go back to: the highest of the other literals.
\* (Mutant of BackLevel: only the last decision is undone.)
BackOneLevel(s, c) == DecisionLevel(s) - 1
BackLevel(s, c) == IF Len(c) = 1 THEN 0 ELSE Level(s, c[2])

-----------------------------------------------------------------------------

\* analyzeFinal: the assumptions that p, which is true, follows from.
AnalyzeFinal(s, p) ==
  LET step(acc, k) ==
        LET e == s.trail[k] IN
        IF LevelAt(s, k) = 0 \/ VarOf(e.lit) \notin acc.seen THEN acc
        ELSE IF e.reason = 0 THEN [acc EXCEPT !.out = Append(@, -e.lit)]
        ELSE [acc EXCEPT !.seen = @ \cup {VarOf(q) : q \in {a \in ToSet(Antecedents(s, e.reason)) :
                                                               Level(s, a) > 0}}]
      places == Reverse([k \in DOMAIN s.trail |-> k])
  IN  IF DecisionLevel(s) = 0 THEN <<p>>
      ELSE <<p>> \o FoldLeft(step, [seen |-> {VarOf(p)}, out |-> <<>>], places).out

\* The clauses reduceDB may remove: long ones that are not locked.
Removable(s) == {cr \in ToSet(s.learnts) : Len(s.ca[cr].lits) > 2 /\ ~Locked(s, cr)}
Reduced(s, crs) == RemoveAll([s EXCEPT !.learnts = Without(@, crs)], crs)

HeapOf(s, C) == Build(Sorted(C), s.activity)
RebuildOrderHeap(s) == [s EXCEPT !.heap = HeapOf(s, {v \in s.component : Unassigned(s, v)})]

\* simplify, at level 0 with everything propagated.
RemoveSatisfied(s) ==
  LET gone(refs) == {cr \in ToSet(refs) : Satisfied(s, cr)}
      crs == gone(s.learnts) \cup IF s.removeSatisfied THEN gone(s.clauses) ELSE {}
  IN  RemoveAll([s EXCEPT !.learnts = Without(@, crs), !.clauses = Without(@, crs)], crs)
Simplify(s) ==
  [RebuildOrderHeap(CheckGarbage(RemoveSatisfied(s))) EXCEPT !.simpAssigns = Len(s.trail)]

\* rebuildWithConnectedComponent
RebuildWithConnectedComponent(s, C) == [s EXCEPT !.component = C, !.heap = HeapOf(s, C)]
=============================================================================

----------------------------- MODULE SolverTypes -----------------------------
(***************************************************************************)
(* The SAT solver as an object and the operations on its clauses: the      *)
(* arena ca of the clauses, the watch lists with their lazy removal, and   *)
(* the garbage collection that moves every clause.  A method of the class  *)
(* Solver is an operator from the object s (a record of its fields) to the *)
(* object after the call.                                                  *)
(*                                                                         *)
(* A reference to a clause (CRef) is its place in ca, 0 for CRef_Undef.  A *)
(* position of the trail holds a literal and the reason it was assigned    *)
(* for; the level of a literal is the number of limits (lim) below it.     *)
(* The activities of clauses are left out: what they order is any choice.  *)
(***************************************************************************)
EXTENDS Cnf, Heap

CONSTANT GarbagePercent   \* garbage_frac
ASSUME GarbageAssumption == GarbagePercent \in Nat

\* The literals in the order of the numbers they are indices by (mkLit), and
\* a set of variables or literals in that order (sort).
ByIndex == [k \in 1 .. 2 * Max(Var) |-> IF k % 2 = 1 THEN (k + 1) \div 2 ELSE -(k \div 2)]
Sorted(S) == SelectSeq(ByIndex, LAMBDA l : l \in S)

\* What a conflict adds at first to an activity, in units that the random
\* initial ones (rnd-init) stay below.
Unit == 8

\* newVar for every variable: each enters the heap, to be decided false first.
NewSolver(activity) ==
  [ok |-> TRUE, ca |-> <<>>, clauses |-> <<>>, learnts |-> <<>>,
   watches |-> [l \in Literal |-> <<>>], dirties |-> {},
   trail |-> <<>>, lim |-> <<>>, qhead |-> 0, assumptions |-> <<>>,
   activity |-> activity, varInc |-> Unit, polarity |-> [v \in Var |-> TRUE],
   heap |-> FoldLeft(LAMBDA h, v : Insert(h, v, activity), <<>>, Sorted(Var)),
   component |-> Var, simpAssigns |-> -1, removeSatisfied |-> TRUE]

Lits(s) == {s.trail[k].lit : k \in DOMAIN s.trail}
IsTrue(s, l) == \E k \in DOMAIN s.trail : s.trail[k].lit = l
IsFalse(s, l) == IsTrue(s, -l)
Unassigned(s, v) == ~IsTrue(s, v) /\ ~IsTrue(s, -v)

DecisionLevel(s) == Len(s.lim)
LevelAt(s, k) == Cardinality({j \in DOMAIN s.lim : s.lim[j] < k})
Place(s, l) == CHOOSE k \in DOMAIN s.trail : VarOf(s.trail[k].lit) = VarOf(l)
Level(s, l) == LevelAt(s, Place(s, l))
Reason(s, l) == s.trail[Place(s, l)].reason

\* The clause is the reason its first literal was assigned for.
Locked(s, cr) ==
  LET first == s.ca[cr].lits[1] IN IsTrue(s, first) /\ Reason(s, first) = cr

Satisfied(s, cr) == \E l \in ToSet(s.ca[cr].lits) : IsTrue(s, l)

-----------------------------------------------------------------------------
(* Clauses and their watches.                                              *)

Watcher(cr, blocker) == [cref |-> cr, blocker |-> blocker]

NewClause(lits, learnt) == [lits |-> lits, learnt |-> learnt, mark |-> FALSE, attached |-> FALSE]
NewRef(s) == Len(s.ca) + 1
Alloc(s, lits, learnt) == [s EXCEPT !.ca = Append(@, NewClause(lits, learnt))]

AttachClause(s, cr) ==
  LET c == s.ca[cr].lits IN
  [s EXCEPT !.ca[cr].attached = TRUE,
            !.watches[-c[1]] = Append(@, Watcher(cr, c[2])),
            !.watches[-c[2]] = Append(@, Watcher(cr, c[1]))]

\* Lazy detaching: the lists are cleaned later.
DetachClause(s, cr) ==
  LET c == s.ca[cr].lits IN
  [s EXCEPT !.ca[cr].attached = FALSE, !.dirties = @ \cup {-c[1], -c[2]}]

\* Watchers of clauses marked as removed leave the lists that are dirty.
CleanAll(s) ==
  [s EXCEPT !.watches = [l \in Literal |->
                          IF l \in s.dirties THEN SelectSeq(@[l], LAMBDA w : ~s.ca[w.cref].mark)
                                             ELSE @[l]],
            !.dirties = {}]

RemoveClause(s, cr) ==
  LET d == DetachClause(s, cr)
      first == s.ca[cr].lits[1]
  IN  [d EXCEPT !.ca[cr].mark = TRUE,
                !.trail = IF Locked(s, cr) THEN [@ EXCEPT ![Place(s, first)].reason = 0] ELSE @]

\* Add a clause of at least two literals to the learnt ones.
Learn(s, lits) ==
  AttachClause([Alloc(s, lits, TRUE) EXCEPT !.learnts = Append(@, NewRef(s))], NewRef(s))

-----------------------------------------------------------------------------
(* Garbage collection.                                                     *)

Watched(s) == {w.cref : w \in UNION {ToSet(s.watches[l]) : l \in Literal}}

\* The reasons that are followed: of the others the old place is kept.
\* (Mutant of RelocatedReasons: no reason is followed.)
RelocatedNoReason(s) == {}
RelocatedReasons(s) ==
  {r \in {s.trail[k].reason : k \in DOMAIN s.trail} \ {0} : r \in Watched(s) \/ Locked(s, r)}

\* A clause moves at the first visit, with its literals and marks.
Reloc(to, cr) == IF cr \in ToSet(to) THEN to ELSE Append(to, cr)

\* relocAll: the clauses of the watchers move first, then those of the
\* reasons, the learnt and the others; every reference is replaced.
GarbageCollect(dirty) ==
  LET s == CleanAll(dirty)
      reasons == RelocatedReasons(s)
      refsOf(l) == [k \in DOMAIN s.watches[l] |-> s.watches[l][k].cref]
      watched == FlattenSeq([k \in DOMAIN Sorted(Literal) |-> refsOf(Sorted(Literal)[k])])
      reasonRefs == SelectSeq([k \in DOMAIN s.trail |-> s.trail[k].reason], LAMBDA r : r \in reasons)
      to == FoldLeft(Reloc, <<>>, watched \o reasonRefs \o s.learnts \o s.clauses)
      moved(cr) == CHOOSE k \in DOMAIN to : to[k] = cr
      movedAll(refs) == [k \in DOMAIN refs |-> moved(refs[k])]
  IN  [s EXCEPT !.ca = [k \in DOMAIN to |-> @[to[k]]],
                !.watches = [l \in Literal |-> [k \in DOMAIN @[l] |-> [@[l][k] EXCEPT !.cref = moved(@)]]],
                !.trail = [k \in DOMAIN @ |->
                            IF @[k].reason \in reasons THEN [@[k] EXCEPT !.reason = moved(@)] ELSE @[k]],
                !.learnts = movedAll(@),
                !.clauses = movedAll(@)]

\* The arena in words: a clause takes three for its header, one for each
\* literal and one for its activity; a removed one is wasted until all move.
ClauseWord32Size(c) == 3 + Len(c.lits) + IF c.learnt THEN 1 ELSE 0
Words(s, crs) == MapThenSumSet(LAMBDA cr : ClauseWord32Size(s.ca[cr]), crs)
ArenaSize(s) == Words(s, DOMAIN s.ca)
Wasted(s) == Words(s, {cr \in DOMAIN s.ca : s.ca[cr].mark})
CheckGarbage(s) ==
  IF 100 * Wasted(s) > GarbagePercent * ArenaSize(s) THEN GarbageCollect(s) ELSE s

RemoveAll(s, crs) == FoldSet(LAMBDA cr, t : RemoveClause(t, cr), s, crs)
Without(refs, crs) == SelectSeq(refs, LAMBDA cr : cr \notin crs)
=============================================================================

------------------------ MODULE OccurrenceManagerInv ------------------------
(***************************************************************************)
(* The inductive invariant behind the properties of OccurrenceManager.     *)
(* Its heart is that everything the manager maintains is a function of the *)
(* order in which the literals were assigned: the first n entries of the   *)
(* trail determine the lists and counters, so going back to a shorter      *)
(* trail brings back what was there.                                       *)
(***************************************************************************)
EXTENDS OccurrenceManager

\* Of a trail t: variable v is among its first n, or clause c has a true
\* literal among them.
AssignedBy(t, v, n) == \E k \in 1 .. n : VarOf(t[k]) = v
SatBy(t, c, n) == \E k \in 1 .. n : t[k] \in Lits[c]

\* The list of x after n assignments: a clause leaves it when it is satisfied
\* while x is unassigned; once x is assigned the list is frozen.
InList(t, c, x, n) ==
  /\ x \in Lits[c]
  /\ \A k \in 1 .. n : t[k] \in Lits[c] => AssignedBy(t, VarOf(x), k)
ListsAt(t, n) == [x \in Literal |-> {c \in Idx : InList(t, c, x, n)}]

\* False literals are counted until the clause is satisfied.
FalseSteps(t, c, n) == {k \in 1 .. n : -t[k] \in Lits[c] /\ ~SatBy(t, c, k - 1)}
SatCount(t, n) == [c \in Idx |-> IF SatBy(t, c, n) THEN 1 ELSE 0]
UnsatCount(t, n) == [c \in Idx |-> Cardinality(FalseSteps(t, c, n))]

\* The trail is the current assignment, each variable once.
OnceEach(t) == \A j, k \in 1 .. Len(t) : VarOf(t[j]) = VarOf(t[k]) => j = k
TrailInv ==
  /\ \A k \in 1 .. Len(trail) : currentValue[VarOf(trail[k])] = TruthOf(trail[k])
  /\ OnceEach(trail)
  /\ \A v \in Var : currentValue[v] # "undef" => AssignedBy(trail, v, Len(trail))

\* What preUpdate still has to assign is unassigned, and will falsify no clause.
LitsInv ==
  /\ \A k \in 1 .. Len(lits) : Undef(lits[k])
  /\ OnceEach(lits)
  /\ \A c \in Idx : ~FalsifiedAfter(c, lits)
  /\ pc # "assign" => lits = <<>> /\ reviewWatcher = {}

\* Lists and counters by the trail.
CountInv ==
  /\ occList = ListsAt(trail, Len(trail))
  /\ nbSat = SatCount(trail, Len(trail))
  /\ nbUnsat = UnsatCount(trail, Len(trail))

\* The calls to undo: bases grow, a component starts where its preUpdate ended,
\* and what was saved is what the first "base" literals determine.
FrameInv ==
  /\ \A f \in DOMAIN frames :
       /\ frames[f].base <= Len(trail)
       /\ frames[f].saved.occList = ListsAt(trail, frames[f].base)
       /\ frames[f].saved.nbSat = SatCount(trail, frames[f].base)
       /\ frames[f].saved.nbUnsat = UnsatCount(trail, frames[f].base)
  /\ \A f, g \in DOMAIN frames : f <= g => frames[f].base <= frames[g].base
  /\ \A f \in DOMAIN frames : frames[f].kind = "component" =>
       IF f = Len(frames) THEN frames[f].base = Len(trail)
                          ELSE frames[f + 1].base = frames[f].base
  /\ pc \in {"assign", "keepUnsatisfied", "unassign"} => TopIs("lits")
  /\ pc = "keepComponent" => TopIs("component")

\* Each stacked size still delimits the clauses it delimited when it was
\* pushed: partitioning permutes currentIdx below the innermost size only.
Prefix(n) == {currentIdx[k] : k \in 0 .. n - 1}
SizeInv ==
  /\ Len(stackSize) = IF pc = "assign" THEN Len(frames) - 1 ELSE Len(frames)
  /\ \A f \in DOMAIN stackSize :
       /\ Prefix(stackSize[f]) = frames[f].saved.clauses
       /\ currentSize <= stackSize[f]
  /\ \A f, g \in DOMAIN stackSize : f <= g => stackSize[g] <= stackSize[f]
  /\ pc = "assign" => CurrentClauses = frames[Len(frames)].saved.clauses

\* At every point the search can come back to, the watcher of a clause that is
\* unsatisfied there is unassigned there.  While preUpdate runs, a clause that
\* lost its watcher is in reviewWatcher.
WatchedAt(t, w, c, n) == SatBy(t, c, n) \/ ~AssignedBy(t, VarOf(w[c]), n)
WatchInv ==
  /\ \A c \in Idx : watcher[c] \in Lits[c]
  /\ \A c \in Idx : \A f \in DOMAIN frames : WatchedAt(trail, watcher, c, frames[f].base)
  /\ pc \notin {"assign", "unassign"} => \A c \in Idx : WatchedAt(trail, watcher, c, Len(trail))
  /\ pc = "assign" => \A c \in Idx : WatchedAt(trail, watcher, c, Len(trail)) \/ c \in reviewWatcher

\* The free variables of clause c after the first n literals of t, and what the
\* current clauses of the subproblem on the variables S are then.
FreeAt(t, c, n) == {VarOf(x) : x \in {y \in Lits[c] : ~AssignedBy(t, VarOf(y), n)}}
ClausesAt(t, n, S) == {c \in Idx : ~SatBy(t, c, n) /\ FreeAt(t, c, n) \cap S # {}}

\* No clause that is unsatisfied there has free variables inside and outside S.
ClosedAt(t, n, S) ==
  \A c \in Idx : \/ SatBy(t, c, n)
                 \/ FreeAt(t, c, n) \subseteq S
                 \/ FreeAt(t, c, n) \cap S = {}

\* Subproblems are nested, each cut off from the clauses outside it where its
\* call was made, and each call found the clauses of the one around it.
ScopeAt(f) == IF f = 0 THEN Var ELSE frames[f].scope
NestInv ==
  \A f \in DOMAIN frames :
    /\ frames[f].scope \subseteq ScopeAt(f - 1)
    /\ frames[f].kind = "lits" => frames[f].scope = ScopeAt(f - 1)
    /\ ClosedAt(trail, frames[f].base, frames[f].scope)
    /\ frames[f].saved.clauses = ClausesAt(trail, frames[f].base, ScopeAt(f - 1))

\* Between calls, the current clauses; during one, the marked variables.
ClausesInv ==
  /\ pc = "keepComponent" => inCurrentComponent = Scope
  /\ pc = "idle" => CurrentClauses = ClausesAt(trail, Len(trail), Scope)

\* The loop that partitions the clauses has kept those before i and put behind
\* those between currentSize and the size it started with.
PartitionInv ==
  Partitioning =>
    /\ i <= currentSize
    /\ \A k \in 0 .. i - 1 : Keep(currentIdx[k])
    /\ \A k \in currentSize .. stackSize[Len(stackSize)] - 1 : ~Keep(currentIdx[k])

IInv ==
  /\ TypeOK /\ TrailInv /\ LitsInv /\ CountInv /\ FrameInv /\ SizeInv /\ WatchInv
  /\ NestInv /\ ClausesInv /\ PartitionInv
=============================================================================

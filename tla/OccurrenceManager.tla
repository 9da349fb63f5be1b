-------------------------- MODULE OccurrenceManager --------------------------
(***************************************************************************)
(* The residual-formula manager of d4: DynamicOccurrenceManager on top of  *)
(* CnfOccurrenceManager.  It follows a depth-first search over partial     *)
(* assignments and maintains, incrementally and without ever copying a     *)
(* clause,                                                                 *)
(*   - per literal, the indices of the clauses it occurs in (occList),     *)
(*   - per clause, the numbers of its true and false literals (nbSat,      *)
(*     nbUnsat) and one literal that stands for it (watcher),              *)
(*   - the clauses of the current subproblem, as the first currentSize     *)
(*     entries of a permutation (currentIdx), with a stack of sizes.       *)
(*                                                                         *)
(* Nothing is saved to be restored: an undo replays the call backwards and *)
(* relies on the state being the one the call left.  preUpdate and         *)
(* postUpdate are loops over literals; one iteration is one step here, and *)
(* while pc is not "idle" only the running call can step.                  *)
(*                                                                         *)
(* Clauses are sets of literals.  The order of the literals of a clause    *)
(* only decides which of them becomes the watcher: FirstOf(c, S) is the    *)
(* first literal of clause c that is in S, for whatever order.  Literals   *)
(* are the signed integers of the DIMACS format (readableLit).             *)
(***************************************************************************)
EXTENDS Integers, Sequences, FiniteSets

CONSTANTS
  Var,       \* the variables, positive integers
  NbClause,  \* the number of clauses; their indices start at 0
  Lits,      \* the set of literals of each clause
  FirstOf(_, _),
  MaxBatch,  \* bound: literals in one preUpdate
  MaxFrames  \* bound: calls waiting to be undone

Literal == Var \cup {-v : v \in Var}
Idx == 0 .. NbClause - 1

ASSUME VarAssumption == Var \subseteq Nat \ {0}
ASSUME NbClauseAssumption == NbClause \in Nat
ASSUME LitsAssumption == Lits \in [Idx -> SUBSET Literal]
ASSUME NoEmptyClauseAssumption == \A c \in Idx : Lits[c] # {}
ASSUME FirstOfAssumption ==
  \A c \in Idx : \A S \in SUBSET Lits[c] : S # {} => FirstOf(c, S) \in S
ASSUME BoundAssumption == MaxBatch \in Nat /\ MaxFrames \in Nat

VARIABLES
  currentValue, \* [Var -> {"undef", "true", "false"}]
  nbSat,        \* [Idx -> Int], true literals counted in each clause
  nbUnsat,      \* [Idx -> Int], false literals counted in each clause
  occList,      \* [Literal -> SUBSET Idx]
  watcher,      \* [Idx -> Literal]
  currentIdx,   \* a permutation of Idx
  currentSize,  \* the current clauses are the first currentSize ones
  stackSize,    \* the sizes to go back to
  inCurrentComponent, \* the variables marked by updateCurrentClauseSet
  pc,           \* the call that is running, "idle" when there is none
  lits,         \* what preUpdate still has to assign
  reviewWatcher,\* preUpdate's local list of clauses that lost their watcher
  i,            \* the index of the loop that partitions currentIdx
  trail,        \* the literals passed to preUpdate and not undone, in order
  frames        \* the calls waiting to be undone, innermost last

formula == <<currentValue, nbSat, nbUnsat, occList, watcher, reviewWatcher>>
clauseSet == <<currentIdx, currentSize, stackSize, i>>
vars == <<formula, clauseSet, inCurrentComponent, pc, lits, trail, frames>>

VarOf(l) == IF l > 0 THEN l ELSE -l
TruthOf(l) == IF l > 0 THEN "true" ELSE "false"

Undef(l) == currentValue[VarOf(l)] = "undef"
LitTrue(l) == currentValue[VarOf(l)] = TruthOf(l)

\* The variables of the subproblem the last call left the caller in, and the
\* number of literals that were assigned when that call was made.
Scope == IF frames = <<>> THEN Var ELSE frames[Len(frames)].scope
Base == frames[Len(frames)].base
CurrentClauses == {currentIdx[k] : k \in 0 .. currentSize - 1}

(***************************************************************************)
(* A call pushes a frame: what the caller must hand back in reverse order. *)
(* "saved" is what the next pop has to bring back; the code keeps no copy. *)
(***************************************************************************)
Observed == [clauses |-> CurrentClauses, occList |-> occList,
             nbSat |-> nbSat, nbUnsat |-> nbUnsat]
PushFrame(kind, scope) ==
  frames' = Append(frames, [kind |-> kind, base |-> Len(trail),
                            scope |-> scope, saved |-> Observed])
PopFrame == frames' = SubSeq(frames, 1, Len(frames) - 1)
TopIs(kind) == frames # <<>> /\ frames[Len(frames)].kind = kind

-----------------------------------------------------------------------------
(* Construction: initFormula.                                              *)

Init ==
  /\ currentValue = [v \in Var |-> "undef"]
  /\ nbSat = [c \in Idx |-> 0]
  /\ nbUnsat = [c \in Idx |-> 0]
  /\ occList = [l \in Literal |-> {c \in Idx : l \in Lits[c]}]
  /\ watcher = [c \in Idx |-> FirstOf(c, Lits[c])]
  /\ currentIdx = [k \in Idx |-> k]
  /\ currentSize = NbClause
  /\ stackSize = <<>>
  /\ inCurrentComponent = {}
  /\ pc = "idle"
  /\ lits = <<>>
  /\ reviewWatcher = {}
  /\ i = 0
  /\ trail = <<>>
  /\ frames = <<>>

-----------------------------------------------------------------------------
(* What callers pass: literals of the solver's trail, which propagation    *)
(* found free of conflict, so they never falsify a clause.  The search     *)
(* passes literals of the current subproblem, the partitioner whatever the *)
(* solver has assigned besides.  Components are closed under sharing a     *)
(* clause.                                                                 *)

FalsifiedAfter(c, ls) ==
  \A x \in Lits[c] : LitTrue(-x) \/ \E k \in 1 .. Len(ls) : ls[k] = -x

Batch(ls) ==
  /\ \A k \in 1 .. Len(ls) : Undef(ls[k])
  /\ \A j, k \in 1 .. Len(ls) : VarOf(ls[j]) = VarOf(ls[k]) => j = k
  /\ \A c \in Idx : ~FalsifiedAfter(c, ls)

Satisfied(c) == \E l \in Lits[c] : LitTrue(l)
Unassigned(c) == {l \in Lits[c] : Undef(l)}
FreeVars(c) == {VarOf(l) : l \in Unassigned(c)}
Component(C) ==
  /\ C # {} /\ C \subseteq Scope
  /\ \A v \in C : currentValue[v] = "undef" /\ \E c \in Idx : ~Satisfied(c) /\ v \in FreeVars(c)
  /\ \A c \in Idx : Satisfied(c) \/ FreeVars(c) \subseteq C \/ FreeVars(c) \cap C = {}

-----------------------------------------------------------------------------
(* preUpdate(lits)                                                         *)

PreUpdate(ls) ==
  /\ pc = "idle" /\ Len(frames) < MaxFrames /\ ~TopIs("lits")
  /\ Batch(ls)
  /\ lits' = ls
  /\ PushFrame("lits", Scope)
  /\ pc' = "assign"
  /\ UNCHANGED <<formula, clauseSet, inCurrentComponent, trail>>

\* One iteration of the loop over lits.  The clauses l satisfies leave the
\* lists of their unassigned literals only: the lists of l, ~l and of the
\* literals assigned before stay as they are, for postUpdate to read.
\* (Mutants: nothing is taken out; the wrong list is searched for lost watchers.)
NothingTakenOut(x, l) == {}
TakenOut(x, l) == {c \in occList[l] : x \in Lits[c]}
LostWatcherOfTrue(l) == {c \in occList[l] : watcher[c] = l}
LostWatcher(l) == {c \in occList[-l] : watcher[c] = -l}

AssignLit ==
  /\ pc = "assign" /\ lits # <<>>
  /\ LET l == Head(lits) IN
     /\ currentValue' = [currentValue EXCEPT ![VarOf(l)] = TruthOf(l)]
     /\ nbSat' = [c \in Idx |-> IF c \in occList[l] THEN nbSat[c] + 1 ELSE nbSat[c]]
     /\ nbUnsat' = [c \in Idx |-> IF c \in occList[-l] THEN nbUnsat[c] + 1 ELSE nbUnsat[c]]
     /\ occList' = [x \in Literal |-> IF currentValue'[VarOf(x)] = "undef"
                                      THEN occList[x] \ TakenOut(x, l) ELSE occList[x]]
     /\ reviewWatcher' = reviewWatcher \cup LostWatcher(l)
     /\ trail' = Append(trail, l)
  /\ lits' = Tail(lits)
  /\ UNCHANGED <<watcher, clauseSet, inCurrentComponent, pc, frames>>

\* The loop over reviewWatcher: a clause that is satisfied keeps its watcher.
MustMove(c) == c \in reviewWatcher /\ nbSat[c] = 0 /\ Unassigned(c) # {}

\* Filtering currentIdx starts with the size to come back to.
StartPartition(loop) ==
  /\ stackSize' = Append(stackSize, currentSize)
  /\ i' = 0
  /\ pc' = loop
  /\ UNCHANGED <<currentIdx, currentSize>>

ReviewWatchers ==
  /\ pc = "assign" /\ lits = <<>>
  /\ watcher' = [c \in Idx |-> IF MustMove(c) THEN FirstOf(c, Unassigned(c))
                                              ELSE watcher[c]]
  /\ reviewWatcher' = {}
  /\ StartPartition("keepUnsatisfied")
  /\ UNCHANGED <<currentValue, nbSat, nbUnsat, occList, inCurrentComponent,
                 lits, trail, frames>>

-----------------------------------------------------------------------------
(* updateCurrentClauseSet(component), and the loop it shares with          *)
(* preUpdate: keep the clauses that pass the test in front, swap the others *)
(* behind.  The clause that comes to place i by a swap is examined too.    *)

UpdateCurrentClauseSet(C) ==
  /\ pc = "idle" /\ Len(frames) < MaxFrames /\ TopIs("lits")
  /\ Component(C)
  /\ inCurrentComponent' = C
  /\ PushFrame("component", C)
  /\ StartPartition("keepComponent")
  /\ UNCHANGED <<formula, lits, trail>>

\* (Mutant: the first literal of the clause stands for it, not the watcher.)
FirstLiteralInComponent(c) ==
  nbSat[c] = 0 /\ VarOf(FirstOf(c, Lits[c])) \in inCurrentComponent
IsNotSatisfiedClauseAndInComponent(c) ==
  nbSat[c] = 0 /\ VarOf(watcher[c]) \in inCurrentComponent
Keep(c) == IF pc = "keepUnsatisfied" THEN nbSat[c] = 0
                                     ELSE IsNotSatisfiedClauseAndInComponent(c)
Partitioning == pc \in {"keepUnsatisfied", "keepComponent"}

KeepClause ==
  /\ Partitioning /\ i < currentSize
  /\ Keep(currentIdx[i])
  /\ i' = i + 1
  /\ UNCHANGED <<formula, currentIdx, currentSize, stackSize,
                 inCurrentComponent, pc, lits, trail, frames>>

DropClause ==
  /\ Partitioning /\ i < currentSize
  /\ ~Keep(currentIdx[i])
  /\ currentSize' = currentSize - 1
  /\ currentIdx' = [currentIdx EXCEPT ![currentSize - 1] = currentIdx[i],
                                      ![i] = currentIdx[currentSize - 1]]
  /\ UNCHANGED <<formula, stackSize, i, inCurrentComponent, pc, lits, trail, frames>>

EndPartition ==
  /\ Partitioning /\ i >= currentSize
  /\ inCurrentComponent' = {}
  /\ i' = 0
  /\ pc' = "idle"
  /\ UNCHANGED <<formula, currentIdx, currentSize, stackSize, lits, trail, frames>>

-----------------------------------------------------------------------------
(* popPreviousClauseSet(), by itself and at the end of postUpdate(lits).   *)

PopSize ==
  /\ stackSize # <<>>
  /\ currentSize' = stackSize[Len(stackSize)]
  /\ stackSize' = SubSeq(stackSize, 1, Len(stackSize) - 1)
  /\ UNCHANGED <<currentIdx, i>>

PopPreviousClauseSet ==
  /\ pc = "idle" /\ TopIs("component")
  /\ PopSize
  /\ PopFrame
  /\ UNCHANGED <<formula, inCurrentComponent, pc, lits, trail>>

\* The caller passes the literals of the innermost preUpdate again: the trail
\* from Base + 1 on.  The loop runs from the last to the first.
PostUpdate ==
  /\ pc = "idle" /\ TopIs("lits")
  /\ pc' = "unassign"
  /\ UNCHANGED <<formula, clauseSet, inCurrentComponent, lits, trail, frames>>

PutBack(x, l) == {c \in occList[l] : x \in Lits[c]}
\* (Mutant: literals are undone in the order they were assigned.)
FirstToUndo == Base + 1
NextToUndo == Len(trail)
Remove(s, k) == [j \in 1 .. Len(s) - 1 |-> IF j < k THEN s[j] ELSE s[j + 1]]

UnassignLit ==
  /\ pc = "unassign" /\ Len(trail) > Base
  /\ LET l == trail[NextToUndo] IN
     /\ nbSat' = [c \in Idx |-> IF c \in occList[l] THEN nbSat[c] - 1 ELSE nbSat[c]]
     /\ occList' = [x \in Literal |-> IF Undef(x) THEN occList[x] \cup PutBack(x, l)
                                                  ELSE occList[x]]
     /\ nbUnsat' = [c \in Idx |-> IF c \in occList[-l] THEN nbUnsat[c] - 1 ELSE nbUnsat[c]]
     /\ currentValue' = [currentValue EXCEPT ![VarOf(l)] = "undef"]
  /\ trail' = Remove(trail, NextToUndo)
  /\ UNCHANGED <<watcher, reviewWatcher, clauseSet, inCurrentComponent, pc, lits, frames>>

EndPostUpdate ==
  /\ pc = "unassign" /\ Len(trail) = Base
  /\ PopSize
  /\ PopFrame
  /\ pc' = "idle"
  /\ UNCHANGED <<formula, inCurrentComponent, lits, trail>>

-----------------------------------------------------------------------------
Batches == UNION {[1 .. n -> Literal] : n \in 0 .. MaxBatch}

Next ==
  \/ \E ls \in Batches : PreUpdate(ls)
  \/ AssignLit
  \/ ReviewWatchers
  \/ \E C \in SUBSET Var : UpdateCurrentClauseSet(C)
  \/ KeepClause
  \/ DropClause
  \/ EndPartition
  \/ PopPreviousClauseSet
  \/ PostUpdate
  \/ UnassignLit
  \/ EndPostUpdate

Spec == Init /\ [][Next]_vars

-----------------------------------------------------------------------------
(* Properties.                                                             *)

\* Lists, counters, watchers and the stack of clause sets keep their types.
TypeOK ==
  /\ currentValue \in [Var -> {"undef", "true", "false"}]
  /\ nbSat \in [Idx -> Int]
  /\ nbUnsat \in [Idx -> Int]
  /\ occList \in [Literal -> SUBSET Idx]
  /\ watcher \in [Idx -> Literal]
  /\ currentIdx \in [Idx -> Idx]
  /\ currentSize \in 0 .. NbClause
  /\ stackSize \in Seq(0 .. NbClause)
  /\ inCurrentComponent \in SUBSET Var
  /\ pc \in {"idle", "assign", "keepUnsatisfied", "keepComponent", "unassign"}
  /\ lits \in Seq(Literal)
  /\ reviewWatcher \in SUBSET Idx
  /\ i \in Nat
  /\ trail \in Seq(Literal)
  /\ frames \in Seq([kind : {"lits", "component"}, base : Nat,
                     scope : SUBSET Var,
                     saved : [clauses : SUBSET Idx, occList : [Literal -> SUBSET Idx],
                              nbSat : [Idx -> Int], nbUnsat : [Idx -> Int]]])

\* The list of an unassigned literal holds exactly the unsatisfied clauses of
\* the literal, whatever was assigned and undone before (debug() tests both
\* halves): component search, scores and the next undo read these lists.
OccListsExact ==
  \A x \in Literal : Undef(x) => occList[x] = {c \in Idx : x \in Lits[c] /\ ~Satisfied(c)}

\* A clause is counted satisfied once, by the first of its literals that became
\* true, however many are true now; so one undo makes it unsatisfied again.
NbSatExact == \A c \in Idx : nbSat[c] = IF Satisfied(c) THEN 1 ELSE 0

\* In an unsatisfied clause nbUnsat is the number of false literals (debug()):
\* the cache compares it with 0 to leave untouched clauses out of its keys.
NbUnsatExact ==
  \A c \in Idx : ~Satisfied(c) => nbUnsat[c] = Cardinality({l \in Lits[c] : LitTrue(-l)})

\* Lists and counters are what they are at all times taken for.
ListsAndCountersExact == OccListsExact /\ NbSatExact /\ NbUnsatExact

\* Outside the two loops over literals every unsatisfied clause is watched by
\* an unassigned literal of its own, although watchers are never restored
\* (the assertion of isNotSatisfiedClauseAndInComponent).
WatcherUnassigned ==
  pc \notin {"assign", "unassign"} =>
    \A c \in Idx : Satisfied(c) \/ (watcher[c] \in Lits[c] /\ Undef(watcher[c]))

\* removeIdxFromOccList finds the index it is asked to remove (its two
\* assertions), and postUpdate never puts an index in a list that has it.
ListUpdatesDefined ==
  /\ pc = "assign" /\ lits # <<>> =>
       LET l == Head(lits) IN
       \A c \in occList[l] : \A x \in Lits[c] :
         Undef(x) /\ VarOf(x) # VarOf(l) => c \in occList[x]
  /\ pc = "unassign" /\ Len(trail) > Base =>
       LET l == trail[NextToUndo] IN
       \A c \in occList[l] : \A x \in Lits[c] : Undef(x) => c \notin occList[x]

\* Between calls the current clauses are the unsatisfied clauses with an
\* unassigned variable in the current subproblem: what the cache stores as the
\* key of the subproblem (and what getCurrentClauses asserts).
CurrentClausesExact ==
  pc = "idle" =>
    CurrentClauses = {c \in Idx : ~Satisfied(c) /\ FreeVars(c) \cap Scope # {}}

\* An undo gives back the lists, the counters and the current clauses that the
\* call being undone found, though it recomputes all of them.
UndoRestores ==
  [][Len(frames') < Len(frames) => Observed' = frames[Len(frames)].saved]_vars
=============================================================================
